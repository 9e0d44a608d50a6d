--------------------------- MODULE PointerReaders ---------------------------
(***************************************************************************)
(* One index entry and the two readers that resolve it.  The builder of    *)
(* the index and the rocksdb-node are not in this repository: the forms in *)
(* which they name a place are the ones parsePointer documents and handles *)
(* (service.go:236-267).                                                   *)
(***************************************************************************)
EXTENDS Pointer

CONSTANTS
  Places,    \* the places of lines: [bucket, key, start, end], start < end
  Slashes    \* how many slashes may stand before a path

ASSUME PlacesAssumption ==
  \A p \in Places :
    /\ IsBucketName(p.bucket)
    /\ Lexed(p.key) /\ p.key # <<>>
    /\ p.start \in Nat /\ p.end \in Nat /\ p.start < p.end
ASSUME SlashesAssumption == Slashes \subseteq Nat

VARIABLES
  place,       \* the place the entry is meant to name
  form,        \* the form in which it names it
  s3Path, startByte, endByte,   \* the entry
  resolved,    \* what parsePointer made of it
  resolvedOld  \* what parseS3Path and its caller made of it

entryVars == <<place, form, s3Path, startByte, endByte, resolved, resolvedOld>>

Unread == [ok |-> FALSE, read |-> FALSE]

Leading(n) == [k \in 1 .. n |-> Slash]

(* The raw value of the builder, "bucket|objectKey|startByte|endByte", and *)
(* the form of the rocksdb-node, "bucket|objectKey" with the offsets in    *)
(* the entry.                                                              *)
RawValue(p) ==
  p.bucket \o <<Pipe>> \o p.key \o <<Pipe, Number(p.start), Pipe, Number(p.end)>>

NodeValue(p) == p.bucket \o <<Pipe>> \o p.key

(* "The full path including bucket" of the comment at service.go:238.      *)
FullPath(p) == p.bucket \o <<Slash>> \o p.key

PathIn(f, p) ==
  CASE f = "raw"  -> RawValue(p)
    [] f = "node" -> NodeValue(p)
    [] f = "full" -> FullPath(p)
    [] f = "uri"  -> <<Scheme, Slash, Slash>> \o FullPath(p)

EntryInit ==
  /\ place \in Places
  /\ form \in {"raw", "node", "full", "uri"}
  /\ \E n \in Slashes : s3Path = Leading(n) \o PathIn(form, place)
  /\ startByte = IF form = "raw" THEN 0 ELSE place.start
  /\ endByte   = IF form = "raw" THEN 0 ELSE place.end
  /\ resolved = Unread
  /\ resolvedOld = Unread

(* parsePointer of the orchestrator.                                       *)
Read ==
  /\ resolved = Unread
  /\ resolved' = ParsePointer(s3Path, startByte, endByte)
  /\ UNCHANGED <<place, form, s3Path, startByte, endByte, resolvedOld>>

(* parseS3Path of the older service.                                       *)
ReadOld ==
  /\ resolvedOld = Unread
  /\ resolvedOld' = ParseS3Path(s3Path, startByte, endByte)
  /\ UNCHANGED <<place, form, s3Path, startByte, endByte, resolved>>

(* The entry has been read by both.                                        *)
ReadByBoth ==
  /\ resolved # Unread
  /\ resolvedOld # Unread
  /\ UNCHANGED entryVars

EntryNext == Read \/ ReadOld \/ ReadByBoth

EntrySpec == EntryInit /\ [][EntryNext]_entryVars

-----------------------------------------------------------------------------
ThePlace == Located(place.bucket, place.key, place.start, place.end)

(* The pieces a pipe cuts a key into.                                      *)
Pipes(key) == {k \in DOMAIN key : key[k].kind = "pipe"}

(* parsePointer resolves both forms of the index to exactly the place they *)
(* mean, with any number of slashes in front and whatever slashes the key  *)
(* has in it (service.go:259-261), as long as the key has no pipe.         *)
IndexFormsResolve ==
  resolved # Unread /\ form \in {"raw", "node"} /\ Pipes(place.key) = {}
    => resolved = ThePlace

(* A key with pipes in it is resolved right or refused: parsePointer reads *)
(* another place only from a path that is, byte for byte, also the raw     *)
(* value of that other place.                                              *)
NeverAnotherPlace ==
  resolved.ok /\ form \in {"raw", "node"} =>
    \/ resolved = ThePlace
    \/ TrimLeft(s3Path) = RawValue(resolved)

(* What the orchestrator reads right from an entry of the rocksdb-node the *)
(* older service reads alike, whatever is in the key; only slashes in      *)
(* front of the path it does not take away (main.go:745-751).              *)
ReadersAgreeOnNodeValues ==
  /\ resolvedOld # Unread
  /\ resolved = ThePlace
  /\ form = "node"
  /\ s3Path[1] # Slash
  => resolvedOld = resolved

(* service.go:238: the node "returns s3_path as the full path including    *)
(* bucket: "events-bucket/events/timestamp/writer/segment.ndjson"": the    *)
(* bucket is then no part of the key.                                      *)
FullPathResolves ==
  resolved # Unread /\ form = "full" => resolved = ThePlace
=============================================================================
