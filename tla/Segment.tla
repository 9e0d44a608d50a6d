------------------------------ MODULE Segment ------------------------------
(***************************************************************************)
(* A segment is an S3 object of newline-terminated JSON lines, one event   *)
(* per line, written by the index-builder.  This module is what the        *)
(* readers do with one: the ranged read of the orchestrator (GetRange of   *)
(* internal/s3store/client.go), the whole-object read and slicing of the   *)
(* older service (fetchEventsFromS3File of main.go), and the two event     *)
(* parsers.                                                                *)
(*                                                                         *)
(* A segment is the set of its lines.  A line occupies the bytes           *)
(* line.from .. line.to - 1, the last of which is its newline;             *)
(* line.json tells whether its text is a JSON object, line.id is its       *)
(* "_event_id" ("" when it has none) and line.time its "_event_timestamp": *)
(* how it is written ("rfc3339", "naive" for a time without a zone, or     *)
(* "none" for anything that no parser takes) and the instant it denotes;   *)
(* line.category is its "_category".                                       *)
(***************************************************************************)
EXTENDS Integers, FiniteSets, FiniteSetsExt

(* Lines do not overlap, each has at least its newline, and a JSON object  *)
(* two braces as well.                                                     *)
IsSegment(segment) ==
  /\ IsFiniteSet(segment)
  /\ \A line \in segment :
       /\ line.from \in Nat /\ line.to \in Nat
       /\ IF line.json THEN line.from + 2 < line.to ELSE line.from < line.to
  /\ \A l, m \in segment : l = m \/ l.to <= m.from \/ m.to <= l.from

Size(segment) == Max({0} \cup {line.to : line \in segment})

Clip(end, segment) == IF end > Size(segment) THEN Size(segment) ELSE end

(* Bytes first..last, both included, decode as the text of line when they  *)
(* hold all of it and nothing else but the newline on either side, which   *)
(* JSON reads as white space.  A proper part of a JSON object, or an       *)
(* object and a piece of the next line, is not JSON.                       *)
Spells(line, first, last) ==
  /\ line.json
  /\ first \in {line.from - 1, line.from}
  /\ last \in {line.to - 2, line.to - 1}

Decoded(segment, first, last) ==
  {line \in segment : Spells(line, first, last)}

(***************************************************************************)
(* GetRange of the orchestrator: [start, end) is refused without a call    *)
(* when it is empty; otherwise the header "bytes=start-(end - 1)" names    *)
(* its first and last byte, and the server clips the last byte to the      *)
(* object and answers 416 when the first is beyond it.                     *)
(***************************************************************************)
RefusedRange(start, end) == end <= start

(* Defect: the exclusive end is asked for too.                             *)
RangeHeaderInclusive(start, end) == [first |-> start, last |-> end]

RangeHeader(start, end) == [first |-> start, last |-> end - 1]

Satisfiable(segment, range) == range.first \in 0 .. Size(segment) - 1

LastByteSent(segment, range) == Clip(range.last + 1, segment) - 1

(***************************************************************************)
(* parseEvent of the orchestrator: the reference id is the one asked for,  *)
(* whatever the line says; the timestamp is the line's when it is RFC 3339 *)
(* and the index entry's otherwise.                                        *)
(***************************************************************************)
ReaderEvent(line, ref, metaTS) ==
  [id |-> line.id, ref |-> ref,
   ts |-> IF line.time.form = "rfc3339" THEN line.time.value ELSE metaTS]

(***************************************************************************)
(* The older service reads the whole object and slices it.  A slice whose  *)
(* start is beyond the object is skipped, an end beyond it is clipped; a   *)
(* slice that then still ends before it starts is a Go run-time panic.     *)
(***************************************************************************)
(* Defect: a start beyond the object is not looked at.                     *)
PanicsUnchecked(segment, start, end) == start < 0 \/ Clip(end, segment) < start

Panics(segment, start, end) ==
  start < Size(segment) /\ (start < 0 \/ Clip(end, segment) < start)

Sliced(segment, start, end) ==
  IF start >= Size(segment) THEN {}
  ELSE Decoded(segment, start, Clip(end, segment) - 1)

(* Its parseEvent takes a time without a zone too, never the entry's       *)
(* timestamp, and leaves 0 when the line has no time it understands.       *)
ServiceTimestamp(line) ==
  IF line.time.form \in {"rfc3339", "naive"} THEN line.time.value ELSE 0

ServiceEvent(line) == [id |-> line.id, ts |-> ServiceTimestamp(line)]
=============================================================================
