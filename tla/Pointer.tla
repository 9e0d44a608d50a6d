------------------------------ MODULE Pointer ------------------------------
(***************************************************************************)
(* How the two readers turn the s3_path of an index entry into the place   *)
(* of a line: parsePointer (internal/reader/service.go), used by the       *)
(* orchestrator, and parseS3Path (main.go), used by the older read         *)
(* service.  Both are pure; neither keeps state.                           *)
(*                                                                         *)
(* A path is lexed, not spelled: it is a sequence of tokens, and a token   *)
(* is one of the separators the parsers look for, a decimal number, or a   *)
(* name (a maximal piece of text with no separator that matters).          *)
(***************************************************************************)
EXTENDS Integers, Sequences, SequencesExt

Slash     == [kind |-> "slash"]
Pipe      == [kind |-> "pipe"]
Scheme    == [kind |-> "scheme"]             \* the literal "s3:"
Name(s)   == [kind |-> "name", text |-> s]
Number(n) == [kind |-> "number", value |-> n]

Has(path, kind) == \E i \in DOMAIN path : path[i].kind = kind

(* Text that has been lexed: a separator is itself, a number its digits.   *)
Lexed(path) ==
  /\ path \in Seq(Range(path))
  /\ \A t \in Range(path) : /\ t.kind = "slash" => t = Slash
                            /\ t.kind = "pipe" => t = Pipe
                            /\ t.kind = "number" => t = Number(t.value)

(* What S3 takes for the name of a bucket: at least three lower-case       *)
(* letters, digits, dots and hyphens.                                      *)
IsBucketName(b) == Lexed(b) /\ b # <<>> /\ ~Has(b, "slash") /\ ~Has(b, "pipe")

(* Defect: strings.TrimPrefix, one slash goes.                             *)
TrimOne(path) == IF path # <<>> /\ path[1] = Slash THEN Tail(path) ELSE path

(* strings.TrimLeft(path, "/"): every leading slash goes.                  *)
TrimLeft(path) ==
  LET first == SelectInSeq(path, LAMBDA t : t.kind # "slash")
  IN  IF first = 0 THEN <<>> ELSE SubSeq(path, first, Len(path))

(* The k-th smallest of a finite set of numbers.                           *)
Nth(I, k) == CHOOSE i \in I : Cardinality({h \in I : h <= i}) = k

(* strings.SplitN(path, sep, n): at most n pieces, cut at the first n - 1  *)
(* separators; the last piece keeps the separators that are left.          *)
SplitN(path, sep, n) ==
  LET seps   == {i \in DOMAIN path : path[i].kind = sep}
      pieces == IF Cardinality(seps) < n THEN Cardinality(seps) + 1 ELSE n
      from(k) == IF k = 1 THEN 1 ELSE Nth(seps, k - 1) + 1
      to(k)   == IF k = pieces THEN Len(path) ELSE Nth(seps, k) - 1
  IN  [k \in 1 .. pieces |-> SubSeq(path, from(k), to(k))]

(* Defect: Sscanf, a number followed by anything.                          *)
StartsWithNumber(piece) == piece # <<>> /\ piece[1].kind = "number"

(* strconv.ParseInt succeeds on a piece that is one number and nothing     *)
(* else: a fourth piece that still holds a pipe is not a number.           *)
IsNumber(piece) == Len(piece) = 1 /\ piece[1].kind = "number"

Located(bucket, key, start, end) ==
  [ok |-> TRUE, bucket |-> bucket, key |-> key, start |-> start, end |-> end]

Unresolved == [ok |-> FALSE]

(* Case A, "bucket|key|start|end": the offsets in the path win over the    *)
(* entry's own fields.                                                     *)
FromRawValue(parts) ==
  IF IsNumber(parts[3]) /\ IsNumber(parts[4])
  THEN Located(parts[1], parts[2], parts[3][1].value, parts[4][1].value)
  ELSE Unresolved

(* Case B, the offsets come from the entry.  A pipe that is not the first  *)
(* byte separates the bucket from the key; otherwise the whole path is the *)
(* key.                                                                    *)
FromFields(path, start, end) ==
  LET parts == SplitN(path, "pipe", 2)
  IN  CASE end <= start -> Unresolved
        [] end > start /\ Len(parts) = 2 /\ parts[1] # <<>> ->
             Located(parts[1], parts[2], start, end)
        [] OTHER -> Located(<<>>, path, start, end)

(* parsePointer.                                                           *)
ParsePointer(s3Path, metaStart, metaEnd) ==
  LET path  == TrimLeft(s3Path)
      parts == SplitN(path, "pipe", 4)
  IN  IF Len(parts) = 4 THEN FromRawValue(parts) ELSE FromFields(path, metaStart, metaEnd)

(* Defect: every pipe cuts.                                                *)
ParseS3PathAtEveryPipe(s3Path, start, end) ==
  LET parts == SplitN(s3Path, "pipe", Len(s3Path) + 1)
  IN  IF Len(parts) = 2 THEN Located(parts[1], parts[2], start, end) ELSE Unresolved

(* parseS3Path of the older service with the test its caller makes on the  *)
(* result: everything after the first pipe is the key, so the offsets of a *)
(* raw value end up inside it.  An empty bucket or key drops the entry.    *)
ParseS3Path(s3Path, start, end) ==
  LET uri   == Len(s3Path) >= 3 /\ SubSeq(s3Path, 1, 3) = <<Scheme, Slash, Slash>>
      parts == CASE Has(s3Path, "pipe") -> SplitN(s3Path, "pipe", 2)
                 [] ~Has(s3Path, "pipe") /\ uri ->
                      SplitN(SubSeq(s3Path, 4, Len(s3Path)), "slash", 2)
                 [] OTHER -> <<>>
  IN  IF Len(parts) = 2 /\ parts[1] # <<>> /\ parts[2] # <<>>
      THEN Located(parts[1], parts[2], start, end)
      ELSE Unresolved
=============================================================================
