-------------------------- MODULE MCPointerReaders --------------------------
(***************************************************************************)
(* Keys with and without separators in them, and two byte ranges.          *)
(***************************************************************************)
EXTENDS PointerReaders

MCKeys == {
  <<Name("s.ndjson")>>,
  <<Name("events"), Slash, Name("17"), Slash, Name("s.ndjson")>>,
  <<Slash, Name("s.ndjson")>>,
  <<Name("events"), Pipe, Name("s.ndjson")>>,
  <<Name("events"), Pipe, Name("w"), Pipe, Name("s.ndjson")>>,
  <<Name("events"), Pipe, Number(5), Pipe, Name("s.ndjson")>>,
  <<Number(17), Pipe, Number(3)>>,
  <<Name("s.ndjson"), Pipe, Number(5), Pipe, Number(7)>>}

MCPlaces ==
  [bucket : {<<Name("events-bucket")>>}, key : MCKeys, start : {0, 4}, end : {8, 9}]

MCSlashes == 0 .. 2
=============================================================================
