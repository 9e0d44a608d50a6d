------------------------------ MODULE MCLookup ------------------------------
(***************************************************************************)
(* A small index and a small bucket for Lookup.                            *)
(***************************************************************************)
EXTENDS LookupRefinement

None       == [form |-> "none", value |-> 0]
At(t)      == [form |-> "rfc3339", value |-> t]
Line(from, to, id, time, json) ==
  [from |-> from, to |-> to, id |-> id, time |-> time, json |-> json,
   category |-> ""]

events == <<Name("events-bucket")>>
other  == <<Name("other-bucket")>>
seg    == <<Name("events/1/w/s.ndjson")>>
gone   == <<Name("events/1/w/gone.ndjson")>>

first  == Line(0, 4, "e1", At(7), TRUE)
second == Line(4, 9, "e2", None, TRUE)
torn   == Line(9, 12, "", None, FALSE)
noId   == Line(12, 15, "", None, TRUE)

MCStore ==
  <<events, seg>> :> {first, second, torn, noId} @@
  <<other, seg>> :> {Line(0, 4, "x1", None, TRUE)}

Raw(b, key, start, end) ==
  [s3_path |-> b \o <<Pipe>> \o key \o <<Pipe, Number(start), Pipe, Number(end)>>,
   start_byte |-> 0, end_byte |-> 0, timestamp |-> 1]

Fields(b, key, start, end) ==
  [s3_path |-> b \o <<Pipe>> \o key, start_byte |-> start, end_byte |-> end,
   timestamp |-> 2]

(* An entry of the raw form whose path starts with a slash.                *)
Slashed(e) == [e EXCEPT !.s3_path = <<Slash>> \o @]

rawFirst    == Slashed(Raw(events, seg, 0, 4))
fieldSecond == Fields(events, seg, 4, 8)
fieldNoId   == Fields(events, seg, 12, 15)
rawTorn     == Raw(events, seg, 9, 12)
rawEmpty    == Raw(events, seg, 4, 4)
fieldEmpty  == Fields(events, seg, 4, 4)
fieldGone   == Fields(events, gone, 0, 4)
elsewhere   == Raw(other, seg, 0, 4)

MCEntries == {rawFirst, fieldSecond, fieldNoId, rawTorn, rawEmpty, fieldEmpty,
              fieldGone, elsewhere}

(* The index grows while it is read: two queries for one reference id may  *)
(* differ.  The pointers of rawEmpty and fieldEmpty are refused by         *)
(* GetRange and by parsePointer.  There are more results for "r3" than     *)
(* tokens.                                                                 *)
MCAnswers ==
  "r1" :> {<<rawFirst>>, <<rawFirst, fieldSecond>>} @@
  "r2" :> {<<>>, <<rawTorn, rawFirst>>, <<rawEmpty, fieldEmpty>>} @@
  "r3" :> {<<rawFirst, fieldSecond, rawTorn, fieldSecond>>} @@
  ""   :> {<<fieldNoId, fieldSecond>>, <<fieldGone>>}

MCRefs == {"r1", "r2", "r3", ""}

(* No reference id, one, two, the same one twice.                          *)
MCRequests == {<<>>, <<"">>, <<"r3">>, <<"r1", "r2">>, <<"r1", "r1">>}

(* Two positions, one result each: enough to pass a limit of one.          *)
PairAnswers == [MCAnswers EXCEPT !["r1"] = {<<rawFirst>>}]
PairRequests == {<<"r1", "r1">>}

(* An index that names a second bucket.                                    *)
ElsewhereAnswers == [MCAnswers EXCEPT !["r1"] = {<<elsewhere>>}]
ElsewhereRequests == {<<"r1">>}
=============================================================================
