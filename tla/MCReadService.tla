--------------------------- MODULE MCReadService ---------------------------
(***************************************************************************)
(* A small index over three objects in two buckets with a client, and one  *)
(* in a bucket without.                                                    *)
(***************************************************************************)
EXTENDS ReadService

None       == [form |-> "none", value |-> 0]
At(t)      == [form |-> "rfc3339", value |-> t]
Naive(t)   == [form |-> "naive", value |-> t]
Line(from, to, id, time, category) ==
  [from |-> from, to |-> to, id |-> id, time |-> time, json |-> TRUE,
   category |-> category]

events == <<Name("events-bucket")>>
audit  == <<Name("audit-bucket")>>
cold   == <<Name("cold-bucket")>>
seg    == <<Name("events"), Slash, Name("s.ndjson")>>
tail   == <<Name("events"), Slash, Name("t.ndjson")>>

MCStore ==
  <<events, seg>> :> {Line(0, 4, "e1", At(7), "login"), Line(4, 9, "e2", Naive(5), "logout")} @@
  <<events, tail>> :> {Line(0, 6, "e3", None, "login")} @@
  <<audit, seg>> :> {Line(0, 4, "a1", At(7), "login")} @@
  <<cold, seg>> :> {Line(0, 4, "c1", At(1), "login")}

MCBuckets == {events, audit}

Entry(b, key, start, end) ==
  [s3_path |-> b \o <<Pipe>> \o key, start_byte |-> start, end_byte |-> end]

first  == Entry(events, seg, 0, 4)
second == Entry(events, seg, 4, 8)
third  == Entry(events, tail, 0, 6)
other  == Entry(audit, seg, 0, 4)
frozen == Entry(cold, seg, 0, 4)
beyond == Entry(events, tail, 7, 9)
backwards == Entry(audit, seg, 3, 1)
raw    == [s3_path |-> events \o <<Pipe>> \o seg \o <<Pipe, Number(0), Pipe, Number(4)>>,
           start_byte |-> 0, end_byte |-> 0]
uri    == [s3_path |-> <<Scheme, Slash, Slash>> \o events \o <<Slash>> \o tail,
           start_byte |-> 0, end_byte |-> 6]
bare   == [s3_path |-> seg, start_byte |-> 0, end_byte |-> 4]

MCEntries == {first, second, third, other, frozen, beyond, backwards, raw, uri, bare}

(* One object named by two reference ids and in both forms, one key in two *)
(* buckets, entries whose path the reader cannot use, and an index that    *)
(* grows.                                                                  *)
MCAnswers ==
  "r1" :> {<<first>>, <<first, third>>} @@
  "r2" :> {<<>>, <<second, other>>, <<bare, beyond>>} @@
  "r3" :> {<<raw>>, <<frozen, uri>>, <<third, backwards>>} @@
  "r4" :> {<<frozen>>}

MCRefs == {"r1", "r2", "r3", "r4"}

Request(form, refs, category, limit) ==
  [form |-> form, refs |-> refs, category |-> category, limit |-> limit]

Ask(refs, category, limit) == Request("json", refs, category, limit)

MCRequests ==
  {Request("notPost", <<"r1">>, "", 0), Request("notJSON", <<>>, "", 0),
   Ask(<<>>, "", 0), Ask(<<"r1", "r2">>, "", 0), Ask(<<"r1", "r2">>, "login", 2),
   Ask(<<"r1", "r1">>, "", 0), Ask(<<"r1", "r3">>, "", 0), Ask(<<"r2", "r3">>, "", 1),
   Ask(<<"r1", "r2">>, "", 1), Ask(<<"r2">>, "", 0),
   Ask(<<"r1", "r2", "r4">>, "", 2)}
=============================================================================
