---------------------------- MODULE MCReaderHTTP ----------------------------
(***************************************************************************)
(* Two reference ids, one of them with two events and one of those with a  *)
(* slash in its id; requests of every route, method and form, among them   *)
(* ids that are not indexed, paths to be cleaned, and times before, at and *)
(* after those of the events, of every form.  The year 10000 is at 9.      *)
(***************************************************************************)
EXTENDS ReaderHTTP

a == <<Name("a")>>
b == <<Name("b")>>

MCIndex == <<[ref |-> a, id |-> <<Name("x")>>, time |-> 1],
             [ref |-> a, id |-> <<Name("x"), Slash, Name("y")>>, time |-> 3],
             [ref |-> b, id |-> <<Name("x")>>, time |-> 2]>>

NoBody  == [wellFormed |-> FALSE, refs |-> <<>>, start |-> NoTime, end |-> NoTime]
NoQuery == [start |-> NoTime, end |-> NoTime]

Request(method, path, body, query) ==
  [method |-> method, path |-> path, body |-> body, query |-> query]

Body(refs, start, end) == [wellFormed |-> TRUE, refs |-> refs, start |-> start, end |-> end]

BodyTimes  == {NoTime, Unix(0), Unix(2), Unix(9), RFC3339(2), OtherForm}
QueryTimes == {NoTime, RFC3339(0), RFC3339(2), Unix(2), OtherForm}

Posts ==
  {Request("POST", <<Slash, Query>>, Body(refs, start, end), NoQuery) :
     refs \in {<<>>, <<a>>, <<b, a>>, <<a, a>>}, start \in BodyTimes, end \in BodyTimes}

Gets ==
  {Request("GET", EventsPath \o rest, NoBody, [start |-> start, end |-> end]) :
     rest \in {a, b, a \o <<Slash>>, a \o <<Slash, Name("x")>>,
               a \o <<Slash, Name("x"), Slash, Name("y")>>, b \o <<Slash, Name("y")>>,
               <<Name("c")>>, b \o <<Slash, Name("x"), Slash>>},
     start \in QueryTimes, end \in QueryTimes}

Others ==
  {Request(method, path, NoBody, NoQuery) :
     method \in {"GET", "POST"},
     path \in {<<Slash, Health>>, <<Slash, Query>>, <<Slash, Events>>, EventsPath, <<Slash>>,
               EventsPath \o <<Slash>> \o a, EventsPath \o a}}

MCRequests == Posts \cup Gets \cup Others
=============================================================================
