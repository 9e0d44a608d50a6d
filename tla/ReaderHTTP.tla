----------------------------- MODULE ReaderHTTP -----------------------------
(***************************************************************************)
(* One request to the orchestrator: the routes and handlers of             *)
(* internal/reader/http.go with Lookup and LookupOne of the service, under *)
(* the timeouts that cmd/main.go gives the server.                         *)
(*                                                                         *)
(* Paths are lexed into slashes and names, after net/http has decoded      *)
(* them.  LookupMany is the promise of BestEffortRead: each event the      *)
(* shards know is found unless a call for it fails; lost remembers which   *)
(* ones were not.  Time passes in units of 15 s.  The shards are external. *)
(***************************************************************************)
EXTENDS Pointer

CONSTANTS
  Requests,   \* the requests a client may send: a set of records
  Index,      \* the index entries of the shards: a sequence of records
  Y10K,       \* the first second of the year 10000
  MaxClock    \* bound: how long a request is followed

(* Defect: a write deadline that outlives a fetch.                         *)
WriteTimeoutLonger == 4

(* cmd/main.go:67-68 and service.go:147, in units of 15 s.                 *)
ReadTimeout  == 1
WriteTimeout == 2
FetchTimeout == 2

VARIABLES
  request,    \* the request
  stage,      \* where its handler is
  clock,      \* time since its headers were read
  gone,       \* whether the client has left
  cancelled,  \* whether the request's context is cancelled
  call,       \* the arguments of LookupMany
  fetchAt,    \* when the first fetch began
  lost,       \* the places <<i, k>> not found: entry k, for the i-th reference id
  timedOut,   \* whether a fetch was given up after FetchTimeout
  seen        \* the response the client sees

vars == <<request, stage, clock, gone, cancelled, call, fetchAt, lost, timedOut, seen>>

(* A point in time as the code passes it on: "", an RFC 3339 text, a       *)
(* number of seconds, or a text of another form.                           *)
NoTime     == [form |-> "none"]
RFC3339(t) == [form |-> "rfc3339", at |-> t]
Unix(t)    == [form |-> "unix", at |-> t]
OtherForm  == [form |-> "other"]

(* Times from 1970 on.                                                     *)
IsTime(t) ==
  t \in {NoTime, OtherForm} \/ (t.at \in Nat /\ t \in {RFC3339(t.at), Unix(t.at)})

NoCall     == [by |-> "none", refs |-> <<>>, start |-> NoTime, end |-> NoTime]

(* Lexing a path takes names that are as long as possible.                 *)
IsPath(path) ==
  /\ Lexed(path)
  /\ \A i \in 2 .. Len(path) : path[i - 1] = Slash \/ path[i] = Slash

ASSUME MaxClockAssumption == MaxClock \in Nat /\ Y10K \in Nat \ {0}
ASSUME RequestsAssumption ==
  \A q \in Requests :
    /\ IsPath(q.path)
    /\ q.body.refs \in Seq(Range(q.body.refs))
    /\ IsTime(q.body.start) /\ IsTime(q.body.end)
    /\ IsTime(q.query.start) /\ IsTime(q.query.end)
ASSUME IndexAssumption ==
  /\ Index \in Seq(Range(Index))
  /\ \A entry \in Range(Index) : entry.id \in Seq(Range(entry.id))

Response(status, events) == [status |-> status, events |-> events]
Status(status)           == Response(status, <<>>)
Nothing                  == Status(0)

-----------------------------------------------------------------------------
(***************************************************************************)
(* Paths.                                                                  *)
(***************************************************************************)
Health == Name("health")
Query  == Name("query")
Events == Name("events")

EventsPath == <<Slash, Events, Slash>>

(* ServeMux: a path with an empty segment, or a subtree without its slash, *)
(* is redirected to the clean one.                                         *)
IsClean(path) ==
  /\ \A i \in 2 .. Len(path) : path[i - 1] # Slash \/ path[i] # Slash
  /\ path # <<Slash, Events>>

Route(path) ==
  IF ~IsClean(path) THEN "redirect"
  ELSE CASE path = <<Slash, Health>>     -> "health"
         [] path = <<Slash, Query>>      -> "query"
         [] IsPrefix(EventsPath, path)   -> "events"
         [] OTHER                        -> "unknown"

TrimRight(path) == Reverse(TrimLeft(Reverse(path)))

(* Defect: strings.Split, every slash cuts.                                *)
SplitPathEverywhere(path) ==
  LET rest == TrimRight(TrimLeft(SubSeq(path, Len(EventsPath) + 1, Len(path))))
  IN  IF rest = <<>> THEN <<>> ELSE SplitN(rest, "slash", Len(rest) + 1)

(* splitPath(path, "/events/"): an event id keeps its slashes.             *)
SplitPath(path) ==
  LET rest == TrimRight(TrimLeft(SubSeq(path, Len(EventsPath) + 1, Len(path))))
  IN  IF rest = <<>> THEN <<>> ELSE SplitN(rest, "slash", 2)

-----------------------------------------------------------------------------
(***************************************************************************)
(* What LookupMany finds.                                                  *)
(***************************************************************************)
(* A bound that is not RFC 3339: what the shards make of it is not known.  *)
Unreadable(c) == "other" \in {c.start.form, c.end.form}

(* A shard keeps the entries between the bounds.                           *)
InRange(entry, c) ==
  \/ Unreadable(c)
  \/ /\ c.start.form = "rfc3339" => entry.time >= c.start.at
     /\ c.end.form = "rfc3339"   => entry.time <= c.end.at

(* <<i, k>>: entry k is an answer to the call for the i-th reference id.   *)
Matches(c) ==
  {p \in (DOMAIN c.refs) \X (DOMAIN Index) :
     Index[p[2]].ref = c.refs[p[1]] /\ InRange(Index[p[2]], c)}

(* The events found, position by position.                                 *)
FoundFor(i) ==
  FlattenSeq([k \in DOMAIN Index |->
                IF <<i, k>> \in Matches(call) \ lost THEN <<Index[k]>> ELSE <<>>])

Found == FlattenSeq([i \in DOMAIN call.refs |-> FoundFor(i)])

-----------------------------------------------------------------------------
Init ==
  /\ request \in Requests
  /\ stage     = "received"
  /\ clock     = 0
  /\ gone      = FALSE
  /\ cancelled = FALSE
  /\ call      = NoCall
  /\ fetchAt   = 0
  /\ lost      = {}
  /\ timedOut  = FALSE
  /\ seen      = Nothing

(* writeJSON and the end of the handler: what it wrote reaches the client  *)
(* if that is still there and the write deadline is not over.              *)
Reply(response) ==
  /\ stage' = "replied"
  /\ seen'  = IF gone \/ clock >= WriteTimeout THEN Nothing ELSE response
  /\ UNCHANGED <<request, clock, gone, cancelled, call, fetchAt, lost, timedOut>>

(* A handler calls LookupMany, whose only error is an empty list.          *)
LookupMany(by, refs, start, end) ==
  /\ stage' = IF refs = <<>> THEN "answering" ELSE "asking"
  /\ call'  = [by |-> by, refs |-> refs, start |-> start, end |-> end]
  /\ UNCHANGED <<request, clock, gone, cancelled, fetchAt, lost, timedOut, seen>>

Routed(to) == stage = "received" /\ Route(request.path) = to

MuxReplies ==
  \/ Routed("redirect") /\ Reply(Status(301))
  \/ Routed("unknown")  /\ Reply(Status(404))

HealthReplies == Routed("health") /\ Reply(Status(200))

(* Decoding into int64 fields: a text where a number is due is an error.   *)
Decodes(body) ==
  /\ body.wellFormed
  /\ body.start.form \in {"none", "unix"}
  /\ body.end.form \in {"none", "unix"}

(* unixToRFC3339; the layout writes a year of five digits as it is, and    *)
(* RFC 3339 has none.                                                      *)
UnixToRFC3339(time) ==
  CASE time.form = "none" \/ time.at = 0 -> NoTime
    [] OTHER -> IF time.at < Y10K THEN RFC3339(time.at) ELSE OtherForm

QueryRejects ==
  /\ Routed("query")
  /\ \/ request.method # "POST" /\ Reply(Status(405))
     \/ /\ request.method = "POST"
        /\ ~Decodes(request.body) \/ request.body.refs = <<>>
        /\ Reply(Status(400))

(* POST /query.                                                            *)
QueryAccepts ==
  /\ Routed("query") /\ request.method = "POST"
  /\ Decodes(request.body)
  /\ request.body.refs # <<>>
  /\ LookupMany("query", request.body.refs, UnixToRFC3339(request.body.start),
                UnixToRFC3339(request.body.end))

Parts == SplitPath(request.path)

EventsRejects ==
  /\ Routed("events")
  /\ \/ request.method # "GET" /\ Reply(Status(405))
     \/ request.method = "GET" /\ Parts = <<>> /\ Reply(Status(400))

(* time.Parse(time.RFC3339, ...), for the times that are given.            *)
TimesParse(q) == {q.start.form, q.end.form} \subseteq {"none", "rfc3339"}

(* GET /events/{ref_id}.                                                   *)
GetAll ==
  /\ Routed("events") /\ request.method = "GET"
  /\ Len(Parts) = 1
  /\ IF TimesParse(request.query)
       THEN LookupMany("getAll", <<Parts[1]>>, request.query.start, request.query.end)
       ELSE Reply(Status(400))

(* GET /events/{ref_id}/{event_id}: Lookup without a time range.           *)
GetOne ==
  /\ Routed("events") /\ request.method = "GET"
  /\ Len(Parts) >= 2
  /\ LookupMany("getOne", <<Parts[1]>>, NoTime, NoTime)

-----------------------------------------------------------------------------
(***************************************************************************)
(* The query under way.                                                    *)
(***************************************************************************)
(* The shards have answered or failed, those of the positions in failed,   *)
(* for a cancelled context is an error of every call that is not over.  A  *)
(* bound they cannot read may have them withhold any entries.              *)
AskShards ==
  /\ stage = "asking"
  /\ \E failed \in SUBSET DOMAIN call.refs, withheld \in SUBSET Matches(call) :
       /\ cancelled => failed = DOMAIN call.refs
       /\ ~Unreadable(call) => withheld = {}
       /\ lost' = withheld \cup {p \in Matches(call) : p[1] \in failed}
  /\ fetchAt' \in 0 .. clock
  /\ stage'   = "fetching"
  /\ UNCHANGED <<request, clock, gone, cancelled, call, timedOut, seen>>

Outstanding == Matches(call) \ lost

Missing(places) ==
  /\ stage = "fetching"
  /\ lost'  = lost \cup places
  /\ stage' = "answering"
  /\ UNCHANGED <<request, clock, gone, cancelled, call, fetchAt, seen>>

(* The fetches end; some fail, and all of those that are cancelled ...     *)
Fetch ==
  /\ \E places \in SUBSET Outstanding :
       (cancelled => places = Outstanding) /\ Missing(places)
  /\ UNCHANGED timedOut

(* ... and some are given up when their time is over.                      *)
FetchTimesOut ==
  /\ clock >= fetchAt + FetchTimeout
  /\ \E places \in SUBSET Outstanding : places # {} /\ Missing(places)
  /\ timedOut' = TRUE

(* The handler that called LookupMany answers; an error is 500.            *)
Answer(by, response) ==
  /\ stage = "answering"
  /\ call.by = by
  /\ Reply(IF call.refs = <<>> THEN Status(500) ELSE response)

AnswerQuery == Answer("query", Response(200, Found))

AnswerAll ==
  Answer("getAll", IF Found = <<>> THEN Status(404) ELSE Response(200, Found))

(* LookupOne: the first event with the id.                                 *)
AnswerOne ==
  LET k == SelectInSeq(Found, LAMBDA e : e.id = Parts[2])
  IN  Answer("getOne", IF k = 0 THEN Status(404) ELSE Response(200, <<Found[k]>>))

-----------------------------------------------------------------------------
(***************************************************************************)
(* The world.                                                              *)
(***************************************************************************)
Tick ==
  /\ stage # "replied"
  /\ clock < MaxClock
  /\ clock' = clock + 1
  /\ UNCHANGED <<request, stage, gone, cancelled, call, fetchAt, lost, timedOut, seen>>

(* The client closes its connection: net/http cancels the context.         *)
ClientGone ==
  /\ stage # "replied"
  /\ ~gone
  /\ gone' = TRUE
  /\ cancelled' = TRUE
  /\ UNCHANGED <<request, stage, clock, call, fetchAt, lost, timedOut, seen>>

(* The read in the background that watches for that may fail at the read   *)
(* deadline, with the same effect on a client that is still there.         *)
ReadDeadline ==
  /\ stage # "replied"
  /\ clock >= ReadTimeout
  /\ ~cancelled
  /\ cancelled' = TRUE
  /\ UNCHANGED <<request, stage, clock, gone, call, fetchAt, lost, timedOut, seen>>

Finished == stage = "replied" /\ UNCHANGED vars

Handler ==
  \/ MuxReplies \/ HealthReplies
  \/ QueryRejects \/ QueryAccepts \/ EventsRejects \/ GetAll \/ GetOne
  \/ AskShards \/ Fetch \/ FetchTimesOut
  \/ AnswerQuery \/ AnswerAll \/ AnswerOne

Next == Handler \/ Tick \/ ClientGone \/ ReadDeadline \/ Finished

Spec == Init /\ [][Next]_vars

-----------------------------------------------------------------------------
(***************************************************************************)
(* Properties.                                                             *)
(***************************************************************************)
(* The entries a request asks for, from its text alone: the first segment  *)
(* of a path names the reference id, what follows it names the event, but  *)
(* for a slash at the end, so that an id that ends in one is never named;  *)
(* a query lists the ids; a time that is absent or 0 seconds is no bound,  *)
(* and the range is open if a time is after the year 9999, which RFC 3339  *)
(* does not have.                                                          *)
TooLate(time) == time.form = "unix" /\ time.at >= Y10K

Within(entry, times) ==
  \/ TooLate(times.start) \/ TooLate(times.end)
  \/ /\ times.start \notin {NoTime, Unix(0)} => entry.time >= times.start.at
     /\ times.end \notin {NoTime, Unix(0)}   => entry.time <= times.end.at

Asked(entry) ==
  IF request.path[2] = Query
  THEN /\ \E i \in DOMAIN request.body.refs : entry.ref = request.body.refs[i]
       /\ Within(entry, request.body)
  ELSE LET n        == Len(request.path)
           end      == IF request.path[n] = Slash THEN n - 1 ELSE n
           segments == SubSeq(request.path, 4, end)
           one      == Len(segments) > 2
       IN  /\ entry.ref = <<segments[1]>>
           /\ one  => segments = entry.ref \o <<Slash>> \o entry.id
           /\ ~one => Within(entry, request.query)

Shown == {seen.events[k] : k \in DOMAIN seen.events}

(* A client that is answered 200 or 404 to a query gets entries that it    *)
(* asked for, all of them unless one was lost on the way, and 404 only if  *)
(* one was lost or there was none; no handler passes LookupMany what it    *)
(* refuses, so that 500 is never the answer (http.go:73-90, 100-111,       *)
(* 131-160, service.go:75-77).                                             *)
AnswersWhatIsAsked ==
  /\ seen.status # 500
  /\ call.by # "none" /\ seen.status \in {200, 404} =>
       LET asked == {Index[k] : k \in {j \in DOMAIN Index : Asked(Index[j])}}
       IN  /\ Shown \subseteq asked
           /\ lost = {} => asked = {} \/ Shown # {}
           /\ lost = {} /\ call.by # "getOne" => Shown = asked

(* What a fetch loses by running into its 30 s is never shown as an answer *)
(* that is complete: by then the write deadline of the server is over too  *)
(* (cmd/main.go:68, service.go:147).                                       *)
TimedOutFetchIsNeverSeen == timedOut => seen = Nothing
=============================================================================
