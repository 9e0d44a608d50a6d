---------------------------- MODULE ReadService ----------------------------
(***************************************************************************)
(* A query of the older read service (main.go): handleQuery, ExecuteQuery, *)
(* queryMetadataForRefIDs, queryShardForRefID, fetchEventsFromS3 and       *)
(* fetchEventsFromS3File.                                                  *)
(*                                                                         *)
(* Unlike LookupMany it works in two waves.  The first asks one shard per  *)
(* reference id and gathers the answers in a map keyed by reference id;    *)
(* the second reads every S3 object that the answers name once, whole, and *)
(* slices it.  In both waves the caller itself takes a token of a          *)
(* semaphore before it starts a goroutine, and waits for all goroutines    *)
(* before it reads what they left.  Ranging over a Go map is in any order. *)
(*                                                                         *)
(* One query is modelled: queries share nothing but counters that they     *)
(* only add to.  The shard that a reference id is routed to is not         *)
(* modelled here: Answers tells what that shard may answer.                *)
(***************************************************************************)
EXTENDS Pointer, Segment

CONSTANTS
  Refs,        \* the reference ids of the system
  Requests,    \* the requests clients send: [form, refs, category, limit]
  Entries,     \* the index entries of the shards
  Answers,     \* Answers[r]: the lists of entries a shard may answer for r
  Store,       \* Store[<<bucket, key>>]: the segments there are
  Buckets,     \* the buckets that have a client (s3Clients)
  RefSlots,    \* MaxConcurrentRefIDs
  FetchSlots   \* MaxConcurrentS3Fetches

MetaOf(e) == ParseS3Path(e.s3_path, e.start_byte, e.end_byte)

ASSUME RequestsAssumption ==
  \A q \in Requests : q.refs \in Seq(Refs) /\ q.limit \in Nat
ASSUME AnswersAssumption == Answers \in [Refs -> SUBSET Seq(Entries)]
(* getEnvInt yields 0 for a value that is no number: a semaphore without   *)
(* room, on which the first query waits for ever.                          *)
ASSUME SlotsAssumption == RefSlots \in Nat \ {0} /\ FetchSlots \in Nat \ {0}
(* The byte offsets of an entry are any int64 that the shard's JSON has.   *)
ASSUME IndexAssumption ==
  \A e \in Entries : e.start_byte \in Int /\ e.end_byte \in Int
(* The index-builder writes the paths of the objects it has stored: where  *)
(* a path names a bucket, it is the name of one, and has no slash in it.   *)
ASSUME PathsAssumption ==
  \A e \in Entries : /\ Lexed(e.s3_path)
                     /\ MetaOf(e).ok => ~Has(MetaOf(e).bucket, "slash")
(* Its keys are neither empty nor have a pipe in them.                     *)
ASSUME StoreAssumption ==
  \A place \in DOMAIN Store :
    /\ place = <<place[1], place[2]>>
    /\ IsBucketName(place[1])
    /\ Lexed(place[2]) /\ place[2] # <<>> /\ ~Has(place[2], "pipe")
    /\ IsSegment(Store[place])

VARIABLES
  request,    \* req
  stage,      \* where the caller is
  launched,   \* the number of reference ids whose goroutine is started
  asking,     \* asking[i]: where the goroutine of the i-th reference id is
  answer,     \* answer[i]: what its shard answered
  refTokens,  \* the tokens in the semaphore of the first wave
  result,     \* result[r]: the metadata of r in the map, <<>> if it has none
  grouped,    \* groupedMetadata: path |-> the metadata of the object
  file,       \* file[path]: where the goroutine of the object is
  fileTokens, \* the tokens in the semaphore of the second wave
  eventsCh,   \* the channel of event lists
  allEvents,  \* the events taken from it
  count,      \* the counters that the query adds to
  expired,    \* queryCtx is done: QueryTimeout, or the client has gone
  reply       \* what the client gets

vars == <<request, stage, launched, asking, answer, refTokens, result, grouped,
          file, fileTokens, eventsCh, allEvents, count, expired, reply>>

firstWave  == <<launched, asking, answer, refTokens, result>>
secondWave == <<grouped, file, fileTokens, eventsCh, allEvents>>

NoReply == [status |-> "none"]

(* The places of a collection of lists, <<list, index>>.                   *)
Rows(lists) == UNION {{x} \X DOMAIN lists[x] : x \in DOMAIN lists}

Positions == DOMAIN request.refs
Paths     == DOMAIN grouped

-----------------------------------------------------------------------------
(* The metadata of an answer: an entry whose path does not parse is logged *)
(* and dropped.                                                            *)
Metas(entries) ==
  FlattenSeq([k \in DOMAIN entries |->
                IF MetaOf(entries[k]).ok THEN <<MetaOf(entries[k])>> ELSE <<>>])

(* Defect: objects of two buckets that have one key share a group.         *)
GroupPathOfKey(m) == m.key

(* The key of a group, "bucket/objectKey".                                 *)
GroupPath(m) == m.bucket \o <<Slash>> \o m.key

(* groupMetadataByS3Path.                                                  *)
Group(metas) ==
  [path \in {GroupPath(metas[k]) : k \in DOMAIN metas} |->
     FlattenSeq([k \in DOMAIN metas |->
                   IF GroupPath(metas[k]) = path THEN <<metas[k]>> ELSE <<>>])]

(* The object a group is read from is the one of its first metadata.       *)
ObjectOf(path) == <<grouped[path][1].bucket, grouped[path][1].key>>

HasClient(path) == grouped[path][1].bucket \in Buckets

Wanted(line) == request.category = "" \/ line.category = request.category

(* The events of one metadata: none or one.                                *)
SliceEvents(segment, m) ==
  LET lines == {line \in Sliced(segment, m.start, m.end) : Wanted(line)}
  IN  IF lines = {} THEN <<>> ELSE <<ServiceEvent(CHOOSE line \in lines : TRUE)>>

(* What fetchEventsFromS3File makes of the whole object.                   *)
FileEvents(path) ==
  FlattenSeq([k \in DOMAIN grouped[path] |->
                SliceEvents(Store[ObjectOf(path)], grouped[path][k])])

-----------------------------------------------------------------------------
Init ==
  /\ request \in Requests
  /\ stage      = "received"
  /\ launched   = 0
  /\ asking     = [i \in Positions |-> "idle"]
  /\ answer     = [i \in Positions |-> <<>>]
  /\ refTokens  = 0
  /\ result     = [r \in Refs |-> <<>>]
  /\ grouped    = <<>>
  /\ file       = <<>>
  /\ fileTokens = 0
  /\ eventsCh   = <<>>
  /\ allEvents  = <<>>
  /\ count      = [queries |-> 0, success |-> 0, rocksFailed |-> 0, s3Failed |-> 0,
                   s3Total |-> 0, returned |-> 0]
  /\ expired    = FALSE
  /\ reply      = NoReply

(* A request of another method, without JSON or with no reference id is    *)
(* refused before anything is counted or started.                          *)
Reject ==
  /\ stage = "received"
  /\ \/ /\ request.form = "notPost"
        /\ reply' = [status |-> "method not allowed"]
     \/ /\ request.form = "notJSON" \/ (request.form = "json" /\ request.refs = <<>>)
        /\ reply' = [status |-> "bad request"]
  /\ stage' = "done"
  /\ UNCHANGED <<request, firstWave, secondWave, count, expired>>

(* ExecuteQuery is entered.                                                *)
Accept ==
  /\ stage = "received"
  /\ request.form = "json"
  /\ request.refs # <<>>
  /\ stage' = "metadata"
  /\ count' = [count EXCEPT !.queries = @ + 1]
  /\ UNCHANGED <<request, firstWave, secondWave, expired, reply>>

-----------------------------------------------------------------------------
(* The first wave.                                                         *)

(* The loop of queryMetadataForRefIDs takes a token and starts the next    *)
(* goroutine.  A request made with a context that is done fails.           *)
LaunchQuery ==
  /\ stage = "metadata"
  /\ launched < Len(request.refs)
  /\ refTokens < RefSlots
  /\ launched'  = launched + 1
  /\ refTokens' = refTokens + 1
  /\ asking'    = [asking EXCEPT ![launched + 1] = IF expired THEN "doomed" ELSE "asking"]
  /\ UNCHANGED <<request, stage, answer, result, secondWave, count, expired, reply>>

(* Defect: the map keeps what it has for the reference id, and adds.       *)
QueryShardOKAdding(i) ==
  /\ asking[i] = "asking"
  /\ \E entries \in Answers[request.refs[i]] :
       /\ answer' = [answer EXCEPT ![i] = entries]
       /\ result' = [result EXCEPT ![request.refs[i]] = @ \o Metas(entries)]
  /\ asking'    = [asking EXCEPT ![i] = "answered"]
  /\ refTokens' = refTokens - 1
  /\ UNCHANGED <<request, stage, launched, secondWave, count, expired, reply>>

(* The shard answers (404 is an empty answer): a list with metadata in it  *)
(* replaces what the map has for the reference id.                         *)
QueryShardOK(i) ==
  /\ asking[i] = "asking"
  /\ \E entries \in Answers[request.refs[i]] :
       /\ answer' = [answer EXCEPT ![i] = entries]
       /\ result' = IF Metas(entries) = <<>> THEN result
                    ELSE [result EXCEPT ![request.refs[i]] = Metas(entries)]
  /\ asking'    = [asking EXCEPT ![i] = "answered"]
  /\ refTokens' = refTokens - 1
  /\ UNCHANGED <<request, stage, launched, secondWave, count, expired, reply>>

(* Defect: the token is kept on the early return.                          *)
QueryShardErrKeepingToken(i) ==
  /\ asking[i] \in {"asking", "doomed"}
  /\ asking'    = [asking EXCEPT ![i] = "failed"]
  /\ count'     = [count EXCEPT !.rocksFailed = @ + 1]
  /\ UNCHANGED <<request, stage, launched, answer, refTokens, result, secondWave,
                 expired, reply>>

(* Defect: a failed query is not counted.                                  *)
QueryShardErrUncounted(i) ==
  /\ asking[i] \in {"asking", "doomed"}
  /\ asking'    = [asking EXCEPT ![i] = "failed"]
  /\ refTokens' = refTokens - 1
  /\ UNCHANGED <<request, stage, launched, answer, result, secondWave, count,
                 expired, reply>>

(* Defect: the request has no timeout of its own.                          *)
QueryShardErrNoDeadline(i) ==
  /\ asking[i] \in {"asking", "doomed"}
  /\ expired
  /\ asking'    = [asking EXCEPT ![i] = "failed"]
  /\ refTokens' = refTokens - 1
  /\ count'     = [count EXCEPT !.rocksFailed = @ + 1]
  /\ UNCHANGED <<request, stage, launched, answer, result, secondWave, expired,
                 reply>>

(* The request fails, is refused or unreadable, or times out: it is        *)
(* counted, and the error ends in a channel that is only counted.          *)
QueryShardErr(i) ==
  /\ asking[i] \in {"asking", "doomed"}
  /\ asking'    = [asking EXCEPT ![i] = "failed"]
  /\ refTokens' = refTokens - 1
  /\ count'     = [count EXCEPT !.rocksFailed = @ + 1]
  /\ UNCHANGED <<request, stage, launched, answer, result, secondWave, expired,
                 reply>>

Over(i) == asking[i] \in {"answered", "failed"}

(* ExecuteQuery after wg.Wait: the lists of the map one after the other,   *)
(* in any order of its keys, grouped by object.  With no metadata at all   *)
(* the query is answered here.                                             *)
Gather ==
  /\ stage = "metadata"
  /\ launched = Len(request.refs)
  /\ \A i \in Positions : Over(i)
  /\ \E order \in SetToSeqs({r \in Refs : result[r] # <<>>}) :
       LET metas == FlattenSeq([k \in DOMAIN order |-> result[order[k]]])
       IN  /\ grouped' = Group(metas)
           /\ file'    = [path \in DOMAIN Group(metas) |-> "idle"]
           /\ stage'   = IF metas = <<>> THEN "done" ELSE "files"
           /\ reply'   = IF metas # <<>> THEN reply
                         ELSE [status |-> "ok", events |-> <<>>,
                               metrics |-> [rocksdb |-> Len(request.refs), s3 |-> 0,
                                            entries |-> 0, parsed |-> 0]]
           /\ count'   = IF metas # <<>> THEN count
                         ELSE [count EXCEPT !.success = @ + 1]
  /\ UNCHANGED <<request, firstWave, fileTokens, eventsCh, allEvents, expired>>

-----------------------------------------------------------------------------
(* The second wave.                                                        *)

(* Defect: no semaphore.                                                   *)
LaunchFetchUnthrottled(path) ==
  /\ stage = "files"
  /\ file[path] = "idle"
  /\ fileTokens' = fileTokens + 1
  /\ file' = [file EXCEPT ![path] = IF expired THEN "doomed" ELSE "calling"]
  /\ UNCHANGED <<request, stage, firstWave, grouped, eventsCh, allEvents, count,
                 expired, reply>>

(* The loop of fetchEventsFromS3 takes a token and starts the goroutine of *)
(* an object.                                                              *)
LaunchFetch(path) ==
  /\ stage = "files"
  /\ file[path] = "idle"
  /\ fileTokens < FetchSlots
  /\ fileTokens' = fileTokens + 1
  /\ file' = [file EXCEPT ![path] = IF expired THEN "doomed" ELSE "calling"]
  /\ UNCHANGED <<request, stage, firstWave, grouped, eventsCh, allEvents, count,
                 expired, reply>>

(* GetObject and the read of the body succeed.                             *)
ObjectRead(path) ==
  /\ stage = "files"
  /\ file[path] = "calling"
  /\ HasClient(path)
  /\ ObjectOf(path) \in DOMAIN Store

(* Some metadata of the group makes the loop over them panic.              *)
SlicePanics(path) ==
  \E k \in DOMAIN grouped[path] :
    LET m == grouped[path][k]
    IN  Panics(Store[ObjectOf(path)], m.start, m.end)

(* A list with events in it goes into the channel.                         *)
GetObjectOK(path) ==
  /\ ObjectRead(path)
  /\ ~SlicePanics(path)
  /\ file' = [file EXCEPT ![path] = "read"]
  /\ fileTokens' = fileTokens - 1
  /\ eventsCh' = IF FileEvents(path) = <<>> THEN eventsCh
                 ELSE Append(eventsCh, FileEvents(path))
  /\ UNCHANGED <<request, stage, firstWave, grouped, allEvents, count, expired, reply>>

(* The slice is out of range.  Nobody recovers the panic of the goroutine: *)
(* it ends the process, with this query and all others.                    *)
GetObjectPanics(path) ==
  /\ ObjectRead(path)
  /\ SlicePanics(path)
  /\ stage' = "crashed"
  /\ UNCHANGED <<request, firstWave, secondWave, count, expired, reply>>

(* The bucket has no client, or the call or the read of the body fails or  *)
(* times out: counted, and gone.                                           *)
GetObjectErr(path) ==
  /\ stage = "files"
  /\ file[path] \in {"calling", "doomed"}
  /\ file' = [file EXCEPT ![path] = "failed"]
  /\ fileTokens' = fileTokens - 1
  /\ count' = [count EXCEPT !.s3Failed = @ + 1]
  /\ UNCHANGED <<request, stage, firstWave, grouped, eventsCh, allEvents, expired, reply>>

(* After wg.Wait the channel is closed and drained.                        *)
CloseEvents ==
  /\ stage = "files"
  /\ \A path \in Paths : file[path] \in {"read", "failed"}
  /\ stage' = "draining"
  /\ count' = [count EXCEPT !.s3Total = @ + Cardinality(Paths)]
  /\ UNCHANGED <<request, firstWave, secondWave, expired, reply>>

(* Defect: the list that passes the limit is not cut.                      *)
DrainUncut ==
  /\ stage = "draining"
  /\ eventsCh # <<>>
  /\ LET events == allEvents \o Head(eventsCh)
     IN  /\ allEvents' = events
         /\ stage' = IF request.limit > 0 /\ Len(events) >= request.limit
                     THEN "drained" ELSE stage
  /\ eventsCh' = Tail(eventsCh)
  /\ UNCHANGED <<request, firstWave, grouped, file, fileTokens, count, expired, reply>>

(* One list of events; the loop ends when the limit is reached, with the   *)
(* events that came first and not with the earliest.                       *)
Drain ==
  /\ stage = "draining"
  /\ eventsCh # <<>>
  /\ LET events == allEvents \o Head(eventsCh)
         full   == request.limit > 0 /\ Len(events) >= request.limit
     IN  /\ allEvents' = IF full THEN SubSeq(events, 1, request.limit) ELSE events
         /\ stage'     = IF full THEN "drained" ELSE stage
  /\ eventsCh' = Tail(eventsCh)
  /\ UNCHANGED <<request, firstWave, grouped, file, fileTokens, count, expired, reply>>

(* The loop has ended.                                                     *)
Drained == stage = "drained" \/ (stage = "draining" /\ eventsCh = <<>>)

(* The events, sorted by timestamp and in any order when that is the same  *)
(* (sort.Slice is not stable), and 200 whatever has failed.  The error     *)
(* branches of ExecuteQuery are never taken: both waves return nil.        *)
Respond ==
  /\ Drained
  /\ \E order \in SetToSeqs(DOMAIN allEvents) :
       LET sorted == [k \in DOMAIN allEvents |-> allEvents[order[k]]]
       IN  /\ \A k, l \in DOMAIN sorted : k < l => sorted[k].ts <= sorted[l].ts
           /\ reply' = [status |-> "ok", events |-> sorted,
                        metrics |-> [rocksdb |-> Len(request.refs),
                                     s3      |-> Cardinality(Paths),
                                     entries |-> Cardinality(Rows(result)),
                                     parsed  |-> Len(sorted)]]
  /\ stage' = "done"
  /\ count' = [count EXCEPT !.returned = @ + Len(allEvents), !.success = @ + 1]
  /\ UNCHANGED <<request, firstWave, secondWave, expired>>

(* QueryTimeout, or the client goes away.                                  *)
Expire ==
  /\ ~expired
  /\ stage \notin {"done", "crashed"}
  /\ expired' = TRUE
  /\ UNCHANGED <<request, stage, firstWave, secondWave, count, reply>>

(* The query is over, or the process is.                                   *)
Finished ==
  /\ stage \in {"done", "crashed"}
  /\ UNCHANGED vars

-----------------------------------------------------------------------------
Query(i) == QueryShardOK(i) \/ QueryShardErr(i)

Fetch(path) ==
  LaunchFetch(path) \/ GetObjectOK(path) \/ GetObjectPanics(path) \/ GetObjectErr(path)

Caller ==
  \/ Reject \/ Accept
  \/ LaunchQuery \/ Gather
  \/ CloseEvents \/ Drain \/ Respond

Next ==
  \/ Caller
  \/ \E i \in Positions : Query(i)
  \/ \E path \in Paths : Fetch(path)
  \/ Expire
  \/ Finished

Spec == Init /\ [][Next]_vars

(* The caller runs, and a call to a shard or to S3 that does not succeed   *)
(* fails in the end, if only with the 5 s and 10 s timeouts it is made     *)
(* with.  Nothing obliges a shard or S3 to answer.                         *)
Progress ==
  \/ Caller
  \/ \E i \in Positions : QueryShardErr(i)
  \/ \E path \in Paths : LaunchFetch(path) \/ GetObjectErr(path)

FairSpec == Spec /\ WF_vars(Progress)

-----------------------------------------------------------------------------
(***************************************************************************)
(* Properties.                                                             *)
(***************************************************************************)
AskState  == {"idle", "asking", "doomed", "answered", "failed"}
FileState == {"idle", "calling", "doomed", "read", "failed"}

(* The waves follow each other: nothing of the second is there before the  *)
(* first is over.                                                          *)
TypeOK ==
  /\ request \in Requests
  /\ stage \in {"received", "metadata", "files", "draining", "drained", "done", "crashed"}
  /\ launched \in 0 .. Len(request.refs)
  /\ asking \in [Positions -> AskState]
  /\ \A i \in Positions : asking[i] = "idle" <=> i > launched
  /\ answer \in [Positions -> Seq(Entries)]
  /\ refTokens \in 0 .. RefSlots
  /\ DOMAIN result = Refs
  /\ stage \in {"received", "metadata"} => Paths = {}
  /\ file \in [Paths -> FileState]
  /\ \A path \in Paths : Len(grouped[path]) > 0
  /\ fileTokens \in 0 .. FetchSlots
  /\ count \in [queries : Nat, success : Nat, rocksFailed : Nat, s3Failed : Nat,
                s3Total : Nat, returned : Nat]
  /\ expired \in BOOLEAN

(* Both semaphores hold one token per goroutine that is started and not    *)
(* over, on every way out, and none is left when the client is answered.   *)
SemaphoresCountGoroutines ==
  /\ refTokens = Cardinality({i \in Positions : asking[i] \in {"asking", "doomed"}})
  /\ fileTokens = Cardinality({path \in Paths : file[path] \in {"calling", "doomed"}})
  /\ reply # NoReply => refTokens = 0 /\ fileTokens = 0

(* Where an event of the response comes from: the slices of the objects    *)
(* that were read.                                                         *)
Slices ==
  UNION {{path} \X DOMAIN grouped[path] : path \in {p \in Paths : file[p] = "read"}}

EventsOf(slice) == SliceEvents(Store[ObjectOf(slice[1])], grouped[slice[1]][slice[2]])

Full == {slice \in Slices : EventsOf(slice) # <<>>}

(* The response holds what was read from the objects: each slice that      *)
(* yields an event once, in whatever order objects were read and lists     *)
(* were received; with a limit, as many of them as it allows, and still    *)
(* none twice (fetchEventsFromS3, main.go:826-834).                        *)
ResponseHoldsWhatWasRead ==
  reply.status = "ok" =>
    LET events == reply.events
    IN  /\ Len(events) = IF request.limit > 0 /\ request.limit < Cardinality(Full)
                         THEN request.limit ELSE Cardinality(Full)
        /\ \A k \in DOMAIN events :
             Cardinality({l \in DOMAIN events : events[l] = events[k]})
               <= Cardinality({slice \in Full : EventsOf(slice) = <<events[k]>>})

(* The two forms in which an entry names an object: the one of the         *)
(* rocksdb-node, and a URI.                                                *)
NamesObject(e, bucket, key) ==
  \/ e.s3_path = bucket \o <<Pipe>> \o key
  \/ e.s3_path = <<Scheme, Slash, Slash>> \o bucket \o <<Slash>> \o key

(* The end is exclusive, and may or may not take in the newline.           *)
Names(e, bucket, key, line) ==
  /\ NamesObject(e, bucket, key)
  /\ e.start_byte = line.from
  /\ e.end_byte \in {line.to - 1, line.to}

(* A line of a bucket with a client that the entry names and the filter    *)
(* of the request lets pass is in the response.                            *)
Delivered(e) ==
  \A place \in DOMAIN Store : \A line \in Store[place] :
    line.json /\ Wanted(line) /\ place[1] \in Buckets /\ Names(e, place[1], place[2], line)
      => \E k \in DOMAIN reply.events : reply.events[k] = ServiceEvent(line)

(* Errors go no further than two counters, rocksdb.queries.failed and      *)
(* s3.fetches.failed; at least those tell: a query that bumped neither of  *)
(* them and had no limit delivers, for each of its reference ids, all that *)
(* one of the answers for it names.  (The answer of one position, when the *)
(* reference id is there twice: the map keeps one, main.go:626.)           *)
LossIsCounted ==
  /\ reply.status = "ok"
  /\ request.limit = 0
  /\ count.rocksFailed = 0
  /\ count.s3Failed = 0
  => \A i \in Positions : \E j \in Positions :
       /\ request.refs[j] = request.refs[i]
       /\ asking[j] = "answered"
       /\ \A k \in DOMAIN answer[j] : Delivered(answer[j][k])

(* An event is a line that lies in the range an answer names, of the       *)
(* object it names, in the bucket it names, and passes the filter of the   *)
(* request, although metadata of many reference ids are read through one   *)
(* group: never of an object with the same key in another bucket.          *)
FoundInTheNamedBucket ==
  reply.status = "ok" =>
    \A k \in DOMAIN reply.events :
      \E i \in Positions : \E e \in Range(answer[i]) :
        \E place \in DOMAIN Store :
          \E line \in Sliced(Store[place], e.start_byte, e.end_byte) :
            /\ NamesObject(e, place[1], place[2])
            /\ Wanted(line)
            /\ reply.events[k] = ServiceEvent(line)

AnswersFor(r) == {Metas(answer[i]) : i \in {j \in Positions : request.refs[j] = r
                                                            /\ asking[j] = "answered"}}

(* The counters and the metrics of the response agree with what the query  *)
(* did: an object is counted as fetched once, whether or not it could be   *)
(* read, however many reference ids and entries named it.  The entries it  *)
(* counts are, for a reference id that is there twice, those of one of the *)
(* answers, whole, and not of an empty one if another named something,     *)
(* whichever goroutine stored last (main.go:622-628).                      *)
CountersAgree ==
  reply.status = "ok" =>
    /\ count.success = count.queries
    /\ count.rocksFailed = Cardinality({i \in Positions : asking[i] = "failed"})
    /\ count.s3Failed = Cardinality({path \in Paths : file[path] = "failed"})
    /\ count.s3Total = reply.metrics.s3
    /\ count.returned = Len(reply.events)
    /\ reply.metrics.entries = Cardinality(Rows(grouped))
    /\ Cardinality(Rows(grouped)) = Cardinality(Rows(result))
    /\ \A r \in Refs : IF AnswersFor(r) \subseteq {<<>>} THEN result[r] = <<>>
                       ELSE result[r] \in AnswersFor(r) \ {<<>>}

(* A shard's answer has a range that ends before it starts, or starts      *)
(* before its object.                                                      *)
BackwardsAnswered ==
  \E i \in Positions : \E k \in DOMAIN answer[i] :
    LET e == answer[i][k] IN e.start_byte < 0 \/ e.end_byte < e.start_byte

(* What one answer does to the process: a range that lies beyond its       *)
(* object, or beyond its end because the object is shorter than the index  *)
(* says, is skipped or clipped (main.go:913-921), with the order of the    *)
(* two checks; only a range that is backwards in the index ends it.        *)
CrashOnlyByBackwardsRange == stage = "crashed" => BackwardsAnswered

(* Every query is answered, even if no shard and no S3 ever does: the      *)
(* goroutines' timeouts end them, each gives its token back, and the loops *)
(* that wait for tokens and for goroutines go on.  Only an answer with a   *)
(* backwards range may end the process first (main.go:923).                *)
QueryIsAnswered == <>(reply # NoReply \/ BackwardsAnswered)
=============================================================================
