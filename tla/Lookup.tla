------------------------------- MODULE Lookup -------------------------------
(***************************************************************************)
(* LookupMany of internal/reader/service.go: one query of the orchestrator *)
(* for a list of reference ids.                                            *)
(*                                                                         *)
(* The caller starts one goroutine per position of the list.  Goroutine i  *)
(* asks its shard for the index entries of request[i] (RangeQuery), starts *)
(* one fetch goroutine per entry, throttles them with a semaphore of its   *)
(* own, waits for all of them, and collects the events they left in their  *)
(* slots.  When every goroutine is done the caller appends what they       *)
(* collected in the order of the request and replies.                      *)
(*                                                                         *)
(* The two loops over slots nobody writes any more, the collecting one of  *)
(* a goroutine and the merging one of the caller, are taken one iteration  *)
(* at a time.  Queries share no memory, so one is enough.                  *)
(***************************************************************************)
EXTENDS Pointer, Segment

CONSTANTS
  Refs,           \* the reference ids of the system
  Requests,       \* the lists of reference ids that clients send
  Entries,        \* the index entries (pb.Metadata) of the shards
  Answers,        \* Answers[r]: the results RangeQuery may have for r
  Store,          \* Store[<<bucket, key>>]: the segments there are
  Bucket,         \* the bucket the S3 client is bound to
  S3Concurrency   \* the capacity of a semaphore, 32 in the code

ASSUME RequestsAssumption == Requests \subseteq Seq(Refs)
ASSUME AnswersAssumption == Answers \in [Refs -> SUBSET Seq(Entries)]
ASSUME ConcurrencyAssumption == S3Concurrency \in Nat \ {0}
(* The keys of the index-builder have no pipe in them, or it could not put *)
(* them into the paths it writes ("bucket|objectKey|startByte|endByte").   *)
ASSUME StoreAssumption ==
  /\ IsBucketName(Bucket)
  /\ \A place \in DOMAIN Store :
       /\ place = <<place[1], place[2]>>
       /\ Lexed(place[2]) /\ ~Has(place[2], "pipe")
       /\ IsSegment(Store[place])

VARIABLES
  request,    \* refIDs
  ref,        \* ref[i]: where goroutine i is
  refErr,     \* refErr[i]: perRef[i].err is set
  metas,      \* metas[i]: the index entries of request[i]
  fetch,      \* fetch[i][j]: where the fetch goroutine of metas[i][j] is
  slot,       \* slot[i][j]: events[j] and fetchErrs[j] of goroutine i
  sem,        \* sem[i]: the number of tokens in goroutine i's semaphore
  next,       \* next[i]: the slot the collecting loop looks at next
  out,        \* out[i]: the events it has appended, in the end perRef[i].events
  merged,     \* the number of positions the merging loop has passed
  allEvents,  \* the events it has appended
  count,      \* the atomic counters of the query
  cancelled,  \* the context of the request is done: its client has gone
  faults,     \* history: <<i, 0>> if RangeQuery failed, <<i, j>> if GetObject did
  reply       \* what LookupMany has returned

vars == <<request, ref, refErr, metas, fetch, slot, sem, next, out, merged,
          allEvents, count, cancelled, faults, reply>>

NoReply == [status |-> "none"]

Positions  == DOMAIN request
Results(i) == DOMAIN metas[i]

(***************************************************************************)
(* What one fetch goroutine computes from an entry.  A slot holds the zero *)
(* event and a nil error at first, then an error or an event.              *)
(***************************************************************************)
Zero      == [state |-> "zero"]
Failed    == [state |-> "failed"]
Found(ev) == [state |-> "found", event |-> ev]

PointerOf == [e \in Entries |-> ParsePointer(e.s3_path, e.start_byte, e.end_byte)]

Refused(e) == RefusedRange(PointerOf[e].start, PointerOf[e].end)

(* The client is bound to one bucket: the bucket in the pointer is not     *)
(* used.                                                                   *)
Place(e) == <<Bucket, PointerOf[e].key>>

RangeOf(e) == RangeHeader(PointerOf[e].start, PointerOf[e].end)

(* S3 has what the entry points at.                                        *)
Readable(e) ==
  /\ PointerOf[e].ok
  /\ Place(e) \in DOMAIN Store
  /\ Satisfiable(Store[Place(e)], RangeOf(e))

(* The bytes the server sends back, parsed.                                *)
ReadSlot(e, r) ==
  LET lines == Decoded(Store[Place(e)], RangeOf(e).first,
                       LastByteSent(Store[Place(e)], RangeOf(e)))
  IN  IF lines = {} THEN Failed
      ELSE Found(ReaderEvent(CHOOSE line \in lines : TRUE, r, e.timestamp))

(* The test of the collecting loop.  The second disjunct is about          *)
(* ReferenceID, which parseEvent sets to the id asked for.                 *)
Kept(s) == s.state = "found" /\ (s.event.id # "" \/ s.event.ref # "")

-----------------------------------------------------------------------------
Init ==
  /\ request \in Requests
  /\ ref       = [i \in Positions |-> "querying"]
  /\ refErr    = [i \in Positions |-> FALSE]
  /\ metas     = [i \in Positions |-> <<>>]
  /\ fetch     = [i \in Positions |-> <<>>]
  /\ slot      = [i \in Positions |-> <<>>]
  /\ sem       = [i \in Positions |-> 0]
  /\ next      = [i \in Positions |-> 1]
  /\ out       = [i \in Positions |-> <<>>]
  /\ merged    = 0
  /\ allEvents = <<>>
  /\ count     = [rocksdb |-> 0, entries |-> 0, s3 |-> 0]
  /\ cancelled = FALSE
  /\ faults    = {}
  /\ reply     = NoReply

(* An empty list is an error before anything is started.                   *)
RejectEmpty ==
  /\ request = <<>>
  /\ reply = NoReply
  /\ reply' = [status |-> "error"]
  /\ UNCHANGED <<request, ref, refErr, metas, fetch, slot, sem, next, out,
                 merged, allEvents, count, cancelled, faults>>

(* RangeQuery returns its results: the goroutine is done when there are    *)
(* none, and starts a fetch goroutine for each otherwise.                  *)
RangeQueryOK(i) ==
  /\ ref[i] = "querying"
  /\ \E answer \in Answers[request[i]] :
       /\ metas' = [metas EXCEPT ![i] = answer]
       /\ fetch' = [fetch EXCEPT ![i] = [j \in DOMAIN answer |-> "started"]]
       /\ slot'  = [slot EXCEPT ![i] = [j \in DOMAIN answer |-> Zero]]
       /\ ref'   = [ref EXCEPT ![i] = IF answer = <<>> THEN "done" ELSE "fetching"]
       /\ count' = [count EXCEPT !.rocksdb = @ + 1, !.entries = @ + Len(answer)]
  /\ UNCHANGED <<request, refErr, sem, next, out, merged, allEvents, cancelled,
                 faults, reply>>

(* Defect: a call whose context is done is never given up.                 *)
RangeQueryErrUnlessGone(i) ==
  /\ ref[i] = "querying"
  /\ ~cancelled
  /\ refErr' = [refErr EXCEPT ![i] = TRUE]
  /\ ref'    = [ref EXCEPT ![i] = "done"]
  /\ count'  = [count EXCEPT !.rocksdb = @ + 1]
  /\ faults' = faults \cup {<<i, 0>>}
  /\ UNCHANGED <<request, metas, fetch, slot, sem, next, out, merged,
                 allEvents, cancelled, reply>>

(* RangeQuery fails: the shard is down or refuses, or the context is done. *)
(* The error is recorded and goes no further than the log.                 *)
RangeQueryErr(i) ==
  /\ ref[i] = "querying"
  /\ refErr' = [refErr EXCEPT ![i] = TRUE]
  /\ ref'    = [ref EXCEPT ![i] = "done"]
  /\ count'  = [count EXCEPT !.rocksdb = @ + 1]
  /\ faults' = faults \cup {<<i, 0>>}
  /\ UNCHANGED <<request, metas, fetch, slot, sem, next, out, merged,
                 allEvents, cancelled, reply>>

(* A fetch goroutine resolves its pointer before it touches the semaphore. *)
Resolve(i, j) ==
  /\ fetch[i][j] = "started"
  /\ LET ok == PointerOf[metas[i][j]].ok
     IN  /\ fetch' = [fetch EXCEPT ![i][j] = IF ok THEN "waiting" ELSE "done"]
         /\ slot'  = [slot EXCEPT ![i][j] = IF ok THEN @ ELSE Failed]
  /\ UNCHANGED <<request, ref, refErr, metas, sem, next, out, merged,
                 allEvents, count, cancelled, faults, reply>>

(* Defect: no semaphore.                                                   *)
AcquireUnthrottled(i, j) ==
  /\ fetch[i][j] = "waiting"
  /\ sem'   = [sem EXCEPT ![i] = @ + 1]
  /\ fetch' = [fetch EXCEPT ![i][j] = IF cancelled THEN "doomed" ELSE "calling"]
  /\ UNCHANGED <<request, ref, refErr, metas, slot, next, out, merged,
                 allEvents, count, cancelled, faults, reply>>

(* sem <- struct{}{}: blocks while the semaphore is full, whether or not   *)
(* the context is done.  A call made with a context that is done already   *)
(* can only fail.                                                          *)
Acquire(i, j) ==
  /\ fetch[i][j] = "waiting"
  /\ sem[i] < S3Concurrency
  /\ sem'   = [sem EXCEPT ![i] = @ + 1]
  /\ fetch' = [fetch EXCEPT ![i][j] = IF cancelled THEN "doomed" ELSE "calling"]
  /\ UNCHANGED <<request, ref, refErr, metas, slot, next, out, merged,
                 allEvents, count, cancelled, faults, reply>>

(* A fetch goroutine leaves GetRange: it counts the call, fills its slot   *)
(* and, by its deferred functions, gives its token back and is done.       *)
Leave(i, j, result) ==
  /\ count' = [count EXCEPT !.s3 = @ + 1]
  /\ slot'  = [slot EXCEPT ![i][j] = result]
  /\ sem'   = [sem EXCEPT ![i] = @ - 1]
  /\ fetch' = [fetch EXCEPT ![i][j] = "done"]
  /\ UNCHANGED <<request, ref, refErr, metas, next, out, merged, allEvents,
                 cancelled, reply>>

Holding(i, j) == fetch[i][j] \in {"calling", "doomed"}

(* Defect: the token is kept on the early return.                          *)
RefuseRangeKeepingToken(i, j) ==
  /\ Holding(i, j)
  /\ Refused(metas[i][j])
  /\ count' = [count EXCEPT !.s3 = @ + 1]
  /\ slot'  = [slot EXCEPT ![i][j] = Failed]
  /\ fetch' = [fetch EXCEPT ![i][j] = "done"]
  /\ UNCHANGED <<request, ref, refErr, metas, sem, next, out, merged, allEvents,
                 cancelled, faults, reply>>

(* GetRange refuses an empty range without calling S3.                     *)
RefuseRange(i, j) ==
  /\ Holding(i, j)
  /\ Refused(metas[i][j])
  /\ Leave(i, j, Failed)
  /\ UNCHANGED faults

(* GetObject answers: the bytes are parsed into an event or an error.      *)
GetObjectOK(i, j) ==
  /\ fetch[i][j] = "calling"
  /\ ~Refused(metas[i][j])
  /\ Readable(metas[i][j])
  /\ Leave(i, j, ReadSlot(metas[i][j], request[i]))
  /\ UNCHANGED faults

(* Defect: a failed call is not counted.                                   *)
GetObjectErrUncounted(i, j) ==
  /\ Holding(i, j)
  /\ ~Refused(metas[i][j])
  /\ slot'  = [slot EXCEPT ![i][j] = Failed]
  /\ sem'   = [sem EXCEPT ![i] = @ - 1]
  /\ fetch' = [fetch EXCEPT ![i][j] = "done"]
  /\ faults' = faults \cup {<<i, j>>}
  /\ UNCHANGED <<request, ref, refErr, metas, next, out, merged, allEvents,
                 count, cancelled, reply>>

(* GetObject or the read of its body fails: no such object or range, S3 is *)
(* down, the 30 s timeout of the fetch fires, or the context is done.      *)
GetObjectErr(i, j) ==
  /\ Holding(i, j)
  /\ ~Refused(metas[i][j])
  /\ Leave(i, j, Failed)
  /\ faults' = faults \cup {<<i, j>>}

(* Defect: the slots are read when one fetch goroutine is done.            *)
JoinedOne(i) == \E j \in Results(i) : fetch[i][j] = "done"

Joined(i) == \A j \in Results(i) : fetch[i][j] = "done"

(* After fetchWg.Wait, one slot a step; the last one publishes perRef[i].  *)
Collect(i) ==
  /\ ref[i] = "fetching"
  /\ Joined(i)
  /\ out'  = [out EXCEPT ![i] = IF Kept(slot[i][next[i]])
                                THEN Append(@, slot[i][next[i]].event) ELSE @]
  /\ next' = [next EXCEPT ![i] = @ + 1]
  /\ ref'  = [ref EXCEPT ![i] = IF next[i] = Len(metas[i]) THEN "done" ELSE @]
  /\ UNCHANGED <<request, refErr, metas, fetch, slot, sem, merged, allEvents,
                 count, cancelled, faults, reply>>

(* Defect: a failed position is not passed.                                *)
MergeStuckOnError ==
  /\ \A i \in Positions : ref[i] = "done"
  /\ merged < Len(request)
  /\ allEvents' = IF refErr[merged + 1] THEN allEvents ELSE allEvents \o out[merged + 1]
  /\ merged' = IF refErr[merged + 1] THEN merged ELSE merged + 1
  /\ UNCHANGED <<request, ref, refErr, metas, fetch, slot, sem, next, out,
                 count, cancelled, faults, reply>>

(* Defect: the events of a later position come first.                      *)
MergeReversed ==
  /\ \A i \in Positions : ref[i] = "done"
  /\ merged < Len(request)
  /\ allEvents' = IF refErr[merged + 1] THEN allEvents ELSE out[merged + 1] \o allEvents
  /\ merged' = merged + 1
  /\ UNCHANGED <<request, ref, refErr, metas, fetch, slot, sem, next, out,
                 count, cancelled, faults, reply>>

(* After wg.Wait, one position a step, in the order of the request.        *)
Merge ==
  /\ \A i \in Positions : ref[i] = "done"
  /\ merged < Len(request)
  /\ allEvents' = IF refErr[merged + 1] THEN allEvents ELSE allEvents \o out[merged + 1]
  /\ merged' = merged + 1
  /\ UNCHANGED <<request, ref, refErr, metas, fetch, slot, sem, next, out,
                 count, cancelled, faults, reply>>

(* The result is built from the merged events and the counters; the error  *)
(* is nil, however many shards and fetches failed.                         *)
Respond ==
  /\ request # <<>>
  /\ merged = Len(request)
  /\ reply = NoReply
  /\ reply' = [status  |-> "ok", events |-> allEvents, total |-> Len(allEvents),
               metrics |-> [rocksdb |-> count.rocksdb, entries |-> count.entries,
                            s3 |-> count.s3, parsed |-> Len(allEvents)]]
  /\ UNCHANGED <<request, ref, refErr, metas, fetch, slot, sem, next, out,
                 merged, allEvents, count, cancelled, faults>>

(* The client goes away: net/http cancels the context of the request.      *)
ClientGone ==
  /\ ~cancelled
  /\ reply = NoReply
  /\ cancelled' = TRUE
  /\ UNCHANGED <<request, ref, refErr, metas, fetch, slot, sem, next, out,
                 merged, allEvents, count, faults, reply>>

(* The query is over.                                                      *)
Finished ==
  /\ reply # NoReply
  /\ UNCHANGED vars

-----------------------------------------------------------------------------
GetRange(i, j) == RefuseRange(i, j) \/ GetObjectOK(i, j) \/ GetObjectErr(i, j)

Fetcher(i, j) == Resolve(i, j) \/ Acquire(i, j) \/ GetRange(i, j)

Worker(i) ==
  \/ RangeQueryOK(i)
  \/ RangeQueryErr(i)
  \/ \E j \in Results(i) : Fetcher(i, j)
  \/ Collect(i)

Caller == RejectEmpty \/ Merge \/ Respond

Next == (\E i \in Positions : Worker(i)) \/ Caller \/ ClientGone \/ Finished

Spec == Init /\ [][Next]_vars

(* What goes on by itself: the goroutines and the caller run, and a fetch  *)
(* returns because of its timeout.  RangeQuery has no deadline: a shard    *)
(* that does not answer holds it until the context is done, so its failure *)
(* is only certain once the client has gone, and its success never is.     *)
Progress ==
  \/ Caller
  \/ \E i \in Positions :
       \/ cancelled /\ RangeQueryErr(i)
       \/ \E j \in Results(i) : Fetcher(i, j)
       \/ Collect(i)

FairSpec == Spec /\ WF_vars(Progress)

-----------------------------------------------------------------------------
(***************************************************************************)
(* Properties.                                                             *)
(***************************************************************************)
RefState   == {"querying", "fetching", "done"}
FetchState == {"started", "waiting", "calling", "doomed", "done"}

Lines  == UNION {Store[place] : place \in DOMAIN Store}
Events == {ReaderEvent(line, r, e.timestamp) : line \in Lines, r \in Refs, e \in Entries}
Slots  == {Zero, Failed} \cup {Found(ev) : ev \in Events}

(* The slots of a position have one entry per result, the collecting loop  *)
(* stays inside them, and a semaphore never holds more than its capacity.  *)
TypeOK ==
  /\ request \in Requests
  /\ ref \in [Positions -> RefState]
  /\ refErr \in [Positions -> BOOLEAN]
  /\ metas \in [Positions -> Seq(Entries)]
  /\ DOMAIN fetch = Positions
  /\ \A i \in Positions : fetch[i] \in [Results(i) -> FetchState]
  /\ DOMAIN slot = Positions
  /\ \A i \in Positions : slot[i] \in [Results(i) -> Slots]
  /\ sem \in [Positions -> 0 .. S3Concurrency]
  /\ next \in [Positions -> Nat \ {0}]
  /\ \A i \in Positions : next[i] <= Len(metas[i]) + 1
  /\ out \in [Positions -> Seq(Events)]
  /\ merged \in 0 .. Len(request)
  /\ allEvents \in Seq(Events)
  /\ count \in [rocksdb : Nat, entries : Nat, s3 : Nat]
  /\ cancelled \in BOOLEAN

(* Places of slots, <<position, index>>, in the order in which a response  *)
(* lists their events: by position of the request, then by index of the    *)
(* shard's result.                                                         *)
Before(p, q) == p[1] < q[1] \/ (p[1] = q[1] /\ p[2] < q[2])

(* events lists what the slots in places hold: in order, each place once,  *)
(* none left out.                                                          *)
Lists(events, places, slots) ==
  \E place \in [DOMAIN events -> places] :
    /\ \A k, l \in DOMAIN events : k < l => Before(place[k], place[l])
    /\ \A p \in places : \E k \in DOMAIN events : place[k] = p
    /\ \A k \in DOMAIN events : events[k] = slots[place[k][1]][place[k][2]].event

(* The places of position i, before index n, that hold an event to keep;   *)
(* the ones of all the positions up to i.                                  *)
KeptBefore(i, n, slots) ==
  {p \in {i} \X DOMAIN slots[i] : p[2] < n /\ Kept(slots[i][p[2]])}

KeptUpTo(i, slots) ==
  {p \in UNION {{h} \X DOMAIN slots[h] : h \in 1 .. i} : Kept(slots[p[1]][p[2]])}

(* In whatever order shards and fetches answer, the response lists the     *)
(* events that the fetch goroutines found, in the order of the request and *)
(* of the shards' results, each once and none missing: a goroutine is      *)
(* waited for before its slots are read (wg.Wait, fetchWg.Wait).           *)
ReplyListsWhatWasFound ==
  reply.status = "ok" => Lists(reply.events, KeptUpTo(Len(request), slot), slot)

(* A semaphore holds one token per fetch goroutine of its position that is *)
(* inside GetRange, on every way out of it, and never more than its        *)
(* capacity of them are ("at most s3Concurrency", service.go).             *)
SemaphoreCountsCalls ==
  \A i \in Positions :
    /\ sem[i] = Cardinality({j \in Results(i) : Holding(i, j)})
    /\ sem[i] <= S3Concurrency

AllResults == UNION {{i} \X Results(i) : i \in Positions}

(* The metrics of a response add up although the counters are bumped by    *)
(* many goroutines: one RangeQuery per position, one fetch per entry whose *)
(* pointer resolves (a refused range counts as a fetch), one entry per     *)
(* result, and no more events than fetches.                                *)
MetricsAddUp ==
  reply.status = "ok" =>
    /\ reply.metrics.rocksdb = Len(request)
    /\ reply.metrics.entries = Cardinality(AllResults)
    /\ reply.metrics.s3 =
         Cardinality({p \in AllResults : PointerOf[metas[p[1]][p[2]]].ok})
    /\ reply.metrics.parsed = Len(reply.events)
    /\ reply.total <= reply.metrics.s3

(* What the collecting loop has passed, and what a finished goroutine left *)
(* in perRef, is never written again: nothing is read while a straggler    *)
(* may still write it.                                                     *)
StableOnceRead ==
  [][\A i \in Positions :
       /\ \A j \in Results(i) : j < next[i] => slot'[i][j] = slot[i][j]
       /\ ref[i] = "done" => /\ out'[i] = out[i]
                             /\ refErr'[i] = refErr[i]
                             /\ slot'[i] = slot[i]]_vars

(* The two forms in which the index names a line: offsets in the path      *)
(* ("bucket|objectKey|startByte|endByte"), or in the entry's fields, after *)
(* a leading slash or none.  The end is exclusive, and may or may not take *)
(* in the newline.                                                         *)
Indexes(e, key, line) ==
  \E end \in {line.to - 1, line.to}, slashes \in {<<>>, <<Slash>>} :
    \/ e.s3_path = slashes \o Bucket \o <<Pipe>> \o key
                     \o <<Pipe, Number(line.from), Pipe, Number(end)>>
    \/ /\ e.s3_path = slashes \o Bucket \o <<Pipe>> \o key
       /\ e.start_byte = line.from
       /\ e.end_byte = end

(* An event the index names is missing from a response only because the    *)
(* call to its shard or its own call to S3 failed: never through the       *)
(* pointer arithmetic, the parsing or another goroutine's failure.  (An    *)
(* event with no id that is asked for under the empty reference id is      *)
(* dropped by design.)                                                     *)
LossOnlyByFault ==
  reply.status = "ok" =>
    \A i \in Positions : \A j \in Results(i) :
      \A place \in DOMAIN Store : \A line \in Store[place] :
        /\ line.json
        /\ line.id # "" \/ request[i] # ""
        /\ place[1] = Bucket
        /\ Indexes(metas[i][j], place[2], line)
        /\ <<i, j>> \notin faults
        => \E k \in DOMAIN reply.events :
             reply.events[k] = ReaderEvent(line, request[i], metas[i][j].timestamp)

(* A query whose client has gone is over in the end, even if a shard never *)
(* answers: its RangeQuery calls end with the context, its fetches with    *)
(* their timeout, and no goroutine is left waiting for a token.            *)
GoneClientIsReleased == cancelled ~> reply # NoReply

(* Once every shard has answered or failed the query is answered, however  *)
(* many entries wait for a token and however many fetches fail.            *)
AnsweredQueryReplies ==
  (\A i \in Positions : ref[i] # "querying") ~> reply # NoReply

(* service.go:122: "Firing thousands of S3 requests simultaneously         *)
(* overwhelms MinIO.  Allow at most s3Concurrency in-flight GetRange calls *)
(* at once."  The semaphore is made inside the goroutine of a position.    *)
AtMostS3ConcurrencyInFlight ==
  Cardinality({p \in AllResults : Holding(p[1], p[2])}) <= S3Concurrency

(* service.go:6: the pointer is "bucket|objectKey|startByte|endByte" and   *)
(* the lookup fetches "the exact byte range": an event found through a     *)
(* pointer is a line of the object that the pointer names, in its bucket.  *)
FoundInThePointersBucket ==
  \A i \in Positions : \A j \in Results(i) :
    slot[i][j].state = "found" =>
      LET p == PointerOf[metas[i][j]]
      IN  p.bucket # <<>> => /\ <<p.bucket, p.key>> \in DOMAIN Store
                             /\ \E line \in Store[<<p.bucket, p.key>>] :
                                  line.id = slot[i][j].event.id
=============================================================================
