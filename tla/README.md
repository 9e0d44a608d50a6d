# A TLA+ model of the read service

This directory specifies the read path of the repository: how a query for
events goes from reference ids to index entries on RocksDB shards, from index
entries to byte ranges of S3 objects, and back to one response. TLC checks the
modules on small instances, TLAPS proves the most important properties for every
instance.

There are two programs in the repository, and both are modelled:

* the **orchestrator** (`cmd/main.go`, `internal/`), the one the Dockerfile
  builds: gRPC shards, a consistent hash ring, ranged S3 reads;
* the **older read service** (root `main.go`): HTTP shards, hash modulo the number
  of shards, whole-object S3 reads with many buckets.

## Inventory

| Component | Code | State it keeps | Operations | What is hard | What makes it correct |
|---|---|---|---|---|---|
| Lookup | `internal/reader/service.go:72-208` | per query: `perRef`, `events`, `fetchErrs`, a semaphore per reference id, atomic counters | `LookupMany`, `Lookup`, `LookupOne` | two levels of goroutines over shared slices, throttling, cancellation, partial failure | a response lists exactly what was found, in order; nothing is lost but by a failed call; tokens come back; it ends |
| Pointer parsing | `service.go:236-272`, `main.go:745-762` | none | `parsePointer`, `parseS3Path` | separators in keys, two forms of one field, two parsers | the place a pointer names is the place that is read |
| S3 reads and event parsing | `internal/s3store/client.go:52-71`, `service.go:276-315`, `main.go:851-992` | none | `GetRange`, `parseEvent`, `fetchEventsFromS3File` | exclusive and inclusive ends, newlines, short objects | exactly one line is decoded |
| Hash ring | `internal/ring/ring.go` | `points`, fixed after `New` | `New`, `Get` | wrap-around, collisions and an unstable sort, agreement between processes | `Get` returns a successor; processes with the same shards agree |
| ReadService query | `main.go:463-1001, 1020-1058` | per query: a map under a mutex, two semaphores, channels; service-wide counters | `handleQuery`, `ExecuteQuery` | duplicate ids in one map, map order, limit before sort, three timeouts, swallowed errors | what was read is returned once; loss shows in the failure counters; every query is answered |
| Orchestrator HTTP | `internal/reader/http.go` | none | `query`, `events`, `getAll`, `getOne`, `health` | failures shown as 404 or 200; four forms of time; event ids with slashes; the write timeout and the read deadline | a client sees what it asked for, all of it unless a call failed |
| Shard pool | `internal/shard/pool.go` | `clients`, `conns` under an RWMutex | `New`, `RangeQuery`, `PingAll`, `Close` | fan-in of errors over a channel nobody reads meanwhile, `Close` under running queries | the check returns and names the shards that failed; the pool outlives the handlers |
| Orchestrator process | `cmd/main.go` | start-up order, signal, server | `main` | shards that are down at the start, graceful shutdown with queries in flight, signals before and after `Notify` | the ring has the pool's shards; accepted requests finish unless the 10 s are over; a signal ends it |
| Configuration | `config/config.go`, `main.go:72-177, 1148-1174` | environment | `Load`, `loadConfig`, `loadShards`, two `parseShardURLs` | three sources with priorities, empty values, gaps and blank parts, two parsers of one list | each variable is what it is meant to be; both programs read one list alike |
| ReadService lifecycle | `main.go:202-277, 346-461, 1007-1018, 1082-1099` | `s3Clients`, exporters, counters | `NewReadService`, `Start`, `Stop`, `testShardConnectivity` | a map without a lock, a server goroutine that fails alone, a shutdown in two parts | the map is complete before it is read; what was answered is exported unless the SDK dropped it or ran out of time; a signal ends it |
| RocksDB protocol | `proto/rocksdb` | none | generated | | not modelled: generated code |

How they interact: an HTTP handler calls `LookupMany` with the request's context
(cancelled by net/http when the client leaves). Each reference id is routed by
`ring.Get` and asked for with `Pool.RangeQuery`; each entry of the answer goes
through `parsePointer`, `Client.GetRange` and `parseEvent` in a goroutine of its
own. Queries share the ring, the pool and the S3 client, none of which is written
after start-up. The index-builder, the rocksdb-node, S3 and net/http are outside of
the repository and modelled by how this code uses them.

`PROJECT.json` lists under "hazards" what can go wrong, line by line, and which
property would notice.

## Modules

| Module | What it is |
|---|---|
| `Pointer` | operators: both pointer parsers on lexed paths (tokens: slash, pipe, scheme, name, number) |
| `Segment` | operators: objects as sets of lines, range reads, slices, both event parsers |
| `PointerReaders`, `MCPointerReaders` | one index entry and its two readers |
| `Lookup`, `MCLookup` | `LookupMany` |
| `BestEffortRead` | abstract: what a query promises, without goroutines |
| `LookupRefinement` | the mapping from `Lookup` to `BestEffortRead` |
| `LookupProofs` | theorems about `Lookup`: its loops and slots, then its results, metrics and the refinement, and that a query ends |
| `HashRing`, `MCHashRing` | `ring.New` and `ring.Get` in several processes |
| `HashRingProofs` | theorems about `HashRing` |
| `ReadService`, `MCReadService` | a query of the older service |
| `ReaderHTTP`, `MCReaderHTTP` | one HTTP request to the orchestrator, from its path to what the client sees |
| `FanIn` | the connectivity check, goroutine by goroutine: `PingAll` and `testShardConnectivity` |
| `Orchestrator` | the process of `cmd/main.go` with the pool, from start to exit |
| `ServiceMain` | the process of the older service, from start to exit, with its telemetry |
| `ServiceProcess` | composes `ServiceMain` and `FanIn` |
| `Config` | `config.Load` with `loadDotEnv` |
| `ServiceConfig` | `loadConfig` and `loadShards` of the older service, and where it then asks |
| `Deployment`, `MCDeployment` | composes `Config` and `ServiceConfig`: both programs given one list of shards |
| `OrchestratorProofs`, `ServiceProcessProofs` | theorems about `Orchestrator`, and about `FanIn`, the end of the check too, `ServiceMain` and their composition |
| `PointerProofs` | lemmas about the operators of `Pointer` and `Segment`: ranks of separators, `SplitN`, `TrimLeft`, what each form of a path resolves to, `FlattenSeq` |
| `BothProgramsProofs` | theorems about what the two programs make of one thing: of their environment (`Deployment`), of an entry of the index (`PointerReaders`) |
| `ReadServiceProofs`, `ReaderHTTPProofs` | theorems about `ReadService`, the end of a query too, and about `ReaderHTTP` |

Operators marked `Defect:` in these modules are variants of the definition next to
them with a plausible bug in it; no specification uses them. Each property has one
that it must detect (`PROJECT.json`, "mutants").

### Lookup

Every position of the list of reference ids has a goroutine; the state of goroutine
`i` is `ref[i]` (`querying`, `fetching`, `done`), and the state of its fetch
goroutines is `fetch[i][j]`:

| Action | Code |
|---|---|
| `RejectEmpty` | the empty list, 75-77 |
| `RangeQueryOK`, `RangeQueryErr` | 103-134: the call and all that is done before the fetch goroutines run |
| `Resolve` | 136-140, before the semaphore |
| `Acquire` | 143; a call made after the context is done is `doomed` and can only fail |
| `RefuseRange`, `GetObjectOK`, `GetObjectErr` | 147-166 with `GetRange`; each counts the call, fills the slot and runs the deferred functions (`Leave`) |
| `Collect` | 168-180, one slot a step |
| `Merge` | 183-192, one position a step |
| `Respond` | 194-207 |
| `ClientGone` | net/http cancels the request's context |

`slot[i][j]` stands for `events[j]` and `fetchErrs[j]` together: the zero event with a
nil error, an error, or an event. Filling a slot, counting and releasing the token
are one step: the slot is read after `fetchWg.Wait` only, the counters after `wg.Wait`
only, and a token that is given back later only delays others. `faults` is a history
variable. Left out: timings and `BytesRead`, logging, `Category`, `EventType` and
`Data` of events. Where the shard of a reference id is comes from `HashRing`; here
`Answers[r]` is what that shard may answer.

A timestamp parameter selects entries at the shard, which `Answers` covers.

### Segment and Pointer

A path is a sequence of tokens, because the parsers look at slashes, pipes and
numbers and at nothing else. An object is a set of lines with byte offsets: a range
decodes as a line if it covers the whole text of the line and nothing else but a
newline on either side, which is what `json.Unmarshal` accepts.

### HashRing

The hash of virtual nodes is a function chosen at the start from `Hashes`, so that
TLC tries all hash functions with small values and the proofs hold for all.
`Sort` picks any order that is sorted, as `sort.Slice` is not stable. `sort.Search`
is taken an iteration at a time (`Halve`). Processes differ in the list of shards they
pass to `New`.

### ReadService

The caller's loop takes the tokens itself (`LaunchQuery`, `LaunchFetch`), the goroutines
give them back (`QueryShardOK`, `QueryShardErr`, `GetObjectOK`, `GetObjectErr`).
`result` is the map of the first wave, `grouped` the one of the second; ranging over
them is in any order. `Drain` takes one list from the channel a step and applies the
limit; `Respond` sorts in any order that is sorted. Storing an answer in the map and
giving the token back are one step, as nobody reads the map before `wg.Wait`. The
deadline of the query and a client that leaves are one event, `Expire`. `Reject` is every
way out of `handleQuery` before the query starts. An entry may have any
offsets: one whose end is before its start makes the slice at line 923 panic, and as no
goroutine recovers, `GetObjectPanics` ends the process (`stage = "crashed"`). Left out:
tracing, histograms, event fields other than id and time; the two filters of a
request are one.

### ReaderHTTP

| Action | Code |
|---|---|
| `MuxReplies`, `HealthReplies` | `http.ServeMux` with the routes of `http.go:39-45`, and 49-51 |
| `QueryRejects`, `QueryAccepts` | 54-83: method, decoding, the empty list, times from seconds to RFC 3339 |
| `EventsRejects`, `GetAll`, `GetOne` | 94-131, 149: method, the path cut in two, times that must parse |
| `AskShards`, `Fetch`, `FetchTimesOut` | `LookupMany` in two steps, with any losses |
| `AnswerQuery`, `AnswerAll`, `AnswerOne` | 84-91, 132-147, 150-161 with `LookupOne` |
| `Tick`, `ClientGone`, `ReadDeadline` | the clock, the client, and net/http, whose background read may fail at the read deadline and cancel the context |

Paths are lexed into slashes and names. `LookupMany` is two steps here, since `Lookup`
has it goroutine by goroutine; `lost` is what `Lookup` calls faults. What the client sees is `seen`:
nothing if it has left or the write deadline (30 s, `cmd/main.go:68`) is over. `clock` counts units
of 15 s, in which the read deadline is 1, the write deadline and the timeout of a fetch 2.
`Index` is what the shards have. What they make of a bound that is not RFC 3339 (a time beyond the year 9999 has five
digits, `http.go:192`) is not in the repository: `AskShards` then lets them withhold any entries and apply no range.

### FanIn, Orchestrator, ServiceMain and ServiceProcess

`FanIn` has the caller (`Launch`, `Join`, `Drain`, `Return`) and a goroutine for each shard
(`PingOK` or `PingErr`, `Send`, `Done`) with the WaitGroup and the buffered channel. The two
checks of the repository differ in what they ask a shard and in their wording.

`Orchestrator` follows `main` statement by statement: `Configure` (20-31), `Dial`, `DialErr`,
`Dialled` (`shard.New`), `PingAll`, `StartServer` (51-77), `Notify`, `BeginShutdown`,
`Expire` and `ShutdownReturns` (86-93), `CloseConn` and `Exit` (the deferred `pool.Close`).
The server goroutine is `Listen`, `Serve`, `ListenErr`; a handler is `Accept`, `Ask` (`pool.client`
under the read lock), `ShardAnswers`, `ShardErr` or `CallOnClosed`, and `Reply`. `Signal` kills
the process before `Notify` and fills the channel after it. `log.Fatalf` in the server
goroutine ends the process without the deferred calls. `PingAll` is one step, its goroutines are `FanIn`.

`ServiceMain` is the same for `main.go`: `Create`, `Connect`, `ConnectErr`, `Connected`,
`Tested`, `LaunchServer`, `Notify`, `Stop`, and the shutdown of the two providers
(`ShutdownTracer`, `ShutdownMeter` and their failures), with `Accept` and `Answer` for queries and
`Export`, `ExportErr`, `EndpointFlips` for the collector. The OpenTelemetry SDK is external: one span
and one count stand for what a query leaves with it. Its batch span processor drops a span that finds the
queue full (`MaxQueueSize`, 2048 in the SDK), drops a batch that is refused, and tells nobody of either: the shutdown of the
tracer provider returns the error of the context only, so that the last batch may be lost (`LastBatch`) and the meter
provider is shut down nevertheless, but not when the 5 s ran out (`ShutdownTracerErr`). Counters are cumulative, so that a
failed export of them loses nothing but the last one, which the meter provider's shutdown returns.
`ServiceProcess` runs the goroutines of `FanIn` while `main = "testing"` and lets `Tested` happen only
when the check has returned.

### Config, ServiceConfig and Deployment

`Config` takes `.env` a line a step (`Skip`, `SetPair`, `EndOfFile`) and then resolves the
variables (`Missing`, `Load`). `ServiceConfig` takes `BUCKET_i` and `SHARD_i` an index a step
(`ReadBucket`, `ReadShard`), parses the list (`ParseList`), and asks for a key (`Ask`). A value is
the sequence of its comma-separated parts. `Deployment` gives both programs one `SHARD_URLS`
and asks the older service for a key. They run one after the other: they share nothing that they
write. `Meant` is the documented priority (`config.go:2, 91-92`): the environment if it has the variable, else the first
line of the file that names it. `ConfigIsMeant` says that the program does this for each variable that has no entry after an
empty text; for the others the code does something else (`deployment_empty`).

## Runs

| Run | Question | States |
|---|---|---|
| `lookup` | safety and termination of a query in all interleavings, faults and cancellations; does it implement `BestEffortRead` | 12466 |
| `lookup_in_flight` | is the limit of 32 calls one of the query? no | violation |
| `lookup_bucket` | is the bucket of a pointer used? no | violation |
| `pointer` | do both parsers find the place an entry names | 1536 |
| `pointer_full_path` | does the path form of the comment resolve? no | violation |
| `ring` | successor search and agreement | all functions from 4 points to 4 values |
| `read_service` | what a query of the older service returns, counts and loses; is every one answered | 12611 |
| `http` | does a client see what it asked for | 74082 |
| `orchestrator` | start, service and shutdown of the orchestrator | 12196 |
| `service_process` | start with the connectivity check, service and shutdown of the older service | 90698 |
| `deployment` | is the configuration what it is meant to be, and the same for both programs | 285437 |
| `deployment_empty` | is a variable that is set, even to the empty text, left as it is? no | violation |

Bounds, and why they are enough:

* `lookup`: up to two positions (the same id twice is one of the requests) with up
  to two results each; the fetch goroutines of a position interact through the
  semaphore and the barrier only, positions through the second barrier only, so two of
  each show every pairwise order. One reference id has four results against two tokens,
  so that goroutines queue up. The entries cover both pointer forms, leading slashes,
  ends with and without the newline, lines that are not JSON or have no id, empty
  ranges refused early and late, and a missing object.
* `pointer`: keys with slashes, pipes, numbers and all of them, zero to two leading
  slashes, four forms of path.
* `ring`: two virtual nodes for each of two shards and hashes 0..3, so that
  collisions, keys before, on and after all points all occur.
* `read_service`: up to three reference ids against two tokens, an id twice, four objects
  against two tokens, one key in two buckets, a bucket without a client, a range beyond an
  object and one that is backwards, limits 0 to 2 (one of them less than what a single object
  yields), a filter, requests that are refused.
* `http`: two reference ids, three events, one of them with a slash in its id; every route
  with each method, lists of none to two ids and one id twice, six forms of time in bodies
  and five in queries, before, at and after the events and beyond the year 9999; a clock of
  three units, one more than the longest timeout.
* `orchestrator`: two shards, any of them down, and two requests: one handler can hang at a
  shard while the other one is under way, in every stage of the shutdown.
* `service_process`: two buckets, two queries (one over before the signal, one not), three shards
  in the check, so that two errors can wait in the channel while the third is sent. The queue has room for one span
  (`MaxQueueSize`), so that the second may be dropped.
* `deployment`: three variables, each unset, empty or set; files of up to three lines with keys
  twice, empty values and a line that is too long; lists of up to three parts with blanks in every
  position; three indexes of `BUCKET_i` and `SHARD_i`, set, malformed or not; six hashes.

No counter is unbounded: each goroutine bumps one once.

Deadlock is checked in every run: a query that is over loops in `Finished`, a process that has
ended in `Terminated`.

## Fairness

`Lookup!FairSpec`: weak fairness of `Progress`, which holds the steps of running
goroutines, the return of a fetch (`context.WithTimeout` of 30 s, `service.go:147`, so it
fails if nothing else) and the failure of `RangeQuery` once the client has gone (gRPC
ends a call whose context is done). Not in it: that a shard answers, and that it fails
while the client waits, since `RangeQuery` is called with the bare request context
(`service.go:108`). So `AnsweredQueryReplies` and `GoneClientIsReleased` are all that
can be said: there is no unconditional "a query is answered" for the orchestrator.

`ReadService!FairSpec`: the same, with the failure of each shard call and fetch in
`Progress`, because both have a timeout (`main.go:609, 793`). There `QueryIsAnswered` holds.
Neither assumes that a shard or S3 ever answers.

`Orchestrator!FairSpec`: `main` and the server goroutine run, a handler asks and replies, and a
shard that is up answers (that is what "up" means). A call to a shard that is down may hang for ever, no
signal need come and no client need ask. So `SignalEnds` rests on the deadline of the shutdown
(`cmd/main.go:89`) alone.

`ServiceProcess!ProcessFairSpec`: `main` and the goroutines of the check run, the 5 s of a check
(`main.go:430-432`) and of `Stop` pass. Neither a shard nor the collector need answer, and no query
need end. The steps that wait for the collector (`ShutdownTracer`, `ShutdownMeter`) have no fairness.

## What the violations show

* `lookup_in_flight`: `service.go:122-123` promises at most 32 calls at once; the
  semaphore is made per reference id (125).
* `lookup_bucket`: `GetRange` gets no bucket, so a pointer into another bucket than the
  configured one is read from the wrong one.
* `pointer_full_path`: the comment at `service.go:238-239` describes a path that the code
  below it would not resolve; the one at 257-261 is what the code does.
* `deployment_empty`: a variable that is set to the empty text is overwritten from `.env` (`config.go:116`), which
  `config.go:91-92` ("skipping keys that are already set") and `config.go:2` deny.

Seen while modelling, in plain sight in the code and without a run: the documented body of `POST
/query` (`http.go:16`, RFC 3339 times) is refused, because the fields are numbers (62-63); a query that finds
nothing answers `"events": null`, not a list; an event id that ends in a slash cannot be asked for (`http.go:179`); 404 from `GET /events` also stands for shards that failed; a time
beyond the year 9999 is sent to the shard with five digits; the older service and the orchestrator hash the same text with the
same function, but one takes it modulo the number of shards (`main.go:1131-1133`) and the other looks it up on the ring, so that
with one list of addresses they ask different shards for a reference id (no document says that they serve one index).

## Proofs

The eight modules named `...Proofs` are checked by TLAPS with Z3, Zenon and LS4; every
step has a proof.

**HashRing.** Assumptions: at least one shard per process, shard ids and hashes are
natural numbers (`ShardIDsAssumption`, `HashesAssumption`), a default of at least one
virtual node (`VNodesAssumption`). The invariant says that the points of a ring are
exactly the virtual nodes of the shards inserted so far (any order), that they are
sorted from `Sort` on, and that the search keeps everything up to `lo` before the key
and everything from `hi` on at or after it. `GetFindsAnOwner` needs all three: the
search alone shows the successor among the points, not that the points are the
virtual nodes. `RoutedAlike` follows from `GetFindsAnOwner` alone: owners are unique
when hashes do not collide, and an owner in the bigger ring that is a label of the
smaller one is an owner there.

**Lookup.** Assumptions: requests are sequences of reference ids, answers sequences of
entries, at least one token (`RequestsAssumption`, `AnswersAssumption`,
`ConcurrencyAssumption`). The theorem about a response is not inductive by itself: the
invariant `IInv` adds, for each position, that `out[i]` lists the events of the slots
before `next[i]` (`Collected`) and that all of its fetches are done once
`next[i] > 1` (`Stage`); and for the caller that `allEvents` lists those of the first
`merged` positions and that all of them are done once `merged > 0`. With the barriers a
fetch goroutine that is not done writes a slot that neither loop has passed
(`FetcherKeepsRest`), which is why what the loops have listed stays right. "Lists" is a
relation (an order-preserving bijection between events and slots), and the lemmas
`ListsAppend` and `ListsConcat` are all that is needed of it. `TypeOK`,
`ReplyListsWhatWasFound`, `SemaphoreCountsCalls` and `StableOnceRead` follow.

**The results of Lookup.** `StoreAssumption` says what the index-builder stores: bucket names as S3 has
them, keys without a pipe (it joins its fields with pipes, so that another key could not be read
back), objects that are sequences of newline-terminated lines. Nothing is assumed of
the entries: a shard may answer anything. `RInv` is inductive relative to `IInv`. For each fetch that is
over it says which of the four outcomes (unresolved, refused, failed, read) its slot holds and whether `faults` has it
(`Filled`), for each position what its shard answered (`Answered`), that the two counters count
the goroutines that are past them (`Counted`), and that the response has the counters of the end
(`Replied`). `MetricsAddUp` is then a statement about sizes of sets of positions; `LossOnlyByFault`
needs, besides, that a named line resolves to its place (`IndexedResolves`, from `PointerProofs`) and
that its range decodes as that line and no other (`LineReadsBack`). `LookupImplementsBestEffortRead`
takes each action: the first that ends a position settles it, `Respond` answers, all others stutter.

**Pointer and PointerReaders.** `PlacesAssumption`: the places are those an index-builder can write: a
bucket name, a key that is not empty, a range that is not empty and starts at 0 or later.
`SlashesAssumption`: any number of leading slashes. A path is any lexed text, of any length. Cutting at
separators is a matter of ranks: the k-th separator is the one with k separators up to it (`Nth`), and the
pieces of `SplitN` are what is between two of them, so that `SplitOnce` and the like follow without induction over
the text. The state machine around the parsers adds only that the entry never changes (`EntryInv`).

**ReadService.** `PathsAssumption`: a path that names a bucket names one without a slash;
`StoreAssumption`: as for `Lookup`, and no empty key; `IndexAssumption`: offsets are integers, negative
and backwards ones too; `SlotsAssumption`: semaphores with room. `FlattenSeq` (in `PointerProofs`), `SetToSeqs` and
the grouping are described by bijections between the places before and after (`Placement`,
`Regrouped`), for which one induction over numbers, in the form of a set, is enough (`Induct`). The invariant:

* `IInv`: types, tokens, and what is known at each stage. It gives `TypeOK` and
  `SemaphoresCountGoroutines`. That a token is free of goroutines at the end needs that the second wave starts only when the
  first is over (`Stages`).
* `MInv`: the map has, for a reference id, the metadata of one of the answers for it, and has something
  if one of them had; the groups are a rearrangement of the map (`GroupedFrom`).
* `CInv`: the counters count failed goroutines. With `MInv` it gives `CountersAgree`, with what the map keeps of a reference id
  that is there twice: one answer, whole (`OneAnswerIsKept`).
* `RInv`: what is in the channel and what was taken from it are together the events of the slices of the objects
  read, each once (`Collected`), cut when the limit is reached (`Limited`). It gives `ResponseHoldsWhatWasRead`.
* `OInv`: an object that was read exists.

`CrashOnlyByBackwardsRange` needs `MInv`: a slice that panics is one of an answer.
`FoundInTheNamedBucket` takes an event back from the response to its slice (`RInv`), its group, and an entry
(`MInv`); that all metadata of a group name one object is `OnePathOneObject`, where the assumption about slashes is needed: with
a slash in a bucket two objects could share a group path. `LossIsCounted` goes the other way: with no failure counted all shards
have answered and all objects are read; a named line resolves (`NamedIsLocated`), is in the map, in a group, in a slice of
its own (`LineIsSliced`), and without a limit the injection of the events into the slices is onto, so that it is in the response.

**ReaderHTTP.** `RequestsAssumption`: paths are lexed, a name as long as it can be, and times are of one of the four
forms; `IndexAssumption`: the index is a list, ids are lists of tokens. Nothing is assumed of which slashes a path
has, nor of methods, bodies and entries. `ClockInv` gives `TimedOutFetchIsNeverSeen`: a fetch that ran into its 30 s began
after the headers were read, so that the 30 s of the write deadline are over. `HTTPInv` says that the
call of a handler repeats the text of the request (`Passed`), and that the
response is the one the handler makes of the call and of what was lost (`Answers`). The rest is about text and lists: a clean path under
`/events/` has a name after the prefix and a slash after that name (`NamedTokens`), trimming takes off one slash at most
(`TrimmedIsNamed`), so that `SplitPath` cuts where `Asked` does (`PartsAreNamed`); the bound in the call is the one of the request (`SameBound`);
and what is found are the matches that were not lost (`FoundAre`).

**FanIn.** Assumption: a finite set of shards (`ShardsAssumption`). That a sender never blocks
is about numbers, and the invariant counts: the WaitGroup counts the goroutines at work
(`Counted`), and while the caller launches, the channel holds one error for each unhealthy shard whose
goroutine is past its send (`Accounted`). A goroutine that is about to send is not among those, so that
they are fewer than the shards, and hence than the capacity. `Places` says that the caller is past `Join` only
when all goroutines are done; that is why the channel is open, and why what is drained is everything.

**Orchestrator.** Assumption: at least one address (`NumAddrsAssumption`). `RingMatchesPool` needs
that the clients are those of the first addresses, however far `New` got (`Prefix`), and that requests are
routed to them only (`Routed`); `HandlersFinish` that connections are open unless `main` is closing, and that
it is closing only when no handler runs or the time is over (`Phases`). No new handler can start then,
as the listener is closed, which is why `Phases` has the server in it.

**ServiceMain.** The queue has a size (`MaxQueueSizeAssumption`). `Launched` says that the server goroutine exists only when the
map of clients is complete; `Kept` that, as long as a provider is up, what an answered query left waits with it, is exported or,
for a span, was dropped, and that it no longer waits when the provider is down.

**ServiceProcess.** `ProcessImplementsParts`: the composition implements `ServiceMain` and `FanIn`, so that
their theorems hold of it. `NoCheckLeftBehind` needs both: the server exists only after `Tested`, `Tested` only after
the check has returned, and then all of its goroutines are done.

**Deployment, Config and ServiceConfig.** `DeploymentsAssumption`: the environments know every variable that the programs or
a `.env` file name, values and files are lists, and no bucket has an index beyond the bound; `ShardURLsAssumption`: the list of shards
is required, and nothing is both required and optional. `ConfigInv` says of the scanner's loop that no line before the next one ended it and that
each variable has the value it was started with, or else the first one that the lines so far offer (`Scanned`, `IsFirst`); so the
`CHOOSE` in `ConfigIsMeant` picks the line the program took it from (`MeantIsFound`). `ServiceInv` says that while the loop is at an index, the
buckets are those of the right form below it, each at the place its rank gives it (`BucketsSoFar`). Both parsers of the list
flatten lists of at most one element, where the place of each is again its rank among the parts that are not blank
(`FlattenInOrder`). Thus the addresses are in order (`ParsedInOrder`), the two lists are alike though the ids of one have gaps
(`ParsedAlike`), and a hash modulo their length picks the same address from both: `BlankPartsMoveNoKey`.

**That queries and the check end.** `AnsweredQueryReplies`, `GoneClientIsReleased`, `QueryIsAnswered` and `StartGoesOn` rest on
fairness and on two facts without it, which are proved for any number of goroutines. First, nothing is waited for that cannot
come: while a query of the orchestrator has no reply, some process can go on, or a shard is asked, or a fetch is under way
(`QueryWaitsForCalls`); where the older service waits for a token or a wave, one of its goroutines is under way
(`WaitsEnd`, which needs the room of `SlotsAssumption`); at `wg.Wait` the check has a goroutine that pings or can go on
(`FanInWaitsForPings`). Semaphores that count their holders, and barriers whose goroutines are accounted for,
are what makes them true. Second, there are finitely many steps: each step that is not a stutter lowers a natural number (`FanInIsFinite`) or,
lexicographically, a pair of them (`QueryIsFinite`, in `LookupProofs` and in `ReadServiceProofs`): first what brings new goroutines, the
shards to be asked or the stages to come, then the steps of those there are. `StartIsNotHeld` has both facts of the check inside
the process. What is left to TLC is that a step that can be taken is taken.

With that, every safety invariant that a passing run checks is proved. Only model-checked are the properties about what must
happen in the end: `SignalEnds`, `StopEnds` and `HealthyShardsServe` altogether, the four above as far as fairness goes.
Liveness under fairness and `ENABLED` are out of the prover's reach. So is induction
over data (what a recursive definition computes for every input); where a proof needs to know what `FlattenSeq`
makes of a list, it is derived from the definition by induction over the number of lists. No module has a `RECURSIVE` operator.

## Not modelled, and why

* `proto/rocksdb/*.pb.go` is generated; the AWS, gRPC and OpenTelemetry libraries are
  external. HTTP framing, JSON encoding and logging carry no state.
* Semaphores without room (a capacity that is configured as 0, or as a text that is not a number,
  `main.go:1155-1163`) are left out by `SlotsAssumption`: the first query would wait for ever.
* Durations, ports, endpoints and credentials are passed on as they are. The reference id goes unescaped into
  the query string of a shard's URL (`main.go:662`), where `&`, `#`, `+` and `%` have a meaning of their own; ids are atoms here.
* `category`, `event_type` and `limit` in the body of a query to the orchestrator (`http.go:64-66`) are decoded and
  ignored; requests here do not have them.

## Plan

What is left: an abstract specification of the older service (a best-effort read keyed by reference id) and its
refinement, as `BestEffortRead` is for the orchestrator.
