---------------------------- MODULE Orchestrator ----------------------------
(***************************************************************************)
(* The process of cmd/main.go from its start to its exit, with the shard   *)
(* pool (internal/shard/pool.go) it opens first and closes last, the       *)
(* server goroutine, the handlers of the requests it accepts and the       *)
(* signals it gets.  When the process ends, whatever still runs is cut.    *)
(*                                                                         *)
(* A handler makes one call to one shard: Lookup is the module of what a   *)
(* query does with it.  PingAll is one step: FanIn is its module.          *)
(***************************************************************************)
EXTENDS Naturals, FiniteSets

CONSTANTS
  NumAddrs,   \* len(cfg.ShardURLs)
  Reqs        \* the requests of the clients

(* parseShardURLs returns at least one address (config.go:85).             *)
ASSUME NumAddrsAssumption == NumAddrs \in Nat \ {0}

(* The shard IDs: the indexes of the addresses.                            *)
Ids == 0 .. NumAddrs - 1

None == NumAddrs + 1   \* no shard yet

VARIABLES
  main,       \* where main is, or how the process ended
  clients,    \* the shards with a client in the pool
  conns,      \* the shards whose connection is open
  down,       \* the shards that do not answer
  ringIDs,    \* the shards of the ring
  server,     \* the server goroutine and its listener
  quit,       \* whether a signal waits in the channel
  expired,    \* whether the 10 s of Shutdown are over
  handler,    \* handler[r]: where the handler of r is
  shard,      \* shard[r]: the shard it asks
  result      \* result[r]: what became of its call

pool == <<clients, conns, down, ringIDs>>
reqs == <<handler, shard, result>>
vars == <<main, pool, server, quit, expired, reqs>>

(* The process is over: main returned, log.Fatalf, or a signal killed it.  *)
Ended == {"exited", "noConfig", "noS3", "noPool", "noPort", "killed"}
Alive == main \notin Ended

(* Before signal.Notify a signal has its default effect.                   *)
Starting == {"config", "s3", "dialling", "pinging", "ring", "started"}

Busy(r) == handler[r] \in {"asking", "calling", "replying"}

Init ==
  /\ main    = "config"
  /\ clients = {} /\ conns = {} /\ ringIDs = {}
  /\ down \in SUBSET Ids
  /\ server  = "off"
  /\ quit    = FALSE
  /\ expired = FALSE
  /\ handler = [r \in Reqs |-> "none"]
  /\ shard   = [r \in Reqs |-> None]
  /\ result  = [r \in Reqs |-> "none"]

-----------------------------------------------------------------------------
(***************************************************************************)
(* Starting up.                                                            *)
(***************************************************************************)
(* config.Load and s3store.New: each succeeds or ends the process.         *)
Configure ==
  /\ \/ main = "config" /\ main' \in {"s3", "noConfig"}
     \/ main = "s3"     /\ main' \in {"dialling", "noS3"}
  /\ UNCHANGED <<pool, server, quit, expired, reqs>>

(* An iteration of the loop of New: the address of id, the next one.       *)
Dial(id) ==
  /\ main = "dialling"
  /\ id \in Ids /\ id = Cardinality(clients)
  /\ clients' = clients \cup {id}
  /\ conns'   = conns \cup {id}
  /\ UNCHANGED <<main, down, ringIDs, server, quit, expired, reqs>>

(* Defect: an address that cannot be dialled is left out, and the others   *)
(* keep their indexes.                                                     *)
DialErrSkipped ==
  /\ main = "dialling"
  /\ Cardinality(clients) < NumAddrs
  /\ clients' = (clients \cup {NumAddrs - 1}) \ {Cardinality(clients)}
  /\ conns'   = clients'
  /\ main'    = "pinging"
  /\ UNCHANGED <<down, ringIDs, server, quit, expired, reqs>>

(* grpc.Dial refuses an address: New closes what it opened, and main ends. *)
DialErr ==
  /\ main = "dialling"
  /\ Cardinality(clients) < NumAddrs
  /\ conns' = {}
  /\ main'  = "noPool"
  /\ UNCHANGED <<clients, down, ringIDs, server, quit, expired, reqs>>

Dialled ==
  /\ main = "dialling"
  /\ Cardinality(clients) = NumAddrs
  /\ main' = "pinging"
  /\ UNCHANGED <<pool, server, quit, expired, reqs>>

(* PingAll returns, and its error is only logged.                          *)
PingAll ==
  /\ main = "pinging"
  /\ main' = "ring"
  /\ UNCHANGED <<pool, server, quit, expired, reqs>>

(* Defect: the IDs of the ring start at 1.                                 *)
RingFromOne(n) == 1 .. n

(* shardIDs[i] = i, for i below pool.Len().                                *)
ShardIDs(n) == {i \in 0 .. n : i < n}

(* The ring, the service and the server, whose goroutine is started.       *)
StartServer ==
  /\ main = "ring"
  /\ ringIDs' = ShardIDs(Cardinality(clients))
  /\ server'  = "starting"
  /\ main'    = "started"
  /\ UNCHANGED <<clients, conns, down, quit, expired, reqs>>

Notify ==
  /\ main = "started"
  /\ main' = "waiting"
  /\ UNCHANGED <<pool, server, quit, expired, reqs>>

-----------------------------------------------------------------------------
(***************************************************************************)
(* The server goroutine.                                                   *)
(***************************************************************************)
(* ListenAndServe: after Shutdown was called (server = "closed") it opens  *)
(* no port ...                                                             *)
Listen ==
  /\ Alive
  /\ server = "starting"
  /\ server' = "binding"
  /\ UNCHANGED <<main, pool, quit, expired, reqs>>

(* ... and a port opened meanwhile is not served.                          *)
Serve ==
  /\ Alive
  /\ server = "binding"
  /\ server' = IF main \in {"stopping", "closing"} THEN "closed" ELSE "serving"
  /\ UNCHANGED <<main, pool, quit, expired, reqs>>

(* The port is taken: log.Fatalf, without the deferred Close.              *)
ListenErr ==
  /\ Alive
  /\ server = "binding"
  /\ main' = "noPort"
  /\ UNCHANGED <<pool, server, quit, expired, reqs>>

(* A request of a client, for a key that the ring gives to s.              *)
Accept(r, s) ==
  /\ Alive
  /\ server = "serving"
  /\ handler[r] = "none"
  /\ s \in ringIDs
  /\ handler' = [handler EXCEPT ![r] = "asking"]
  /\ shard'   = [shard EXCEPT ![r] = s]
  /\ UNCHANGED <<main, pool, server, quit, expired, result>>

(* Defect: the lock is held for the call, not for the look-up.             *)
AskLocked(r) ==
  /\ Alive
  /\ main # "closing"
  /\ handler[r] = "asking"
  /\ \A q \in Reqs : handler[q] # "calling"
  /\ handler' = [handler EXCEPT ![r] = "calling"]
  /\ UNCHANGED <<main, pool, server, quit, expired, shard, result>>

(* RangeQuery: client takes the read lock, which Close holds while it      *)
(* runs.  A shard without a client is an error.                            *)
Ask(r) ==
  /\ Alive
  /\ main # "closing"
  /\ handler[r] = "asking"
  /\ IF shard[r] \in clients
       THEN /\ handler' = [handler EXCEPT ![r] = "calling"]
            /\ UNCHANGED result
       ELSE /\ handler' = [handler EXCEPT ![r] = "replying"]
            /\ result'  = [result EXCEPT ![r] = "unknownShard"]
  /\ UNCHANGED <<main, pool, server, quit, expired, shard>>

Called(r, outcome) ==
  /\ Alive
  /\ handler[r] = "calling"
  /\ handler' = [handler EXCEPT ![r] = "replying"]
  /\ result'  = [result EXCEPT ![r] = outcome]
  /\ UNCHANGED <<main, pool, server, quit, expired, shard>>

ShardAnswers(r) == shard[r] \in conns \ down /\ Called(r, "found")

(* The shard fails, or the client has gone and its context with it.        *)
ShardErr(r) == shard[r] \in conns /\ Called(r, "failed")

(* A call on a closed connection fails, and so does one under way.         *)
CallOnClosed(r) == shard[r] \notin conns /\ Called(r, "closed")

Reply(r) ==
  /\ Alive
  /\ handler[r] = "replying"
  /\ handler' = [handler EXCEPT ![r] = "done"]
  /\ UNCHANGED <<main, pool, server, quit, expired, shard, result>>

-----------------------------------------------------------------------------
(***************************************************************************)
(* Shutting down.                                                          *)
(***************************************************************************)
(* A signal from outside: deadly until main has asked for it.  The channel *)
(* holds one, the next ones are dropped.                                   *)
Signal ==
  /\ Alive
  /\ IF main \in Starting
       THEN main' = "killed" /\ UNCHANGED quit
       ELSE quit' = TRUE /\ UNCHANGED main
  /\ UNCHANGED <<pool, server, expired, reqs>>

(* <-quit, and Shutdown closes the listener.                               *)
BeginShutdown ==
  /\ main = "waiting"
  /\ quit
  /\ quit'   = FALSE
  /\ server' = IF server = "binding" THEN "binding" ELSE "closed"
  /\ main'   = "stopping"
  /\ UNCHANGED <<pool, expired, reqs>>

(* Defect: a shutdown context without a deadline.                          *)
ExpireNever == FALSE /\ UNCHANGED vars

Expire ==
  /\ main = "stopping"
  /\ ~expired
  /\ expired' = TRUE
  /\ UNCHANGED <<main, pool, server, quit, reqs>>

(* Defect: srv.Close, which does not wait for the handlers.                *)
ShutdownAtOnce ==
  /\ main = "stopping"
  /\ main' = "closing"
  /\ UNCHANGED <<pool, server, quit, expired, reqs>>

(* Shutdown returns when no handler runs, or when its 10 s are over.       *)
ShutdownReturns ==
  /\ main = "stopping"
  /\ expired \/ \A r \in Reqs : ~Busy(r)
  /\ main' = "closing"
  /\ UNCHANGED <<pool, server, quit, expired, reqs>>

(* The deferred pool.Close, one connection after the other, and the end.   *)
CloseConn(id) ==
  /\ main = "closing"
  /\ id \in conns
  /\ conns' = conns \ {id}
  /\ UNCHANGED <<main, clients, down, ringIDs, server, quit, expired, reqs>>

Exit ==
  /\ main = "closing"
  /\ conns = {}
  /\ main' = "exited"
  /\ UNCHANGED <<pool, server, quit, expired, reqs>>

Terminated == ~Alive /\ UNCHANGED vars

-----------------------------------------------------------------------------
Main ==
  \/ Configure \/ (\E id \in Ids : Dial(id)) \/ DialErr \/ Dialled
  \/ PingAll \/ StartServer \/ Notify
  \/ BeginShutdown \/ Expire \/ ShutdownReturns
  \/ (\E id \in Ids : CloseConn(id)) \/ Exit

Server == Listen \/ Serve \/ ListenErr

Handler(r) ==
  \/ \E s \in ringIDs : Accept(r, s)
  \/ Ask(r) \/ ShardAnswers(r) \/ ShardErr(r) \/ CallOnClosed(r) \/ Reply(r)

Next ==
  \/ Main \/ Server \/ Signal
  \/ \E r \in Reqs : Handler(r)
  \/ Terminated

Spec == Init /\ [][Next]_vars

(* main and the goroutines run, and a shard that is up answers.  Nothing   *)
(* obliges a client to ask, an operator to send a signal or a shard that   *)
(* is down to fail a call: the call may hang.                              *)
FairSpec ==
  /\ Spec
  /\ WF_vars(Main)
  /\ WF_vars(Server)
  /\ \A r \in Reqs :
       /\ WF_vars(Ask(r))
       /\ WF_vars(ShardAnswers(r) \/ CallOnClosed(r))
       /\ WF_vars(Reply(r))

-----------------------------------------------------------------------------
(***************************************************************************)
(* Properties.                                                             *)
(***************************************************************************)
TypeOK ==
  /\ main \in Starting \cup {"waiting", "stopping", "closing"} \cup Ended
  /\ clients \subseteq Ids /\ conns \subseteq clients /\ down \subseteq Ids
  /\ ringIDs \subseteq Ids
  /\ server \in {"off", "starting", "binding", "serving", "closed"}
  /\ quit \in BOOLEAN /\ expired \in BOOLEAN
  /\ handler \in [Reqs -> {"none", "asking", "calling", "replying", "done"}]
  /\ shard \in [Reqs -> Ids \cup {None}]
  /\ result \in [Reqs -> {"none", "found", "failed", "closed", "unknownShard"}]

(* main hands the ring the numbers below Len, and the pool is keyed by the *)
(* indexes of the addresses: no request is ever routed to a shard that is  *)
(* not in the pool, and every shard of the pool is in the ring once the    *)
(* server may answer (cmd/main.go:51-54, pool.go:31-40, 127-130).          *)
RingMatchesPool ==
  /\ server # "off" => ringIDs = clients
  /\ \A r \in Reqs : result[r] # "unknownShard"

(* A call meets a closed connection only if the 10 s were over ...         *)
PoolOutlivesHandlers ==
  \A r \in Reqs :
    (Busy(r) /\ shard[r] \notin conns) \/ result[r] = "closed" => expired

(* ... and the process exits by itself before a request it has accepted is *)
(* answered, only then too.                                                *)
NoneCutShort ==
  main = "exited" => expired \/ \A r \in Reqs : ~Busy(r)

(* A request that was accepted keeps its shard and its process until it is *)
(* answered, unless the 10 s of the shutdown were over: the pool is closed *)
(* after the last handler and no sooner (cmd/main.go:38, 89-94).           *)
HandlersFinish == PoolOutlivesHandlers /\ NoneCutShort

(* Shards that are down do not keep the service from starting, nor the     *)
(* calls that hang at them the healthy ones from being asked, until the    *)
(* process ends (cmd/main.go:40-46, pool.go:124-126).                      *)
HealthyShardsServe ==
  /\ main = "pinging" ~> main \in {"waiting", "noPort", "killed"}
  /\ \A r \in Reqs :
       handler[r] = "asking" /\ shard[r] \notin down
         ~> handler[r] = "done" \/ ~Alive

(* A signal that main has asked for ends the process, even if a shard      *)
(* never answers a call under way (cmd/main.go:84-94).                     *)
SignalEnds == quit ~> ~Alive
=============================================================================
