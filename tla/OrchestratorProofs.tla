------------------------- MODULE OrchestratorProofs -------------------------
(***************************************************************************)
(* Proofs, for any number of addresses and of requests, that the ring and  *)
(* the pool agree and that the pool outlives the handlers.                 *)
(***************************************************************************)
EXTENDS Orchestrator, FiniteSetTheorems, TLAPS

Boot == {"config", "s3", "dialling", "pinging", "ring"}

(* The addresses are dialled in order, so that the clients are those of    *)
(* the first ones.                                                         *)
Prefix ==
  /\ Cardinality(clients) \in 0 .. NumAddrs
  /\ clients = 0 .. Cardinality(clients) - 1

(* What the place of main says about the server and the connections.       *)
Phases ==
  /\ main \in Boot => server = "off"
  /\ main \notin Boot \cup Ended => server # "off"
  /\ main \in {"stopping", "closing"} => server \in {"binding", "closed"}
  /\ main # "closing" /\ Alive => conns = clients
  /\ server = "off" => \A r \in Reqs : handler[r] = "none"
  /\ main \in {"closing", "exited"} => expired \/ \A r \in Reqs : ~Busy(r)

(* Requests are routed to shards of the pool.                              *)
Routed == \A r \in Reqs : handler[r] # "none" => shard[r] \in clients

(* The inductive invariant.                                                *)
OrchestratorInv ==
  TypeOK /\ Prefix /\ Phases /\ Routed /\ RingMatchesPool /\ PoolOutlivesHandlers

-----------------------------------------------------------------------------
(* The IDs main gives the ring are the numbers below the length.           *)
LEMMA ShardIDsAreIndexes ==
  ASSUME NEW n \in Nat
  PROVE  ShardIDs(n) = 0 .. n - 1
BY DEF ShardIDs

LEMMA IntervalSize ==
  ASSUME NEW n \in Nat
  PROVE  Cardinality(0 .. n - 1) = n
<1>1. Cardinality(0 .. n - 1) = IF 0 > n - 1 THEN 0 ELSE (n - 1) - 0 + 1
  BY FS_Interval
<1>. QED
  BY <1>1

LEMMA InitInv == Init => OrchestratorInv
<1>. SUFFICES ASSUME Init PROVE OrchestratorInv
  OBVIOUS
<1>1. Cardinality(clients) = 0
  BY FS_EmptySet DEF Init
<1>2. Prefix
  BY <1>1, NumAddrsAssumption DEF Init, Prefix
<1>3. TypeOK
  BY DEF Init, TypeOK, Starting
<1>4. Phases /\ Routed /\ RingMatchesPool /\ PoolOutlivesHandlers
  BY DEF Init, Phases, Routed, RingMatchesPool, PoolOutlivesHandlers, Alive,
         Ended, Boot, Busy
<1>. QED
  BY <1>2, <1>3, <1>4 DEF OrchestratorInv

(* The steps of main before the server starts.                             *)
LEMMA BootInv ==
  ASSUME OrchestratorInv, Configure \/ DialErr \/ Dialled \/ PingAll
  PROVE  OrchestratorInv'
<1>. USE DEF OrchestratorInv, Configure, DialErr, Dialled, PingAll, pool, reqs
<1>1. main \in Boot /\ server = "off" /\ server' = "off"
  BY DEF Phases, Boot
<1>2. TypeOK'
  BY DEF TypeOK, Starting, Ended
<1>3. Prefix'
  BY DEF Prefix
<1>4. Phases'
  BY <1>1 DEF Phases, Boot, Ended, Alive, Busy
<1>5. Routed' /\ RingMatchesPool'
  BY <1>1 DEF Routed, RingMatchesPool
<1>6. PoolOutlivesHandlers'
  <2>1. \A r \in Reqs : ~Busy(r)' /\ result'[r] = result[r]
    BY <1>1 DEF Phases, Busy
  <2>2. \A r \in Reqs : result[r] = "closed" => expired
    BY DEF PoolOutlivesHandlers
  <2>3. expired' = expired
    OBVIOUS
  <2>. QED
    BY <2>1, <2>2, <2>3 DEF PoolOutlivesHandlers, Busy
<1>. QED
  BY <1>2, <1>3, <1>4, <1>5, <1>6

LEMMA DialInv ==
  ASSUME OrchestratorInv, NEW id \in Ids, Dial(id)
  PROVE  OrchestratorInv'
<1>. USE DEF OrchestratorInv, Dial, reqs
<1>. DEFINE n == Cardinality(clients)
<1>1. server = "off" /\ server' = "off" /\ \A r \in Reqs : handler[r] = "none"
  BY DEF Phases, Boot
<1>2. n \in Nat /\ n < NumAddrs /\ clients = 0 .. n - 1 /\ id = n
  BY NumAddrsAssumption DEF Prefix, Ids
<1>. HIDE DEF n
<1>3. clients' = 0 .. (n + 1) - 1
  BY <1>2
<1>4. Cardinality(clients') = n + 1
  <2>1. n + 1 \in Nat
    BY <1>2
  <2>2. Cardinality(0 .. (n + 1) - 1) = n + 1
    BY <2>1, IntervalSize
  <2>. QED
    BY <1>3, <2>2
<1>5. Prefix'
  <2>1. n + 1 \in 0 .. NumAddrs
    BY <1>2, NumAddrsAssumption
  <2>2. Cardinality(clients') \in 0 .. NumAddrs
    BY <1>4, <2>1
  <2>3. clients' = 0 .. Cardinality(clients') - 1
    BY <1>3, <1>4
  <2>. QED
    BY <2>2, <2>3 DEF Prefix
<1>6. TypeOK'
  BY DEF TypeOK
<1>7. Phases'
  BY <1>1 DEF Phases, Boot, Ended, Alive, Busy
<1>8. Routed' /\ RingMatchesPool' /\ PoolOutlivesHandlers'
  BY <1>1 DEF Routed, RingMatchesPool, PoolOutlivesHandlers, Busy
<1>. QED
  BY <1>5, <1>6, <1>7, <1>8

LEMMA StartServerInv ==
  ASSUME OrchestratorInv, StartServer
  PROVE  OrchestratorInv'
<1>. USE DEF OrchestratorInv, StartServer, reqs
<1>1. \A r \in Reqs : handler[r] = "none"
  BY DEF Phases, Boot
<1>2. Cardinality(clients) \in Nat
  BY NumAddrsAssumption DEF Prefix
<1>3. ringIDs' = clients'
  BY <1>2, ShardIDsAreIndexes DEF Prefix
<1>4. TypeOK'
  BY <1>3 DEF TypeOK, Starting
<1>5. Prefix'
  BY DEF Prefix
<1>6. Phases'
  BY <1>1 DEF Phases, Boot, Ended, Alive, Busy
<1>7. Routed' /\ RingMatchesPool' /\ PoolOutlivesHandlers'
  BY <1>1, <1>3 DEF Routed, RingMatchesPool, PoolOutlivesHandlers, Busy
<1>. QED
  BY <1>4, <1>5, <1>6, <1>7

(* The steps of the server goroutine, of main while it runs, and signals.  *)
LEMMA ServeInv ==
  ASSUME OrchestratorInv,
         Notify \/ Server \/ Signal \/ BeginShutdown \/ Expire \/ ShutdownReturns
  PROVE  OrchestratorInv'
<1>. USE DEF OrchestratorInv, Notify, Server, Listen, Serve, ListenErr, Signal,
             BeginShutdown, Expire, ShutdownReturns, pool, reqs
<1>1. /\ UNCHANGED <<clients, conns, down, ringIDs, handler, shard, result>>
      /\ expired => expired'
      /\ server' # "off" <=> server # "off"
  BY DEF Phases, Ended, Boot
<1>2. TypeOK'
  <2>1. CASE Notify \/ Expire \/ ShutdownReturns
    BY <2>1 DEF TypeOK, Starting, Ended
  <2>2. CASE Server
    BY <2>2 DEF TypeOK, Starting, Ended
  <2>3. CASE Signal \/ BeginShutdown
    BY <2>3 DEF TypeOK, Starting, Ended
  <2>. QED
    BY <2>1, <2>2, <2>3
<1>3. Prefix'
  BY <1>1 DEF Prefix
<1>4. Phases'
  <2>1. CASE Notify \/ Expire \/ ShutdownReturns
    BY <2>1 DEF Phases, Boot, Ended, Alive, Busy
  <2>2. CASE Server
    BY <2>2 DEF Phases, Boot, Ended, Alive, Busy
  <2>3. CASE Signal
    BY <2>3 DEF Phases, Boot, Ended, Alive, Busy, Starting
  <2>4. CASE BeginShutdown
    BY <2>4 DEF Phases, Boot, Ended, Alive, Busy
  <2>. QED
    BY <2>1, <2>2, <2>3, <2>4
<1>5. Routed' /\ RingMatchesPool' /\ PoolOutlivesHandlers'
  BY <1>1 DEF Routed, RingMatchesPool, PoolOutlivesHandlers, Busy
<1>. QED
  BY <1>2, <1>3, <1>4, <1>5

LEMMA CloseInv ==
  ASSUME OrchestratorInv, Exit \/ \E id \in Ids : CloseConn(id)
  PROVE  OrchestratorInv'
<1>. USE DEF OrchestratorInv, Exit, CloseConn, pool, reqs
<1>1. /\ UNCHANGED <<clients, down, ringIDs, server, expired, handler, shard, result>>
      /\ conns' \subseteq conns /\ main = "closing" /\ main' \in {"closing", "exited"}
      /\ quit' = quit
  OBVIOUS
<1>2. expired \/ \A r \in Reqs : ~Busy(r)
  BY <1>1 DEF Phases
<1>3. TypeOK'
  BY <1>1 DEF TypeOK, Ended
<1>4. Prefix'
  BY <1>1 DEF Prefix
<1>5. Phases'
  BY <1>1, <1>2 DEF Phases, Boot, Ended, Alive, Busy
<1>6. Routed' /\ RingMatchesPool'
  BY <1>1 DEF Routed, RingMatchesPool
<1>7. PoolOutlivesHandlers'
  BY <1>1, <1>2 DEF PoolOutlivesHandlers, Busy
<1>. QED
  BY <1>3, <1>4, <1>5, <1>6, <1>7

(* The steps of the handlers.                                              *)
LEMMA AcceptInv ==
  ASSUME OrchestratorInv, NEW r \in Reqs, NEW s \in ringIDs, Accept(r, s)
  PROVE  OrchestratorInv'
<1>. USE DEF OrchestratorInv, Accept, pool
<1>1. main \notin {"stopping", "closing", "exited"} /\ conns = clients
  BY DEF Phases, Alive, Ended
<1>2. s \in clients
  BY DEF RingMatchesPool
<1>3. TypeOK'
  BY DEF TypeOK
<1>4. Prefix'
  BY DEF Prefix
<1>5. Phases'
  BY <1>1 DEF Phases, Boot, Ended, Alive, Busy
<1>6. Routed' /\ RingMatchesPool'
  BY <1>2 DEF Routed, RingMatchesPool, TypeOK
<1>7. PoolOutlivesHandlers'
  BY <1>1, <1>2 DEF PoolOutlivesHandlers, Busy, TypeOK
<1>. QED
  BY <1>3, <1>4, <1>5, <1>6, <1>7

LEMMA HandlerInv ==
  ASSUME OrchestratorInv, NEW r \in Reqs,
         Ask(r) \/ ShardAnswers(r) \/ ShardErr(r) \/ CallOnClosed(r) \/ Reply(r)
  PROVE  OrchestratorInv'
<1>. USE DEF OrchestratorInv
<1>1. /\ UNCHANGED <<main, clients, conns, down, ringIDs, server, quit, expired, shard>>
      /\ Busy(r)
  BY DEF Ask, ShardAnswers, ShardErr, CallOnClosed, Called, Reply, pool, Busy
<1>2. shard[r] \in clients
  BY <1>1 DEF Routed, Busy
<1>3. \E h \in {"calling", "replying", "done"} : handler' = [handler EXCEPT ![r] = h]
  BY <1>2 DEF Ask, ShardAnswers, ShardErr, CallOnClosed, Called, Reply
<1>4. \/ result' = result
      \/ /\ shard[r] \in conns
         /\ \E o \in {"found", "failed"} : result' = [result EXCEPT ![r] = o]
      \/ shard[r] \notin conns /\ result' = [result EXCEPT ![r] = "closed"]
  BY <1>2 DEF Ask, ShardAnswers, ShardErr, CallOnClosed, Called, Reply
<1>5. shard[r] \notin conns => expired
  BY <1>1 DEF PoolOutlivesHandlers
<1>6. TypeOK'
  BY <1>1, <1>3, <1>4 DEF TypeOK
<1>7. Prefix'
  BY <1>1 DEF Prefix
<1>8. \A q \in Reqs : Busy(q)' => Busy(q)
  BY <1>1, <1>3 DEF Busy, TypeOK
<1>9. server # "off"
  BY <1>1 DEF Phases, Busy
<1>10. Phases'
  BY <1>1, <1>8, <1>9 DEF Phases, Alive
<1>11. Routed' /\ RingMatchesPool'
  <2>1. Routed'
    BY <1>1, <1>2, <1>3 DEF Routed, TypeOK
  <2>2. \A q \in Reqs : result'[q] # "unknownShard"
    BY <1>4 DEF RingMatchesPool, TypeOK
  <2>. QED
    BY <1>1, <2>1, <2>2 DEF RingMatchesPool
<1>12. PoolOutlivesHandlers'
  <2>1. \A q \in Reqs : result'[q] = "closed" => expired
    BY <1>4, <1>5 DEF PoolOutlivesHandlers, TypeOK
  <2>. QED
    BY <1>1, <1>8, <2>1 DEF PoolOutlivesHandlers
<1>. QED
  BY <1>6, <1>7, <1>10, <1>11, <1>12

LEMMA StutterInv ==
  ASSUME OrchestratorInv, UNCHANGED vars
  PROVE  OrchestratorInv'
BY DEF vars, pool, reqs, OrchestratorInv, TypeOK, Prefix, Phases, Routed, RingMatchesPool,
       PoolOutlivesHandlers, Alive, Busy

(* OrchestratorInv is an invariant.                                        *)
THEOREM OrchestratorInvariant == Spec => []OrchestratorInv
<1>1. ASSUME OrchestratorInv, [Next]_vars
      PROVE  OrchestratorInv'
  <2>1. CASE Main
    BY <1>1, <2>1, BootInv, DialInv, StartServerInv, ServeInv, CloseInv DEF Main
  <2>2. CASE Server \/ Signal
    BY <1>1, <2>2, ServeInv
  <2>3. ASSUME NEW r \in Reqs, Handler(r)
        PROVE  OrchestratorInv'
    BY <1>1, <2>3, AcceptInv, HandlerInv DEF Handler
  <2>4. CASE Terminated \/ UNCHANGED vars
    BY <1>1, <2>4, StutterInv DEF Terminated
  <2>. QED
    BY <1>1, <2>1, <2>2, <2>3, <2>4 DEF Next
<1>. QED
  BY InitInv, <1>1, PTL DEF Spec

(* The variables have their types; in particular the ring knows no shard   *)
(* beyond the addresses (cmd/main.go:51-54).                               *)
THEOREM OrchestratorTypeCorrect == Spec => []TypeOK
<1>1. OrchestratorInv => TypeOK
  BY DEF OrchestratorInv
<1>. QED
  BY <1>1, OrchestratorInvariant, PTL

(* No request is routed to a shard that is not in the pool, for any number *)
(* of shards (cmd/main.go:51-55, pool.go:124-130).                         *)
THEOREM OrchestratorRingMatchesPool == Spec => []RingMatchesPool
<1>1. OrchestratorInv => RingMatchesPool
  BY DEF OrchestratorInv
<1>. QED
  BY <1>1, OrchestratorInvariant, PTL

(* Handlers meet a closed pool, or are cut short by the exit, only after   *)
(* the 10 s of the shutdown, in every interleaving of any number of them   *)
(* (cmd/main.go:38, 84-94).                                                *)
THEOREM OrchestratorHandlersFinish == Spec => []HandlersFinish
<1>1. OrchestratorInv => HandlersFinish
  BY DEF OrchestratorInv, Phases, HandlersFinish, NoneCutShort
<1>. QED
  BY <1>1, OrchestratorInvariant, PTL
=============================================================================
