------------------------------- MODULE FanIn -------------------------------
(***************************************************************************)
(* The connectivity check of both programs: PingAll of the shard pool      *)
(* (internal/shard/pool.go) and testShardConnectivity of the older service *)
(* (main.go).  The caller starts one goroutine per shard, waits for all of *)
(* them, closes the channel in which they left their errors, and only then *)
(* reads it.  Nobody receives while goroutines send, so that they depend   *)
(* on the capacity of the channel.                                         *)
(***************************************************************************)
EXTENDS Naturals, Sequences, FiniteSets

CONSTANT Shards   \* the shards of the pool

ASSUME ShardsAssumption == IsFiniteSet(Shards)

VARIABLES
  caller,     \* where the caller is
  todo,       \* the shards whose goroutine is not started
  pinger,     \* pinger[s]: where the goroutine of s is
  wg,         \* the counter of the WaitGroup
  errCh,      \* the channel: the shard each error in it is about
  closed,     \* whether it is closed
  errs,       \* the errors the caller has read
  unhealthy   \* history: the shards whose check failed

checkVars == <<caller, todo, pinger, wg, errCh, closed, errs, unhealthy>>

(* Defect: a channel for one error, to return the first.                   *)
CapacityOne == 1

(* make(chan error, len(ids)).                                             *)
Capacity == Cardinality(Shards)

CheckInit ==
  /\ caller    = "launching"
  /\ todo      = Shards
  /\ pinger    = [s \in Shards |-> "none"]
  /\ wg        = 0
  /\ errCh     = <<>>
  /\ closed    = FALSE
  /\ errs      = <<>>
  /\ unhealthy = {}

(* The loop over the shards, the ids of a map in PingAll: in any order.    *)
Launch(s) ==
  /\ caller = "launching"
  /\ s \in todo
  /\ todo'   = todo \ {s}
  /\ wg'     = wg + 1
  /\ pinger' = [pinger EXCEPT ![s] = "pinging"]
  /\ UNCHANGED <<caller, errCh, closed, errs, unhealthy>>

(* The shard answers, and well (status 200, in main.go).                   *)
PingOK(s) ==
  /\ pinger[s] = "pinging"
  /\ pinger' = [pinger EXCEPT ![s] = "leaving"]
  /\ UNCHANGED <<caller, todo, wg, errCh, closed, errs, unhealthy>>

(* Defect: the check has no timeout, and waits for the shard.              *)
PingErrUntimed(s) ==
  /\ pinger[s] = "pinging"
  /\ UNCHANGED checkVars

(* The call fails, or the shard does not answer in 5 s.                    *)
PingErr(s) ==
  /\ pinger[s] = "pinging"
  /\ pinger'    = [pinger EXCEPT ![s] = "sending"]
  /\ unhealthy' = unhealthy \cup {s}
  /\ UNCHANGED <<caller, todo, wg, errCh, closed, errs>>

(* errCh <- err waits for room, and panics on a closed channel.            *)
Send(s) ==
  /\ pinger[s] = "sending"
  /\ ~closed
  /\ Len(errCh) < Capacity
  /\ errCh'  = Append(errCh, s)
  /\ pinger' = [pinger EXCEPT ![s] = "leaving"]
  /\ UNCHANGED <<caller, todo, wg, closed, errs, unhealthy>>

(* The deferred wg.Done().                                                 *)
Done(s) ==
  /\ pinger[s] = "leaving"
  /\ wg'     = wg - 1
  /\ pinger' = [pinger EXCEPT ![s] = "done"]
  /\ UNCHANGED <<caller, todo, errCh, closed, errs, unhealthy>>

(* wg.Wait and close(errCh).                                               *)
Join ==
  /\ caller = "launching"
  /\ todo = {}
  /\ wg = 0
  /\ closed' = TRUE
  /\ caller' = "draining"
  /\ UNCHANGED <<todo, pinger, wg, errCh, errs, unhealthy>>

(* One iteration of the loop over the channel.                             *)
Drain ==
  /\ caller = "draining"
  /\ errCh # <<>>
  /\ errs'  = Append(errs, Head(errCh))
  /\ errCh' = Tail(errCh)
  /\ UNCHANGED <<caller, todo, pinger, wg, closed, unhealthy>>

(* Defect: the first error is returned.                                    *)
ReturnFirst ==
  /\ caller = "draining"
  /\ errCh = <<>> \/ errs # <<>>
  /\ caller' = "returned"
  /\ UNCHANGED <<todo, pinger, wg, errCh, closed, errs, unhealthy>>

(* The channel is closed and empty: the errors make one, or none.          *)
Return ==
  /\ caller = "draining"
  /\ errCh = <<>>
  /\ caller' = "returned"
  /\ UNCHANGED <<todo, pinger, wg, errCh, closed, errs, unhealthy>>

CheckFinished ==
  /\ caller = "returned"
  /\ UNCHANGED checkVars

Pinger(s) == PingOK(s) \/ PingErr(s) \/ Send(s) \/ Done(s)

CheckNext ==
  \/ \E s \in Shards : Launch(s) \/ Pinger(s)
  \/ Join \/ Drain \/ Return
  \/ CheckFinished

CheckSpec == CheckInit /\ [][CheckNext]_checkVars

(* What happens by itself: the goroutines run and a check fails when its   *)
(* timeout fires.  Nothing obliges a shard to answer.                      *)
CheckProgress ==
  \/ \E s \in Shards : Launch(s) \/ PingErr(s) \/ Send(s) \/ Done(s)
  \/ Join \/ Drain \/ Return

-----------------------------------------------------------------------------
(***************************************************************************)
(* Properties.                                                             *)
(***************************************************************************)
PingerState == {"none", "pinging", "sending", "leaving", "done"}

(* The channel never holds more than its capacity, and only shards.        *)
CheckTypeOK ==
  /\ caller \in {"launching", "draining", "returned"}
  /\ todo \subseteq Shards
  /\ pinger \in [Shards -> PingerState]
  /\ wg \in Nat
  /\ errCh \in Seq(Shards) /\ Len(errCh) <= Capacity
  /\ closed \in BOOLEAN
  /\ errs \in Seq(Shards)
  /\ unhealthy \subseteq Shards

(* A goroutine with an error finds room for it, however many shards are    *)
(* down and in whatever order they fail, and the channel open: it never    *)
(* waits for a caller that is waiting for it, and never panics             *)
(* (pool.go:75, 82, 94-95; main.go:423, 433, 447-448).                     *)
SendersNeverBlock ==
  \A s \in Shards : pinger[s] = "sending" => ~closed /\ Len(errCh) < Capacity

(* The combined error names every shard that is not healthy, once, and no  *)
(* other (pool.go:97-104).                                                 *)
ErrorNamesTheUnhealthy ==
  caller = "returned" =>
    /\ {errs[k] : k \in DOMAIN errs} = unhealthy
    /\ \A k, l \in DOMAIN errs : errs[k] = errs[l] => k = l
=============================================================================
