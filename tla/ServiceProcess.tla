--------------------------- MODULE ServiceProcess ---------------------------
(***************************************************************************)
(* The older service with the connectivity test of its start: ServiceMain  *)
(* and FanIn composed.  The goroutines of the check run while Start waits  *)
(* in testShardConnectivity (main.go:390-392), whose shards answer, fail   *)
(* or hang; a signal may kill the process in the middle of it.             *)
(***************************************************************************)
EXTENDS ServiceMain, FanIn

processVars == <<vars, checkVars>>

ProcessInit == Init /\ CheckInit

(* Start goes on when the check has returned.                              *)
CheckedFirst == main = "testing" /\ main' = "launching" => caller = "returned"

Alone(step) == step /\ CheckedFirst /\ UNCHANGED checkVars

Check(step) == main = "testing" /\ step /\ UNCHANGED vars

ProcessNext == Alone(Next) \/ Check(CheckNext)

ProcessSpec == ProcessInit /\ [][ProcessNext]_processVars

(* main and the goroutines of the check run, and deadlines pass.  Nothing  *)
(* obliges a shard or the collector to answer, nor a query to end.         *)
ProcessFairSpec ==
  /\ ProcessSpec
  /\ WF_processVars(Alone(Main))
  /\ WF_processVars(Alone(Expire))
  /\ WF_processVars(Check(CheckProgress))

-----------------------------------------------------------------------------
(* Shards that never answer do not keep the service from starting, however *)
(* many and in whatever order their checks fail (main.go:390-392, 430-448).*)
StartGoesOn == main = "testing" ~> main \in {"waiting", "killed"}
=============================================================================
