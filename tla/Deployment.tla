----------------------------- MODULE Deployment -----------------------------
(***************************************************************************)
(* Both programs configured for one set of shards, which SHARD_URLS lists. *)
(* They share nothing that they write, so that the order makes no          *)
(* difference: the orchestrator (Config) comes first, then the older       *)
(* service (ServiceConfig), which is asked for one reference id.           *)
(***************************************************************************)
EXTENDS ServiceConfig

CONSTANTS
  Required, Optional, Default, Givens, Files, ShardURLs,   \* those of Config
  Deployments   \* what the two are started with: [given, file, env]

ASSUME ShardURLsAssumption == ShardURLs \in Required /\ Required \cap Optional = {}

(* A list of parts, lines or addresses.                                    *)
IsList(v) == v \in Seq(Range(v))

(* The environments have every variable that the programs or a file name:  *)
(* as unset, and empty to those who read it, if it is not set.             *)
ASSUME DeploymentsAssumption ==
  \A d \in Deployments :
    /\ Required \cup Optional \subseteq DOMAIN d.given
    /\ \A k \in DOMAIN d.given :
         IsList(d.given[k].value) /\ (~d.given[k].set => d.given[k].value = <<>>)
    /\ IsList(d.file)
    /\ \A n \in DOMAIN d.file : d.file[n].kind = "pair" =>
         d.file[n].key \in DOMAIN d.given /\ IsList(d.file[n].value)
    /\ DOMAIN d.env.buckets = 0 .. MaxIndex

VARIABLES
  given, file, step, next, environment, cfg   \* those of Config

Orchestrator == INSTANCE Config WITH stage <- step, env <- environment

orchestratorVars == <<given, file, step, next, environment, cfg>>
deploymentVars   == <<vars, orchestratorVars>>

DeploymentInit ==
  /\ \E d \in Deployments : given = d.given /\ file = d.file /\ env = d.env
  /\ env.shardURLs = given[ShardURLs].value
  /\ Orchestrator!Init /\ Init

LoadOrchestrator ==
  /\ step \notin {"loaded", "fatal"}
  /\ Orchestrator!Next
  /\ UNCHANGED vars

RunService ==
  /\ step \in {"loaded", "fatal"}
  /\ Next
  /\ UNCHANGED orchestratorVars

DeploymentNext == LoadOrchestrator \/ RunService

DeploymentSpec == DeploymentInit /\ [][DeploymentNext]_deploymentVars

-----------------------------------------------------------------------------
(***************************************************************************)
(* Properties.                                                             *)
(***************************************************************************)
(* The orchestrator's configuration is what its environment and its file   *)
(* mean, by the documented priority, wherever no entry of the file comes   *)
(* after an empty text (config.go:2, 30-58, 62-89, 91-92).                 *)
ConfigIsMeant == Orchestrator!ConfigIsMeant

(* Blank parts of the list leave gaps in the IDs of the older service, and *)
(* yet move no key: it routes by the position in the list that the         *)
(* orchestrator, which leaves no gaps, has of the same shards              *)
(* (main.go:165-172, 612-615, config.go:77-84).                            *)
BlankPartsMoveNoKey ==
  stage = "asked" /\ step = "loaded" /\ env.shardURLs # <<>> =>
    asked = cfg[ShardURLs][1 + (key % Len(cfg[ShardURLs]))]

(* Violated: a variable that the environment has, set to the empty text,   *)
(* is overwritten by an entry of .env (config.go:2, 91-92, 116).           *)
ExistingIsKept == Orchestrator!ExistingIsKept
=============================================================================
