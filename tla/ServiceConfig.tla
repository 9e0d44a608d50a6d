--------------------------- MODULE ServiceConfig ---------------------------
(***************************************************************************)
(* The configuration of the older service (loadConfig and loadShards of    *)
(* main.go), and where it asks for a reference id.                         *)
(*                                                                         *)
(* A list of addresses is the sequence of its comma-separated parts, and   *)
(* <<>> if the variable is not set; Blank is a part of spaces.             *)
(***************************************************************************)
EXTENDS Naturals, Sequences, SequencesExt, FiniteSets

CONSTANTS
  Envs,       \* the environments
  Hashes,     \* bound: hash values are below it
  MaxIndex    \* bound: the highest index of BUCKET_i and SHARD_i that is set

ASSUME BoundsAssumption == Hashes \in Nat \ {0} /\ MaxIndex \in Nat

Blank   == "blank"
None    == "none"      \* the variable is not set
Invalid == "invalid"   \* a bucket that has not five fields
DefaultBucket == "default"

(* The value of a variable that is to be a number: not set, a text that    *)
(* begins with one, or another text.                                       *)
NotSet    == [form |-> "unset"]
Numeric(n) == [form |-> "number", value |-> n]
Text      == [form |-> "text"]

VARIABLES
  env,       \* the environment
  stage,     \* where loadConfig is
  i,         \* the index of its loop
  buckets,   \* cfg.Buckets
  shards,    \* cfg.Shards: [id, url]
  key,       \* the hash of the reference id asked for
  asked      \* the address the service asks

vars == <<env, stage, i, buckets, shards, key, asked>>

Init ==
  /\ env \in Envs
  /\ stage    = "buckets"
  /\ i        = 0
  /\ buckets  = <<>>
  /\ shards   = <<>>
  /\ key      = 0
  /\ asked    = None

Variable(f) == IF i \in DOMAIN f THEN f[i] ELSE None

(* getEnvInt: the number a text begins with, 0 for another text.           *)
EnvInt(v, def) ==
  CASE v.form = "unset"  -> def
    [] v.form = "number" -> v.value
    [] v.form = "text"   -> 0

(* Defect: a bucket of the wrong form ends the loop.                       *)
ReadBucketOrStop ==
  /\ stage = "buckets"
  /\ Variable(env.buckets) # None
  /\ IF Variable(env.buckets) = Invalid
       THEN UNCHANGED buckets /\ i' = MaxIndex + 1
       ELSE buckets' = Append(buckets, Variable(env.buckets)) /\ i' = i + 1
  /\ UNCHANGED <<env, stage, shards, key, asked>>

(* BUCKET_i: skipped if it has not five fields.                            *)
ReadBucket ==
  /\ stage = "buckets"
  /\ Variable(env.buckets) # None
  /\ buckets' = IF Variable(env.buckets) = Invalid THEN buckets
                ELSE Append(buckets, Variable(env.buckets))
  /\ i' = i + 1
  /\ UNCHANGED <<env, stage, shards, key, asked>>

(* The first index that is not set ends the loop.                          *)
EndBuckets ==
  /\ stage = "buckets"
  /\ Variable(env.buckets) = None
  /\ buckets' = IF buckets = <<>> THEN <<DefaultBucket>> ELSE buckets
  /\ stage'   = "shards"
  /\ i'       = 0
  /\ UNCHANGED <<env, shards, key, asked>>

(* parseShardURLs: blank parts are left out, and leave their index out.    *)
ParseShardURLs(parts) ==
  FlattenSeq([k \in DOMAIN parts |->
                IF parts[k] = Blank THEN <<>> ELSE <<[id |-> k - 1, url |-> parts[k]]>>])

ParseList ==
  /\ stage = "shards"
  /\ env.shardURLs # <<>>
  /\ shards' = ParseShardURLs(env.shardURLs)
  /\ stage'  = "checking"
  /\ UNCHANGED <<env, i, buckets, key, asked>>

(* SHARD_i.                                                                *)
ReadShard ==
  /\ stage = "shards"
  /\ env.shardURLs = <<>>
  /\ Variable(env.shards) # None
  /\ shards' = Append(shards, [id |-> i, url |-> Variable(env.shards)])
  /\ i' = i + 1
  /\ UNCHANGED <<env, stage, buckets, key, asked>>

(* The first index that is not set ends the loop.  Without shards, there   *)
(* are NUM_SHARDS of them on successive ports.                             *)
EndShards ==
  /\ stage = "shards"
  /\ env.shardURLs = <<>>
  /\ Variable(env.shards) = None
  /\ shards' = IF shards # <<>> THEN shards
               ELSE [k \in 1 .. EnvInt(env.numShards, 0) |-> [id |-> k - 1, url |-> ToString(4000 + k)]]
  /\ stage'  = "checking"
  /\ UNCHANGED <<env, i, buckets, key, asked>>

(* No shards are fatal; otherwise the rest of the configuration is read.   *)
Check ==
  /\ stage = "checking"
  /\ stage' = IF shards = <<>> THEN "fatal" ELSE "loaded"
  /\ UNCHANGED <<env, i, buckets, shards, key, asked>>

(* Defect: the number of shards is the highest ID and one.                 *)
ConsistentHashOverIDs(h, s) == h % (s[Len(s)].id + 1)

(* consistentHash(key, len(s.cfg.Shards)).                                 *)
ConsistentHash(h, s) == h % Len(s)

(* A reference id with hash h is asked for.                                *)
Ask(h) ==
  /\ stage = "loaded"
  /\ key'   = h
  /\ asked' = LET k == ConsistentHash(h, shards) + 1
              IN  IF k \in DOMAIN shards THEN shards[k].url ELSE "panic"
  /\ stage' = "asked"
  /\ UNCHANGED <<env, i, buckets, shards>>

Finished == stage \in {"asked", "fatal"} /\ UNCHANGED vars

Next ==
  \/ ReadBucket \/ EndBuckets \/ ParseList \/ ReadShard \/ EndShards \/ Check
  \/ \E h \in 0 .. Hashes - 1 : Ask(h)
  \/ Finished

Spec == Init /\ [][Next]_vars

-----------------------------------------------------------------------------
(***************************************************************************)
(* Properties.                                                             *)
(***************************************************************************)
(* Each bucket of the right form that no unset index precedes has a place, *)
(* in the order of the indexes, and the default one stands in only for     *)
(* none at all (main.go:72-103).                                           *)
BucketsAreTheLeadingOnes ==
  stage = "loaded" =>
    LET leading == {k \in DOMAIN env.buckets : \A j \in 0 .. k : env.buckets[j] # None}
        valid   == {k \in leading : env.buckets[k] # Invalid}
    IN  IF valid = {} THEN buckets = <<DefaultBucket>>
        ELSE /\ Len(buckets) = Cardinality(valid)
             /\ \A k \in valid :
                  buckets[Cardinality({j \in valid : j <= k})] = env.buckets[k]
=============================================================================
