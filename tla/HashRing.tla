------------------------------ MODULE HashRing ------------------------------
(***************************************************************************)
(* The consistent hash ring of internal/ring/ring.go: New inserts VNodes   *)
(* points per shard and sorts them by hash, Get finds the point a key      *)
(* belongs to by binary search.                                            *)
(*                                                                         *)
(* Several processes build a ring each, from their own list of shard ids,  *)
(* and look up one key: the orchestrator that reads, the index-builder     *)
(* that wrote, an orchestrator with one shard more.  They use one hash     *)
(* function, xxhash64, of which nothing is assumed: it is any function in  *)
(* Hashes, chosen once.  A ring is not written after New, so that its      *)
(* RWMutex never makes anyone wait, and Get keeps no state.                *)
(***************************************************************************)
EXTENDS Integers, Sequences

CONSTANTS
  Procs,          \* the processes
  ShardIDs,       \* ShardIDs[p]: the shard ids p passes to New
  VNodesArg,      \* the vnodes every process passes to New
  DefaultVNodes,  \* 150 in the code
  Hashes,         \* the hash functions: the hash of the i-th virtual node of
                  \* shard id is hash[<<id, i>>]
  KeyHashes       \* the hashes of keys

VNodes == IF VNodesArg <= 0 THEN DefaultVNodes ELSE VNodesArg

ASSUME VNodesAssumption == VNodesArg \in Int /\ DefaultVNodes \in Nat \ {0}

(* config.Load refuses an empty list of shards.                            *)
ASSUME ShardIDsAssumption ==
  /\ ShardIDs \in [Procs -> Seq(Nat)]
  /\ \A p \in Procs : ShardIDs[p] # <<>>

ASSUME HashesAssumption ==
  /\ KeyHashes \subseteq Nat
  /\ \A h \in Hashes : \A p \in Procs : \A s \in DOMAIN ShardIDs[p] :
       \A i \in 0 .. VNodes - 1 : h[<<ShardIDs[p][s], i>>] \in Nat

VARIABLES
  hash,      \* the hash function
  target,    \* the hash of the key that is looked up
  phase,     \* phase[p]: where p is
  inserted,  \* inserted[p]: how many of its shard ids p has inserted
  points,    \* points[p]: the points of the ring
  lo, hi,    \* lo[p], hi[p]: the bounds of sort.Search
  shard      \* shard[p]: what Get returned

vars == <<hash, target, phase, inserted, points, lo, hi, shard>>

NoShard == -1

PointOf(id, i) == [hash |-> hash[<<id, i>>], shardID |-> id]

Init ==
  /\ hash \in Hashes
  /\ target \in KeyHashes
  /\ phase    = [p \in Procs |-> "inserting"]
  /\ inserted = [p \in Procs |-> 0]
  /\ points   = [p \in Procs |-> <<>>]
  /\ lo       = [p \in Procs |-> 0]
  /\ hi       = [p \in Procs |-> 0]
  /\ shard    = [p \in Procs |-> NoShard]

(* Defect: virtual nodes are named after the place of a shard in the list. *)
InsertByPlace(p) ==
  /\ phase[p] = "inserting"
  /\ inserted[p] < Len(ShardIDs[p])
  /\ LET id == ShardIDs[p][inserted[p] + 1]
     IN  points' = [points EXCEPT ![p] = @ \o
           [k \in 1 .. VNodes |-> [hash |-> hash[<<inserted[p], k - 1>>], shardID |-> id]]]
  /\ inserted' = [inserted EXCEPT ![p] = @ + 1]
  /\ UNCHANGED <<hash, target, phase, lo, hi, shard>>

(* insert(shardID) appends the points of one shard.                        *)
Insert(p) ==
  /\ phase[p] = "inserting"
  /\ inserted[p] < Len(ShardIDs[p])
  /\ LET id == ShardIDs[p][inserted[p] + 1]
     IN  points' = [points EXCEPT ![p] = @ \o [k \in 1 .. VNodes |-> PointOf(id, k - 1)]]
  /\ inserted' = [inserted EXCEPT ![p] = @ + 1]
  /\ UNCHANGED <<hash, target, phase, lo, hi, shard>>

Sorted(seq) == \A k, l \in DOMAIN seq : k < l => seq[k].hash <= seq[l].hash

Permutes(f, D) == f \in [D -> D] /\ \A k \in D : \E l \in D : f[l] = k

(* sort.Slice is not stable: any order of points with one hash.            *)
Sort(p) ==
  /\ phase[p] = "inserting"
  /\ inserted[p] = Len(ShardIDs[p])
  /\ \E f \in [DOMAIN points[p] -> DOMAIN points[p]] :
       /\ Permutes(f, DOMAIN points[p])
       /\ points' = [points EXCEPT ![p] = [k \in DOMAIN @ |-> @[f[k]]]]
  /\ Sorted(points'[p])
  /\ phase' = [phase EXCEPT ![p] = "searching"]
  /\ lo'    = [lo EXCEPT ![p] = 0]
  /\ hi'    = [hi EXCEPT ![p] = Len(points[p])]
  /\ UNCHANGED <<hash, target, inserted, shard>>

Middle(p) == (lo[p] + hi[p]) \div 2

(* Defect: the search passes a point with the hash of the key.             *)
StrictlyAfter(p, i) == points[p][i + 1].hash > target

(* The predicate given to sort.Search, of an index that counts from 0.     *)
AtOrAfter(p, i) == points[p][i + 1].hash >= target

(* Defect: the upper half is cut one point short.                          *)
HalveTooFar(p) ==
  /\ phase[p] = "searching"
  /\ lo[p] < hi[p]
  /\ lo' = [lo EXCEPT ![p] = IF AtOrAfter(p, Middle(p)) THEN @ ELSE Middle(p) + 1]
  /\ hi' = [hi EXCEPT ![p] = IF AtOrAfter(p, Middle(p)) THEN Middle(p) ELSE @ - 1]
  /\ UNCHANGED <<hash, target, phase, inserted, points, shard>>

(* One iteration of sort.Search.                                           *)
Halve(p) ==
  /\ phase[p] = "searching"
  /\ lo[p] < hi[p]
  /\ lo' = [lo EXCEPT ![p] = IF AtOrAfter(p, Middle(p)) THEN @ ELSE Middle(p) + 1]
  /\ hi' = [hi EXCEPT ![p] = IF AtOrAfter(p, Middle(p)) THEN Middle(p) ELSE @]
  /\ UNCHANGED <<hash, target, phase, inserted, points, shard>>

(* Defect: the search stops at the last point.                             *)
WrappedToLast(p) == IF lo[p] = Len(points[p]) THEN lo[p] - 1 ELSE lo[p]

(* After the last point comes the first.                                   *)
Wrapped(p) == IF lo[p] = Len(points[p]) THEN 0 ELSE lo[p]

(* Get returns.                                                            *)
Answer(p) ==
  /\ phase[p] = "searching"
  /\ lo[p] = hi[p]
  /\ shard' = [shard EXCEPT ![p] = points[p][Wrapped(p) + 1].shardID]
  /\ phase' = [phase EXCEPT ![p] = "answered"]
  /\ UNCHANGED <<hash, target, inserted, points, lo, hi>>

(* Every process has its answer.                                           *)
Finished ==
  /\ \A p \in Procs : phase[p] = "answered"
  /\ UNCHANGED vars

Next == (\E p \in Procs : Insert(p) \/ Sort(p) \/ Halve(p) \/ Answer(p)) \/ Finished

Spec == Init /\ [][Next]_vars

-----------------------------------------------------------------------------
(***************************************************************************)
(* Properties.                                                             *)
(***************************************************************************)
Shards(p) == {ShardIDs[p][s] : s \in DOMAIN ShardIDs[p]}

Labels(p) == Shards(p) \X (0 .. VNodes - 1)

Phases == {"inserting", "searching", "answered"}

TypeOK ==
  /\ hash \in Hashes
  /\ target \in KeyHashes
  /\ phase \in [Procs -> Phases]
  /\ inserted \in [Procs -> Nat]
  /\ points \in [Procs -> Seq([hash : Nat, shardID : Nat])]
  /\ lo \in [Procs -> Nat]
  /\ hi \in [Procs -> Nat]
  /\ shard \in [Procs -> Nat \cup {NoShard}]
  /\ \A p \in Procs : lo[p] <= hi[p] /\ hi[p] <= Len(points[p])

(* The virtual nodes a key belongs to, told without a ring: the ones with  *)
(* the least hash at or after the key's, and with the least hash of all    *)
(* when there is none after it.                                            *)
After(p) == {l \in Labels(p) : hash[l] >= target}

Owners(p) ==
  LET from == IF After(p) = {} THEN Labels(p) ELSE After(p)
  IN  {l \in from : \A m \in from : hash[l] <= hash[m]}

(* Get returns the shard of an owner of the key, whatever the order in     *)
(* which the shards were inserted and sort.Slice left points with one      *)
(* hash: the binary search and its wrap-around find the successor.         *)
GetFindsAnOwner ==
  \A p \in Procs : phase[p] = "answered" => \E l \in Owners(p) : shard[p] = l[1]

(* No two virtual nodes of the ring of p have one hash.                    *)
NoCollision(p) == \A l, m \in Labels(p) : hash[l] = hash[m] => l = m

(* "The same ref_id always maps to the same shard on both read and write   *)
(* paths" (ring.go:2-3): two processes with the same shards route a key    *)
(* alike, in whatever order they list them; and a process with more shards *)
(* sends a key elsewhere only if it sends it to one of the added ones.     *)
(* Both only as long as no two virtual nodes collide.                      *)
RoutedAlike ==
  \A p, q \in Procs :
    /\ phase[p] = "answered"
    /\ phase[q] = "answered"
    /\ Shards(p) \subseteq Shards(q)
    /\ NoCollision(q)
    => shard[q] = shard[p] \/ shard[q] \notin Shards(p)

(* sort.Search keeps the first point at or after the key between its       *)
(* bounds, the end of the ring included (ring.go:53-58).                   *)
SearchBrackets ==
  \A p \in Procs : phase[p] = "searching" =>
    \A k \in DOMAIN points[p] :
      /\ k <= lo[p] => points[p][k].hash < target
      /\ k > hi[p]  => points[p][k].hash >= target
=============================================================================
