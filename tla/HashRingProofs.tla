--------------------------- MODULE HashRingProofs ---------------------------
(***************************************************************************)
(* Get of the hash ring finds an owner of the key, and processes route     *)
(* keys alike, for any shards, virtual nodes, hash function and keys.      *)
(*                                                                         *)
(* The argument: the points of a ring are the images of the virtual nodes  *)
(* of the shards inserted so far, all of them and nothing else (Sound,     *)
(* Complete); they are in order once they are sorted; the search keeps the *)
(* first point at or after the key between its bounds (Brackets).  When    *)
(* the bounds meet, the point there belongs to an owner, and owners are    *)
(* told from the shards and the hash alone.                                *)
(***************************************************************************)
EXTENDS HashRing, TLAPS

(* The inductive invariant, by parts, and of one process.                  *)
Typed ==
  /\ hash \in Hashes
  /\ target \in KeyHashes
  /\ phase \in [Procs -> Phases]
  /\ inserted \in [Procs -> Nat]
  /\ points \in [Procs -> Seq([hash : Nat, shardID : Nat])]
  /\ lo \in [Procs -> Nat]
  /\ hi \in [Procs -> Nat]
  /\ shard \in [Procs -> Nat \cup {NoShard}]

Bounds(p) ==
  /\ lo[p] <= hi[p]
  /\ hi[p] <= Len(points[p])
  /\ inserted[p] <= Len(ShardIDs[p])
  /\ phase[p] # "inserting" => inserted[p] = Len(ShardIDs[p])

(* s is one of the first n shards of a list, i the number of a virtual     *)
(* node.                                                                   *)
IsNode(n, s, i) == s \in 1 .. n /\ i \in 0 .. VNodes - 1

Sound(p) ==
  \A k \in 1 .. Len(points[p]) : \E s, i \in Nat :
    IsNode(inserted[p], s, i) /\ points[p][k] = PointOf(ShardIDs[p][s], i)

Complete(p) ==
  \A s, i \in Nat : IsNode(inserted[p], s, i) =>
    \E k \in 1 .. Len(points[p]) : points[p][k] = PointOf(ShardIDs[p][s], i)

Ordered(p) == phase[p] # "inserting" => Sorted(points[p])

Brackets(p) ==
  phase[p] = "searching" =>
    \A k \in 1 .. Len(points[p]) :
      /\ k <= lo[p] => points[p][k].hash < target
      /\ k > hi[p]  => points[p][k].hash >= target

Found(p) == phase[p] = "answered" => \E l \in Owners(p) : shard[p] = l[1]

Ring(p) ==
  Bounds(p) /\ Sound(p) /\ Complete(p) /\ Ordered(p) /\ Brackets(p) /\ Found(p)

IInv == Typed /\ \A p \in Procs : Ring(p)

-----------------------------------------------------------------------------
LEMMA VNodesPositive == VNodes \in Nat \ {0}
BY VNodesAssumption DEF VNodes

(* A virtual node of a shard has a hash.                                   *)
LEMMA PointTyped ==
  ASSUME hash \in Hashes, NEW p \in Procs,
         NEW s \in 1 .. Len(ShardIDs[p]), NEW i \in 0 .. VNodes - 1
  PROVE  PointOf(ShardIDs[p][s], i) \in [hash : Nat, shardID : Nat]
<1>1. ShardIDs[p] \in Seq(Nat) /\ s \in DOMAIN ShardIDs[p]
  BY ShardIDsAssumption
<1>2. ShardIDs[p][s] \in Nat
  BY <1>1
<1>3. hash[<<ShardIDs[p][s], i>>] \in Nat
  BY <1>1, HashesAssumption
<1> QED BY <1>2, <1>3 DEF PointOf

(* A ring is a sequence of points.                                         *)
LEMMA PointsTyped ==
  ASSUME Typed, NEW p \in Procs
  PROVE  /\ Len(points[p]) \in Nat
         /\ DOMAIN points[p] = 1 .. Len(points[p])
         /\ \A k \in 1 .. Len(points[p]) :
              points[p][k].hash \in Nat /\ points[p][k].shardID \in Nat
<1> DEFINE ring  == points[p]
           Point == [hash : Nat, shardID : Nat]
<1>1. ring \in Seq(Point)
  BY DEF Typed
<1> HIDE DEF ring, Point
<1>2. \A k \in 1 .. Len(ring) : ring[k] \in Point
  BY <1>1
<1>3. Len(ring) \in Nat /\ DOMAIN ring = 1 .. Len(ring)
  BY <1>1
<1> QED BY <1>2, <1>3 DEF ring, Point

(* A ring stays as it is when a step leaves its process alone.             *)
LEMMA RingUnchanged ==
  ASSUME NEW p \in Procs, Ring(p), hash' = hash, target' = target,
         phase'[p] = phase[p], inserted'[p] = inserted[p],
         points'[p] = points[p], lo'[p] = lo[p], hi'[p] = hi[p],
         shard'[p] = shard[p]
  PROVE  Ring(p)'
<1>1. Bounds(p)' /\ Ordered(p)' /\ Brackets(p)'
  BY DEF Ring, Bounds, Ordered, Sorted, Brackets
<1>2. \A id, i : PointOf(id, i)' = PointOf(id, i)
  BY DEF PointOf
<1>3. Sound(p)'
  BY <1>2 DEF Ring, Sound
<1>4. Complete(p)'
  BY <1>2 DEF Ring, Complete
<1>5. Found(p)'
  BY DEF Ring, Found, Owners, After
<1> QED BY <1>1, <1>3, <1>4, <1>5 DEF Ring

LEMMA InitRing == Init => IInv
<1> SUFFICES ASSUME Init PROVE IInv
  OBVIOUS
<1>1. Typed
  BY DEF Init, Typed, Phases
<1>2. ASSUME NEW p \in Procs PROVE Ring(p)
  <2>1. ShardIDs[p] \in Seq(Nat)
    BY ShardIDsAssumption
  <2>2. Bounds(p) /\ Ordered(p) /\ Brackets(p) /\ Found(p)
    BY <2>1 DEF Init, Bounds, Ordered, Brackets, Found
  <2>3. Sound(p) /\ Complete(p)
    BY DEF Init, Sound, Complete, IsNode
  <2> QED BY <2>2, <2>3 DEF Ring
<1> QED BY <1>1, <1>2 DEF IInv

-----------------------------------------------------------------------------
(* The points of one more shard, after the ones there are.                 *)
LEMMA InsertKeepsRing ==
  ASSUME IInv, NEW p \in Procs, Insert(p)
  PROVE  IInv'
<1> DEFINE Point == [hash : Nat, shardID : Nat]
           new   == inserted[p] + 1
           old   == points[p]
           size  == Len(old)
           added == [k \in 1 .. VNodes |-> PointOf(ShardIDs[p][new], k - 1)]
           all   == old \o added
<1>1. /\ new \in 1 .. Len(ShardIDs[p])
      /\ inserted[p] \in Nat
      /\ old \in Seq(Point)
      /\ size \in Nat
      /\ hash \in Hashes
      /\ VNodes \in Nat \ {0}
  BY VNodesPositive DEF IInv, Typed, Insert
<1>2. /\ hash' = hash /\ target' = target
      /\ phase' = phase /\ lo' = lo /\ hi' = hi /\ shard' = shard
      /\ inserted' = [inserted EXCEPT ![p] = new]
      /\ points' = [points EXCEPT ![p] = all]
      /\ phase[p] = "inserting"
  BY DEF Insert
<1>3. inserted'[p] = new /\ points'[p] = all
  BY <1>2 DEF IInv, Typed
<1>4. \A k \in 1 .. VNodes : added[k] = PointOf(ShardIDs[p][new], k - 1)
  OBVIOUS
<1>5. added \in Seq(Point) /\ Len(added) = VNodes
  <2>1. \A k \in 1 .. VNodes : PointOf(ShardIDs[p][new], k - 1) \in Point
    BY <1>1, PointTyped
  <2> QED BY <1>1, <2>1
<1> HIDE DEF Point, added
<1>6. /\ all \in Seq(Point)
      /\ Len(all) = size + VNodes
      /\ \A k \in 1 .. size : all[k] = old[k]
      /\ \A k \in 1 .. VNodes : all[size + k] = added[k]
  BY <1>1, <1>5
<1> HIDE DEF all
<1>7. Typed'
  BY <1>2, <1>3, <1>1, <1>6 DEF IInv, Typed, Point
<1>8. \A id, i : PointOf(id, i)' = PointOf(id, i)
  BY <1>2 DEF PointOf
<1>9. Bounds(p)' /\ Ordered(p)' /\ Brackets(p)' /\ Found(p)'
  BY <1>1, <1>2, <1>3, <1>6 DEF IInv, Typed, Ring, Bounds, Ordered, Brackets, Found
<1>10. Sound(p)'
  <2>1. ASSUME NEW k \in 1 .. size
        PROVE  \E s, i \in Nat : IsNode(new, s, i) /\ all[k] = PointOf(ShardIDs[p][s], i)
    <3>1. PICK s \in Nat, i \in Nat :
            IsNode(inserted[p], s, i) /\ old[k] = PointOf(ShardIDs[p][s], i)
      BY <2>1 DEF IInv, Ring, Sound
    <3>2. IsNode(new, s, i)
      BY <1>1, <3>1 DEF IsNode
    <3> QED BY <1>6, <3>1, <3>2
  <2>2. ASSUME NEW k \in 1 .. VNodes
        PROVE  \E s, i \in Nat : IsNode(new, s, i) /\ all[size + k] = PointOf(ShardIDs[p][s], i)
    <3>1. IsNode(new, new, k - 1)
      BY <1>1 DEF IsNode
    <3>2. all[size + k] = PointOf(ShardIDs[p][new], k - 1)
      BY <1>4, <1>6
    <3> QED BY <1>1, <3>1, <3>2
  <2>3. \A k \in 1 .. Len(all) : k \in 1 .. size \/ (k - size \in 1 .. VNodes
                                                     /\ k = size + (k - size))
    <3> HIDE DEF size
    <3> QED BY <1>1, <1>6
  <2>4. ASSUME NEW k \in 1 .. Len(all)
        PROVE  \E s, i \in Nat : IsNode(new, s, i) /\ all[k] = PointOf(ShardIDs[p][s], i)
    <3> HIDE DEF size
    <3> QED BY <2>1, <2>2, <2>3
  <2> QED BY <1>3, <1>8, <2>4 DEF Sound
<1>11. Complete(p)'
  <2> SUFFICES ASSUME NEW s \in Nat, NEW i \in Nat, IsNode(new, s, i)
               PROVE  \E k \in 1 .. Len(all) : all[k] = PointOf(ShardIDs[p][s], i)
    BY <1>3, <1>8 DEF Complete
  <2>1. CASE s \in 1 .. inserted[p]
    <3>1. IsNode(inserted[p], s, i)
      BY <2>1 DEF IsNode
    <3>2. PICK k \in 1 .. size : old[k] = PointOf(ShardIDs[p][s], i)
      BY <3>1 DEF IInv, Ring, Complete
    <3>3. k \in 1 .. Len(all)
      <4> HIDE DEF size
      <4> QED BY <1>1, <1>6
    <3> QED BY <1>6, <3>2, <3>3
  <2>2. CASE s = new
    <3>1. i + 1 \in 1 .. VNodes /\ (i + 1) - 1 = i
      BY <1>1 DEF IsNode
    <3>2. all[size + (i + 1)] = PointOf(ShardIDs[p][s], (i + 1) - 1)
      BY <1>4, <1>6, <2>2, <3>1
    <3>3. size + (i + 1) \in 1 .. Len(all)
      <4> HIDE DEF size
      <4> QED BY <1>1, <1>6, <3>1
    <3> QED BY <3>1, <3>2, <3>3
  <2>3. s \in 1 .. inserted[p] \/ s = new
    BY <1>1 DEF IsNode
  <2> QED BY <2>1, <2>2, <2>3
<1>12. Ring(p)'
  BY <1>9, <1>10, <1>11 DEF Ring
<1>13. ASSUME NEW q \in Procs, q # p PROVE Ring(q)'
  BY <1>2, <1>13, RingUnchanged DEF IInv, Typed
<1> QED BY <1>7, <1>12, <1>13 DEF IInv

(* A permutation of the points has the same points.                        *)
LEMMA SortKeepsRing ==
  ASSUME IInv, NEW p \in Procs, Sort(p)
  PROVE  IInv'
<1> DEFINE Point == [hash : Nat, shardID : Nat]
           old   == points[p]
           size  == Len(old)
           new   == points'[p]
<1>1. old \in Seq(Point) /\ size \in Nat /\ DOMAIN old = 1 .. size
  BY DEF IInv, Typed
<1>2. PICK f \in [1 .. size -> 1 .. size] :
        /\ Permutes(f, 1 .. size)
        /\ points' = [points EXCEPT ![p] = [k \in 1 .. size |-> old[f[k]]]]
  BY <1>1 DEF Sort
<1>3. new = [k \in 1 .. size |-> old[f[k]]]
  BY <1>2 DEF IInv, Typed
<1>4. /\ hash' = hash /\ target' = target /\ inserted' = inserted /\ shard' = shard
      /\ phase' = [phase EXCEPT ![p] = "searching"]
      /\ lo' = [lo EXCEPT ![p] = 0]
      /\ hi' = [hi EXCEPT ![p] = size]
      /\ inserted[p] = Len(ShardIDs[p])
      /\ Sorted(new)
  BY DEF Sort
<1>5. \A k \in 1 .. size : f[k] \in 1 .. size
  BY <1>2
<1> HIDE DEF Point
<1>6. \A k \in 1 .. size : old[k] \in Point
  <2> HIDE DEF old
  <2> QED BY <1>1
<1>7. new \in Seq(Point) /\ Len(new) = size /\ \A k \in 1 .. size : new[k] = old[f[k]]
  <2> HIDE DEF old, new, size
  <2> QED BY <1>1, <1>3, <1>5, <1>6
<1>8. Typed'
  <2>1. points' \in [Procs -> Seq([hash : Nat, shardID : Nat])]
    BY <1>2, <1>7, <1>3 DEF IInv, Typed, Point
  <2> QED BY <1>1, <1>4, <2>1 DEF IInv, Typed, Phases
<1>9. phase'[p] = "searching" /\ lo'[p] = 0 /\ hi'[p] = size
  BY <1>4 DEF IInv, Typed
<1>10. \A id, i : PointOf(id, i)' = PointOf(id, i)
  BY <1>4 DEF PointOf
<1>11. Bounds(p)' /\ Ordered(p)' /\ Brackets(p)' /\ Found(p)'
  BY <1>1, <1>4, <1>7, <1>9 DEF IInv, Typed, Ring, Bounds, Ordered, Brackets, Found
<1>12. Sound(p)'
  <2> SUFFICES ASSUME NEW k \in 1 .. size
               PROVE  \E s, i \in Nat : IsNode(inserted[p], s, i)
                                        /\ new[k] = PointOf(ShardIDs[p][s], i)
    BY <1>4, <1>7, <1>10 DEF Sound
  <2>1. f[k] \in 1 .. size /\ new[k] = old[f[k]]
    BY <1>5, <1>7
  <2>2. Sound(p)
    BY DEF IInv, Ring
  <2>3. PICK s \in Nat, i \in Nat :
          IsNode(inserted[p], s, i) /\ old[f[k]] = PointOf(ShardIDs[p][s], i)
    BY <2>1, <2>2 DEF Sound
  <2> QED BY <2>1, <2>3
<1>13. Complete(p)'
  <2> SUFFICES ASSUME NEW s \in Nat, NEW i \in Nat, IsNode(inserted[p], s, i)
               PROVE  \E k \in 1 .. size : new[k] = PointOf(ShardIDs[p][s], i)
    BY <1>4, <1>7, <1>10 DEF Complete
  <2>1. PICK k \in 1 .. size : old[k] = PointOf(ShardIDs[p][s], i)
    BY DEF IInv, Ring, Complete
  <2>2. PICK l \in 1 .. size : f[l] = k
    BY <1>2 DEF Permutes
  <2> QED BY <1>7, <2>1, <2>2
<1>14. Ring(p)'
  BY <1>11, <1>12, <1>13 DEF Ring
<1>15. ASSUME NEW q \in Procs, q # p PROVE Ring(q)'
  BY <1>2, <1>4, <1>15, RingUnchanged DEF IInv, Typed
<1> QED BY <1>8, <1>14, <1>15 DEF IInv

-----------------------------------------------------------------------------
(* The bounds stay around the first point at or after the key.             *)
LEMMA HalveKeepsRing ==
  ASSUME IInv, NEW p \in Procs, Halve(p)
  PROVE  IInv'
<1> DEFINE mid  == Middle(p)
           size == Len(points[p])
<1>1. /\ lo[p] \in Nat /\ hi[p] \in Nat /\ size \in Nat
      /\ hi[p] <= size
      /\ target \in Nat
  BY HashesAssumption DEF IInv, Typed, Ring, Bounds
<1>2. mid \in Nat /\ lo[p] <= mid /\ mid < hi[p]
  BY <1>1 DEF Halve, Middle
<1>3. \A k \in 1 .. size : points[p][k].hash \in Nat
  BY PointsTyped DEF IInv
<1>4. Sorted(points[p]) /\ DOMAIN points[p] = 1 .. size
  BY DEF IInv, Typed, Ring, Ordered, Halve
<1>5. /\ hash' = hash /\ target' = target /\ inserted' = inserted
      /\ phase' = phase /\ points' = points /\ shard' = shard
      /\ phase[p] = "searching"
  BY DEF Halve
<1>6. /\ lo' = [lo EXCEPT ![p] = IF AtOrAfter(p, mid) THEN lo[p] ELSE mid + 1]
      /\ hi' = [hi EXCEPT ![p] = IF AtOrAfter(p, mid) THEN mid ELSE hi[p]]
  BY DEF Halve
<1>7. /\ lo'[p] = IF AtOrAfter(p, mid) THEN lo[p] ELSE mid + 1
      /\ hi'[p] = IF AtOrAfter(p, mid) THEN mid ELSE hi[p]
  BY <1>6 DEF IInv, Typed
<1> HIDE DEF mid, size
<1>8. Typed'
  BY <1>1, <1>2, <1>5, <1>6 DEF IInv, Typed
<1>9. Brackets(p)'
  <2> SUFFICES ASSUME NEW k \in 1 .. size
               PROVE  /\ k <= lo'[p] => points[p][k].hash < target
                      /\ k > hi'[p]  => points[p][k].hash >= target
    BY <1>5 DEF Brackets, size
  <2>1. /\ k <= lo[p] => points[p][k].hash < target
        /\ k > hi[p]  => points[p][k].hash >= target
    BY <1>5 DEF IInv, Ring, Brackets, size
  <2>2. mid + 1 \in 1 .. size
    BY <1>1, <1>2
  <2>3. /\ points[p][k].hash \in Nat
        /\ points[p][mid + 1].hash \in Nat
    BY <1>3, <2>2
  <2>4. /\ k < mid + 1 => points[p][k].hash <= points[p][mid + 1].hash
        /\ mid + 1 < k => points[p][mid + 1].hash <= points[p][k].hash
    BY <1>4, <2>2 DEF Sorted
  <2>5. CASE AtOrAfter(p, mid)
    <3>1. lo'[p] = lo[p] /\ hi'[p] = mid /\ points[p][mid + 1].hash >= target
      BY <1>7, <2>5 DEF AtOrAfter
    <3>2. k > mid => k = mid + 1 \/ mid + 1 < k
      BY <1>1, <1>2
    <3> QED BY <1>1, <2>1, <2>3, <2>4, <3>1, <3>2
  <2>6. CASE ~AtOrAfter(p, mid)
    <3>1. lo'[p] = mid + 1 /\ hi'[p] = hi[p] /\ ~(points[p][mid + 1].hash >= target)
      BY <1>7, <2>6 DEF AtOrAfter
    <3>2. k <= mid + 1 => k = mid + 1 \/ k < mid + 1
      BY <1>1, <1>2
    <3> QED BY <1>1, <2>1, <2>3, <2>4, <3>1, <3>2
  <2> QED BY <2>5, <2>6
<1>10. Bounds(p)'
  BY <1>1, <1>2, <1>5, <1>7 DEF IInv, Ring, Bounds, size
<1>11. \A id, i : PointOf(id, i)' = PointOf(id, i)
  BY <1>5 DEF PointOf
<1>12. Sound(p)' /\ Complete(p)'
  <2>1. Sound(p)'
    BY <1>5, <1>11 DEF IInv, Ring, Sound
  <2>2. Complete(p)'
    BY <1>5, <1>11 DEF IInv, Ring, Complete
  <2> QED BY <2>1, <2>2
<1>13. Ordered(p)' /\ Found(p)'
  BY <1>5 DEF IInv, Ring, Ordered, Sorted, Found
<1>14. Ring(p)'
  BY <1>9, <1>10, <1>12, <1>13 DEF Ring
<1>15. ASSUME NEW q \in Procs, q # p PROVE Ring(q)'
  BY <1>5, <1>6, <1>15, RingUnchanged DEF IInv, Typed
<1> QED BY <1>8, <1>14, <1>15 DEF IInv

(* Where the bounds meet there is a point of an owner of the key.          *)
LEMMA MeetingPointIsOwner ==
  ASSUME IInv, NEW p \in Procs, phase[p] = "searching", lo[p] = hi[p]
  PROVE  /\ Wrapped(p) + 1 \in 1 .. Len(points[p])
         /\ \E l \in Owners(p) : points[p][Wrapped(p) + 1].shardID = l[1]
<1> DEFINE ids  == ShardIDs[p]
           size == Len(points[p])
           at   == Wrapped(p) + 1
<1>1. /\ lo[p] \in Nat /\ size \in Nat /\ lo[p] <= size
      /\ inserted[p] = Len(ids)
      /\ target \in Nat
  BY HashesAssumption DEF IInv, Typed, Ring, Bounds
<1>2. ids \in Seq(Nat) /\ ids # <<>> /\ Len(ids) \in Nat /\ DOMAIN ids = 1 .. Len(ids)
  BY ShardIDsAssumption
<1>3. \A k \in 1 .. size : points[p][k].hash \in Nat
  BY PointsTyped DEF IInv
<1>4. /\ Sorted(points[p]) /\ DOMAIN points[p] = 1 .. size
      /\ Sound(p) /\ Complete(p) /\ Brackets(p)
  BY DEF IInv, Typed, Ring, Ordered
<1>5. ASSUME NEW m \in Labels(p)
      PROVE  \E k \in 1 .. size : points[p][k].hash = hash[m]
  <2>1. PICK s \in 1 .. Len(ids), i \in 0 .. VNodes - 1 : m = <<ids[s], i>>
    BY <1>2 DEF Labels, Shards
  <2>2. s \in Nat /\ i \in Nat /\ IsNode(inserted[p], s, i)
    BY <1>1, <1>2, VNodesPositive DEF IsNode
  <2>3. PICK k \in 1 .. size : points[p][k] = PointOf(ids[s], i)
    BY <1>4, <2>2 DEF Complete
  <2> QED BY <2>1, <2>3 DEF PointOf
<1>6. ASSUME NEW k \in 1 .. size
      PROVE  \E l \in Labels(p) : hash[l] = points[p][k].hash /\ l[1] = points[p][k].shardID
  <2>1. PICK s \in Nat, i \in Nat :
          IsNode(inserted[p], s, i) /\ points[p][k] = PointOf(ids[s], i)
    BY <1>4 DEF Sound
  <2>2. s \in DOMAIN ids /\ i \in 0 .. VNodes - 1
    BY <1>1, <1>2, <2>1 DEF IsNode
  <2>3. <<ids[s], i>> \in Labels(p)
    BY <2>2 DEF Labels, Shards
  <2> WITNESS <<ids[s], i>> \in Labels(p)
  <2> QED BY <2>1 DEF PointOf
<1>7. size > 0
  <2>1. 1 \in DOMAIN ids /\ 0 \in 0 .. VNodes - 1
    BY <1>2, VNodesPositive
  <2>2. <<ids[1], 0>> \in Labels(p)
    BY <2>1 DEF Labels, Shards
  <2> QED BY <1>1, <1>5, <2>2
<1>8. at \in 1 .. size /\ at = IF lo[p] = size THEN 1 ELSE lo[p] + 1
  BY <1>1, <1>7 DEF Wrapped
<1>9. PICK l \in Labels(p) : hash[l] = points[p][at].hash /\ l[1] = points[p][at].shardID
  BY <1>6, <1>8
<1>10. l \in Owners(p)
  <2>1. ASSUME NEW k \in 1 .. size, at <= k PROVE hash[l] <= points[p][k].hash
    <3>1. at \in 1 .. size /\ k \in 1 .. size /\ (at = k \/ at < k)
      BY <1>1, <1>8, <2>1
    <3>2. points[p][at].hash \in Nat /\ points[p][k].hash \in Nat
      BY <1>3, <3>1
    <3>3. at < k => points[p][at].hash <= points[p][k].hash
      BY <1>4, <3>1 DEF Sorted
    <3> QED BY <1>9, <3>1, <3>2, <3>3
  <2>2. CASE lo[p] = size
    <3>1. ASSUME NEW m \in Labels(p) PROVE m \notin After(p)
      <4>1. PICK k \in 1 .. size : points[p][k].hash = hash[m]
        BY <1>5
      <4>2. points[p][k].hash < target /\ points[p][k].hash \in Nat
        BY <1>1, <1>3, <1>4, <2>2 DEF Brackets
      <4> QED BY <1>1, <4>1, <4>2 DEF After
    <3>2. After(p) = {}
      BY <3>1 DEF After
    <3>3. ASSUME NEW m \in Labels(p) PROVE hash[l] <= hash[m]
      <4>1. PICK k \in 1 .. size : points[p][k].hash = hash[m]
        BY <1>5
      <4>2. at <= k
        BY <1>1, <1>8, <2>2
      <4> QED BY <2>1, <4>1, <4>2
    <3> QED BY <3>2, <3>3 DEF Owners
  <2>3. CASE lo[p] # size
    <3>1. at = lo[p] + 1 /\ at > hi[p]
      BY <1>1, <1>8, <2>3
    <3>2. hash[l] >= target
      BY <1>4, <1>8, <1>9, <3>1 DEF Brackets
    <3>3. l \in After(p)
      BY <3>2 DEF After
    <3>4. ASSUME NEW m \in After(p) PROVE hash[l] <= hash[m]
      <4>1. m \in Labels(p) /\ hash[m] >= target
        BY DEF After
      <4>2. PICK k \in 1 .. size : points[p][k].hash = hash[m]
        BY <1>5, <4>1
      <4>3. ~(points[p][k].hash < target)
        BY <1>1, <1>3, <4>1, <4>2
      <4>4. ~(k <= lo[p])
        BY <1>4, <4>3 DEF Brackets
      <4>5. at <= k
        BY <1>1, <3>1, <4>4
      <4> QED BY <2>1, <4>2, <4>5
    <3> QED BY <3>3, <3>4 DEF Owners
  <2> QED BY <2>2, <2>3
<1> QED BY <1>8, <1>9, <1>10

LEMMA AnswerKeepsRing ==
  ASSUME IInv, NEW p \in Procs, Answer(p)
  PROVE  IInv'
<1> DEFINE at == Wrapped(p) + 1
<1>1. /\ hash' = hash /\ target' = target /\ inserted' = inserted
      /\ points' = points /\ lo' = lo /\ hi' = hi
      /\ phase[p] = "searching" /\ lo[p] = hi[p]
      /\ shard' = [shard EXCEPT ![p] = points[p][at].shardID]
      /\ phase' = [phase EXCEPT ![p] = "answered"]
  BY DEF Answer
<1>2. /\ at \in 1 .. Len(points[p])
      /\ \E l \in Owners(p) : points[p][at].shardID = l[1]
  BY <1>1, MeetingPointIsOwner
<1> HIDE DEF at
<1>3. points[p][at].shardID \in Nat
  BY <1>2, PointsTyped DEF IInv
<1>4. Typed'
  BY <1>1, <1>3 DEF IInv, Typed, Phases
<1>5. shard'[p] = points[p][at].shardID /\ phase'[p] = "answered"
  BY <1>1 DEF IInv, Typed
<1>6. Owners(p)' = Owners(p)
  BY <1>1 DEF Owners, After
<1>7. Found(p)'
  BY <1>2, <1>5, <1>6 DEF Found
<1>8. Bounds(p)' /\ Ordered(p)' /\ Brackets(p)'
  BY <1>1, <1>5 DEF IInv, Ring, Bounds, Ordered, Sorted, Brackets
<1>9. \A id, i : PointOf(id, i)' = PointOf(id, i)
  BY <1>1 DEF PointOf
<1>10. Sound(p)'
  BY <1>1, <1>9 DEF IInv, Ring, Sound
<1>11. Complete(p)'
  BY <1>1, <1>9 DEF IInv, Ring, Complete
<1>12. Ring(p)'
  BY <1>7, <1>8, <1>10, <1>11 DEF Ring
<1>13. ASSUME NEW q \in Procs, q # p PROVE Ring(q)'
  BY <1>1, <1>13, RingUnchanged DEF IInv, Typed
<1> QED BY <1>4, <1>12, <1>13 DEF IInv

-----------------------------------------------------------------------------
(* The rings are what they should be in every state, for all constants:    *)
(* the invariant the theorems below follow from.                           *)
THEOREM RingInvariant == Spec => []IInv
<1>1. IInv /\ [Next]_vars => IInv'
  <2> SUFFICES ASSUME IInv, [Next]_vars PROVE IInv'
    OBVIOUS
  <2>1. ASSUME NEW p \in Procs, Insert(p) PROVE IInv'
    BY <2>1, InsertKeepsRing
  <2>2. ASSUME NEW p \in Procs, Sort(p) PROVE IInv'
    BY <2>2, SortKeepsRing
  <2>3. ASSUME NEW p \in Procs, Halve(p) PROVE IInv'
    BY <2>3, HalveKeepsRing
  <2>4. ASSUME NEW p \in Procs, Answer(p) PROVE IInv'
    BY <2>4, AnswerKeepsRing
  <2>5. CASE UNCHANGED vars
    <3>1. Typed'
      BY <2>5 DEF IInv, Typed, vars
    <3>2. ASSUME NEW p \in Procs PROVE Ring(p)'
      BY <2>5, RingUnchanged DEF IInv, vars
    <3> QED BY <3>1, <3>2 DEF IInv
  <2> QED BY <2>1, <2>2, <2>3, <2>4, <2>5 DEF Next, Finished
<1> QED BY InitRing, <1>1, PTL DEF Spec

(* The bounds of a search stay inside the ring and in order (sort.Search   *)
(* of ring.go:53), whatever the ring.                                      *)
THEOREM TypeCorrect == Spec => []TypeOK
<1>1. IInv => TypeOK
  BY DEF IInv, Typed, Ring, Bounds, TypeOK
<1> QED BY RingInvariant, <1>1, PTL

(* Get returns the shard of an owner of the key (ring.go:45-60).           *)
THEOREM GetIsRight == Spec => []GetFindsAnOwner
<1>1. IInv => GetFindsAnOwner
  BY DEF IInv, Ring, Found, GetFindsAnOwner
<1> QED BY RingInvariant, <1>1, PTL

(* The search keeps the successor of the key between its bounds.           *)
THEOREM SearchIsRight == Spec => []SearchBrackets
<1>1. IInv => SearchBrackets
  BY PointsTyped DEF IInv, Ring, Brackets, SearchBrackets
<1> QED BY RingInvariant, <1>1, PTL

(* Readers and writers with the same shards route every key alike, and     *)
(* added shards take keys but never move one between the others (the       *)
(* promise of ring.go:2-3), for every hash function without collisions.    *)
THEOREM RoutingIsStable == Spec => []RoutedAlike
<1>1. IInv => RoutedAlike
  <2> SUFFICES ASSUME IInv, NEW p \in Procs, NEW q \in Procs,
                      phase[p] = "answered", phase[q] = "answered",
                      Shards(p) \subseteq Shards(q), NoCollision(q),
                      shard[q] \in Shards(p)
               PROVE  shard[q] = shard[p]
    BY DEF RoutedAlike
  <2>1. PICK l \in Owners(p) : shard[p] = l[1]
    BY DEF IInv, Ring, Found
  <2>2. PICK m \in Owners(q) : shard[q] = m[1]
    BY DEF IInv, Ring, Found
  <2>3. Labels(p) \subseteq Labels(q) /\ l \in Labels(p) /\ m \in Labels(q)
    BY DEF Labels, Owners, After
  <2>4. m \in Labels(p)
    BY <2>2, <2>3 DEF Labels
  <2>5. hash[l] \in Nat /\ hash[m] \in Nat
    <3>1. ASSUME NEW x \in Labels(p) PROVE hash[x] \in Nat
      <4>1. PICK s \in DOMAIN ShardIDs[p], i \in 0 .. VNodes - 1 : x = <<ShardIDs[p][s], i>>
        BY DEF Labels, Shards
      <4>2. hash \in Hashes
        BY DEF IInv, Typed
      <4> QED BY <4>1, <4>2, HashesAssumption
    <3> QED BY <2>3, <2>4, <3>1
  <2>6. hash[l] <= hash[m] /\ hash[m] <= hash[l]
    <3>1. CASE After(p) = {}
      <4>1. m \notin After(q)
        BY <2>4, <3>1 DEF After
      <4>2. After(q) = {}
        BY <4>1 DEF Owners
      <4> QED BY <2>3, <2>4, <3>1, <4>2 DEF Owners
    <3>2. CASE After(p) # {}
      <4>1. l \in After(p) /\ \A x \in After(p) : hash[l] <= hash[x]
        BY <3>2 DEF Owners
      <4>2. l \in After(q)
        BY <2>3, <4>1 DEF After
      <4>3. m \in After(q) /\ \A x \in After(q) : hash[m] <= hash[x]
        BY <4>2 DEF Owners
      <4>4. m \in After(p)
        BY <2>4, <4>3 DEF After
      <4> QED BY <4>1, <4>2, <4>3, <4>4
    <3> QED BY <3>1, <3>2
  <2>7. l = m
    BY <2>3, <2>5, <2>6 DEF NoCollision
  <2> QED BY <2>1, <2>2, <2>7
<1> QED BY RingInvariant, <1>1, PTL
=============================================================================
