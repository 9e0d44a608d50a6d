---------------------------- MODULE LookupProofs ----------------------------
(***************************************************************************)
(* What LookupMany replies, proved for any requests, shards, store and     *)
(* capacity, and what that says of the entries and the store.              *)
(*                                                                         *)
(* The first half: a slot is written only by its own fetch goroutine,      *)
(* which is then not done.  The loops that read slots have a goroutine     *)
(* past its barrier: once next[i] > 1 all the fetches of i are done, and   *)
(* once merged > 0 all the positions are.  So the events a loop has        *)
(* appended stay the ones the slots hold (Collected, Merged).              *)
(*                                                                         *)
(* The second half: the slots are related to the entries and the store,    *)
(* the counters to the goroutines that bumped them, and the response to    *)
(* what the positions collected.  So an event the index names is missing   *)
(* only because a call failed, the metrics add up, and a query behaves     *)
(* like a best-effort read.                                                *)
(***************************************************************************)
EXTENDS LookupRefinement, PointerProofs

(* The invariant of one position.                                          *)
Holders(i) == {j \in Results(i) : Holding(i, j)}

Stage(i) ==
  /\ ref[i] = "querying" => metas[i] = <<>> /\ next[i] = 1
  /\ ref[i] = "fetching" => next[i] <= Len(metas[i])
  /\ ref[i] = "done"     => next[i] = Len(metas[i]) + 1 /\ Joined(i)
  /\ next[i] > 1         => Joined(i)
  /\ refErr[i]           => ref[i] = "done" /\ metas[i] = <<>>

Throttled(i) == sem[i] = Cardinality(Holders(i)) /\ sem[i] <= S3Concurrency

Collected(i) == Lists(out[i], KeptBefore(i, next[i], slot), slot)

Position(i) == Stage(i) /\ Throttled(i) /\ Collected(i)

(* The invariant of the caller.                                            *)
Merged ==
  /\ merged <= Len(request)
  /\ merged > 0 => \A i \in Positions : ref[i] = "done"
  /\ Lists(allEvents, KeptUpTo(merged, slot), slot)
  /\ reply.status = "ok" => merged = Len(request) /\ reply.events = allEvents

Typed ==
  /\ request \in Requests
  /\ ref \in [Positions -> RefState]
  /\ refErr \in [Positions -> BOOLEAN]
  /\ metas \in [Positions -> Seq(Entries)]
  /\ DOMAIN fetch = Positions
  /\ \A i \in Positions : fetch[i] \in [Results(i) -> FetchState]
  /\ DOMAIN slot = Positions
  /\ \A i \in Positions : slot[i] \in [Results(i) -> Slots]
  /\ sem \in [Positions -> Nat]
  /\ next \in [Positions -> Nat \ {0}]
  /\ out \in [Positions -> Seq(Events)]
  /\ merged \in Nat
  /\ allEvents \in Seq(Events)
  /\ count \in [rocksdb : Nat, entries : Nat, s3 : Nat]
  /\ cancelled \in BOOLEAN

IInv == Typed /\ (\A i \in Positions : Position(i)) /\ Merged

-----------------------------------------------------------------------------
(* Lists, the relation between events and the slots they come from.        *)

(* No places, no events.                                                   *)
LEMMA ListsNothing ==
  ASSUME NEW slots
  PROVE  Lists(<<>>, {}, slots)
<1> DEFINE place == [k \in {} |-> k]
<1>1. DOMAIN <<>> = {} /\ place \in [DOMAIN <<>> -> {}]
  OBVIOUS
<1> QED BY <1>1 DEF Lists

(* Lists looks at the slots in places only.                                *)
LEMMA ListsFrame ==
  ASSUME NEW evs, NEW places, NEW slots, NEW others,
         Lists(evs, places, slots),
         \A p \in places : others[p[1]][p[2]] = slots[p[1]][p[2]]
  PROVE  Lists(evs, places, others)
<1>1. PICK place \in [DOMAIN evs -> places] :
        /\ \A k, l \in DOMAIN evs : k < l => Before(place[k], place[l])
        /\ \A p \in places : \E k \in DOMAIN evs : place[k] = p
        /\ \A k \in DOMAIN evs : evs[k] = slots[place[k][1]][place[k][2]].event
  BY DEF Lists
<1>2. \A k \in DOMAIN evs : evs[k] = others[place[k][1]][place[k][2]].event
  BY <1>1
<1> QED BY <1>1, <1>2 DEF Lists

(* Events of places that come after the ones listed so far are appended.   *)
LEMMA ListsConcat ==
  ASSUME NEW Ev, NEW left \in Seq(Ev), NEW right \in Seq(Ev),
         NEW ps, NEW qs, NEW slots,
         Lists(left, ps, slots), Lists(right, qs, slots),
         \A p \in ps, q \in qs : Before(p, q)
  PROVE  Lists(left \o right, ps \cup qs, slots)
<1> DEFINE m == Len(left)
           n == Len(right)
           all == left \o right
<1>1. /\ m \in Nat /\ n \in Nat
      /\ DOMAIN left = 1 .. m /\ DOMAIN right = 1 .. n
      /\ DOMAIN all = 1 .. m + n
      /\ \A k \in 1 .. m : all[k] = left[k]
      /\ \A k \in 1 .. n : all[m + k] = right[k]
  OBVIOUS
<1> HIDE DEF m, n, all
<1>2. PICK f \in [DOMAIN left -> ps] :
        /\ \A k, l \in DOMAIN left : k < l => Before(f[k], f[l])
        /\ \A p \in ps : \E k \in DOMAIN left : f[k] = p
        /\ \A k \in DOMAIN left : left[k] = slots[f[k][1]][f[k][2]].event
  BY DEF Lists
<1>3. PICK g \in [DOMAIN right -> qs] :
        /\ \A k, l \in DOMAIN right : k < l => Before(g[k], g[l])
        /\ \A q \in qs : \E k \in DOMAIN right : g[k] = q
        /\ \A k \in DOMAIN right : right[k] = slots[g[k][1]][g[k][2]].event
  BY DEF Lists
<1>maps. /\ \A k \in 1 .. m : f[k] \in ps
         /\ \A k, l \in 1 .. m : k < l => Before(f[k], f[l])
         /\ \A k \in 1 .. n : g[k] \in qs
         /\ \A k, l \in 1 .. n : k < l => Before(g[k], g[l])
  BY <1>1, <1>2, <1>3
<1> DEFINE place == [k \in 1 .. m + n |-> IF k <= m THEN f[k] ELSE g[k - m]]
<1>4. /\ \A k \in 1 .. m : k \in 1 .. m + n /\ place[k] = f[k]
      /\ \A k \in 1 .. n : m + k \in 1 .. m + n /\ place[m + k] = g[k]
  <2>1. ASSUME NEW k \in 1 .. n PROVE m + k \in 1 .. m + n /\ ~(m + k <= m) /\ (m + k) - m = k
    BY <1>1
  <2> QED BY <1>1, <2>1
<1>split. ASSUME NEW k \in 1 .. m + n
          PROVE  k \in 1 .. m \/ \E h \in 1 .. n : k = m + h
  <2>1. k \notin 1 .. m => k - m \in 1 .. n /\ k = m + (k - m)
    BY <1>1
  <2> QED BY <2>1
<1> HIDE DEF place
<1>5. place \in [1 .. m + n -> ps \cup qs]
  <2>1. place = [k \in 1 .. m + n |-> place[k]]
    BY DEF place
  <2>2. ASSUME NEW k \in 1 .. m + n PROVE place[k] \in ps \cup qs
    <3>1. CASE k \in 1 .. m
      BY <1>4, <1>maps, <3>1
    <3>2. CASE \E h \in 1 .. n : k = m + h
      BY <1>4, <1>maps, <3>2
    <3> QED BY <1>split, <3>1, <3>2
  <2> QED BY <2>1, <2>2
<1>6. ASSUME NEW k \in 1 .. m + n, NEW l \in 1 .. m + n, k < l
      PROVE  Before(place[k], place[l])
  <2>1. CASE k \in 1 .. m /\ l \in 1 .. m
    BY <1>4, <1>6, <1>maps, <2>1
  <2>2. CASE k \in 1 .. m /\ \E h \in 1 .. n : l = m + h
    <3>1. place[k] \in ps /\ place[l] \in qs
      BY <1>4, <1>maps, <2>2
    <3> QED BY <3>1
  <2>3. CASE (\E h \in 1 .. n : k = m + h) /\ (\E h \in 1 .. n : l = m + h)
    <3>1. PICK h \in 1 .. n : k = m + h
      BY <2>3
    <3>2. PICK o \in 1 .. n : l = m + o
      BY <2>3
    <3>3. h < o
      BY <1>1, <1>6, <3>1, <3>2
    <3> QED BY <1>4, <1>maps, <3>1, <3>2, <3>3
  <2>4. ~(k \notin 1 .. m /\ l \in 1 .. m)
    BY <1>1, <1>6
  <2> QED BY <1>split, <2>1, <2>2, <2>3, <2>4
<1>7. ASSUME NEW p \in ps \cup qs PROVE \E k \in 1 .. m + n : place[k] = p
  <2>1. CASE p \in ps
    <3>1. PICK k \in 1 .. m : f[k] = p
      BY <1>1, <1>2, <2>1
    <3> QED BY <1>4, <3>1
  <2>2. CASE p \in qs
    <3>1. PICK k \in 1 .. n : g[k] = p
      BY <1>1, <1>3, <2>2
    <3> QED BY <1>4, <3>1
  <2> QED BY <2>1, <2>2
<1>8. ASSUME NEW k \in 1 .. m + n
      PROVE  all[k] = slots[place[k][1]][place[k][2]].event
  <2>1. CASE k \in 1 .. m
    BY <1>1, <1>2, <1>4, <2>1
  <2>2. CASE \E h \in 1 .. n : k = m + h
    <3>1. PICK h \in 1 .. n : k = m + h
      BY <2>2
    <3>2. all[k] = right[h] /\ place[k] = g[h]
      BY <1>1, <1>4, <3>1
    <3>3. right[h] = slots[g[h][1]][g[h][2]].event
      BY <1>1, <1>3
    <3> QED BY <3>2, <3>3
  <2> QED BY <1>split, <2>1, <2>2
<1>9. Lists(all, ps \cup qs, slots)
  <2>1. place \in [DOMAIN all -> ps \cup qs]
    BY <1>1, <1>5
  <2>2. \A k, l \in DOMAIN all : k < l => Before(place[k], place[l])
    BY <1>1, <1>6
  <2>3. \A p \in ps \cup qs : \E k \in DOMAIN all : place[k] = p
    BY <1>1, <1>7
  <2>4. \A k \in DOMAIN all : all[k] = slots[place[k][1]][place[k][2]].event
    BY <1>1, <1>8
  <2> QED BY <2>1, <2>2, <2>3, <2>4 DEF Lists
<1> QED BY <1>9 DEF all

LEMMA ListsAppend ==
  ASSUME NEW Ev, NEW evs \in Seq(Ev), NEW ps, NEW q, NEW slots,
         Lists(evs, ps, slots),
         slots[q[1]][q[2]].event \in Ev,
         \A p \in ps : Before(p, q)
  PROVE  Lists(Append(evs, slots[q[1]][q[2]].event), ps \cup {q}, slots)
<1> DEFINE ev == slots[q[1]][q[2]].event
           place == [k \in {1} |-> q]
<1>1. <<ev>> \in Seq(Ev) /\ DOMAIN <<ev>> = {1} /\ <<ev>>[1] = ev
  OBVIOUS
<1>2. place \in [{1} -> {q}] /\ place[1] = q
  OBVIOUS
<1> HIDE DEF place
<1>3. Lists(<<ev>>, {q}, slots)
  BY <1>1, <1>2 DEF Lists
<1>4. Append(evs, ev) = evs \o <<ev>>
  OBVIOUS
<1>5. \A p \in ps, r \in {q} : Before(p, r)
  OBVIOUS
<1>6. Lists(evs \o <<ev>>, ps \cup {q}, slots)
  <2> HIDE DEF ev
  <2> QED BY <1>1, <1>3, <1>5, ListsConcat
<1> QED BY <1>4, <1>6

-----------------------------------------------------------------------------
(* The sets of places.                                                     *)
LEMMA KeptFrame ==
  ASSUME NEW i, NEW n, NEW slots, NEW others, others[i] = slots[i]
  PROVE  /\ KeptBefore(i, n, others) = KeptBefore(i, n, slots)
         /\ \A p \in KeptBefore(i, n, slots) : others[p[1]][p[2]] = slots[p[1]][p[2]]
BY DEF KeptBefore

LEMMA KeptNothing ==
  ASSUME NEW i, NEW slots, DOMAIN slots[i] \subseteq Nat \ {0}
  PROVE  KeptBefore(i, 1, slots) = {}
BY DEF KeptBefore

LEMMA KeptUpToNothing ==
  ASSUME NEW slots PROVE KeptUpTo(0, slots) = {}
<1>1. 1 .. 0 = {}
  OBVIOUS
<1> QED BY <1>1 DEF KeptUpTo

(* The indices of the results of a position.                               *)
LEMMA ResultsTyped ==
  ASSUME Typed, NEW i \in Positions
  PROVE  /\ metas[i] \in Seq(Entries)
         /\ Len(metas[i]) \in Nat
         /\ Results(i) = 1 .. Len(metas[i])
         /\ Results(i) \subseteq Nat \ {0}
         /\ DOMAIN slot[i] = Results(i)
         /\ IsFiniteSet(Holders(i))
<1>1. metas[i] \in Seq(Entries)
  BY DEF Typed
<1>2. Len(metas[i]) \in Nat /\ Results(i) = 1 .. Len(metas[i])
  BY <1>1 DEF Results
<1>3. IsFiniteSet(1 .. Len(metas[i]))
  BY <1>2, FS_Interval
<1>4. IsFiniteSet(Holders(i))
  BY <1>2, <1>3, FS_Subset DEF Holders
<1>5. Results(i) \subseteq Nat \ {0}
  BY <1>2
<1>6. DOMAIN slot[i] = Results(i)
  BY DEF Typed
<1> QED BY <1>1, <1>2, <1>4, <1>5, <1>6

LEMMA PositionsTyped ==
  ASSUME Typed
  PROVE  /\ request \in Seq(Refs) /\ Len(request) \in Nat
         /\ Positions = 1 .. Len(request)
<1>1. request \in Seq(Refs)
  BY RequestsAssumption DEF Typed
<1> QED BY <1>1 DEF Positions

-----------------------------------------------------------------------------
(* Steps that leave a position, or the caller, alone.                      *)
LEMMA PositionUnchanged ==
  ASSUME NEW i, Position(i),
         ref'[i] = ref[i], refErr'[i] = refErr[i], metas'[i] = metas[i],
         fetch'[i] = fetch[i], slot'[i] = slot[i], sem'[i] = sem[i],
         next'[i] = next[i], out'[i] = out[i]
  PROVE  Position(i)'
<1>1. Stage(i)'
  BY DEF Position, Stage, Joined, Results
<1>2. Throttled(i)'
  BY DEF Position, Throttled, Holders, Results, Holding
<1>3. Lists(out[i], KeptBefore(i, next[i], slot), slot)
  BY DEF Position, Collected
<1>4. Lists(out[i], KeptBefore(i, next[i], slot'), slot')
  BY <1>3, KeptFrame, ListsFrame
<1>5. Collected(i)'
  BY <1>4 DEF Collected
<1> QED BY <1>1, <1>2, <1>5 DEF Position

(* Slots may be written as long as the caller has merged nothing.          *)
LEMMA CallerUnchanged ==
  ASSUME Merged, request' = request, merged' = merged,
         allEvents' = allEvents, reply' = reply,
         merged = 0
  PROVE  Merged'
<1>1. ~(merged' > 0) /\ merged' <= Len(request')
  BY DEF Merged
<1>2. Lists(allEvents, {}, slot)
  BY KeptUpToNothing DEF Merged
<1>3. Lists(allEvents, {}, slot')
  BY <1>2, ListsFrame
<1>4. Lists(allEvents', KeptUpTo(merged', slot'), slot')
  BY <1>3, KeptUpToNothing
<1> QED BY <1>1, <1>4 DEF Merged

(* A fetch goroutine that is not done may fill its slot: nobody has read   *)
(* any slot of its position, and the caller waits for the position.        *)
LEMMA FetcherKeepsRest ==
  ASSUME IInv, NEW i \in Positions, NEW j \in Results(i), fetch[i][j] # "done",
         request' = request, ref' = ref, refErr' = refErr, metas' = metas,
         next' = next, out' = out, merged' = merged, allEvents' = allEvents,
         reply' = reply,
         \A q \in Positions \ {i} :
           slot'[q] = slot[q] /\ fetch'[q] = fetch[q] /\ sem'[q] = sem[q],
         DOMAIN slot'[i] = DOMAIN slot[i],
         Throttled(i)'
  PROVE  (\A q \in Positions : Position(q))' /\ Merged'
<1>1. ~Joined(i)
  BY DEF Joined
<1>2. /\ ref[i] # "done"
      /\ next[i] = 1
  BY <1>1 DEF IInv, Typed, Position, Stage
<1>3. merged = 0
  BY <1>2 DEF IInv, Typed, Merged
<1>4. Merged'
  BY <1>3, CallerUnchanged DEF IInv
<1>5. ASSUME NEW q \in Positions, q # i PROVE Position(q)'
  BY <1>5, PositionUnchanged DEF IInv
<1>6. Position(i)'
  <2>1. Stage(i)'
    BY <1>2 DEF IInv, Position, Stage
  <2>2. KeptBefore(i, 1, slot) = {} /\ KeptBefore(i, 1, slot') = {}
    BY ResultsTyped, KeptNothing DEF IInv
  <2>3. Lists(out[i], {}, slot)
    BY <1>2, <2>2 DEF IInv, Position, Collected
  <2>4. Lists(out[i], {}, slot')
    BY <2>3, ListsFrame
  <2>5. Collected(i)'
    BY <1>2, <2>2, <2>4 DEF Collected
  <2> QED BY <2>1, <2>5 DEF Position
<1>7. Positions' = Positions
  BY DEF Positions
<1> QED BY <1>4, <1>5, <1>6, <1>7

-----------------------------------------------------------------------------
(* The initial state.                                                      *)
LEMMA InitIsFine == Init => IInv
<1> SUFFICES ASSUME Init PROVE IInv
  OBVIOUS
<1>1. \A i \in Positions : Results(i) = {}
  BY DEF Init, Results
<1>2. Typed
  <2>1. /\ ref \in [Positions -> RefState]
        /\ refErr \in [Positions -> BOOLEAN]
        /\ metas \in [Positions -> Seq(Entries)]
        /\ sem \in [Positions -> Nat]
        /\ next \in [Positions -> Nat \ {0}]
        /\ out \in [Positions -> Seq(Events)]
    BY DEF Init, RefState
  <2>2. /\ DOMAIN fetch = Positions
        /\ \A i \in Positions : fetch[i] \in [Results(i) -> FetchState]
    BY <1>1 DEF Init
  <2>3. /\ DOMAIN slot = Positions
        /\ \A i \in Positions : slot[i] \in [Results(i) -> Slots]
    BY <1>1 DEF Init
  <2>4. count \in [rocksdb : Nat, entries : Nat, s3 : Nat]
    BY DEF Init
  <2>5. /\ request \in Requests
        /\ merged \in Nat
        /\ allEvents \in Seq(Events)
        /\ cancelled \in BOOLEAN
    <3>1. <<>> \in Seq(Events)
      OBVIOUS
    <3> QED BY <3>1 DEF Init
  <2> QED BY <2>1, <2>2, <2>3, <2>4, <2>5 DEF Typed
<1>3. ASSUME NEW i \in Positions PROVE Position(i)
  <2>1. Stage(i)
    BY DEF Init, Stage
  <2>2. Holders(i) = {}
    BY <1>1 DEF Holders
  <2>3. Throttled(i)
    BY <2>2, FS_EmptySet, ConcurrencyAssumption DEF Init, Throttled
  <2>4. KeptBefore(i, next[i], slot) = {}
    BY DEF Init, KeptBefore
  <2>5. Collected(i)
    BY <2>4, ListsNothing DEF Init, Collected
  <2> QED BY <2>1, <2>3, <2>5 DEF Position
<1>4. Merged
  <2>1. Lists(allEvents, KeptUpTo(merged, slot), slot)
    BY KeptUpToNothing, ListsNothing DEF Init
  <2> QED BY <1>2, <2>1, PositionsTyped DEF Init, Merged, NoReply
<1> QED BY <1>2, <1>3, <1>4 DEF IInv

-----------------------------------------------------------------------------
(* The steps of a goroutine of a position.                                 *)
LEMMA RangeQueryOKKeeps ==
  ASSUME IInv, NEW i \in Positions, RangeQueryOK(i)
  PROVE  IInv'
<1>1. PICK answer \in Answers[request[i]] :
        /\ metas' = [metas EXCEPT ![i] = answer]
        /\ fetch' = [fetch EXCEPT ![i] = [j \in DOMAIN answer |-> "started"]]
        /\ slot'  = [slot EXCEPT ![i] = [j \in DOMAIN answer |-> Zero]]
        /\ ref'   = [ref EXCEPT ![i] = IF answer = <<>> THEN "done" ELSE "fetching"]
        /\ count' = [count EXCEPT !.rocksdb = @ + 1, !.entries = @ + Len(answer)]
  BY DEF RangeQueryOK
<1>2. /\ request' = request /\ refErr' = refErr /\ sem' = sem /\ next' = next
      /\ out' = out /\ merged' = merged /\ allEvents' = allEvents
      /\ cancelled' = cancelled /\ reply' = reply
      /\ ref[i] = "querying"
  BY DEF RangeQueryOK
<1>3. answer \in Seq(Entries) /\ Len(answer) \in Nat /\ DOMAIN answer = 1 .. Len(answer)
  <2>1. request[i] \in Refs
    BY PositionsTyped DEF IInv
  <2>2. answer \in Seq(Entries)
    BY <2>1, AnswersAssumption
  <2> QED BY <2>2
<1>4. Positions' = Positions
  BY <1>2 DEF Positions
<1>5. /\ metas'[i] = answer /\ Results(i)' = DOMAIN answer
      /\ fetch'[i] = [j \in DOMAIN answer |-> "started"]
      /\ slot'[i]  = [j \in DOMAIN answer |-> Zero]
      /\ ref'[i]   = IF answer = <<>> THEN "done" ELSE "fetching"
      /\ \A q \in Positions \ {i} :
           /\ metas'[q] = metas[q] /\ fetch'[q] = fetch[q] /\ slot'[q] = slot[q]
           /\ ref'[q] = ref[q] /\ Results(q)' = Results(q)
  BY <1>1 DEF IInv, Typed, Results
<1>6. Typed'
  <2>1. /\ ref' \in [Positions -> RefState]
        /\ metas' \in [Positions -> Seq(Entries)]
    BY <1>1, <1>3 DEF IInv, Typed, RefState
  <2>2. DOMAIN fetch' = Positions /\ DOMAIN slot' = Positions
    BY <1>1 DEF IInv, Typed
  <2>3. ASSUME NEW q \in Positions
        PROVE  /\ fetch'[q] \in [Results(q)' -> FetchState]
               /\ slot'[q] \in [Results(q)' -> Slots]
    <3>1. CASE q = i
      <4>1. "started" \in FetchState /\ Zero \in Slots
        BY DEF FetchState, Slots
      <4> QED BY <1>5, <3>1, <4>1
    <3>2. CASE q # i
      BY <1>5, <3>2 DEF IInv, Typed
    <3> QED BY <3>1, <3>2
  <2>4. count' \in [rocksdb : Nat, entries : Nat, s3 : Nat]
    <3>1. count.rocksdb \in Nat /\ count.entries \in Nat /\ count.s3 \in Nat
      BY DEF IInv, Typed
    <3>2. count' = [rocksdb |-> count.rocksdb + 1,
                    entries |-> count.entries + Len(answer), s3 |-> count.s3]
      BY <1>1 DEF IInv, Typed
    <3> QED BY <1>3, <3>1, <3>2
  <2> QED BY <1>2, <1>4, <2>1, <2>2, <2>3, <2>4 DEF IInv, Typed
<1>7. merged = 0
  BY <1>2 DEF IInv, Typed, Merged
<1>8. Merged'
  BY <1>2, <1>7, CallerUnchanged DEF IInv
<1>9. Position(i)'
  <2>1. metas[i] = <<>> /\ next[i] = 1 /\ ~refErr[i]
    BY <1>2 DEF IInv, Typed, Position, Stage
  <2>2. Stage(i)'
    <3>1. answer = <<>> => Len(answer) = 0 /\ DOMAIN answer = {}
      OBVIOUS
    <3>2. answer # <<>> => 1 <= Len(answer)
      BY <1>3
    <3> QED BY <1>2, <1>5, <2>1, <3>1, <3>2 DEF Stage, Joined
  <2>3. Holders(i) = {} /\ Holders(i)' = {}
    <3>1. Results(i) = {}
      BY <2>1 DEF Results
    <3>2. \A j \in Results(i)' : ~Holding(i, j)'
      BY <1>5 DEF Holding
    <3> QED BY <3>1, <3>2 DEF Holders
  <2>4. Throttled(i)'
    BY <1>2, <2>3 DEF IInv, Position, Throttled
  <2>5. KeptBefore(i, 1, slot) = {} /\ KeptBefore(i, 1, slot') = {}
    <3>1. DOMAIN slot'[i] \subseteq Nat \ {0}
      BY <1>3, <1>5
    <3>2. DOMAIN slot[i] \subseteq Nat \ {0}
      BY ResultsTyped DEF IInv
    <3> QED BY <3>1, <3>2, KeptNothing
  <2>6. Lists(out[i], {}, slot')
    BY <2>1, <2>5, ListsFrame DEF IInv, Position, Collected
  <2>7. Collected(i)'
    BY <1>2, <2>1, <2>5, <2>6 DEF Collected
  <2> QED BY <2>2, <2>4, <2>7 DEF Position
<1>10. ASSUME NEW q \in Positions, q # i PROVE Position(q)'
  BY <1>2, <1>5, <1>10, PositionUnchanged DEF IInv
<1> QED BY <1>4, <1>6, <1>8, <1>9, <1>10 DEF IInv

LEMMA RangeQueryErrKeeps ==
  ASSUME IInv, NEW i \in Positions, RangeQueryErr(i)
  PROVE  IInv'
<1>1. /\ request' = request /\ metas' = metas /\ fetch' = fetch /\ slot' = slot
      /\ sem' = sem /\ next' = next /\ out' = out /\ merged' = merged
      /\ allEvents' = allEvents /\ cancelled' = cancelled /\ reply' = reply
      /\ refErr' = [refErr EXCEPT ![i] = TRUE]
      /\ ref' = [ref EXCEPT ![i] = "done"]
      /\ count' = [count EXCEPT !.rocksdb = @ + 1]
      /\ ref[i] = "querying"
  BY DEF RangeQueryErr
<1>2. Positions' = Positions /\ \A q \in Positions : Results(q)' = Results(q)
  BY <1>1 DEF Positions, Results
<1>3. Typed'
  <2>1. /\ ref' \in [Positions -> RefState]
        /\ refErr' \in [Positions -> BOOLEAN]
    BY <1>1 DEF IInv, Typed, RefState
  <2>2. count' \in [rocksdb : Nat, entries : Nat, s3 : Nat]
    <3>1. count.rocksdb \in Nat /\ count.entries \in Nat /\ count.s3 \in Nat
      BY DEF IInv, Typed
    <3>2. count' = [rocksdb |-> count.rocksdb + 1,
                    entries |-> count.entries, s3 |-> count.s3]
      BY <1>1 DEF IInv, Typed
    <3> QED BY <3>1, <3>2
  <2> QED BY <1>1, <2>1, <2>2 DEF IInv, Typed, Positions, Results
<1>4. merged = 0
  BY <1>1 DEF IInv, Typed, Merged
<1>5. Merged'
  BY <1>1, <1>4, CallerUnchanged DEF IInv
<1>6. /\ ref'[i] = "done" /\ refErr'[i] = TRUE
      /\ \A q \in Positions \ {i} : ref'[q] = ref[q] /\ refErr'[q] = refErr[q]
  BY <1>1 DEF IInv, Typed
<1>7. Position(i)'
  <2>1. metas[i] = <<>> /\ next[i] = 1 /\ Results(i) = {} /\ Len(metas[i]) = 0
    BY <1>1 DEF IInv, Position, Stage, Results
  <2>2. Stage(i)'
    BY <1>1, <1>2, <1>6, <2>1 DEF Stage, Joined
  <2>3. Throttled(i)'
    BY <1>1 DEF IInv, Position, Throttled, Holders, Results, Holding
  <2>4. Collected(i)'
    BY <1>1 DEF IInv, Position, Collected
  <2> QED BY <2>2, <2>3, <2>4 DEF Position
<1>8. ASSUME NEW q \in Positions, q # i PROVE Position(q)'
  BY <1>1, <1>6, <1>8, PositionUnchanged DEF IInv
<1> QED BY <1>2, <1>3, <1>5, <1>7, <1>8 DEF IInv

-----------------------------------------------------------------------------
(* The steps of a fetch goroutine.                                         *)
LEMMA FetcherKeepsTypes ==
  ASSUME Typed, NEW i \in Positions, NEW j \in Results(i), NEW y \in FetchState,
         request' = request, ref' = ref, refErr' = refErr, metas' = metas,
         next' = next, out' = out, merged' = merged, allEvents' = allEvents,
         cancelled' = cancelled,
         fetch' = [fetch EXCEPT ![i][j] = y],
         \/ slot' = slot
         \/ \E x \in Slots : slot' = [slot EXCEPT ![i][j] = x],
         sem' \in [Positions -> Nat],
         count' \in [rocksdb : Nat, entries : Nat, s3 : Nat]
  PROVE  /\ Typed'
         /\ DOMAIN slot'[i] = DOMAIN slot[i]
         /\ fetch'[i] = [fetch[i] EXCEPT ![j] = y]
         /\ \A q \in Positions \ {i} : slot'[q] = slot[q] /\ fetch'[q] = fetch[q]
<1>1. /\ fetch'[i] = [fetch[i] EXCEPT ![j] = y]
      /\ \A q \in Positions \ {i} : fetch'[q] = fetch[q]
      /\ DOMAIN fetch' = Positions
  BY DEF Typed
<1>2. /\ slot'[i] \in [Results(i) -> Slots]
      /\ \A q \in Positions \ {i} : slot'[q] = slot[q]
      /\ DOMAIN slot' = Positions
  <2>1. CASE slot' = slot
    BY <2>1 DEF Typed
  <2>2. CASE \E x \in Slots : slot' = [slot EXCEPT ![i][j] = x]
    BY <2>2 DEF Typed
  <2> QED BY <2>1, <2>2
<1>3. ASSUME NEW q \in Positions
      PROVE  fetch'[q] \in [Results(q) -> FetchState] /\ slot'[q] \in [Results(q) -> Slots]
  <2>1. CASE q = i
    BY <1>1, <1>2, <2>1 DEF Typed
  <2>2. CASE q # i
    BY <1>1, <1>2, <2>2 DEF Typed
  <2> QED BY <2>1, <2>2
<1>4. Typed'
  BY <1>1, <1>2, <1>3 DEF Typed, Positions, Results
<1>5. DOMAIN slot'[i] = DOMAIN slot[i]
  BY <1>2 DEF Typed
<1> QED BY <1>1, <1>2, <1>4, <1>5

LEMMA ResolveKeeps ==
  ASSUME IInv, NEW i \in Positions, NEW j \in Results(i), Resolve(i, j)
  PROVE  IInv'
<1>1. /\ request' = request /\ ref' = ref /\ refErr' = refErr /\ metas' = metas
      /\ sem' = sem /\ next' = next /\ out' = out /\ merged' = merged
      /\ allEvents' = allEvents /\ count' = count /\ cancelled' = cancelled
      /\ reply' = reply
      /\ fetch[i][j] = "started"
  BY DEF Resolve
<1>2. PICK y \in {"waiting", "done"} : fetch' = [fetch EXCEPT ![i][j] = y]
  BY DEF Resolve
<1>3. slot' = slot \/ \E x \in Slots : slot' = [slot EXCEPT ![i][j] = x]
  <2>1. slot[i][j] \in Slots /\ Failed \in Slots
    BY DEF IInv, Typed, Slots
  <2>2. \/ slot' = [slot EXCEPT ![i][j] = slot[i][j]]
        \/ slot' = [slot EXCEPT ![i][j] = Failed]
    BY DEF Resolve
  <2> QED BY <2>1, <2>2
<1>4. /\ Typed'
      /\ DOMAIN slot'[i] = DOMAIN slot[i]
      /\ fetch'[i] = [fetch[i] EXCEPT ![j] = y]
      /\ \A q \in Positions \ {i} : slot'[q] = slot[q] /\ fetch'[q] = fetch[q]
  <2>1. y \in FetchState
    BY DEF FetchState
  <2>2. sem' \in [Positions -> Nat] /\ count' \in [rocksdb : Nat, entries : Nat, s3 : Nat]
    BY <1>1 DEF IInv, Typed
  <2> QED BY <1>1, <1>2, <1>3, <2>1, <2>2, FetcherKeepsTypes DEF IInv
<1>5. Throttled(i)'
  <2>1. ASSUME NEW k \in Results(i) PROVE Holding(i, k)' <=> Holding(i, k)
    BY <1>1, <1>4 DEF IInv, Typed, Holding
  <2>2. Holders(i)' = Holders(i)
    BY <1>1, <2>1 DEF Holders, Results
  <2> QED BY <1>1, <2>2 DEF IInv, Position, Throttled
<1>6. (\A q \in Positions : Position(q))' /\ Merged'
  BY <1>1, <1>4, <1>5, FetcherKeepsRest
<1> QED BY <1>4, <1>6 DEF IInv

LEMMA AcquireKeeps ==
  ASSUME IInv, NEW i \in Positions, NEW j \in Results(i), Acquire(i, j)
  PROVE  IInv'
<1>1. /\ request' = request /\ ref' = ref /\ refErr' = refErr /\ metas' = metas
      /\ slot' = slot /\ next' = next /\ out' = out /\ merged' = merged
      /\ allEvents' = allEvents /\ count' = count /\ cancelled' = cancelled
      /\ reply' = reply
      /\ fetch[i][j] = "waiting"
      /\ sem[i] < S3Concurrency
      /\ sem' = [sem EXCEPT ![i] = sem[i] + 1]
  BY DEF Acquire
<1>2. PICK y \in {"calling", "doomed"} : fetch' = [fetch EXCEPT ![i][j] = y]
  BY DEF Acquire
<1>3. sem' \in [Positions -> Nat] /\ sem'[i] = sem[i] + 1 /\ sem[i] \in Nat
      /\ \A q \in Positions \ {i} : sem'[q] = sem[q]
  BY <1>1 DEF IInv, Typed
<1>4. /\ Typed'
      /\ DOMAIN slot'[i] = DOMAIN slot[i]
      /\ fetch'[i] = [fetch[i] EXCEPT ![j] = y]
      /\ \A q \in Positions \ {i} : slot'[q] = slot[q] /\ fetch'[q] = fetch[q]
  <2>1. y \in FetchState
    BY DEF FetchState
  <2>2. count' \in [rocksdb : Nat, entries : Nat, s3 : Nat]
    BY <1>1 DEF IInv, Typed
  <2> QED BY <1>1, <1>2, <1>3, <2>1, <2>2, FetcherKeepsTypes DEF IInv
<1>5. Throttled(i)'
  <2>1. ASSUME NEW k \in Results(i) PROVE Holding(i, k)' <=> Holding(i, k) \/ k = j
    BY <1>1, <1>4 DEF IInv, Typed, Holding
  <2>2. Holders(i)' = Holders(i) \cup {j}
    BY <1>1, <2>1 DEF Holders, Results
  <2>3. j \notin Holders(i)
    BY <1>1 DEF Holders, Holding
  <2>4. Cardinality(Holders(i)') = Cardinality(Holders(i)) + 1
    BY <2>2, <2>3, FS_AddElement, ResultsTyped DEF IInv
  <2>5. sem[i] = Cardinality(Holders(i))
    BY DEF IInv, Position, Throttled
  <2> QED BY <1>1, <1>3, <2>4, <2>5, ConcurrencyAssumption DEF Throttled
<1>6. (\A q \in Positions : Position(q))' /\ Merged'
  BY <1>1, <1>3, <1>4, <1>5, FetcherKeepsRest
<1> QED BY <1>4, <1>6 DEF IInv

(* On every way out of GetRange the token goes back.                       *)
LEMMA LeaveKeeps ==
  ASSUME IInv, NEW i \in Positions, NEW j \in Results(i), NEW result \in Slots,
         Holding(i, j), Leave(i, j, result)
  PROVE  IInv'
<1>1. /\ request' = request /\ ref' = ref /\ refErr' = refErr /\ metas' = metas
      /\ next' = next /\ out' = out /\ merged' = merged
      /\ allEvents' = allEvents /\ cancelled' = cancelled /\ reply' = reply
      /\ fetch[i][j] \in {"calling", "doomed"}
      /\ count' = [count EXCEPT !.s3 = count.s3 + 1]
      /\ slot' = [slot EXCEPT ![i][j] = result]
      /\ sem' = [sem EXCEPT ![i] = sem[i] - 1]
      /\ fetch' = [fetch EXCEPT ![i][j] = "done"]
  BY DEF Leave, Holding
<1>2. sem[i] = Cardinality(Holders(i)) /\ sem[i] <= S3Concurrency /\ sem[i] \in Nat
  BY DEF IInv, Typed, Position, Throttled
<1>3. j \in Holders(i) /\ IsFiniteSet(Holders(i))
  BY ResultsTyped DEF IInv, Holders
<1>4. Cardinality(Holders(i) \ {j}) = Cardinality(Holders(i)) - 1
      /\ Cardinality(Holders(i) \ {j}) \in Nat
  BY <1>3, FS_RemoveElement, FS_CardinalityType
<1>5. sem' \in [Positions -> Nat] /\ sem'[i] = sem[i] - 1
      /\ \A q \in Positions \ {i} : sem'[q] = sem[q]
  BY <1>1, <1>2, <1>4 DEF IInv, Typed
<1>6. count' \in [rocksdb : Nat, entries : Nat, s3 : Nat]
  <2>1. count.rocksdb \in Nat /\ count.entries \in Nat /\ count.s3 \in Nat
    BY DEF IInv, Typed
  <2>2. count' = [rocksdb |-> count.rocksdb,
                  entries |-> count.entries, s3 |-> count.s3 + 1]
    BY <1>1 DEF IInv, Typed
  <2> QED BY <2>1, <2>2
<1>7. /\ Typed'
      /\ DOMAIN slot'[i] = DOMAIN slot[i]
      /\ fetch'[i] = [fetch[i] EXCEPT ![j] = "done"]
      /\ \A q \in Positions \ {i} : slot'[q] = slot[q] /\ fetch'[q] = fetch[q]
  <2>1. "done" \in FetchState
    BY DEF FetchState
  <2> QED BY <1>1, <1>5, <1>6, <2>1, FetcherKeepsTypes DEF IInv
<1>8. Throttled(i)'
  <2>1. ASSUME NEW k \in Results(i) PROVE Holding(i, k)' <=> Holding(i, k) /\ k # j
    BY <1>1, <1>7 DEF IInv, Typed, Holding
  <2>2. Holders(i)' = Holders(i) \ {j}
    BY <1>1, <2>1 DEF Holders, Results
  <2> QED BY <1>2, <1>4, <1>5, <2>2, ConcurrencyAssumption DEF Throttled
<1>9. (\A q \in Positions : Position(q))' /\ Merged'
  BY <1>1, <1>5, <1>7, <1>8, FetcherKeepsRest
<1> QED BY <1>7, <1>9 DEF IInv

(* What the server sends back is an event of the store, or an error.       *)
LEMMA ReadSlotTyped ==
  ASSUME NEW e \in Entries, NEW r \in Refs, Readable(e)
  PROVE  ReadSlot(e, r) \in Slots
<1> DEFINE lines == Decoded(Store[Place(e)], RangeOf(e).first,
                            LastByteSent(Store[Place(e)], RangeOf(e)))
           line  == CHOOSE l \in lines : TRUE
<1>1. CASE lines = {}
  BY <1>1 DEF ReadSlot, Slots
<1>2. CASE lines # {}
  <2>1. line \in lines
    BY <1>2
  <2>2. line \in Lines
    BY <2>1 DEF Decoded, Readable, Lines
  <2>3. ReadSlot(e, r) = Found(ReaderEvent(line, r, e.timestamp))
    BY <1>2 DEF ReadSlot
  <2>4. ReaderEvent(line, r, e.timestamp) \in Events
    <3> HIDE DEF line
    <3> QED BY <2>2 DEF Events
  <2> QED BY <2>3, <2>4 DEF Slots
<1> QED BY <1>1, <1>2

LEMMA GetRangeKeeps ==
  ASSUME IInv, NEW i \in Positions, NEW j \in Results(i), GetRange(i, j)
  PROVE  IInv'
<1>1. Failed \in Slots
  BY DEF Slots
<1>2. CASE RefuseRange(i, j)
  BY <1>1, <1>2, LeaveKeeps DEF RefuseRange
<1>3. CASE GetObjectOK(i, j)
  <2>1. metas[i][j] \in Entries
    <3>1. metas[i] \in Seq(Entries) /\ j \in 1 .. Len(metas[i])
      BY ResultsTyped DEF IInv
    <3> QED BY <3>1
  <2>2. request[i] \in Refs
    BY PositionsTyped DEF IInv
  <2>3. ReadSlot(metas[i][j], request[i]) \in Slots
    BY <1>3, <2>1, <2>2, ReadSlotTyped DEF GetObjectOK
  <2>4. Holding(i, j)
    BY <1>3 DEF GetObjectOK, Holding
  <2> QED BY <1>3, <2>3, <2>4, LeaveKeeps DEF GetObjectOK
<1>4. CASE GetObjectErr(i, j)
  BY <1>1, <1>4, LeaveKeeps DEF GetObjectErr
<1> QED BY <1>2, <1>3, <1>4 DEF GetRange

-----------------------------------------------------------------------------
(* The collecting loop and the merging loop.                               *)
LEMMA KeptBeforeNext ==
  ASSUME NEW i, NEW slots, NEW n \in DOMAIN slots[i], DOMAIN slots[i] \subseteq Nat
  PROVE  KeptBefore(i, n + 1, slots) =
           KeptBefore(i, n, slots) \cup (IF Kept(slots[i][n]) THEN {<<i, n>>} ELSE {})
<1>1. \A k \in DOMAIN slots[i] : k < n + 1 <=> k < n \/ k = n
  OBVIOUS
<1>2. ASSUME NEW p \in {i} \X DOMAIN slots[i]
      PROVE  p[1] = i /\ p[2] \in DOMAIN slots[i] /\ p = <<i, p[2]>>
  OBVIOUS
<1> QED BY <1>1, <1>2 DEF KeptBefore

LEMMA KeptUpToNext ==
  ASSUME NEW m \in Nat, NEW slots, NEW n,
         \A k \in DOMAIN slots[m + 1] : k < n
  PROVE  KeptUpTo(m + 1, slots) = KeptUpTo(m, slots) \cup KeptBefore(m + 1, n, slots)
<1>1. 1 .. m + 1 = (1 .. m) \cup {m + 1}
  OBVIOUS
<1> QED BY <1>1 DEF KeptUpTo, KeptBefore

LEMMA CollectKeeps ==
  ASSUME IInv, NEW i \in Positions, Collect(i)
  PROVE  IInv'
<1> DEFINE n == next[i]
           o == IF Kept(slot[i][n]) THEN Append(out[i], slot[i][n].event) ELSE out[i]
<1>1. /\ request' = request /\ refErr' = refErr /\ metas' = metas
      /\ fetch' = fetch /\ slot' = slot /\ sem' = sem /\ merged' = merged
      /\ allEvents' = allEvents /\ count' = count /\ cancelled' = cancelled
      /\ reply' = reply
      /\ ref[i] = "fetching"
      /\ Joined(i)
      /\ out' = [out EXCEPT ![i] = o]
      /\ next' = [next EXCEPT ![i] = n + 1]
      /\ ref' = [ref EXCEPT ![i] = IF n = Len(metas[i]) THEN "done" ELSE "fetching"]
  BY DEF Collect
<1>2. Positions' = Positions /\ \A q \in Positions : Results(q)' = Results(q)
  BY <1>1 DEF Positions, Results
<1>3. n \in Nat /\ n >= 1 /\ n <= Len(metas[i]) /\ n \in DOMAIN slot[i]
      /\ DOMAIN slot[i] \subseteq Nat \ {0} /\ DOMAIN slot[i] = Results(i)
      /\ Len(metas[i]) \in Nat
  <2>1. n \in Nat /\ n >= 1 /\ n <= Len(metas[i])
    BY <1>1 DEF IInv, Typed, Position, Stage
  <2> QED BY <2>1, ResultsTyped DEF IInv
<1>4. slot[i][n] \in Slots
  BY <1>3 DEF IInv, Typed
<1>5. Kept(slot[i][n]) => slot[i][n].event \in Events
  <2>1. /\ Zero.state = "zero" /\ Failed.state = "failed"
        /\ \A ev \in Events : Found(ev).event = ev
    BY DEF Zero, Failed, Found
  <2>2. Kept(slot[i][n]) => \E ev \in Events : slot[i][n] = Found(ev)
    BY <1>4, <2>1 DEF Slots, Kept
  <2> QED BY <2>1, <2>2
<1>6. out[i] \in Seq(Events) /\ Collected(i)
  BY DEF IInv, Typed, Position
<1>7. o \in Seq(Events)
  BY <1>5, <1>6
<1> HIDE DEF o
<1>8. /\ out'[i] = o /\ next'[i] = n + 1
      /\ ref'[i] = IF n = Len(metas[i]) THEN "done" ELSE "fetching"
      /\ \A q \in Positions \ {i} : out'[q] = out[q] /\ next'[q] = next[q] /\ ref'[q] = ref[q]
  BY <1>1 DEF IInv, Typed
<1> HIDE DEF n
<1>9. Typed'
  <2>1. out' \in [Positions -> Seq(Events)]
    BY <1>1, <1>7 DEF IInv, Typed
  <2>2. next' \in [Positions -> Nat \ {0}]
    <3>1. n + 1 \in Nat \ {0}
      BY <1>3
    <3> QED BY <1>1, <3>1 DEF IInv, Typed
  <2>3. ref' \in [Positions -> RefState]
    BY <1>1 DEF IInv, Typed, RefState
  <2> QED BY <1>1, <2>1, <2>2, <2>3 DEF IInv, Typed, Positions, Results
<1>10. merged = 0
  BY <1>1 DEF IInv, Typed, Merged
<1>11. Merged'
  BY <1>1, <1>10, CallerUnchanged DEF IInv
<1>12. Collected(i)'
  <2>1. Lists(out[i], KeptBefore(i, n, slot), slot)
    BY <1>6 DEF Collected, n
  <2>2. KeptBefore(i, n + 1, slot) =
          KeptBefore(i, n, slot) \cup (IF Kept(slot[i][n]) THEN {<<i, n>>} ELSE {})
    BY <1>3, KeptBeforeNext
  <2>3. \A p \in KeptBefore(i, n, slot) : Before(p, <<i, n>>)
    BY DEF KeptBefore, Before
  <2>4. Lists(o, KeptBefore(i, n + 1, slot), slot)
    <3>1. CASE Kept(slot[i][n])
      <4> DEFINE q == <<i, n>>
      <4>1. q[1] = i /\ q[2] = n
        OBVIOUS
      <4>2. o = Append(out[i], slot[q[1]][q[2]].event)
        BY <3>1, <4>1 DEF o
      <4>3. slot[q[1]][q[2]].event \in Events
        BY <1>5, <3>1, <4>1
      <4>4. \A p \in KeptBefore(i, n, slot) : Before(p, q)
        BY <2>3
      <4>5. KeptBefore(i, n + 1, slot) = KeptBefore(i, n, slot) \cup {q}
        BY <2>2, <3>1
      <4> HIDE DEF q
      <4>6. Lists(Append(out[i], slot[q[1]][q[2]].event), KeptBefore(i, n, slot) \cup {q}, slot)
        <5> DEFINE ps == KeptBefore(i, n, slot)
                   evs == out[i]
        <5>1. evs \in Seq(Events) /\ Lists(evs, ps, slot)
          BY <1>6, <2>1
        <5> HIDE DEF ps, evs
        <5>2. \A p \in ps : Before(p, q)
          BY <4>4 DEF ps
        <5>3. Lists(Append(evs, slot[q[1]][q[2]].event), ps \cup {q}, slot)
          BY <5>1, <5>2, <4>3, ListsAppend
        <5> QED BY <5>3 DEF ps, evs
      <4> QED BY <4>2, <4>5, <4>6
    <3>2. CASE ~Kept(slot[i][n])
      <4>1. o = out[i]
        BY <3>2 DEF o
      <4>2. KeptBefore(i, n + 1, slot) = KeptBefore(i, n, slot)
        BY <2>2, <3>2
      <4> QED BY <2>1, <4>1, <4>2
    <3> QED BY <3>1, <3>2
  <2> QED BY <1>1, <1>8, <2>4 DEF Collected
<1>13. Position(i)'
  <2>1. Stage(i)'
    <3>1. Joined(i)'
      BY <1>1, <1>2 DEF Joined
    <3>2. ref[i] # "done" /\ ~refErr[i]
      BY <1>1 DEF IInv, Position, Stage
    <3> QED BY <1>1, <1>3, <1>8, <3>1, <3>2 DEF Stage
  <2>2. Throttled(i)'
    BY <1>1 DEF IInv, Position, Throttled, Holders, Results, Holding
  <2> QED BY <1>12, <2>1, <2>2 DEF Position
<1>14. ASSUME NEW q \in Positions, q # i PROVE Position(q)'
  BY <1>1, <1>8, <1>14, PositionUnchanged DEF IInv
<1> QED BY <1>2, <1>9, <1>11, <1>13, <1>14 DEF IInv

LEMMA MergeKeeps ==
  ASSUME IInv, Merge
  PROVE  IInv'
<1> DEFINE m == merged
           i == m + 1
           all == IF refErr[i] THEN allEvents ELSE allEvents \o out[i]
<1>1. /\ request' = request /\ ref' = ref /\ refErr' = refErr /\ metas' = metas
      /\ fetch' = fetch /\ slot' = slot /\ sem' = sem /\ next' = next
      /\ out' = out /\ count' = count /\ cancelled' = cancelled /\ reply' = reply
      /\ \A q \in Positions : ref[q] = "done"
      /\ merged < Len(request)
      /\ merged' = i
      /\ allEvents' = all
  BY DEF Merge
<1>2. Positions' = Positions /\ \A q \in Positions : Results(q)' = Results(q)
  BY <1>1 DEF Positions, Results
<1>3. m \in Nat /\ i \in Positions /\ i \in Nat /\ i <= Len(request)
  BY <1>1, PositionsTyped DEF IInv, Typed
<1>4. /\ allEvents \in Seq(Events) /\ out[i] \in Seq(Events)
      /\ Lists(allEvents, KeptUpTo(m, slot), slot)
      /\ Lists(out[i], KeptBefore(i, next[i], slot), slot)
  BY <1>3 DEF IInv, Typed, Merged, Position, Collected
<1>5. all \in Seq(Events)
  BY <1>4
<1>6. /\ next[i] = Len(metas[i]) + 1
      /\ refErr[i] => metas[i] = <<>>
      /\ DOMAIN slot[i] = 1 .. Len(metas[i])
      /\ Len(metas[i]) \in Nat
  BY <1>1, <1>3, ResultsTyped DEF IInv, Position, Stage
<1>7. KeptUpTo(i, slot) = KeptUpTo(m, slot) \cup KeptBefore(i, next[i], slot)
  <2>1. \A k \in DOMAIN slot[i] : k < next[i]
    BY <1>6
  <2> QED BY <1>3, <2>1, KeptUpToNext
<1>8. \A p \in KeptUpTo(m, slot), q \in KeptBefore(i, next[i], slot) : Before(p, q)
  <2>1. \A p \in KeptUpTo(m, slot) : p[1] \in 1 .. m
    BY DEF KeptUpTo
  <2>2. \A q \in KeptBefore(i, next[i], slot) : q[1] = i
    BY DEF KeptBefore
  <2>3. \A k \in 1 .. m : k < i
    BY <1>3
  <2> QED BY <2>1, <2>2, <2>3 DEF Before
<1> HIDE DEF i, m
<1>9. Lists(all, KeptUpTo(i, slot), slot)
  <2>1. CASE refErr[i]
    <3>1. DOMAIN slot[i] = {}
      BY <1>6, <2>1
    <3>2. KeptBefore(i, next[i], slot) = {}
      BY <3>1 DEF KeptBefore
    <3> QED BY <1>4, <1>7, <2>1, <3>2
  <2>2. CASE ~refErr[i]
    <3>1. Lists(allEvents \o out[i], KeptUpTo(i, slot), slot)
      BY <1>4, <1>7, <1>8, ListsConcat
    <3> QED BY <2>2, <3>1
  <2> QED BY <2>1, <2>2
<1> HIDE DEF all
<1>10. Typed'
  <2>1. allEvents' \in Seq(Events) /\ merged' \in Nat
    BY <1>1, <1>3, <1>5
  <2> QED BY <1>1, <2>1 DEF IInv, Typed, Positions, Results
<1>11. Merged'
  <2>1. reply.status # "ok"
    <3>1. reply.status = "ok" => merged = Len(request)
      BY DEF IInv, Merged
    <3>2. merged \in Nat /\ Len(request) \in Nat /\ merged < Len(request)
      BY <1>1, PositionsTyped DEF IInv, Typed
    <3> QED BY <3>1, <3>2
  <2> QED BY <1>1, <1>2, <1>3, <1>9, <2>1 DEF Merged
<1>12. ASSUME NEW q \in Positions PROVE Position(q)'
  BY <1>1, PositionUnchanged DEF IInv
<1> QED BY <1>2, <1>10, <1>11, <1>12 DEF IInv

-----------------------------------------------------------------------------
(* The steps that touch neither goroutines nor loops.                      *)
LEMMA QuietKeeps ==
  ASSUME IInv, RejectEmpty \/ Respond \/ ClientGone \/ UNCHANGED vars
  PROVE  IInv'
<1>1. /\ request' = request /\ ref' = ref /\ refErr' = refErr /\ metas' = metas
      /\ fetch' = fetch /\ slot' = slot /\ sem' = sem /\ next' = next
      /\ out' = out /\ merged' = merged /\ allEvents' = allEvents /\ count' = count
      /\ cancelled' \in BOOLEAN
  BY DEF RejectEmpty, Respond, ClientGone, vars, IInv, Typed
<1>2. Positions' = Positions /\ \A q \in Positions : Results(q)' = Results(q)
  BY <1>1 DEF Positions, Results
<1>3. Typed'
  BY <1>1 DEF IInv, Typed, Positions, Results
<1>4. reply'.status = "ok" => merged = Len(request) /\ reply'.events = allEvents
  <2>1. CASE RejectEmpty
    BY <2>1 DEF RejectEmpty
  <2>2. CASE Respond
    BY <2>2 DEF Respond
  <2>3. CASE ClientGone
    BY <2>3 DEF ClientGone, IInv, Merged
  <2>4. CASE UNCHANGED vars
    BY <2>4 DEF vars, IInv, Merged
  <2> QED BY <2>1, <2>2, <2>3, <2>4
<1>5. Merged'
  BY <1>1, <1>2, <1>4 DEF IInv, Merged
<1>6. ASSUME NEW q \in Positions PROVE Position(q)'
  BY <1>1, PositionUnchanged DEF IInv
<1> QED BY <1>2, <1>3, <1>5, <1>6 DEF IInv

(* Every step keeps the invariant.                                         *)
LEMMA StepKeeps == IInv /\ [Next]_vars => IInv'
<1> SUFFICES ASSUME IInv, [Next]_vars PROVE IInv'
  OBVIOUS
<1>1. CASE \E i \in Positions : RangeQueryOK(i)
  BY <1>1, RangeQueryOKKeeps
<1>2. CASE \E i \in Positions : RangeQueryErr(i)
  BY <1>2, RangeQueryErrKeeps
<1>3. CASE \E i \in Positions : \E j \in Results(i) : Resolve(i, j)
  BY <1>3, ResolveKeeps
<1>4. CASE \E i \in Positions : \E j \in Results(i) : Acquire(i, j)
  BY <1>4, AcquireKeeps
<1>5. CASE \E i \in Positions : \E j \in Results(i) : GetRange(i, j)
  BY <1>5, GetRangeKeeps
<1>6. CASE \E i \in Positions : Collect(i)
  BY <1>6, CollectKeeps
<1>7. CASE Merge
  BY <1>7, MergeKeeps
<1>8. CASE RejectEmpty \/ Respond \/ ClientGone \/ UNCHANGED vars
  BY <1>8, QuietKeeps
<1> QED
  BY <1>1, <1>2, <1>3, <1>4, <1>5, <1>6, <1>7, <1>8
  DEF Next, Worker, Fetcher, Caller, Finished

-----------------------------------------------------------------------------
(* The theorems.                                                           *)

(* The invariant of LookupMany: what each goroutine has done, what its     *)
(* loop has appended and what the caller has merged agree with the slots.  *)
THEOREM LookupInvariant == Spec => []IInv
<1>1. Init => IInv
  BY InitIsFine
<1>2. IInv /\ [Next]_vars => IInv'
  BY StepKeeps
<1> QED BY <1>1, <1>2, PTL DEF Spec

(* Every slot of every goroutine has a result of the shard to fill it, the *)
(* loops stay inside their slices, a semaphore inside its capacity.        *)
THEOREM TypeCorrect == Spec => []TypeOK
<1>1. IInv => TypeOK
  <2> SUFFICES ASSUME IInv PROVE TypeOK
    OBVIOUS
  <2>1. sem \in [Positions -> 0 .. S3Concurrency]
    <3>1. sem \in [Positions -> Nat] /\ \A i \in Positions : sem[i] <= S3Concurrency
      BY DEF IInv, Typed, Position, Throttled
    <3> QED BY <3>1, ConcurrencyAssumption
  <2>2. ASSUME NEW i \in Positions PROVE next[i] <= Len(metas[i]) + 1
    <3>1. Len(metas[i]) \in Nat /\ next[i] \in Nat
      BY ResultsTyped DEF IInv, Typed
    <3>2. ref[i] \in RefState
      BY DEF IInv, Typed
    <3> QED BY <3>1, <3>2 DEF IInv, Position, Stage, RefState
  <2>3. merged \in 0 .. Len(request)
    BY PositionsTyped DEF IInv, Typed, Merged
  <2> QED BY <2>1, <2>2, <2>3 DEF IInv, Typed, TypeOK
<1> QED BY <1>1, LookupInvariant, PTL

(* A response lists what the fetch goroutines found, in order, each event  *)
(* once and none missing, for any number of goroutines in any interleaving *)
(* (wg.Wait and fetchWg.Wait, service.go).                                 *)
THEOREM ReplyIsRight == Spec => []ReplyListsWhatWasFound
<1>1. IInv => ReplyListsWhatWasFound
  BY DEF IInv, Merged, ReplyListsWhatWasFound
<1> QED BY <1>1, LookupInvariant, PTL

(* A semaphore counts the calls of its goroutine that are in flight, and   *)
(* never more than its capacity are (sem, service.go).                     *)
THEOREM SemaphoreIsRight == Spec => []SemaphoreCountsCalls
<1>1. IInv => SemaphoreCountsCalls
  BY DEF IInv, Position, Throttled, Holders, SemaphoreCountsCalls
<1> QED BY <1>1, LookupInvariant, PTL

(* A fetch goroutine writes a slot that nobody has read.                   *)
LEMMA FetchWritesUnread ==
  ASSUME IInv, NEW i \in Positions, NEW j \in Results(i), Fetcher(i, j)
  PROVE  /\ next[i] = 1 /\ ref[i] # "done"
         /\ out' = out /\ refErr' = refErr
         /\ \A q \in Positions \ {i} : slot'[q] = slot[q]
<1>1. /\ fetch[i][j] # "done" /\ out' = out /\ refErr' = refErr
      /\ \A q \in Positions \ {i} : slot'[q] = slot[q]
  <2>1. CASE Resolve(i, j)
    BY <2>1 DEF Resolve, IInv, Typed
  <2>2. CASE Acquire(i, j)
    BY <2>2 DEF Acquire
  <2>3. CASE GetRange(i, j)
    BY <2>3 DEF GetRange, RefuseRange, GetObjectOK, GetObjectErr, Leave, Holding,
                IInv, Typed
  <2> QED BY <2>1, <2>2, <2>3 DEF Fetcher
<1>2. ~Joined(i)
  BY <1>1 DEF Joined
<1>3. next[i] = 1 /\ ref[i] # "done"
  BY <1>2 DEF IInv, Typed, Position, Stage
<1> QED BY <1>1, <1>3

(* What a loop has read is never written again: no straggler races with    *)
(* the collecting or the merging loop.                                     *)
THEOREM NothingReadIsWritten == Spec => StableOnceRead
<1> DEFINE Stable ==
      \A i \in Positions :
        /\ \A j \in Results(i) : j < next[i] => slot'[i][j] = slot[i][j]
        /\ ref[i] = "done" => /\ out'[i] = out[i]
                              /\ refErr'[i] = refErr[i]
                              /\ slot'[i] = slot[i]
<1>1. IInv /\ [Next]_vars => [Stable]_vars
  <2> SUFFICES ASSUME IInv, Next PROVE Stable
    BY DEF vars
  <2>1. CASE \E h \in Positions : RangeQueryOK(h) \/ RangeQueryErr(h)
    <3>1. PICK h \in Positions : RangeQueryOK(h) \/ RangeQueryErr(h)
      BY <2>1
    <3>2. ref[h] = "querying" /\ Results(h) = {} /\ out' = out
      <4>1. ref[h] = "querying" /\ out' = out
        BY <3>1 DEF RangeQueryOK, RangeQueryErr
      <4>2. metas[h] = <<>>
        BY <4>1 DEF IInv, Position, Stage
      <4> QED BY <4>1, <4>2 DEF Results
    <3>3. \A q \in Positions \ {h} : slot'[q] = slot[q] /\ refErr'[q] = refErr[q]
      BY <3>1 DEF RangeQueryOK, RangeQueryErr, IInv, Typed
    <3> QED BY <3>2, <3>3
  <2>2. CASE \E h \in Positions : \E k \in Results(h) : Fetcher(h, k)
    <3>1. PICK h \in Positions : \E k \in Results(h) : Fetcher(h, k)
      BY <2>2
    <3>2. PICK k \in Results(h) : Fetcher(h, k)
      BY <3>1
    <3>3. \A j \in Results(h) : ~(j < 1)
      BY ResultsTyped DEF IInv
    <3> QED BY <3>2, <3>3, FetchWritesUnread
  <2>3. CASE \E h \in Positions : Collect(h)
    <3>1. PICK h \in Positions : Collect(h)
      BY <2>3
    <3>2. /\ ref[h] = "fetching" /\ slot' = slot /\ refErr' = refErr
          /\ \A q \in Positions \ {h} : out'[q] = out[q]
      BY <3>1 DEF Collect, IInv, Typed
    <3> QED BY <3>2
  <2>4. CASE Caller \/ ClientGone \/ Finished
    BY <2>4 DEF Caller, RejectEmpty, Merge, Respond, ClientGone, Finished, vars
  <2> QED BY <2>1, <2>2, <2>3, <2>4 DEF Next, Worker
<1> QED BY <1>1, LookupInvariant, PTL DEF Spec, StableOnceRead

-----------------------------------------------------------------------------
(* What the bytes of a line are parsed to.                                 *)

(* The range of a JSON line, with or without its newline, reads back that  *)
(* line and no other.                                                      *)
LEMMA LineReadsBack ==
  ASSUME NEW segment, IsSegment(segment), NEW line \in segment, line.json,
         NEW end \in {line.to - 1, line.to}
  PROVE  /\ ~RefusedRange(line.from, end)
         /\ Satisfiable(segment, RangeHeader(line.from, end))
         /\ Decoded(segment, line.from, LastByteSent(segment, RangeHeader(line.from, end)))
              = {line}
<1> DEFINE range == RangeHeader(line.from, end)
           size == Size(segment)
<1>1. /\ line.from \in Nat /\ line.to \in Nat /\ end \in Int
      /\ line.from + 2 < line.to
  BY DEF IsSegment
<1>2. size \in Nat /\ line.to <= size
  BY SizeHoldsLines
<1>3. range.first = line.from /\ range.last = end - 1
  BY DEF RangeHeader
<1> HIDE DEF range, size
<1>4. ~RefusedRange(line.from, end)
  BY <1>1 DEF RefusedRange
<1>5. Satisfiable(segment, range)
  BY <1>1, <1>2, <1>3 DEF Satisfiable, size
<1>6. LastByteSent(segment, range) = end - 1
  <2>1. (end - 1) + 1 = end /\ ~(end > size)
    BY <1>1, <1>2
  <2>. QED
    BY <1>3, <2>1 DEF LastByteSent, Clip, size
<1>7. Spells(line, line.from, end - 1)
  BY <1>1 DEF Spells
<1>8. ASSUME NEW l \in segment, Spells(l, line.from, end - 1)
      PROVE  l = line
  <2>1. l.from \in Nat /\ l.to \in Nat /\ (l = line \/ l.to <= line.from \/ line.to <= l.from)
    BY DEF IsSegment
  <2>2. line.from \in {l.from - 1, l.from} /\ end - 1 \in {l.to - 2, l.to - 1}
    BY <1>8 DEF Spells
  <2>3. ~(l.to <= line.from) /\ ~(line.to <= l.from)
    BY <1>1, <2>1, <2>2
  <2>. QED
    BY <2>1, <2>3
<1>9. Decoded(segment, line.from, end - 1) = {line}
  BY <1>7, <1>8 DEF Decoded
<1>. QED
  BY <1>4, <1>5, <1>6, <1>9 DEF range

-----------------------------------------------------------------------------
(* What the pointer of an indexed line resolves to.                        *)

LEMMA SlashesInFront ==
  ASSUME NEW slashes \in {<<>>, <<Slash>>}
  PROVE  \E n \in Nat : slashes = InFront(n)
<1>1. <<>> = InFront(0)
  BY DEF InFront
<1>2. <<Slash>> = InFront(1)
  BY DEF InFront
<1>. QED
  BY <1>1, <1>2

(* The paths of Indexes are the forms the parser is proved about.          *)
FormsAfter(slashes, n, bucket, key, start, end) ==
  /\ slashes \o bucket \o <<Pipe>> \o key \o <<Pipe, Number(start), Pipe, Number(end)>>
       = InFront(n) \o RawForm(bucket, key, start, end)
  /\ slashes \o bucket \o <<Pipe>> \o key = InFront(n) \o NodeForm(bucket, key)

LEMMA IndexedPath ==
  ASSUME NEW slashes \in {<<>>, <<Slash>>}, NEW bucket, IsBucketName(bucket),
         NEW key, Lexed(key), NEW start, NEW end
  PROVE  \E n \in Nat : FormsAfter(slashes, n, bucket, key, start, end)
<1> DEFINE tail == <<Pipe, Number(start), Pipe, Number(end)>>
           pipe == <<Pipe>>
           T == Range(bucket) \cup Range(key) \cup {Slash, Pipe, Number(start), Number(end)}
<1>1. bucket \in Seq(T) /\ key \in Seq(T)
  BY SeqMonotonic DEF IsBucketName, Lexed
<1>2. Slash \in T /\ Pipe \in T /\ Number(start) \in T /\ Number(end) \in T
  OBVIOUS
<1> HIDE DEF T
<1>3. slashes \in Seq(T) /\ pipe \in Seq(T) /\ tail \in Seq(T)
  <2>1. <<>> \in Seq(T) /\ <<Slash>> \in Seq(T) /\ <<Pipe>> \in Seq(T)
    BY <1>2
  <2>2. tail \in Seq(T)
    BY <1>2
  <2>. QED
    BY <2>1, <2>2
<1>4. PICK n \in Nat : slashes = InFront(n)
  BY SlashesInFront
<1> HIDE DEF pipe, tail
<1>5. /\ slashes \o bucket \o pipe \o key = slashes \o (bucket \o pipe \o key)
      /\ slashes \o bucket \o pipe \o key \o tail
           = slashes \o (bucket \o pipe \o key \o tail)
  <2> DEFINE bp  == Cat(bucket, pipe)
             bpk == Cat(bp, key)
  <2>1. Cat(Cat(slashes, bucket), pipe) = Cat(slashes, bp) /\ bp \in Seq(T)
    BY <1>1, <1>3, CatAssociative
  <2> HIDE DEF bp
  <2>2. Cat(Cat(slashes, bp), key) = Cat(slashes, bpk) /\ bpk \in Seq(T)
    BY <1>1, <1>3, <2>1, CatAssociative
  <2> HIDE DEF bpk
  <2>3. Cat(Cat(slashes, bpk), tail) = Cat(slashes, Cat(bpk, tail))
    BY <1>3, <2>2, CatAssociative
  <2>. QED
    BY <2>1, <2>2, <2>3 DEF Cat, bp, bpk
<1>. QED
  BY <1>4, <1>5 DEF FormsAfter, RawForm, NodeForm, pipe, tail

LEMMA IndexedResolves ==
  ASSUME NEW e \in Entries, NEW place \in DOMAIN Store, NEW line \in Store[place],
         line.json, Indexes(e, place[2], line)
  PROVE  \E end \in {line.to - 1, line.to} :
           PointerOf[e] = Located(Bucket, place[2], line.from, end)
<1> DEFINE key == place[2]
<1>1. /\ IsBucketName(Bucket) /\ Lexed(key) /\ ~Has(key, "pipe")
      /\ line.from \in Nat /\ line.to \in Nat /\ line.from + 2 < line.to
  BY StoreAssumption DEF IsSegment
<1>2. PICK end \in {line.to - 1, line.to}, slashes \in {<<>>, <<Slash>>} :
        \/ e.s3_path = slashes \o Bucket \o <<Pipe>> \o key
                         \o <<Pipe, Number(line.from), Pipe, Number(end)>>
        \/ /\ e.s3_path = slashes \o Bucket \o <<Pipe>> \o key
           /\ e.start_byte = line.from
           /\ e.end_byte = end
  BY DEF Indexes
<1>3. PointerOf[e] = ParsePointer(e.s3_path, e.start_byte, e.end_byte)
  BY DEF PointerOf
<1> HIDE DEF key
<1>4. PICK n \in Nat : FormsAfter(slashes, n, Bucket, key, line.from, end)
  BY <1>1, IndexedPath
<1>5. \A s, t : ParsePointer(InFront(n) \o RawForm(Bucket, key, line.from, end), s, t)
                  = Located(Bucket, key, line.from, end)
  BY <1>1, RawFormResolves
<1>6. ParsePointer(InFront(n) \o NodeForm(Bucket, key), line.from, end)
        = Located(Bucket, key, line.from, end)
  <2>1. Len(SplitN(NodeForm(Bucket, key), "pipe", 4)) # 4
    BY <1>1, NodeFormIsNoRawValue
  <2>2. line.from \in Int /\ end \in Int /\ line.from < end
    BY <1>1
  <2>. QED
    BY <1>1, <2>1, <2>2, NodeFormResolves
<1>7. PointerOf[e] = Located(Bucket, key, line.from, end)
  BY <1>2, <1>3, <1>4, <1>5, <1>6 DEF FormsAfter
<1>. QED
  BY <1>7 DEF key

(* An indexed line is read back from the store, as an event to keep.       *)
LEMMA IndexedLineIsRead ==
  ASSUME NEW e \in Entries, NEW place \in DOMAIN Store, NEW line \in Store[place],
         line.json, place[1] = Bucket, Indexes(e, place[2], line), NEW r
  PROVE  /\ PointerOf[e].ok /\ ~Refused(e)
         /\ ReadSlot(e, r) = Found(ReaderEvent(line, r, e.timestamp))
<1>1. PICK end \in {line.to - 1, line.to} :
        PointerOf[e] = Located(Bucket, place[2], line.from, end)
  BY IndexedResolves
<1>2. /\ PointerOf[e].ok /\ PointerOf[e].key = place[2]
      /\ PointerOf[e].start = line.from /\ PointerOf[e].end = end
  BY <1>1 DEF Located
<1>3. place = <<place[1], place[2]>> /\ IsSegment(Store[place])
  BY StoreAssumption
<1>4. Place(e) = place
  BY <1>2, <1>3 DEF Place
<1>5. RangeOf(e) = RangeHeader(line.from, end) /\ RangeOf(e).first = line.from
  BY <1>2 DEF RangeOf, RangeHeader
<1>6. /\ ~RefusedRange(line.from, end)
      /\ Decoded(Store[place], line.from, LastByteSent(Store[place], RangeHeader(line.from, end)))
           = {line}
  BY <1>3, LineReadsBack
<1>7. ~Refused(e)
  BY <1>2, <1>6 DEF Refused
<1>8. ReadSlot(e, r) = Found(ReaderEvent(line, r, e.timestamp))
  <2>1. Decoded(Store[Place(e)], RangeOf(e).first, LastByteSent(Store[Place(e)], RangeOf(e)))
          = {line}
    BY <1>4, <1>5, <1>6
  <2>2. (CHOOSE l \in {line} : TRUE) = line /\ {line} # {}
    OBVIOUS
  <2>. QED
    BY <2>1, <2>2 DEF ReadSlot
<1>. QED
  BY <1>2, <1>7, <1>8

-----------------------------------------------------------------------------
(* The invariant.                                                          *)

(* What a fetch goroutine that is done has left in its slot: an error if   *)
(* the pointer does not resolve, the range is refused or the call to S3    *)
(* failed, and what the bytes parse to otherwise.                          *)
FilledBy(e, r, fault, s) ==
  \/ s = Failed /\ (~PointerOf[e].ok \/ Refused(e) \/ fault)
  \/ PointerOf[e].ok /\ ~Refused(e) /\ Readable(e) /\ s = ReadSlot(e, r)

Filled(i) ==
  \A j \in Results(i) :
    /\ fetch[i][j] \in {"waiting", "calling", "doomed"} => PointerOf[metas[i][j]].ok
    /\ fetch[i][j] = "done" =>
         FilledBy(metas[i][j], request[i], <<i, j>> \in faults, slot[i][j])

(* The results of a position are an answer of its shard, if it gave one.   *)
Answered(i) ==
  ref[i] # "querying" => refErr[i] \/ metas[i] \in Answers[request[i]]

(* What the counters count: the goroutines whose RangeQuery has returned,  *)
(* the results, and the fetches that have left GetRange.                   *)
Returned == {i \in Positions : ref[i] # "querying"}
Resolves(p) == PointerOf[metas[p[1]][p[2]]].ok
Left == {p \in AllResults : Resolves(p) /\ fetch[p[1]][p[2]] = "done"}

Counted ==
  /\ IsFiniteSet(AllResults)
  /\ count.rocksdb = Cardinality(Returned)
  /\ count.entries = Cardinality(AllResults)
  /\ count.s3 = Cardinality(Left)

(* The response, built from the state that no step changes any more.       *)
Response ==
  [status  |-> "ok", events |-> allEvents, total |-> Len(allEvents),
   metrics |-> [rocksdb |-> count.rocksdb, entries |-> count.entries,
                s3 |-> count.s3, parsed |-> Len(allEvents)]]

Replied ==
  \/ reply = NoReply
  \/ request = <<>> /\ reply = [status |-> "error"]
  \/ request # <<>> /\ merged = Len(request) /\ reply = Response

(* What the caller has merged lists what the positions up to there have    *)
(* collected.                                                              *)
Parts(m) == UNION {{h} \X DOMAIN out[h] : h \in 1 .. m}
Outs     == [i \in Positions |-> [k \in DOMAIN out[i] |-> Found(out[i][k])]]

Concatenated == Lists(allEvents, Parts(merged), Outs)

(* The invariant, relative to the one of LookupProofs.                     *)
RInv == (\A i \in Positions : Filled(i) /\ Answered(i)) /\ Counted /\ Replied /\ Concatenated

-----------------------------------------------------------------------------
LEMMA AllResultsAre ==
  \A p : p \in AllResults <=> \E i \in Positions : \E j \in Results(i) : p = <<i, j>>
BY DEF AllResults

(* There is no reply yet while a goroutine runs or an event waits to be    *)
(* merged.                                                                 *)
LEMMA NoReplyYet ==
  ASSUME IInv, Replied,
         (\E i \in Positions : ref[i] # "done") \/ merged < Len(request)
  PROVE  reply = NoReply
<1>1. Len(request) \in Nat /\ Positions = 1 .. Len(request) /\ merged \in Nat
  BY PositionsTyped DEF IInv, Typed
<1>2. CASE \E i \in Positions : ref[i] # "done"
  <2>1. merged = 0
    BY <1>1, <1>2 DEF IInv, Merged
  <2>2. Len(request) # 0 /\ request # <<>>
    BY <1>1, <1>2
  <2>. QED
    BY <2>1, <2>2 DEF Replied
<1>3. CASE merged < Len(request)
  <2>1. request # <<>> /\ merged # Len(request)
    BY <1>1, <1>3
  <2>. QED
    BY <2>1 DEF Replied
<1>. QED
  BY <1>2, <1>3

LEMMA NothingMerged ==
  ASSUME IInv, NEW i \in Positions, ref[i] # "done"
  PROVE  merged = 0
BY PositionsTyped DEF IInv, Typed, Merged

(* Parts that are not used may change.                                     *)
LEMMA PositionKept ==
  ASSUME NEW i, Filled(i), Answered(i), request' = request,
         ref'[i] = ref[i], refErr'[i] = refErr[i], metas'[i] = metas[i],
         fetch'[i] = fetch[i], slot'[i] = slot[i], faults \subseteq faults'
  PROVE  Filled(i)' /\ Answered(i)'
<1>1. Answered(i)'
  BY DEF Answered
<1>2. ASSUME NEW j \in Results(i)'
      PROVE  /\ fetch'[i][j] \in {"waiting", "calling", "doomed"} => PointerOf[metas'[i][j]].ok
             /\ fetch'[i][j] = "done" =>
                  FilledBy(metas'[i][j], request'[i], <<i, j>> \in faults', slot'[i][j])
  <2>1. j \in Results(i)
    BY DEF Results
  <2>2. /\ fetch[i][j] \in {"waiting", "calling", "doomed"} => PointerOf[metas[i][j]].ok
        /\ fetch[i][j] = "done" =>
             FilledBy(metas[i][j], request[i], <<i, j>> \in faults, slot[i][j])
    BY <2>1 DEF Filled
  <2>3. <<i, j>> \in faults => <<i, j>> \in faults'
    OBVIOUS
  <2>. QED
    BY <2>2, <2>3 DEF FilledBy
<1>3. Filled(i)'
  BY <1>2 DEF Filled
<1>. QED
  BY <1>1, <1>3

LEMMA ConcatenatedNothing ==
  ASSUME Concatenated, merged = 0, merged' = merged, allEvents' = allEvents
  PROVE  Concatenated'
<1>1. Parts(0) = {} /\ Parts(0)' = {}
  <2>1. 1 .. 0 = {}
    OBVIOUS
  <2>. QED
    BY <2>1 DEF Parts
<1>2. Lists(allEvents, {}, Outs)
  BY <1>1 DEF Concatenated
<1>3. Lists(allEvents, {}, Outs')
  BY <1>2, ListsFrame
<1>. QED
  BY <1>1, <1>3 DEF Concatenated

-----------------------------------------------------------------------------
LEMMA InitIsRight == Init => RInv
<1> SUFFICES ASSUME Init PROVE RInv
  OBVIOUS
<1>1. IInv
  BY InitIsFine
<1>2. \A i \in Positions : Results(i) = {}
  BY DEF Init, Results
<1>3. \A i \in Positions : Filled(i) /\ Answered(i)
  BY <1>2 DEF Init, Filled, Answered
<1>4. Counted
  <2>1. AllResults = {} /\ Returned = {} /\ Left = {}
    BY <1>2 DEF Init, AllResults, Returned, Left
  <2>. QED
    BY <2>1, FS_EmptySet DEF Init, Counted
<1>5. Replied
  BY DEF Init, Replied
<1>6. Concatenated
  <2>1. Parts(0) = {}
    <3>1. 1 .. 0 = {}
      OBVIOUS
    <3>. QED
      BY <3>1 DEF Parts
  <2>. QED
    BY <2>1, ListsNothing DEF Init, Concatenated
<1>. QED
  BY <1>3, <1>4, <1>5, <1>6 DEF RInv

-----------------------------------------------------------------------------
(* A RangeQuery returns.                                                   *)
LEMMA OneMoreReturned ==
  ASSUME IInv, RInv, NEW i \in Positions, ref[i] = "querying",
         NEW x, x # "querying", ref' = [ref EXCEPT ![i] = x], request' = request
  PROVE  Cardinality(Returned') = Cardinality(Returned) + 1
<1>1. Positions' = Positions /\ IsFiniteSet(Positions)
  <2>1. Len(request) \in Nat /\ Positions = 1 .. Len(request)
    BY PositionsTyped DEF IInv
  <2>. QED
    BY <2>1, FS_Interval DEF Positions
<1>2. IsFiniteSet(Returned)
  BY <1>1, FS_Subset DEF Returned
<1>3. i \notin Returned
  BY DEF Returned
<1>4. Returned' = Returned \cup {i}
  <2>1. \A q \in Positions : ref'[q] = IF q = i THEN x ELSE ref[q]
    BY DEF IInv, Typed
  <2>. QED
    BY <1>1, <2>1 DEF Returned
<1>. QED
  BY <1>2, <1>3, <1>4, FS_AddElement

LEMMA RowOf ==
  ASSUME NEW i, NEW n \in Nat
  PROVE  IsFiniteSet({i} \X (1 .. n)) /\ Cardinality({i} \X (1 .. n)) = n
<1> DEFINE S == {i}
           T == 1 .. n
<1>1. IsFiniteSet(S) /\ Cardinality(S) = 1
  BY FS_Singleton
<1>2. IsFiniteSet(T) /\ Cardinality(T) = n
  BY FS_Interval
<1> HIDE DEF S, T
<1>3. IsFiniteSet(S \X T) /\ Cardinality(S \X T) = Cardinality(S) * Cardinality(T)
  BY <1>1, <1>2, FS_Product
<1>4. 1 * n = n
  OBVIOUS
<1>. QED
  BY <1>1, <1>2, <1>3, <1>4 DEF S, T

LEMMA RangeQueryOKRight ==
  ASSUME IInv, RInv, NEW i \in Positions, RangeQueryOK(i)
  PROVE  RInv'
<1>1. PICK answer \in Answers[request[i]] :
        /\ metas' = [metas EXCEPT ![i] = answer]
        /\ fetch' = [fetch EXCEPT ![i] = [j \in DOMAIN answer |-> "started"]]
        /\ slot'  = [slot EXCEPT ![i] = [j \in DOMAIN answer |-> Zero]]
        /\ ref'   = [ref EXCEPT ![i] = IF answer = <<>> THEN "done" ELSE "fetching"]
        /\ count' = [count EXCEPT !.rocksdb = @ + 1, !.entries = @ + Len(answer)]
  BY DEF RangeQueryOK
<1>2. /\ request' = request /\ refErr' = refErr /\ out' = out /\ merged' = merged
      /\ allEvents' = allEvents /\ faults' = faults /\ reply' = reply
      /\ ref[i] = "querying"
  BY DEF RangeQueryOK
<1>3. Positions' = Positions
  BY <1>2 DEF Positions
<1>4. /\ metas'[i] = answer /\ Results(i)' = DOMAIN answer
      /\ fetch'[i] = [j \in DOMAIN answer |-> "started"]
      /\ \A q \in Positions \ {i} :
           /\ metas'[q] = metas[q] /\ fetch'[q] = fetch[q] /\ slot'[q] = slot[q]
           /\ ref'[q] = ref[q] /\ Results(q)' = Results(q)
  BY <1>1 DEF IInv, Typed, Results
<1>5. Results(i) = {}
  <2>1. metas[i] = <<>>
    BY <1>2 DEF IInv, Position, Stage
  <2>. QED
    BY <2>1 DEF Results
<1>6. Len(answer) \in Nat /\ DOMAIN answer = 1 .. Len(answer)
  <2>1. request[i] \in Refs
    BY PositionsTyped DEF IInv
  <2>2. answer \in Seq(Entries)
    BY <2>1, AnswersAssumption
  <2>. QED
    BY <2>2
<1>7. Filled(i)' /\ Answered(i)'
  BY <1>2, <1>4 DEF Filled, Answered
<1>8. ASSUME NEW q \in Positions, q # i PROVE Filled(q)' /\ Answered(q)'
  BY <1>2, <1>4, <1>8, PositionKept DEF RInv
<1>9. Counted'
  <2> DEFINE new == {i} \X (1 .. Len(answer))
  <2>1. /\ IsFiniteSet(AllResults)
        /\ count.rocksdb = Cardinality(Returned)
        /\ count.entries = Cardinality(AllResults)
        /\ count.s3 = Cardinality(Left)
    BY DEF RInv, Counted
  <2>2. AllResults' = AllResults \cup new
    <3>1. ASSUME NEW p
          PROVE  p \in AllResults' <=> p \in AllResults \/ p \in new
      <4>1. p \in AllResults' <=> \E q \in Positions : \E j \in Results(q)' : p = <<q, j>>
        BY <1>3 DEF AllResults
      <4>2. p \in AllResults <=> \E q \in Positions \ {i} : \E j \in Results(q) : p = <<q, j>>
        BY <1>5, AllResultsAre
      <4>3. p \in new <=> \E j \in Results(i)' : p = <<i, j>>
        BY <1>4, <1>6
      <4>. QED
        BY <1>4, <4>1, <4>2, <4>3
    <3>. QED
      BY <3>1
  <2>3. AllResults \cap new = {}
    BY <1>5, AllResultsAre
  <2>4. IsFiniteSet(new) /\ Cardinality(new) = Len(answer)
    BY <1>6, RowOf
  <2>5. IsFiniteSet(AllResults') /\ Cardinality(AllResults') = Cardinality(AllResults) + Len(answer)
    <3> HIDE DEF new
    <3>1. Cardinality(AllResults) \in Nat /\ Cardinality(AllResults \cap new) = 0
      BY <2>1, <2>3, FS_CardinalityType, FS_EmptySet
    <3>2. /\ IsFiniteSet(AllResults \cup new)
          /\ Cardinality(AllResults \cup new)
               = Cardinality(AllResults) + Cardinality(new) - Cardinality(AllResults \cap new)
      BY <2>1, <2>4, FS_Union
    <3>. QED
      BY <1>6, <2>2, <2>4, <3>1, <3>2
  <2>6. Left' = Left
    <3>1. ASSUME NEW p
          PROVE  p \in Left' <=> p \in Left
      <4>1. CASE p \in new
        <5>1. p[1] = i /\ p[2] \in 1 .. Len(answer) /\ p \notin AllResults
          BY <2>3, <4>1
        <5>2. fetch'[p[1]][p[2]] = "started"
          BY <1>4, <1>6, <5>1
        <5>. QED
          BY <5>1, <5>2 DEF Left
      <4>2. CASE p \in AllResults
        <5>1. PICK q \in Positions \ {i} : \E j \in Results(q) : p = <<q, j>>
          BY <1>5, <4>2, AllResultsAre
        <5>2. p[1] = q /\ metas'[q] = metas[q] /\ fetch'[q] = fetch[q] /\ p \in AllResults'
          BY <1>4, <2>2, <4>2, <5>1
        <5>. QED
          BY <4>2, <5>2 DEF Left, Resolves
      <4>. QED
        BY <2>2, <4>1, <4>2 DEF Left
    <3>. QED
      BY <3>1 DEF Left
  <2>7. Cardinality(Returned') = Cardinality(Returned) + 1
    <3>1. (IF answer = <<>> THEN "done" ELSE "fetching") # "querying"
      OBVIOUS
    <3>. QED
      BY <1>1, <1>2, <3>1, OneMoreReturned
  <2>8. count' = [rocksdb |-> count.rocksdb + 1,
                  entries |-> count.entries + Len(answer), s3 |-> count.s3]
    BY <1>1 DEF IInv, Typed
  <2>. QED
    BY <2>1, <2>5, <2>6, <2>7, <2>8 DEF Counted
<1>10. Replied'
  BY <1>2, NoReplyYet DEF RInv, Replied
<1>11. Concatenated'
  BY <1>2, NothingMerged, ConcatenatedNothing DEF RInv
<1>. QED
  BY <1>3, <1>7, <1>8, <1>9, <1>10, <1>11 DEF RInv

LEMMA RangeQueryErrRight ==
  ASSUME IInv, RInv, NEW i \in Positions, RangeQueryErr(i)
  PROVE  RInv'
<1>1. /\ request' = request /\ metas' = metas /\ fetch' = fetch /\ slot' = slot
      /\ out' = out /\ merged' = merged /\ allEvents' = allEvents /\ reply' = reply
      /\ refErr' = [refErr EXCEPT ![i] = TRUE]
      /\ ref' = [ref EXCEPT ![i] = "done"]
      /\ count' = [count EXCEPT !.rocksdb = @ + 1]
      /\ faults \subseteq faults'
      /\ ref[i] = "querying"
  BY DEF RangeQueryErr
<1>2. Positions' = Positions /\ AllResults' = AllResults /\ Left' = Left
  BY <1>1 DEF Positions, Results, AllResults, Left, Resolves
<1>3. /\ refErr'[i] = TRUE
      /\ \A q \in Positions \ {i} : ref'[q] = ref[q] /\ refErr'[q] = refErr[q]
  BY <1>1 DEF IInv, Typed
<1>4. Results(i) = {} /\ Results(i)' = {}
  <2>1. metas[i] = <<>>
    BY <1>1 DEF IInv, Position, Stage
  <2>. QED
    BY <1>1, <2>1 DEF Results
<1>5. Filled(i)' /\ Answered(i)'
  BY <1>3, <1>4 DEF Filled, Answered
<1>6. ASSUME NEW q \in Positions, q # i PROVE Filled(q)' /\ Answered(q)'
  BY <1>1, <1>3, <1>6, PositionKept DEF RInv
<1>7. Counted'
  <2>1. Cardinality(Returned') = Cardinality(Returned) + 1
    BY <1>1, OneMoreReturned
  <2>2. count' = [rocksdb |-> count.rocksdb + 1, entries |-> count.entries, s3 |-> count.s3]
    BY <1>1 DEF IInv, Typed
  <2>. QED
    BY <1>2, <2>1, <2>2 DEF RInv, Counted
<1>8. Replied'
  BY <1>1, NoReplyYet DEF RInv, Replied
<1>9. Concatenated'
  BY <1>1, NothingMerged, ConcatenatedNothing DEF RInv
<1>. QED
  BY <1>2, <1>5, <1>6, <1>7, <1>8, <1>9 DEF RInv

-----------------------------------------------------------------------------
(* A fetch goroutine that is not done moves on: to y, with x in its slot.  *)
Writes(i, j, x) ==
  /\ \A q \in Positions \ {i} : slot'[q] = slot[q]
  /\ \A k \in Results(i) \ {j} : slot'[i][k] = slot[i][k]
  /\ slot'[i][j] = x

LEMMA SlotWritten ==
  ASSUME IInv, NEW i \in Positions, NEW j \in Results(i), NEW x,
         slot' = [slot EXCEPT ![i][j] = x]
  PROVE  Writes(i, j, x)
BY DEF IInv, Typed, Writes

LEMMA FetcherFilled ==
  ASSUME IInv, RInv, NEW i \in Positions, NEW j \in Results(i), fetch[i][j] # "done",
         request' = request, ref' = ref, refErr' = refErr, metas' = metas,
         faults \subseteq faults',
         NEW x, NEW y,
         fetch' = [fetch EXCEPT ![i][j] = y], Writes(i, j, x),
         y \in {"waiting", "calling", "doomed"} => PointerOf[metas[i][j]].ok,
         y = "done" => FilledBy(metas[i][j], request[i], <<i, j>> \in faults', x)
  PROVE  /\ (\A q \in Positions : Filled(q) /\ Answered(q))'
         /\ AllResults' = AllResults /\ Returned' = Returned
         /\ Left' = IF y = "done" /\ PointerOf[metas[i][j]].ok
                    THEN Left \cup {<<i, j>>} ELSE Left
<1>1. /\ Positions' = Positions /\ \A q \in Positions : Results(q)' = Results(q)
      /\ AllResults' = AllResults /\ Returned' = Returned
  BY DEF Positions, Results, AllResults, Returned
<1>2. /\ \A q \in Positions \ {i} : fetch'[q] = fetch[q] /\ slot'[q] = slot[q]
      /\ \A k \in Results(i) \ {j} : fetch'[i][k] = fetch[i][k] /\ slot'[i][k] = slot[i][k]
      /\ fetch'[i][j] = y /\ slot'[i][j] = x
  BY DEF IInv, Typed, Writes
<1>3. ASSUME NEW q \in Positions, q # i PROVE Filled(q)' /\ Answered(q)'
  BY <1>2, <1>3, PositionKept DEF RInv
<1>4. Answered(i)'
  BY DEF RInv, Answered
<1>5. Filled(i)'
  <2>1. ASSUME NEW k \in Results(i)
        PROVE  /\ fetch'[i][k] \in {"waiting", "calling", "doomed"} => PointerOf[metas[i][k]].ok
               /\ fetch'[i][k] = "done" =>
                    FilledBy(metas[i][k], request[i], <<i, k>> \in faults', slot'[i][k])
    <3>1. CASE k = j
      BY <1>2, <3>1
    <3>2. CASE k # j
      <4>1. fetch'[i][k] = fetch[i][k] /\ slot'[i][k] = slot[i][k]
        BY <1>2, <3>2
      <4>2. /\ fetch[i][k] \in {"waiting", "calling", "doomed"} => PointerOf[metas[i][k]].ok
            /\ fetch[i][k] = "done" =>
                 FilledBy(metas[i][k], request[i], <<i, k>> \in faults, slot[i][k])
        BY DEF RInv, Filled
      <4>3. <<i, k>> \in faults => <<i, k>> \in faults'
        OBVIOUS
      <4>. QED
        BY <4>1, <4>2, <4>3 DEF FilledBy
    <3>. QED
      BY <3>1, <3>2
  <2>. QED
    BY <1>1, <2>1 DEF Filled
<1>6. Left' = IF y = "done" /\ PointerOf[metas[i][j]].ok THEN Left \cup {<<i, j>>} ELSE Left
  <2>1. ASSUME NEW q \in Positions, NEW k \in Results(q), <<q, k>> # <<i, j>>
        PROVE  fetch'[q][k] = fetch[q][k]
    BY <1>2, <2>1
  <2>2. \A p \in AllResults \ {<<i, j>>} : p \in Left' <=> p \in Left
    <3>1. ASSUME NEW p \in AllResults, p # <<i, j>>
          PROVE  fetch'[p[1]][p[2]] = fetch[p[1]][p[2]]
      <4>1. PICK q \in Positions : \E k \in Results(q) : p = <<q, k>>
        BY AllResultsAre
      <4>2. PICK k \in Results(q) : p = <<q, k>>
        BY <4>1
      <4>. QED
        BY <2>1, <3>1, <4>2
    <3>. QED
      BY <1>1, <3>1 DEF Left, Resolves
  <2>3. <<i, j>> \in AllResults /\ <<i, j>> \notin Left
    BY AllResultsAre DEF Left
  <2>4. <<i, j>> \in Left' <=> y = "done" /\ PointerOf[metas[i][j]].ok
    BY <1>1, <1>2, <2>3 DEF Left, Resolves
  <2>5. Left \subseteq AllResults /\ Left' \subseteq AllResults
    BY <1>1 DEF Left
  <2>. QED
    BY <2>2, <2>3, <2>4, <2>5
<1>. QED
  BY <1>1, <1>3, <1>4, <1>5, <1>6

LEMMA ResolveRight ==
  ASSUME IInv, RInv, NEW i \in Positions, NEW j \in Results(i), Resolve(i, j)
  PROVE  RInv'
<1> DEFINE ok == PointerOf[metas[i][j]].ok
           x == IF ok THEN slot[i][j] ELSE Failed
           y == IF ok THEN "waiting" ELSE "done"
<1>1. /\ request' = request /\ ref' = ref /\ refErr' = refErr /\ metas' = metas
      /\ out' = out /\ merged' = merged /\ allEvents' = allEvents /\ count' = count
      /\ faults' = faults /\ reply' = reply
      /\ fetch[i][j] = "started"
      /\ fetch' = [fetch EXCEPT ![i][j] = y] /\ slot' = [slot EXCEPT ![i][j] = x]
  BY DEF Resolve
<1>2. /\ y \in {"waiting", "calling", "doomed"} => PointerOf[metas[i][j]].ok
      /\ y = "done" => FilledBy(metas[i][j], request[i], <<i, j>> \in faults', x)
      /\ ~(y = "done" /\ PointerOf[metas[i][j]].ok)
  BY DEF FilledBy
<1> HIDE DEF x, y
<1>3. /\ (\A q \in Positions : Filled(q) /\ Answered(q))'
      /\ AllResults' = AllResults /\ Returned' = Returned /\ Left' = Left
  <2>1. Writes(i, j, x)
    BY <1>1, SlotWritten
  <2>. QED
    BY <1>1, <1>2, <2>1, FetcherFilled
<1>4. ref[i] # "done"
  BY <1>1 DEF IInv, Position, Stage, Joined
<1>5. Counted'
  BY <1>1, <1>3 DEF RInv, Counted
<1>6. Replied' /\ Concatenated'
  BY <1>1, <1>4, NoReplyYet, NothingMerged, ConcatenatedNothing DEF RInv, Replied
<1>. QED
  BY <1>3, <1>5, <1>6 DEF RInv

LEMMA AcquireRight ==
  ASSUME IInv, RInv, NEW i \in Positions, NEW j \in Results(i), Acquire(i, j)
  PROVE  RInv'
<1> DEFINE x == slot[i][j]
<1>1. /\ request' = request /\ ref' = ref /\ refErr' = refErr /\ metas' = metas
      /\ slot' = slot /\ out' = out /\ merged' = merged /\ allEvents' = allEvents
      /\ count' = count /\ faults' = faults /\ reply' = reply
      /\ fetch[i][j] = "waiting"
  BY DEF Acquire
<1>2. PICK y \in {"calling", "doomed"} : fetch' = [fetch EXCEPT ![i][j] = y]
  BY DEF Acquire
<1>3. Writes(i, j, x)
  BY <1>1 DEF Writes
<1>4. PointerOf[metas[i][j]].ok
  BY <1>1 DEF RInv, Filled
<1> HIDE DEF x
<1>5. /\ (\A q \in Positions : Filled(q) /\ Answered(q))'
      /\ AllResults' = AllResults /\ Returned' = Returned /\ Left' = Left
  BY <1>1, <1>2, <1>3, <1>4, FetcherFilled
<1>6. ref[i] # "done"
  BY <1>1 DEF IInv, Position, Stage, Joined
<1>7. Counted'
  BY <1>1, <1>5 DEF RInv, Counted
<1>8. Replied' /\ Concatenated'
  BY <1>1, <1>6, NoReplyYet, NothingMerged, ConcatenatedNothing DEF RInv, Replied
<1>. QED
  BY <1>5, <1>7, <1>8 DEF RInv

LEMMA LeaveRight ==
  ASSUME IInv, RInv, NEW i \in Positions, NEW j \in Results(i), NEW result,
         Holding(i, j), Leave(i, j, result), faults \subseteq faults',
         FilledBy(metas[i][j], request[i], <<i, j>> \in faults', result)
  PROVE  RInv'
<1>1. /\ request' = request /\ ref' = ref /\ refErr' = refErr /\ metas' = metas
      /\ out' = out /\ merged' = merged /\ allEvents' = allEvents /\ reply' = reply
      /\ fetch[i][j] \in {"calling", "doomed"}
      /\ count' = [count EXCEPT !.s3 = @ + 1]
      /\ slot' = [slot EXCEPT ![i][j] = result]
      /\ fetch' = [fetch EXCEPT ![i][j] = "done"]
  BY DEF Leave, Holding
<1>2. PointerOf[metas[i][j]].ok
  BY <1>1 DEF RInv, Filled
<1> DEFINE y == "done"
<1>3. /\ (\A q \in Positions : Filled(q) /\ Answered(q))'
      /\ AllResults' = AllResults /\ Returned' = Returned /\ Left' = Left \cup {<<i, j>>}
  <2>1. /\ fetch[i][j] # "done" /\ fetch' = [fetch EXCEPT ![i][j] = y] /\ y = "done"
        /\ ~(y \in {"waiting", "calling", "doomed"})
    BY <1>1
  <2> HIDE DEF y
  <2>2. Writes(i, j, result)
    BY <1>1, SlotWritten
  <2>. QED
    BY <1>1, <1>2, <2>1, <2>2, FetcherFilled
<1>4. ref[i] # "done"
  BY <1>1 DEF IInv, Position, Stage, Joined
<1>5. Counted'
  <2>1. IsFiniteSet(Left)
    BY FS_Subset DEF RInv, Counted, Left
  <2>2. <<i, j>> \notin Left
    BY <1>1 DEF Left
  <2>3. Cardinality(Left') = Cardinality(Left) + 1
    BY <1>3, <2>1, <2>2, FS_AddElement
  <2>4. count' = [rocksdb |-> count.rocksdb, entries |-> count.entries, s3 |-> count.s3 + 1]
    BY <1>1 DEF IInv, Typed
  <2>. QED
    BY <1>3, <2>3, <2>4 DEF RInv, Counted
<1>6. Replied' /\ Concatenated'
  BY <1>1, <1>4, NoReplyYet, NothingMerged, ConcatenatedNothing DEF RInv, Replied
<1>. QED
  BY <1>3, <1>5, <1>6 DEF RInv

LEMMA GetRangeRight ==
  ASSUME IInv, RInv, NEW i \in Positions, NEW j \in Results(i), GetRange(i, j)
  PROVE  RInv'
<1>1. CASE RefuseRange(i, j)
  <2>1. FilledBy(metas[i][j], request[i], <<i, j>> \in faults', Failed)
    BY <1>1 DEF RefuseRange, FilledBy
  <2>. QED
    BY <1>1, <2>1, LeaveRight DEF RefuseRange
<1>2. CASE GetObjectOK(i, j)
  <2>1. Holding(i, j) /\ PointerOf[metas[i][j]].ok
    BY <1>2 DEF GetObjectOK, Holding, RInv, Filled
  <2>2. FilledBy(metas[i][j], request[i], <<i, j>> \in faults', ReadSlot(metas[i][j], request[i]))
    BY <1>2, <2>1 DEF GetObjectOK, FilledBy
  <2>. QED
    BY <1>2, <2>1, <2>2, LeaveRight DEF GetObjectOK
<1>3. CASE GetObjectErr(i, j)
  <2>1. faults' = faults \cup {<<i, j>>}
    BY <1>3 DEF GetObjectErr
  <2>2. FilledBy(metas[i][j], request[i], <<i, j>> \in faults', Failed)
    BY <2>1 DEF FilledBy
  <2>. QED
    BY <1>3, <2>1, <2>2, LeaveRight DEF GetObjectErr
<1>. QED
  BY <1>1, <1>2, <1>3 DEF GetRange

-----------------------------------------------------------------------------
(* The collecting loop and the merging loop.                               *)
LEMMA CollectRight ==
  ASSUME IInv, RInv, NEW i \in Positions, Collect(i)
  PROVE  RInv'
<1>1. /\ request' = request /\ refErr' = refErr /\ metas' = metas
      /\ fetch' = fetch /\ slot' = slot /\ merged' = merged
      /\ allEvents' = allEvents /\ count' = count /\ faults' = faults /\ reply' = reply
      /\ ref[i] = "fetching"
      /\ ref' = [ref EXCEPT ![i] = IF next[i] = Len(metas[i]) THEN "done" ELSE "fetching"]
  BY DEF Collect
<1>2. /\ ref'[i] # "querying"
      /\ \A q \in Positions \ {i} : ref'[q] = ref[q]
  BY <1>1 DEF IInv, Typed
<1>3. /\ Positions' = Positions /\ AllResults' = AllResults /\ Left' = Left
      /\ Returned' = Returned
  BY <1>1, <1>2 DEF Positions, Results, AllResults, Left, Resolves, Returned
<1>4. Filled(i)' /\ Answered(i)'
  <2>1. Filled(i)'
    BY <1>1 DEF RInv, Filled, Results
  <2>2. Answered(i)'
    BY <1>1 DEF RInv, Answered
  <2>. QED
    BY <2>1, <2>2
<1>5. ASSUME NEW q \in Positions, q # i PROVE Filled(q)' /\ Answered(q)'
  BY <1>1, <1>2, <1>5, PositionKept DEF RInv
<1>6. Counted'
  BY <1>1, <1>3 DEF RInv, Counted
<1>7. Replied' /\ Concatenated'
  BY <1>1, NoReplyYet, NothingMerged, ConcatenatedNothing DEF RInv, Replied
<1>. QED
  BY <1>3, <1>4, <1>5, <1>6, <1>7 DEF RInv

LEMMA ListsNoPlaces ==
  ASSUME NEW T, NEW evs \in Seq(T), NEW slots, Lists(evs, {}, slots)
  PROVE  evs = <<>>
<1>1. DOMAIN evs = {}
  BY DEF Lists
<1>. QED
  BY <1>1

(* A position that has asked nothing, or in vain, has collected nothing.   *)
LEMMA NothingCollected ==
  ASSUME IInv, NEW i \in Positions, metas[i] = <<>>
  PROVE  out[i] = <<>>
<1>1. Results(i) = {} /\ DOMAIN slot[i] = {}
  <2>1. Results(i) = {}
    BY DEF Results
  <2>. QED
    BY <2>1, ResultsTyped DEF IInv
<1>2. KeptBefore(i, next[i], slot) = {}
  BY <1>1 DEF KeptBefore
<1>3. Lists(out[i], {}, slot) /\ out[i] \in Seq(Events)
  BY <1>2 DEF IInv, Typed, Position, Collected
<1>. QED
  BY <1>3, ListsNoPlaces

LEMMA MergeRight ==
  ASSUME IInv, RInv, Merge
  PROVE  RInv'
<1> DEFINE m == merged
           i == m + 1
           row == {i} \X DOMAIN out[i]
<1>1. /\ request' = request /\ ref' = ref /\ refErr' = refErr /\ metas' = metas
      /\ fetch' = fetch /\ slot' = slot /\ out' = out /\ count' = count
      /\ faults' = faults /\ reply' = reply
      /\ merged < Len(request)
      /\ merged' = i
      /\ allEvents' = IF refErr[i] THEN allEvents ELSE allEvents \o out[i]
  BY DEF Merge
<1>2. Positions' = Positions /\ AllResults' = AllResults /\ Left' = Left /\ Returned' = Returned
  BY <1>1 DEF Positions, Results, AllResults, Left, Resolves, Returned
<1>3. m \in Nat /\ i \in Positions /\ i \in Nat
  BY <1>1, PositionsTyped DEF IInv, Typed
<1>4. ASSUME NEW q \in Positions PROVE Filled(q)' /\ Answered(q)'
  BY <1>1, PositionKept DEF RInv
<1>5. Counted'
  BY <1>1, <1>2 DEF RInv, Counted
<1>6. Replied'
  BY <1>1, NoReplyYet DEF RInv, Replied
<1>7. Concatenated'
  <2>1. Lists(allEvents', Parts(i), Outs) => Concatenated'
    BY <1>1, <1>2 DEF Concatenated, Outs, Parts
  <2>2. Parts(i) = Parts(m) \cup row
    <3>1. 1 .. m + 1 = (1 .. m) \cup {m + 1}
      BY <1>3
    <3>. QED
      BY <3>1 DEF Parts
  <2>3. allEvents \in Seq(Events) /\ out[i] \in Seq(Events) /\ Lists(allEvents, Parts(m), Outs)
    BY <1>3 DEF IInv, Typed, RInv, Concatenated
  <2>4. Lists(out[i], row, Outs)
    <3> DEFINE place == [k \in DOMAIN out[i] |-> <<i, k>>]
    <3>1. place \in [DOMAIN out[i] -> row]
      OBVIOUS
    <3>2. \A k \in DOMAIN out[i] : out[i][k] = Outs[place[k][1]][place[k][2]].event
      BY <1>3 DEF Outs, Found
    <3>3. \A k, l \in DOMAIN out[i] : k < l => Before(place[k], place[l])
      BY DEF Before
    <3>4. \A p \in row : \E k \in DOMAIN out[i] : place[k] = p
      OBVIOUS
    <3> HIDE DEF place, row
    <3>. QED
      BY <3>1, <3>2, <3>3, <3>4 DEF Lists
  <2>5. \A p \in Parts(m), q \in row : Before(p, q)
    <3>1. \A p \in Parts(m) : p[1] \in 1 .. m
      BY DEF Parts
    <3>2. \A k \in 1 .. m : k < i
      BY <1>3
    <3>. QED
      BY <3>1, <3>2 DEF Before
  <2>6. CASE refErr[i]
    <3>1. metas[i] = <<>>
      BY <1>3, <2>6 DEF IInv, Position, Stage
    <3>2. row = {}
      BY <1>3, <3>1, NothingCollected
    <3>. QED
      BY <1>1, <2>1, <2>2, <2>3, <2>6, <3>2
  <2>7. CASE ~refErr[i]
    <3> HIDE DEF row
    <3>1. Lists(allEvents \o out[i], Parts(m) \cup row, Outs)
      BY <2>3, <2>4, <2>5, ListsConcat
    <3>. QED
      BY <1>1, <2>1, <2>2, <2>7, <3>1
  <2>. QED
    BY <2>6, <2>7
<1>. QED
  BY <1>2, <1>4, <1>5, <1>6, <1>7 DEF RInv

(* The steps that touch neither goroutines nor loops.                      *)
LEMMA QuietRight ==
  ASSUME IInv, RInv, RejectEmpty \/ Respond \/ ClientGone \/ UNCHANGED vars
  PROVE  RInv'
<1>1. /\ request' = request /\ ref' = ref /\ refErr' = refErr /\ metas' = metas
      /\ fetch' = fetch /\ slot' = slot /\ out' = out /\ merged' = merged
      /\ allEvents' = allEvents /\ count' = count /\ faults' = faults
  BY DEF RejectEmpty, Respond, ClientGone, vars
<1>2. Positions' = Positions /\ AllResults' = AllResults /\ Left' = Left /\ Returned' = Returned
  BY <1>1 DEF Positions, Results, AllResults, Left, Resolves, Returned
<1>3. ASSUME NEW q \in Positions PROVE Filled(q)' /\ Answered(q)'
  BY <1>1, PositionKept DEF RInv
<1>4. Counted'
  BY <1>1, <1>2 DEF RInv, Counted
<1>5. Replied'
  <2>1. CASE RejectEmpty
    BY <2>1 DEF RejectEmpty, Replied
  <2>2. CASE Respond
    BY <1>1, <2>2 DEF Respond, Replied, Response
  <2>3. CASE ClientGone
    BY <1>1, <2>3 DEF ClientGone, RInv, Replied, Response
  <2>4. CASE UNCHANGED vars
    BY <1>1, <2>4 DEF vars, RInv, Replied, Response
  <2>. QED
    BY <2>1, <2>2, <2>3, <2>4
<1>6. Concatenated'
  BY <1>1, <1>2 DEF RInv, Concatenated, Parts, Outs
<1>. QED
  BY <1>2, <1>3, <1>4, <1>5, <1>6 DEF RInv

LEMMA StepIsRight == IInv /\ RInv /\ [Next]_vars => RInv'
<1> SUFFICES ASSUME IInv, RInv, [Next]_vars PROVE RInv'
  OBVIOUS
<1>1. CASE \E i \in Positions : RangeQueryOK(i)
  BY <1>1, RangeQueryOKRight
<1>2. CASE \E i \in Positions : RangeQueryErr(i)
  BY <1>2, RangeQueryErrRight
<1>3. CASE \E i \in Positions : \E j \in Results(i) : Resolve(i, j)
  BY <1>3, ResolveRight
<1>4. CASE \E i \in Positions : \E j \in Results(i) : Acquire(i, j)
  BY <1>4, AcquireRight
<1>5. CASE \E i \in Positions : \E j \in Results(i) : GetRange(i, j)
  BY <1>5, GetRangeRight
<1>6. CASE \E i \in Positions : Collect(i)
  BY <1>6, CollectRight
<1>7. CASE Merge
  BY <1>7, MergeRight
<1>8. CASE RejectEmpty \/ Respond \/ ClientGone \/ UNCHANGED vars
  BY <1>8, QuietRight
<1>. QED
  BY <1>1, <1>2, <1>3, <1>4, <1>5, <1>6, <1>7, <1>8
  DEF Next, Worker, Fetcher, Caller, Finished

(* What the slots hold, what the counters count and what has been merged,  *)
(* in every state of a query.                                              *)
THEOREM LookupResultInvariant == Spec => [](IInv /\ RInv)
<1>1. Init => IInv /\ RInv
  BY InitIsFine, InitIsRight
<1>2. IInv /\ RInv /\ [Next]_vars => (IInv /\ RInv)'
  BY StepKeeps, StepIsRight
<1>. QED
  BY <1>1, <1>2, PTL DEF Spec

-----------------------------------------------------------------------------
(* The state a response is sent from.                                      *)
LEMMA AtReply ==
  ASSUME IInv, RInv, reply.status = "ok"
  PROVE  /\ reply = Response
         /\ merged = Len(request) /\ allEvents \in Seq(Events)
         /\ \A i \in Positions : ref[i] = "done" /\ Joined(i)
<1>1. request # <<>> /\ merged = Len(request) /\ reply = Response
  BY DEF RInv, Replied, NoReply
<1>2. merged > 0
  BY <1>1, PositionsTyped DEF IInv
<1>3. \A i \in Positions : ref[i] = "done" /\ Joined(i)
  BY <1>2 DEF IInv, Merged, Position, Stage
<1>. QED
  BY <1>1, <1>3 DEF IInv, Typed

(* The counters, bumped by many goroutines in any order, add up: one query *)
(* of a shard per position, one entry per result, one fetch per pointer    *)
(* that resolves, no more events than fetches (service.go:122-197).        *)
THEOREM MetricsAreRight == Spec => []MetricsAddUp
<1>1. ASSUME IInv, RInv, reply.status = "ok"
      PROVE  /\ reply.metrics.rocksdb = Len(request)
             /\ reply.metrics.entries = Cardinality(AllResults)
             /\ reply.metrics.s3 =
                  Cardinality({p \in AllResults : PointerOf[metas[p[1]][p[2]]].ok})
             /\ reply.metrics.parsed = Len(reply.events)
             /\ reply.total <= reply.metrics.s3
  <2>1. /\ reply.metrics.rocksdb = count.rocksdb /\ reply.metrics.entries = count.entries
        /\ reply.metrics.s3 = count.s3 /\ reply.metrics.parsed = Len(allEvents)
        /\ reply.events = allEvents /\ reply.total = Len(allEvents)
    BY <1>1, AtReply DEF Response
  <2>2. \A i \in Positions : ref[i] = "done" /\ Joined(i)
    BY <1>1, AtReply
  <2>3. Cardinality(Returned) = Len(request)
    <3>1. Len(request) \in Nat /\ Positions = 1 .. Len(request)
      BY <1>1, PositionsTyped DEF IInv
    <3>2. Returned = 1 .. Len(request)
      BY <2>2, <3>1 DEF Returned
    <3>3. \A n \in Nat : Cardinality(1 .. n) = n
      BY FS_Interval
    <3>. QED
      BY <3>1, <3>2, <3>3
  <2>4. Left = {p \in AllResults : PointerOf[metas[p[1]][p[2]]].ok}
    <3>1. ASSUME NEW p \in AllResults PROVE fetch[p[1]][p[2]] = "done"
      <4>1. PICK i \in Positions : \E j \in Results(i) : p = <<i, j>>
        BY AllResultsAre
      <4>. QED
        BY <2>2, <4>1 DEF Joined
    <3>. QED
      BY <3>1 DEF Left, Resolves
  <2>5. Len(allEvents) <= Cardinality(Left)
    <3> DEFINE n == Len(allEvents)
               kept == KeptUpTo(Len(request), slot)
    <3>1. n \in Nat /\ DOMAIN allEvents = 1 .. n
      BY <1>1, AtReply
    <3>2. Lists(allEvents, kept, slot)
      BY <1>1, AtReply DEF IInv, Merged
    <3>3. kept \subseteq Left
      <4>1. ASSUME NEW p \in kept PROVE p \in Left
        <5>1. PICK i \in 1 .. Len(request) : p \in {i} \X DOMAIN slot[i]
          BY DEF KeptUpTo
        <5>2. i \in Positions /\ DOMAIN slot[i] = Results(i)
          BY <1>1, <5>1, PositionsTyped, ResultsTyped DEF IInv
        <5>3. PICK j \in Results(i) : p = <<i, j>>
          BY <5>1, <5>2
        <5>4. Kept(slot[i][j])
          BY <5>3 DEF KeptUpTo
        <5>5. fetch[i][j] = "done"
          BY <2>2, <5>2 DEF Joined
        <5>6. PointerOf[metas[i][j]].ok
          <6>1. FilledBy(metas[i][j], request[i], <<i, j>> \in faults, slot[i][j])
            <7>1. Filled(i)
              BY <1>1, <5>2 DEF RInv
            <7>. QED
              BY <5>5, <7>1 DEF Filled
          <6>2. slot[i][j] # Failed
            <7>1. slot[i][j].state = "found"
              BY <5>4 DEF Kept
            <7>2. Failed.state = "failed"
              BY DEF Failed
            <7>. QED
              BY <7>1, <7>2
          <6>. QED
            BY <6>1, <6>2 DEF FilledBy
        <5>. QED
          BY <5>2, <5>3, <5>5, <5>6, AllResultsAre DEF Left, Resolves
      <4>. QED
        BY <4>1
    <3>4. IsFiniteSet(Left)
      BY <1>1, FS_Subset DEF RInv, Counted, Left
    <3>5. \A p \in kept : ~Before(p, p)
      <4>1. \A p \in kept : p[1] \in Nat /\ p[2] \in Nat
        <5>1. ASSUME NEW p \in kept PROVE p[1] \in Nat /\ p[2] \in Nat
          <6>1. PICK i \in 1 .. Len(request) : p \in {i} \X DOMAIN slot[i]
            BY DEF KeptUpTo
          <6>2. i \in Positions /\ DOMAIN slot[i] \subseteq Nat \ {0} /\ Len(request) \in Nat
            BY <1>1, <6>1, PositionsTyped, ResultsTyped DEF IInv
          <6>. QED
            BY <6>1, <6>2
        <5>. QED
          BY <5>1
      <4>. QED
        BY <4>1 DEF Before
    <3> HIDE DEF kept, n
    <3>6. PICK place \in [1 .. n -> kept] :
            \A k, l \in 1 .. n : k < l => Before(place[k], place[l])
      BY <3>1, <3>2 DEF Lists
    <3>7. place \in Injection(1 .. n, Left)
      <4>1. place \in [1 .. n -> Left]
        BY <3>3, <3>6
      <4>2. \A k, l \in 1 .. n : place[k] = place[l] => k = l
        <5>1. ASSUME NEW k \in 1 .. n, NEW l \in 1 .. n, place[k] = place[l]
              PROVE  ~(k < l) /\ ~(l < k)
          BY <3>5, <3>6, <5>1
        <5>. QED
          BY <3>1, <5>1
      <4>. QED
        BY <4>1, <4>2 DEF Injection, IsInjective
    <3>8. Cardinality(1 .. n) <= Cardinality(Left)
      BY <3>4, <3>7, FS_Injection
    <3>9. Cardinality(1 .. n) = n
      BY <3>1, FS_Interval
    <3>. QED
      BY <3>8, <3>9 DEF n
  <2>. QED
    BY <1>1, <2>1, <2>3, <2>4, <2>5 DEF RInv, Counted
<1>2. IInv /\ RInv => MetricsAddUp
  BY <1>1 DEF MetricsAddUp
<1>. QED
  BY <1>2, LookupResultInvariant, PTL

(* An event that the index names is missing from a response only because   *)
(* the call to its shard or its own call to S3 failed, for any store, any  *)
(* form of the pointers and any interleaving (service.go:122-316,          *)
(* s3store/client.go:37-71).                                               *)
THEOREM OnlyFaultsLose == Spec => []LossOnlyByFault
<1>1. IInv /\ RInv => LossOnlyByFault
  <2>a. SUFFICES ASSUME IInv, RInv, reply.status = "ok",
                        NEW i \in Positions, NEW j \in Results(i)
                 PROVE  \A place \in DOMAIN Store : \A line \in Store[place] :
                          /\ line.json
                          /\ line.id # "" \/ request[i] # ""
                          /\ place[1] = Bucket
                          /\ Indexes(metas[i][j], place[2], line)
                          /\ <<i, j>> \notin faults
                          => \E k \in DOMAIN reply.events :
                               reply.events[k] = ReaderEvent(line, request[i], metas[i][j].timestamp)
    BY DEF LossOnlyByFault
  <2>b. SUFFICES ASSUME NEW place \in DOMAIN Store, NEW line \in Store[place],
                        line.json, line.id # "" \/ request[i] # "", place[1] = Bucket,
                        Indexes(metas[i][j], place[2], line), <<i, j>> \notin faults
                 PROVE  \E k \in DOMAIN reply.events :
                          reply.events[k] = ReaderEvent(line, request[i], metas[i][j].timestamp)
    OBVIOUS
  <2> DEFINE e == metas[i][j]
             ev == ReaderEvent(line, request[i], e.timestamp)
  <2>1. e \in Entries
    <3>1. metas[i] \in Seq(Entries) /\ j \in 1 .. Len(metas[i])
      BY <2>a, <2>b, ResultsTyped DEF IInv
    <3>. QED
      BY <3>1
  <2>2. fetch[i][j] = "done" /\ reply.events = allEvents /\ merged = Len(request)
    <3>1. reply = Response /\ merged = Len(request) /\ \A h \in Positions : Joined(h)
      BY <2>a, <2>b, AtReply
    <3>2. Response.events = allEvents
      BY DEF Response
    <3>. QED
      BY <3>1, <3>2 DEF Joined
  <2>3. FilledBy(e, request[i], FALSE, slot[i][j])
    <3>1. FilledBy(e, request[i], <<i, j>> \in faults, slot[i][j])
      BY <2>a, <2>b, <2>2 DEF RInv, Filled
    <3>. QED
      BY <2>a, <2>b, <3>1 DEF FilledBy
  <2> HIDE DEF e
  <2>4. /\ PointerOf[e].ok /\ ~Refused(e)
        /\ ReadSlot(e, request[i]) = Found(ReaderEvent(line, request[i], e.timestamp))
    BY <2>a, <2>b, <2>1, IndexedLineIsRead DEF e
  <2>5. slot[i][j] = Found(ev)
    BY <2>3, <2>4 DEF FilledBy
  <2>6. Kept(slot[i][j])
    <3>1. ev.id = line.id /\ ev.ref = request[i]
      BY DEF ReaderEvent
    <3> HIDE DEF ev
    <3>2. slot[i][j].state = "found" /\ slot[i][j].event = ev
      BY <2>5 DEF Found
    <3>. QED
      BY <2>a, <2>b, <3>1, <3>2 DEF Kept
  <2>7. <<i, j>> \in KeptUpTo(Len(request), slot)
    <3>1. i \in 1 .. Len(request) /\ j \in DOMAIN slot[i]
      BY <2>a, <2>b, PositionsTyped, ResultsTyped DEF IInv
    <3>. QED
      BY <2>6, <3>1 DEF KeptUpTo
  <2>8. Lists(allEvents, KeptUpTo(Len(request), slot), slot)
    BY <2>a, <2>b, <2>2 DEF IInv, Merged
  <2>9. \E k \in DOMAIN allEvents : allEvents[k] = slot[i][j].event
    <3> DEFINE p == <<i, j>>
               places == KeptUpTo(Len(request), slot)
    <3>1. p[1] = i /\ p[2] = j
      OBVIOUS
    <3>a. Lists(allEvents, places, slot)
      BY <2>8
    <3> HIDE DEF p, places
    <3>2. PICK where \in [DOMAIN allEvents -> places] :
            /\ \A q \in places : \E k \in DOMAIN allEvents : where[k] = q
            /\ \A k \in DOMAIN allEvents : allEvents[k] = slot[where[k][1]][where[k][2]].event
      BY <3>a DEF Lists
    <3>3. PICK k \in DOMAIN allEvents : where[k] = p
      BY <2>7, <3>2 DEF p, places
    <3>. QED
      BY <3>1, <3>2, <3>3
  <2>10. slot[i][j].event = ev
    BY <2>5 DEF Found
  <2>. QED
    BY <2>2, <2>9, <2>10 DEF e
<1>. QED
  BY <1>1, LookupResultInvariant, PTL

-----------------------------------------------------------------------------
(* The refinement: a position is settled when its goroutine is done.       *)

LEMMA PartsOf ==
  /\ partOf = [q \in Positions |-> IF ref[q] = "done"
                                   THEN Abstract!Settled(out[q]) ELSE Abstract!Unsettled]
  /\ partOf' = [q \in Positions' |-> IF ref'[q] = "done"
                                     THEN Abstract!Settled(out'[q]) ELSE Abstract!Unsettled]
BY DEF partOf, Positions, Abstract!Settled, Abstract!Unsettled

(* A step in which no goroutine ends, and no reply is sent, stutters.      *)
LEMMA StutterStep ==
  ASSUME request' = request, reply' = reply,
         \A q \in Positions : (ref'[q] = "done") = (ref[q] = "done"),
         \A q \in Positions : ref[q] = "done" => out'[q] = out[q]
  PROVE  UNCHANGED Abstract!vars
<1>1. Positions' = Positions
  BY DEF Positions
<1>2. partOf' = partOf
  BY <1>1, PartsOf
<1>. QED
  BY <1>2 DEF Abstract!vars

LEMMA SettleStep ==
  ASSUME IInv, RInv, NEW i \in Positions, ref[i] # "done", ref'[i] = "done",
         request' = request, reply' = reply,
         \A q \in Positions \ {i} : ref'[q] = ref[q] /\ out'[q] = out[q],
         YieldsLines(request[i], out'[i])
  PROVE  Abstract!Settle(i)
<1>1. Positions' = Positions
  BY DEF Positions
<1>2. partOf[i] = Abstract!Unsettled /\ partOf'[i] = Abstract!Settled(out'[i])
  BY <1>1, PartsOf
<1>3. partOf' = [partOf EXCEPT ![i] = Abstract!Settled(out'[i])]
  BY <1>1, PartsOf
<1>4. ~partOf[i].settled /\ partOf'[i].events = out'[i]
  BY <1>2 DEF Abstract!Settled, Abstract!Unsettled
<1>5. reply = Abstract!NoReply
  BY NoReplyYet DEF RInv, NoReply, Abstract!NoReply
<1>. QED
  BY <1>3, <1>4, <1>5 DEF Abstract!Settle

(* What a goroutine that is done has collected, a read may yield.          *)
LEMMA CollectedYields ==
  IInv /\ RInv => \A i \in Positions : ref[i] = "done" => YieldsLines(request[i], out[i])
<1> SUFFICES ASSUME IInv, RInv, NEW i \in Positions, ref[i] = "done"
             PROVE  YieldsLines(request[i], out[i])
  OBVIOUS
<1>1. CASE refErr[i]
  <2>1. metas[i] = <<>>
    BY <1>1 DEF IInv, Position, Stage
  <2>2. out[i] = <<>>
    BY <2>1, NothingCollected
  <2>. QED
    BY <2>2 DEF YieldsLines
<1>2. CASE ~refErr[i]
  <2> DEFINE evs == out[i]
             answer == metas[i]
             kept == KeptBefore(i, next[i], slot)
  <2>1. answer \in Answers[request[i]]
    BY <1>2 DEF RInv, Answered
  <2>2. Joined(i) /\ Filled(i) /\ Lists(evs, kept, slot)
    BY DEF IInv, RInv, Position, Stage, Collected
  <2>3. /\ DOMAIN slot[i] = Results(i) /\ DOMAIN answer = Results(i)
        /\ slot[i] \in [Results(i) -> Slots]
    BY ResultsTyped DEF IInv, Typed, Results
  <2>4. \A p \in kept : p[1] = i /\ p[2] \in Results(i) /\ Kept(slot[i][p[2]])
    BY <2>3 DEF KeptBefore
  <2>5. \A j \in Results(i) :
          Kept(slot[i][j]) =>
            /\ Readable(answer[j])
            /\ ReadSlot(answer[j], request[i]) = Found(slot[i][j].event)
    <3> SUFFICES ASSUME NEW j \in Results(i), Kept(slot[i][j])
                 PROVE  /\ Readable(answer[j])
                        /\ ReadSlot(answer[j], request[i]) = Found(slot[i][j].event)
      OBVIOUS
    <3> DEFINE s == slot[i][j]
    <3>1. s.state = "found" /\ s \in Slots
      BY <2>3 DEF Kept
    <3>2. FilledBy(answer[j], request[i], <<i, j>> \in faults, s)
      BY <2>2 DEF Filled, Joined
    <3> HIDE DEF s, answer
    <3>3. Failed.state = "failed" /\ Zero.state = "zero"
      BY DEF Failed, Zero
    <3>4. s # Failed /\ s # Zero
      BY <3>1, <3>3
    <3>5. PICK ev : s = Found(ev)
      BY <3>1, <3>4 DEF Slots
    <3>6. s = Found(s.event)
      BY <3>5 DEF Found
    <3>7. Readable(answer[j]) /\ s = ReadSlot(answer[j], request[i])
      BY <3>2, <3>4 DEF FilledBy
    <3>. QED
      BY <3>6, <3>7 DEF s
  <2>6. i \in Nat
    BY PositionsTyped DEF IInv
  <2> HIDE DEF evs, answer, kept
  <2>7. PICK place \in [DOMAIN evs -> kept] :
          /\ \A k, l \in DOMAIN evs : k < l => Before(place[k], place[l])
          /\ \A k \in DOMAIN evs : evs[k] = slot[place[k][1]][place[k][2]].event
    BY <2>2 DEF Lists
  <2> DEFINE entry == [k \in DOMAIN evs |-> place[k][2]]
  <2>8. entry \in [DOMAIN evs -> DOMAIN answer]
    BY <2>3, <2>4, <2>7
  <2>9. \A k, l \in DOMAIN evs : k < l => entry[k] < entry[l]
    <3>1. ASSUME NEW k \in DOMAIN evs, NEW l \in DOMAIN evs, k < l
          PROVE  entry[k] < entry[l]
      <4>1. Before(place[k], place[l]) /\ place[k][1] = i /\ place[l][1] = i
        BY <2>4, <2>7, <3>1
      <4>. QED
        BY <2>6, <4>1 DEF Before
    <3>. QED
      BY <3>1
  <2>10. \A k \in DOMAIN evs :
           /\ Readable(answer[entry[k]])
           /\ ReadSlot(answer[entry[k]], request[i]) = Found(evs[k])
    <3>1. ASSUME NEW k \in DOMAIN evs
          PROVE  /\ Readable(answer[entry[k]])
                 /\ ReadSlot(answer[entry[k]], request[i]) = Found(evs[k])
      <4> DEFINE j == place[k][2]
      <4>1. j \in Results(i) /\ Kept(slot[i][j]) /\ evs[k] = slot[i][j].event
        BY <2>4, <2>7, <3>1
      <4>2. entry[k] = j
        BY <3>1
      <4> HIDE DEF j, entry
      <4>. QED
        BY <2>5, <4>1, <4>2
    <3>. QED
      BY <3>1
  <2> HIDE DEF entry
  <2>. QED
    BY <2>1, <2>8, <2>9, <2>10 DEF YieldsLines, evs, answer
<1>. QED
  BY <1>1, <1>2

LEMMA AnswerStep ==
  ASSUME IInv, RInv, Respond
  PROVE  Abstract!Answer
<1>1. /\ request # <<>> /\ merged = Len(request) /\ reply = NoReply
      /\ request' = request /\ ref' = ref /\ out' = out
      /\ reply'.status = "ok" /\ reply'.events = allEvents
  BY DEF Respond
<1>2. Positions = 1 .. merged /\ merged > 0
  BY <1>1, PositionsTyped DEF IInv
<1>3. \A i \in Positions : ref[i] = "done"
  BY <1>2 DEF IInv, Merged
<1>4. partOf' = partOf
  BY <1>1, PartsOf DEF Positions
<1>5. \A i \in Positions : partOf[i].settled /\ partOf[i].events = out[i]
  BY <1>3, PartsOf DEF Abstract!Settled
<1>6. Abstract!Concatenates(allEvents)
  <2>1. Abstract!Places = Parts(merged)
    BY <1>2, <1>5 DEF Abstract!Places, Parts, Positions
  <2>2. \A q \in Positions : \A k \in DOMAIN out[q] : Outs[q][k].event = out[q][k]
    BY DEF Outs, Found
  <2>3. \A p \in Parts(merged) : p[1] \in Positions /\ p[2] \in DOMAIN out[p[1]]
    BY <1>2 DEF Parts
  <2>4. PICK place \in [DOMAIN allEvents -> Parts(merged)] :
          /\ \A k, l \in DOMAIN allEvents : k < l => Before(place[k], place[l])
          /\ \A p \in Parts(merged) : \E k \in DOMAIN allEvents : place[k] = p
          /\ \A k \in DOMAIN allEvents : allEvents[k] = Outs[place[k][1]][place[k][2]].event
    BY DEF RInv, Concatenated, Lists
  <2>5. \A k \in DOMAIN allEvents : allEvents[k] = partOf[place[k][1]].events[place[k][2]]
    BY <1>5, <2>2, <2>3, <2>4
  <2>6. \A p, q : Before(p, q) <=> Abstract!Earlier(p, q)
    BY DEF Before, Abstract!Earlier
  <2>. QED
    BY <2>1, <2>4, <2>5, <2>6 DEF Abstract!Concatenates
<1>. QED
  BY <1>1, <1>4, <1>5, <1>6 DEF Abstract!Answer, NoReply, Abstract!NoReply, Positions

(* Every step of a query is a step of a best-effort read, or a stutter: a  *)
(* position is settled by the last step of its goroutine.                  *)
LEMMA StepImplements ==
  ASSUME IInv, RInv, (IInv /\ RInv)', [Next]_vars
  PROVE  [Abstract!Next]_(Abstract!vars)
<1>1. \A q \in Positions' : ref'[q] = "done" => YieldsLines(request'[q], out'[q])
  <2>1. (IInv /\ RInv => \A i \in Positions : ref[i] = "done" => YieldsLines(request[i], out[i]))'
    BY CollectedYields, PTL
  <2>. QED
    BY <2>1 DEF YieldsLines
<1>2. ASSUME NEW i \in Positions, ref[i] # "done",
             request' = request, reply' = reply,
             \A q \in Positions \ {i} : ref'[q] = ref[q] /\ out'[q] = out[q]
      PROVE  Abstract!Next \/ UNCHANGED Abstract!vars
  <2>1. CASE ref'[i] = "done"
    <3>1. YieldsLines(request[i], out'[i])
      BY <1>1, <1>2, <2>1 DEF Positions
    <3>2. Abstract!Settle(i)
      BY <1>2, <2>1, <3>1, SettleStep
    <3>. QED
      BY <3>2 DEF Abstract!Next, Positions
  <2>2. CASE ref'[i] # "done"
    BY <1>2, <2>2, StutterStep
  <2>. QED
    BY <2>1, <2>2
<1>3. ASSUME NEW i \in Positions, RangeQueryOK(i) \/ RangeQueryErr(i) \/ Collect(i)
      PROVE  Abstract!Next \/ UNCHANGED Abstract!vars
  <2>1. ref[i] # "done" /\ request' = request /\ reply' = reply
    BY <1>3 DEF RangeQueryOK, RangeQueryErr, Collect
  <2>2. \A q \in Positions \ {i} : ref'[q] = ref[q] /\ out'[q] = out[q]
    BY <1>3 DEF IInv, Typed, RangeQueryOK, RangeQueryErr, Collect
  <2>. QED
    BY <1>2, <2>1, <2>2
<1>4. ASSUME NEW i \in Positions, NEW j \in Results(i), Fetcher(i, j)
      PROVE  UNCHANGED Abstract!vars
  <2>1. request' = request /\ reply' = reply /\ ref' = ref /\ out' = out
    BY <1>4 DEF Fetcher, Resolve, Acquire, GetRange, RefuseRange, GetObjectOK, GetObjectErr, Leave
  <2>. QED
    BY <2>1, StutterStep
<1>5. CASE Merge \/ ClientGone \/ UNCHANGED vars
  <2>1. request' = request /\ reply' = reply /\ ref' = ref /\ out' = out
    BY <1>5 DEF Merge, ClientGone, vars
  <2>. QED
    BY <2>1, StutterStep
<1>6. CASE RejectEmpty
  <2>1. partOf' = partOf
    BY <1>6, PartsOf DEF RejectEmpty, Positions
  <2>2. Abstract!Reject
    BY <1>6, <2>1 DEF RejectEmpty, Abstract!Reject, NoReply, Abstract!NoReply, Abstract!Error
  <2>. QED
    BY <2>2 DEF Abstract!Next
<1>7. CASE Respond
  BY <1>7, AnswerStep DEF Abstract!Next
<1>. QED
  BY <1>3, <1>4, <1>5, <1>6, <1>7 DEF Next, Worker, Caller, Finished

(* A query behaves like a best-effort read, for every list of ids, every   *)
(* answer of the shards and every failure: positions are settled once and  *)
(* independently, with events of their own shard's answer, and the         *)
(* response concatenates them in the order of the request                  *)
(* (service.go:122-197).                                                   *)
THEOREM LookupImplementsBestEffortRead == Spec => ImplementsBestEffortRead
<1>1. Init => Abstract!Init
  <2> SUFFICES ASSUME Init PROVE Abstract!Init
    OBVIOUS
  <2>1. partOf = [i \in Positions |-> Abstract!Unsettled]
    BY PartsOf DEF Init
  <2>. QED
    BY <2>1 DEF Init, Abstract!Init, NoReply, Abstract!NoReply, Positions
<1>2. IInv /\ RInv /\ (IInv /\ RInv)' /\ [Next]_vars => [Abstract!Next]_(Abstract!vars)
  BY StepImplements
<1>. QED
  BY <1>1, <1>2, LookupResultInvariant, PTL DEF Spec, Abstract!Spec, ImplementsBestEffortRead

-----------------------------------------------------------------------------
(***************************************************************************)
(* The end of a query.  That it is answered, or released when its client   *)
(* has gone, rests on fairness (AnsweredQueryReplies, GoneClientIsReleased)*)
(* and on two facts without it, for any number of reference ids, results   *)
(* and tokens: it waits for nothing but running calls, and it cannot take  *)
(* steps for ever.                                                         *)
(***************************************************************************)
(* Until there is a reply, the caller is past wg.Wait, or some goroutine   *)
(* can go on, or a shard has been asked and has not answered.              *)
WaitsForCalls ==
  reply = NoReply =>
    \/ \A i \in Positions : ref[i] = "done"
    \/ \E i \in Positions : ref[i] = "querying"
    \/ \E i \in Positions : ref[i] = "fetching" /\ Joined(i)
    \/ \E i \in Positions : \E j \in Results(i) :
         \/ fetch[i][j] = "started"
         \/ fetch[i][j] = "waiting" /\ sem[i] < S3Concurrency
         \/ Holding(i, j)

(* The shards to be asked, and, once they have answered, the steps to come *)
(* of the fetch goroutines, the collecting loops and the caller.           *)
Querying == {i \in Positions : ref[i] = "querying"}

Fetches(states) == {p \in AllResults : fetch[p[1]][p[2]] \in states}

FetchSteps ==
  Cardinality(Fetches({"started"})) + Cardinality(Fetches({"started", "waiting"}))
    + Cardinality(Fetches({"started", "waiting", "calling", "doomed"}))

Uncollected == {p \in AllResults : next[p[1]] <= p[2]}

CallerSteps ==
  Len(request) - merged + (IF reply = NoReply THEN 1 ELSE 0) + (IF cancelled THEN 0 ELSE 1)

StepsAhead == FetchSteps + Cardinality(Uncollected) + CallerSteps

ComesCloser ==
  \/ Cardinality(Querying)' < Cardinality(Querying)
  \/ Cardinality(Querying)' = Cardinality(Querying) /\ StepsAhead' < StepsAhead

LEMMA WaitsAre == IInv => WaitsForCalls
<1> SUFFICES ASSUME IInv,
                    \E i \in Positions : ref[i] # "done",
                    \A i \in Positions : ref[i] # "querying",
                    \A i \in Positions : ~(ref[i] = "fetching" /\ Joined(i))
             PROVE  \E i \in Positions : \E j \in Results(i) :
                      \/ fetch[i][j] = "started"
                      \/ fetch[i][j] = "waiting" /\ sem[i] < S3Concurrency
                      \/ Holding(i, j)
  BY DEF WaitsForCalls
<1>1. PICK i \in Positions : ref[i] = "fetching" /\ ~Joined(i)
  BY DEF IInv, Typed, RefState
<1>2. PICK j \in Results(i) : fetch[i][j] # "done"
  BY <1>1 DEF Joined
<1>3. fetch[i][j] \in FetchState
  BY DEF IInv, Typed
<1>4. CASE fetch[i][j] = "waiting" /\ Holders(i) = {}
  <2>1. sem[i] = 0
    BY <1>4, FS_EmptySet DEF IInv, Position, Throttled
  <2>2. sem[i] < S3Concurrency
    BY <2>1, ConcurrencyAssumption
  <2>. QED
    BY <1>4, <2>2
<1>5. CASE fetch[i][j] = "waiting" /\ Holders(i) # {}
  BY <1>5 DEF Holders
<1>6. CASE fetch[i][j] # "waiting"
  BY <1>2, <1>3, <1>6 DEF FetchState, Holding
<1>. QED
  BY <1>4, <1>5, <1>6

(* Neither the semaphores nor the two barriers can hold a query for good:  *)
(* as long as it is not answered, the caller or a goroutine can go on, or  *)
(* a fetch is under way, which its 30 s end, or a shard is asked, which    *)
(* nothing but the shard and the client's context ends (service.go:103-    *)
(* 186).                                                                   *)
THEOREM QueryWaitsForCalls == Spec => []WaitsForCalls
BY LookupInvariant, WaitsAre, PTL

-----------------------------------------------------------------------------
LEMMA Fewer ==
  ASSUME NEW S, IsFiniteSet(S), NEW T, T \subseteq S
  PROVE  /\ Cardinality(S) \in Nat /\ Cardinality(T) \in Nat
         /\ Cardinality(T) <= Cardinality(S)
         /\ T # S => Cardinality(T) < Cardinality(S)
<1>1. /\ IsFiniteSet(T) /\ Cardinality(T) <= Cardinality(S)
      /\ Cardinality(S) = Cardinality(T) => S = T
  BY FS_Subset
<1>2. Cardinality(S) \in Nat /\ Cardinality(T) \in Nat
  BY <1>1, FS_CardinalityType
<1>. QED
  BY <1>1, <1>2

LEMMA StepsAheadAre ==
  IInv /\ RInv => /\ Cardinality(Querying) \in Nat
                  /\ FetchSteps \in Nat /\ Cardinality(Uncollected) \in Nat /\ CallerSteps \in Nat
                  /\ StepsAhead \in Nat
<1> SUFFICES ASSUME IInv, RInv
             PROVE  /\ Cardinality(Querying) \in Nat
                    /\ FetchSteps \in Nat /\ Cardinality(Uncollected) \in Nat /\ CallerSteps \in Nat
                    /\ StepsAhead \in Nat
  OBVIOUS
<1>1. Len(request) \in Nat /\ Positions = 1 .. Len(request) /\ merged \in Nat /\ merged <= Len(request)
  BY PositionsTyped DEF IInv, Typed, Merged
<1>2. IsFiniteSet(Positions) /\ Querying \subseteq Positions
  BY <1>1, FS_Interval DEF Querying
<1>3. Cardinality(Querying) \in Nat
  BY <1>2, Fewer
<1>4. IsFiniteSet(AllResults)
  BY DEF RInv, Counted
<1>5. \A states : Cardinality(Fetches(states)) \in Nat
  <2>1. \A states : Fetches(states) \subseteq AllResults
    BY DEF Fetches
  <2>. QED
    BY <1>4, <2>1, Fewer
<1>6. Cardinality(Uncollected) \in Nat
  BY <1>4, Fewer DEF Uncollected
<1>7. FetchSteps \in Nat
  BY <1>5 DEF FetchSteps
<1>8. CallerSteps \in Nat
  <2> DEFINE x == IF reply = NoReply THEN 1 ELSE 0
             y == IF cancelled THEN 0 ELSE 1
  <2>1. x \in Nat /\ y \in Nat /\ CallerSteps = Len(request) - merged + x + y
    BY DEF CallerSteps
  <2> HIDE DEF x, y
  <2>. QED
    BY <1>1, <2>1
<1>. QED
  BY <1>3, <1>6, <1>7, <1>8 DEF StepsAhead

LEMMA StepsAheadLater ==
  IInv' /\ RInv' => (/\ Cardinality(Querying) \in Nat
                     /\ FetchSteps \in Nat /\ Cardinality(Uncollected) \in Nat /\ CallerSteps \in Nat
                     /\ StepsAhead \in Nat)'
BY StepsAheadAre, PTL

LEMMA Closer ==
  ASSUME IInv, RInv, IInv', RInv', Querying' = Querying,
         FetchSteps' <= FetchSteps, Cardinality(Uncollected)' <= Cardinality(Uncollected),
         CallerSteps' <= CallerSteps,
         \/ FetchSteps' < FetchSteps
         \/ Cardinality(Uncollected)' < Cardinality(Uncollected)
         \/ CallerSteps' < CallerSteps
  PROVE  ComesCloser
<1>1. FetchSteps \in Nat /\ Cardinality(Uncollected) \in Nat /\ CallerSteps \in Nat
  BY StepsAheadAre
<1>2. /\ FetchSteps' \in Nat /\ Cardinality(Uncollected)' \in Nat /\ CallerSteps' \in Nat
  BY StepsAheadLater
<1>. QED
  BY <1>1, <1>2 DEF ComesCloser, StepsAhead

(* A fetch goroutine goes on: the sets it is in, of those that make up     *)
(* FetchSteps, become smaller, and no other changes.                       *)
LEMMA FetcherCloser ==
  ASSUME IInv, RInv, IInv', RInv', NEW i \in Positions, NEW j \in Results(i), Fetcher(i, j)
  PROVE  ComesCloser
<1>1. /\ UNCHANGED <<request, ref, metas, next, merged, cancelled, reply>>
  BY DEF Fetcher, Resolve, Acquire, GetRange, RefuseRange, GetObjectOK, GetObjectErr, Leave
<1>2. PICK y \in FetchState :
        /\ fetch' = [fetch EXCEPT ![i][j] = y]
        /\ \/ fetch[i][j] = "started" /\ y \in {"waiting", "done"}
           \/ fetch[i][j] = "waiting" /\ y \in {"calling", "doomed"}
           \/ fetch[i][j] \in {"calling", "doomed"} /\ y = "done"
  BY DEF Fetcher, Resolve, Acquire, GetRange, RefuseRange, GetObjectOK, GetObjectErr, Leave,
         Holding, FetchState
<1>3. /\ AllResults' = AllResults /\ IsFiniteSet(AllResults) /\ <<i, j>> \in AllResults
      /\ \A p \in AllResults : p[1] \in Positions /\ p[2] \in Results(p[1]) /\ p = <<p[1], p[2]>>
  <2>1. AllResults' = AllResults
    BY <1>1 DEF AllResults, Positions, Results
  <2>. QED
    BY <2>1, AllResultsAre DEF RInv, Counted
<1>4. \A p \in AllResults : fetch'[p[1]][p[2]] = IF p = <<i, j>> THEN y ELSE fetch[p[1]][p[2]]
  <2>1. \A k \in Positions : \A l \in Results(k) :
          fetch'[k][l] = IF k = i /\ l = j THEN y ELSE fetch[k][l]
    <3>1. /\ fetch' = [fetch EXCEPT ![i] = [fetch[i] EXCEPT ![j] = y]]
          /\ DOMAIN fetch = Positions /\ DOMAIN fetch[i] = Results(i)
      BY <1>2 DEF IInv, Typed
    <3>2. /\ fetch'[i] = [fetch[i] EXCEPT ![j] = y]
          /\ \A k \in Positions : k # i => fetch'[k] = fetch[k]
      BY <3>1
    <3>3. \A l \in Results(i) : fetch'[i][l] = IF l = j THEN y ELSE fetch[i][l]
      BY <3>1, <3>2
    <3>. QED
      BY <3>2, <3>3
  <2>. QED
    BY <1>3, <2>1
<1> DEFINE x == fetch[i][j]
<1>5. ASSUME NEW states, y \in states => x \in states
      PROVE  /\ Fetches(states)' \subseteq Fetches(states)
             /\ x \in states /\ y \notin states => Fetches(states)' # Fetches(states)
  <2>1. \A p : p \in Fetches(states) <=> p \in AllResults /\ fetch[p[1]][p[2]] \in states
    BY DEF Fetches
  <2>2. \A p : p \in Fetches(states)' <=> p \in AllResults /\ fetch'[p[1]][p[2]] \in states
    BY <1>3 DEF Fetches
  <2>3. x \in states /\ y \notin states => <<i, j>> \in Fetches(states) /\ <<i, j>> \notin Fetches(states)'
    BY <1>3, <1>4, <2>1, <2>2
  <2>. QED
    BY <1>3, <1>4, <1>5, <2>1, <2>2, <2>3
<1>6. ASSUME NEW states, y \in states => x \in states
      PROVE  /\ Cardinality(Fetches(states)) \in Nat /\ Cardinality(Fetches(states))' \in Nat
             /\ Cardinality(Fetches(states))' <= Cardinality(Fetches(states))
             /\ x \in states /\ y \notin states
                  => Cardinality(Fetches(states))' < Cardinality(Fetches(states))
  <2>1. IsFiniteSet(Fetches(states))
    BY <1>3, FS_Subset DEF Fetches
  <2>. QED
    BY <1>5, <1>6, <2>1, Fewer
<1> DEFINE a == {"started"}
           b == {"started", "waiting"}
           c == {"started", "waiting", "calling", "doomed"}
<1>7. /\ y \in a => x \in a
      /\ y \in b => x \in b
      /\ y \in c => x \in c
      /\ \/ x \in a /\ y \notin a
         \/ x \in b /\ y \notin b
         \/ x \in c /\ y \notin c
  BY <1>2
<1>8. FetchSteps = Cardinality(Fetches(a)) + Cardinality(Fetches(b)) + Cardinality(Fetches(c))
  BY DEF FetchSteps
<1>9. FetchSteps' = Cardinality(Fetches(a))' + Cardinality(Fetches(b))' + Cardinality(Fetches(c))'
  BY DEF FetchSteps
<1> HIDE DEF a, b, c, x
<1>10. FetchSteps' < FetchSteps
  <2>1. /\ Cardinality(Fetches(a)) \in Nat /\ Cardinality(Fetches(a))' \in Nat
        /\ Cardinality(Fetches(a))' <= Cardinality(Fetches(a))
        /\ x \in a /\ y \notin a => Cardinality(Fetches(a))' < Cardinality(Fetches(a))
    BY <1>6, <1>7
  <2>2. /\ Cardinality(Fetches(b)) \in Nat /\ Cardinality(Fetches(b))' \in Nat
        /\ Cardinality(Fetches(b))' <= Cardinality(Fetches(b))
        /\ x \in b /\ y \notin b => Cardinality(Fetches(b))' < Cardinality(Fetches(b))
    BY <1>6, <1>7
  <2>3. /\ Cardinality(Fetches(c)) \in Nat /\ Cardinality(Fetches(c))' \in Nat
        /\ Cardinality(Fetches(c))' <= Cardinality(Fetches(c))
        /\ x \in c /\ y \notin c => Cardinality(Fetches(c))' < Cardinality(Fetches(c))
    BY <1>6, <1>7
  <2>. QED
    BY <1>7, <1>8, <1>9, <2>1, <2>2, <2>3
<1>11. Querying' = Querying /\ Uncollected' = Uncollected /\ CallerSteps' = CallerSteps
  BY <1>1, <1>3 DEF Querying, Positions, Uncollected, CallerSteps
<1>12. FetchSteps \in Nat /\ FetchSteps' \in Nat /\ Cardinality(Uncollected) \in Nat /\ CallerSteps \in Nat
  BY StepsAheadAre, StepsAheadLater
<1>. QED
  BY <1>10, <1>11, <1>12, Closer

(* The collecting loop passes a slot.                                      *)
LEMMA CollectCloser ==
  ASSUME IInv, RInv, IInv', RInv', NEW i \in Positions, Collect(i)
  PROVE  ComesCloser
<1>1. /\ UNCHANGED <<request, metas, fetch, merged, cancelled, reply>>
      /\ ref[i] = "fetching"
      /\ next' = [next EXCEPT ![i] = @ + 1]
      /\ ref' = [ref EXCEPT ![i] = IF next[i] = Len(metas[i]) THEN "done" ELSE @]
  BY DEF Collect
<1>2. /\ AllResults' = AllResults /\ IsFiniteSet(AllResults) /\ Positions' = Positions
  BY <1>1 DEF AllResults, Positions, Results, RInv, Counted
<1>3. Querying' = Querying
  BY <1>1, <1>2 DEF Querying, IInv, Typed
<1>4. FetchSteps' = FetchSteps /\ CallerSteps' = CallerSteps
  BY <1>1, <1>2 DEF FetchSteps, Fetches, CallerSteps
<1>5. /\ next \in [Positions -> Nat \ {0}] /\ next[i] \in Results(i)
      /\ \A p \in AllResults : p[1] \in Positions /\ p[2] \in Nat
  <2>1. next \in [Positions -> Nat \ {0}]
    BY DEF IInv, Typed
  <2>2. \A k \in Positions : Len(metas[k]) \in Nat /\ Results(k) = 1 .. Len(metas[k])
    BY ResultsTyped DEF IInv
  <2>3. next[i] <= Len(metas[i])
    BY <1>1 DEF IInv, Position, Stage
  <2>4. next[i] \in Results(i)
    BY <2>1, <2>2, <2>3
  <2>5. ASSUME NEW p \in AllResults
        PROVE  p[1] \in Positions /\ p[2] \in Nat
    <3>1. p[1] \in Positions /\ p[2] \in Results(p[1])
      BY AllResultsAre
    <3>. QED
      BY <2>2, <3>1
  <2>. QED
    BY <2>1, <2>4, <2>5
<1>6. \A p \in AllResults : next'[p[1]] <= p[2] => next[p[1]] <= p[2]
  BY <1>1, <1>5
<1>7. Uncollected' \subseteq Uncollected
  BY <1>2, <1>6 DEF Uncollected
<1>8. <<i, next[i]>> \in Uncollected /\ <<i, next[i]>> \notin Uncollected'
  <2>1. <<i, next[i]>> \in AllResults
    BY <1>5, AllResultsAre
  <2>2. next'[i] = next[i] + 1 /\ next[i] \in Nat
    BY <1>1, <1>5
  <2>. QED
    BY <1>2, <2>1, <2>2 DEF Uncollected
<1>9. Cardinality(Uncollected)' < Cardinality(Uncollected)
  <2>1. IsFiniteSet(Uncollected)
    BY <1>2, FS_Subset DEF Uncollected
  <2>. QED
    BY <1>7, <1>8, <2>1, Fewer
<1>10. FetchSteps \in Nat /\ CallerSteps \in Nat
       /\ Cardinality(Uncollected) \in Nat /\ Cardinality(Uncollected)' \in Nat
  BY StepsAheadAre, StepsAheadLater
<1>. QED
  BY <1>3, <1>4, <1>9, <1>10, Closer

(* A shard has answered, or the call has failed: there is one less to ask. *)
LEMMA AskedCloser ==
  ASSUME IInv, NEW i \in Positions, RangeQueryOK(i) \/ RangeQueryErr(i)
  PROVE  ComesCloser
<1>1. PICK x \in {"fetching", "done"} : ref' = [ref EXCEPT ![i] = x]
  BY DEF RangeQueryOK, RangeQueryErr
<1>2. request' = request /\ ref[i] = "querying"
  BY DEF RangeQueryOK, RangeQueryErr
<1>3. Querying' \subseteq Querying /\ i \in Querying /\ i \notin Querying'
  BY <1>1, <1>2 DEF Querying, Positions, IInv, Typed
<1>4. IsFiniteSet(Querying)
  <2>1. Len(request) \in Nat /\ Positions = 1 .. Len(request)
    BY PositionsTyped DEF IInv
  <2>2. IsFiniteSet(Positions) /\ Querying \subseteq Positions
    BY <2>1, FS_Interval DEF Querying
  <2>. QED
    BY <2>2, FS_Subset
<1>5. Cardinality(Querying') < Cardinality(Querying)
  BY <1>3, <1>4, Fewer
<1>. QED
  BY <1>5 DEF ComesCloser

(* The caller merges a position or replies, or the client leaves.          *)
LEMMA CallerCloser ==
  ASSUME IInv, RInv, IInv', RInv', Caller \/ ClientGone
  PROVE  ComesCloser
<1>1. UNCHANGED <<request, ref, metas, fetch, next>>
  BY DEF Caller, RejectEmpty, Merge, Respond, ClientGone
<1>2. Querying' = Querying /\ FetchSteps' = FetchSteps /\ Uncollected' = Uncollected
  BY <1>1 DEF Querying, FetchSteps, Fetches, Uncollected, AllResults, Positions, Results
<1>3. CallerSteps' < CallerSteps
  <2> DEFINE n == Len(request)
             x == IF reply = NoReply THEN 1 ELSE 0
             y == IF cancelled THEN 0 ELSE 1
  <2>1. n \in Nat /\ merged \in Nat /\ n' = n
    BY <1>1, PositionsTyped DEF IInv, Typed
  <2>2. x \in Nat /\ y \in Nat /\ CallerSteps = n - merged + x + y
        /\ CallerSteps' = n' - merged' + x' + y'
    BY DEF CallerSteps
  <2>3. \/ merged' = merged + 1 /\ x' = x /\ y' = y
        \/ merged' = merged /\ x = 1 /\ x' = 0 /\ y' = y
        \/ merged' = merged /\ x' = x /\ y = 1 /\ y' = 0
    BY DEF Caller, RejectEmpty, Merge, Respond, ClientGone, NoReply
  <2> HIDE DEF n, x, y
  <2>. QED
    BY <2>1, <2>2, <2>3
<1>4. FetchSteps \in Nat /\ CallerSteps \in Nat /\ CallerSteps' \in Nat
       /\ Cardinality(Uncollected) \in Nat
  BY StepsAheadAre, StepsAheadLater
<1>. QED
  BY <1>2, <1>3, <1>4, Closer

LEMMA StepComesCloser == IInv /\ RInv /\ [Next]_vars => [ComesCloser]_vars
<1> SUFFICES ASSUME IInv, RInv, Next, ~UNCHANGED vars PROVE ComesCloser
  OBVIOUS
<1>1. IInv' /\ RInv'
  BY StepKeeps, StepIsRight
<1>2. ASSUME NEW i \in Positions, Worker(i)
      PROVE  ComesCloser
  BY <1>1, <1>2, AskedCloser, FetcherCloser, CollectCloser DEF Worker
<1>. QED
  BY <1>1, <1>2, CallerCloser DEF Next, Finished

(* Every step of a query lowers a pair of natural numbers: it takes        *)
(* finitely many, however the goroutines of its positions interleave,      *)
(* whatever the shards and S3 answer and whenever the client leaves        *)
(* (service.go:72-208).                                                    *)
THEOREM QueryIsFinite ==
  Spec => /\ [](Cardinality(Querying) \in Nat /\ StepsAhead \in Nat)
          /\ [][ComesCloser]_vars
<1>1. IInv /\ RInv => Cardinality(Querying) \in Nat /\ StepsAhead \in Nat
  BY StepsAheadAre
<1>. QED
  BY <1>1, LookupResultInvariant, StepComesCloser, PTL DEF Spec
=============================================================================
