------------------------ MODULE ServiceProcessProofs ------------------------
(***************************************************************************)
(* Proofs about the older process, for any finite number of shards, any    *)
(* buckets and any number of queries: first of the connectivity check      *)
(* alone, then of Start, the server and Stop alone, then of the two        *)
(* composed, which implement both.                                         *)
(***************************************************************************)
EXTENDS ServiceProcess, FiniteSetTheorems, TLAPS

(***************************************************************************)
(* The connectivity check.  The invariant counts: the WaitGroup counts the *)
(* goroutines at work, and the channel holds one error for each unhealthy  *)
(* shard whose goroutine is past its send.                                 *)
(***************************************************************************)
Active   == {s \in Shards : pinger[s] \in {"pinging", "sending", "leaving"}}
Reported == {s \in unhealthy : pinger[s] \in {"leaving", "done"}}

About(q)    == {q[k] : k \in DOMAIN q}
Distinct(q) == \A k, l \in DOMAIN q : q[k] = q[l] => k = l

Counted == wg = Cardinality(Active)

Places ==
  /\ todo = {s \in Shards : pinger[s] = "none"}
  /\ \A s \in Shards : pinger[s] = "sending" => s \in unhealthy
  /\ \A s \in unhealthy : pinger[s] \in {"sending", "leaving", "done"}
  /\ caller # "launching" => \A s \in Shards : pinger[s] = "done"
  /\ closed <=> caller # "launching"
  /\ caller = "launching" => errs = <<>>
  /\ caller = "returned" => errCh = <<>>

Accounted ==
  /\ Distinct(errs) /\ Distinct(errCh)
  /\ About(errs) \cap About(errCh) = {}
  /\ About(errs) \cup About(errCh) = Reported
  /\ caller = "launching" => Len(errCh) = Cardinality(Reported)

(* The inductive invariant.                                                *)
FanInv == CheckTypeOK /\ Counted /\ Places /\ Accounted

-----------------------------------------------------------------------------
(* A set of shards has a size, and gains or loses one with an element.     *)
LEMMA ShardSets ==
  ASSUME NEW T, T \subseteq Shards, NEW s \in Shards
  PROVE  /\ Cardinality(T) \in Nat
         /\ Cardinality(T) <= Cardinality(Shards)
         /\ s \notin T => Cardinality(T) < Cardinality(Shards)
         /\ s \notin T => Cardinality(T \cup {s}) = Cardinality(T) + 1
         /\ s \in T => Cardinality(T \ {s}) = Cardinality(T) - 1
<1>1. IsFiniteSet(T) /\ Cardinality(T) <= Cardinality(Shards)
  BY FS_Subset, ShardsAssumption
<1>2. Cardinality(T) \in Nat /\ Cardinality(Shards) \in Nat
  BY <1>1, FS_CardinalityType, ShardsAssumption
<1>3. Cardinality(Shards) = Cardinality(T) => Shards = T
  BY FS_Subset, ShardsAssumption
<1>4. s \notin T => Cardinality(T) < Cardinality(Shards)
  BY <1>1, <1>2, <1>3
<1>5. s \notin T => Cardinality(T \cup {s}) = Cardinality(T) + 1
  BY <1>1, FS_AddElement
<1>6. s \in T => Cardinality(T \ {s}) = Cardinality(T) - 1
  BY <1>1, FS_RemoveElement
<1>. QED
  BY <1>1, <1>2, <1>4, <1>5, <1>6

(* What Append and Tail do to the shards a channel is about.               *)
LEMMA AppendAbout ==
  ASSUME NEW q \in Seq(Shards), NEW s \in Shards
  PROVE  /\ Append(q, s) \in Seq(Shards)
         /\ Len(Append(q, s)) = Len(q) + 1
         /\ About(Append(q, s)) = About(q) \cup {s}
         /\ Distinct(q) /\ s \notin About(q) => Distinct(Append(q, s))
<1>. DEFINE r == Append(q, s)
<1>1. /\ r \in Seq(Shards) /\ Len(r) = Len(q) + 1 /\ Len(q) \in Nat
      /\ DOMAIN q = 1 .. Len(q) /\ DOMAIN r = 1 .. Len(q) + 1
  OBVIOUS
<1>2. /\ \A k \in 1 .. Len(q) : r[k] = q[k]
      /\ r[Len(q) + 1] = s
  OBVIOUS
<1>. HIDE DEF r
<1>3. 1 .. Len(q) + 1 = (1 .. Len(q)) \cup {Len(q) + 1}
  BY <1>1
<1>4. About(r) = About(q) \cup {s}
  BY <1>1, <1>2, <1>3 DEF About
<1>5. ASSUME Distinct(q), s \notin About(q)
      PROVE  Distinct(r)
  <2>1. ASSUME NEW k \in DOMAIN r, NEW l \in DOMAIN r, r[k] = r[l]
        PROVE  k = l
    <3>1. CASE k \in 1 .. Len(q) /\ l \in 1 .. Len(q)
      BY <3>1, <2>1, <1>1, <1>2, <1>5 DEF Distinct
    <3>2. CASE k = Len(q) + 1 /\ l \in 1 .. Len(q)
      BY <3>2, <2>1, <1>1, <1>2, <1>5 DEF About
    <3>3. CASE l = Len(q) + 1 /\ k \in 1 .. Len(q)
      BY <3>3, <2>1, <1>1, <1>2, <1>5 DEF About
    <3>4. CASE k = Len(q) + 1 /\ l = Len(q) + 1
      BY <3>4
    <3>. QED
      BY <3>1, <3>2, <3>3, <3>4, <1>1, <1>3
  <2>. QED
    BY <2>1 DEF Distinct
<1>. QED
  BY <1>1, <1>4, <1>5 DEF r

LEMMA TailAbout ==
  ASSUME NEW q \in Seq(Shards), q # <<>>, Distinct(q)
  PROVE  /\ Head(q) \in Shards
         /\ Tail(q) \in Seq(Shards)
         /\ Len(Tail(q)) = Len(q) - 1
         /\ Distinct(Tail(q))
         /\ About(q) = About(Tail(q)) \cup {Head(q)}
         /\ Head(q) \notin About(Tail(q))
<1>. DEFINE t == Tail(q)  h == Head(q)
<1>1. /\ h \in Shards /\ t \in Seq(Shards) /\ Len(t) = Len(q) - 1
      /\ Len(q) \in Nat /\ Len(q) >= 1
      /\ DOMAIN q = 1 .. Len(q) /\ DOMAIN t = 1 .. Len(q) - 1
      /\ h = q[1]
  OBVIOUS
<1>2. \A k \in 1 .. Len(q) - 1 : t[k] = q[k + 1]
  OBVIOUS
<1>. HIDE DEF t, h
<1>3. Distinct(t)
  <2>1. ASSUME NEW k \in 1 .. Len(q) - 1, NEW l \in 1 .. Len(q) - 1, t[k] = t[l]
        PROVE  k = l
    <3>1. k + 1 \in 1 .. Len(q) /\ l + 1 \in 1 .. Len(q) /\ q[k + 1] = q[l + 1]
      BY <2>1, <1>1, <1>2
    <3>2. k + 1 = l + 1
      BY <3>1, <1>1 DEF Distinct
    <3>. QED
      BY <3>2
  <2>. QED
    BY <2>1, <1>1 DEF Distinct
<1>4. h \notin About(t)
  <2>1. ASSUME NEW k \in 1 .. Len(q) - 1, t[k] = h
        PROVE  FALSE
    <3>1. k + 1 \in 1 .. Len(q) /\ 1 \in 1 .. Len(q) /\ q[k + 1] = q[1]
      BY <2>1, <1>1, <1>2
    <3>2. k + 1 = 1
      BY <3>1, <1>1 DEF Distinct
    <3>. QED
      BY <3>2
  <2>. QED
    BY <2>1, <1>1 DEF About
<1>5. \A k \in 1 .. Len(q) : q[k] \in About(t) \cup {h}
  <2>1. ASSUME NEW k \in 1 .. Len(q)
        PROVE  q[k] \in About(t) \cup {h}
    <3>1. CASE k = 1
      BY <3>1, <1>1
    <3>2. CASE k # 1
      <4>1. k - 1 \in 1 .. Len(q) - 1 /\ (k - 1) + 1 = k
        BY <3>2, <1>1
      <4>2. t[k - 1] = q[k]
        BY <4>1, <1>2
      <4>. QED
        BY <4>1, <4>2, <1>1 DEF About
    <3>. QED
      BY <3>1, <3>2
  <2>. QED
    BY <2>1
<1>6. About(t) \cup {h} \subseteq About(q)
  <2>1. ASSUME NEW k \in 1 .. Len(q) - 1
        PROVE  t[k] \in About(q)
    <3>1. k + 1 \in 1 .. Len(q) /\ t[k] = q[k + 1]
      BY <1>1, <1>2
    <3>. QED
      BY <3>1, <1>1 DEF About
  <2>2. h \in About(q)
    <3>1. 1 \in 1 .. Len(q)
      BY <1>1
    <3>. QED
      BY <3>1, <1>1 DEF About
  <2>. QED
    BY <2>1, <2>2, <1>1 DEF About
<1>7. About(q) = About(t) \cup {h}
  BY <1>5, <1>6, <1>1 DEF About
<1>. QED
  BY <1>1, <1>3, <1>4, <1>7 DEF t, h

-----------------------------------------------------------------------------
(* FanInv holds at first.                                                  *)
LEMMA InitFanInv == CheckInit => FanInv
<1>. SUFFICES ASSUME CheckInit PROVE FanInv
  OBVIOUS
<1>1. Active = {} /\ Reported = {}
  BY DEF CheckInit, Active, Reported
<1>2. Cardinality({}) = 0
  BY FS_EmptySet
<1>3. Capacity \in Nat
  BY FS_CardinalityType, ShardsAssumption DEF Capacity
<1>4. CheckTypeOK
  <2>1. <<>> \in Seq(Shards) /\ Len(<<>>) = 0
    OBVIOUS
  <2>2. pinger \in [Shards -> PingerState]
    BY DEF CheckInit, PingerState
  <2>3. errCh \in Seq(Shards) /\ Len(errCh) <= Capacity /\ errs \in Seq(Shards)
    <3>1. errCh = <<>> /\ errs = <<>>
      BY DEF CheckInit
    <3>2. Len(errCh) = 0
      BY <2>1, <3>1
    <3>. QED
      BY <1>3, <2>1, <3>1, <3>2
  <2>4. /\ caller \in {"launching", "draining", "returned"} /\ todo \subseteq Shards
        /\ wg \in Nat /\ closed \in BOOLEAN /\ unhealthy \subseteq Shards
    BY DEF CheckInit
  <2>. QED
    BY <2>2, <2>3, <2>4 DEF CheckTypeOK
<1>5. Counted
  BY <1>1, <1>2 DEF CheckInit, Counted
<1>6. Places
  BY DEF CheckInit, Places
<1>7. Accounted
  BY <1>1, <1>2 DEF CheckInit, Accounted, Distinct, About
<1>. QED
  BY <1>4, <1>5, <1>6, <1>7 DEF FanInv

(* Every step preserves it, one lemma an action.                           *)
LEMMA LaunchFanInv ==
  ASSUME FanInv, NEW s \in Shards, Launch(s)
  PROVE  FanInv'
<1>. USE DEF FanInv, Launch
<1>1. pinger[s] = "none"
  BY DEF Places
<1>2. Active' = Active \cup {s} /\ s \notin Active
  BY <1>1 DEF Active, CheckTypeOK
<1>3. Reported' = Reported
  BY <1>1 DEF Reported, CheckTypeOK
<1>4. CheckTypeOK'
  BY DEF CheckTypeOK, PingerState, Capacity
<1>5. Cardinality(Active') = Cardinality(Active) + 1
  BY <1>2, ShardSets DEF Active
<1>6. Counted'
  BY <1>5 DEF Counted
<1>7. Places'
  BY <1>1 DEF Places, CheckTypeOK
<1>8. Accounted'
  BY <1>3 DEF Accounted
<1>. QED
  BY <1>4, <1>6, <1>7, <1>8

LEMMA PingOKFanInv ==
  ASSUME FanInv, NEW s \in Shards, PingOK(s)
  PROVE  FanInv'
<1>. USE DEF FanInv, PingOK
<1>1. s \notin unhealthy
  BY DEF Places
<1>2. Active' = Active
  BY DEF Active, CheckTypeOK
<1>3. Reported' = Reported
  BY <1>1 DEF Reported, CheckTypeOK
<1>4. CheckTypeOK'
  BY DEF CheckTypeOK, PingerState, Capacity
<1>5. Counted'
  BY <1>2 DEF Counted
<1>6. Places'
  BY <1>1 DEF Places, CheckTypeOK
<1>7. Accounted'
  BY <1>3 DEF Accounted
<1>. QED
  BY <1>4, <1>5, <1>6, <1>7

LEMMA PingErrFanInv ==
  ASSUME FanInv, NEW s \in Shards, PingErr(s)
  PROVE  FanInv'
<1>. USE DEF FanInv, PingErr
<1>2. Active' = Active
  BY DEF Active, CheckTypeOK
<1>3. Reported' = Reported
  BY DEF Reported, CheckTypeOK
<1>4. CheckTypeOK'
  BY DEF CheckTypeOK, PingerState, Capacity
<1>5. Counted'
  BY <1>2 DEF Counted
<1>6. Places'
  BY DEF Places, CheckTypeOK
<1>7. Accounted'
  BY <1>3 DEF Accounted
<1>. QED
  BY <1>4, <1>5, <1>6, <1>7

LEMMA SendFanInv ==
  ASSUME FanInv, NEW s \in Shards, Send(s)
  PROVE  FanInv'
<1>. USE DEF FanInv, Send
<1>1. s \in unhealthy /\ caller = "launching" /\ errs = <<>>
  BY DEF Places
<1>2. Active' = Active
  BY DEF Active, CheckTypeOK
<1>3. Reported' = Reported \cup {s} /\ s \notin Reported /\ Reported \subseteq Shards
  BY <1>1 DEF Reported, CheckTypeOK
<1>4. About(errs) = {} /\ About(errCh) = Reported /\ errCh \in Seq(Shards)
  BY <1>1 DEF Accounted, About, CheckTypeOK
<1>5. /\ errCh' \in Seq(Shards) /\ Len(errCh') = Len(errCh) + 1
      /\ About(errCh') = Reported' /\ Distinct(errCh')
  BY <1>3, <1>4, AppendAbout DEF Accounted
<1>6. Cardinality(Reported') = Cardinality(Reported) + 1
  BY <1>3, ShardSets
<1>7. Capacity \in Nat /\ Len(errCh) \in Nat
  BY <1>4, FS_CardinalityType, ShardsAssumption DEF Capacity
<1>8. Len(errCh') <= Capacity'
  BY <1>5, <1>7 DEF Capacity
<1>9. CheckTypeOK'
  BY <1>5, <1>8 DEF CheckTypeOK, PingerState
<1>10. Counted'
  BY <1>2 DEF Counted
<1>11. Places'
  BY <1>1 DEF Places, CheckTypeOK
<1>12. Accounted'
  <2>1. Len(errCh') = Cardinality(Reported')
    BY <1>1, <1>5, <1>6 DEF Accounted
  <2>2. About(errs') = {} /\ Distinct(errs')
    BY <1>4 DEF Accounted
  <2>. QED
    BY <2>1, <2>2, <1>5 DEF Accounted
<1>. QED
  BY <1>9, <1>10, <1>11, <1>12

LEMMA DoneFanInv ==
  ASSUME FanInv, NEW s \in Shards, Done(s)
  PROVE  FanInv'
<1>. USE DEF FanInv, Done
<1>1. Active' = Active \ {s} /\ s \in Active
  BY DEF Active, CheckTypeOK
<1>2. Reported' = Reported
  BY DEF Reported, CheckTypeOK
<1>3. Cardinality(Active') = Cardinality(Active) - 1 /\ Cardinality(Active') \in Nat
  BY <1>1, ShardSets DEF Active
<1>4. wg' \in Nat
  BY <1>3 DEF Counted
<1>5. CheckTypeOK'
  BY <1>4 DEF CheckTypeOK, PingerState, Capacity
<1>6. Counted'
  BY <1>3 DEF Counted
<1>7. Places'
  BY DEF Places, CheckTypeOK
<1>8. Accounted'
  BY <1>2 DEF Accounted
<1>. QED
  BY <1>5, <1>6, <1>7, <1>8

LEMMA JoinFanInv ==
  ASSUME FanInv, Join
  PROVE  FanInv'
<1>. USE DEF FanInv, Join
<1>1. Active = {}
  <2>1. IsFiniteSet(Active)
    BY FS_Subset, ShardsAssumption DEF Active
  <2>. QED
    BY <2>1, FS_EmptySet DEF Counted
<1>2. \A s \in Shards : pinger[s] = "done"
  BY <1>1 DEF Active, Places, CheckTypeOK, PingerState
<1>3. Active' = Active /\ Reported' = Reported
  BY DEF Active, Reported
<1>4. CheckTypeOK'
  BY DEF CheckTypeOK, Capacity
<1>5. Counted'
  BY <1>3 DEF Counted
<1>6. Places'
  BY <1>2 DEF Places
<1>7. Accounted'
  BY <1>3 DEF Accounted
<1>. QED
  BY <1>4, <1>5, <1>6, <1>7

LEMMA DrainFanInv ==
  ASSUME FanInv, Drain
  PROVE  FanInv'
<1>. USE DEF FanInv, Drain
<1>1. Active' = Active /\ Reported' = Reported
  BY DEF Active, Reported
<1>2. errCh \in Seq(Shards) /\ Len(errCh) <= Capacity /\ errs \in Seq(Shards)
  BY DEF CheckTypeOK
<1>3. /\ Head(errCh) \in Shards /\ errCh' \in Seq(Shards)
      /\ Len(errCh') = Len(errCh) - 1 /\ Distinct(errCh')
      /\ About(errCh) = About(errCh') \cup {Head(errCh)}
      /\ Head(errCh) \notin About(errCh')
  BY <1>2, TailAbout DEF Accounted
<1>4. Head(errCh) \notin About(errs)
  BY <1>3 DEF Accounted
<1>5. /\ errs' \in Seq(Shards) /\ About(errs') = About(errs) \cup {Head(errCh)}
      /\ Distinct(errs')
  BY <1>2, <1>3, <1>4, AppendAbout DEF Accounted
<1>6. Len(errCh') <= Capacity'
  BY <1>2, <1>3, FS_CardinalityType, ShardsAssumption DEF Capacity
<1>7. CheckTypeOK'
  BY <1>3, <1>5, <1>6 DEF CheckTypeOK
<1>8. Counted'
  BY <1>1 DEF Counted
<1>9. Places'
  BY DEF Places
<1>10. Accounted'
  BY <1>1, <1>3, <1>4, <1>5 DEF Accounted
<1>. QED
  BY <1>7, <1>8, <1>9, <1>10

LEMMA ReturnFanInv ==
  ASSUME FanInv, Return
  PROVE  FanInv'
<1>. USE DEF FanInv, Return
<1>1. Active' = Active /\ Reported' = Reported
  BY DEF Active, Reported
<1>2. CheckTypeOK'
  BY DEF CheckTypeOK, Capacity
<1>3. Counted'
  BY <1>1 DEF Counted
<1>4. Places'
  BY DEF Places
<1>5. Accounted'
  BY <1>1 DEF Accounted
<1>. QED
  BY <1>2, <1>3, <1>4, <1>5

LEMMA StutterFanInv ==
  ASSUME FanInv, UNCHANGED checkVars
  PROVE  FanInv'
<1>1. Active' = Active /\ Reported' = Reported
  BY DEF checkVars, Active, Reported
<1>2. CheckTypeOK' /\ Counted' /\ Places' /\ Accounted'
  BY <1>1 DEF checkVars, FanInv, CheckTypeOK, Counted, Places, Accounted, Capacity
<1>. QED
  BY <1>2 DEF FanInv

(* FanInv is an invariant of the check.                                    *)
THEOREM FanInvariant == CheckSpec => []FanInv
<1>1. ASSUME FanInv, [CheckNext]_checkVars
      PROVE  FanInv'
  <2>1. ASSUME NEW s \in Shards, Launch(s)
        PROVE  FanInv'
    BY <1>1, <2>1, LaunchFanInv
  <2>2. ASSUME NEW s \in Shards, Pinger(s)
        PROVE  FanInv'
    BY <1>1, <2>2, PingOKFanInv, PingErrFanInv, SendFanInv, DoneFanInv DEF Pinger
  <2>3. CASE Join
    BY <1>1, <2>3, JoinFanInv
  <2>4. CASE Drain
    BY <1>1, <2>4, DrainFanInv
  <2>5. CASE Return
    BY <1>1, <2>5, ReturnFanInv
  <2>6. CASE CheckFinished \/ UNCHANGED checkVars
    BY <1>1, <2>6, StutterFanInv DEF CheckFinished
  <2>. QED
    BY <1>1, <2>1, <2>2, <2>3, <2>4, <2>5, <2>6 DEF CheckNext
<1>. QED
  BY InitFanInv, <1>1, PTL DEF CheckSpec

(* The channel is never over its capacity (pool.go:74, main.go:423).       *)
THEOREM FanInTypeCorrect == CheckSpec => []CheckTypeOK
<1>1. FanInv => CheckTypeOK
  BY DEF FanInv
<1>. QED
  BY <1>1, FanInvariant, PTL

(* The channel has one place more than there are errors in it, or than     *)
(* goroutines past their send, as long as one has still to send.           *)
LEMMA RoomToSend == FanInv => SendersNeverBlock
<1> SUFFICES ASSUME FanInv, NEW s \in Shards, pinger[s] = "sending"
             PROVE  ~closed /\ Len(errCh) < Capacity
  BY DEF SendersNeverBlock
<1>1. caller = "launching" /\ ~closed
  BY DEF FanInv, Places
<1>2. s \notin Reported /\ Reported \subseteq Shards
  BY DEF FanInv, Reported, CheckTypeOK
<1>3. Cardinality(Reported) < Cardinality(Shards)
  BY <1>2, ShardSets
<1>. QED
  BY <1>1, <1>3 DEF FanInv, Accounted, Capacity

(* No goroutine of the check ever waits for room in the channel its caller *)
(* reads only after it, whatever the number of shards (pool.go:74-95).     *)
THEOREM FanInSendersNeverBlock == CheckSpec => []SendersNeverBlock
BY FanInvariant, RoomToSend, PTL

(* The combined error names each unhealthy shard once (pool.go:97-104).    *)
THEOREM FanInErrorNamesTheUnhealthy == CheckSpec => []ErrorNamesTheUnhealthy
<1>1. ASSUME FanInv, caller = "returned"
      PROVE  About(errs) = unhealthy /\ Distinct(errs)
  <2>1. errCh = <<>> /\ Reported = unhealthy
    BY <1>1 DEF FanInv, Places, Reported, CheckTypeOK
  <2>2. About(errCh) = {}
    BY <2>1 DEF About
  <2>. QED
    BY <1>1, <2>1, <2>2 DEF FanInv, Accounted
<1>2. FanInv => ErrorNamesTheUnhealthy
  BY <1>1 DEF ErrorNamesTheUnhealthy, About, Distinct
<1>. QED
  BY <1>2, FanInvariant, PTL

-----------------------------------------------------------------------------
(***************************************************************************)
(* The end of the check, without the fairness that makes the steps happen: *)
(* the caller waits for nothing but goroutines that can go on, and there   *)
(* are finitely many steps.                                                *)
(***************************************************************************)
(* At wg.Wait with goroutines at work, one waits for its shard, for which  *)
(* it has 5 s, or has room to send, or only has to leave.                  *)
CheckWaitsForPings ==
  caller = "launching" =>
    \/ todo # {} \/ wg = 0
    \/ \E s \in Shards :
         \/ pinger[s] \in {"pinging", "leaving"}
         \/ pinger[s] = "sending" /\ ~closed /\ Len(errCh) < Capacity

(* The steps to come: of a goroutine its start, the answer, the send, with *)
(* what the caller does of it, and the end; of the caller, the errors in   *)
(* the channel, the end of the wait and the return.                        *)
In(states) == {s \in Shards : pinger[s] \in states}

PingSteps ==
  Cardinality(In({"none"})) + Cardinality(In({"none", "pinging"}))
    + 2 * Cardinality(In({"none", "pinging", "sending"}))
    + Cardinality(In({"none", "pinging", "sending", "leaving"}))

CallerSteps ==
  CASE caller = "launching" -> 2
    [] caller = "draining"  -> 1
    [] OTHER                -> 0

CheckSteps == PingSteps + Len(errCh) + CallerSteps

CheckComesCloser == CheckSteps' < CheckSteps

LEMMA CheckWaitsAre == FanInv => CheckWaitsForPings
<1> SUFFICES ASSUME FanInv, wg # 0
             PROVE  \E s \in Shards :
                      \/ pinger[s] \in {"pinging", "leaving"}
                      \/ pinger[s] = "sending" /\ ~closed /\ Len(errCh) < Capacity
  BY DEF CheckWaitsForPings
<1>1. Active # {}
  BY FS_EmptySet DEF FanInv, Counted
<1>. QED
  BY <1>1, RoomToSend DEF Active, SendersNeverBlock

(* Neither wg.Wait nor the channel can hold the check for good             *)
(* (pool.go:74-95, main.go:423-448).                                       *)
THEOREM FanInWaitsForPings == CheckSpec => []CheckWaitsForPings
BY FanInvariant, CheckWaitsAre, PTL

-----------------------------------------------------------------------------
(* A goroutine that goes on leaves the sets of In, and enters none.        *)
LEMMA PingerMoves ==
  ASSUME CheckTypeOK, NEW s \in Shards, NEW y, pinger' = [pinger EXCEPT ![s] = y],
         NEW states, y \in states => pinger[s] \in states
  PROVE  /\ Cardinality(In(states)) \in Nat /\ Cardinality(In(states))' \in Nat
         /\ Cardinality(In(states))' <= Cardinality(In(states))
         /\ pinger[s] \in states /\ y \notin states
              => Cardinality(In(states))' < Cardinality(In(states))
<1> DEFINE S == In(states)
           T == IF pinger[s] \in states /\ y \notin states THEN {s} ELSE {}
<1>1. S \subseteq Shards /\ In(states)' = S \ T
  BY DEF In, CheckTypeOK
<1>2. CASE T = {}
  <2>1. In(states)' = S
    BY <1>1, <1>2
  <2>2. ~(pinger[s] \in states /\ y \notin states)
    BY <1>2
  <2>3. Cardinality(S) \in Nat
    BY <1>1, ShardSets
  <2> HIDE DEF S
  <2>4. Cardinality(S) <= Cardinality(S)
    BY <2>3
  <2>. QED
    BY <2>1, <2>2, <2>3, <2>4 DEF S
<1>3. CASE T # {}
  <2>1. In(states)' = S \ {s} /\ s \in S
    BY <1>1, <1>3 DEF In
  <2>2. Cardinality(S) \in Nat /\ Cardinality(S \ {s}) \in Nat
        /\ Cardinality(S \ {s}) = Cardinality(S) - 1
    <3>1. S \ {s} \subseteq Shards
      BY <1>1
    <3>. QED
      BY <1>1, <2>1, <3>1, ShardSets
  <2> HIDE DEF S
  <2>3. Cardinality(S \ {s}) < Cardinality(S) /\ Cardinality(S \ {s}) <= Cardinality(S)
    BY <2>2
  <2>. QED
    BY <2>1, <2>2, <2>3 DEF S
<1>. QED
  BY <1>2, <1>3

LEMMA CheckStepsAre ==
  FanInv => PingSteps \in Nat /\ Len(errCh) \in Nat /\ CallerSteps \in Nat /\ CheckSteps \in Nat
<1> SUFFICES ASSUME FanInv
             PROVE  PingSteps \in Nat /\ Len(errCh) \in Nat /\ CallerSteps \in Nat /\ CheckSteps \in Nat
  OBVIOUS
<1>1. \A states : Cardinality(In(states)) \in Nat
  <2>1. \A states : In(states) \subseteq Shards
    BY DEF In
  <2>2. \A states : IsFiniteSet(In(states))
    BY <2>1, ShardsAssumption, FS_Subset
  <2>. QED
    BY <2>2, FS_CardinalityType
<1>2. PingSteps \in Nat
  BY <1>1 DEF PingSteps
<1>3. Len(errCh) \in Nat /\ CallerSteps \in Nat
  BY DEF FanInv, CheckTypeOK, CallerSteps
<1>. QED
  BY <1>2, <1>3 DEF CheckSteps

LEMMA CheckStepsLater ==
  FanInv' => (PingSteps \in Nat /\ Len(errCh) \in Nat /\ CallerSteps \in Nat /\ CheckSteps \in Nat)'
BY CheckStepsAre, PTL

(* A goroutine goes on: by more than one when it sends.                    *)
LEMMA PingStepsFall ==
  ASSUME CheckTypeOK, NEW s \in Shards, NEW y, pinger' = [pinger EXCEPT ![s] = y],
         \/ pinger[s] = "none" /\ y = "pinging"
         \/ pinger[s] = "pinging" /\ y \in {"sending", "leaving"}
         \/ pinger[s] = "sending" /\ y = "leaving"
         \/ pinger[s] = "leaving" /\ y = "done"
  PROVE  /\ PingSteps \in Nat /\ PingSteps' \in Nat /\ PingSteps' < PingSteps
         /\ pinger[s] = "sending" => PingSteps' + 1 < PingSteps
<1> DEFINE a == {"none"}
           b == {"none", "pinging"}
           c == {"none", "pinging", "sending"}
           d == {"none", "pinging", "sending", "leaving"}
           x == pinger[s]
<1>1. /\ y \in a => x \in a
      /\ y \in b => x \in b
      /\ y \in c => x \in c
      /\ y \in d => x \in d
      /\ \/ x \in a /\ y \notin a
         \/ x \in b /\ y \notin b
         \/ x \in c /\ y \notin c
         \/ x \in d /\ y \notin d
      /\ x = "sending" => x \in c /\ y \notin c
  OBVIOUS
<1>2. PingSteps = Cardinality(In(a)) + Cardinality(In(b)) + 2 * Cardinality(In(c)) + Cardinality(In(d))
  BY DEF PingSteps
<1>3. PingSteps' = Cardinality(In(a))' + Cardinality(In(b))' + 2 * Cardinality(In(c))' + Cardinality(In(d))'
  BY DEF PingSteps
<1> HIDE DEF a, b, c, d
<1>4. /\ Cardinality(In(a)) \in Nat /\ Cardinality(In(a))' \in Nat
      /\ Cardinality(In(a))' <= Cardinality(In(a))
      /\ x \in a /\ y \notin a => Cardinality(In(a))' < Cardinality(In(a))
  BY <1>1, PingerMoves
<1>5. /\ Cardinality(In(b)) \in Nat /\ Cardinality(In(b))' \in Nat
      /\ Cardinality(In(b))' <= Cardinality(In(b))
      /\ x \in b /\ y \notin b => Cardinality(In(b))' < Cardinality(In(b))
  BY <1>1, PingerMoves
<1>6. /\ Cardinality(In(c)) \in Nat /\ Cardinality(In(c))' \in Nat
      /\ Cardinality(In(c))' <= Cardinality(In(c))
      /\ x \in c /\ y \notin c => Cardinality(In(c))' < Cardinality(In(c))
  BY <1>1, PingerMoves
<1>7. /\ Cardinality(In(d)) \in Nat /\ Cardinality(In(d))' \in Nat
      /\ Cardinality(In(d))' <= Cardinality(In(d))
      /\ x \in d /\ y \notin d => Cardinality(In(d))' < Cardinality(In(d))
  BY <1>1, PingerMoves
<1>. QED
  BY <1>1, <1>2, <1>3, <1>4, <1>5, <1>6, <1>7

LEMMA CheckStepComesCloser == FanInv /\ [CheckNext]_checkVars => [CheckComesCloser]_checkVars
<1> SUFFICES ASSUME FanInv, CheckNext, ~UNCHANGED checkVars PROVE CheckComesCloser
  OBVIOUS
<1>1. /\ CheckTypeOK
      /\ PingSteps \in Nat /\ Len(errCh) \in Nat /\ CallerSteps \in Nat
  BY CheckStepsAre DEF FanInv
<1>2. ASSUME NEW s \in Shards, Launch(s) \/ PingOK(s) \/ PingErr(s) \/ Done(s)
      PROVE  CheckComesCloser
  <2>1. CallerSteps' = CallerSteps /\ Len(errCh)' = Len(errCh)
    BY <1>2 DEF Launch, PingOK, PingErr, Done, CallerSteps
  <2>2. pinger[s] = "none" \/ ~Launch(s)
    BY DEF Launch, FanInv, Places
  <2>3. PICK y : /\ pinger' = [pinger EXCEPT ![s] = y]
                 /\ \/ pinger[s] = "none" /\ y = "pinging"
                    \/ pinger[s] = "pinging" /\ y \in {"sending", "leaving"}
                    \/ pinger[s] = "leaving" /\ y = "done"
    BY <1>2, <2>2 DEF Launch, PingOK, PingErr, Done
  <2>4. PingSteps' \in Nat /\ PingSteps' < PingSteps
    BY <1>1, <2>3, PingStepsFall
  <2>. QED
    BY <1>1, <2>1, <2>4 DEF CheckComesCloser, CheckSteps
<1>3. ASSUME NEW s \in Shards, Send(s)
      PROVE  CheckComesCloser
  <2>1. CallerSteps' = CallerSteps
    BY <1>3 DEF Send, CallerSteps
  <2>2. Len(errCh') = Len(errCh) + 1
    BY <1>1, <1>3 DEF Send, CheckTypeOK
  <2>3. PingSteps' \in Nat /\ PingSteps' + 1 < PingSteps
    BY <1>1, <1>3, PingStepsFall DEF Send
  <2>4. /\ CheckSteps = PingSteps + Len(errCh) + CallerSteps
        /\ CheckSteps' = PingSteps' + (Len(errCh) + 1) + CallerSteps
    BY <2>1, <2>2 DEF CheckSteps
  <2>5. \A m, n, k, l \in Nat : m + 1 < n => m + (k + 1) + l < n + k + l
    OBVIOUS
  <2>6. PingSteps' + (Len(errCh) + 1) + CallerSteps < PingSteps + Len(errCh) + CallerSteps
    BY <1>1, <2>3, <2>5
  <2>. QED
    BY <2>4, <2>6, Zenon DEF CheckComesCloser
<1>4. ASSUME Join \/ Return
      PROVE  CheckComesCloser
  <2>1. CallerSteps' < CallerSteps /\ CallerSteps' \in Nat
    BY <1>4 DEF Join, Return, CallerSteps
  <2>2. PingSteps' = PingSteps /\ Len(errCh)' = Len(errCh)
    BY <1>4 DEF Join, Return, PingSteps, In
  <2>. QED
    BY <1>1, <2>1, <2>2 DEF CheckComesCloser, CheckSteps
<1>5. ASSUME Drain
      PROVE  CheckComesCloser
  <2>1. CallerSteps' = CallerSteps /\ PingSteps' = PingSteps
    BY <1>5 DEF Drain, CallerSteps, PingSteps, In
  <2>2. Len(errCh') = Len(errCh) - 1
    BY <1>1, <1>5 DEF Drain, CheckTypeOK
  <2>. QED
    BY <1>1, <2>1, <2>2 DEF CheckComesCloser, CheckSteps
<1>. QED
  BY <1>2, <1>3, <1>4, <1>5 DEF CheckNext, Pinger, CheckFinished

(* Every step of the check lowers a natural number: it takes finitely many,*)
(* whichever shards are down and however their goroutines interleave       *)
(* (pool.go:66-106, main.go:419-458).                                      *)
THEOREM FanInIsFinite == CheckSpec => [](CheckSteps \in Nat) /\ [][CheckComesCloser]_checkVars
BY FanInvariant, CheckStepsAre, CheckStepComesCloser, PTL DEF CheckSpec

-----------------------------------------------------------------------------
(***************************************************************************)
(* Start, the server and Stop: handlers find the map of S3 clients         *)
(* complete, and the telemetry of the queries answered before the shutdown *)
(* is exported by it.                                                      *)
(***************************************************************************)
Boot == {"creating", "connecting", "testing", "launching"}

(* What the place of main says about the server and the clients.           *)
Launched ==
  /\ main \in Boot \cup {"noService", "noClient"} => server = "off"
  /\ main \notin {"creating", "connecting", "noService", "noClient", "killed"} => clients = Buckets
  /\ server # "off" => clients = Buckets
  /\ server = "off" => \A q \in Reqs : handler[q] = "none"

(* A provider that is not off has every answered query, waiting or         *)
(* exported, until its shutdown fails.                                     *)
Kept ==
  /\ main = "creating" => tracer = "off" /\ meter = "off"
  /\ Alive /\ main \notin {"creating", "metering"} => tracer = "up"
  /\ Alive /\ main # "creating" => meter = "up"
  /\ answered \subseteq Reqs
  /\ (tracer = "off" \/ meter = "off") => answered = {}
  /\ tracer = "up"   => \A q \in answered \ dropped : q \in spans \/ <<"span", q>> \in exported
  /\ tracer = "down" => \A q \in answered \ dropped : <<"span", q>> \in exported
  /\ meter = "up"    => \A q \in answered : q \in counts \/ <<"count", q>> \in exported
  /\ meter = "down"  => \A q \in answered : <<"count", q>> \in exported
  /\ main = "metering" => tracer = "down"
  /\ main = "exited" => tracer \in {"down", "failed"}
  /\ main = "exited" /\ tracer = "down" => meter \in {"down", "failed"}

(* The inductive invariant.                                                *)
ServiceInv == TypeOK /\ Launched /\ Kept

-----------------------------------------------------------------------------
LEMMA InitServiceInv == Init => ServiceInv
<1>1. Init => TypeOK
  BY DEF Init, TypeOK, Starting, Provider, Spans, Counts
<1>2. Init => Launched /\ Kept
  BY DEF Init, Launched, Kept, Boot, Alive, Ended
<1>. QED
  BY <1>1, <1>2 DEF ServiceInv

(* The steps of main before it waits for the signal.                      *)
LEMMA BootStep ==
  ASSUME ServiceInv, Create \/ ConnectErr \/ Connected \/ Tested \/ LaunchServer \/ Notify
  PROVE  ServiceInv'
<1>. USE DEF ServiceInv, Create, ConnectErr, Connected, Tested, LaunchServer, Notify, telemetry
<1>1. TypeOK'
  BY DEF TypeOK, Starting, Ended, Provider, Launched, Boot, Alive, Spans, Counts
<1>2. Launched'
  BY DEF Launched, Boot, Starting, Alive, Ended, TypeOK
<1>3. Kept'
  BY DEF Kept, Launched, Boot, Alive, Ended, Starting, TypeOK, Spans, Counts
<1>. QED
  BY <1>1, <1>2, <1>3

(* A client more.                                                         *)
LEMMA ConnectStep ==
  ASSUME ServiceInv, NEW b \in Buckets, Connect(b)
  PROVE  ServiceInv'
<1>. USE DEF ServiceInv, Connect, telemetry
<1>1. TypeOK'
  BY DEF TypeOK, Starting, Ended, Provider, Launched, Boot, Alive, Spans, Counts
<1>2. Launched'
  BY DEF Launched, Boot, Starting, Alive, Ended, TypeOK
<1>3. Kept'
  BY DEF Kept, Launched, Boot, Alive, Ended, Starting, TypeOK, Spans, Counts
<1>. QED
  BY <1>1, <1>2, <1>3

(* The steps that leave telemetry alone.                                  *)
LEMMA ServerStep ==
  ASSUME ServiceInv, Listen \/ Signal \/ Stop \/ Expire \/ EndpointFlips
  PROVE  ServiceInv'
<1>. USE DEF ServiceInv, Listen, Signal, Stop, Expire, EndpointFlips, telemetry
<1>1. TypeOK'
  <2>1. CASE Listen
    BY <2>1 DEF TypeOK, Starting, Ended, Provider, Launched, Boot, Alive, Spans, Counts
  <2>2. CASE Signal
    BY <2>2 DEF TypeOK, Starting, Ended, Provider, Launched, Boot, Alive, Spans, Counts
  <2>3. CASE Stop
    BY <2>3 DEF TypeOK, Starting, Ended, Provider, Launched, Boot, Alive, Spans, Counts
  <2>4. CASE Expire
    BY <2>4 DEF TypeOK, Starting, Ended, Provider, Launched, Boot, Alive, Spans, Counts
  <2>5. CASE EndpointFlips
    BY <2>5 DEF TypeOK, Starting, Ended, Provider, Launched, Boot, Alive, Spans, Counts
  <2>. QED
    BY <2>1, <2>2, <2>3, <2>4, <2>5
<1>2. Launched'
  BY DEF Launched, Boot, Starting, Alive, Ended, TypeOK
<1>3. Kept'
  BY DEF Kept, Launched, Boot, Alive, Ended, Starting, TypeOK, Spans, Counts
<1>. QED
  BY <1>1, <1>2, <1>3

(* A query begins.                                                        *)
LEMMA AcceptStep ==
  ASSUME ServiceInv, NEW q \in Reqs, Accept(q)
  PROVE  ServiceInv'
<1>. USE DEF ServiceInv, Accept, telemetry
<1>1. TypeOK'
  BY DEF TypeOK, Starting, Ended, Provider, Launched, Boot, Alive, Spans, Counts
<1>2. Launched'
  BY DEF Launched, Boot, Starting, Alive, Ended, TypeOK
<1>3. Kept'
  BY DEF Kept, Launched, Boot, Alive, Ended, Starting, TypeOK, Spans, Counts
<1>. QED
  BY <1>1, <1>2, <1>3

(* A query is answered: its telemetry waits, or its span is dropped.       *)
LEMMA AnswerStep ==
  ASSUME ServiceInv, NEW q \in Reqs, Answer(q)
  PROVE  ServiceInv'
<1>. USE DEF ServiceInv, Answer, telemetry
<1>1. TypeOK'
  BY DEF TypeOK, Starting, Ended, Provider, Launched, Boot, Alive, Spans, Counts
<1>2. Launched'
  BY DEF Launched, Boot, Starting, Alive, Ended, TypeOK
<1>3. Kept'
  BY DEF Kept, Launched, Boot, Alive, Ended, Starting, TypeOK, Spans, Counts
<1>. QED
  BY <1>1, <1>2, <1>3

(* What waits is exported or, for spans, dropped.                         *)
LEMMA ExportStep ==
  ASSUME ServiceInv, Export \/ ExportErr
  PROVE  ServiceInv'
<1>. USE DEF ServiceInv, Export, ExportErr, telemetry
<1>1. TypeOK'
  BY DEF TypeOK, Starting, Ended, Provider, Launched, Boot, Alive, Spans, Counts
<1>2. Launched'
  BY DEF Launched, Boot, Starting, Alive, Ended, TypeOK
<1>3. Kept'
  BY DEF Kept, Launched, Boot, Alive, Ended, Starting, TypeOK, Spans, Counts
<1>. QED
  BY <1>1, <1>2, <1>3

(* The providers are shut down one after the other.                       *)
LEMMA ShutdownStep ==
  ASSUME ServiceInv, ShutdownTracer \/ ShutdownTracerErr \/ ShutdownMeter \/ ShutdownMeterErr
  PROVE  ServiceInv'
<1>. USE DEF ServiceInv, ShutdownTracer, ShutdownTracerErr, ShutdownMeter, ShutdownMeterErr,
            LastBatch, telemetry
<1>1. TypeOK'
  BY DEF TypeOK, Starting, Ended, Provider, Launched, Boot, Alive, Spans, Counts
<1>2. Launched'
  BY DEF Launched, Boot, Starting, Alive, Ended, TypeOK
<1>3. Kept'
  BY DEF Kept, Launched, Boot, Alive, Ended, Starting, TypeOK, Spans, Counts
<1>. QED
  BY <1>1, <1>2, <1>3

(* ServiceInv is an invariant.                                             *)
THEOREM ServiceInvariant == Spec => []ServiceInv
<1>1. ASSUME ServiceInv, [Next]_vars
      PROVE  ServiceInv'
  <2>1. CASE Main
    BY <1>1, <2>1, BootStep, ConnectStep, ServerStep, ShutdownStep DEF Main
  <2>2. CASE Listen \/ Signal \/ Expire \/ EndpointFlips
    BY <1>1, <2>2, ServerStep
  <2>3. CASE ShutdownTracer \/ ShutdownMeter
    BY <1>1, <2>3, ShutdownStep
  <2>4. ASSUME NEW q \in Reqs, Accept(q) \/ Answer(q)
        PROVE  ServiceInv'
    BY <1>1, <2>4, AcceptStep, AnswerStep
  <2>5. CASE Export \/ ExportErr
    BY <1>1, <2>5, ExportStep
  <2>6. CASE Terminated \/ UNCHANGED vars
    <3>1. UNCHANGED vars
      BY <2>6 DEF Terminated
    <3>. QED
      BY <1>1, <3>1 DEF vars, telemetry, ServiceInv, TypeOK, Launched, Kept, Alive, Spans, Counts
  <2>. QED
    BY <1>1, <2>1, <2>2, <2>3, <2>4, <2>5, <2>6 DEF Next
<1>. QED
  BY InitServiceInv, <1>1, PTL DEF Spec

(* The variables have their types, and telemetry is about queries that are *)
(* over (main.go:488-578).                                                 *)
THEOREM ServiceMainTypeCorrect == Spec => []TypeOK
<1>1. ServiceInv => TypeOK
  BY DEF ServiceInv
<1>. QED
  BY <1>1, ServiceInvariant, PTL

(* No handler reads the map of clients while Start writes it, whatever the *)
(* buckets (main.go:378-394, 869).                                         *)
THEOREM ServiceMainClientsComplete == Spec => []ClientsCompleteWhenServing
<1>1. ServiceInv => ClientsCompleteWhenServing
  BY DEF ServiceInv, Launched, ClientsCompleteWhenServing
<1>. QED
  BY <1>1, ServiceInvariant, PTL

(* Stop leaves no telemetry of an answered query behind but for the spans  *)
(* that were dropped, the counts of a meter provider whose shutdown failed *)
(* and what a tracer provider that ran out of time had (main.go:265-273,   *)
(* 401-417).                                                               *)
THEOREM ServiceMainAnsweredIsExported == Spec => []AnsweredIsExported
<1>1. ASSUME ServiceInv, main = "exited", tracer # "failed"
      PROVE  /\ Spans(answered \ dropped) \subseteq exported
             /\ meter # "failed" => Counts(answered) \subseteq exported
  <2>1. tracer = "down" /\ meter \in {"down", "failed"}
    BY <1>1 DEF ServiceInv, Kept
  <2>. QED
    BY <1>1, <2>1 DEF ServiceInv, Kept, Spans, Counts
<1>2. ServiceInv => AnsweredIsExported
  BY <1>1 DEF AnsweredIsExported
<1>. QED
  BY <1>2, ServiceInvariant, PTL

-----------------------------------------------------------------------------
(***************************************************************************)
(* The composition implements both of its parts, so that what is proved of *)
(* the process and of the check holds of them together; and no goroutine   *)
(* of the check is left when the first query can arrive.                   *)
(***************************************************************************)
(* The parts, run together, each behave as they do alone (main.go:371-461).*)
THEOREM ProcessImplementsParts == ProcessSpec => Spec /\ CheckSpec
<1>1. ProcessInit => Init /\ CheckInit
  BY DEF ProcessInit
<1>2. [ProcessNext]_processVars => [Next]_vars /\ [CheckNext]_checkVars
  <2>1. ASSUME Alone(Next)
        PROVE  Next /\ UNCHANGED checkVars
    BY <2>1 DEF Alone
  <2>2. ASSUME Check(CheckNext)
        PROVE  CheckNext /\ UNCHANGED vars
    BY <2>2 DEF Check
  <2>3. ASSUME UNCHANGED processVars
        PROVE  UNCHANGED vars /\ UNCHANGED checkVars
    BY <2>3 DEF processVars
  <2>. QED
    BY <2>1, <2>2, <2>3 DEF ProcessNext
<1>. QED
  BY <1>1, <1>2, PTL DEF ProcessSpec, Spec, CheckSpec

(* Start is past the check only once the check has returned.               *)
PastCheck ==
  main \in {"launching", "started", "waiting", "stopping", "metering", "exited"}
    \/ server # "off"
  => caller = "returned"

(* Where a step of main leads from and to.                                 *)
LEMMA StepOfMain ==
  ASSUME ServiceInv, PastCheck, Next, CheckedFirst, UNCHANGED checkVars
  PROVE  PastCheck'
<1>1. caller' = caller
  BY DEF checkVars
<1>2. CASE main = "testing"
  <2>1. server = "off"
    BY <1>2 DEF ServiceInv, Launched, Boot
  <2>2. main' \in {"testing", "launching", "killed"} /\ server' = "off"
    BY <1>2, <2>1 DEF Next, Main, Create, Connect, ConnectErr, Connected, Tested, LaunchServer,
       Notify, Stop, ShutdownTracerErr, ShutdownMeterErr, Listen, Signal, Expire, ShutdownTracer,
       ShutdownMeter, Accept, Answer, Export, ExportErr, EndpointFlips, Terminated, Alive, Ended,
       Starting, vars
  <2>. QED
    BY <1>1, <1>2, <2>2 DEF CheckedFirst, PastCheck
<1>3. CASE main \in {"creating", "connecting", "noService", "noClient"}
  <2>1. server = "off"
    BY <1>3 DEF ServiceInv, Launched, Boot
  <2>2. main' \in {"creating", "connecting", "testing", "noService", "noClient", "killed"}
        /\ server' = "off"
    BY <1>3, <2>1 DEF Next, Main, Create, Connect, ConnectErr, Connected, Tested, LaunchServer,
       Notify, Stop, ShutdownTracerErr, ShutdownMeterErr, Listen, Signal, Expire, ShutdownTracer,
       ShutdownMeter, Accept, Answer, Export, ExportErr, EndpointFlips, Terminated, Alive, Ended,
       Starting, vars
  <2>. QED
    BY <2>2 DEF PastCheck
<1>4. CASE main = "killed"
  <2>1. main' = main /\ server' = server
    BY <1>4 DEF Next, Main, Create, Connect, ConnectErr, Connected, Tested, LaunchServer,
       Notify, Stop, ShutdownTracerErr, ShutdownMeterErr, Listen, Signal, Expire, ShutdownTracer,
       ShutdownMeter, Accept, Answer, Export, ExportErr, EndpointFlips, Terminated, Alive, Ended,
       Starting, vars
  <2>. QED
    BY <1>1, <2>1 DEF PastCheck
<1>5. CASE main \in {"launching", "started", "waiting", "stopping", "metering", "exited"}
  BY <1>1, <1>5 DEF PastCheck
<1>. QED
  BY <1>2, <1>3, <1>4, <1>5 DEF ServiceInv, TypeOK, Starting, Ended

(* When the server goroutine exists, every goroutine of the check is over, *)
(* and what the log says of the shards is right (main.go:390-398, 447-460).*)
THEOREM NoCheckLeftBehind ==
  ProcessSpec => [](server # "off" => /\ \A s \in Shards : pinger[s] = "done"
                                      /\ About(errs) = unhealthy)
<1>1. ProcessInit => PastCheck
  BY DEF ProcessInit, Init, PastCheck
<1>2. ServiceInv /\ PastCheck /\ [ProcessNext]_processVars => PastCheck'
  <2>1. ASSUME ServiceInv, PastCheck, Alone(Next)
        PROVE  PastCheck'
    BY <2>1, StepOfMain DEF Alone
  <2>2. ASSUME ServiceInv, Check(CheckNext)
        PROVE  PastCheck'
    <3>1. main' = "testing" /\ server' = "off"
      BY <2>2 DEF Check, vars, ServiceInv, Launched, Boot
    <3>. QED
      BY <3>1 DEF PastCheck
  <2>3. ASSUME PastCheck, UNCHANGED processVars
        PROVE  PastCheck'
    BY <2>3 DEF processVars, vars, checkVars, PastCheck
  <2>. QED
    BY <2>1, <2>2, <2>3 DEF ProcessNext
<1>3. ASSUME PastCheck, FanInv, ErrorNamesTheUnhealthy, server # "off"
      PROVE  (\A s \in Shards : pinger[s] = "done") /\ About(errs) = unhealthy
  <2>1. caller = "returned"
    BY <1>3 DEF PastCheck
  <2>. QED
    BY <1>3, <2>1 DEF FanInv, Places, ErrorNamesTheUnhealthy, About
<1>4. PastCheck /\ FanInv /\ ErrorNamesTheUnhealthy =>
        (server # "off" => (\A s \in Shards : pinger[s] = "done") /\ About(errs) = unhealthy)
  BY <1>3
<1>. QED
  BY <1>1, <1>2, <1>4, ProcessImplementsParts, ServiceInvariant, FanInvariant,
     FanInErrorNamesTheUnhealthy, PTL DEF ProcessSpec

(* Shards that are down or hang do not hold Start: in the composition, too,*)
(* its check waits for pings only, and for finitely many steps (main.go:   *)
(* 390-392, 419-458).                                                      *)
THEOREM StartIsNotHeld ==
  ProcessSpec => /\ []CheckWaitsForPings
                 /\ [](CheckSteps \in Nat) /\ [][CheckComesCloser]_checkVars
BY ProcessImplementsParts, FanInWaitsForPings, FanInIsFinite, PTL
=============================================================================
