-------------------------- MODULE ReaderHTTPProofs --------------------------
(***************************************************************************)
(* A request to the orchestrator is answered with what it asks for, and a  *)
(* fetch that runs into its time limit is never seen by the client: for    *)
(* every set of requests, every index and every bound on time.             *)
(*                                                                         *)
(* The handler's call repeats the text of the request (Passed), and what   *)
(* it answers is a function of the call and of what was lost (Answers).    *)
(* The rest is about the text: a clean path under /events/ begins with a   *)
(* name and a slash, so that SplitPath cuts it where Asked does.           *)
(***************************************************************************)
EXTENDS ReaderHTTP, PointerProofs

-----------------------------------------------------------------------------
(* The clock.                                                              *)
ClockInv ==
  /\ clock \in Nat
  /\ fetchAt \in Nat
  /\ stage # "replied" => seen = Nothing
  /\ timedOut => clock >= WriteTimeout /\ seen = Nothing

LEMMA ClockInit == Init => ClockInv
BY DEF Init, ClockInv

(* A reply after the write deadline is not seen.                           *)
LEMMA LateReply ==
  ASSUME ClockInv, NEW response, Reply(response)
  PROVE  ClockInv'
<1>1. clock' = clock /\ fetchAt' = fetchAt /\ timedOut' = timedOut /\ stage' = "replied"
  BY DEF Reply
<1>2. seen' = IF gone \/ clock >= WriteTimeout THEN Nothing ELSE response
  BY DEF Reply
<1>3. timedOut => clock >= WriteTimeout
  BY DEF ClockInv
<1>4. timedOut' => seen' = Nothing
  BY <1>1, <1>2, <1>3
<1>. QED
  BY <1>1, <1>3, <1>4 DEF ClockInv, WriteTimeout

LEMMA ClockNext == ClockInv /\ [Next]_vars => ClockInv'
<1>. SUFFICES ASSUME ClockInv, [Next]_vars PROVE ClockInv'
  OBVIOUS
<1>1. CASE MuxReplies
  BY <1>1, LateReply DEF MuxReplies
<1>2. CASE HealthReplies
  BY <1>2, LateReply DEF HealthReplies
<1>3. CASE QueryRejects
  BY <1>3, LateReply DEF QueryRejects
<1>4. ASSUME stage = "received", NEW by, NEW refs, NEW start, NEW end,
             LookupMany(by, refs, start, end)
      PROVE  ClockInv'
  BY <1>4 DEF LookupMany, ClockInv
<1>5. CASE QueryAccepts
  BY <1>4, <1>5 DEF QueryAccepts, Routed
<1>6. CASE EventsRejects
  BY <1>6, LateReply DEF EventsRejects
<1>7. CASE GetAll
  BY <1>4, <1>7, LateReply DEF GetAll, Routed
<1>8. CASE GetOne
  BY <1>4, <1>8 DEF GetOne, Routed
<1>9. CASE AskShards
  <2>1. fetchAt' \in 0 .. clock /\ clock' = clock /\ timedOut' = timedOut /\ seen' = seen
    BY <1>9 DEF AskShards
  <2>2. stage # "replied"
    BY <1>9 DEF AskShards
  <2>. QED
    BY <2>1, <2>2 DEF ClockInv
<1>10. CASE Fetch
  BY <1>10 DEF Fetch, Missing, ClockInv
<1>11. CASE FetchTimesOut
  <2>1. clock >= fetchAt + 2 /\ clock' = clock /\ fetchAt' = fetchAt /\ seen' = seen
    BY <1>11 DEF FetchTimesOut, Missing, FetchTimeout
  <2>2. stage = "fetching"
    BY <1>11 DEF FetchTimesOut, Missing
  <2>. QED
    BY <2>1, <2>2 DEF ClockInv, WriteTimeout
<1>12. CASE AnswerQuery
  BY <1>12, LateReply DEF AnswerQuery, Answer
<1>13. CASE AnswerAll
  BY <1>13, LateReply DEF AnswerAll, Answer
<1>14. CASE AnswerOne
  BY <1>14, LateReply DEF AnswerOne, Answer
<1>15. CASE Tick
  <2>1. stage # "replied" /\ clock' = clock + 1
    BY <1>15 DEF Tick
  <2>. QED
    BY <1>15, <2>1 DEF Tick, ClockInv, WriteTimeout
<1>16. CASE ClientGone
  BY <1>16 DEF ClientGone, ClockInv
<1>17. CASE ReadDeadline
  BY <1>17 DEF ReadDeadline, ClockInv
<1>18. CASE Finished \/ UNCHANGED vars
  BY <1>18 DEF Finished, vars, ClockInv
<1>. QED
  BY <1>1, <1>2, <1>3, <1>5, <1>6, <1>7, <1>8, <1>9, <1>10, <1>11, <1>12, <1>13, <1>14,
     <1>15, <1>16, <1>17, <1>18 DEF Next, Handler

(* What a fetch loses by running into its time limit is never shown as a   *)
(* complete answer: the write deadline of the server, as long as the limit *)
(* but begun earlier, is over by then (cmd/main.go:68, service.go:147).    *)
THEOREM HTTPTimedOutFetchIsNeverSeen == Spec => []TimedOutFetchIsNeverSeen
<1>1. ClockInv => TimedOutFetchIsNeverSeen
  BY DEF ClockInv, TimedOutFetchIsNeverSeen
<1>. QED
  BY <1>1, ClockInit, ClockNext, PTL DEF Spec

-----------------------------------------------------------------------------
(* Trimming.                                                               *)
LEMMA TrimLeftNothing ==
  ASSUME NEW T, NEW path \in Seq(T), path # <<>>, path[1].kind # "slash"
  PROVE  TrimLeft(path) = path
<1> DEFINE lead == [k \in 1 .. 0 |-> Slash]
<1>1. lead \o path = path
  <2>1. lead = <<>>
    OBVIOUS
  <2>. QED
    BY <2>1
<1>2. TrimLeft(lead \o path) = path
  BY TrimLeftInFront
<1>. QED
  BY <1>1, <1>2

LEMMA TrimLeftASlash ==
  ASSUME NEW T, NEW path \in Seq(T), path # <<>>, path[1].kind # "slash"
  PROVE  TrimLeft(<<Slash>> \o path) = path
<1> DEFINE lead == [k \in 1 .. 1 |-> Slash]
<1>1. lead = <<Slash>>
  OBVIOUS
<1>2. TrimLeft(lead \o path) = path
  BY TrimLeftInFront
<1>. QED
  BY <1>1, <1>2

LEMMA TrimNothingLeft == TrimLeft(<<>>) = <<>> /\ Reverse(<<>>) = <<>>
<1>1. {i \in 1 .. Len(<<>>) : <<>>[i].kind # "slash"} = {}
  OBVIOUS
<1>2. SelectInSeq(<<>>, LAMBDA t : t.kind # "slash") = 0
  BY <1>1 DEF SelectInSeq
<1>. QED
  BY <1>2 DEF TrimLeft, Reverse

LEMMA ReverseTwice ==
  ASSUME NEW T, NEW s \in Seq(T)
  PROVE  /\ Reverse(s) \in Seq(T)
         /\ Len(Reverse(s)) = Len(s)
         /\ \A k \in 1 .. Len(s) : Reverse(s)[k] = s[Len(s) - k + 1]
         /\ Reverse(Reverse(s)) = s
<1> DEFINE n == Len(s)
           r == [k \in 1 .. n |-> s[n - k + 1]]
<1>1. n \in Nat /\ s = [k \in 1 .. n |-> s[k]] /\ \A k \in 1 .. n : s[k] \in T
  OBVIOUS
<1>2. \A k \in 1 .. n : n - k + 1 \in 1 .. n
  BY <1>1
<1> HIDE DEF n
<1>3. r \in Seq(T) /\ Len(r) = n
  <2>1. \A k \in 1 .. n : s[n - k + 1] \in T
    BY <1>1, <1>2
  <2>2. r \in [1 .. n -> T]
    BY <2>1
  <2> HIDE DEF r
  <2>. QED
    BY <1>1, <2>2
<1>4. \A k \in 1 .. n : r[k] = s[n - k + 1]
  OBVIOUS
<1> HIDE DEF r
<1>5. \A k \in 1 .. n : r[n - k + 1] = s[k]
  <2>1. ASSUME NEW k \in 1 .. n
        PROVE  r[n - k + 1] = s[k]
    <3>1. r[n - k + 1] = s[n - (n - k + 1) + 1]
      BY <1>2, <1>4
    <3>2. n - (n - k + 1) + 1 = k
      BY <1>1
    <3>. QED
      BY <3>1, <3>2
  <2>. QED
    BY <2>1
<1>6. Reverse(s) = r
  BY DEF Reverse, r, n
<1>7. Reverse(r) = [k \in 1 .. n |-> r[n - k + 1]]
  BY <1>3 DEF Reverse
<1>8. Reverse(r) = s
  BY <1>1, <1>5, <1>7
<1>. QED
  BY <1>3, <1>4, <1>6, <1>8 DEF n

(* A text that ends in no slash, and one that ends in one.                 *)
LEMMA TrimRightNothing ==
  ASSUME NEW T, NEW s \in Seq(T), s # <<>>, s[Len(s)].kind # "slash"
  PROVE  TrimRight(s) = s
<1> DEFINE r == Reverse(s)
<1>1. Len(s) \in Nat \ {0} /\ Len(s) - 1 + 1 = Len(s)
  OBVIOUS
<1>2. r \in Seq(T) /\ Len(r) = Len(s) /\ r[1] = s[Len(s)] /\ Reverse(r) = s
  BY <1>1, ReverseTwice
<1> HIDE DEF r
<1>3. r # <<>> /\ r[1].kind # "slash"
  BY <1>1, <1>2
<1>4. TrimLeft(r) = r
  BY <1>2, <1>3, TrimLeftNothing
<1>. QED
  BY <1>2, <1>4 DEF TrimRight, r

LEMMA TrimRightASlash ==
  ASSUME NEW T, NEW s \in Seq(T), s # <<>>, s[Len(s)].kind # "slash", Slash \in T
  PROVE  TrimRight(s \o <<Slash>>) = s
<1> DEFINE r == Reverse(s)
           n == Len(s)
           all == s \o <<Slash>>
<1>1. n \in Nat \ {0} /\ n - 1 + 1 = n
  OBVIOUS
<1>2. r \in Seq(T) /\ Len(r) = n /\ r[1] = s[n] /\ Reverse(r) = s
      /\ \A k \in 1 .. n : r[k] = s[n - k + 1]
  BY <1>1, ReverseTwice
<1>all. /\ all \in Seq(T) /\ Len(all) = n + 1 /\ all[n + 1] = Slash
        /\ \A k \in 1 .. n : all[k] = s[k]
  OBVIOUS
<1> HIDE DEF r, n, all
<1>3. r # <<>> /\ r[1].kind # "slash"
  BY <1>1, <1>2 DEF n
<1>4. TrimLeft(<<Slash>> \o r) = r
  BY <1>2, <1>3, TrimLeftASlash
<1>5. Reverse(all) = <<Slash>> \o r
  <2> DEFINE back == <<Slash>> \o r
  <2>1. back \in Seq(T) /\ Len(back) = n + 1 /\ back[1] = Slash
        /\ \A k \in 1 .. n : back[1 + k] = r[k]
    BY <1>1, <1>2
  <2>2. back = [k \in 1 .. n + 1 |-> back[k]]
    BY <2>1
  <2> HIDE DEF back
  <2>3. ASSUME NEW k \in 1 .. n + 1
        PROVE  back[k] = all[n + 1 - k + 1]
    <3>1. CASE k = 1
      BY <1>1, <1>all, <2>1, <3>1
    <3>2. CASE k # 1
      <4>1. k - 1 \in 1 .. n /\ 1 + (k - 1) = k /\ n - (k - 1) + 1 = n + 1 - k + 1
            /\ n + 1 - k + 1 \in 1 .. n
        BY <1>1, <3>2
      <4>2. back[k] = r[k - 1] /\ r[k - 1] = s[n + 1 - k + 1]
        BY <1>2, <2>1, <4>1
      <4>. QED
        BY <1>all, <4>1, <4>2
    <3>. QED
      BY <3>1, <3>2
  <2> DEFINE rev == Reverse(all)
  <2>4. rev \in Seq(T) /\ Len(rev) = n + 1 /\ \A k \in 1 .. n + 1 : rev[k] = all[n + 1 - k + 1]
    <3>1. all \in Seq(T)
      BY <1>all
    <3>2. rev \in Seq(T) /\ Len(rev) = Len(all)
          /\ \A k \in 1 .. Len(all) : rev[k] = all[Len(all) - k + 1]
      BY <3>1, ReverseTwice, Zenon
    <3> HIDE DEF rev
    <3>. QED
      BY <1>1, <1>all, <3>2
  <2> HIDE DEF rev
  <2>5. rev = [k \in 1 .. n + 1 |-> rev[k]]
    BY <2>4
  <2>. QED
    BY <2>2, <2>3, <2>4, <2>5 DEF back, rev
<1>. QED
  BY <1>2, <1>4, <1>5 DEF TrimRight, r, all

-----------------------------------------------------------------------------
(* Paths under /events/.                                                   *)
EndOf(path) == IF path[Len(path)] = Slash THEN Len(path) - 1 ELSE Len(path)
Named(path) == SubSeq(path, 4, EndOf(path))

(* Slashes and names in turn.                                              *)
Alternates(path, T) ==
  /\ path \in Seq(T) /\ Slash \in T
  /\ Len(path) >= 3
  /\ path[2] = Events /\ path[3] = Slash
  /\ \A i \in 1 .. Len(path) : path[i].kind = "slash" <=> path[i] = Slash
  /\ \A i \in 2 .. Len(path) : path[i] = Slash <=> path[i - 1] # Slash

LEMMA EventsPathAlternates ==
  ASSUME NEW path, IsPath(path), Route(path) = "events"
  PROVE  Alternates(path, Range(path))
<1> DEFINE T == Range(path)
<1>1. path \in Seq(T) /\ \A t \in T : t.kind = "slash" => t = Slash
  BY DEF IsPath, Lexed
<1>2. DOMAIN path = 1 .. Len(path) /\ Len(path) \in Nat
  BY <1>1
<1>3. IsClean(path) /\ IsPrefix(EventsPath, path)
  BY DEF Route
<1>4. EventsPath = <<Slash, Events, Slash>> /\ Len(EventsPath) = 3
  BY DEF EventsPath
<1>5. Len(path) >= 3 /\ SubSeq(EventsPath, 1, 3) = SubSeq(path, 1, 3)
  BY <1>3, <1>4 DEF IsPrefix
<1>6. SubSeq(path, 1, 3)[1] = path[1] /\ SubSeq(path, 1, 3)[2] = path[2]
      /\ SubSeq(path, 1, 3)[3] = path[3]
  BY <1>1, <1>2, <1>5
<1>7. SubSeq(EventsPath, 1, 3)[1] = Slash /\ SubSeq(EventsPath, 1, 3)[2] = Events
      /\ SubSeq(EventsPath, 1, 3)[3] = Slash
  BY <1>4
<1>8. path[1] = Slash /\ path[2] = Events /\ path[3] = Slash
  BY <1>5, <1>6, <1>7
<1>9. Slash \in T
  BY <1>2, <1>5, <1>8 DEF Range
<1>10. \A i \in 1 .. Len(path) : path[i] \in T
  BY <1>2 DEF Range
<1>11. \A i \in 1 .. Len(path) : path[i].kind = "slash" <=> path[i] = Slash
  BY <1>1, <1>10 DEF Slash
<1>12. \A i \in 2 .. Len(path) : path[i] = Slash <=> path[i - 1] # Slash
  BY <1>3 DEF IsClean, IsPath
<1>. QED
  BY <1>1, <1>5, <1>8, <1>9, <1>11, <1>12 DEF Alternates

(* Where nothing follows the prefix, nothing is left.                      *)
LEMMA NothingNamed ==
  ASSUME NEW path, NEW T, Alternates(path, T), Len(path) = 3
  PROVE  SplitPath(path) = <<>>
<1>1. Len(EventsPath) = 3
  BY DEF EventsPath
<1>2. SubSeq(path, 4, 3) = <<>>
  BY SubSeqEmpty
<1>3. TrimRight(TrimLeft(SubSeq(path, Len(EventsPath) + 1, Len(path)))) = <<>>
  <2>1. SubSeq(path, Len(EventsPath) + 1, Len(path)) = <<>>
    BY <1>1, <1>2
  <2>2. TrimLeft(<<>>) = <<>> /\ TrimRight(<<>>) = <<>>
    BY TrimNothingLeft, Zenon DEF TrimRight
  <2>. QED
    BY <2>1, <2>2, Zenon
<1>. QED
  BY <1>3 DEF SplitPath

(* What is named begins and ends with a name, and a slash follows the      *)
(* first of several.                                                       *)
LEMMA NamedTokens ==
  ASSUME NEW path, NEW T, Alternates(path, T), Len(path) > 3
  PROVE  /\ EndOf(path) \in 4 .. Len(path)
         /\ Named(path) \in Seq(T) /\ Len(Named(path)) = EndOf(path) - 3
         /\ \A k \in 1 .. Len(Named(path)) : Named(path)[k] = path[k + 3]
         /\ Named(path)[1].kind # "slash"
         /\ Named(path)[Len(Named(path))].kind # "slash"
         /\ Len(Named(path)) > 1 => Len(Named(path)) > 2 /\ Named(path)[2] = Slash
<1> DEFINE m == Len(path)
           n == EndOf(path)
           named == Named(path)
<1>1. m \in Nat /\ m > 3 /\ path \in Seq(T)
  BY DEF Alternates
<1>2. path[4] # Slash
  <2>1. 4 \in 2 .. m /\ 4 - 1 = 3
    BY <1>1
  <2>. QED
    BY <2>1 DEF Alternates
<1>3. n \in 4 .. m /\ path[n] # Slash
  <2>1. CASE path[m] = Slash
    <3> HIDE DEF m
    <3>0. m # 4
      BY <1>2, <2>1
    <3>1. m \in 2 .. m /\ m - 1 \in 4 .. m
      BY <1>1, <3>0
    <3>2. path[m - 1] # Slash
      BY <2>1, <3>1 DEF Alternates, m
    <3>. QED
      BY <2>1, <3>1, <3>2 DEF EndOf, m
  <2>2. CASE path[m] # Slash
    BY <1>1, <2>2 DEF EndOf
  <2>. QED
    BY <2>1, <2>2
<1> HIDE DEF n, m
<1>4. named = SubSeq(path, 4, n)
  BY DEF Named, n
<1>5. named \in Seq(T) /\ Len(named) = n - 3 /\ \A k \in 1 .. n - 3 : named[k] = path[k + 3]
  BY <1>1, <1>3, <1>4 DEF m
<1> HIDE DEF named
<1>6. named[1] = path[4] /\ named[n - 3] = path[n]
  BY <1>3, <1>5
<1>7. named[1].kind # "slash" /\ named[n - 3].kind # "slash"
  <2>1. 4 \in 1 .. m /\ n \in 1 .. m
    BY <1>1, <1>3
  <2>. QED
    BY <1>2, <1>3, <1>6, <2>1 DEF Alternates, m
<1>8. ASSUME n - 3 > 1
      PROVE  n - 3 > 2 /\ named[2] = Slash
  <2>1. 5 \in 2 .. m /\ 5 - 1 = 4
    BY <1>1, <1>3, <1>8
  <2>2. path[5] = Slash
    BY <1>2, <2>1 DEF Alternates, m
  <2>3. n # 5
    BY <1>3, <2>2
  <2>. QED
    BY <1>3, <1>5, <1>8, <2>2, <2>3
<1>. QED
  BY <1>3, <1>5, <1>7, <1>8 DEF m, n, named

(* It is what trimming the rest of the path leaves.                        *)
LEMMA TrimmedIsNamed ==
  ASSUME NEW path, NEW T, Alternates(path, T), Len(path) > 3
  PROVE  TrimRight(TrimLeft(SubSeq(path, Len(EventsPath) + 1, Len(path)))) = Named(path)
<1> DEFINE rest == SubSeq(path, 4, Len(path))
           named == Named(path)
<1>1. Len(EventsPath) + 1 = 4
  BY DEF EventsPath
<1>2. /\ named \in Seq(T) /\ Len(named) = EndOf(path) - 3 /\ EndOf(path) \in 4 .. Len(path)
      /\ \A k \in 1 .. Len(named) : named[k] = path[k + 3]
      /\ named[1].kind # "slash" /\ named[Len(named)].kind # "slash"
  BY NamedTokens
<1>3. path \in Seq(T) /\ Slash \in T /\ Len(path) \in Nat
  BY DEF Alternates
<1>4. rest \in Seq(T) /\ Len(rest) = Len(path) - 3
      /\ \A k \in 1 .. Len(path) - 3 : rest[k] = path[k + 3]
  BY <1>2, <1>3
<1>5. rest # <<>> /\ rest[1] = named[1]
  BY <1>2, <1>3, <1>4
<1> HIDE DEF rest
<1>6. TrimLeft(rest) = rest
  BY <1>2, <1>4, <1>5, TrimLeftNothing
<1>7. TrimRight(rest) = named
  <2>1. CASE path[Len(path)] # Slash
    <3>1. named = rest
      BY <2>1 DEF Named, EndOf, rest
    <3>2. rest[Len(rest)].kind # "slash"
      BY <1>2, <3>1
    <3>. QED
      BY <1>4, <1>5, <3>1, <3>2, TrimRightNothing
  <2>2. CASE path[Len(path)] = Slash
    <3>1. EndOf(path) = Len(path) - 1
      BY <2>2 DEF EndOf
    <3> HIDE DEF named
    <3>2. named # <<>>
      BY <1>2
    <3>3. TrimRight(named \o <<Slash>>) = named
      BY <1>2, <1>3, <3>2, TrimRightASlash
    <3>4. rest = named \o <<Slash>>
      <4> DEFINE all == named \o <<Slash>>
                 n == Len(named)
      <4>1. n \in Nat /\ n + 1 = Len(path) - 3 /\ Len(path) = n + 1 + 3
        BY <1>2, <1>3, <3>1
      <4>2. /\ all \in Seq(T) /\ Len(all) = n + 1 /\ all[n + 1] = Slash
            /\ \A k \in 1 .. n : all[k] = named[k]
        BY <1>2, <1>3
      <4> HIDE DEF all
      <4>3. \A k \in 1 .. n + 1 : rest[k] = all[k]
        <5>1. ASSUME NEW k \in 1 .. n + 1
              PROVE  rest[k] = all[k]
          <6>1. CASE k = n + 1
            BY <1>4, <2>2, <4>1, <4>2, <6>1, SMTT(30)
          <6>2. CASE k # n + 1
            BY <1>2, <1>4, <4>1, <4>2, <6>2, SMTT(30)
          <6>. QED
            BY <6>1, <6>2
        <5>. QED
          BY <5>1
      <4>4. rest = [k \in 1 .. n + 1 |-> rest[k]] /\ all = [k \in 1 .. n + 1 |-> all[k]]
        BY <1>4, <4>1, <4>2
      <4>. QED
        BY <4>3, <4>4 DEF all
    <3>. QED
      BY <3>3, <3>4 DEF named
  <2>. QED
    BY <2>1, <2>2
<1>. QED
  BY <1>1, <1>6, <1>7 DEF rest

(* The parts of the path: a reference id of one token and, cut off at the  *)
(* slash after it, an event id.                                            *)
CutAfterFirst(path, parts) ==
  /\ Len(parts) \in {1, 2}
  /\ parts[1] = <<Named(path)[1]>>
  /\ Len(parts) = 1 => Len(Named(path)) = 1
  /\ Len(parts) = 2 => /\ Len(Named(path)) > 2
                       /\ parts[2] \in Seq(Range(path))
                       /\ Named(path) = parts[1] \o <<Slash>> \o parts[2]

LEMMA PartsAreNamed ==
  ASSUME NEW path, IsPath(path), Route(path) = "events", Len(SplitPath(path)) # 0
  PROVE  CutAfterFirst(path, SplitPath(path))
<1> DEFINE T == Range(path)
           named == Named(path)
           parts == SplitPath(path)
<1>1. Alternates(path, T)
  BY EventsPathAlternates
<1>2. Len(path) > 3
  <2>1. Len(path) >= 3 /\ Len(path) \in Nat
    BY <1>1 DEF Alternates
  <2>2. Len(path) # 3
    <3>1. Len(path) = 3 => SplitPath(path) = <<>>
      BY <1>1, NothingNamed, Zenon
    <3>2. Len(<<>>) = 0
      OBVIOUS
    <3>. QED
      BY <3>1, <3>2, Zenon
  <2>. QED
    BY <2>1, <2>2, SMTT(30)
<1>3. /\ named \in Seq(T)
      /\ named[1].kind # "slash"
      /\ Len(named) > 1 => Len(named) > 2 /\ named[2] = Slash
  BY <1>1, <1>2, NamedTokens
<1>len. Len(named) \in Nat \ {0}
  <2>0. Len(path) \in Nat
    BY <1>1 DEF Alternates
  <2>1. Len(named) = EndOf(path) - 3 /\ EndOf(path) \in 4 .. Len(path)
    BY <1>1, <1>2, NamedTokens, Zenon
  <2>. QED
    BY <2>0, <2>1
<1>4. TrimRight(TrimLeft(SubSeq(path, Len(EventsPath) + 1, Len(path)))) = named
  BY <1>1, <1>2, TrimmedIsNamed
<1> HIDE DEF parts, named, T
<1>5. parts = SplitN(named, "slash", 2)
  BY <1>3, <1>len, <1>4 DEF SplitPath, parts
<1>6. CASE Len(named) = 1
  <2>1. named = <<named[1]>>
    BY <1>3, <1>len, <1>6
  <2>2. ~Has(named, "slash")
    BY <1>3, <1>len, <1>6 DEF Has
  <2>3. parts = <<named>>
    BY <1>3, <1>5, <2>2, SplitUncut
  <2>. QED
    BY <1>6, <2>1, <2>3 DEF CutAfterFirst, parts, named, T
<1>7. CASE Len(named) # 1
  <2> DEFINE left == <<named[1]>>
             right == SubSeq(named, 3, Len(named))
  <2>0. Len(named) > 1
    BY <1>len, <1>7
  <2>1. Len(named) > 2 /\ named[2] = Slash
    BY <1>3, <2>0, Zenon
  <2>2. left \in Seq(T) /\ right \in Seq(T) /\ Slash \in T
    BY <1>1, <1>3, <2>1 DEF Alternates
  <2>3. named = left \o <<Slash>> \o right
    <3> DEFINE all == left \o <<Slash>> \o right
    <3>1. /\ all \in Seq(T) /\ Len(all) = Len(named)
          /\ \A k \in 1 .. Len(named) : all[k] = named[k]
      BY <1>3, <1>len, <2>1, <2>2
    <3>2. all = [k \in 1 .. Len(named) |-> all[k]] /\ named = [k \in 1 .. Len(named) |-> named[k]]
      <4> HIDE DEF all
      <4>. QED
        BY <1>3, <1>len, <3>1
    <3> HIDE DEF all
    <3>. QED
      BY <3>1, <3>2 DEF all
  <2>4. ~Has(left, "slash")
    BY <1>3 DEF Has
  <2> HIDE DEF left, right
  <2>5. Slash.kind = "slash"
    BY DEF Slash
  <2>6. SplitN(left \o <<Slash>> \o right, "slash", 2) = <<left, right>>
    BY <2>2, <2>4, <2>5, SplitOnce
  <2>7. parts = <<left, right>>
    BY <1>5, <2>3, <2>6
  <2>8. Len(parts) = 2 /\ parts[1] = left /\ parts[2] = right
    BY <2>7
  <2>. QED
    BY <2>1, <2>2, <2>3, <2>8 DEF CutAfterFirst, parts, named, T, left
<1>. QED
  BY <1>6, <1>7

-----------------------------------------------------------------------------
(* Times: the bound that the shards are given is the one of the request.   *)
SameBound(given, time) ==
  /\ given.form = "other" <=> TooLate(time)
  /\ given.form = "rfc3339" => time \notin {NoTime, Unix(0)} /\ given.at = time.at
  /\ given.form \notin {"rfc3339", "other"} => time \in {NoTime, Unix(0)}

LEMMA UnixBound ==
  ASSUME NEW time, IsTime(time), time.form \in {"none", "unix"}
  PROVE  SameBound(UnixToRFC3339(time), time)
<1>1. CASE time = NoTime
  <2>1. UnixToRFC3339(time) = NoTime
    BY <1>1 DEF UnixToRFC3339, NoTime
  <2>. QED
    BY <1>1, <2>1 DEF SameBound, TooLate, NoTime
<1>2. CASE time = Unix(time.at) /\ time.at \in Nat
  <2> DEFINE t == time.at
  <2>0. time = Unix(t) /\ time.form = "unix" /\ t \in Nat /\ time # NoTime
    BY <1>2 DEF Unix, NoTime
  <2> HIDE DEF t
  <2>1. CASE t = 0
    <3>1. UnixToRFC3339(time) = NoTime
      BY <2>1 DEF UnixToRFC3339, t
    <3>2. ~TooLate(time)
      BY <2>1, MaxClockAssumption DEF TooLate, t
    <3>3. NoTime.form = "none" /\ time = Unix(0)
      BY <2>0, <2>1 DEF NoTime
    <3>. QED
      BY <3>1, <3>2, <3>3 DEF SameBound
  <2>2. CASE t # 0
    <3>1. UnixToRFC3339(time) = IF t < Y10K THEN RFC3339(t) ELSE OtherForm
      BY <2>0, <2>2 DEF UnixToRFC3339, t
    <3>2. time # Unix(0)
      BY <2>0, <2>2 DEF Unix
    <3>3. TooLate(time) <=> ~(t < Y10K)
      <4>1. t < Y10K <=> ~(t >= Y10K)
        BY <2>0, MaxClockAssumption
      <4>. QED
        BY <2>0, <4>1 DEF TooLate, t
    <3>4. RFC3339(t).form = "rfc3339" /\ RFC3339(t).at = t /\ OtherForm.form = "other"
      BY DEF RFC3339, OtherForm
    <3>. QED
      BY <2>0, <3>1, <3>2, <3>3, <3>4 DEF SameBound, t
  <2>. QED
    BY <2>1, <2>2
<1>3. time = NoTime \/ (time = Unix(time.at) /\ time.at \in Nat)
  BY DEF IsTime, NoTime, OtherForm, RFC3339, Unix
<1>. QED
  BY <1>1, <1>2, <1>3

LEMMA TextBound ==
  ASSUME NEW time, IsTime(time), time.form \in {"none", "rfc3339"}
  PROVE  SameBound(time, time)
<1>1. time.form = "none" => time = NoTime
  BY DEF IsTime, OtherForm, RFC3339, Unix, NoTime
<1>2. NoTime.form = "none" /\ Unix(0).form = "unix"
  BY DEF NoTime, Unix
<1>. QED
  BY <1>1, <1>2 DEF SameBound, TooLate

LEMMA RangeIsWithin ==
  ASSUME NEW c, NEW times, SameBound(c.start, times.start), SameBound(c.end, times.end),
         NEW entry
  PROVE  Within(entry, times) <=> InRange(entry, c)
<1>1. Unreadable(c) <=> TooLate(times.start) \/ TooLate(times.end)
  BY DEF Unreadable, SameBound
<1>2. CASE Unreadable(c)
  BY <1>1, <1>2 DEF Within, InRange
<1>3. CASE ~Unreadable(c)
  <2>1. c.start.form # "other" /\ c.end.form # "other"
    BY <1>3 DEF Unreadable
  <2>2. /\ times.start \notin {NoTime, Unix(0)} <=> c.start.form = "rfc3339"
        /\ times.end \notin {NoTime, Unix(0)} <=> c.end.form = "rfc3339"
    BY <2>1, Zenon DEF SameBound
  <2>3. /\ c.start.form = "rfc3339" => c.start.at = times.start.at
        /\ c.end.form = "rfc3339" => c.end.at = times.end.at
    BY Zenon DEF SameBound
  <2>. QED
    BY <1>1, <1>3, <2>2, <2>3, Zenon DEF Within, InRange
<1>. QED
  BY <1>2, <1>3

-----------------------------------------------------------------------------
(* What the handlers pass to LookupMany, and what they answer.             *)
Posted ==
  /\ Route(request.path) = "query"
  /\ Decodes(request.body) /\ request.body.refs # <<>>
  /\ call = [by |-> "query", refs |-> request.body.refs,
             start |-> UnixToRFC3339(request.body.start),
             end |-> UnixToRFC3339(request.body.end)]

AskedForAll ==
  /\ Route(request.path) = "events" /\ Len(Parts) = 1
  /\ TimesParse(request.query)
  /\ call = [by |-> "getAll", refs |-> <<Parts[1]>>,
             start |-> request.query.start, end |-> request.query.end]

AskedForOne ==
  /\ Route(request.path) = "events" /\ Len(Parts) >= 2
  /\ call = [by |-> "getOne", refs |-> <<Parts[1]>>, start |-> NoTime, end |-> NoTime]

Passed == Posted \/ AskedForAll \/ AskedForOne

FirstNamed == SelectInSeq(Found, LAMBDA e : e.id = Parts[2])

Answers ==
  \/ call.by = "query" /\ seen = Response(200, Found)
  \/ call.by = "getAll" /\ seen = IF Found = <<>> THEN Status(404) ELSE Response(200, Found)
  \/ /\ call.by = "getOne"
     /\ seen = IF FirstNamed = 0 THEN Status(404) ELSE Response(200, <<Found[FirstNamed]>>)

HTTPInv ==
  /\ request \in Requests
  /\ stage \in {"received", "asking", "fetching", "answering", "replied"}
  /\ stage = "received" => call = NoCall
  /\ stage \in {"asking", "fetching", "answering"} => Passed
  /\ stage # "replied" => seen = Nothing
  /\ stage = "replied" => \/ seen = Nothing
                          \/ call = NoCall /\ seen.status # 500
                          \/ Passed /\ Answers

LEMMA HTTPInit == Init => HTTPInv
BY DEF Init, HTTPInv

LEMMA StatusOf == \A s, e : Response(s, e).status = s /\ Response(s, e).events = e
BY DEF Response

(* Passed depends on the request and the call alone.                       *)
LEMMA PassedOn ==
  ASSUME request' = request, call' = call
  PROVE  Passed' = Passed /\ Parts' = Parts
<1>1. Parts' = Parts
  BY DEF Parts
<1>. QED
  BY <1>1 DEF Passed, Posted, AskedForAll, AskedForOne

LEMMA FoundOn ==
  ASSUME request' = request, call' = call, lost' = lost
  PROVE  /\ Matches(call)' = Matches(call)
         /\ Found' = Found /\ FirstNamed' = FirstNamed
<1>1. Matches(call)' = Matches(call)
  BY DEF Matches, InRange, Unreadable
<1>2. Found' = Found
  BY <1>1 DEF Found, FoundFor
<1>3. Parts' = Parts
  BY DEF Parts
<1>4. FirstNamed' = FirstNamed
  BY <1>2, <1>3 DEF FirstNamed, SelectInSeq
<1>. QED
  BY <1>1, <1>2, <1>4

(* A reply ends the handler: of a request that no LookupMany was called    *)
(* for, or with what Answers says.                                         *)
LEMMA ReplyKeeps ==
  ASSUME HTTPInv, NEW response, Reply(response),
         \/ call = NoCall /\ response.status # 500
         \/ /\ Passed
            /\ \/ call.by = "query" /\ response = Response(200, Found)
               \/ /\ call.by = "getAll"
                  /\ response = IF Found = <<>> THEN Status(404) ELSE Response(200, Found)
               \/ /\ call.by = "getOne"
                  /\ response = IF FirstNamed = 0 THEN Status(404)
                                ELSE Response(200, <<Found[FirstNamed]>>)
  PROVE  HTTPInv'
<1>1. /\ request' = request /\ call' = call /\ lost' = lost /\ stage' = "replied"
      /\ seen' \in {Nothing, response}
  BY DEF Reply
<1>2. /\ Matches(call)' = Matches(call)
      /\ Found' = Found /\ FirstNamed' = FirstNamed
  BY <1>1, FoundOn
<1>3. Passed' = Passed
  BY <1>1, PassedOn
<1>4. CASE call = NoCall /\ response.status # 500
  <2>1. seen' = Nothing \/ seen'.status # 500
    BY <1>1, <1>4
  <2>. QED
    BY <1>1, <1>4, <2>1 DEF HTTPInv
<1>5. CASE Passed /\ ~(call = NoCall /\ response.status # 500)
  <2>1. seen' = Nothing \/ Answers'
    BY <1>1, <1>2, <1>5 DEF Answers
  <2>. QED
    BY <1>1, <1>3, <1>5, <2>1 DEF HTTPInv
<1>. QED
  BY <1>4, <1>5

(* A handler calls LookupMany with what the request says.                  *)
LEMMA LookupManyKeeps ==
  ASSUME HTTPInv, stage = "received", NEW by, NEW refs, NEW start, NEW end,
         LookupMany(by, refs, start, end), refs # <<>>,
         Passed'
  PROVE  HTTPInv'
<1>1. request' = request /\ seen' = seen /\ stage' = "asking"
  BY DEF LookupMany
<1>. QED
  BY <1>1 DEF HTTPInv

LEMMA HTTPNext == HTTPInv /\ [Next]_vars => HTTPInv'
<1>. SUFFICES ASSUME HTTPInv, [Next]_vars PROVE HTTPInv'
  OBVIOUS
<1>1. ASSUME NEW status \in {200, 301, 400, 404, 405}, stage = "received", Reply(Status(status))
      PROVE  HTTPInv'
  <2>1. call = NoCall /\ Status(status).status # 500
    BY <1>1 DEF HTTPInv, Status, Response
  <2>. QED
    BY <1>1, <2>1, ReplyKeeps
<1>2. CASE MuxReplies
  BY <1>1, <1>2 DEF MuxReplies, Routed
<1>3. CASE HealthReplies
  BY <1>1, <1>3 DEF HealthReplies, Routed
<1>4. CASE QueryRejects
  BY <1>1, <1>4 DEF QueryRejects, Routed
<1>5. CASE QueryAccepts
  <2> DEFINE start == UnixToRFC3339(request.body.start)
             end   == UnixToRFC3339(request.body.end)
  <2>1. /\ stage = "received" /\ Route(request.path) = "query"
        /\ Decodes(request.body) /\ request.body.refs # <<>>
        /\ LookupMany("query", request.body.refs, start, end)
    BY <1>5 DEF QueryAccepts, Routed
  <2>2. Posted'
    BY <2>1 DEF Posted, LookupMany
  <2>. QED
    BY <2>1, <2>2, LookupManyKeeps DEF Passed
<1>6. CASE EventsRejects
  BY <1>1, <1>6 DEF EventsRejects, Routed
<1>7. CASE GetAll
  <2>1. /\ stage = "received" /\ Route(request.path) = "events" /\ Len(Parts) = 1
    BY <1>7 DEF GetAll, Routed
  <2>2. CASE TimesParse(request.query)
    <3>1. LookupMany("getAll", <<Parts[1]>>, request.query.start, request.query.end)
      BY <1>7, <2>2 DEF GetAll
    <3>2. Parts' = Parts
      BY <3>1 DEF LookupMany, Parts
    <3>3. AskedForAll'
      BY <2>1, <2>2, <3>1, <3>2 DEF AskedForAll, LookupMany
    <3>4. <<Parts[1]>> # <<>>
      OBVIOUS
    <3>. QED
      BY <2>1, <3>1, <3>3, <3>4, LookupManyKeeps, Zenon DEF Passed
  <2>3. CASE ~TimesParse(request.query)
    BY <1>1, <1>7, <2>1, <2>3 DEF GetAll
  <2>. QED
    BY <2>2, <2>3
<1>8. CASE GetOne
  <2>1. /\ stage = "received" /\ Route(request.path) = "events" /\ Len(Parts) >= 2
        /\ LookupMany("getOne", <<Parts[1]>>, NoTime, NoTime)
    BY <1>8 DEF GetOne, Routed
  <2>2. Parts' = Parts
    BY <2>1 DEF LookupMany, Parts
  <2>3. AskedForOne'
    BY <2>1, <2>2 DEF AskedForOne, LookupMany
  <2>4. <<Parts[1]>> # <<>>
    OBVIOUS
  <2>. QED
    BY <2>1, <2>3, <2>4, LookupManyKeeps, Zenon DEF Passed
<1>9. CASE AskShards
  <2>1. /\ stage = "asking" /\ stage' = "fetching"
        /\ request' = request /\ call' = call /\ seen' = seen
    BY <1>9 DEF AskShards
  <2>2. Passed' = Passed
    BY <2>1, PassedOn
  <2>. QED
    BY <2>1, <2>2 DEF HTTPInv
<1>10. ASSUME NEW places, Missing(places)
       PROVE  HTTPInv'
  <2>1. /\ stage = "fetching" /\ stage' = "answering"
        /\ request' = request /\ call' = call /\ seen' = seen
    BY <1>10 DEF Missing
  <2>2. Passed' = Passed
    BY <2>1, PassedOn
  <2>. QED
    BY <2>1, <2>2 DEF HTTPInv
<1>11. CASE Fetch
  BY <1>10, <1>11 DEF Fetch
<1>12. CASE FetchTimesOut
  BY <1>10, <1>12 DEF FetchTimesOut
<1>13. ASSUME NEW by, NEW response, Answer(by, response)
       PROVE  /\ call.by = by /\ Passed
              /\ Reply(response)
  <2>1. stage = "answering" /\ call.by = by
        /\ Reply(IF call.refs = <<>> THEN Status(500) ELSE response)
    BY <1>13 DEF Answer
  <2>2. Passed
    BY <2>1 DEF HTTPInv
  <2>3. call.refs # <<>>
    <3>1. <<Parts[1]>> # <<>>
      OBVIOUS
    <3>2. ASSUME Posted
          PROVE  call.refs = request.body.refs /\ request.body.refs # <<>>
      BY <3>2 DEF Posted
    <3>3. ASSUME AskedForAll \/ AskedForOne
          PROVE  call.refs = <<Parts[1]>>
      BY <3>3 DEF AskedForAll, AskedForOne
    <3>. QED
      BY <2>2, <3>1, <3>2, <3>3, Zenon DEF Passed
  <2>. QED
    BY <2>1, <2>2, <2>3
<1>14. CASE AnswerQuery
  BY <1>13, <1>14, ReplyKeeps DEF AnswerQuery
<1>15. CASE AnswerAll
  <2> DEFINE response == IF Found = <<>> THEN Status(404) ELSE Response(200, Found)
  <2>1. Answer("getAll", response)
    BY <1>15 DEF AnswerAll
  <2> HIDE DEF response
  <2>2. call.by = "getAll" /\ Passed
        /\ Reply(response)
    BY <1>13, <2>1
  <2>. QED
    BY <2>2, ReplyKeeps DEF response
<1>16. CASE AnswerOne
  <2> DEFINE response == IF FirstNamed = 0 THEN Status(404) ELSE Response(200, <<Found[FirstNamed]>>)
  <2>1. Answer("getOne", response)
    BY <1>16 DEF AnswerOne, FirstNamed
  <2> HIDE DEF response
  <2>2. call.by = "getOne" /\ Passed
        /\ Reply(response)
    BY <1>13, <2>1
  <2>. QED
    BY <2>2, ReplyKeeps DEF response
<1>17. ASSUME UNCHANGED <<request, stage, call, lost, seen>>
       PROVE  HTTPInv'
  <2>1. /\ Matches(call)' = Matches(call)
        /\ Found' = Found /\ FirstNamed' = FirstNamed
    BY <1>17, FoundOn
  <2>2. Passed' = Passed
    BY <1>17, PassedOn
  <2>3. Answers' = Answers
    BY <1>17, <2>1 DEF Answers
  <2>. QED
    BY <1>17, <2>1, <2>2, <2>3 DEF HTTPInv
<1>18. CASE Tick \/ ClientGone \/ ReadDeadline \/ Finished \/ UNCHANGED vars
  BY <1>17, <1>18 DEF Tick, ClientGone, ReadDeadline, Finished, vars
<1>. QED
  BY <1>2, <1>3, <1>4, <1>5, <1>6, <1>7, <1>8, <1>9, <1>11, <1>12, <1>14, <1>15, <1>16, <1>18
     DEF Next, Handler

-----------------------------------------------------------------------------
(* What is found: the entries of the matches that were not lost.           *)
LEMMA FoundAre ==
  ASSUME NEW n \in Nat, DOMAIN call.refs = 1 .. n
  PROVE  /\ Found \in Seq(Range(Index))
         /\ \A k \in DOMAIN Found : \E p \in Matches(call) \ lost : Found[k] = Index[p[2]]
         /\ \A p \in Matches(call) \ lost : \E k \in DOMAIN Found : Found[k] = Index[p[2]]
<1> DEFINE E == Range(Index)
           kept == Matches(call) \ lost
           row(i) == [k \in DOMAIN Index |-> IF <<i, k>> \in kept THEN <<Index[k]>> ELSE <<>>]
           rows == [i \in 1 .. n |-> FoundFor(i)]
<1>0. Index \in Seq(E) /\ DOMAIN Index = 1 .. Len(Index) /\ Len(Index) \in Nat
      /\ \A k \in DOMAIN Index : Index[k] \in E
  BY IndexAssumption DEF Range
<1> HIDE DEF E
<1>1. \A p \in kept : p[1] \in 1 .. n /\ p[2] \in DOMAIN Index /\ p = <<p[1], p[2]>>
  BY DEF Matches
<1> HIDE DEF kept
<1>2. ASSUME NEW i \in 1 .. n
      PROVE  /\ FoundFor(i) \in Seq(E)
             /\ \A x \in DOMAIN FoundFor(i) : \E p \in kept : FoundFor(i)[x] = Index[p[2]]
             /\ \A k \in DOMAIN Index : <<i, k>> \in kept =>
                  \E x \in DOMAIN FoundFor(i) : FoundFor(i)[x] = Index[k]
  <2> DEFINE ss == row(i)
  <2>1. FoundFor(i) = FlattenSeq(ss)
    BY Zenon DEF FoundFor, kept
  <2>2. ss \in Seq(Seq(E))
    <3>1. \A k \in DOMAIN Index : (IF <<i, k>> \in kept THEN <<Index[k]>> ELSE <<>>) \in Seq(E)
      BY <1>0
    <3>. QED
      BY <1>0, <3>1
  <2>3. DOMAIN ss = DOMAIN Index
    OBVIOUS
  <2>4. ASSUME NEW k \in DOMAIN Index
        PROVE  /\ <<i, k>> \in kept => ss[k] = <<Index[k]>>
               /\ <<i, k>> \notin kept => ss[k] = <<>>
    OBVIOUS
  <2> HIDE DEF ss
  <2>5. /\ FlattenSeq(ss) \in Seq(E)
        /\ \A k \in DOMAIN FlattenSeq(ss) : \E x \in DOMAIN ss : \E y \in DOMAIN ss[x] :
             FlattenSeq(ss)[k] = ss[x][y]
        /\ \A x \in DOMAIN ss : \A y \in DOMAIN ss[x] : \E k \in DOMAIN FlattenSeq(ss) :
             FlattenSeq(ss)[k] = ss[x][y]
    BY <2>2, FlattenMembers, Zenon
  <2> HIDE DEF row
  <2>6. ASSUME NEW x \in DOMAIN FlattenSeq(ss)
        PROVE  \E p \in kept : FlattenSeq(ss)[x] = Index[p[2]]
    <3>1. PICK k \in DOMAIN ss : \E y \in DOMAIN ss[k] : FlattenSeq(ss)[x] = ss[k][y]
      BY <2>5
    <3>2. PICK y \in DOMAIN ss[k] : FlattenSeq(ss)[x] = ss[k][y]
      BY <3>1
    <3>3. k \in DOMAIN Index
      BY <2>3
    <3>4. ss[k] # <<>>
      <4>1. DOMAIN <<>> = {}
        OBVIOUS
      <4>. QED
        BY <4>1, Zenon
    <3>5. <<i, k>> \in kept /\ ss[k] = <<Index[k]>>
      BY <2>4, <3>3, <3>4, Zenon
    <3>6. y = 1 /\ FlattenSeq(ss)[x] = Index[k]
      BY <3>2, <3>5
    <3>. QED
      BY <3>5, <3>6
  <2>7. ASSUME NEW k \in DOMAIN Index, <<i, k>> \in kept
        PROVE  \E x \in DOMAIN FlattenSeq(ss) : FlattenSeq(ss)[x] = Index[k]
    <3>1. ss[k] = <<Index[k]>>
      BY <2>4, <2>7
    <3>2. 1 \in DOMAIN ss[k] /\ ss[k][1] = Index[k]
      BY <3>1
    <3>3. \E x \in DOMAIN FlattenSeq(ss) : FlattenSeq(ss)[x] = ss[k][1]
      BY <2>3, <2>5, <3>2, Zenon
    <3>. QED
      BY <3>2, <3>3
  <2>. QED
    BY <2>1, <2>5, <2>6, <2>7
<1>3. Found = FlattenSeq(rows)
  BY Zenon DEF Found
<1>4. rows \in Seq(Seq(E)) /\ DOMAIN rows = 1 .. n /\ \A i \in 1 .. n : rows[i] = FoundFor(i)
  BY <1>2
<1> HIDE DEF rows, row
<1>5. /\ FlattenSeq(rows) \in Seq(E)
      /\ \A k \in DOMAIN FlattenSeq(rows) : \E x \in DOMAIN rows : \E y \in DOMAIN rows[x] :
           FlattenSeq(rows)[k] = rows[x][y]
      /\ \A x \in DOMAIN rows : \A y \in DOMAIN rows[x] : \E k \in DOMAIN FlattenSeq(rows) :
           FlattenSeq(rows)[k] = rows[x][y]
  BY <1>4, FlattenMembers, Zenon
<1>6. ASSUME NEW k \in DOMAIN Found
      PROVE  \E p \in kept : Found[k] = Index[p[2]]
  <2>1. PICK i \in DOMAIN rows : \E y \in DOMAIN rows[i] : Found[k] = rows[i][y]
    BY <1>3, <1>5
  <2>2. PICK y \in DOMAIN rows[i] : Found[k] = rows[i][y]
    BY <2>1
  <2>3. i \in 1 .. n /\ y \in DOMAIN FoundFor(i) /\ Found[k] = FoundFor(i)[y]
    BY <1>4, <2>2
  <2>. QED
    BY <1>2, <2>3
<1>7. ASSUME NEW p \in kept
      PROVE  \E k \in DOMAIN Found : Found[k] = Index[p[2]]
  <2>1. p[1] \in 1 .. n /\ p[2] \in DOMAIN Index /\ <<p[1], p[2]>> \in kept
    BY <1>1
  <2>2. PICK x \in DOMAIN FoundFor(p[1]) : FoundFor(p[1])[x] = Index[p[2]]
    BY <1>2, <2>1
  <2>3. p[1] \in DOMAIN rows /\ x \in DOMAIN rows[p[1]] /\ rows[p[1]][x] = Index[p[2]]
    BY <1>4, <2>1, <2>2
  <2>4. \E k \in DOMAIN FlattenSeq(rows) : FlattenSeq(rows)[k] = rows[p[1]][x]
    BY <1>5, <2>3, Zenon
  <2>. QED
    BY <1>3, <2>3, <2>4
<1>. QED
  BY <1>3, <1>5, <1>6, <1>7 DEF kept, E

-----------------------------------------------------------------------------
(* What matches is what is asked for.                                      *)
AskedMatches ==
  \A k \in DOMAIN Index : Asked(Index[k]) <=> \E p \in Matches(call) : p[2] = k

LEMMA PathsDiffer ==
  ASSUME NEW path, IsPath(path)
  PROVE  /\ Route(path) = "query" => path[2] = Query
         /\ Route(path) = "events" => path[2] # Query
<1>1. ASSUME Route(path) = "query"
      PROVE  path[2] = Query
  <2>1. path = <<Slash, Query>>
    BY <1>1 DEF Route
  <2>. QED
    BY <2>1
<1>2. ASSUME Route(path) = "events"
      PROVE  path[2] # Query
  <2>1. path[2] = Events
    BY <1>2, EventsPathAlternates DEF Alternates
  <2>2. Events # Query
    BY DEF Events, Query, Name
  <2>. QED
    BY <2>1, <2>2
<1>. QED
  BY <1>1, <1>2

LEMMA PostedIsAsked ==
  ASSUME request \in Requests, Posted
  PROVE  AskedMatches
<1> DEFINE body == request.body
<1>1. IsPath(request.path) /\ IsTime(body.start) /\ IsTime(body.end)
  BY RequestsAssumption
<1>2. request.path[2] = Query
  BY <1>1, PathsDiffer DEF Posted
<1>3. body.start.form \in {"none", "unix"} /\ body.end.form \in {"none", "unix"}
  BY DEF Posted, Decodes
<1>4. call.refs = body.refs /\ call.start = UnixToRFC3339(body.start)
      /\ call.end = UnixToRFC3339(body.end)
  BY DEF Posted
<1>5. SameBound(call.start, body.start) /\ SameBound(call.end, body.end)
  BY <1>1, <1>3, <1>4, UnixBound
<1>6. \A entry : Within(entry, body) <=> InRange(entry, call)
  BY <1>5, RangeIsWithin
<1>7. \A entry : Asked(entry) <=> /\ \E i \in DOMAIN body.refs : entry.ref = body.refs[i]
                                  /\ Within(entry, body)
  BY <1>2 DEF Asked
<1> HIDE DEF body
<1>8. ASSUME NEW k \in DOMAIN Index, Asked(Index[k])
      PROVE  \E p \in Matches(call) : p[2] = k
  <2>1. PICK i \in DOMAIN body.refs : Index[k].ref = body.refs[i]
    BY <1>7, <1>8
  <2>2. <<i, k>> \in Matches(call)
    BY <1>4, <1>6, <1>7, <1>8, <2>1 DEF Matches
  <2>. QED
    BY <2>2
<1>9. ASSUME NEW k \in DOMAIN Index, NEW p \in Matches(call), p[2] = k
      PROVE  Asked(Index[k])
  <2>1. p[1] \in DOMAIN body.refs /\ Index[k].ref = body.refs[p[1]] /\ InRange(Index[k], call)
    BY <1>4, <1>9 DEF Matches
  <2>. QED
    BY <1>6, <1>7, <1>9, <2>1
<1>. QED
  BY <1>8, <1>9 DEF AskedMatches

(* Asked for a request under /events/, in terms of what its path names.    *)
LEMMA EventsAsked ==
  ASSUME request \in Requests, Route(request.path) = "events", NEW entry
  PROVE  Asked(entry) <=>
           /\ entry.ref = <<Named(request.path)[1]>>
           /\ Len(Named(request.path)) > 2 =>
                Named(request.path) = entry.ref \o <<Slash>> \o entry.id
           /\ ~(Len(Named(request.path)) > 2) => Within(entry, request.query)
<1>1. request.path[2] # Query
  BY RequestsAssumption, PathsDiffer
<1>. QED
  BY <1>1, Zenon DEF Asked, Named, EndOf

LEMMA AllIsAsked ==
  ASSUME request \in Requests, AskedForAll
  PROVE  AskedMatches
<1> DEFINE query == request.query
           named == Named(request.path)
<1>1. IsPath(request.path) /\ IsTime(query.start) /\ IsTime(query.end)
  BY RequestsAssumption
<1>2. Route(request.path) = "events" /\ Len(SplitPath(request.path)) = 1
  BY DEF AskedForAll, Parts
<1>3. Parts[1] = <<named[1]>> /\ Len(named) = 1
  <2>1. Len(SplitPath(request.path)) # 0
    BY <1>2
  <2>2. CutAfterFirst(request.path, SplitPath(request.path))
    BY <1>1, <1>2, <2>1, PartsAreNamed, Zenon
  <2>. QED
    BY <1>2, <2>2 DEF CutAfterFirst, Parts
<1>4. query.start.form \in {"none", "rfc3339"} /\ query.end.form \in {"none", "rfc3339"}
  BY DEF AskedForAll, TimesParse
<1>5. call.refs = <<Parts[1]>> /\ call.start = query.start /\ call.end = query.end
  BY DEF AskedForAll
<1>6. SameBound(call.start, query.start) /\ SameBound(call.end, query.end)
  BY <1>1, <1>4, <1>5, TextBound
<1>7. \A entry : Within(entry, query) <=> InRange(entry, call)
  BY <1>6, RangeIsWithin
<1>8. \A entry : Asked(entry) <=> entry.ref = <<named[1]>> /\ Within(entry, query)
  BY <1>2, <1>3, EventsAsked
<1>9. DOMAIN call.refs = {1} /\ call.refs[1] = <<named[1]>>
  BY <1>3, <1>5
<1> HIDE DEF query, named
<1>10. \A k \in DOMAIN Index : Asked(Index[k]) <=> <<1, k>> \in Matches(call)
  BY <1>7, <1>8, <1>9 DEF Matches
<1>11. \A p \in Matches(call) : p = <<1, p[2]>>
  BY <1>9 DEF Matches
<1>. QED
  BY <1>10, <1>11 DEF AskedMatches

(* Of the entries of a reference id, the one with the event id of the path.*)
LEMMA OneIsAsked ==
  ASSUME request \in Requests, AskedForOne
  PROVE  /\ \A k \in DOMAIN Index :
              Asked(Index[k]) <=> Index[k].id = Parts[2] /\ <<1, k>> \in Matches(call)
         /\ \A p \in Matches(call) : p = <<1, p[2]>>
<1> DEFINE named == Named(request.path)
<1>1. IsPath(request.path)
  BY RequestsAssumption
<1>2. Route(request.path) = "events" /\ Len(SplitPath(request.path)) >= 2
  BY DEF AskedForOne, Parts
<1>cut. CutAfterFirst(request.path, SplitPath(request.path))
  <2>1. Len(SplitPath(request.path)) # 0
    BY <1>2
  <2>. QED
    BY <1>1, <1>2, <2>1, PartsAreNamed, Zenon
<1>3. Len(SplitPath(request.path)) = 2
  <2>1. Len(SplitPath(request.path)) \in {1, 2}
    BY <1>cut DEF CutAfterFirst
  <2>. QED
    BY <1>2, <2>1
<1>4. /\ Parts[1] = <<named[1]>> /\ Len(named) > 2
      /\ Parts[2] \in Seq(Range(request.path))
      /\ named = Parts[1] \o <<Slash>> \o Parts[2]
  BY <1>3, <1>cut DEF CutAfterFirst, Parts
<1>5. call.refs = <<Parts[1]>> /\ call.start = NoTime /\ call.end = NoTime
  BY DEF AskedForOne
<1>6. \A entry : InRange(entry, call)
  BY <1>5 DEF InRange, Unreadable, NoTime
<1>7. DOMAIN call.refs = {1} /\ call.refs[1] = <<named[1]>>
  BY <1>4, <1>5
<1> HIDE DEF named
<1>8. \A entry : Asked(entry) <=> entry.ref = <<named[1]>> /\ named = entry.ref \o <<Slash>> \o entry.id
  BY <1>2, <1>4, EventsAsked DEF named
<1>9. ASSUME NEW k \in DOMAIN Index
      PROVE  named = <<named[1]>> \o <<Slash>> \o Index[k].id <=> Index[k].id = Parts[2]
  <2> DEFINE T == Range(request.path) \cup {named[1], Slash} \cup Range(Index[k].id)
             front == <<named[1]>> \o <<Slash>>
             id == Index[k].id
             part == Parts[2]
  <2>1. id \in Seq(Range(id))
    BY IndexAssumption DEF Range
  <2>2. id \in Seq(T) /\ part \in Seq(T) /\ front \in Seq(T)
    BY <1>4, <2>1, SeqMonotonic
  <2>3. named = front \o part
    BY <1>4
  <2> HIDE DEF T, front, id, part
  <2>4. front \o part = front \o id => part = id
    BY <2>2, ConcatSimplifications, Zenon
  <2>. QED
    BY <2>3, <2>4 DEF front, id, part
<1>10. \A k \in DOMAIN Index : <<1, k>> \in Matches(call) <=> Index[k].ref = <<named[1]>>
  BY <1>6, <1>7 DEF Matches
<1>11. \A p \in Matches(call) : p = <<1, p[2]>>
  BY <1>7 DEF Matches
<1>12. ASSUME NEW k \in DOMAIN Index
       PROVE  Asked(Index[k]) <=> Index[k].id = Parts[2] /\ <<1, k>> \in Matches(call)
  BY <1>8, <1>9, <1>10
<1>. QED
  BY <1>11, <1>12

-----------------------------------------------------------------------------
(* What is answered.                                                       *)
LEMMA FirstNamedIs ==
  ASSUME NEW E, Found \in Seq(E)
  PROVE  \/ /\ FirstNamed = 0
            /\ \A i \in DOMAIN Found : Found[i].id # Parts[2]
         \/ FirstNamed \in DOMAIN Found /\ FirstNamed # 0 /\ Found[FirstNamed].id = Parts[2]
<1> DEFINE n == Len(Found)
           I == {i \in 1 .. n : Found[i].id = Parts[2]}
<1>1. n \in Nat /\ DOMAIN Found = 1 .. n
  OBVIOUS
<1>2. FirstNamed = IF I # {} THEN Min(I) ELSE 0
  BY Zenon DEF FirstNamed, SelectInSeq
<1> HIDE DEF n
<1>3. CASE I = {}
  BY <1>1, <1>2, <1>3
<1>4. CASE I # {}
  <2>1. IsFiniteSet(1 .. n) /\ I \subseteq 1 .. n
    BY <1>1, FS_Interval
  <2>2. Numbers(I)
    BY <1>1, <2>1, FS_Subset DEF Numbers
  <2> HIDE DEF I
  <2>3. Min(I) \in I
    BY <1>4, <2>2, LeastNumber
  <2>4. FirstNamed \in I
    BY <1>2, <1>4, <2>3
  <2>. QED
    BY <1>1, <2>4 DEF I
<1>. QED
  BY <1>3, <1>4

LEMMA PassedRefs ==
  ASSUME request \in Requests, Passed
  PROVE  \E n \in Nat : DOMAIN call.refs = 1 .. n
<1>1. ASSUME Posted
      PROVE  \E n \in Nat : DOMAIN call.refs = 1 .. n
  <2> DEFINE refs == request.body.refs
  <2>1. refs \in Seq(Range(refs))
    BY RequestsAssumption
  <2>2. call.refs = refs
    BY <1>1 DEF Posted
  <2> HIDE DEF refs
  <2>3. DOMAIN refs = 1 .. Len(refs) /\ Len(refs) \in Nat
    BY <2>1
  <2>. QED
    BY <2>2, <2>3
<1>2. ASSUME AskedForAll \/ AskedForOne
      PROVE  \E n \in Nat : DOMAIN call.refs = 1 .. n
  <2>1. call.refs = <<Parts[1]>>
    BY <1>2 DEF AskedForAll, AskedForOne
  <2>2. DOMAIN call.refs = 1 .. 1
    BY <2>1
  <2>. QED
    BY <2>2
<1>. QED
  BY <1>1, <1>2 DEF Passed

AskedEntries == {Index[k] : k \in {j \in DOMAIN Index : Asked(Index[j])}}
FoundEntries == {Found[k] : k \in DOMAIN Found}

(* A list of events: what is asked for, unless it was lost.                *)
LEMMA ListIsAsked ==
  ASSUME request \in Requests, Passed, AskedMatches
  PROVE  /\ FoundEntries \subseteq AskedEntries
         /\ lost = {} => AskedEntries \subseteq FoundEntries
<1>1. PICK n \in Nat : DOMAIN call.refs = 1 .. n
  BY PassedRefs
<1>2. /\ \A k \in DOMAIN Found : \E p \in Matches(call) \ lost : Found[k] = Index[p[2]]
      /\ \A p \in Matches(call) \ lost : \E k \in DOMAIN Found : Found[k] = Index[p[2]]
  BY <1>1, FoundAre
<1>3. \A p \in Matches(call) : p[2] \in DOMAIN Index
  BY DEF Matches
<1>4. ASSUME NEW k \in DOMAIN Found
      PROVE  Found[k] \in AskedEntries
  <2>1. PICK p \in Matches(call) \ lost : Found[k] = Index[p[2]]
    BY <1>2
  <2>2. Asked(Index[p[2]])
    BY <1>3, <2>1 DEF AskedMatches
  <2>. QED
    BY <1>3, <2>1, <2>2 DEF AskedEntries
<1>5. ASSUME lost = {}, NEW k \in DOMAIN Index, Asked(Index[k])
      PROVE  Index[k] \in FoundEntries
  <2>1. PICK p \in Matches(call) : p[2] = k
    BY <1>5 DEF AskedMatches
  <2>2. \E j \in DOMAIN Found : Found[j] = Index[k]
    BY <1>2, <1>5, <2>1
  <2>. QED
    BY <2>2 DEF FoundEntries
<1>6. FoundEntries \subseteq AskedEntries
  BY <1>4 DEF FoundEntries
<1>7. lost = {} => AskedEntries \subseteq FoundEntries
  BY <1>5 DEF AskedEntries
<1>. QED
  BY <1>6, <1>7

(* One event.                                                              *)
LEMMA OneIsNamed ==
  ASSUME request \in Requests, AskedForOne
  PROVE  /\ FirstNamed # 0 => Found[FirstNamed] \in AskedEntries
         /\ FirstNamed = 0 /\ lost = {} => AskedEntries = {}
<1>1. PICK n \in Nat : DOMAIN call.refs = 1 .. n
  BY PassedRefs DEF Passed
<1>2. /\ Found \in Seq(Range(Index))
      /\ \A k \in DOMAIN Found : \E p \in Matches(call) \ lost : Found[k] = Index[p[2]]
      /\ \A p \in Matches(call) \ lost : \E k \in DOMAIN Found : Found[k] = Index[p[2]]
  BY <1>1, FoundAre
<1>3. \A p \in Matches(call) : p[2] \in DOMAIN Index /\ p = <<1, p[2]>>
  BY OneIsAsked DEF Matches
<1>4. \A k \in DOMAIN Index :
        Asked(Index[k]) <=> Index[k].id = Parts[2] /\ <<1, k>> \in Matches(call)
  BY OneIsAsked
<1>5. \/ FirstNamed = 0 /\ \A i \in DOMAIN Found : Found[i].id # Parts[2]
      \/ FirstNamed \in DOMAIN Found /\ FirstNamed # 0 /\ Found[FirstNamed].id = Parts[2]
  BY <1>2, FirstNamedIs
<1>6. ASSUME FirstNamed # 0
      PROVE  Found[FirstNamed] \in AskedEntries
  <2>1. FirstNamed \in DOMAIN Found /\ Found[FirstNamed].id = Parts[2]
    BY <1>5, <1>6
  <2>2. PICK p \in Matches(call) \ lost : Found[FirstNamed] = Index[p[2]]
    BY <1>2, <2>1
  <2>3. p[2] \in DOMAIN Index /\ Index[p[2]].id = Parts[2] /\ <<1, p[2]>> \in Matches(call)
    BY <1>3, <2>1, <2>2
  <2>4. Asked(Index[p[2]])
    BY <1>4, <2>3
  <2>. QED
    BY <2>2, <2>3, <2>4 DEF AskedEntries
<1>7. ASSUME FirstNamed = 0, lost = {}, NEW k \in DOMAIN Index, Asked(Index[k])
      PROVE  FALSE
  <2>1. Index[k].id = Parts[2] /\ <<1, k>> \in Matches(call) \ lost
    BY <1>4, <1>7
  <2>2. <<1, k>>[2] = k
    OBVIOUS
  <2>3. PICK j \in DOMAIN Found : Found[j] = Index[<<1, k>>[2]]
    BY <1>2, <2>1
  <2>. QED
    BY <1>5, <1>7, <2>1, <2>2, <2>3
<1>8. FirstNamed = 0 /\ lost = {} => AskedEntries = {}
  BY <1>7 DEF AskedEntries
<1>. QED
  BY <1>6, <1>8

LEMMA AnswersAreAsked == HTTPInv => AnswersWhatIsAsked
<1>. SUFFICES ASSUME HTTPInv PROVE AnswersWhatIsAsked
  OBVIOUS
<1> DEFINE Right == /\ Shown \subseteq AskedEntries
                    /\ lost = {} => AskedEntries = {} \/ Shown # {}
                    /\ lost = {} /\ call.by # "getOne" => Shown = AskedEntries
<1>1. SUFFICES /\ seen.status # 500
               /\ call.by # "none" /\ seen.status \in {200, 404} => Right
  BY Zenon DEF AnswersWhatIsAsked, AskedEntries
<1>2. CASE seen = Nothing
  BY <1>2 DEF Nothing, Status, Response
<1>3. CASE call = NoCall /\ seen.status # 500
  BY <1>3 DEF NoCall
<1>4. CASE stage = "replied" /\ Passed /\ Answers
  <2>0. request \in Requests
    BY <1>4 DEF HTTPInv
  <2>1. ASSUME seen = Response(200, Found) \/ (Found = <<>> /\ seen = Status(404)),
               AskedMatches
        PROVE  seen.status # 500 /\ Right
    <3>1. seen.status # 500 /\ seen.events = Found
      BY <2>1 DEF Response, Status
    <3>2. Shown = FoundEntries
      BY <3>1, ZenonT(40) DEF Shown, FoundEntries
    <3>3. /\ Shown \subseteq AskedEntries
          /\ lost = {} => AskedEntries \subseteq Shown
      BY <1>4, <2>0, <2>1, <3>2, ListIsAsked
    <3>. QED
      BY <3>1, <3>3
  <2>2. CASE Posted
    <3>1. call.by = "query"
      BY <2>2 DEF Posted
    <3>2. seen = Response(200, Found)
      BY <1>4, <3>1 DEF Answers
    <3>. QED
      BY <2>0, <2>1, <2>2, <3>2, PostedIsAsked
  <2>3. CASE AskedForAll
    <3>1. call.by = "getAll"
      BY <2>3 DEF AskedForAll
    <3>2. seen = Response(200, Found) \/ (Found = <<>> /\ seen = Status(404))
      BY <1>4, <3>1 DEF Answers
    <3>3. AskedMatches
      BY <2>0, <2>3, AllIsAsked
    <3>. QED
      BY <2>1, <3>2, <3>3
  <2>4. CASE AskedForOne
    <3>1. call.by = "getOne"
      BY <2>4 DEF AskedForOne
    <3>2. seen = IF FirstNamed = 0 THEN Status(404) ELSE Response(200, <<Found[FirstNamed]>>)
      BY <1>4, <3>1 DEF Answers
    <3>3. /\ FirstNamed # 0 => Found[FirstNamed] \in AskedEntries
          /\ FirstNamed = 0 /\ lost = {} => AskedEntries = {}
      BY <2>0, <2>4, OneIsNamed
    <3>4. CASE FirstNamed = 0
      <4>1. seen.status = 404 /\ seen.events = <<>>
        BY <3>2, <3>4 DEF Status, Response
      <4>2. Shown = {}
        BY <4>1 DEF Shown
      <4>. QED
        BY <3>1, <3>3, <3>4, <4>1, <4>2
    <3>5. CASE FirstNamed # 0
      <4> DEFINE event == Found[FirstNamed]
      <4>1. seen.status = 200 /\ seen.events = <<event>>
        BY <3>2, <3>5 DEF Response
      <4> HIDE DEF event
      <4>2. Shown = {event}
        BY <4>1 DEF Shown
      <4>3. event \in AskedEntries
        BY <3>3, <3>5 DEF event
      <4>. QED
        BY <3>1, <4>1, <4>2, <4>3
    <3>. QED
      BY <3>4, <3>5
  <2>. QED
    BY <1>4, <2>2, <2>3, <2>4 DEF Passed
<1>. QED
  BY <1>2, <1>3, <1>4 DEF HTTPInv

(* A client that is answered gets entries that it asked for, all of them   *)
(* unless one was lost on the way, 404 only if one was lost or there was   *)
(* none, and never 500 (http.go:54-160, service.go:75-124).                *)
THEOREM HTTPAnswersWhatIsAsked == Spec => []AnswersWhatIsAsked
BY HTTPInit, HTTPNext, AnswersAreAsked, PTL DEF Spec
=============================================================================
