------------------------- MODULE BothProgramsProofs -------------------------
(***************************************************************************)
(* Proofs about what the two programs make of the same thing: of the       *)
(* environment they are started with (Deployment), for any environments,   *)
(* .env files and lists of addresses, and of an entry of the index         *)
(* (PointerReaders), for any places, keys, byte ranges and slashes.        *)
(***************************************************************************)
EXTENDS Deployment, PointerReaders, PointerProofs

-----------------------------------------------------------------------------
(* Lists of at most one element flattened: the elements stay in order, so  *)
(* that the place of each is the rank of its list among those that have    *)
(* one.                                                                    *)
Full(ss, m) == {x \in 1 .. m : ss[x] # <<>>}

InTheirOrder(flat, ss, m) ==
  /\ Len(flat) = Cardinality(Full(ss, m))
  /\ \A x \in Full(ss, m) : ss[x] = <<flat[Rank(Full(ss, m), x)]>>

LEMMA FullIsNumbers ==
  ASSUME NEW ss, NEW m \in Nat
  PROVE  Numbers(Full(ss, m)) /\ Cardinality(Full(ss, m)) \in Nat
<1>1. IsFiniteSet(1 .. m)
  BY FS_Interval
<1>2. Full(ss, m) \subseteq 1 .. m /\ Full(ss, m) \subseteq Int
  BY DEF Full
<1>3. IsFiniteSet(Full(ss, m))
  BY <1>1, <1>2, FS_Subset
<1>. QED
  BY <1>2, <1>3, FS_CardinalityType DEF Numbers

(* A set of numbers and one above them all.                                *)
LEMMA RankAbove ==
  ASSUME NEW I, Numbers(I), NEW n \in Int, \A x \in I : x < n
  PROVE  /\ Cardinality(I \cup {n}) = Cardinality(I) + 1
         /\ Rank(I \cup {n}, n) = Cardinality(I) + 1
         /\ \A x \in I : Rank(I \cup {n}, x) = Rank(I, x)
<1>1. n \notin I /\ \A x \in I : x \in Int
  BY DEF Numbers
<1>2. Cardinality(I \cup {n}) = Cardinality(I) + 1
  BY <1>1, FS_AddElement DEF Numbers
<1>3. Upto(I \cup {n}, n) = I \cup {n}
  BY <1>1 DEF Upto
<1>4. \A x \in I : Upto(I \cup {n}, x) = Upto(I, x)
  BY <1>1 DEF Upto
<1>. QED
  BY <1>2, <1>3, <1>4 DEF Rank

LEMMA FullStep ==
  ASSUME NEW ss, NEW m \in Nat
  PROVE  /\ ss[m + 1] = <<>> => Full(ss, m + 1) = Full(ss, m)
         /\ ss[m + 1] # <<>> =>
              /\ Full(ss, m + 1) = Full(ss, m) \cup {m + 1}
              /\ Cardinality(Full(ss, m + 1)) = Cardinality(Full(ss, m)) + 1
              /\ Rank(Full(ss, m + 1), m + 1) = Cardinality(Full(ss, m)) + 1
              /\ \A x \in Full(ss, m) : Rank(Full(ss, m + 1), x) = Rank(Full(ss, m), x)
<1>1. 1 .. m + 1 = (1 .. m) \cup {m + 1} /\ m + 1 \notin 1 .. m
  OBVIOUS
<1>2. /\ ss[m + 1] = <<>> => Full(ss, m + 1) = Full(ss, m)
      /\ ss[m + 1] # <<>> => Full(ss, m + 1) = Full(ss, m) \cup {m + 1}
  BY <1>1 DEF Full
<1>3. m + 1 \in Int /\ \A x \in Full(ss, m) : x < m + 1
  BY DEF Full
<1>4. Numbers(Full(ss, m))
  BY FullIsNumbers
<1>5. /\ Cardinality(Full(ss, m) \cup {m + 1}) = Cardinality(Full(ss, m)) + 1
      /\ Rank(Full(ss, m) \cup {m + 1}, m + 1) = Cardinality(Full(ss, m)) + 1
      /\ \A x \in Full(ss, m) : Rank(Full(ss, m) \cup {m + 1}, x) = Rank(Full(ss, m), x)
  BY <1>3, <1>4, RankAbove
<1>. QED
  BY <1>2, <1>5

LEMMA AppendInOrder ==
  ASSUME NEW T, NEW ss, NEW m \in Nat, NEW a \in Seq(T), InTheirOrder(a, ss, m),
         ss[m + 1] \in Seq(T), Len(ss[m + 1]) <= 1
  PROVE  InTheirOrder(Cat(a, ss[m + 1]), ss, m + 1)
<1>1. ss[m + 1] = <<>> \/ \E t \in T : ss[m + 1] = <<t>>
  BY ShortList
<1>2. CASE ss[m + 1] = <<>>
  <2>1. Cat(a, ss[m + 1]) = a
    BY <1>2 DEF Cat
  <2>2. Full(ss, m + 1) = Full(ss, m)
    BY <1>2, FullStep
  <2>. QED
    BY <2>1, <2>2 DEF InTheirOrder
<1>3. ASSUME NEW t \in T, ss[m + 1] = <<t>>
      PROVE  InTheirOrder(Cat(a, ss[m + 1]), ss, m + 1)
  <2> DEFINE c == Cat(a, ss[m + 1])
  <2>1. /\ Len(c) = Len(a) + 1 /\ c[Len(a) + 1] = t
        /\ \A k \in 1 .. Len(a) : c[k] = a[k]
    BY <1>3 DEF Cat
  <2> HIDE DEF c
  <2>2. ss[m + 1] # <<>>
    BY <1>3
  <2>3. /\ Full(ss, m + 1) = Full(ss, m) \cup {m + 1}
        /\ Cardinality(Full(ss, m + 1)) = Cardinality(Full(ss, m)) + 1
        /\ Rank(Full(ss, m + 1), m + 1) = Cardinality(Full(ss, m)) + 1
        /\ \A x \in Full(ss, m) : Rank(Full(ss, m + 1), x) = Rank(Full(ss, m), x)
    BY <2>2, FullStep
  <2>4. Len(a) = Cardinality(Full(ss, m))
    BY DEF InTheirOrder
  <2>5. ASSUME NEW x \in Full(ss, m + 1)
        PROVE  ss[x] = <<c[Rank(Full(ss, m + 1), x)]>>
    <3>1. CASE x = m + 1
      BY <1>3, <2>1, <2>3, <2>4, <3>1
    <3>2. CASE x # m + 1
      <4>1. x \in Full(ss, m)
        BY <2>3, <3>2
      <4>2. Rank(Full(ss, m), x) \in 1 .. Len(a)
        BY <2>4, <4>1, FullIsNumbers, RankType
      <4>3. c[Rank(Full(ss, m + 1), x)] = a[Rank(Full(ss, m), x)]
        BY <2>1, <2>3, <4>1, <4>2
      <4>4. ss[x] = <<a[Rank(Full(ss, m), x)]>>
        BY <4>1 DEF InTheirOrder
      <4>. QED
        BY <4>3, <4>4
    <3>. QED
      BY <3>1, <3>2
  <2>6. Len(c) = Cardinality(Full(ss, m + 1))
    BY <2>1, <2>3, <2>4
  <2>. QED
    BY <2>5, <2>6 DEF InTheirOrder, c
<1>. QED
  BY <1>1, <1>2, <1>3

LEMMA FlattenInOrder ==
  ASSUME NEW T, NEW ss \in Seq(Seq(T)), \A x \in DOMAIN ss : Len(ss[x]) <= 1
  PROVE  FlattenSeq(ss) \in Seq(T) /\ InTheirOrder(FlattenSeq(ss), ss, Len(ss))
<1> DEFINE n == Len(ss)
           f == CHOOSE f : Joins(f, ss, n)
           Fine(m) == f[m] \in Seq(T) /\ InTheirOrder(f[m], ss, m)
           S == {m \in 0 .. n : m = 0 \/ Fine(m)}
<1>1. n \in Nat /\ \A k \in 1 .. n : ss[k] \in Seq(T) /\ Len(ss[k]) <= 1
  OBVIOUS
<1>0. InTheirOrder(<<>>, ss, 0)
  <2>1. Full(ss, 0) = {}
    BY DEF Full
  <2>. QED
    BY <2>1, FS_EmptySet DEF InTheirOrder
<1>2. CASE n = 0
  <2>1. FlattenSeq(ss) = <<>>
    BY <1>2 DEF FlattenSeq
  <2>2. <<>> \in Seq(T)
    OBVIOUS
  <2>. QED
    BY <1>0, <1>2, <2>1, <2>2
<1>3. CASE n # 0
  <2>1. Joins(f, ss, n)
    BY <1>1, JoinsExist
  <2> HIDE DEF f
  <2>2. ASSUME NEW m \in 1 .. n
        PROVE  f[m] = IF m = 1 THEN ss[m] ELSE Cat(f[m - 1], ss[m])
    BY <2>1 DEF Joins, Cat
  <2>3. ASSUME NEW m \in 0 .. n, m \in S, m < n
        PROVE  m + 1 \in S
    <3>1. m \in Nat /\ m + 1 \in 1 .. n /\ m + 1 \in 0 .. n
      BY <1>1, <2>3
    <3>2. ss[m + 1] \in Seq(T) /\ Len(ss[m + 1]) <= 1
      BY <1>1, <3>1
    <3>3. \E a \in Seq(T) : InTheirOrder(a, ss, m) /\ f[m + 1] = Cat(a, ss[m + 1])
      <4>1. CASE m = 0
        <5>1. f[m + 1] = ss[m + 1]
          BY <2>2, <3>1, <4>1
        <5>2. Cat(<<>>, ss[m + 1]) = ss[m + 1]
          BY <3>2 DEF Cat
        <5>3. <<>> \in Seq(T)
          OBVIOUS
        <5>. QED
          BY <1>0, <4>1, <5>1, <5>2, <5>3
      <4>2. CASE m # 0
        BY <2>2, <2>3, <3>1, <4>2
      <4>. QED
        BY <4>1, <4>2
    <3>4. PICK a \in Seq(T) : InTheirOrder(a, ss, m) /\ f[m + 1] = Cat(a, ss[m + 1])
      BY <3>3
    <3>5. InTheirOrder(f[m + 1], ss, m + 1)
      BY <3>1, <3>2, <3>4, AppendInOrder
    <3>6. f[m + 1] \in Seq(T)
      BY <3>2, <3>4 DEF Cat
    <3>. QED
      BY <3>1, <3>5, <3>6
  <2>4. 0 .. n \subseteq S
    <3>1. 0 \in S
      BY <1>1
    <3> HIDE DEF S
    <3>. QED
      BY <1>1, <2>3, <3>1, Induct
  <2>5. Fine(n)
    <3> HIDE DEF Fine
    <3>1. n \in 0 .. n
      BY <1>1
    <3>. QED
      BY <1>3, <2>4, <3>1
  <2>6. FlattenSeq(ss) = f[n]
    BY <1>3, FlattenIs DEF f
  <2>. QED
    BY <2>5, <2>6
<1>. QED
  BY <1>2, <1>3

-----------------------------------------------------------------------------
(***************************************************************************)
(* What the two parsers of a list of addresses make of it: both keep the   *)
(* parts that are not blank, each at its rank among them.                  *)
(***************************************************************************)
Naming(list) == {k \in DOMAIN list : list[k] # Blank}

UrlOf(list) == [k \in DOMAIN list |-> IF list[k] = Blank THEN <<>> ELSE <<list[k]>>]

ShardOf(list) ==
  [k \in DOMAIN list |-> IF list[k] = Blank THEN <<>> ELSE <<[id |-> k - 1, url |-> list[k]]>>]

LEMMA NamingIsNumbers ==
  ASSUME NEW list, IsList(list)
  PROVE  Numbers(Naming(list)) /\ Cardinality(Naming(list)) \in Nat
<1>1. DOMAIN list = 1 .. Len(list) /\ Len(list) \in Nat
  BY DEF IsList
<1>2. IsFiniteSet(1 .. Len(list)) /\ Naming(list) \subseteq 1 .. Len(list)
  BY <1>1, FS_Interval DEF Naming
<1>3. IsFiniteSet(Naming(list)) /\ Naming(list) \subseteq Int
  BY <1>1, <1>2, FS_Subset
<1>. QED
  BY <1>3, FS_CardinalityType DEF Numbers

(* Each of the addresses is that of a part, and none is left out.          *)
Parsed(urls, list) ==
  /\ Len(urls) = Cardinality(Naming(list))
  /\ \A k \in Naming(list) : urls[Rank(Naming(list), k)] = list[k]

LEMMA OneFlattenSeq ==
  ASSUME NEW ss
  PROVE  Orchestrator!FlattenSeq(ss) = FlattenSeq(ss)
BY Zenon DEF Orchestrator!FlattenSeq, FlattenSeq

LEMMA UrlsParsed ==
  ASSUME NEW list, IsList(list)
  PROVE  /\ Orchestrator!ParseShardURLs(list) \in Seq(Range(list))
         /\ Parsed(Orchestrator!ParseShardURLs(list), list)
<1> DEFINE ss == UrlOf(list)
           T == Range(list)
<1>1. /\ DOMAIN list = 1 .. Len(list) /\ Len(list) \in Nat
      /\ \A k \in DOMAIN list : list[k] \in T
  BY DEF IsList, Range
<1>2. Orchestrator!ParseShardURLs(list) = FlattenSeq(ss)
  <2>1. Orchestrator!ParseShardURLs(list) = Orchestrator!FlattenSeq(ss)
    BY DEF Orchestrator!ParseShardURLs, Orchestrator!Blank, Blank, UrlOf
  <2>. QED
    BY <2>1, OneFlattenSeq, Zenon
<1>3. /\ ss \in [1 .. Len(list) -> Seq(T)] /\ DOMAIN ss = 1 .. Len(list)
      /\ \A k \in DOMAIN list : /\ ss[k] # <<>> <=> list[k] # Blank
                                /\ list[k] # Blank => ss[k] = <<list[k]>>
                                /\ Len(ss[k]) <= 1
  BY <1>1 DEF UrlOf
<1> HIDE DEF ss, T
<1>4. ss \in Seq(Seq(T)) /\ Len(ss) = Len(list)
  BY <1>1, <1>3
<1>5. Full(ss, Len(ss)) = Naming(list)
  BY <1>1, <1>3, <1>4 DEF Full, Naming
<1>6. FlattenSeq(ss) \in Seq(T) /\ InTheirOrder(FlattenSeq(ss), ss, Len(ss))
  BY <1>1, <1>3, <1>4, FlattenInOrder
<1>7. \A k \in Naming(list) : ss[k] = <<list[k]>>
  BY <1>3 DEF Naming
<1>8. Parsed(FlattenSeq(ss), list)
  <2> DEFINE flat == FlattenSeq(ss)
             A == Naming(list)
  <2>1. Len(flat) = Cardinality(A) /\ \A k \in A : ss[k] = <<flat[Rank(A, k)]>>
    BY <1>5, <1>6 DEF InTheirOrder
  <2> HIDE DEF flat, A
  <2>2. \A k \in A : flat[Rank(A, k)] = list[k]
    BY <1>7, <2>1 DEF A
  <2>. QED
    BY <2>1, <2>2 DEF Parsed, flat, A
<1>. QED
  BY <1>2, <1>6, <1>8 DEF T

LEMMA ShardsParsed ==
  ASSUME NEW list, IsList(list)
  PROVE  /\ ParseShardURLs(list) \in Seq([id : Int, url : Range(list)])
         /\ Len(ParseShardURLs(list)) = Cardinality(Naming(list))
         /\ DOMAIN ParseShardURLs(list) = 1 .. Cardinality(Naming(list))
         /\ \A k \in Naming(list) :
              ParseShardURLs(list)[Rank(Naming(list), k)] = [id |-> k - 1, url |-> list[k]]
<1> DEFINE ss == ShardOf(list)
           T == [id : Int, url : Range(list)]
<1>1. /\ DOMAIN list = 1 .. Len(list) /\ Len(list) \in Nat
      /\ \A k \in DOMAIN list : [id |-> k - 1, url |-> list[k]] \in T
  BY DEF IsList, Range
<1>2. ParseShardURLs(list) = FlattenSeq(ss)
  BY DEF ParseShardURLs, ShardOf
<1> HIDE DEF T
<1>3. /\ ss \in [1 .. Len(list) -> Seq(T)] /\ DOMAIN ss = 1 .. Len(list)
      /\ \A k \in DOMAIN list : /\ ss[k] # <<>> <=> list[k] # Blank
                                /\ list[k] # Blank => ss[k] = <<[id |-> k - 1, url |-> list[k]]>>
                                /\ Len(ss[k]) <= 1
  BY <1>1 DEF ShardOf
<1> HIDE DEF ss
<1>4. ss \in Seq(Seq(T)) /\ Len(ss) = Len(list)
  BY <1>1, <1>3
<1>5. Full(ss, Len(ss)) = Naming(list)
  BY <1>1, <1>3, <1>4 DEF Full, Naming
<1>6. FlattenSeq(ss) \in Seq(T) /\ InTheirOrder(FlattenSeq(ss), ss, Len(ss))
  BY <1>1, <1>3, <1>4, FlattenInOrder
<1>7. \A k \in Naming(list) : ss[k] = <<[id |-> k - 1, url |-> list[k]]>>
  BY <1>3 DEF Naming
<1> DEFINE flat == FlattenSeq(ss)
           A == Naming(list)
<1>8. Len(flat) = Cardinality(A) /\ \A k \in A : ss[k] = <<flat[Rank(A, k)]>>
  BY <1>5, <1>6 DEF InTheirOrder
<1>9. flat \in Seq(T)
  BY <1>6
<1> HIDE DEF flat, A
<1>10. \A k \in A : flat[Rank(A, k)] = [id |-> k - 1, url |-> list[k]]
  BY <1>7, <1>8 DEF A
<1>11. DOMAIN flat = 1 .. Cardinality(A)
  BY <1>8, <1>9
<1>. QED
  BY <1>2, <1>8, <1>9, <1>10, <1>11 DEF flat, A, T

(* The k-th address of one program is that of the k-th shard of the other. *)
LEMMA ParsedAlike ==
  ASSUME NEW list, IsList(list)
  PROVE  /\ Len(ParseShardURLs(list)) = Len(Orchestrator!ParseShardURLs(list))
         /\ DOMAIN ParseShardURLs(list) = 1 .. Len(ParseShardURLs(list))
         /\ \A k \in DOMAIN ParseShardURLs(list) :
              ParseShardURLs(list)[k].url = Orchestrator!ParseShardURLs(list)[k]
<1> DEFINE A == Naming(list)
           urls == Orchestrator!ParseShardURLs(list)
           nodes == ParseShardURLs(list)
<1>1. Numbers(A) /\ Cardinality(A) \in Nat
  BY NamingIsNumbers
<1>2. Len(urls) = Cardinality(A) /\ \A k \in A : urls[Rank(A, k)] = list[k]
  BY UrlsParsed DEF Parsed
<1>3. /\ Len(nodes) = Cardinality(A) /\ DOMAIN nodes = 1 .. Cardinality(A)
      /\ \A k \in A : nodes[Rank(A, k)] = [id |-> k - 1, url |-> list[k]]
  BY ShardsParsed
<1> HIDE DEF A, urls, nodes
<1>4. ASSUME NEW k \in DOMAIN nodes
      PROVE  nodes[k].url = urls[k]
  <2>1. Nth(A, k) \in A /\ Rank(A, Nth(A, k)) = k
    BY <1>1, <1>3, NthExists
  <2>2. nodes[k] = [id |-> Nth(A, k) - 1, url |-> list[Nth(A, k)]]
    BY <1>3, <2>1
  <2>3. urls[k] = list[Nth(A, k)]
    BY <1>2, <2>1
  <2>. QED
    BY <2>2, <2>3
<1>. QED
  BY <1>2, <1>3, <1>4 DEF urls, nodes

(* The addresses are in the order of the parts.                            *)
LEMMA ParsedInOrder ==
  ASSUME NEW list, IsList(list), Orchestrator!ParseShardURLs(list) # <<>>
  PROVE  Orchestrator!InOrder(Orchestrator!ParseShardURLs(list), list)
<1> DEFINE A == Naming(list)
           urls == Orchestrator!ParseShardURLs(list)
           at == [k \in 1 .. Cardinality(A) |-> Nth(A, k)]
<1>1. Numbers(A) /\ Cardinality(A) \in Nat
  BY NamingIsNumbers
<1>2. /\ urls \in Seq(Range(list)) /\ Len(urls) = Cardinality(A)
      /\ \A k \in A : urls[Rank(A, k)] = list[k]
  BY UrlsParsed DEF Parsed
<1> HIDE DEF urls
<1>3. DOMAIN urls = 1 .. Cardinality(A)
  BY <1>2
<1>4. \A k \in A : k \in DOMAIN list
  BY DEF Naming
<1>5. \A k \in DOMAIN list : list[k] # Blank <=> k \in A
  BY DEF Naming
<1> HIDE DEF A
<1>6. \A k \in 1 .. Cardinality(A) : at[k] \in A /\ Rank(A, at[k]) = k
  BY <1>1, NthExists
<1>7. \A k, l \in 1 .. Cardinality(A) : k < l => at[k] < at[l]
  BY <1>1, NthGrows
<1>8. at \in [DOMAIN urls -> DOMAIN list]
  BY <1>3, <1>4, <1>6
<1> HIDE DEF at
<1>9. \A k \in DOMAIN urls : urls[k] = list[at[k]]
  BY <1>2, <1>3, <1>6
<1>10. \A k \in DOMAIN list : list[k] # Blank <=> \E l \in DOMAIN urls : at[l] = k
  <2>1. ASSUME NEW k \in A
        PROVE  \E l \in DOMAIN urls : at[l] = k
    <3>1. Rank(A, k) \in 1 .. Cardinality(A)
      BY <1>1, RankType
    <3>2. at[Rank(A, k)] \in A /\ Rank(A, at[Rank(A, k)]) = Rank(A, k)
      BY <1>6, <3>1
    <3>3. at[Rank(A, k)] = k
      BY <1>1, <3>2, RankInjective
    <3>. QED
      BY <1>3, <3>1, <3>3
  <2>. QED
    BY <1>3, <1>5, <1>6, <2>1
<1>. QED
  <2>1. urls # <<>>
    BY DEF urls
  <2>. QED
    BY <1>3, <1>7, <1>8, <1>9, <1>10, <2>1
    DEF urls, Orchestrator!InOrder, Orchestrator!Empty, Orchestrator!Blank, Blank

-----------------------------------------------------------------------------
(***************************************************************************)
(* The configuration of the orchestrator.  The invariant says of the       *)
(* scanner's loop that a variable is what the environment the process was  *)
(* started with has, or else the first value the lines so far offer.       *)
(***************************************************************************)
Gathered(lines, k, n) ==
  {m \in 1 .. n - 1 : lines[m].kind = "pair" /\ lines[m].key = k /\ lines[m].value # <<>>}

IsFirst(start, lines, k, n, v) ==
  IF start[k].value # <<>> THEN v = start[k].value
  ELSE \/ Gathered(lines, k, n) = {} /\ v = <<>>
       \/ \E m \in Gathered(lines, k, n) :
            v = lines[m].value /\ \A l \in Gathered(lines, k, n) : m <= l

Started ==
  /\ \E d \in Deployments : given = d.given /\ file = d.file /\ env = d.env
  /\ env.shardURLs = given[ShardURLs].value

Scanned ==
  /\ next \in 1 .. Len(file) + 1
  /\ DOMAIN environment = DOMAIN given
  /\ \A m \in 1 .. next - 1 : file[m].kind # "tooLong"
  /\ \A k \in DOMAIN given : IsFirst(given, file, k, next, environment[k].value)
  /\ step # "dotenv" => next = Len(file) + 1 \/ file[next].kind = "tooLong"

Resolved ==
  /\ step = "loaded" =>
       /\ \A k \in Required : environment[k].value # <<>>
       /\ Orchestrator!ParseShardURLs(environment[ShardURLs].value) # <<>>
       /\ \A k \in (Required \cup Optional) \ {ShardURLs} :
            cfg[k] = IF k \in Optional /\ environment[k].value = <<>> THEN Default[k]
                     ELSE environment[k].value
       /\ cfg[ShardURLs] = Orchestrator!ParseShardURLs(environment[ShardURLs].value)
  /\ step = "fatal" =>
       \/ \E k \in Required : environment[k].value = <<>>
       \/ Orchestrator!ParseShardURLs(environment[ShardURLs].value) = <<>>

ConfigInv == Started /\ Scanned /\ Resolved

-----------------------------------------------------------------------------
LEMMA StartedLists ==
  ASSUME Started
  PROVE  /\ Required \cup Optional \subseteq DOMAIN given
         /\ \A k \in DOMAIN given :
              IsList(given[k].value) /\ (~given[k].set => given[k].value = <<>>)
         /\ IsList(file)
         /\ \A n \in DOMAIN file : file[n].kind = "pair" =>
              file[n].key \in DOMAIN given /\ IsList(file[n].value)
         /\ DOMAIN env.buckets = 0 .. MaxIndex
BY DeploymentsAssumption DEF Started

LEMMA GatheredNext ==
  ASSUME NEW lines, NEW k, NEW n \in Nat \ {0}
  PROVE  IF lines[n].kind = "pair" /\ lines[n].key = k /\ lines[n].value # <<>>
         THEN Gathered(lines, k, n + 1) = Gathered(lines, k, n) \cup {n}
         ELSE Gathered(lines, k, n + 1) = Gathered(lines, k, n)
<1>1. 1 .. (n + 1) - 1 = (1 .. n - 1) \cup {n}
  OBVIOUS
<1>. QED
  BY <1>1 DEF Gathered

(* A line that offers k nothing, or comes too late, leaves its value.      *)
LEMMA FirstStays ==
  ASSUME NEW start, NEW lines, NEW k, NEW n \in Nat \ {0}, NEW v,
         IsFirst(start, lines, k, n, v),
         \/ v # <<>>
         \/ ~(lines[n].kind = "pair" /\ lines[n].key = k /\ lines[n].value # <<>>)
  PROVE  IsFirst(start, lines, k, n + 1, v)
<1> DEFINE A == Gathered(lines, k, n)
           B == Gathered(lines, k, n + 1)
<1>1. CASE B = A
  BY <1>1 DEF IsFirst
<1>2. CASE B # A
  <2>1. B = A \cup {n} /\ v # <<>>
    BY <1>2, GatheredNext
  <2>2. \A m \in A : m \in Nat /\ m <= n
    BY DEF Gathered
  <2>3. CASE start[k].value # <<>>
    BY <2>3 DEF IsFirst
  <2>4. CASE start[k].value = <<>>
    <3>1. PICK m \in A : v = lines[m].value /\ \A l \in A : m <= l
      BY <2>1, <2>4 DEF IsFirst
    <3>2. m \in B /\ \A l \in B : m <= l
      BY <2>1, <2>2, <3>1
    <3>. QED
      BY <2>4, <3>1, <3>2 DEF IsFirst
  <2>. QED
    BY <2>3, <2>4
<1>. QED
  BY <1>1, <1>2

(* The first line to offer k a value.                                      *)
LEMMA FirstOffer ==
  ASSUME NEW start, NEW lines, NEW n \in Nat \ {0}, lines[n].kind = "pair",
         IsFirst(start, lines, lines[n].key, n, <<>>)
  PROVE  IsFirst(start, lines, lines[n].key, n + 1, lines[n].value)
<1> DEFINE k == lines[n].key
           A == Gathered(lines, k, n)
           B == Gathered(lines, k, n + 1)
<1>1. start[k].value = <<>>
  BY DEF IsFirst
<1>2. \A m \in A : lines[m].value # <<>>
  BY DEF Gathered
<1>3. A = {}
  BY <1>1, <1>2 DEF IsFirst
<1>4. CASE lines[n].value = <<>>
  <2>1. B = A
    BY <1>4, GatheredNext
  <2>. QED
    BY <1>1, <1>3, <1>4, <2>1 DEF IsFirst
<1>5. CASE lines[n].value # <<>>
  <2>1. B = {n}
    BY <1>3, <1>5, GatheredNext
  <2>. QED
    BY <1>1, <2>1 DEF IsFirst
<1>. QED
  BY <1>4, <1>5

LEMMA InitConfig == DeploymentInit => ConfigInv
<1>. SUFFICES ASSUME DeploymentInit PROVE ConfigInv
  OBVIOUS
<1>1. Started
  BY DEF DeploymentInit, Started
<1>2. step = "dotenv" /\ next = 1 /\ environment = given
  BY DEF DeploymentInit, Orchestrator!Init
<1>3. \A k : Gathered(file, k, 1) = {}
  BY DEF Gathered
<1>4. Len(file) \in Nat
  BY <1>1, StartedLists DEF IsList
<1>5. \A k \in DOMAIN given : IsFirst(given, file, k, next, environment[k].value)
  BY <1>2, <1>3 DEF IsFirst
<1>6. Scanned
  BY <1>2, <1>4, <1>5 DEF Scanned
<1>7. Resolved
  BY <1>2 DEF Resolved
<1>. QED
  BY <1>1, <1>6, <1>7 DEF ConfigInv

(* The steps of the scanner.                                               *)
LEMMA SkipConfig ==
  ASSUME ConfigInv, Orchestrator!Skip, UNCHANGED vars
  PROVE  ConfigInv'
<1>1. /\ step = "dotenv" /\ next <= Len(file) /\ file[next].kind = "other"
      /\ next' = next + 1
      /\ UNCHANGED <<given, file, step, environment, cfg, env>>
  BY DEF Orchestrator!Skip, Orchestrator!AtLine, vars
<1>2. next \in 1 .. Len(file) + 1 /\ Len(file) \in Nat
  BY StartedLists DEF ConfigInv, Scanned, IsList
<1>3. Started'
  BY <1>1 DEF ConfigInv, Started
<1>4. \A k \in DOMAIN given : IsFirst(given, file, k, next + 1, environment[k].value)
  <2>1. next \in Nat \ {0}
    BY <1>2
  <2>2. \A k \in DOMAIN given : IsFirst(given, file, k, next, environment[k].value)
    BY DEF ConfigInv, Scanned
  <2>. QED
    BY <1>1, <2>1, <2>2, FirstStays
<1>5. \A m \in 1 .. (next + 1) - 1 : file[m].kind # "tooLong"
  BY <1>1, <1>2 DEF ConfigInv, Scanned
<1>6. Scanned'
  BY <1>1, <1>2, <1>4, <1>5 DEF ConfigInv, Scanned
<1>7. Resolved'
  BY <1>1 DEF Resolved
<1>. QED
  BY <1>3, <1>6, <1>7 DEF ConfigInv

LEMMA SetPairConfig ==
  ASSUME ConfigInv, Orchestrator!SetPair, UNCHANGED vars
  PROVE  ConfigInv'
<1> DEFINE k == file[next].key
<1>1. /\ step = "dotenv" /\ next <= Len(file) /\ file[next].kind = "pair"
      /\ next' = next + 1
      /\ environment' = IF environment[k].value = <<>>
                        THEN [environment EXCEPT ![k] = [set |-> TRUE, value |-> file[next].value]]
                        ELSE environment
      /\ UNCHANGED <<given, file, step, cfg, env>>
  BY DEF Orchestrator!SetPair, Orchestrator!AtLine, Orchestrator!Getenv, Orchestrator!Empty,
         Orchestrator!Set, vars
<1>2. next \in 1 .. Len(file) + 1 /\ Len(file) \in Nat /\ next \in DOMAIN file
  <2>1. next \in 1 .. Len(file) + 1 /\ Len(file) \in Nat /\ DOMAIN file = 1 .. Len(file)
    BY StartedLists DEF ConfigInv, Scanned, IsList
  <2>. QED
    BY <1>1, <2>1
<1>3. Started'
  BY <1>1 DEF ConfigInv, Started
<1>4. k \in DOMAIN given /\ DOMAIN environment = DOMAIN given
  BY <1>1, <1>2, StartedLists DEF ConfigInv, Scanned
<1>5. ASSUME NEW j \in DOMAIN given
      PROVE  IsFirst(given, file, j, next + 1, environment'[j].value)
  <2>1. next \in Nat \ {0}
    BY <1>2
  <2>2. IsFirst(given, file, j, next, environment[j].value)
    BY DEF ConfigInv, Scanned
  <2>3. CASE j = k /\ environment[j].value = <<>>
    <3>1. environment'[j].value = file[next].value
      BY <1>1, <1>4, <2>3
    <3>. QED
      BY <1>1, <2>1, <2>2, <2>3, <3>1, FirstOffer
  <2>4. CASE ~(j = k /\ environment[j].value = <<>>)
    <3>1. environment'[j] = environment[j]
      BY <1>1, <1>4, <2>4
    <3>2. \/ environment[j].value # <<>>
          \/ ~(file[next].kind = "pair" /\ file[next].key = j /\ file[next].value # <<>>)
      BY <2>4
    <3>. QED
      BY <2>1, <2>2, <3>1, <3>2, FirstStays
  <2>. QED
    BY <2>3, <2>4
<1>6. \A m \in 1 .. (next + 1) - 1 : file[m].kind # "tooLong"
  BY <1>1, <1>2 DEF ConfigInv, Scanned
<1>7. DOMAIN environment' = DOMAIN given
  BY <1>1, <1>4
<1>8. Scanned'
  BY <1>1, <1>2, <1>5, <1>6, <1>7 DEF Scanned
<1>9. Resolved'
  BY <1>1 DEF Resolved
<1>. QED
  BY <1>3, <1>8, <1>9 DEF ConfigInv

LEMMA EndOfFileConfig ==
  ASSUME ConfigInv, Orchestrator!EndOfFile, UNCHANGED vars
  PROVE  ConfigInv'
<1>1. /\ next > Len(file) \/ file[next].kind = "tooLong"
      /\ step' = "resolving"
      /\ UNCHANGED <<given, file, next, environment, cfg, env>>
  BY DEF Orchestrator!EndOfFile, Orchestrator!AtLine, vars
<1>2. next \in 1 .. Len(file) + 1 /\ Len(file) \in Nat
  BY StartedLists DEF ConfigInv, Scanned, IsList
<1>3. next = Len(file) + 1 \/ file[next].kind = "tooLong"
  BY <1>1, <1>2
<1>4. Started'
  BY <1>1 DEF ConfigInv, Started
<1>5. Scanned'
  BY <1>1, <1>3 DEF ConfigInv, Scanned
<1>6. Resolved'
  BY <1>1 DEF Resolved
<1>. QED
  BY <1>4, <1>5, <1>6 DEF ConfigInv

(* The variables are resolved.                                             *)
LEMMA ResolveConfig ==
  ASSUME ConfigInv, Orchestrator!Missing \/ Orchestrator!Load, UNCHANGED vars
  PROVE  ConfigInv'
<1>1. /\ step = "resolving" /\ step' \in {"loaded", "fatal"}
      /\ UNCHANGED <<given, file, next, environment, env>>
  BY DEF Orchestrator!Missing, Orchestrator!Load, vars
<1>2. Started'
  BY <1>1 DEF ConfigInv, Started
<1>3. Scanned'
  BY <1>1 DEF ConfigInv, Scanned
<1>4. CASE Orchestrator!Missing
  <2>1. /\ step' = "fatal"
        /\ \/ \E k \in Required : environment[k].value = <<>>
           \/ Orchestrator!ParseShardURLs(environment[ShardURLs].value) = <<>>
    BY <1>4 DEF Orchestrator!Missing, Orchestrator!Getenv, Orchestrator!Empty
  <2>. QED
    BY <1>1, <1>2, <1>3, <2>1 DEF ConfigInv, Resolved
<1>5. CASE Orchestrator!Load
  <2>1. /\ step' = "loaded"
        /\ \A k \in Required : environment[k].value # <<>>
        /\ Orchestrator!ParseShardURLs(environment[ShardURLs].value) # <<>>
        /\ cfg' = [k \in Required \cup Optional |->
               CASE k = ShardURLs -> Orchestrator!ParseShardURLs(environment[k].value)
                 [] k \in Optional -> IF environment[k].value = <<>> THEN Default[k]
                                      ELSE environment[k].value
                 [] OTHER -> environment[k].value]
    BY <1>5 DEF Orchestrator!Load, Orchestrator!Getenv, Orchestrator!Empty, Orchestrator!Keys,
                Orchestrator!EnvOr
  <2>2. ShardURLs \in Required /\ Required \cap Optional = {}
    BY ShardURLsAssumption
  <2>3. cfg'[ShardURLs] = Orchestrator!ParseShardURLs(environment[ShardURLs].value)
    BY <2>1, <2>2
  <2>4. ASSUME NEW k \in (Required \cup Optional) \ {ShardURLs}
        PROVE  cfg'[k] = IF k \in Optional /\ environment[k].value = <<>> THEN Default[k]
                         ELSE environment[k].value
    BY <2>1, <2>2
  <2>. QED
    BY <1>1, <1>2, <1>3, <2>1, <2>3, <2>4 DEF ConfigInv, Resolved
<1>. QED
  BY <1>4, <1>5

LEMMA SameConfig ==
  ASSUME ConfigInv, UNCHANGED <<orchestratorVars, env>>
  PROVE  ConfigInv'
<1>1. Started'
  BY DEF ConfigInv, Started, orchestratorVars
<1>2. Scanned'
  BY DEF ConfigInv, Scanned, orchestratorVars
<1>3. Resolved'
  BY DEF ConfigInv, Resolved, orchestratorVars
<1>. QED
  BY <1>1, <1>2, <1>3 DEF ConfigInv

(* The older service reads its environment and does not write it.          *)
LEMMA ServiceKeepsEnv ==
  ASSUME Next
  PROVE  env' = env
BY DEF Next, ReadBucket, EndBuckets, ParseList, ReadShard, EndShards, Check, Ask, Finished, vars

LEMMA ConfigInvariant == DeploymentSpec => []ConfigInv
<1>1. ASSUME ConfigInv, [DeploymentNext]_deploymentVars
      PROVE  ConfigInv'
  <2>1. CASE LoadOrchestrator
    <3>1. UNCHANGED vars
      BY <2>1 DEF LoadOrchestrator
    <3>2. CASE Orchestrator!Finished
      <4>1. UNCHANGED <<orchestratorVars, env>>
        BY <3>1, <3>2 DEF Orchestrator!Finished, Orchestrator!vars, orchestratorVars, vars
      <4>. QED
        BY <1>1, <4>1, SameConfig
    <3>. QED
      BY <1>1, <2>1, <3>1, <3>2, SkipConfig, SetPairConfig, EndOfFileConfig, ResolveConfig
      DEF LoadOrchestrator, Orchestrator!Next
  <2>2. CASE RunService
    <3>1. UNCHANGED <<orchestratorVars, env>>
      BY <2>2, ServiceKeepsEnv DEF RunService
    <3>. QED
      BY <1>1, <3>1, SameConfig
  <2>3. CASE UNCHANGED deploymentVars
    <3>1. UNCHANGED <<orchestratorVars, env>>
      BY <2>3 DEF deploymentVars, vars
    <3>. QED
      BY <1>1, <3>1, SameConfig
  <2>. QED
    BY <1>1, <2>1, <2>2, <2>3 DEF DeploymentNext
<1>. QED
  BY InitConfig, <1>1, PTL DEF DeploymentSpec

(* When the scanner is through, the lines it has been at are the lines     *)
(* that Meant looks at, and the first entry that is not empty is the first *)
(* entry, if none comes after an empty text.                               *)
LEMMA MeantIsFound ==
  ASSUME ConfigInv, step # "dotenv", NEW k \in DOMAIN given, Orchestrator!NoneAfterEmpty(k)
  PROVE  Orchestrator!Meant(k) = environment[k].value
<1> DEFINE A == Gathered(file, k, next)
           B == Orchestrator!Offers(k)
<1>1. /\ next \in 1 .. Len(file) + 1 /\ Len(file) \in Nat /\ DOMAIN file = 1 .. Len(file)
      /\ \A m \in 1 .. next - 1 : file[m].kind # "tooLong"
      /\ next = Len(file) + 1 \/ file[next].kind = "tooLong"
      /\ IsFirst(given, file, k, next, environment[k].value)
  BY StartedLists DEF ConfigInv, Scanned, IsList
<1>2. Orchestrator!Read = 1 .. next - 1
  <2>1. ASSUME NEW m \in 1 .. next - 1
        PROVE  m \in Orchestrator!Read
    <3>1. m \in DOMAIN file /\ \A l \in 1 .. m : l \in 1 .. next - 1
      BY <1>1
    <3>. QED
      BY <1>1, <3>1 DEF Orchestrator!Read
  <2>2. ASSUME NEW m \in Orchestrator!Read
        PROVE  m \in 1 .. next - 1
    <3>1. m \in 1 .. Len(file) /\ \A l \in 1 .. m : file[l].kind # "tooLong"
      BY <1>1 DEF Orchestrator!Read
    <3>2. CASE m >= next
      <4>1. next \in 1 .. m /\ next # Len(file) + 1
        BY <1>1, <3>1, <3>2
      <4>. QED
        BY <1>1, <3>1, <4>1
    <3>3. CASE m < next
      BY <1>1, <3>1, <3>3
    <3>. QED
      BY <1>1, <3>1, <3>2, <3>3
  <2>. QED
    BY <2>1, <2>2
<1>3. A = {m \in B : file[m].value # <<>>}
  BY <1>2 DEF Orchestrator!Offers, Gathered
<1>4. Numbers(B) /\ \A m \in B : m \in Nat
  <2>1. B \subseteq 1 .. next - 1
    BY <1>2 DEF Orchestrator!Offers
  <2>2. IsFiniteSet(1 .. next - 1) /\ \A m \in 1 .. next - 1 : m \in Nat /\ m \in Int
    <3>1. next - 1 \in Int
      BY <1>1
    <3>2. IsFiniteSet(1 .. next - 1)
      BY <3>1, FS_Interval
    <3>. QED
      BY <3>1, <3>2
  <2> HIDE DEF B
  <2>3. IsFiniteSet(B)
    BY <2>1, <2>2, FS_Subset
  <2>. QED
    BY <2>1, <2>2, <2>3 DEF Numbers
<1>5. /\ given[k].set /\ given[k].value = <<>> => B = {}
      /\ \A m, l \in B : m < l => file[m].value # <<>>
  BY DEF Orchestrator!NoneAfterEmpty, Orchestrator!Empty
<1>6. ~given[k].set => given[k].value = <<>>
  BY StartedLists DEF ConfigInv
<1>7. Orchestrator!Meant(k) =
        IF given[k].set THEN given[k].value
        ELSE IF B = {} THEN <<>>
        ELSE file[CHOOSE m \in B : \A l \in B : m <= l].value
  BY DEF Orchestrator!Meant, Orchestrator!Empty
<1>8. IF given[k].value # <<>> THEN environment[k].value = given[k].value
      ELSE \/ A = {} /\ environment[k].value = <<>>
           \/ \E m \in A : environment[k].value = file[m].value /\ \A l \in A : m <= l
  BY <1>1 DEF IsFirst
<1> HIDE DEF A, B
<1>9. CASE given[k].set
  BY <1>3, <1>5, <1>7, <1>8, <1>9
<1>10. CASE ~given[k].set /\ B = {}
  BY <1>3, <1>6, <1>7, <1>8, <1>10
<1>11. CASE ~given[k].set /\ B # {}
  <2> DEFINE first == CHOOSE m \in B : \A l \in B : m <= l
  <2>1. first \in B /\ \A l \in B : first <= l
    <3>1. \E m \in B : \A l \in B : m <= l
      BY <1>4, <1>11, LeastNumber
    <3>. QED
      BY <3>1
  <2>2. Orchestrator!Meant(k) = file[first].value
    BY <1>7, <1>11
  <2> HIDE DEF first
  <2>3. CASE file[first].value = <<>>
    <3>1. B = {first}
      BY <1>4, <1>5, <2>1, <2>3
    <3>2. A = {}
      BY <1>3, <2>3, <3>1
    <3>. QED
      BY <1>6, <1>8, <1>11, <2>2, <2>3, <3>2
  <2>4. CASE file[first].value # <<>>
    <3>1. first \in A
      BY <1>3, <2>1, <2>4
    <3>2. PICK m \in A : environment[k].value = file[m].value /\ \A l \in A : m <= l
      BY <1>6, <1>8, <1>11, <3>1
    <3>3. m = first
      BY <1>3, <1>4, <2>1, <3>1, <3>2
    <3>. QED
      BY <2>2, <3>2, <3>3
  <2>. QED
    BY <2>3, <2>4
<1>. QED
  BY <1>9, <1>10, <1>11

(* A value is a list of parts, wherever it comes from.                     *)
LEMMA FoundIsList ==
  ASSUME ConfigInv, NEW k \in DOMAIN given
  PROVE  IsList(environment[k].value)
<1>1. /\ IsList(given[k].value)
      /\ DOMAIN file = 1 .. Len(file) /\ Len(file) \in Nat
      /\ \A n \in DOMAIN file : file[n].kind = "pair" => IsList(file[n].value)
      /\ next \in 1 .. Len(file) + 1
      /\ IsFirst(given, file, k, next, environment[k].value)
  BY StartedLists DEF ConfigInv, Scanned, IsList
<1>2. \A m \in Gathered(file, k, next) : m \in DOMAIN file /\ file[m].kind = "pair"
  BY <1>1 DEF Gathered
<1>3. IsList(<<>>)
  BY DEF IsList
<1>. QED
  BY <1>1, <1>2, <1>3 DEF IsFirst

(* The orchestrator's configuration is what it is meant to be, for every   *)
(* environment and every file, the order of the lines and those after the  *)
(* scanner's end included, except for the variables that have an entry     *)
(* after an empty text (config.go:2, 30-58, 62-89, 91-119).                *)
THEOREM DeploymentConfigIsMeant == DeploymentSpec => []ConfigIsMeant
<1>1. ASSUME ConfigInv
      PROVE  ConfigIsMeant
  <2>1. /\ ShardURLs \in Required
        /\ \A k \in Required \cup Optional : k \in DOMAIN given
        /\ Started
    BY <1>1, StartedLists, ShardURLsAssumption DEF ConfigInv
  <2> DEFINE listed == environment[ShardURLs].value
  <2>2. IsList(listed)
    BY <1>1, <2>1, FoundIsList
  <2>3. ASSUME step = "loaded", NEW k \in Required \cup Optional, Orchestrator!NoneAfterEmpty(k)
        PROVE  /\ k \in Required => Orchestrator!Meant(k) # <<>>
               /\ IF k = ShardURLs THEN Orchestrator!InOrder(cfg[k], Orchestrator!Meant(k))
                  ELSE cfg[k] = IF k \in Optional /\ Orchestrator!Meant(k) = <<>> THEN Default[k]
                                ELSE Orchestrator!Meant(k)
    <3>1. Orchestrator!Meant(k) = environment[k].value
      BY <1>1, <2>1, <2>3, MeantIsFound
    <3>2. Orchestrator!InOrder(Orchestrator!ParseShardURLs(listed), listed)
      <4>1. Orchestrator!ParseShardURLs(listed) # <<>>
        BY <1>1, <2>3 DEF ConfigInv, Resolved
      <4>. QED
        BY <2>2, <4>1, ParsedInOrder
    <3>3. cfg[ShardURLs] = Orchestrator!ParseShardURLs(listed)
      BY <1>1, <2>3 DEF ConfigInv, Resolved
    <3>4. k = ShardURLs => Orchestrator!InOrder(cfg[k], Orchestrator!Meant(k))
      BY <3>1, <3>2, <3>3, Zenon
    <3>. QED
      BY <1>1, <2>3, <3>1, <3>4 DEF ConfigInv, Resolved
  <2>4. ASSUME step = "fatal"
        PROVE  \/ \E k \in Required : ~Orchestrator!NoneAfterEmpty(k) \/ Orchestrator!Meant(k) = <<>>
               \/ \A n \in DOMAIN Orchestrator!Meant(ShardURLs) :
                    Orchestrator!Meant(ShardURLs)[n] = Blank
    <3>1. SUFFICES ASSUME \A k \in Required : Orchestrator!NoneAfterEmpty(k)
          PROVE  \/ \E k \in Required : Orchestrator!Meant(k) = <<>>
                 \/ \A n \in DOMAIN Orchestrator!Meant(ShardURLs) :
                      Orchestrator!Meant(ShardURLs)[n] = Blank
      OBVIOUS
    <3>2. \A k \in Required : Orchestrator!Meant(k) = environment[k].value
      BY <1>1, <2>1, <2>4, <3>1, MeantIsFound
    <3>3. CASE \E k \in Required : environment[k].value = <<>>
      BY <3>2, <3>3
    <3>4. CASE Orchestrator!ParseShardURLs(listed) = <<>>
      <4>1. Cardinality(Naming(listed)) = 0
        BY <2>2, <3>4, UrlsParsed DEF Parsed
      <4>2. Naming(listed) = {}
        BY <2>2, <4>1, NamingIsNumbers, FS_EmptySet DEF Numbers
      <4>3. \A n \in DOMAIN listed : listed[n] = Blank
        BY <4>2 DEF Naming
      <4>. QED
        BY <2>1, <3>2, <4>3
    <3>. QED
      BY <1>1, <2>4, <3>3, <3>4 DEF ConfigInv, Resolved
  <2>. QED
    BY <2>3, <2>4 DEF ConfigIsMeant, Orchestrator!ConfigIsMeant, Orchestrator!Keys,
                      Orchestrator!Empty, Orchestrator!Blank, Blank
<1>. QED
  BY <1>1, ConfigInvariant, PTL

-----------------------------------------------------------------------------
(***************************************************************************)
(* The configuration of the older service.  While its loop is at i, the    *)
(* buckets are those of the right form below i, in their order; the list   *)
(* of shards, once parsed, stays what the parser made of it.               *)
(***************************************************************************)
Filled(listed, n) == {k \in 0 .. n - 1 : listed[k] # Invalid}

BucketsSoFar(listed, n, found) ==
  /\ n \in 0 .. MaxIndex + 1
  /\ \A k \in 0 .. n - 1 : listed[k] # None
  /\ found \in Seq(Range(listed))
  /\ Len(found) = Cardinality(Filled(listed, n))
  /\ \A k \in Filled(listed, n) : found[Rank(Filled(listed, n), k)] = listed[k]

BucketsRead(listed, found) ==
  LET leading == {k \in DOMAIN listed : \A j \in 0 .. k : listed[j] # None}
      valid   == {k \in leading : listed[k] # Invalid}
  IN  IF valid = {} THEN found = <<DefaultBucket>>
      ELSE /\ Len(found) = Cardinality(valid)
           /\ \A k \in valid : found[Cardinality({j \in valid : j <= k})] = listed[k]

ShardsListed ==
  env.shardURLs # <<>> =>
    /\ stage \in {"checking", "loaded", "asked"} => shards = ParseShardURLs(env.shardURLs)
    /\ stage \in {"loaded", "asked"} => shards # <<>>
    /\ stage = "asked" => /\ key \in Nat
                          /\ asked = shards[1 + (key % Len(shards))].url

ServiceInv ==
  /\ DOMAIN env.buckets = 0 .. MaxIndex
  /\ IsList(env.shardURLs)
  /\ IF stage = "buckets" THEN BucketsSoFar(env.buckets, i, buckets)
     ELSE BucketsRead(env.buckets, buckets)
  /\ ShardsListed

-----------------------------------------------------------------------------
LEMMA FilledIsNumbers ==
  ASSUME NEW listed, NEW n \in Nat
  PROVE  Numbers(Filled(listed, n)) /\ Cardinality(Filled(listed, n)) \in Nat
<1>1. IsFiniteSet(0 .. n - 1)
  BY FS_Interval
<1>2. Filled(listed, n) \subseteq 0 .. n - 1 /\ Filled(listed, n) \subseteq Int
  BY DEF Filled
<1>3. IsFiniteSet(Filled(listed, n))
  BY <1>1, <1>2, FS_Subset
<1>. QED
  BY <1>2, <1>3, FS_CardinalityType DEF Numbers

(* Another index: a bucket of the right form has the next place, one that  *)
(* is not is left out.                                                     *)
LEMMA ReadOneBucket ==
  ASSUME NEW listed, NEW n, NEW found, BucketsSoFar(listed, n, found),
         DOMAIN listed = 0 .. MaxIndex, n \in 0 .. MaxIndex, listed[n] # None
  PROVE  BucketsSoFar(listed, n + 1,
           IF listed[n] = Invalid THEN found ELSE Append(found, listed[n]))
<1> DEFINE A == Filled(listed, n)
           B == Filled(listed, n + 1)
<1>1. n \in Nat /\ n + 1 \in 0 .. MaxIndex + 1 /\ 0 .. (n + 1) - 1 = (0 .. n - 1) \cup {n}
  BY BoundsAssumption
<1>2. \A k \in 0 .. (n + 1) - 1 : listed[k] # None
  BY <1>1 DEF BucketsSoFar
<1>3. CASE listed[n] = Invalid
  <2>1. B = A
    BY <1>1, <1>3 DEF Filled
  <2>. QED
    BY <1>1, <1>2, <1>3, <2>1 DEF BucketsSoFar
<1>4. CASE listed[n] # Invalid
  <2> DEFINE more == Append(found, listed[n])
  <2>1. B = A \cup {n}
    BY <1>1, <1>4 DEF Filled
  <2>2. Numbers(A) /\ Cardinality(A) \in Nat
    BY <1>1, FilledIsNumbers
  <2>3. n \in Int /\ \A k \in A : k < n
    BY <1>1 DEF Filled
  <2> HIDE DEF A, B
  <2>4. /\ Cardinality(B) = Cardinality(A) + 1
        /\ Rank(B, n) = Cardinality(A) + 1
        /\ \A k \in A : Rank(B, k) = Rank(A, k)
    BY <2>1, <2>2, <2>3, RankAbove
  <2>5. /\ found \in Seq(Range(listed)) /\ Len(found) = Cardinality(A)
        /\ \A k \in A : found[Rank(A, k)] = listed[k]
    BY DEF BucketsSoFar, A
  <2>6. listed[n] \in Range(listed)
    BY DEF Range
  <2>7. /\ more \in Seq(Range(listed)) /\ Len(more) = Cardinality(A) + 1
        /\ more[Cardinality(A) + 1] = listed[n]
        /\ \A l \in 1 .. Cardinality(A) : more[l] = found[l]
    BY <2>5, <2>6
  <2> HIDE DEF more
  <2>8. ASSUME NEW k \in B
        PROVE  more[Rank(B, k)] = listed[k]
    <3>1. CASE k = n
      BY <2>4, <2>7, <3>1
    <3>2. CASE k # n
      <4>1. k \in A
        BY <2>1, <3>2
      <4>2. Rank(A, k) \in 1 .. Cardinality(A)
        BY <2>2, <4>1, RankType
      <4>. QED
        BY <2>4, <2>5, <2>7, <4>1, <4>2
    <3>. QED
      BY <3>1, <3>2
  <2>. QED
    BY <1>1, <1>2, <1>4, <2>4, <2>7, <2>8 DEF BucketsSoFar, B, more
<1>. QED
  BY <1>3, <1>4

(* The first index that is not set, or the one above all.                  *)
LEMMA ReadLastBucket ==
  ASSUME NEW listed, NEW n, NEW found, BucketsSoFar(listed, n, found),
         DOMAIN listed = 0 .. MaxIndex, n \in DOMAIN listed => listed[n] = None
  PROVE  BucketsRead(listed, IF found = <<>> THEN <<DefaultBucket>> ELSE found)
<1> DEFINE leading == {k \in DOMAIN listed : \A j \in 0 .. k : listed[j] # None}
           valid   == {k \in leading : listed[k] # Invalid}
           A == Filled(listed, n)
<1>1. /\ n \in 0 .. MaxIndex + 1 /\ MaxIndex \in Nat
      /\ \A k \in 0 .. n - 1 : listed[k] # None
  BY BoundsAssumption DEF BucketsSoFar
<1>2. leading = 0 .. n - 1
  <2>1. ASSUME NEW k \in 0 .. n - 1
        PROVE  k \in leading
    <3>1. k \in 0 .. MaxIndex /\ \A j \in 0 .. k : j \in 0 .. n - 1
      BY <1>1
    <3>. QED
      BY <1>1, <3>1
  <2>2. ASSUME NEW k \in leading
        PROVE  k \in 0 .. n - 1
    <3>1. k \in 0 .. MaxIndex /\ \A j \in 0 .. k : listed[j] # None
      OBVIOUS
    <3>2. CASE k >= n
      <4>1. n \in 0 .. k /\ n \in 0 .. MaxIndex
        BY <1>1, <3>1, <3>2
      <4>. QED
        BY <3>1, <4>1
    <3>3. CASE k < n
      BY <1>1, <3>1, <3>3
    <3>. QED
      BY <1>1, <3>1, <3>2, <3>3
  <2>. QED
    BY <2>1, <2>2
<1>3. valid = A
  BY <1>2 DEF Filled
<1>4. Numbers(A) /\ Cardinality(A) \in Nat
  BY <1>1, FilledIsNumbers
<1>5. /\ found \in Seq(Range(listed)) /\ Len(found) = Cardinality(A)
      /\ \A k \in A : found[Rank(A, k)] = listed[k]
  BY DEF BucketsSoFar
<1>6. A = {} <=> Cardinality(A) = 0
  BY <1>4, FS_EmptySet DEF Numbers
<1>7. found = <<>> <=> Len(found) = 0
  BY <1>5
<1>8. \A k \in A : Rank(A, k) = Cardinality({j \in A : j <= k})
  BY DEF Rank, Upto
<1> DEFINE final == IF found = <<>> THEN <<DefaultBucket>> ELSE found
<1>9. IF valid = {} THEN final = <<DefaultBucket>>
      ELSE /\ Len(final) = Cardinality(valid)
           /\ \A k \in valid : final[Cardinality({j \in valid : j <= k})] = listed[k]
  <2> HIDE DEF valid, A
  <2>. QED
    BY <1>3, <1>5, <1>6, <1>7, <1>8
<1> HIDE DEF final
<1>10. BucketsRead(listed, final)
  BY <1>9, Zenon DEF BucketsRead
<1>. QED
  BY <1>10 DEF final

LEMMA InitService == DeploymentInit => ServiceInv
<1>. SUFFICES ASSUME DeploymentInit PROVE ServiceInv
  OBVIOUS
<1>1. Started /\ ShardURLs \in Required
  BY ShardURLsAssumption DEF DeploymentInit, Started
<1>2. DOMAIN env.buckets = 0 .. MaxIndex /\ IsList(env.shardURLs)
  <2>1. /\ Required \cup Optional \subseteq DOMAIN given
        /\ \A k \in DOMAIN given : IsList(given[k].value)
        /\ DOMAIN env.buckets = 0 .. MaxIndex
    BY <1>1, StartedLists
  <2>. QED
    BY <1>1, <2>1 DEF Started
<1>3. stage = "buckets" /\ i = 0 /\ buckets = <<>>
  BY DEF DeploymentInit, Init
<1>4. BucketsSoFar(env.buckets, 0, <<>>)
  <2>1. 0 .. 0 - 1 = {} /\ Filled(env.buckets, 0) = {} /\ 0 \in 0 .. MaxIndex + 1
    BY BoundsAssumption DEF Filled
  <2>2. <<>> \in Seq(Range(env.buckets)) /\ Len(<<>>) = 0
    OBVIOUS
  <2>. QED
    BY <2>1, <2>2, FS_EmptySet DEF BucketsSoFar
<1>5. ShardsListed
  BY <1>3 DEF ShardsListed
<1>. QED
  BY <1>2, <1>3, <1>4, <1>5 DEF ServiceInv

LEMMA BucketsService ==
  ASSUME ServiceInv, ReadBucket \/ EndBuckets
  PROVE  ServiceInv'
<1>1. stage = "buckets" /\ UNCHANGED <<env, shards, key, asked>>
  BY DEF ReadBucket, EndBuckets
<1>2. DOMAIN env.buckets = 0 .. MaxIndex /\ BucketsSoFar(env.buckets, i, buckets)
  BY <1>1 DEF ServiceInv
<1>3. CASE ReadBucket
  <2>1. i \in DOMAIN env.buckets /\ env.buckets[i] # None
    BY <1>3 DEF ReadBucket, Variable
  <2>2. /\ stage' = "buckets" /\ i' = i + 1
        /\ buckets' = IF env.buckets[i] = Invalid THEN buckets
                      ELSE Append(buckets, env.buckets[i])
    BY <1>1, <1>3, <2>1 DEF ReadBucket, Variable
  <2>3. BucketsSoFar(env.buckets, i + 1, IF env.buckets[i] = Invalid THEN buckets
                                         ELSE Append(buckets, env.buckets[i]))
    BY <1>2, <2>1, ReadOneBucket
  <2>4. BucketsSoFar(env.buckets, i', buckets')
    BY <2>2, <2>3
  <2>. QED
    BY <1>1, <2>2, <2>4 DEF ServiceInv, ShardsListed
<1>4. CASE EndBuckets
  <2>1. i \in DOMAIN env.buckets => env.buckets[i] = None
    BY <1>4 DEF EndBuckets, Variable
  <2>2. stage' = "shards" /\ buckets' = IF buckets = <<>> THEN <<DefaultBucket>> ELSE buckets
    BY <1>4 DEF EndBuckets
  <2>3. BucketsRead(env.buckets, buckets')
    BY <1>2, <2>1, <2>2, ReadLastBucket
  <2>. QED
    BY <1>1, <2>2, <2>3 DEF ServiceInv, ShardsListed
<1>. QED
  BY <1>3, <1>4

LEMMA ShardsService ==
  ASSUME ServiceInv, ParseList \/ ReadShard \/ EndShards \/ Check
  PROVE  ServiceInv'
<1>1. stage # "buckets" /\ stage' # "buckets" /\ UNCHANGED <<env, buckets, key, asked>>
  BY DEF ParseList, ReadShard, EndShards, Check
<1>2. ShardsListed'
  BY DEF ServiceInv, ShardsListed, ParseList, ReadShard, EndShards, Check
<1>. QED
  BY <1>1, <1>2 DEF ServiceInv

LEMMA AskService ==
  ASSUME ServiceInv, NEW h \in 0 .. Hashes - 1, Ask(h)
  PROVE  ServiceInv'
<1>1. /\ stage = "loaded" /\ stage' = "asked" /\ key' = h
      /\ UNCHANGED <<env, i, buckets, shards>>
  BY DEF Ask
<1>2. ASSUME env.shardURLs # <<>>
      PROVE  asked' = shards[1 + (h % Len(shards))].url
  <2>1. shards = ParseShardURLs(env.shardURLs) /\ shards # <<>> /\ IsList(env.shardURLs)
    BY <1>1, <1>2 DEF ServiceInv, ShardsListed
  <2> DEFINE n == Cardinality(Naming(env.shardURLs))
  <2>2. n \in Nat /\ Len(shards) = n /\ DOMAIN shards = 1 .. n
    BY <2>1, NamingIsNumbers, ShardsParsed
  <2> HIDE DEF n
  <2>3. n # 0
    <3>1. shards \in Seq([id : Int, url : Range(env.shardURLs)])
      BY <2>1, ShardsParsed
    <3>. QED
      BY <2>1, <2>2, <3>1
  <2>4. h \in Nat /\ (h % n) + 1 \in 1 .. n /\ 1 + (h % n) = (h % n) + 1
    BY <2>2, <2>3
  <2>. QED
    BY <2>2, <2>4 DEF Ask, ConsistentHash
<1>3. h \in Nat
  OBVIOUS
<1>4. ShardsListed'
  BY <1>1, <1>2, <1>3 DEF ServiceInv, ShardsListed
<1>. QED
  BY <1>1, <1>4 DEF ServiceInv

LEMMA SameService ==
  ASSUME ServiceInv, UNCHANGED vars
  PROVE  ServiceInv'
BY DEF ServiceInv, ShardsListed, vars

LEMMA ServiceInvariant == DeploymentSpec => []ServiceInv
<1>1. ASSUME ServiceInv, [DeploymentNext]_deploymentVars
      PROVE  ServiceInv'
  <2>1. CASE RunService
    BY <1>1, <2>1, BucketsService, ShardsService, AskService, SameService
    DEF RunService, Next, Finished
  <2>2. CASE LoadOrchestrator \/ UNCHANGED deploymentVars
    BY <1>1, <2>2, SameService DEF LoadOrchestrator, deploymentVars
  <2>. QED
    BY <1>1, <2>1, <2>2 DEF DeploymentNext
<1>. QED
  BY InitService, <1>1, PTL DEF DeploymentSpec

(* Every bucket of the right form below the first index that is not set is *)
(* used, in the order of the indexes, whatever stands between them         *)
(* (main.go:72-103).                                                       *)
THEOREM DeploymentBuckets == DeploymentSpec => []BucketsAreTheLeadingOnes
<1>1. ServiceInv => BucketsAreTheLeadingOnes
  BY DEF ServiceInv, BucketsAreTheLeadingOnes, BucketsRead
<1>. QED
  BY <1>1, ServiceInvariant, PTL

(* For every list, wherever its blank parts are, the older service asks    *)
(* the shard at the place in the orchestrator's list that the key has by   *)
(* its hash (main.go:165-172, 612-615, config.go:77-84).                   *)
THEOREM DeploymentBlankParts == DeploymentSpec => []BlankPartsMoveNoKey
<1>1. ASSUME ConfigInv, ServiceInv, stage = "asked", step = "loaded", env.shardURLs # <<>>
      PROVE  asked = cfg[ShardURLs][1 + (key % Len(cfg[ShardURLs]))]
  <2> DEFINE list == env.shardURLs
             urls == cfg[ShardURLs]
  <2>1. ShardURLs \in DOMAIN given /\ list = given[ShardURLs].value
    BY <1>1, StartedLists, ShardURLsAssumption DEF ConfigInv, Started
  <2>2. environment[ShardURLs].value = list
    BY <1>1, <2>1 DEF ConfigInv, Scanned, IsFirst
  <2>3. urls = Orchestrator!ParseShardURLs(list) /\ urls # <<>>
    BY <1>1, <2>2 DEF ConfigInv, Resolved
  <2>4. /\ IsList(list) /\ shards = ParseShardURLs(list) /\ shards # <<>>
        /\ key \in Nat /\ asked = shards[1 + (key % Len(shards))].url
    BY <1>1 DEF ServiceInv, ShardsListed
  <2> HIDE DEF list, urls
  <2>5. urls \in Seq(Range(list))
    BY <2>3, <2>4, UrlsParsed
  <2>6. Len(urls) \in Nat \ {0}
    BY <2>3, <2>5
  <2>7. /\ Len(shards) = Len(urls) /\ DOMAIN shards = 1 .. Len(urls)
        /\ \A k \in DOMAIN shards : shards[k].url = urls[k]
    BY <2>3, <2>4, ParsedAlike
  <2>8. 1 + (key % Len(urls)) \in 1 .. Len(urls)
    BY <2>4, <2>6
  <2>9. asked = urls[1 + (key % Len(urls))]
    BY <2>4, <2>7, <2>8
  <2>. QED
    BY <2>9 DEF urls
<1>2. ConfigInv /\ ServiceInv => BlankPartsMoveNoKey
  BY <1>1 DEF BlankPartsMoveNoKey
<1>. QED
  BY <1>2, ConfigInvariant, ServiceInvariant, PTL

-----------------------------------------------------------------------------
(* An entry of the index.  Each reader computes its result in one step     *)
(* from an entry that never changes, so that the invariant only says so;   *)
(* the rest is what the parsers make of each form (PointerProofs).         *)

(* The entry is one of the forms of its place, and what the readers have   *)
(* made of it is what their parsers return.                                *)
EntryInv ==
  /\ place \in Places
  /\ \E n \in Slashes : s3Path = Leading(n) \o PathIn(form, place)
  /\ form = "node" => startByte = place.start /\ endByte = place.end
  /\ form = "raw"  => startByte = 0 /\ endByte = 0
  /\ resolved \in {Unread, ParsePointer(s3Path, startByte, endByte)}
  /\ resolvedOld \in {Unread, ParseS3Path(s3Path, startByte, endByte)}

LEMMA EntryInvariant == EntrySpec => []EntryInv
<1>1. EntryInit => EntryInv
  BY DEF EntryInit, EntryInv
<1>2. EntryInv /\ [EntryNext]_entryVars => EntryInv'
  BY DEF EntryInv, EntryNext, Read, ReadOld, ReadByBoth, entryVars
<1>. QED
  BY <1>1, <1>2, PTL DEF EntrySpec

LEMMA EntryForms ==
  ASSUME EntryInv
  PROVE  /\ IsBucketName(place.bucket) /\ Lexed(place.key) /\ place.key # <<>>
         /\ place.start \in Int /\ place.end \in Int /\ place.start < place.end
         /\ PathIn("raw", place) = RawForm(place.bucket, place.key, place.start, place.end)
         /\ PathIn("node", place) = NodeForm(place.bucket, place.key)
         /\ \E n \in Nat : s3Path = InFront(n) \o PathIn(form, place)
<1>1. /\ IsBucketName(place.bucket) /\ Lexed(place.key) /\ place.key # <<>>
      /\ place.start \in Int /\ place.end \in Int /\ place.start < place.end
  BY PlacesAssumption DEF EntryInv
<1>2. /\ PathIn("raw", place) = RawForm(place.bucket, place.key, place.start, place.end)
      /\ PathIn("node", place) = NodeForm(place.bucket, place.key)
  BY DEF PathIn, RawValue, NodeValue, RawForm, NodeForm
<1>3. \E n \in Nat : s3Path = InFront(n) \o PathIn(form, place)
  BY SlashesAssumption DEF EntryInv, Leading, InFront
<1>. QED
  BY <1>1, <1>2, <1>3

(* The orchestrator resolves both forms of the index to the place they     *)
(* mean, whatever slashes are in front of the path or in the key           *)
(* (parsePointer, service.go:250-316), for a key without pipes.            *)
THEOREM FormsResolve == EntrySpec => []IndexFormsResolve
<1>1. ASSUME EntryInv, resolved # Unread, form \in {"raw", "node"}, Pipes(place.key) = {}
      PROVE  resolved = ThePlace
  <2>1. ~Has(place.key, "pipe")
    BY <1>1 DEF Pipes, Has
  <2>2. resolved = ParsePointer(s3Path, startByte, endByte)
    BY <1>1 DEF EntryInv
  <2>a. IsBucketName(place.bucket) /\ Lexed(place.key)
    BY <1>1, EntryForms
  <2>b. PICK n \in Nat : s3Path = InFront(n) \o PathIn(form, place)
    BY <1>1, EntryForms
  <2>3. CASE form = "raw"
    <3>1. PathIn(form, place) = RawForm(place.bucket, place.key, place.start, place.end)
      BY <1>1, <2>3, EntryForms
    <3>2. ParsePointer(InFront(n) \o RawForm(place.bucket, place.key, place.start, place.end),
                       startByte, endByte) = Located(place.bucket, place.key, place.start, place.end)
      BY <2>1, <2>a, RawFormResolves
    <3>. QED
      BY <2>2, <2>b, <3>1, <3>2 DEF ThePlace
  <2>4. CASE form = "node"
    <3>1. startByte = place.start /\ endByte = place.end
      BY <1>1, <2>4 DEF EntryInv
    <3>2. PathIn(form, place) = NodeForm(place.bucket, place.key)
      BY <1>1, <2>4, EntryForms
    <3>3. Len(SplitN(NodeForm(place.bucket, place.key), "pipe", 4)) # 4
      BY <2>1, <2>a, NodeFormIsNoRawValue
    <3>4. place.start \in Int /\ place.end \in Int /\ place.start < place.end
      BY <1>1, EntryForms
    <3>5. ParsePointer(InFront(n) \o NodeForm(place.bucket, place.key), place.start, place.end)
            = Located(place.bucket, place.key, place.start, place.end)
      BY <2>a, <3>3, <3>4, NodeFormResolves
    <3>. QED
      BY <2>2, <2>b, <3>1, <3>2, <3>5 DEF ThePlace
  <2>. QED
    BY <1>1, <2>3, <2>4
<1>2. EntryInv => IndexFormsResolve
  BY <1>1 DEF IndexFormsResolve
<1>. QED
  BY <1>2, EntryInvariant, PTL

(* Whatever is in its key, a path that the orchestrator resolves is        *)
(* resolved to the place it means or to one of which it is the raw value   *)
(* (parsePointer, service.go:250-316).                                     *)
THEOREM OnlyAmbiguousPathsMislead == EntrySpec => []NeverAnotherPlace
<1>1. ASSUME EntryInv, resolved.ok, form \in {"raw", "node"}
      PROVE  resolved = ThePlace \/ TrimLeft(s3Path) = RawValue(resolved)
  <2> DEFINE path == PathIn(form, place)
             parts == SplitN(path, "pipe", 4)
  <2>a. IsBucketName(place.bucket) /\ Lexed(place.bucket) /\ Lexed(place.key)
    BY <1>1, EntryForms DEF IsBucketName
  <2>b. PICK n \in Nat : s3Path = InFront(n) \o path
    BY <1>1, EntryForms
  <2>c. path \in {RawForm(place.bucket, place.key, place.start, place.end),
                  NodeForm(place.bucket, place.key)}
    BY <1>1, EntryForms
  <2>d. Lexed(path)
    BY <2>a, <2>c, LexedForms
  <2>1. TrimLeft(s3Path) = path /\ Lexed(path)
    <3>1. /\ TrimLeft(InFront(n) \o RawForm(place.bucket, place.key, place.start, place.end))
               = RawForm(place.bucket, place.key, place.start, place.end)
          /\ TrimLeft(InFront(n) \o NodeForm(place.bucket, place.key))
               = NodeForm(place.bucket, place.key)
      BY <2>a, FormsStartWithBucket
    <3> HIDE DEF path
    <3>. QED
      BY <2>b, <2>c, <2>d, <3>1
  <2>2. resolved = ParsePointer(s3Path, startByte, endByte)
    BY <1>1 DEF EntryInv, Unread
  <2> HIDE DEF path
  <2>3. CASE Len(parts) = 4
    <3>1. resolved = FromRawValue(parts)
      BY <2>1, <2>2, <2>3 DEF ParsePointer
    <3>2. IsNumber(parts[3]) /\ IsNumber(parts[4])
      BY <1>1, <3>1 DEF FromRawValue, Unresolved
    <3>3. path = RawForm(parts[1], parts[2], parts[3][1].value, parts[4][1].value)
      BY <2>1, <2>3, <3>2, FourPiecesAreARawValue
    <3>4. resolved = Located(parts[1], parts[2], parts[3][1].value, parts[4][1].value)
      BY <3>1, <3>2 DEF FromRawValue
    <3> HIDE DEF parts
    <3>5. RawValue(resolved) = path
      BY <3>3, <3>4 DEF RawValue, RawForm, Located
    <3>. QED
      BY <2>1, <3>5
  <2>4. CASE Len(parts) # 4 /\ form = "raw"
    <3>1. resolved = FromFields(path, 0, 0)
      BY <1>1, <2>1, <2>2, <2>4 DEF ParsePointer, EntryInv
    <3>2. resolved = Unresolved
      BY <3>1 DEF FromFields
    <3>. QED
      BY <1>1, <3>2 DEF Unresolved
  <2>5. CASE Len(parts) # 4 /\ form = "node"
    <3>1. startByte = place.start /\ endByte = place.end
      BY <1>1, <2>5 DEF EntryInv
    <3>2. path = NodeForm(place.bucket, place.key)
      BY <1>1, <2>5, EntryForms DEF path
    <3>3. Len(SplitN(NodeForm(place.bucket, place.key), "pipe", 4)) # 4
      BY <2>5, <3>2
    <3>4. place.start \in Int /\ place.end \in Int /\ place.start < place.end
      BY <1>1, EntryForms
    <3>5. ParsePointer(InFront(n) \o NodeForm(place.bucket, place.key), place.start, place.end)
            = Located(place.bucket, place.key, place.start, place.end)
      BY <2>a, <3>3, <3>4, NodeFormResolves
    <3>. QED
      BY <2>2, <2>b, <3>1, <3>2, <3>5 DEF ThePlace
  <2>. QED
    BY <1>1, <2>3, <2>4, <2>5
<1>2. EntryInv => NeverAnotherPlace
  BY <1>1 DEF NeverAnotherPlace
<1>. QED
  BY <1>2, EntryInvariant, PTL

(* The older service reads the entries of the rocksdb-node as the          *)
(* orchestrator does, whatever is in the key (parseS3Path, main.go:738).   *)
THEOREM ReadersAgree == EntrySpec => []ReadersAgreeOnNodeValues
<1>1. ASSUME EntryInv, resolvedOld # Unread, resolved = ThePlace, form = "node",
             s3Path[1] # Slash
      PROVE  resolvedOld = resolved
  <2> DEFINE path == NodeForm(place.bucket, place.key)
             parts == <<place.bucket, place.key>>
  <2>1. resolvedOld = ParseS3Path(s3Path, place.start, place.end)
    BY <1>1 DEF EntryInv
  <2>2. PICK n \in Nat : s3Path = InFront(n) \o path
    BY <1>1, EntryForms
  <2>3. path \in Seq(Range(path))
    BY <1>1, EntryForms, LexedForms DEF IsBucketName, Lexed
  <2>4. s3Path = path
    <3> HIDE DEF path
    <3>1. n = 0
      <4>1. SUFFICES ASSUME n # 0 PROVE FALSE
        OBVIOUS
      <4>2. /\ InFront(n) \in Seq({Slash}) /\ Len(InFront(n)) = n /\ 1 \in 1 .. n
            /\ InFront(n)[1] = Slash
        BY <4>1 DEF InFront
      <4>3. InFront(n) \in Seq(Range(path) \cup {Slash}) /\ path \in Seq(Range(path) \cup {Slash})
        BY <2>3, <4>2, SeqMonotonic
      <4>4. (InFront(n) \o path)[1] = Slash
        BY <4>2, <4>3
      <4>. QED
        BY <1>1, <2>2, <4>4
    <3>2. InFront(n) = <<>>
      BY <3>1 DEF InFront
    <3>. QED
      BY <2>2, <2>3, <3>2
  <2>5. Has(path, "pipe")
    <3>1. NodeForm(place.bucket, place.key)[Len(place.bucket) + 1] = Pipe
          /\ Len(place.bucket) + 1 \in DOMAIN NodeForm(place.bucket, place.key)
      <4> DEFINE b == place.bucket
                 k == place.key
                 T == Range(b) \cup Range(k) \cup {Pipe}
      <4>1. b \in Seq(T) /\ k \in Seq(T) /\ Pipe \in T
        BY <1>1, EntryForms, SeqMonotonic DEF IsBucketName, Lexed
      <4> HIDE DEF b, k, T
      <4>2. NodeForm(b, k)[Len(b) + 1] = Pipe /\ Len(b) + 1 \in DOMAIN NodeForm(b, k)
        BY <4>1 DEF NodeForm
      <4>. QED
        BY <4>2 DEF b, k
    <3>. QED
      BY <3>1 DEF Has, Pipe
  <2>6. SplitN(path, "pipe", 2) = parts
    BY <1>1, EntryForms, NodeFormSplits
  <2>7. Len(parts) = 2 /\ parts[1] = place.bucket /\ parts[2] = place.key
    OBVIOUS
  <2>8. place.bucket # <<>> /\ place.key # <<>>
    BY <1>1, EntryForms DEF IsBucketName
  <2> HIDE DEF path, parts
  <2>9. ParseS3Path(path, place.start, place.end)
          = Located(place.bucket, place.key, place.start, place.end)
    BY <2>5, <2>6, <2>7, <2>8 DEF ParseS3Path
  <2>. QED
    BY <1>1, <2>1, <2>4, <2>9 DEF ThePlace
<1>2. EntryInv => ReadersAgreeOnNodeValues
  BY <1>1 DEF ReadersAgreeOnNodeValues
<1>. QED
  BY <1>2, EntryInvariant, PTL
=============================================================================
