------------------------- MODULE ReadServiceProofs -------------------------
(***************************************************************************)
(* Proofs about a query of the older read service.                         *)
(*                                                                         *)
(* What Metas, Group and SetToSeqs make of lists is said by bijections     *)
(* between the places before and after, as FlattenSeq is in PointerProofs. *)
(*                                                                         *)
(* The inductive invariant has five parts, each relative to those before:  *)
(* IInv (types, tokens, which stage knows what), MInv (what the map of the *)
(* first wave and the groups of the second hold), CInv (the counters),     *)
(* RInv (where the events come from) and OInv (what was read is there).    *)
(***************************************************************************)
EXTENDS ReadService, PointerProofs

-----------------------------------------------------------------------------
(* What the entries of an answer become.                                   *)

Metadata == {MetaOf(e) : e \in {f \in Entries : MetaOf(f).ok}}

LEMMA MetadataAre ==
  ASSUME NEW e \in Entries
  PROVE  \/ MetaOf(e) = Unresolved
         \/ /\ MetaOf(e).ok
            /\ MetaOf(e) = Located(MetaOf(e).bucket, MetaOf(e).key, e.start_byte, e.end_byte)
BY DEF MetaOf, ParseS3Path, Located, Unresolved

LEMMA MetasAre ==
  ASSUME NEW entries \in Seq(Entries)
  PROVE  /\ Metas(entries) \in Seq(Metadata)
         /\ \A k \in DOMAIN Metas(entries) : \E j \in DOMAIN entries :
              MetaOf(entries[j]).ok /\ Metas(entries)[k] = MetaOf(entries[j])
         /\ \A j \in DOMAIN entries : MetaOf(entries[j]).ok =>
              \E k \in DOMAIN Metas(entries) : Metas(entries)[k] = MetaOf(entries[j])
<1> DEFINE ss == [k \in DOMAIN entries |->
                    IF MetaOf(entries[k]).ok THEN <<MetaOf(entries[k])>> ELSE <<>>]
           flat == FlattenSeq(ss)
<1>1. \A j \in DOMAIN entries : MetaOf(entries[j]).ok => MetaOf(entries[j]) \in Metadata
  BY DEF Metadata
<1>2. ss \in Seq(Seq(Metadata)) /\ DOMAIN ss = DOMAIN entries
  <2>1. DOMAIN entries = 1 .. Len(entries) /\ Len(entries) \in Nat
    OBVIOUS
  <2>2. \A j \in DOMAIN entries : ss[j] \in Seq(Metadata)
    BY <1>1
  <2>. QED
    BY <2>1, <2>2
<1>3. \A j \in DOMAIN ss : \A y \in DOMAIN ss[j] :
        MetaOf(entries[j]).ok /\ ss[j][y] = MetaOf(entries[j])
  OBVIOUS
<1>4. \A j \in DOMAIN ss : MetaOf(entries[j]).ok => 1 \in DOMAIN ss[j] /\ ss[j][1] = MetaOf(entries[j])
  OBVIOUS
<1>5. Metas(entries) = flat
  BY DEF Metas
<1> HIDE DEF ss
<1>6. /\ flat \in Seq(Metadata)
      /\ \A k \in DOMAIN flat : \E x \in DOMAIN ss : \E y \in DOMAIN ss[x] : flat[k] = ss[x][y]
      /\ \A x \in DOMAIN ss : \A y \in DOMAIN ss[x] : \E k \in DOMAIN flat : flat[k] = ss[x][y]
  BY <1>2, FlattenMembers
<1> HIDE DEF flat
<1>. QED
  BY <1>2, <1>3, <1>4, <1>5, <1>6

-----------------------------------------------------------------------------
(* What groupMetadataByS3Path makes of a list: each of its metadata in one *)
(* place, of the group with its path.                                      *)
Regrouped(place, groups, metas) ==
  /\ place \in Bijection(Rows(groups), DOMAIN metas)
  /\ \A row \in Rows(groups) : /\ groups[row[1]][row[2]] = metas[place[row]]
                               /\ GroupPath(metas[place[row]]) = row[1]

OfPath(metas, path) ==
  [k \in DOMAIN metas |-> IF GroupPath(metas[k]) = path THEN <<metas[k]>> ELSE <<>>]

LEMMA OfPathIs ==
  ASSUME NEW T, NEW metas \in Seq(T), NEW path
  PROVE  /\ OfPath(metas, path) \in Seq(Seq(T))
         /\ DOMAIN OfPath(metas, path) = DOMAIN metas
         /\ \A k \in DOMAIN metas :
              /\ Len(OfPath(metas, path)[k]) <= 1
              /\ OfPath(metas, path)[k] # <<>> <=> GroupPath(metas[k]) = path
              /\ OfPath(metas, path)[k] # <<>> => OfPath(metas, path)[k] = <<metas[k]>>
<1>1. DOMAIN metas = 1 .. Len(metas) /\ Len(metas) \in Nat /\ \A k \in DOMAIN metas : metas[k] \in T
  OBVIOUS
<1>2. \A k \in DOMAIN metas :
        OfPath(metas, path)[k] = IF GroupPath(metas[k]) = path THEN <<metas[k]>> ELSE <<>>
  BY DEF OfPath
<1>3. ASSUME NEW k \in DOMAIN metas
      PROVE  /\ OfPath(metas, path)[k] \in Seq(T)
             /\ Len(OfPath(metas, path)[k]) <= 1
             /\ OfPath(metas, path)[k] # <<>> <=> GroupPath(metas[k]) = path
             /\ OfPath(metas, path)[k] # <<>> => OfPath(metas, path)[k] = <<metas[k]>>
  <2>1. metas[k] \in T
    BY <1>1
  <2>2. CASE GroupPath(metas[k]) = path
    <3>1. OfPath(metas, path)[k] = <<metas[k]>>
      BY <1>2, <2>2
    <3>. QED
      BY <2>1, <2>2, <3>1
  <2>3. CASE GroupPath(metas[k]) # path
    <3>1. OfPath(metas, path)[k] = <<>>
      BY <1>2, <2>3
    <3>. QED
      BY <2>3, <3>1
  <2>. QED
    BY <2>2, <2>3
<1>4. OfPath(metas, path) = [k \in 1 .. Len(metas) |-> OfPath(metas, path)[k]]
  BY <1>1 DEF OfPath
<1>5. OfPath(metas, path) \in Seq(Seq(T)) /\ DOMAIN OfPath(metas, path) = DOMAIN metas
  BY <1>1, <1>3, <1>4
<1>. QED
  BY <1>3, <1>5

LEMMA GroupIs ==
  ASSUME NEW T, NEW metas \in Seq(T)
  PROVE  /\ DOMAIN Group(metas) = {GroupPath(metas[k]) : k \in DOMAIN metas}
         /\ IsFiniteSet(DOMAIN Group(metas))
         /\ \A path \in DOMAIN Group(metas) : Group(metas)[path] \in Seq(T) \ {<<>>}
         /\ \E place : Regrouped(place, Group(metas), metas)
<1> DEFINE G == Group(metas)
           Of(path) == {k \in DOMAIN metas : GroupPath(metas[k]) = path}
           Right(p, path) == /\ p \in Bijection(DOMAIN G[path], Of(path))
                             /\ \A k \in DOMAIN G[path] : G[path][k] = metas[p[k]]
           P == [path \in DOMAIN G |-> CHOOSE p : Right(p, path)]
           place == [row \in Rows(G) |-> P[row[1]][row[2]]]
<1>1. /\ DOMAIN G = {GroupPath(metas[k]) : k \in DOMAIN metas}
      /\ \A path \in DOMAIN G : G[path] = FlattenSeq(OfPath(metas, path))
  BY DEF Group, OfPath
<1>2. IsFiniteSet(DOMAIN G)
  <2> DEFINE f == [k \in DOMAIN metas |-> GroupPath(metas[k])]
  <2>1. f \in Surjection(DOMAIN metas, DOMAIN G)
    BY <1>1 DEF Surjection
  <2>2. DOMAIN metas = 1 .. Len(metas) /\ Len(metas) \in Nat
    OBVIOUS
  <2>3. IsFiniteSet(DOMAIN metas)
    BY <2>2, FS_Interval
  <2> HIDE DEF f, G
  <2>. QED
    BY <2>1, <2>3, FS_Surjection
<1> HIDE DEF G
<1>3. ASSUME NEW path \in DOMAIN G
      PROVE  /\ G[path] \in Seq(T)
             /\ \E p : Right(p, path)
             /\ G[path] # <<>>
  <2> DEFINE ss == OfPath(metas, path)
  <2>1. /\ ss \in Seq(Seq(T))
        /\ DOMAIN ss = DOMAIN metas
        /\ \A k \in DOMAIN metas : /\ Len(ss[k]) <= 1
                                   /\ ss[k] # <<>> <=> GroupPath(metas[k]) = path
                                   /\ ss[k] # <<>> => ss[k] = <<metas[k]>>
    BY OfPathIs
  <2>2. G[path] = FlattenSeq(ss)
    BY <1>1
  <2> HIDE DEF ss
  <2>3. FlattenSeq(ss) \in Seq(T) /\ \E p : FromOptions(p, FlattenSeq(ss), ss)
    BY <2>1, FlattenOptional
  <2>4. PICK p : FromOptions(p, G[path], ss)
    BY <2>2, <2>3
  <2>5. {x \in DOMAIN ss : ss[x] # <<>>} = Of(path)
    BY <2>1
  <2>6. p \in Bijection(DOMAIN G[path], Of(path))
    BY <2>4, <2>5 DEF FromOptions
  <2>7. ASSUME NEW k \in DOMAIN G[path]
        PROVE  G[path][k] = metas[p[k]]
    <3>1. p[k] \in Of(path)
      BY <2>6, Fun_BijectionProperties
    <3>2. ss[p[k]] = <<G[path][k]>> /\ ss[p[k]] = <<metas[p[k]]>>
      BY <2>1, <2>4, <3>1 DEF FromOptions
    <3>. QED
      BY <3>2
  <2>8. G[path] # <<>>
    <3>1. PICK k \in DOMAIN metas : path = GroupPath(metas[k])
      BY <1>1
    <3>2. k \in Of(path)
      BY <3>1
    <3> HIDE DEF Of
    <3>3. \E l \in DOMAIN G[path] : p[l] = k
      BY <2>6, <3>2, Fun_BijectionProperties
    <3>. QED
      BY <3>3
  <2>. QED
    BY <2>2, <2>3, <2>6, <2>7, <2>8
<1>4. ASSUME NEW path \in DOMAIN G
      PROVE  Right(P[path], path)
  <2>1. P[path] = CHOOSE p : Right(p, path)
    OBVIOUS
  <2> HIDE DEF P, Right
  <2>. QED
    BY <1>3, <2>1
<1> HIDE DEF P
<1>5. \A row : row \in Rows(G) <=> \E path \in DOMAIN G : \E k \in DOMAIN G[path] : row = <<path, k>>
  BY DEF Rows
<1>6. ASSUME NEW path \in DOMAIN G
      PROVE  /\ \A k \in DOMAIN G[path] : P[path][k] \in Of(path)
             /\ \A k, l \in DOMAIN G[path] : P[path][k] = P[path][l] => k = l
             /\ \A x \in Of(path) : \E k \in DOMAIN G[path] : P[path][k] = x
  <2>1. P[path] \in Bijection(DOMAIN G[path], Of(path))
    BY <1>4
  <2> HIDE DEF Of
  <2>. QED
    BY <2>1, Fun_BijectionProperties
<1>7. ASSUME NEW row \in Rows(G)
      PROVE  /\ row[1] \in DOMAIN G /\ row[2] \in DOMAIN G[row[1]] /\ row = <<row[1], row[2]>>
             /\ place[row] = P[row[1]][row[2]]
             /\ place[row] \in DOMAIN metas /\ GroupPath(metas[place[row]]) = row[1]
             /\ G[row[1]][row[2]] = metas[place[row]]
  <2>1. row[1] \in DOMAIN G /\ row[2] \in DOMAIN G[row[1]] /\ row = <<row[1], row[2]>>
    BY <1>5
  <2>2. place[row] = P[row[1]][row[2]]
    OBVIOUS
  <2> HIDE DEF place
  <2>3. place[row] \in Of(row[1])
    BY <1>6, <2>1, <2>2
  <2>4. G[row[1]][row[2]] = metas[place[row]]
    BY <1>4, <2>1, <2>2
  <2>. QED
    BY <2>1, <2>2, <2>3, <2>4
<1>8. place \in [Rows(G) -> DOMAIN metas]
  BY <1>7
<1> HIDE DEF place
<1>9. ASSUME NEW r \in Rows(G), NEW s \in Rows(G), place[r] = place[s]
      PROVE  r = s
  <2>1. r[1] = s[1]
    BY <1>7, <1>9
  <2>2. r[2] = s[2]
    BY <1>6, <1>7, <1>9, <2>1
  <2>. QED
    BY <1>7, <2>1, <2>2
<1>10. ASSUME NEW x \in DOMAIN metas
       PROVE  \E row \in Rows(G) : place[row] = x
  <2> DEFINE path == GroupPath(metas[x])
  <2>1. path \in DOMAIN G /\ x \in Of(path)
    BY <1>1
  <2> HIDE DEF path
  <2>2. PICK k \in DOMAIN G[path] : P[path][k] = x
    BY <1>6, <2>1
  <2>3. <<path, k>> \in Rows(G)
    BY <1>5, <2>1
  <2>4. place[<<path, k>>] = x
    BY <1>7, <2>2, <2>3
  <2>. QED
    BY <2>3, <2>4
<1>11. place \in Bijection(Rows(G), DOMAIN metas)
  BY <1>8, <1>9, <1>10, Fun_IsBij
<1>12. Regrouped(place, G, metas)
  BY <1>7, <1>11 DEF Regrouped
<1>. QED
  BY <1>1, <1>2, <1>3, <1>12 DEF G

LEMMA BijectionIs ==
  ASSUME NEW S, NEW T, NEW f \in Bijection(S, T)
  PROVE  /\ f \in [S -> T]
         /\ \A x \in S : f[x] \in T
         /\ \A x, y \in S : f[x] = f[y] => x = y
         /\ \A t \in T : \E x \in S : f[x] = t
<1>1. f \in [S -> T]
  BY Fun_BijectionProperties
<1>2. \A x, y \in S : f[x] = f[y] => x = y
  BY Fun_BijectionProperties
<1>3. \A t \in T : \E x \in S : f[x] = t
  BY Fun_BijectionProperties
<1>. QED
  BY <1>1, <1>2, <1>3

(* A permutation of a finite set.                                          *)
LEMMA Permutation ==
  ASSUME NEW S, IsFiniteSet(S), NEW order \in SetToSeqs(S)
  PROVE  /\ Cardinality(S) \in Nat
         /\ DOMAIN order = 1 .. Cardinality(S)
         /\ order \in Bijection(DOMAIN order, S)
<1> DEFINE D == 1 .. Cardinality(S)
<1>1. Cardinality(S) \in Nat
  BY FS_CardinalityType
<1>2. order \in [D -> S] /\ \A i, j \in D : i # j => order[i] # order[j]
  BY DEF SetToSeqs
<1>3. Cardinality(D) = Cardinality(S)
  BY <1>1, FS_Interval
<1> HIDE DEF D
<1>4. order \in Injection(D, S)
  BY <1>2, Fun_IsInj
<1>5. order \in Surjection(D, S)
  BY <1>3, <1>4, FS_Injection
<1>6. order \in Bijection(D, S)
  BY <1>4, <1>5, Fun_IsBij
<1>7. DOMAIN order = D
  BY <1>2
<1>. QED
  BY <1>1, <1>6, <1>7 DEF D

(* The lists of a map after each other, in any order.                      *)
LEMMA GatherPlaces ==
  ASSUME NEW T, NEW R, NEW M \in [R -> Seq(T)],
         NEW K \in SUBSET R, \A r \in R : r \in K <=> M[r] # <<>>,
         IsFiniteSet(K), NEW order \in SetToSeqs(K),
         NEW lists, lists = [k \in DOMAIN order |-> M[order[k]]]
  PROVE  /\ FlattenSeq(lists) \in Seq(T)
         /\ \E place : Placement(place, FlattenSeq(lists), M, Rows(M))
<1> DEFINE n == Cardinality(K)
           D == DOMAIN order
           flat == FlattenSeq(lists)
<1>1. n \in Nat /\ D = 1 .. n /\ order \in Bijection(D, K)
  BY Permutation
<1> HIDE DEF n, D
<1>2. /\ \A k \in D : order[k] \in K
      /\ \A k, l \in D : order[k] = order[l] => k = l
      /\ \A r \in K : \E k \in D : order[k] = r
  BY <1>1, BijectionIs
<1>3. \A k \in D : order[k] \in R /\ lists[k] = M[order[k]] /\ lists[k] \in Seq(T)
  BY <1>2 DEF D
<1>4. lists \in Seq(Seq(T)) /\ DOMAIN lists = D
  <2>1. lists = [k \in D |-> M[order[k]]]
    BY DEF D
  <2>2. \A k \in D : M[order[k]] \in Seq(T)
    BY <1>3
  <2>. QED
    BY <1>1, <2>1, <2>2
<1>5. flat \in Seq(T) /\ \E place : Placement(place, flat, lists, Rows(lists))
  <2>1. Rows(lists) = RowsOf(lists)
    BY DEF Rows, RowsOf
  <2>. QED
    BY <1>4, <2>1, FlattenPlaces
<1> HIDE DEF flat
<1>6. PICK p : Placement(p, flat, lists, Rows(lists))
  BY <1>5
<1> DEFINE back == [row \in Rows(lists) |-> <<order[row[1]], row[2]>>]
           q == [k \in DOMAIN flat |-> back[p[k]]]
<1>7. \A row : row \in Rows(lists) <=> \E x \in D : \E y \in DOMAIN lists[x] : row = <<x, y>>
  BY <1>4 DEF Rows
<1>8. \A row : row \in Rows(M) <=> \E r \in R : \E y \in DOMAIN M[r] : row = <<r, y>>
  BY DEF Rows
<1>9. ASSUME NEW row \in Rows(lists)
      PROVE  /\ row[1] \in D /\ row = <<row[1], row[2]>>
             /\ back[row] = <<order[row[1]], row[2]>>
             /\ back[row] \in Rows(M)
             /\ lists[row[1]][row[2]] = M[back[row][1]][back[row][2]]
  <2>1. row[1] \in D /\ row[2] \in DOMAIN lists[row[1]] /\ row = <<row[1], row[2]>>
    BY <1>7
  <2>2. back[row] = <<order[row[1]], row[2]>>
    OBVIOUS
  <2> HIDE DEF back
  <2>3. order[row[1]] \in R /\ lists[row[1]] = M[order[row[1]]]
    BY <1>3, <2>1
  <2>4. back[row] \in Rows(M)
    BY <1>8, <2>1, <2>2, <2>3
  <2>. QED
    BY <2>1, <2>2, <2>3, <2>4
<1>10. back \in [Rows(lists) -> Rows(M)]
  BY <1>9
<1> HIDE DEF back
<1>11. ASSUME NEW r \in Rows(lists), NEW s \in Rows(lists), back[r] = back[s]
       PROVE  r = s
  <2>1. order[r[1]] = order[s[1]] /\ r[2] = s[2]
    BY <1>9, <1>11
  <2>2. r[1] \in D /\ s[1] \in D /\ r = <<r[1], r[2]>> /\ s = <<s[1], s[2]>>
    BY <1>9
  <2>3. r[1] = s[1]
    BY <1>2, <2>1, <2>2
  <2>. QED
    BY <2>1, <2>2, <2>3
<1>12. ASSUME NEW row \in Rows(M)
       PROVE  \E r \in Rows(lists) : back[r] = row
  <2>1. PICK r \in R : \E y \in DOMAIN M[r] : row = <<r, y>>
    BY <1>8
  <2>2. PICK y \in DOMAIN M[r] : row = <<r, y>>
    BY <2>1
  <2>3. r \in K
    <3>1. M[r] # <<>>
      BY <2>2
    <3>. QED
      BY <3>1
  <2>4. PICK k \in D : order[k] = r
    BY <1>2, <2>3
  <2>5. y \in DOMAIN lists[k]
    BY <1>3, <2>4
  <2>6. <<k, y>> \in Rows(lists)
    BY <1>7, <2>5
  <2>7. back[<<k, y>>] = row
    BY <1>9, <2>2, <2>4, <2>6
  <2>. QED
    BY <2>6, <2>7
<1>13. back \in Bijection(Rows(lists), Rows(M))
  BY <1>10, <1>11, <1>12, Fun_IsBij
<1>14. p \in Bijection(DOMAIN flat, Rows(lists))
  BY <1>6 DEF Placement
<1>15. q \in Bijection(DOMAIN flat, Rows(M))
  BY <1>13, <1>14, Fun_BijTransitive
<1>16. ASSUME NEW k \in DOMAIN flat
       PROVE  flat[k] = M[q[k][1]][q[k][2]]
  <2>1. p[k] \in Rows(lists)
    BY <1>14, Fun_BijectionProperties
  <2>2. q[k] = back[p[k]] /\ flat[k] = lists[p[k][1]][p[k][2]]
    BY <1>6 DEF Placement
  <2>. QED
    BY <1>9, <2>1, <2>2
<1> HIDE DEF q
<1>17. Placement(q, flat, M, Rows(M))
  BY <1>15, <1>16 DEF Placement
<1>. QED
  BY <1>5, <1>17 DEF flat

(* What is grouped is what the map has, each of its metadata in one place, *)
(* of the group with its path.                                             *)
GroupedFrom(place, groups, M) ==
  /\ place \in Bijection(Rows(groups), Rows(M))
  /\ \A row \in Rows(groups) : /\ groups[row[1]][row[2]] = M[place[row][1]][place[row][2]]
                               /\ GroupPath(groups[row[1]][row[2]]) = row[1]

LEMMA GatherGroups ==
  ASSUME NEW T, NEW M \in [Refs -> Seq(T)],
         NEW metas \in Seq(T), NEW p, Placement(p, metas, M, Rows(M))
  PROVE  \E place : GroupedFrom(place, Group(metas), M)
<1> DEFINE G == Group(metas)
<1>1. \E place : Regrouped(place, G, metas)
  BY GroupIs
<1> HIDE DEF G
<1>2. PICK g : Regrouped(g, G, metas)
  BY <1>1
<1> DEFINE q == [row \in Rows(G) |-> p[g[row]]]
<1>3. g \in Bijection(Rows(G), DOMAIN metas) /\ p \in Bijection(DOMAIN metas, Rows(M))
  BY <1>2 DEF Regrouped, Placement
<1>4. q \in Bijection(Rows(G), Rows(M))
  BY <1>3, Fun_BijTransitive
<1>5. ASSUME NEW row \in Rows(G)
      PROVE  /\ G[row[1]][row[2]] = M[q[row][1]][q[row][2]]
             /\ GroupPath(G[row[1]][row[2]]) = row[1]
  <2>1. g[row] \in DOMAIN metas
    BY <1>3, Fun_BijectionProperties
  <2>2. G[row[1]][row[2]] = metas[g[row]] /\ GroupPath(metas[g[row]]) = row[1]
    BY <1>2 DEF Regrouped
  <2>3. metas[g[row]] = M[p[g[row]][1]][p[g[row]][2]]
    BY <2>1 DEF Placement
  <2>4. q[row] = p[g[row]]
    OBVIOUS
  <2>. QED
    BY <2>2, <2>3, <2>4
<1> HIDE DEF q
<1>6. GroupedFrom(q, G, M)
  BY <1>4, <1>5 DEF GroupedFrom
<1>. QED
  BY <1>6 DEF G

-----------------------------------------------------------------------------
(* The inductive invariant, first part: types, tokens and stages.          *)

Events == {ServiceEvent(line) : line \in UNION {Store[place] : place \in DOMAIN Store}}

Stage == {"received", "metadata", "files", "draining", "drained", "done", "crashed"}

Counters == [queries : Nat, success : Nat, rocksFailed : Nat, s3Failed : Nat,
             s3Total : Nat, returned : Nat]

FirstTyped ==
  /\ request \in Requests
  /\ launched \in 0 .. Len(request.refs)
  /\ asking \in [Positions -> AskState]
  /\ \A i \in Positions : asking[i] = "idle" <=> i > launched
  /\ answer \in [Positions -> Seq(Entries)]
  /\ result \in [Refs -> Seq(Metadata)]

SecondTyped ==
  /\ IsFiniteSet(Paths)
  /\ \A path \in Paths : grouped[path] \in Seq(Metadata) \ {<<>>}
  /\ file \in [Paths -> FileState]
  /\ eventsCh \in Seq(Seq(Events))
  /\ allEvents \in Seq(Events)

Typed ==
  /\ FirstTyped
  /\ SecondTyped
  /\ stage \in Stage
  /\ count \in Counters
  /\ expired \in BOOLEAN

Asking   == {i \in Positions : asking[i] \in {"asking", "doomed"}}
Fetching == {path \in Paths : file[path] \in {"calling", "doomed"}}

Tokens ==
  /\ refTokens = Cardinality(Asking) /\ refTokens <= RefSlots
  /\ fileTokens = Cardinality(Fetching) /\ fileTokens <= FetchSlots

(* The query has been answered with 200.                                   *)
Replied == reply.status = "ok"

Before == stage \in {"received", "metadata"}

Stages ==
  /\ reply # NoReply => stage = "done"
  /\ stage = "received" => launched = 0
  /\ Before => Paths = {} /\ eventsCh = <<>>
  /\ Before \/ stage = "files" => allEvents = <<>>
  /\ stage \in {"files", "draining", "drained", "crashed"} \/ Replied => \A i \in Positions : Over(i)
  /\ stage \in {"draining", "drained"} \/ Replied
       => \A path \in Paths : file[path] \in {"read", "failed"}
  /\ stage = "done" => Asking = {} /\ Fetching = {}

IInv == Typed /\ Tokens /\ Stages

-----------------------------------------------------------------------------
LEMMA RequestIs ==
  ASSUME NEW q \in Requests
  PROVE  /\ q.refs \in Seq(Refs) /\ q.limit \in Nat
         /\ Len(q.refs) \in Nat /\ DOMAIN q.refs = 1 .. Len(q.refs)
         /\ IsFiniteSet(DOMAIN q.refs)
         /\ \A i \in DOMAIN q.refs : q.refs[i] \in Refs
<1>1. q.refs \in Seq(Refs) /\ q.limit \in Nat
  BY RequestsAssumption
<1>2. /\ Len(q.refs) \in Nat /\ DOMAIN q.refs = 1 .. Len(q.refs)
      /\ \A i \in DOMAIN q.refs : q.refs[i] \in Refs
  BY <1>1
<1>3. IsFiniteSet(1 .. Len(q.refs))
  BY <1>2, FS_Interval
<1>. QED
  BY <1>1, <1>2, <1>3

LEMMA EmptyComprehension ==
  ASSUME NEW S, S = {}
  PROVE  IsFiniteSet(S) /\ Cardinality(S) = 0
BY FS_EmptySet

LEMMA InitTyped == Init => IInv
<1> SUFFICES ASSUME Init PROVE IInv
  OBVIOUS
<1>1. request \in Requests /\ stage = "received" /\ launched = 0 /\ reply = NoReply
  BY DEF Init
<1>2. /\ Len(request.refs) \in Nat /\ Positions = 1 .. Len(request.refs)
  BY <1>1, RequestIs DEF Positions
<1>3. FirstTyped
  <2>1. /\ asking = [i \in Positions |-> "idle"] /\ answer = [i \in Positions |-> <<>>]
        /\ result = [r \in Refs |-> <<>>]
    BY DEF Init
  <2>. QED
    BY <1>1, <1>2, <2>1 DEF FirstTyped, AskState
<1>4. Paths = {} /\ file = <<>> /\ eventsCh = <<>> /\ allEvents = <<>>
  BY DEF Init, Paths
<1>5. SecondTyped
  <2>1. file \in [Paths -> FileState]
    BY <1>4
  <2>. QED
    BY <1>4, <2>1, FS_EmptySet DEF SecondTyped
<1>6. Typed
  BY <1>1, <1>3, <1>5 DEF Typed, Init, Stage, Counters
<1>7. Asking = {} /\ Fetching = {}
  BY <1>2, <1>4 DEF Asking, Fetching, Init
<1>8. Tokens
  <2>1. refTokens = 0 /\ fileTokens = 0
    BY DEF Init
  <2>. QED
    BY <1>7, <2>1, FS_EmptySet, SlotsAssumption DEF Tokens
<1>9. Stages
  BY <1>1, <1>4 DEF Stages, Before, Replied, NoReply
<1>. QED
  BY <1>6, <1>8, <1>9 DEF IInv

LEMMA PositionsAre ==
  ASSUME FirstTyped
  PROVE  /\ Len(request.refs) \in Nat /\ Positions = 1 .. Len(request.refs)
         /\ IsFiniteSet(Positions)
         /\ \A i \in Positions : request.refs[i] \in Refs
BY RequestIs DEF FirstTyped, Positions

(* What one goroutine more or less does to the number of them.             *)
LEMMA OneMore ==
  ASSUME NEW S, IsFiniteSet(S), NEW x, x \notin S, NEW T, T = S \cup {x}
  PROVE  IsFiniteSet(T) /\ Cardinality(T) = Cardinality(S) + 1 /\ Cardinality(S) \in Nat
BY FS_AddElement, FS_CardinalityType

LEMMA OneLess ==
  ASSUME NEW S, IsFiniteSet(S), NEW x \in S, NEW T, T = S \ {x}
  PROVE  /\ IsFiniteSet(T) /\ Cardinality(T) = Cardinality(S) - 1
         /\ Cardinality(S) \in Nat /\ Cardinality(T) \in Nat
BY FS_RemoveElement, FS_CardinalityType

LEMMA AskingIsFinite ==
  ASSUME FirstTyped
  PROVE  IsFiniteSet(Asking) /\ Cardinality(Asking) \in Nat
<1>1. IsFiniteSet(Positions) /\ Asking \subseteq Positions
  BY PositionsAre DEF Asking
<1>. QED
  BY <1>1, FS_Subset, FS_CardinalityType

LEMMA FetchingIsFinite ==
  ASSUME SecondTyped
  PROVE  IsFiniteSet(Fetching) /\ Cardinality(Fetching) \in Nat
<1>1. IsFiniteSet(Paths) /\ Fetching \subseteq Paths
  BY DEF SecondTyped, Fetching
<1>. QED
  BY <1>1, FS_Subset, FS_CardinalityType

(* A stage that changes nothing of the waves.                              *)
LEMMA OnlyStage ==
  ASSUME IInv, UNCHANGED <<request, firstWave, secondWave>>
  PROVE  /\ FirstTyped' /\ SecondTyped' /\ Tokens'
         /\ Positions' = Positions /\ Paths' = Paths
         /\ Asking' = Asking /\ Fetching' = Fetching
<1>1. /\ request' = request /\ launched' = launched /\ asking' = asking /\ answer' = answer
      /\ refTokens' = refTokens /\ result' = result
  BY DEF firstWave
<1>2. /\ grouped' = grouped /\ file' = file /\ fileTokens' = fileTokens
      /\ eventsCh' = eventsCh /\ allEvents' = allEvents
  BY DEF secondWave
<1>3. Positions' = Positions /\ Paths' = Paths /\ Asking' = Asking /\ Fetching' = Fetching
  BY <1>1, <1>2 DEF Positions, Paths, Asking, Fetching
<1>4. FirstTyped'
  BY <1>1, <1>3 DEF IInv, Typed, FirstTyped
<1>5. SecondTyped'
  BY <1>2, <1>3 DEF IInv, Typed, SecondTyped
<1>6. Tokens'
  BY <1>1, <1>2, <1>3 DEF IInv, Tokens
<1>. QED
  BY <1>3, <1>4, <1>5, <1>6

LEMMA NoneAsking ==
  ASSUME IInv, \A i \in Positions : asking[i] \notin {"asking", "doomed"}
  PROVE  Asking = {}
BY DEF Asking

LEMMA RejectTyped == ASSUME IInv, Reject PROVE IInv'
<1>1. /\ UNCHANGED <<request, firstWave, secondWave, count, expired>>
      /\ stage = "received" /\ stage' = "done"
      /\ reply' \in {[status |-> "method not allowed"], [status |-> "bad request"]}
  BY DEF Reject
<1>2. /\ FirstTyped' /\ SecondTyped' /\ Tokens'
      /\ Positions' = Positions /\ Paths' = Paths
      /\ Asking' = Asking /\ Fetching' = Fetching
  BY <1>1, OnlyStage
<1>3. Typed'
  BY <1>1, <1>2 DEF Typed, IInv, Stage
<1>4. Asking = {} /\ Fetching = {}
  <2>1. launched = 0 /\ Paths = {}
    BY <1>1 DEF IInv, Stages, Before
  <2>2. \A i \in Positions : asking[i] = "idle"
    BY <2>1, PositionsAre DEF IInv, Typed, FirstTyped
  <2>. QED
    BY <2>1, <2>2 DEF Asking, Fetching
<1>5. ~Replied'
  <2>1. CASE reply' = [status |-> "method not allowed"]
    BY <2>1 DEF Replied
  <2>2. CASE reply' = [status |-> "bad request"]
    BY <2>2 DEF Replied
  <2>. QED
    BY <1>1, <2>1, <2>2
<1>6. Stages'
  BY <1>1, <1>2, <1>4, <1>5 DEF Stages, Before
<1>. QED
  BY <1>2, <1>3, <1>6 DEF IInv

LEMMA AcceptTyped == ASSUME IInv, Accept PROVE IInv'
<1>1. /\ UNCHANGED <<request, firstWave, secondWave, expired, reply>>
      /\ stage = "received" /\ stage' = "metadata"
      /\ count' = [count EXCEPT !.queries = @ + 1]
  BY DEF Accept
<1>2. /\ FirstTyped' /\ SecondTyped' /\ Tokens'
      /\ Positions' = Positions /\ Paths' = Paths
  BY <1>1, OnlyStage
<1>3. Typed'
  <2>1. count' \in Counters
    BY <1>1 DEF IInv, Typed, Counters
  <2>. QED
    BY <1>1, <1>2, <2>1 DEF Typed, IInv, Stage
<1>4. reply' = NoReply /\ ~Replied'
  BY <1>1 DEF IInv, Stages, Replied, NoReply
<1>5. Stages'
  BY <1>1, <1>2, <1>4 DEF IInv, Stages, Before, secondWave
<1>. QED
  BY <1>2, <1>3, <1>5 DEF IInv

LEMMA ExpireTyped == ASSUME IInv, Expire PROVE IInv'
<1>1. /\ UNCHANGED <<request, stage, firstWave, secondWave, count, reply>>
      /\ expired' = TRUE
  BY DEF Expire
<1>2. /\ FirstTyped' /\ SecondTyped' /\ Tokens'
      /\ Positions' = Positions /\ Paths' = Paths
      /\ Asking' = Asking /\ Fetching' = Fetching
  BY <1>1, OnlyStage
<1>3. Typed'
  BY <1>1, <1>2 DEF Typed, IInv
<1>4. Stages'
  BY <1>1, <1>2 DEF IInv, Stages, Before, Replied, Over, firstWave, secondWave
<1>. QED
  BY <1>2, <1>3, <1>4 DEF IInv

LEMMA LaunchQueryTyped == ASSUME IInv, LaunchQuery PROVE IInv'
<1> DEFINE i == launched + 1
           x == IF expired THEN "doomed" ELSE "asking"
<1>1. /\ UNCHANGED <<request, stage, answer, result, secondWave, count, expired, reply>>
      /\ stage = "metadata" /\ launched < Len(request.refs) /\ refTokens < RefSlots
      /\ launched' = i /\ refTokens' = refTokens + 1
      /\ asking' = [asking EXCEPT ![i] = x]
      /\ x \in {"asking", "doomed"}
  BY DEF LaunchQuery
<1>2. /\ Len(request.refs) \in Nat /\ Positions = 1 .. Len(request.refs) /\ Positions' = Positions
      /\ launched \in 0 .. Len(request.refs) /\ asking \in [Positions -> AskState]
      /\ \A j \in Positions : asking[j] = "idle" <=> j > launched
  BY <1>1, PositionsAre DEF IInv, Typed, FirstTyped, Positions
<1>3. i \in Positions /\ asking[i] = "idle" /\ \A j \in Positions : j > i <=> (j > launched /\ j # i)
  BY <1>1, <1>2
<1> HIDE DEF x, i
<1>4. asking'[i] = x /\ \A j \in Positions : j # i => asking'[j] = asking[j]
  BY <1>1, <1>2, <1>3
<1>5. FirstTyped'
  <2>1. asking' \in [Positions -> AskState]
    BY <1>1, <1>2, <1>3 DEF AskState
  <2>2. \A j \in Positions : asking'[j] = "idle" <=> j > i
    BY <1>1, <1>2, <1>3, <1>4
  <2>3. i \in 0 .. Len(request.refs)
    BY <1>2, <1>3
  <2>4. request \in Requests /\ answer \in [Positions -> Seq(Entries)] /\ result \in [Refs -> Seq(Metadata)]
    BY DEF IInv, Typed, FirstTyped
  <2>. QED
    BY <1>1, <1>2, <2>1, <2>2, <2>3, <2>4 DEF FirstTyped
<1>6. SecondTyped' /\ Paths' = Paths /\ Fetching' = Fetching
  BY <1>1 DEF IInv, Typed, SecondTyped, secondWave, Paths, Fetching
<1>7. Typed'
  BY <1>1, <1>5, <1>6 DEF IInv, Typed
<1>8. Asking' = Asking \cup {i} /\ i \notin Asking
  BY <1>1, <1>2, <1>3, <1>4 DEF Asking
<1>9. Tokens'
  <2>1. Cardinality(Asking') = Cardinality(Asking) + 1
    BY <1>8, AskingIsFinite, OneMore DEF IInv, Typed
  <2>2. refTokens' <= RefSlots
    <3>1. refTokens \in Nat
      BY AskingIsFinite DEF IInv, Typed, Tokens
    <3>. QED
      BY <1>1, <3>1, SlotsAssumption
  <2>3. fileTokens' = fileTokens
    BY <1>1 DEF secondWave
  <2>. QED
    BY <1>1, <1>6, <2>1, <2>2, <2>3 DEF IInv, Tokens
<1>10. Stages'
  <2>1. ~Replied /\ reply = NoReply
    BY <1>1 DEF IInv, Stages, Replied, NoReply
  <2>. QED
    BY <1>1, <1>6, <2>1 DEF IInv, Stages, Before, Replied, secondWave
<1>. QED
  BY <1>7, <1>9, <1>10 DEF IInv

(* A goroutine of the first wave ends.                                     *)
LEMMA QueryEnds ==
  ASSUME IInv, NEW i \in Positions, asking[i] \in {"asking", "doomed"},
         NEW x \in {"answered", "failed"},
         asking' = [asking EXCEPT ![i] = x], refTokens' = refTokens - 1,
         UNCHANGED <<request, stage, launched, secondWave, expired, reply>>,
         answer' \in [Positions -> Seq(Entries)], result' \in [Refs -> Seq(Metadata)],
         count' \in Counters
  PROVE  IInv'
<1>1. /\ Len(request.refs) \in Nat /\ Positions = 1 .. Len(request.refs) /\ Positions' = Positions
      /\ launched \in 0 .. Len(request.refs) /\ asking \in [Positions -> AskState]
      /\ \A j \in Positions : asking[j] = "idle" <=> j > launched
  BY PositionsAre DEF IInv, Typed, FirstTyped, Positions
<1>2. asking'[i] = x /\ \A j \in Positions : j # i => asking'[j] = asking[j]
  BY <1>1
<1>3. stage = "metadata"
  <2>1. ~Over(i)
    BY DEF Over
  <2>2. stage \notin {"files", "draining", "drained", "crashed"}
    BY <2>1 DEF IInv, Stages
  <2>3. stage # "done"
    BY DEF IInv, Stages, Asking
  <2>4. stage # "received"
    BY <1>1 DEF IInv, Stages
  <2>. QED
    BY <2>2, <2>3, <2>4 DEF IInv, Typed, Stage
<1>4. FirstTyped'
  <2>1. asking' \in [Positions -> AskState]
    BY <1>1 DEF AskState
  <2>2. \A j \in Positions : asking'[j] = "idle" <=> j > launched
    BY <1>1, <1>2
  <2>. QED
    BY <1>1, <2>1, <2>2 DEF FirstTyped, IInv, Typed
<1>5. SecondTyped' /\ Paths' = Paths /\ Fetching' = Fetching
  BY DEF IInv, Typed, SecondTyped, secondWave, Paths, Fetching
<1>6. Typed'
  BY <1>4, <1>5 DEF IInv, Typed
<1>7. Asking' = Asking \ {i} /\ i \in Asking
  BY <1>1, <1>2 DEF Asking
<1>8. Tokens'
  <2>1. /\ Cardinality(Asking') = Cardinality(Asking) - 1
        /\ Cardinality(Asking) \in Nat
    BY <1>7, AskingIsFinite, OneLess DEF IInv, Typed
  <2>2. fileTokens' = fileTokens
    BY DEF secondWave
  <2>3. refTokens' = Cardinality(Asking') /\ refTokens' <= RefSlots
    BY <2>1, SlotsAssumption DEF IInv, Tokens
  <2>. QED
    BY <1>5, <2>2, <2>3 DEF IInv, Tokens
<1>9. Stages'
  <2>1. ~Replied /\ reply = NoReply
    BY <1>3 DEF IInv, Stages, Replied, NoReply
  <2>. QED
    BY <1>3, <1>5, <2>1 DEF IInv, Stages, Before, Replied, secondWave
<1>. QED
  BY <1>6, <1>8, <1>9 DEF IInv

LEMMA AnswersAre ==
  ASSUME NEW r \in Refs, NEW entries \in Answers[r]
  PROVE  entries \in Seq(Entries) /\ Metas(entries) \in Seq(Metadata)
<1>1. entries \in Seq(Entries)
  BY AnswersAssumption
<1>. QED
  BY <1>1, MetasAre

LEMMA QueryShardOKTyped == ASSUME IInv, NEW i \in Positions, QueryShardOK(i) PROVE IInv'
<1>1. PICK entries \in Answers[request.refs[i]] :
        /\ answer' = [answer EXCEPT ![i] = entries]
        /\ result' = IF Metas(entries) = <<>> THEN result
                     ELSE [result EXCEPT ![request.refs[i]] = Metas(entries)]
  BY DEF QueryShardOK
<1>2. /\ asking[i] = "asking" /\ asking' = [asking EXCEPT ![i] = "answered"]
      /\ refTokens' = refTokens - 1
      /\ UNCHANGED <<request, stage, launched, secondWave, count, expired, reply>>
  BY DEF QueryShardOK
<1>3. entries \in Seq(Entries) /\ Metas(entries) \in Seq(Metadata)
  BY PositionsAre, AnswersAre DEF IInv, Typed
<1>4. answer' \in [Positions -> Seq(Entries)]
  BY <1>1, <1>3 DEF IInv, Typed, FirstTyped
<1>5. result' \in [Refs -> Seq(Metadata)]
  <2>1. result \in [Refs -> Seq(Metadata)]
    BY DEF IInv, Typed, FirstTyped
  <2>. QED
    BY <1>1, <1>3, <2>1
<1>6. count' \in Counters
  BY <1>2 DEF IInv, Typed
<1>. QED
  BY <1>2, <1>4, <1>5, <1>6, QueryEnds

LEMMA QueryShardErrTyped == ASSUME IInv, NEW i \in Positions, QueryShardErr(i) PROVE IInv'
<1>1. /\ asking[i] \in {"asking", "doomed"} /\ asking' = [asking EXCEPT ![i] = "failed"]
      /\ refTokens' = refTokens - 1
      /\ count' = [count EXCEPT !.rocksFailed = @ + 1]
      /\ UNCHANGED <<request, stage, launched, answer, result, secondWave, expired, reply>>
  BY DEF QueryShardErr
<1>2. count' \in Counters
  BY <1>1 DEF IInv, Typed, Counters
<1>3. answer' \in [Positions -> Seq(Entries)] /\ result' \in [Refs -> Seq(Metadata)]
  BY <1>1 DEF IInv, Typed, FirstTyped
<1>. QED
  BY <1>1, <1>2, <1>3, QueryEnds

-----------------------------------------------------------------------------
(* The map of the first wave: what it has of a reference id is what one of *)
(* its answers became; what is grouped is what it has.                     *)
Gathered == stage \in {"files", "draining", "drained", "crashed"} \/ Replied

Known(r) ==
  result[r] # <<>> => \E i \in Positions : /\ asking[i] = "answered"
                                          /\ request.refs[i] = r
                                          /\ result[r] = Metas(answer[i])

Noted(i) ==
  asking[i] = "answered" /\ Metas(answer[i]) # <<>> => result[request.refs[i]] # <<>>

MInv ==
  /\ \A r \in Refs : Known(r)
  /\ \A i \in Positions : Noted(i)
  /\ Gathered => \E place : GroupedFrom(place, grouped, result)

LEMMA MappedAreFinite ==
  ASSUME IInv, MInv, NEW K, K = {r \in Refs : result[r] # <<>>}
  PROVE  IsFiniteSet(K)
<1> DEFINE f == [i \in Positions |-> request.refs[i]]
           R == {request.refs[i] : i \in Positions}
<1>1. f \in Surjection(Positions, R)
  BY DEF Surjection
<1>2. IsFiniteSet(Positions)
  BY PositionsAre DEF IInv, Typed
<1>3. K \subseteq R
  BY DEF MInv, Known
<1> HIDE DEF f, R
<1>4. IsFiniteSet(R)
  BY <1>1, <1>2, FS_Surjection
<1>. QED
  BY <1>3, <1>4, FS_Subset

GatheredFrom(metas) ==
  /\ metas \in Seq(Metadata)
  /\ \E place : Placement(place, metas, result, Rows(result))
  /\ grouped' = Group(metas)
  /\ file'    = [path \in DOMAIN Group(metas) |-> "idle"]
  /\ stage'   = IF metas = <<>> THEN "done" ELSE "files"
  /\ reply'   = IF metas # <<>> THEN reply
                ELSE [status |-> "ok", events |-> <<>>,
                      metrics |-> [rocksdb |-> Len(request.refs), s3 |-> 0,
                                   entries |-> 0, parsed |-> 0]]
  /\ count'   = IF metas # <<>> THEN count ELSE [count EXCEPT !.success = @ + 1]

LEMMA GatherIs ==
  ASSUME IInv, MInv, Gather
  PROVE  \E metas : GatheredFrom(metas)
<1> DEFINE K == {r \in Refs : result[r] # <<>>}
<1>1. PICK order \in SetToSeqs(K) :
       LET metas == FlattenSeq([k \in DOMAIN order |-> result[order[k]]])
       IN  /\ grouped' = Group(metas)
           /\ file'    = [path \in DOMAIN Group(metas) |-> "idle"]
           /\ stage'   = IF metas = <<>> THEN "done" ELSE "files"
           /\ reply'   = IF metas # <<>> THEN reply
                         ELSE [status |-> "ok", events |-> <<>>,
                               metrics |-> [rocksdb |-> Len(request.refs), s3 |-> 0,
                                            entries |-> 0, parsed |-> 0]]
           /\ count'   = IF metas # <<>> THEN count
                         ELSE [count EXCEPT !.success = @ + 1]
  BY DEF Gather
<1> DEFINE lists == [k \in DOMAIN order |-> result[order[k]]]
           metas == FlattenSeq(lists)
<1>2. IsFiniteSet(K)
  BY MappedAreFinite
<1>3. result \in [Refs -> Seq(Metadata)]
  BY DEF IInv, Typed, FirstTyped
<1>4. K \in SUBSET Refs /\ \A r \in Refs : r \in K <=> result[r] # <<>>
  OBVIOUS
<1>5. lists = [k \in DOMAIN order |-> result[order[k]]]
  OBVIOUS
<1> HIDE DEF K, lists
<1>6. metas \in Seq(Metadata) /\ \E place : Placement(place, metas, result, Rows(result))
  BY <1>1, <1>2, <1>3, <1>4, <1>5, GatherPlaces
<1>7. GatheredFrom(metas)
  BY <1>1, <1>6 DEF GatheredFrom, lists
<1>. QED
  BY <1>7

LEMMA GatherTyped == ASSUME IInv, MInv, Gather PROVE IInv'
<1>1. PICK metas : GatheredFrom(metas)
  BY GatherIs
<1>2. /\ stage = "metadata" /\ \A i \in Positions : Over(i)
      /\ UNCHANGED <<request, firstWave, fileTokens, eventsCh, allEvents, expired>>
  BY DEF Gather
<1>3. /\ metas \in Seq(Metadata) /\ grouped' = Group(metas)
      /\ file' = [path \in DOMAIN Group(metas) |-> "idle"]
      /\ stage' = IF metas = <<>> THEN "done" ELSE "files"
  BY <1>1 DEF GatheredFrom
<1>4. /\ request' = request /\ launched' = launched /\ asking' = asking /\ answer' = answer
      /\ refTokens' = refTokens /\ result' = result
      /\ Positions' = Positions /\ Asking' = Asking
  BY <1>2 DEF firstWave, Positions, Asking
<1>5. FirstTyped'
  BY <1>4 DEF IInv, Typed, FirstTyped
<1>6. /\ DOMAIN Group(metas) = {GroupPath(metas[k]) : k \in DOMAIN metas}
      /\ IsFiniteSet(DOMAIN Group(metas))
      /\ \A path \in DOMAIN Group(metas) : Group(metas)[path] \in Seq(Metadata) \ {<<>>}
  BY <1>3, GroupIs
<1>7. Paths' = DOMAIN Group(metas)
  BY <1>3 DEF Paths
<1>8. SecondTyped'
  <2>1. file' \in [Paths' -> FileState]
    BY <1>3, <1>7 DEF FileState
  <2>. QED
    BY <1>2, <1>3, <1>6, <1>7, <2>1 DEF IInv, Typed, SecondTyped
<1>9. Typed'
  <2>1. count' \in Counters
    <3>1. count' = count \/ count' = [count EXCEPT !.success = @ + 1]
      BY <1>1 DEF GatheredFrom
    <3>. QED
      BY <3>1 DEF IInv, Typed, Counters
  <2>2. stage' \in Stage /\ expired' \in BOOLEAN
    BY <1>2, <1>3 DEF IInv, Typed, Stage
  <2>. QED
    BY <1>5, <1>8, <2>1, <2>2 DEF Typed
<1>10. Fetching' = {} /\ fileTokens' = 0
  <2>1. Fetching' = {}
    BY <1>3, <1>7 DEF Fetching
  <2>2. Fetching = {}
    BY <1>2 DEF Fetching, IInv, Stages, Before
  <2>. QED
    BY <1>2, <2>1, <2>2, EmptyComprehension DEF IInv, Tokens
<1>11. Tokens'
  BY <1>4, <1>10, EmptyComprehension, SlotsAssumption DEF IInv, Tokens
<1>12. Stages'
  <2>1. Asking = {}
    BY <1>2 DEF Over, Asking
  <2>2. allEvents' = <<>> /\ reply = NoReply
    BY <1>2 DEF IInv, Stages, Before
  <2>3. CASE metas = <<>>
    <3>1. DOMAIN Group(metas) = {}
      BY <1>6, <2>3
    <3>. QED
      BY <1>2, <1>3, <1>4, <1>7, <1>10, <2>1, <2>2, <2>3, <3>1 DEF Stages, Before, Over
  <2>4. CASE metas # <<>>
    <3>1. reply' = NoReply /\ ~Replied'
      BY <1>1, <2>2, <2>4 DEF GatheredFrom, Replied, NoReply
    <3>. QED
      BY <1>2, <1>3, <1>4, <2>2, <2>4, <3>1 DEF Stages, Before, Over
  <2>. QED
    BY <2>3, <2>4
<1>. QED
  BY <1>9, <1>11, <1>12 DEF IInv

-----------------------------------------------------------------------------
(* The second wave changes nothing of the first.                           *)
LEMMA FirstKept ==
  ASSUME IInv, UNCHANGED <<request, firstWave, expired>>
  PROVE  /\ FirstTyped' /\ Positions' = Positions /\ Asking' = Asking
         /\ refTokens' = refTokens /\ \A i \in Positions : asking'[i] = asking[i]
         /\ expired' \in BOOLEAN
<1>1. /\ launched' = launched /\ asking' = asking /\ answer' = answer
      /\ refTokens' = refTokens /\ result' = result
  BY DEF firstWave
<1>2. Positions' = Positions /\ Asking' = Asking
  BY <1>1 DEF Positions, Asking
<1>. QED
  BY <1>1, <1>2 DEF IInv, Typed, FirstTyped

LEMMA EventsOfLines ==
  ASSUME NEW place \in DOMAIN Store, NEW m
  PROVE  /\ SliceEvents(Store[place], m) \in Seq(Events)
         /\ Len(SliceEvents(Store[place], m)) <= 1
<1> DEFINE lines == {line \in Sliced(Store[place], m.start, m.end) : Wanted(line)}
           line == CHOOSE line \in lines : TRUE
<1>1. lines \subseteq Store[place]
  BY DEF Sliced, Decoded
<1>2. CASE lines = {}
  BY <1>2 DEF SliceEvents
<1>3. CASE lines # {}
  <2>1. line \in lines
    BY <1>3
  <2>2. ServiceEvent(line) \in Events
    BY <1>1, <2>1 DEF Events
  <2>3. SliceEvents(Store[place], m) = <<ServiceEvent(line)>>
    BY <1>3 DEF SliceEvents
  <2> HIDE DEF line
  <2>. QED
    BY <2>2, <2>3
<1>. QED
  BY <1>2, <1>3

(* What is read of an object: the events of those of its metadata that     *)
(* yield one.                                                              *)
LEMMA FileEventsAre ==
  ASSUME SecondTyped, NEW path \in Paths, ObjectOf(path) \in DOMAIN Store
  PROVE  /\ FileEvents(path) \in Seq(Events)
         /\ \E place : FromOptions(place, FileEvents(path),
                                [k \in DOMAIN grouped[path] |->
                                   SliceEvents(Store[ObjectOf(path)], grouped[path][k])])
<1> DEFINE ss == [k \in DOMAIN grouped[path] |->
                    SliceEvents(Store[ObjectOf(path)], grouped[path][k])]
<1>1. \A k \in DOMAIN grouped[path] : /\ ss[k] \in Seq(Events)
                                      /\ Len(ss[k]) <= 1
  BY EventsOfLines
<1>2. DOMAIN grouped[path] = 1 .. Len(grouped[path]) /\ Len(grouped[path]) \in Nat
  BY DEF SecondTyped
<1>3. DOMAIN ss = 1 .. Len(grouped[path])
  BY <1>2
<1>4. ss \in [1 .. Len(grouped[path]) -> Seq(Events)]
  BY <1>1, <1>2, <1>3
<1>5. ss \in Seq(Seq(Events))
  BY <1>2, <1>4
<1>6. FileEvents(path) = FlattenSeq(ss)
  BY DEF FileEvents
<1>7. \A k \in DOMAIN ss : Len(ss[k]) <= 1
  BY <1>1
<1> HIDE DEF ss
<1>8. /\ FlattenSeq(ss) \in Seq(Events)
      /\ \E place : FromOptions(place, FlattenSeq(ss), ss)
  BY <1>5, <1>7, FlattenOptional
<1>. QED
  BY <1>6, <1>8 DEF ss

LEMMA LaunchFetchTyped == ASSUME IInv, NEW path \in Paths, LaunchFetch(path) PROVE IInv'
<1> DEFINE x == IF expired THEN "doomed" ELSE "calling"
<1>1. /\ UNCHANGED <<request, stage, firstWave, grouped, eventsCh, allEvents, count, expired, reply>>
      /\ stage = "files" /\ file[path] = "idle" /\ fileTokens < FetchSlots
      /\ fileTokens' = fileTokens + 1 /\ file' = [file EXCEPT ![path] = x]
      /\ x \in {"calling", "doomed"}
  BY DEF LaunchFetch
<1> HIDE DEF x
<1>2. /\ FirstTyped' /\ Positions' = Positions /\ Asking' = Asking
      /\ refTokens' = refTokens /\ (\A i \in Positions : asking'[i] = asking[i])
      /\ expired' \in BOOLEAN
  BY <1>1, FirstKept
<1>3. Paths' = Paths /\ file \in [Paths -> FileState]
  BY <1>1 DEF Paths, IInv, Typed, SecondTyped
<1>4. file'[path] = x /\ \A p \in Paths : p # path => file'[p] = file[p]
  BY <1>1, <1>3
<1>5. SecondTyped'
  <2>1. file' \in [Paths -> FileState]
    BY <1>1, <1>3 DEF FileState
  <2>. QED
    BY <1>1, <1>3, <2>1 DEF IInv, Typed, SecondTyped
<1>6. Typed'
  BY <1>1, <1>2, <1>5 DEF IInv, Typed
<1>7. Fetching' = Fetching \cup {path} /\ path \notin Fetching
  BY <1>1, <1>3, <1>4 DEF Fetching
<1>8. Tokens'
  <2>1. Cardinality(Fetching') = Cardinality(Fetching) + 1 /\ Cardinality(Fetching) \in Nat
    BY <1>7, FetchingIsFinite, OneMore DEF IInv, Typed
  <2>2. fileTokens' = Cardinality(Fetching') /\ fileTokens' <= FetchSlots
    BY <1>1, <2>1, SlotsAssumption DEF IInv, Tokens
  <2>. QED
    BY <1>2, <2>2 DEF IInv, Tokens
<1>9. Stages'
  <2>1. reply = NoReply /\ ~Replied
    BY <1>1 DEF IInv, Stages, Replied, NoReply
  <2>. QED
    BY <1>1, <1>2, <2>1 DEF IInv, Stages, Before, Replied, Over
<1>. QED
  BY <1>6, <1>8, <1>9 DEF IInv

(* A goroutine of the second wave ends.                                    *)
LEMMA FetchEnds ==
  ASSUME IInv, NEW path \in Paths, stage = "files", file[path] \in {"calling", "doomed"},
         NEW x \in {"read", "failed"}, file' = [file EXCEPT ![path] = x],
         fileTokens' = fileTokens - 1,
         UNCHANGED <<request, stage, firstWave, grouped, allEvents, expired, reply>>,
         count' \in Counters, eventsCh' \in Seq(Seq(Events))
  PROVE  IInv'
<1>2. /\ FirstTyped' /\ Positions' = Positions /\ Asking' = Asking
      /\ refTokens' = refTokens /\ (\A i \in Positions : asking'[i] = asking[i])
      /\ expired' \in BOOLEAN
  BY FirstKept
<1>3. Paths' = Paths /\ file \in [Paths -> FileState]
  BY DEF Paths, IInv, Typed, SecondTyped
<1>4. file'[path] = x /\ \A p \in Paths : p # path => file'[p] = file[p]
  BY <1>3
<1>5. SecondTyped'
  <2>1. file' \in [Paths -> FileState]
    BY <1>3 DEF FileState
  <2>. QED
    BY <1>3, <2>1 DEF IInv, Typed, SecondTyped
<1>6. Typed'
  BY <1>2, <1>5 DEF IInv, Typed
<1>7. Fetching' = Fetching \ {path} /\ path \in Fetching
  BY <1>3, <1>4 DEF Fetching
<1>8. Tokens'
  <2>1. /\ Cardinality(Fetching') = Cardinality(Fetching) - 1
        /\ Cardinality(Fetching) \in Nat
    BY <1>7, FetchingIsFinite, OneLess DEF IInv, Typed
  <2>2. fileTokens' = Cardinality(Fetching') /\ fileTokens' <= FetchSlots
    BY <2>1, SlotsAssumption DEF IInv, Tokens
  <2>. QED
    BY <1>2, <2>2 DEF IInv, Tokens
<1>9. Stages'
  <2>1. reply = NoReply /\ ~Replied
    BY DEF IInv, Stages, Replied, NoReply
  <2>. QED
    BY <1>2, <2>1 DEF IInv, Stages, Before, Replied, Over
<1>. QED
  BY <1>6, <1>8, <1>9 DEF IInv

LEMMA GetObjectOKTyped == ASSUME IInv, NEW path \in Paths, GetObjectOK(path) PROVE IInv'
<1>1. /\ stage = "files" /\ file[path] = "calling" /\ ObjectOf(path) \in DOMAIN Store
      /\ file' = [file EXCEPT ![path] = "read"] /\ fileTokens' = fileTokens - 1
      /\ eventsCh' = IF FileEvents(path) = <<>> THEN eventsCh
                     ELSE Append(eventsCh, FileEvents(path))
      /\ UNCHANGED <<request, stage, firstWave, grouped, allEvents, count, expired, reply>>
  BY DEF GetObjectOK, ObjectRead
<1>2. eventsCh' \in Seq(Seq(Events))
  <2>1. FileEvents(path) \in Seq(Events) /\ eventsCh \in Seq(Seq(Events))
    BY <1>1, FileEventsAre DEF IInv, Typed, SecondTyped
  <2>. QED
    BY <1>1, <2>1
<1>3. count' \in Counters
  BY <1>1 DEF IInv, Typed
<1>. QED
  BY <1>1, <1>2, <1>3, FetchEnds

LEMMA GetObjectErrTyped == ASSUME IInv, NEW path \in Paths, GetObjectErr(path) PROVE IInv'
<1>1. /\ stage = "files" /\ file[path] \in {"calling", "doomed"}
      /\ file' = [file EXCEPT ![path] = "failed"] /\ fileTokens' = fileTokens - 1
      /\ count' = [count EXCEPT !.s3Failed = @ + 1]
      /\ UNCHANGED <<request, stage, firstWave, grouped, eventsCh, allEvents, expired, reply>>
  BY DEF GetObjectErr
<1>2. count' \in Counters
  BY <1>1 DEF IInv, Typed, Counters
<1>3. eventsCh' \in Seq(Seq(Events))
  BY <1>1 DEF IInv, Typed, SecondTyped
<1>. QED
  BY <1>1, <1>2, <1>3, FetchEnds

LEMMA GetObjectPanicsTyped == ASSUME IInv, NEW path \in Paths, GetObjectPanics(path) PROVE IInv'
<1>1. /\ stage = "files" /\ stage' = "crashed"
      /\ UNCHANGED <<request, firstWave, secondWave, count, expired, reply>>
  BY DEF GetObjectPanics, ObjectRead
<1>2. /\ FirstTyped' /\ SecondTyped' /\ Tokens'
      /\ Positions' = Positions /\ Paths' = Paths
      /\ Asking' = Asking /\ Fetching' = Fetching
  BY <1>1, OnlyStage
<1>3. Typed'
  BY <1>1, <1>2 DEF Typed, IInv, Stage
<1>4. reply = NoReply /\ ~Replied
  BY <1>1 DEF IInv, Stages, Replied, NoReply
<1>5. Stages'
  BY <1>1, <1>2, <1>4 DEF IInv, Stages, Before, Replied, Over, firstWave, secondWave
<1>. QED
  BY <1>2, <1>3, <1>5 DEF IInv

LEMMA CloseEventsTyped == ASSUME IInv, CloseEvents PROVE IInv'
<1>1. /\ stage = "files" /\ stage' = "draining"
      /\ \A path \in Paths : file[path] \in {"read", "failed"}
      /\ count' = [count EXCEPT !.s3Total = @ + Cardinality(Paths)]
      /\ UNCHANGED <<request, firstWave, secondWave, expired, reply>>
  BY DEF CloseEvents
<1>2. /\ FirstTyped' /\ SecondTyped' /\ Tokens'
      /\ Positions' = Positions /\ Paths' = Paths
      /\ Asking' = Asking /\ Fetching' = Fetching
  BY <1>1, OnlyStage
<1>3. Typed'
  <2>1. Cardinality(Paths) \in Nat
    BY FS_CardinalityType DEF IInv, Typed, SecondTyped
  <2>2. count' \in Counters
    BY <1>1, <2>1 DEF IInv, Typed, Counters
  <2>. QED
    BY <1>1, <1>2, <2>2 DEF Typed, IInv, Stage
<1>4. reply = NoReply /\ ~Replied
  BY <1>1 DEF IInv, Stages, Replied, NoReply
<1>5. Stages'
  BY <1>1, <1>2, <1>4 DEF IInv, Stages, Before, Replied, Over, firstWave, secondWave
<1>. QED
  BY <1>2, <1>3, <1>5 DEF IInv

LEMMA DrainTyped == ASSUME IInv, Drain PROVE IInv'
<1> DEFINE events == allEvents \o Head(eventsCh)
           full == request.limit > 0 /\ Len(events) >= request.limit
<1>1. /\ stage = "draining" /\ eventsCh # <<>> /\ eventsCh' = Tail(eventsCh)
      /\ allEvents' = IF full THEN SubSeq(events, 1, request.limit) ELSE events
      /\ stage' = IF full THEN "drained" ELSE stage
      /\ UNCHANGED <<request, firstWave, grouped, file, fileTokens, count, expired, reply>>
  BY DEF Drain
<1>2. /\ FirstTyped' /\ Positions' = Positions /\ Asking' = Asking
      /\ refTokens' = refTokens /\ (\A i \in Positions : asking'[i] = asking[i])
      /\ expired' \in BOOLEAN
  BY <1>1, FirstKept
<1>3. Paths' = Paths /\ Fetching' = Fetching
  BY <1>1 DEF Paths, Fetching
<1>4. events \in Seq(Events) /\ Tail(eventsCh) \in Seq(Seq(Events))
  BY <1>1 DEF IInv, Typed, SecondTyped
<1>5. request.limit \in Nat
  BY RequestIs DEF IInv, Typed, FirstTyped
<1> HIDE DEF events
<1>6. allEvents' \in Seq(Events)
  BY <1>1, <1>4, <1>5
<1>7. SecondTyped'
  BY <1>1, <1>3, <1>4, <1>6 DEF IInv, Typed, SecondTyped
<1> HIDE DEF full
<1>8. stage' \in {"draining", "drained"}
  BY <1>1
<1>9. Typed'
  BY <1>1, <1>2, <1>7, <1>8 DEF IInv, Typed, Stage
<1>10. Tokens'
  BY <1>1, <1>2, <1>3 DEF IInv, Tokens
<1>11. Stages'
  <2>1. reply = NoReply /\ ~Replied
    BY <1>1 DEF IInv, Stages, Replied, NoReply
  <2>. QED
    BY <1>1, <1>2, <1>3, <1>8, <2>1 DEF IInv, Stages, Before, Replied, Over
<1>. QED
  BY <1>9, <1>10, <1>11 DEF IInv

LEMMA RespondTyped == ASSUME IInv, Respond PROVE IInv'
<1>1. /\ stage \in {"draining", "drained"} /\ stage' = "done"
      /\ UNCHANGED <<request, firstWave, secondWave, expired>>
      /\ count' = [count EXCEPT !.returned = @ + Len(allEvents), !.success = @ + 1]
  BY DEF Respond, Drained
<1>2. /\ FirstTyped' /\ SecondTyped' /\ Tokens'
      /\ Positions' = Positions /\ Paths' = Paths
      /\ Asking' = Asking /\ Fetching' = Fetching
  BY <1>1, OnlyStage
<1>3. Typed'
  <2> DEFINE n == Len(allEvents)
  <2>1. n \in Nat /\ count \in Counters
    BY DEF IInv, Typed, SecondTyped
  <2>2. count' \in Counters
    <3>1. count' = [count EXCEPT !.returned = @ + n, !.success = @ + 1]
      BY <1>1
    <3>2. count.returned + n \in Nat /\ count.success + 1 \in Nat
      BY <2>1 DEF Counters
    <3>. QED
      BY <2>1, <3>1, <3>2, Zenon DEF Counters
  <2>. QED
    BY <1>1, <1>2, <2>2 DEF Typed, IInv, Stage
<1>4. (\A i \in Positions : Over(i)) /\ \A path \in Paths : file[path] \in {"read", "failed"}
  BY <1>1 DEF IInv, Stages
<1>5. Asking = {} /\ Fetching = {}
  BY <1>4 DEF Over, Asking, Fetching
<1>6. Stages'
  BY <1>1, <1>2, <1>4, <1>5 DEF Stages, Before, Over, firstWave, secondWave
<1>. QED
  BY <1>2, <1>3, <1>6 DEF IInv

LEMMA StutterTyped == ASSUME IInv, UNCHANGED vars PROVE IInv'
<1>1. UNCHANGED <<request, stage, firstWave, secondWave, count, expired, reply>>
  BY DEF vars, firstWave, secondWave
<1>2. /\ FirstTyped' /\ SecondTyped' /\ Tokens'
      /\ Positions' = Positions /\ Paths' = Paths
      /\ Asking' = Asking /\ Fetching' = Fetching
  BY <1>1, OnlyStage
<1>3. Typed'
  BY <1>1, <1>2 DEF Typed, IInv
<1>4. Stages'
  BY <1>1, <1>2 DEF IInv, Stages, Before, Replied, Over, firstWave, secondWave
<1>. QED
  BY <1>2, <1>3, <1>4 DEF IInv

LEMMA NextTyped == IInv /\ MInv /\ [Next]_vars => IInv'
<1> SUFFICES ASSUME IInv, MInv, [Next]_vars PROVE IInv'
  OBVIOUS
<1>1. ASSUME Caller PROVE IInv'
  BY <1>1, RejectTyped, AcceptTyped, LaunchQueryTyped, GatherTyped, CloseEventsTyped, DrainTyped,
     RespondTyped DEF Caller
<1>2. ASSUME NEW i \in Positions, Query(i) PROVE IInv'
  BY <1>2, QueryShardOKTyped, QueryShardErrTyped DEF Query
<1>3. ASSUME NEW path \in Paths, Fetch(path) PROVE IInv'
  BY <1>3, LaunchFetchTyped, GetObjectOKTyped, GetObjectPanicsTyped, GetObjectErrTyped DEF Fetch
<1>4. ASSUME Finished PROVE IInv'
  BY <1>4, StutterTyped DEF Finished
<1>. QED
  BY <1>1, <1>2, <1>3, <1>4, ExpireTyped, StutterTyped DEF Next

-----------------------------------------------------------------------------
(* Second part: the map.                                                   *)

LEMMA InitMapped == Init => MInv
<1> SUFFICES ASSUME Init PROVE MInv
  OBVIOUS
<1>1. /\ \A r \in Refs : result[r] = <<>>
      /\ \A i \in Positions : asking[i] = "idle"
      /\ stage = "received" /\ reply = NoReply
  BY DEF Init
<1>2. ~Gathered
  BY <1>1 DEF Gathered, Replied, NoReply
<1>. QED
  BY <1>1, <1>2 DEF MInv, Known, Noted

LEMMA MapKept ==
  ASSUME MInv, UNCHANGED <<request, firstWave, grouped>>, Gathered' => Gathered
  PROVE  MInv'
<1>1. /\ asking' = asking /\ answer' = answer /\ result' = result /\ Positions' = Positions
  BY DEF firstWave, Positions
<1>2. \A r \in Refs : Known(r)'
  BY <1>1 DEF MInv, Known
<1>3. \A i \in Positions : Noted(i)'
  BY <1>1 DEF MInv, Noted
<1>. QED
  BY <1>1, <1>2, <1>3 DEF MInv

(* Nothing is gathered while a goroutine of the first wave runs.           *)
LEMMA NotGathered ==
  ASSUME IInv, stage \in {"received", "metadata"}
  PROVE  ~Gathered /\ reply = NoReply /\ ~Replied
BY DEF IInv, Stages, Gathered, Replied, NoReply

LEMMA AskedInMetadata ==
  ASSUME IInv, NEW i \in Positions, ~Over(i), asking[i] # "idle"
  PROVE  stage = "metadata"
<1>1. asking[i] \in {"asking", "doomed"} /\ launched # 0
  BY PositionsAre DEF IInv, Typed, FirstTyped, AskState, Over
<1>2. stage \notin {"files", "draining", "drained", "crashed", "done", "received"}
  BY <1>1 DEF IInv, Stages, Asking
<1>. QED
  BY <1>2 DEF IInv, Typed, Stage

LEMMA LaunchQueryMapped == ASSUME IInv, MInv, LaunchQuery PROVE MInv'
<1> DEFINE i == launched + 1
           x == IF expired THEN "doomed" ELSE "asking"
<1>1. /\ UNCHANGED <<request, stage, answer, result, secondWave, reply>>
      /\ stage = "metadata" /\ launched < Len(request.refs)
      /\ asking' = [asking EXCEPT ![i] = x] /\ x # "answered"
  BY DEF LaunchQuery
<1>2. i \in Positions /\ asking[i] = "idle" /\ Positions' = Positions
  BY <1>1, PositionsAre DEF IInv, Typed, FirstTyped, Positions
<1> HIDE DEF x, i
<1>3. asking'[i] = x /\ \A j \in Positions : j # i => asking'[j] = asking[j]
  BY <1>1, <1>2 DEF IInv, Typed, FirstTyped
<1>4. \A j \in Positions : asking'[j] = "answered" <=> asking[j] = "answered"
  BY <1>1, <1>2, <1>3
<1>5. \A r \in Refs : Known(r)'
  BY <1>1, <1>2, <1>4 DEF MInv, Known
<1>6. \A j \in Positions : Noted(j)'
  BY <1>1, <1>2, <1>4 DEF MInv, Noted
<1>7. ~Gathered'
  BY <1>1, NotGathered DEF Gathered, Replied
<1>. QED
  BY <1>2, <1>5, <1>6, <1>7 DEF MInv

LEMMA QueryShardErrMapped == ASSUME IInv, MInv, NEW i \in Positions, QueryShardErr(i) PROVE MInv'
<1>1. /\ UNCHANGED <<request, stage, answer, result, reply>>
      /\ asking[i] \in {"asking", "doomed"} /\ asking' = [asking EXCEPT ![i] = "failed"]
  BY DEF QueryShardErr
<1>2. stage = "metadata" /\ Positions' = Positions
  BY <1>1, AskedInMetadata DEF Over, Positions
<1>3. \A j \in Positions : asking'[j] = "answered" <=> asking[j] = "answered"
  BY <1>1 DEF IInv, Typed, FirstTyped
<1>4. \A r \in Refs : Known(r)'
  BY <1>1, <1>2, <1>3 DEF MInv, Known
<1>5. \A j \in Positions : Noted(j)'
  BY <1>1, <1>2, <1>3 DEF MInv, Noted
<1>6. ~Gathered'
  BY <1>1, <1>2, NotGathered DEF Gathered, Replied
<1>. QED
  BY <1>2, <1>4, <1>5, <1>6 DEF MInv

LEMMA QueryShardOKMapped == ASSUME IInv, MInv, NEW i \in Positions, QueryShardOK(i) PROVE MInv'
<1> DEFINE r == request.refs[i]
<1>1. PICK entries \in Answers[r] :
        /\ answer' = [answer EXCEPT ![i] = entries]
        /\ result' = IF Metas(entries) = <<>> THEN result ELSE [result EXCEPT ![r] = Metas(entries)]
  BY DEF QueryShardOK
<1>2. /\ UNCHANGED <<request, stage, reply>>
      /\ asking[i] = "asking" /\ asking' = [asking EXCEPT ![i] = "answered"]
  BY DEF QueryShardOK
<1>3. stage = "metadata" /\ Positions' = Positions
  BY <1>2, AskedInMetadata DEF Over, Positions
<1>4. /\ asking'[i] = "answered" /\ answer'[i] = entries
      /\ \A j \in Positions : j # i => asking'[j] = asking[j] /\ answer'[j] = answer[j]
  BY <1>1, <1>2 DEF IInv, Typed, FirstTyped
<1>5. /\ r \in Refs
      /\ \A s \in Refs : s # r => result'[s] = result[s]
      /\ result'[r] = IF Metas(entries) = <<>> THEN result[r] ELSE Metas(entries)
  <2>1. r \in Refs
    BY PositionsAre DEF IInv, Typed
  <2>2. result \in [Refs -> Seq(Metadata)]
    BY DEF IInv, Typed, FirstTyped
  <2>. QED
    BY <1>1, <2>1, <2>2
<1> HIDE DEF r
<1>6. ASSUME NEW s \in Refs, result'[s] # <<>>
      PROVE  \E j \in Positions : /\ asking'[j] = "answered"
                                  /\ request.refs[j] = s
                                  /\ result'[s] = Metas(answer'[j])
  <2>1. CASE s = r /\ Metas(entries) # <<>>
    BY <1>4, <1>5, <2>1 DEF r
  <2>2. CASE ~(s = r /\ Metas(entries) # <<>>)
    <3>1. result'[s] = result[s]
      BY <1>5, <2>2
    <3>2. PICK j \in Positions : /\ asking[j] = "answered"
                                 /\ request.refs[j] = s
                                 /\ result[s] = Metas(answer[j])
      BY <1>6, <3>1 DEF MInv, Known
    <3>3. j # i
      BY <1>2, <3>2
    <3>. QED
      BY <1>4, <3>1, <3>2, <3>3
  <2>. QED
    BY <2>1, <2>2
<1>7. \A s \in Refs : Known(s)'
  BY <1>2, <1>3, <1>6 DEF Known
<1>8. ASSUME NEW j \in Positions, asking'[j] = "answered", Metas(answer'[j]) # <<>>
      PROVE  result'[request.refs[j]] # <<>>
  <2>1. CASE j = i
    BY <1>4, <1>5, <1>8, <2>1 DEF r
  <2>2. CASE j # i
    <3>1. result[request.refs[j]] # <<>> /\ request.refs[j] \in Refs
      BY <1>4, <1>8, <2>2, PositionsAre DEF MInv, Noted, IInv, Typed
    <3>. QED
      BY <1>5, <3>1
  <2>. QED
    BY <2>1, <2>2
<1>9. \A j \in Positions : Noted(j)'
  BY <1>2, <1>8 DEF Noted
<1>10. ~Gathered'
  BY <1>2, <1>3, NotGathered DEF Gathered, Replied
<1>. QED
  BY <1>3, <1>7, <1>9, <1>10 DEF MInv

LEMMA GatherMapped == ASSUME IInv, MInv, Gather PROVE MInv'
<1>1. PICK metas : GatheredFrom(metas)
  BY GatherIs
<1>2. /\ request' = request /\ asking' = asking /\ answer' = answer /\ result' = result
      /\ Positions' = Positions
  BY DEF Gather, firstWave, Positions
<1>3. PICK p : Placement(p, metas, result, Rows(result))
  BY <1>1 DEF GatheredFrom
<1>4. metas \in Seq(Metadata) /\ grouped' = Group(metas) /\ result \in [Refs -> Seq(Metadata)]
  BY <1>1 DEF GatheredFrom, IInv, Typed, FirstTyped
<1>5. \E place : GroupedFrom(place, Group(metas), result)
  BY <1>3, <1>4, GatherGroups
<1>6. \E place : GroupedFrom(place, grouped', result')
  BY <1>2, <1>4, <1>5
<1>7. \A r \in Refs : Known(r)'
  BY <1>2 DEF MInv, Known
<1>8. \A i \in Positions : Noted(i)'
  BY <1>2 DEF MInv, Noted
<1>. QED
  BY <1>2, <1>6, <1>7, <1>8 DEF MInv

LEMMA NextMapped == IInv /\ MInv /\ [Next]_vars => MInv'
<1> SUFFICES ASSUME IInv, MInv, [Next]_vars PROVE MInv'
  OBVIOUS
<1>1. ASSUME Reject PROVE MInv'
  <2>1. /\ UNCHANGED <<request, firstWave, grouped>> /\ stage' = "done"
        /\ reply' \in {[status |-> "method not allowed"], [status |-> "bad request"]}
    BY <1>1 DEF Reject, secondWave
  <2>2. CASE reply' = [status |-> "method not allowed"]
    BY <2>1, <2>2, MapKept DEF Gathered, Replied
  <2>3. CASE reply' = [status |-> "bad request"]
    BY <2>1, <2>3, MapKept DEF Gathered, Replied
  <2>. QED
    BY <2>1, <2>2, <2>3
<1>2. ASSUME Accept PROVE MInv'
  <2>1. /\ UNCHANGED <<request, firstWave, grouped, reply>>
        /\ stage = "received" /\ stage' = "metadata"
    BY <1>2 DEF Accept, secondWave
  <2>. QED
    BY <2>1, NotGathered, MapKept DEF Gathered, Replied
<1>3. ASSUME CloseEvents \/ Drain PROVE MInv'
  <2>1. /\ UNCHANGED <<request, firstWave, grouped>>
        /\ stage \in {"files", "draining"}
    BY <1>3 DEF CloseEvents, Drain, secondWave
  <2>. QED
    BY <2>1, MapKept DEF Gathered
<1>4. ASSUME Respond PROVE MInv'
  <2>1. /\ UNCHANGED <<request, firstWave, grouped>>
        /\ stage \in {"drained", "draining"}
    BY <1>4 DEF Respond, Drained, secondWave
  <2>. QED
    BY <2>1, MapKept DEF Gathered
<1>5. ASSUME NEW path \in Paths, Fetch(path) PROVE MInv'
  <2>1. /\ UNCHANGED <<request, firstWave, grouped>>
        /\ stage = "files"
    BY <1>5 DEF Fetch, LaunchFetch, GetObjectOK, GetObjectPanics, GetObjectErr, ObjectRead, secondWave
  <2>. QED
    BY <2>1, MapKept DEF Gathered
<1>6. ASSUME NEW i \in Positions, Query(i) PROVE MInv'
  BY <1>6, QueryShardOKMapped, QueryShardErrMapped DEF Query
<1>7. ASSUME Expire \/ Finished \/ UNCHANGED vars PROVE MInv'
  <2>1. UNCHANGED <<request, firstWave, grouped, stage, reply>>
    BY <1>7 DEF Expire, Finished, vars, firstWave, secondWave
  <2>. QED
    BY <2>1, MapKept DEF Gathered, Replied
<1>. QED
  BY <1>1, <1>2, <1>3, <1>4, <1>5, <1>6, <1>7, LaunchQueryMapped, GatherMapped DEF Next, Caller

-----------------------------------------------------------------------------
(* Third part: the counters.                                               *)
FailedQueries == {i \in Positions : asking[i] = "failed"}
FailedFetches == {path \in Paths : file[path] = "failed"}

Failures ==
  /\ count.rocksFailed = Cardinality(FailedQueries)
  /\ count.s3Failed = Cardinality(FailedFetches)

Open == stage \in {"metadata", "files", "draining", "drained"}

Tally ==
  /\ stage = "received" => count.queries = 0
  /\ Open \/ Replied => count.queries = 1
  /\ stage = "received" \/ Open => count.success = 0 /\ count.returned = 0
  /\ Before \/ stage = "files" => count.s3Total = 0
  /\ stage \in {"draining", "drained"} \/ Replied => count.s3Total = Cardinality(Paths)
  /\ Replied => /\ count.success = 1
                /\ count.returned = Len(reply.events)
                /\ reply.metrics.s3 = Cardinality(Paths)
                /\ reply.metrics.entries = Cardinality(Rows(result))

CInv == Failures /\ Tally

LEMMA InitCounted == Init => CInv
<1> SUFFICES ASSUME Init PROVE CInv
  OBVIOUS
<1>1. /\ stage = "received" /\ reply = NoReply /\ Paths = {}
      /\ count = [queries |-> 0, success |-> 0, rocksFailed |-> 0, s3Failed |-> 0,
                  s3Total |-> 0, returned |-> 0]
      /\ \A i \in Positions : asking[i] = "idle"
  BY DEF Init, Paths
<1>2. FailedQueries = {} /\ FailedFetches = {}
  BY <1>1 DEF FailedQueries, FailedFetches
<1>3. Failures
  BY <1>1, <1>2, FS_EmptySet DEF Failures
<1>4. Tally
  BY <1>1 DEF Tally, Open, Before, Replied, NoReply
<1>. QED
  BY <1>3, <1>4 DEF CInv

LEMMA FailedAreFinite ==
  ASSUME IInv
  PROVE  IsFiniteSet(FailedQueries) /\ IsFiniteSet(FailedFetches)
<1>1. IsFiniteSet(Positions) /\ FailedQueries \subseteq Positions
  BY PositionsAre DEF IInv, Typed, FailedQueries
<1>2. IsFiniteSet(Paths) /\ FailedFetches \subseteq Paths
  BY DEF IInv, Typed, SecondTyped, FailedFetches
<1>. QED
  BY <1>1, <1>2, FS_Subset

LEMMA FailuresKept ==
  ASSUME Failures, FailedQueries' = FailedQueries, FailedFetches' = FailedFetches,
         count'.rocksFailed = count.rocksFailed, count'.s3Failed = count.s3Failed
  PROVE  Failures'
BY DEF Failures

LEMMA NextFailures == IInv /\ MInv /\ Failures /\ [Next]_vars => Failures'
<1> SUFFICES ASSUME IInv, MInv, Failures, [Next]_vars PROVE Failures'
  OBVIOUS
<1>1. /\ asking \in [Positions -> AskState] /\ file \in [Paths -> FileState] /\ count \in Counters
      /\ \A i \in Positions : asking[i] = "idle" <=> i > launched
      /\ launched \in 0 .. Len(request.refs)
      /\ Len(request.refs) \in Nat /\ Positions = 1 .. Len(request.refs)
  BY PositionsAre DEF IInv, Typed, FirstTyped, SecondTyped
<1>2. ASSUME UNCHANGED <<request, firstWave, secondWave>>,
             count'.rocksFailed = count.rocksFailed, count'.s3Failed = count.s3Failed
      PROVE  Failures'
  <2>1. FailedQueries' = FailedQueries /\ FailedFetches' = FailedFetches
    BY <1>2 DEF FailedQueries, FailedFetches, Positions, Paths, firstWave, secondWave
  <2>. QED
    BY <1>2, <2>1, FailuresKept
<1>3. ASSUME Reject \/ Accept \/ CloseEvents \/ Respond \/ Expire \/ Finished \/ UNCHANGED vars
      PROVE  Failures'
  <2>1. /\ UNCHANGED <<request, firstWave, secondWave>>
        /\ \/ count' = count
           \/ count' = [count EXCEPT !.queries = @ + 1]
           \/ count' = [count EXCEPT !.s3Total = @ + Cardinality(Paths)]
           \/ count' = [count EXCEPT !.returned = @ + Len(allEvents), !.success = @ + 1]
    BY <1>3 DEF Reject, Accept, CloseEvents, Respond, Expire, Finished, vars, firstWave, secondWave
  <2>2. count'.rocksFailed = count.rocksFailed /\ count'.s3Failed = count.s3Failed
    BY <1>1, <2>1 DEF Counters
  <2>. QED
    BY <1>2, <2>1, <2>2
<1>4. ASSUME NEW path \in Paths, GetObjectPanics(path) PROVE Failures'
  BY <1>2, <1>4 DEF GetObjectPanics
<1>5. ASSUME Drain PROVE Failures'
  <2>1. UNCHANGED <<request, firstWave, grouped, file, count>>
    BY <1>5 DEF Drain
  <2>2. FailedQueries' = FailedQueries /\ FailedFetches' = FailedFetches
    BY <2>1 DEF FailedQueries, FailedFetches, Positions, Paths, firstWave
  <2>. QED
    BY <2>1, <2>2, FailuresKept
<1>6. ASSUME LaunchQuery PROVE Failures'
  <2> DEFINE i == launched + 1
             x == IF expired THEN "doomed" ELSE "asking"
  <2>1. /\ launched < Len(request.refs) /\ asking' = [asking EXCEPT ![i] = x]
        /\ x # "failed" /\ UNCHANGED <<request, grouped, file, count>>
    BY <1>6 DEF LaunchQuery, secondWave
  <2>2. i \in Positions /\ asking[i] = "idle" /\ Positions' = Positions
    BY <1>1, <2>1 DEF Positions
  <2> HIDE DEF i, x
  <2>3. \A j \in Positions : asking'[j] = "failed" <=> asking[j] = "failed"
    BY <1>1, <2>1, <2>2
  <2>4. FailedQueries' = FailedQueries /\ FailedFetches' = FailedFetches
    BY <2>1, <2>2, <2>3 DEF FailedQueries, FailedFetches, Paths
  <2>. QED
    BY <2>1, <2>4, FailuresKept
<1>7. ASSUME NEW i \in Positions, QueryShardOK(i) PROVE Failures'
  <2>1. /\ asking[i] = "asking" /\ asking' = [asking EXCEPT ![i] = "answered"]
        /\ UNCHANGED <<request, grouped, file, count>>
    BY <1>7 DEF QueryShardOK, secondWave
  <2>2. Positions' = Positions /\ \A j \in Positions : asking'[j] = "failed" <=> asking[j] = "failed"
    BY <1>1, <2>1 DEF Positions
  <2>3. FailedQueries' = FailedQueries /\ FailedFetches' = FailedFetches
    BY <2>1, <2>2 DEF FailedQueries, FailedFetches, Paths
  <2>. QED
    BY <2>1, <2>3, FailuresKept
<1>8. ASSUME NEW i \in Positions, QueryShardErr(i) PROVE Failures'
  <2>1. /\ asking[i] \in {"asking", "doomed"} /\ asking' = [asking EXCEPT ![i] = "failed"]
        /\ count' = [count EXCEPT !.rocksFailed = @ + 1]
        /\ UNCHANGED <<request, grouped, file>>
    BY <1>8 DEF QueryShardErr, secondWave
  <2>2. FailedQueries' = FailedQueries \cup {i} /\ i \notin FailedQueries
    BY <1>1, <2>1 DEF FailedQueries, Positions
  <2>3. FailedFetches' = FailedFetches
    BY <2>1 DEF FailedFetches, Paths
  <2>4. Cardinality(FailedQueries') = Cardinality(FailedQueries) + 1
    BY <2>2, FailedAreFinite, OneMore
  <2>5. count'.rocksFailed = count.rocksFailed + 1 /\ count'.s3Failed = count.s3Failed
    BY <1>1, <2>1 DEF Counters
  <2>. QED
    BY <2>3, <2>4, <2>5 DEF Failures
<1>9. ASSUME Gather PROVE Failures'
  <2>1. PICK metas : GatheredFrom(metas)
    BY <1>9, GatherIs
  <2>2. UNCHANGED <<request, firstWave>> /\ stage = "metadata"
    BY <1>9 DEF Gather
  <2>3. FailedQueries' = FailedQueries
    BY <2>2 DEF FailedQueries, Positions, firstWave
  <2>4. FailedFetches = {}
    BY <2>2 DEF IInv, Stages, Before, FailedFetches
  <2>5. FailedFetches' = {}
    BY <2>1 DEF GatheredFrom, FailedFetches, Paths
  <2>6. count'.rocksFailed = count.rocksFailed /\ count'.s3Failed = count.s3Failed
    <3>1. count' = count \/ count' = [count EXCEPT !.success = @ + 1]
      BY <2>1 DEF GatheredFrom
    <3>. QED
      BY <1>1, <3>1 DEF Counters
  <2>. QED
    BY <2>3, <2>4, <2>5, <2>6, FailuresKept
<1>10. ASSUME NEW path \in Paths, LaunchFetch(path) \/ GetObjectOK(path) PROVE Failures'
  <2>1. PICK x \in {"doomed", "calling", "read"} :
           file' = [file EXCEPT ![path] = x]
    BY <1>10 DEF LaunchFetch, GetObjectOK
  <2>2. /\ file[path] \in {"idle", "calling"}
        /\ UNCHANGED <<request, firstWave, grouped, count>>
    BY <1>10 DEF LaunchFetch, GetObjectOK, ObjectRead
  <2>3. Paths' = Paths /\ \A p \in Paths : file'[p] = "failed" <=> file[p] = "failed"
    BY <1>1, <2>1, <2>2 DEF Paths
  <2>4. FailedQueries' = FailedQueries /\ FailedFetches' = FailedFetches
    BY <2>2, <2>3 DEF FailedQueries, FailedFetches, Positions, firstWave
  <2>. QED
    BY <2>2, <2>4, FailuresKept
<1>11. ASSUME NEW path \in Paths, GetObjectErr(path) PROVE Failures'
  <2>1. /\ file[path] \in {"calling", "doomed"} /\ file' = [file EXCEPT ![path] = "failed"]
        /\ count' = [count EXCEPT !.s3Failed = @ + 1]
        /\ UNCHANGED <<request, firstWave, grouped>>
    BY <1>11 DEF GetObjectErr
  <2>2. FailedFetches' = FailedFetches \cup {path} /\ path \notin FailedFetches
    BY <1>1, <2>1 DEF FailedFetches, Paths
  <2>3. FailedQueries' = FailedQueries
    BY <2>1 DEF FailedQueries, Positions, firstWave
  <2>4. Cardinality(FailedFetches') = Cardinality(FailedFetches) + 1
    BY <2>2, FailedAreFinite, OneMore
  <2>5. count'.s3Failed = count.s3Failed + 1 /\ count'.rocksFailed = count.rocksFailed
    BY <1>1, <2>1 DEF Counters
  <2>. QED
    BY <2>3, <2>4, <2>5 DEF Failures
<1>. QED
  BY <1>3, <1>4, <1>5, <1>6, <1>7, <1>8, <1>9, <1>10, <1>11 DEF Next, Caller, Query, Fetch

(* A response that has been sorted.                                        *)
RespondedWith(order) ==
  /\ order \in Bijection(DOMAIN allEvents, DOMAIN allEvents)
  /\ reply' = [status |-> "ok", events |-> [k \in DOMAIN allEvents |-> allEvents[order[k]]],
               metrics |-> [rocksdb |-> Len(request.refs),
                            s3      |-> Cardinality(Paths),
                            entries |-> Cardinality(Rows(result)),
                            parsed  |-> Len([k \in DOMAIN allEvents |-> allEvents[order[k]]])]]

LEMMA RespondIs ==
  ASSUME IInv, Respond
  PROVE  \E order : RespondedWith(order)
<1>1. PICK order \in SetToSeqs(DOMAIN allEvents) :
        reply' = [status |-> "ok", events |-> [k \in DOMAIN allEvents |-> allEvents[order[k]]],
                  metrics |-> [rocksdb |-> Len(request.refs),
                               s3      |-> Cardinality(Paths),
                               entries |-> Cardinality(Rows(result)),
                               parsed  |-> Len([k \in DOMAIN allEvents |-> allEvents[order[k]]])]]
  BY DEF Respond
<1> DEFINE D == DOMAIN allEvents
<1>2. Len(allEvents) \in Nat /\ D = 1 .. Len(allEvents)
  BY DEF IInv, Typed, SecondTyped
<1>3. IsFiniteSet(D) /\ Cardinality(D) = Len(allEvents)
  <2> DEFINE n == Len(allEvents)
  <2>1. n \in Nat /\ D = 1 .. n
    BY <1>2
  <2> HIDE DEF n, D
  <2>2. IsFiniteSet(1 .. n) /\ Cardinality(1 .. n) = n
    BY <2>1, FS_Interval
  <2>3. IsFiniteSet(D) /\ Cardinality(D) = n
    BY <2>1, <2>2
  <2>. QED
    BY <2>3 DEF n
<1>4. order \in SetToSeqs(D)
  OBVIOUS
<1> HIDE DEF D
<1>5. order \in Bijection(DOMAIN order, D) /\ DOMAIN order = 1 .. Cardinality(D)
  BY <1>3, <1>4, Permutation
<1>6. order \in Bijection(D, D)
  BY <1>2, <1>3, <1>5
<1>7. RespondedWith(order)
  BY <1>1, <1>6 DEF RespondedWith, D
<1>. QED
  BY <1>7

LEMMA NextTally == IInv /\ MInv /\ Tally /\ [Next]_vars => Tally'
<1> SUFFICES ASSUME IInv, MInv, Tally, [Next]_vars PROVE Tally'
  OBVIOUS
<1>1. count \in Counters /\ stage \in Stage
  BY DEF IInv, Typed
<1>2. ASSUME Reject PROVE Tally'
  <2>1. /\ stage' = "done"
        /\ reply' \in {[status |-> "method not allowed"], [status |-> "bad request"]}
    BY <1>2 DEF Reject
  <2>2. CASE reply' = [status |-> "method not allowed"]
    BY <2>1, <2>2 DEF Tally, Open, Before, Replied
  <2>3. CASE reply' = [status |-> "bad request"]
    BY <2>1, <2>3 DEF Tally, Open, Before, Replied
  <2>. QED
    BY <2>1, <2>2, <2>3
<1>3. ASSUME Accept PROVE Tally'
  <2>1. /\ stage = "received" /\ stage' = "metadata" /\ reply' = reply
        /\ count' = [count EXCEPT !.queries = @ + 1]
    BY <1>3 DEF Accept
  <2>2. ~Replied'
    BY <2>1, NotGathered DEF Replied
  <2>3. /\ count.queries = 0 /\ count.success = 0 /\ count.returned = 0 /\ count.s3Total = 0
    BY <2>1 DEF Tally, Before
  <2>4. /\ count'.queries = 1 /\ count'.success = 0 /\ count'.returned = 0 /\ count'.s3Total = 0
    BY <1>1, <2>1, <2>3 DEF Counters
  <2>. QED
    BY <2>1, <2>2, <2>4 DEF Tally, Open, Before
<1>4. ASSUME UNCHANGED <<stage, grouped, result, reply>>,
             count'.queries = count.queries, count'.success = count.success,
             count'.returned = count.returned, count'.s3Total = count.s3Total
      PROVE  Tally'
  <2>1. Open' = Open /\ Before' = Before /\ Replied' = Replied /\ Paths' = Paths
    BY <1>4 DEF Open, Before, Replied, Paths
  <2>. QED
    BY <1>4, <2>1 DEF Tally
<1>5. ASSUME stage = "metadata", stage' = stage, reply' = reply,
             count'.queries = count.queries, count'.success = count.success,
             count'.returned = count.returned, count'.s3Total = count.s3Total
      PROVE  Tally'
  <2>1. ~Replied'
    BY <1>5, NotGathered DEF Replied
  <2>. QED
    BY <1>5, <2>1 DEF Tally, Open, Before
<1>6. ASSUME LaunchQuery PROVE Tally'
  <2>1. stage = "metadata" /\ stage' = stage /\ reply' = reply /\ count' = count
    BY <1>6 DEF LaunchQuery
  <2>. QED
    BY <1>5, <2>1
<1>7. ASSUME NEW i \in Positions, Query(i) PROVE Tally'
  <2>1. /\ stage' = stage /\ reply' = reply /\ asking[i] \in {"asking", "doomed"}
        /\ count' = count \/ count' = [count EXCEPT !.rocksFailed = @ + 1]
    BY <1>7 DEF Query, QueryShardOK, QueryShardErr
  <2>2. stage = "metadata"
    BY <2>1, AskedInMetadata DEF Over
  <2>3. /\ count'.queries = count.queries /\ count'.success = count.success
        /\ count'.returned = count.returned /\ count'.s3Total = count.s3Total
    BY <1>1, <2>1 DEF Counters
  <2>. QED
    BY <1>5, <2>1, <2>2, <2>3
<1>8. ASSUME Gather PROVE Tally'
  <2>1. PICK metas : GatheredFrom(metas)
    BY <1>8, GatherIs
  <2>2. stage = "metadata" /\ result' = result /\ reply = NoReply
    BY <1>8, NotGathered DEF Gather, firstWave
  <2>3. /\ count.queries = 1 /\ count.success = 0 /\ count.returned = 0 /\ count.s3Total = 0
    BY <2>2 DEF Tally, Open, Before
  <2>4. CASE metas # <<>>
    <3>1. stage' = "files" /\ reply' = reply /\ count' = count
      BY <2>1, <2>4 DEF GatheredFrom
    <3>2. ~Replied'
      BY <2>2, <3>1 DEF Replied, NoReply
    <3>. QED
      BY <2>3, <3>1, <3>2 DEF Tally, Open, Before
  <2>5. CASE metas = <<>>
    <3>1. /\ stage' = "done" /\ count' = [count EXCEPT !.success = @ + 1]
          /\ reply' = [status |-> "ok", events |-> <<>>,
                       metrics |-> [rocksdb |-> Len(request.refs), s3 |-> 0,
                                    entries |-> 0, parsed |-> 0]]
          /\ grouped' = Group(metas) /\ metas \in Seq(Metadata)
      BY <2>1, <2>5 DEF GatheredFrom
    <3>2. Paths' = {}
      <4>1. DOMAIN Group(metas) = {GroupPath(metas[k]) : k \in DOMAIN metas}
        BY <3>1, GroupIs
      <4>2. DOMAIN metas = {}
        BY <2>5
      <4>3. DOMAIN Group(metas) = {}
        BY <4>1, <4>2
      <4>. QED
        BY <3>1, <4>3 DEF Paths
    <3>3. Rows(result) = {}
      <4>1. PICK p : Placement(p, metas, result, Rows(result))
        BY <2>1 DEF GatheredFrom
      <4>2. p \in Bijection(DOMAIN metas, Rows(result)) /\ DOMAIN metas = {}
        BY <2>5, <4>1 DEF Placement
      <4>3. \A row \in Rows(result) : \E k \in DOMAIN metas : p[k] = row
        BY <4>2, BijectionIs
      <4>. QED
        BY <4>2, <4>3
    <3>4. Cardinality(Paths') = 0 /\ Cardinality(Rows(result')) = 0
      BY <2>2, <3>2, <3>3, FS_EmptySet
    <3>5. /\ count'.queries = 1 /\ count'.success = 1 /\ count'.returned = 0 /\ count'.s3Total = 0
      BY <1>1, <2>3, <3>1 DEF Counters
    <3>6. /\ Len(reply'.events) = 0 /\ reply'.metrics.s3 = 0 /\ reply'.metrics.entries = 0
      BY <3>1
    <3>. QED
      BY <3>1, <3>4, <3>5, <3>6 DEF Tally, Open, Before
  <2>. QED
    BY <2>4, <2>5
<1>9. ASSUME NEW path \in Paths, LaunchFetch(path) \/ GetObjectOK(path) \/ GetObjectErr(path)
      PROVE  Tally'
  <2>1. /\ UNCHANGED <<stage, grouped, result, reply>>
        /\ count' = count \/ count' = [count EXCEPT !.s3Failed = @ + 1]
    BY <1>9 DEF LaunchFetch, GetObjectOK, GetObjectErr, firstWave
  <2>2. /\ count'.queries = count.queries /\ count'.success = count.success
        /\ count'.returned = count.returned /\ count'.s3Total = count.s3Total
    BY <1>1, <2>1 DEF Counters
  <2>. QED
    BY <1>4, <2>1, <2>2
<1>10. ASSUME NEW path \in Paths, GetObjectPanics(path) PROVE Tally'
  <2>1. stage = "files" /\ stage' = "crashed" /\ reply' = reply
    BY <1>10 DEF GetObjectPanics, ObjectRead
  <2>2. ~Replied'
    BY <2>1 DEF IInv, Stages, Replied, NoReply
  <2>. QED
    BY <2>1, <2>2 DEF Tally, Open, Before
<1>11. ASSUME CloseEvents PROVE Tally'
  <2>1. /\ stage = "files" /\ stage' = "draining" /\ reply' = reply /\ Paths' = Paths
        /\ count' = [count EXCEPT !.s3Total = @ + Cardinality(Paths)]
    BY <1>11 DEF CloseEvents, secondWave, Paths
  <2>2. ~Replied'
    BY <2>1 DEF IInv, Stages, Replied, NoReply
  <2>3. /\ count.queries = 1 /\ count.success = 0 /\ count.returned = 0 /\ count.s3Total = 0
    BY <2>1 DEF Tally, Open, Before
  <2>4. Cardinality(Paths) \in Nat
    BY FS_CardinalityType DEF IInv, Typed, SecondTyped
  <2>5. /\ count'.queries = 1 /\ count'.success = 0 /\ count'.returned = 0
        /\ count'.s3Total = Cardinality(Paths)
    BY <1>1, <2>1, <2>3, <2>4 DEF Counters
  <2>. QED
    BY <2>1, <2>2, <2>5 DEF Tally, Open, Before
<1>12. ASSUME Drain PROVE Tally'
  <2>1. /\ stage = "draining" /\ stage' \in {"draining", "drained"}
        /\ reply' = reply /\ Paths' = Paths /\ count' = count
    BY <1>12 DEF Drain, Paths
  <2>2. ~Replied'
    BY <2>1 DEF IInv, Stages, Replied, NoReply
  <2>. QED
    BY <2>1, <2>2 DEF Tally, Open, Before
<1>13. ASSUME Respond PROVE Tally'
  <2> DEFINE n == Len(allEvents)
  <2>1. /\ stage \in {"draining", "drained"} /\ stage' = "done"
        /\ Paths' = Paths /\ result' = result
        /\ count' = [count EXCEPT !.returned = @ + n, !.success = @ + 1]
    BY <1>13 DEF Respond, Drained, firstWave, secondWave, Paths
  <2>2. PICK order : RespondedWith(order)
    BY <1>13, RespondIs
  <2>3. n \in Nat /\ DOMAIN allEvents = 1 .. n
    BY DEF IInv, Typed, SecondTyped
  <2>4. /\ count.queries = 1 /\ count.success = 0 /\ count.returned = 0
        /\ count.s3Total = Cardinality(Paths)
    BY <2>1 DEF Tally, Open
  <2> HIDE DEF n
  <2>5. /\ count'.queries = 1 /\ count'.success = 1 /\ count'.returned = n
        /\ count'.s3Total = Cardinality(Paths)
    BY <1>1, <2>1, <2>3, <2>4 DEF Counters
  <2>6. /\ Len(reply'.events) = n
        /\ reply'.metrics.s3 = Cardinality(Paths)
        /\ reply'.metrics.entries = Cardinality(Rows(result))
    BY <2>2, <2>3 DEF RespondedWith
  <2>. QED
    BY <2>1, <2>5, <2>6 DEF Tally, Open, Before
<1>14. ASSUME Expire \/ Finished \/ UNCHANGED vars PROVE Tally'
  BY <1>4, <1>14 DEF Expire, Finished, vars, firstWave, secondWave
<1>. QED
  BY <1>2, <1>3, <1>6, <1>7, <1>8, <1>9, <1>10, <1>11, <1>12, <1>13, <1>14
     DEF Next, Caller, Fetch

-----------------------------------------------------------------------------
LEMMA InitIsFine == Init => IInv /\ MInv /\ CInv
BY InitTyped, InitMapped, InitCounted

LEMMA NextIsFine == IInv /\ MInv /\ CInv /\ [Next]_vars => (IInv /\ MInv /\ CInv)'
BY NextTyped, NextMapped, NextFailures, NextTally DEF CInv

LEMMA Invariant == Spec => [](IInv /\ MInv /\ CInv)
BY InitIsFine, NextIsFine, PTL DEF Spec

LEMMA TypedIsType == IInv => TypeOK
<1> SUFFICES ASSUME IInv PROVE TypeOK
  OBVIOUS
<1>1. /\ request \in Requests
      /\ launched \in 0 .. Len(request.refs)
      /\ asking \in [Positions -> AskState]
      /\ \A i \in Positions : asking[i] = "idle" <=> i > launched
      /\ answer \in [Positions -> Seq(Entries)]
      /\ DOMAIN result = Refs
  BY DEF IInv, Typed, FirstTyped
<1>2. /\ file \in [Paths -> FileState]
      /\ \A path \in Paths : Len(grouped[path]) > 0
  BY DEF IInv, Typed, SecondTyped
<1>3. refTokens \in 0 .. RefSlots /\ fileTokens \in 0 .. FetchSlots
  BY AskingIsFinite, FetchingIsFinite, SlotsAssumption DEF IInv, Typed, Tokens
<1>4. stage \in Stage /\ count \in Counters /\ expired \in BOOLEAN
  BY DEF IInv, Typed
<1>5. stage \in {"received", "metadata"} => Paths = {}
  BY DEF IInv, Stages, Before
<1>. QED
  BY <1>1, <1>2, <1>3, <1>4, <1>5 DEF TypeOK, Stage, Counters

(* The types of the query's state: nothing of the second wave is there     *)
(* before the first is over, and no semaphore is ever over its capacity.   *)
THEOREM ServiceTyped == Spec => []TypeOK
BY Invariant, TypedIsType, PTL

LEMMA TokensCount == IInv => SemaphoresCountGoroutines
<1> SUFFICES ASSUME IInv PROVE SemaphoresCountGoroutines
  OBVIOUS
<1>1. refTokens = Cardinality(Asking) /\ fileTokens = Cardinality(Fetching)
  BY DEF IInv, Tokens
<1>2. reply # NoReply => Asking = {} /\ Fetching = {}
  BY DEF IInv, Stages
<1>3. reply # NoReply => Cardinality(Asking) = 0 /\ Cardinality(Fetching) = 0
  BY <1>2, FS_EmptySet
<1>. QED
  BY <1>1, <1>3 DEF SemaphoresCountGoroutines, Asking, Fetching

(* Both semaphores of a query are given back on every path that its        *)
(* goroutines take (the deferred receives of queryMetadataForRefIDs and    *)
(* fetchEventsFromS3): as many tokens are out as goroutines run, and none  *)
(* when the client is answered.                                            *)
THEOREM TokensAreGivenBack == Spec => []SemaphoresCountGoroutines
BY Invariant, TokensCount, PTL

LEMMA RowsAreFinite ==
  ASSUME IInv
  PROVE  IsFiniteSet(Rows(grouped))
<1> DEFINE Row(path) == {path} \X DOMAIN grouped[path]
           S == {Row(path) : path \in Paths}
           f == [path \in Paths |-> Row(path)]
<1>1. IsFiniteSet(Paths) /\ \A path \in Paths : grouped[path] \in Seq(Metadata)
  BY DEF IInv, Typed, SecondTyped
<1>2. f \in Surjection(Paths, S)
  BY DEF Surjection
<1>3. IsFiniteSet(S)
  <2> HIDE DEF f, S
  <2>. QED
    BY <1>1, <1>2, FS_Surjection
<1>4. ASSUME NEW path \in Paths
      PROVE  IsFiniteSet(Row(path))
  <2> DEFINE D == DOMAIN grouped[path]
             n == Len(grouped[path])
  <2>1. D = 1 .. n /\ n \in Nat
    BY <1>1
  <2> HIDE DEF D, n
  <2>2. IsFiniteSet(1 .. n)
    BY <2>1, FS_Interval
  <2>4. IsFiniteSet(D) /\ IsFiniteSet({path})
    BY <2>1, <2>2, FS_Singleton
  <2>3. IsFiniteSet({path} \X D)
    BY <2>4, FS_Product
  <2>. QED
    BY <2>3 DEF D
<1>5. \A T \in S : IsFiniteSet(T)
  BY <1>4
<1>6. Rows(grouped) = UNION S
  BY DEF Rows, Paths
<1> HIDE DEF S
<1>. QED
  BY <1>3, <1>5, <1>6, FS_UNION

LEMMA OneAnswerIsKept ==
  ASSUME IInv, MInv, NEW r \in Refs
  PROVE  IF AnswersFor(r) \subseteq {<<>>} THEN result[r] = <<>>
         ELSE result[r] \in AnswersFor(r) \ {<<>>}
<1>1. Known(r) /\ \A i \in Positions : Noted(i)
  BY DEF MInv
<1>2. result[r] # <<>> => result[r] \in AnswersFor(r)
  BY <1>1 DEF Known, AnswersFor
<1>3. ASSUME NEW metas \in AnswersFor(r), metas # <<>>
      PROVE  result[r] # <<>>
  BY <1>1, <1>3 DEF Noted, AnswersFor
<1>. QED
  BY <1>2, <1>3

LEMMA CountedRight == IInv /\ MInv /\ CInv => CountersAgree
<1> SUFFICES ASSUME IInv, MInv, CInv, Replied PROVE
      /\ count.success = count.queries
      /\ count.rocksFailed = Cardinality(FailedQueries)
      /\ count.s3Failed = Cardinality(FailedFetches)
      /\ count.s3Total = reply.metrics.s3
      /\ count.returned = Len(reply.events)
      /\ reply.metrics.entries = Cardinality(Rows(grouped))
      /\ Cardinality(Rows(grouped)) = Cardinality(Rows(result))
  BY OneAnswerIsKept DEF CountersAgree, FailedQueries, FailedFetches, Replied
<1>1. PICK place : GroupedFrom(place, grouped, result)
  BY DEF MInv, Gathered
<1>2. place \in Bijection(Rows(grouped), Rows(result))
  BY <1>1 DEF GroupedFrom
<1>3. IsFiniteSet(Rows(grouped))
  BY RowsAreFinite
<1>4. ExistsBijection(Rows(grouped), Rows(result))
  BY <1>2 DEF ExistsBijection
<1>5. Cardinality(Rows(result)) = Cardinality(Rows(grouped))
  BY <1>3, <1>4, FS_Bijection
<1>. QED
  BY <1>5 DEF CInv, Failures, Tally

(* The counters and the metrics of a response are those of what was done:  *)
(* however many reference ids and entries name an object it is one fetch,  *)
(* every entry counted is in exactly one group, and they are those of one  *)
(* answer for each reference id, whole.                                    *)
THEOREM ServiceCountersAgree == Spec => []CountersAgree
BY Invariant, CountedRight, PTL

-----------------------------------------------------------------------------
(* Where the metadata of a group come from: an answer of a shard.          *)
LEMMA RowsAre ==
  ASSUME NEW lists, NEW row \in Rows(lists)
  PROVE  row[1] \in DOMAIN lists /\ row[2] \in DOMAIN lists[row[1]]
BY DEF Rows

LEMMA GroupedAnswer ==
  ASSUME IInv, MInv, Gathered, NEW path \in Paths, NEW k \in DOMAIN grouped[path]
  PROVE  /\ GroupPath(grouped[path][k]) = path
         /\ \E i \in Positions : \E j \in DOMAIN answer[i] :
              /\ MetaOf(answer[i][j]).ok
              /\ grouped[path][k] = MetaOf(answer[i][j])
<1>1. PICK place : GroupedFrom(place, grouped, result)
  BY DEF MInv
<1> DEFINE row == <<path, k>>
           r == place[row][1]
           y == place[row][2]
<1>2. row \in Rows(grouped) /\ row[1] = path /\ row[2] = k
  BY DEF Rows, Paths
<1>3. place[row] \in Rows(result)
  BY <1>1, <1>2, Fun_BijectionProperties DEF GroupedFrom
<1>4. grouped[path][k] = result[r][y] /\ GroupPath(grouped[path][k]) = path
  BY <1>1, <1>2 DEF GroupedFrom
<1>5. r \in Refs /\ y \in DOMAIN result[r]
  BY <1>3, RowsAre DEF IInv, Typed, FirstTyped
<1> HIDE DEF r, y
<1>6. PICK i \in Positions : result[r] = Metas(answer[i])
  BY <1>5 DEF MInv, Known
<1>7. answer[i] \in Seq(Entries)
  BY <1>6 DEF IInv, Typed, FirstTyped
<1>8. PICK j \in DOMAIN answer[i] :
        MetaOf(answer[i][j]).ok /\ Metas(answer[i])[y] = MetaOf(answer[i][j])
  BY <1>5, <1>6, <1>7, MetasAre
<1>. QED
  BY <1>4, <1>6, <1>8

(* A slice panics only if it is backwards: one whose end lies beyond its   *)
(* object is clipped, one whose start does is skipped.                     *)
LEMMA PanicsOnlyBackwards ==
  ASSUME NEW segment, IsSegment(segment), NEW start \in Int, NEW end \in Int,
         Panics(segment, start, end)
  PROVE  start < 0 \/ end < start
<1>1. Size(segment) \in Nat
  BY SizeHoldsLines
<1>. QED
  BY <1>1 DEF Panics, Clip

LEMMA PanicIsBackwards ==
  ASSUME IInv, MInv, NEW path \in Paths, GetObjectPanics(path)
  PROVE  BackwardsAnswered
<1>1. /\ Gathered /\ ObjectOf(path) \in DOMAIN Store
      /\ SlicePanics(path)
  BY DEF GetObjectPanics, ObjectRead, Gathered
<1>2. PICK k \in DOMAIN grouped[path] :
        Panics(Store[ObjectOf(path)], grouped[path][k].start, grouped[path][k].end)
  BY <1>1 DEF SlicePanics
<1>3. PICK i \in Positions : \E j \in DOMAIN answer[i] :
              /\ MetaOf(answer[i][j]).ok
              /\ grouped[path][k] = MetaOf(answer[i][j])
  BY <1>1, GroupedAnswer
<1>4. PICK j \in DOMAIN answer[i] : /\ MetaOf(answer[i][j]).ok
                                    /\ grouped[path][k] = MetaOf(answer[i][j])
  BY <1>3
<1> DEFINE e == answer[i][j]
<1>5. e \in Entries
  BY <1>3, <1>4 DEF IInv, Typed, FirstTyped
<1>6. grouped[path][k].start = e.start_byte /\ grouped[path][k].end = e.end_byte
  BY <1>4, <1>5, MetadataAre DEF Located, Unresolved
<1>7. e.start_byte \in Int /\ e.end_byte \in Int
  BY <1>5, IndexAssumption
<1>8. IsSegment(Store[ObjectOf(path)])
  BY <1>1, StoreAssumption
<1>9. e.start_byte < 0 \/ e.end_byte < e.start_byte
  BY <1>2, <1>6, <1>7, <1>8, PanicsOnlyBackwards
<1>. QED
  BY <1>3, <1>4, <1>9 DEF BackwardsAnswered

LEMMA NextCrashes ==
  IInv /\ MInv /\ CrashOnlyByBackwardsRange /\ [Next]_vars => CrashOnlyByBackwardsRange'
<1> SUFFICES ASSUME IInv, MInv, CrashOnlyByBackwardsRange, [Next]_vars, stage' = "crashed"
             PROVE  BackwardsAnswered'
  BY DEF CrashOnlyByBackwardsRange
<1>1. ASSUME stage = "crashed", UNCHANGED <<request, answer>>
      PROVE  BackwardsAnswered'
  BY <1>1 DEF CrashOnlyByBackwardsRange, BackwardsAnswered, Positions
<1>2. ASSUME NEW path \in Paths, GetObjectPanics(path)
      PROVE  BackwardsAnswered'
  <2>1. BackwardsAnswered /\ UNCHANGED <<request, answer>>
    BY <1>2, PanicIsBackwards DEF GetObjectPanics, firstWave
  <2>. QED
    BY <2>1 DEF BackwardsAnswered, Positions
<1>3. CASE Caller
  BY <1>3 DEF Caller, Reject, Accept, LaunchQuery, Gather, CloseEvents, Drain, Respond
<1>4. ASSUME NEW path \in Paths, Fetch(path) PROVE BackwardsAnswered'
  BY <1>2, <1>4 DEF Fetch, LaunchFetch, GetObjectOK, ObjectRead, GetObjectErr
<1>5. ASSUME NEW i \in Positions, Query(i) PROVE BackwardsAnswered'
  <2>1. stage # "crashed"
    BY <1>5 DEF Query, QueryShardOK, QueryShardErr, IInv, Stages, Over
  <2>. QED
    BY <1>5, <2>1 DEF Query, QueryShardOK, QueryShardErr
<1>6. CASE Expire \/ Finished \/ UNCHANGED vars
  BY <1>1, <1>6 DEF Expire, Finished, vars, firstWave
<1>. QED
  BY <1>3, <1>4, <1>5, <1>6 DEF Next

(* The slicing of fetchEventsFromS3File ends the process only for a range  *)
(* that is backwards in an answer of a shard: an index that claims more    *)
(* than its object holds is survived, whatever the objects and answers.    *)
THEOREM OnlyBackwardsRangesCrash == Spec => []CrashOnlyByBackwardsRange
<1>1. Init => CrashOnlyByBackwardsRange
  BY DEF Init, CrashOnlyByBackwardsRange
<1>. QED
  BY <1>1, Invariant, NextCrashes, PTL DEF Spec

-----------------------------------------------------------------------------
(* FlattenSeq and one list more, at either end.                            *)
PrefixAt(f, ss, m) == IF m = 1 THEN ss[m] ELSE Cat(f[m - 1], ss[m])

LEMMA JoinsAre ==
  ASSUME NEW ss, NEW n \in Nat, NEW f
  PROVE  Joins(f, ss, n) <=> f = [i \in 1 .. n |-> PrefixAt(f, ss, i)]
BY DEF Joins, PrefixAt, Cat

LEMMA JoinsUnique ==
  ASSUME NEW T, NEW n \in Nat, NEW ss \in [1 .. n -> Seq(T)],
         NEW f, Joins(f, ss, n), NEW g, Joins(g, ss, n)
  PROVE  \A m \in 1 .. n : f[m] = g[m] /\ f[m] \in Seq(T)
<1> DEFINE S == {m \in 0 .. n : m = 0 \/ (f[m] = g[m] /\ f[m] \in Seq(T))}
<1>1. \A m \in 1 .. n : f[m] = PrefixAt(f, ss, m) /\ g[m] = PrefixAt(g, ss, m)
  BY JoinsAre
<1>2. ASSUME NEW m \in 0 .. n, m \in S, m < n
      PROVE  m + 1 \in S
  <2>1. /\ m + 1 \in 1 .. n /\ m + 1 \in 0 .. n /\ ss[m + 1] \in Seq(T)
        /\ (m + 1) - 1 = m /\ (m = 0 <=> m + 1 = 1)
    BY <1>2
  <2>2. f[m + 1] = PrefixAt(f, ss, m + 1) /\ g[m + 1] = PrefixAt(g, ss, m + 1)
    BY <1>1, <2>1
  <2>3. m # 0 => f[m] = g[m] /\ f[m] \in Seq(T)
    BY <1>2
  <2>4. f[m + 1] = g[m + 1]
    BY <2>1, <2>2, <2>3 DEF PrefixAt
  <2>5. f[m + 1] \in Seq(T)
    <3>1. CASE m = 0
      BY <2>1, <2>2, <3>1 DEF PrefixAt
    <3>2. CASE m # 0
      <4>1. f[m + 1] = Cat(f[m], ss[m + 1])
        BY <2>1, <2>2, <3>2 DEF PrefixAt
      <4>2. Cat(f[m], ss[m + 1]) \in Seq(T)
        BY <2>1, <2>3, <3>2 DEF Cat
      <4>. QED
        BY <4>1, <4>2
    <3>. QED
      BY <3>1, <3>2
  <2>. QED
    BY <2>1, <2>4, <2>5
<1>3. 0 \in S
  OBVIOUS
<1>4. 0 .. n \subseteq S
  <2> HIDE DEF S
  <2>. QED
    BY <1>2, <1>3, Induct
<1>. QED
  BY <1>4

LEMMA FlattenBy ==
  ASSUME NEW T, NEW ss \in Seq(Seq(T)), NEW n, n = Len(ss), n # 0, NEW f, Joins(f, ss, n)
  PROVE  FlattenSeq(ss) = f[n] /\ f[n] \in Seq(T)
<1> DEFINE g == CHOOSE h : Joins(h, ss, n)
<1>1. Joins(g, ss, n)
  OBVIOUS
<1>2. FlattenSeq(ss) = g[n]
  BY FlattenIs
<1> HIDE DEF g
<1>3. n \in Nat /\ n \in 1 .. n /\ ss \in [1 .. n -> Seq(T)]
  OBVIOUS
<1>4. \A m \in 1 .. n : g[m] = f[m] /\ g[m] \in Seq(T)
  BY <1>1, <1>3, JoinsUnique, Zenon
<1>. QED
  BY <1>2, <1>3, <1>4

LEMMA FlattenEmpty == FlattenSeq(<<>>) = <<>>
BY DEF FlattenSeq

LEMMA FlattenType ==
  ASSUME NEW T, NEW ss \in Seq(Seq(T))
  PROVE  FlattenSeq(ss) \in Seq(T)
BY FlattenPlaces

LEMMA CatEmpty ==
  ASSUME NEW T, NEW a \in Seq(T)
  PROVE  Cat(<<>>, a) = a /\ Cat(a, <<>>) = a
BY DEF Cat

LEMMA FlattenAppend ==
  ASSUME NEW T, NEW ss \in Seq(Seq(T)), NEW x \in Seq(T)
  PROVE  FlattenSeq(Append(ss, x)) = Cat(FlattenSeq(ss), x)
<1> DEFINE n == Len(ss)
           all == Append(ss, x)
<1>1. /\ n \in Nat /\ n = Len(ss) /\ all \in Seq(Seq(T)) /\ n + 1 = Len(all)
      /\ n + 1 \in Nat /\ n + 1 # 0 /\ (n = 0 => ss = <<>>)
      /\ all[n + 1] = x /\ \A i \in 1 .. n : all[i] = ss[i]
  OBVIOUS
<1> HIDE DEF n, all
<1>2. PICK f : Joins(f, all, n + 1)
  BY <1>1, JoinsExist
<1>3. FlattenSeq(all) = f[n + 1]
  <2>1. all \in Seq(Seq(T)) /\ n + 1 = Len(all) /\ n + 1 # 0
    BY <1>1
  <2>. QED
    BY <1>2, <2>1, FlattenBy, Zenon
<1>4. \A i \in 1 .. n + 1 : f[i] = PrefixAt(f, all, i)
  BY <1>1, <1>2, JoinsAre
<1>5. CASE n = 0
  <2>1. ss = <<>>
    BY <1>1, <1>5
  <2>2. f[n + 1] = x
    BY <1>1, <1>4, <1>5 DEF PrefixAt
  <2>. QED
    BY <1>3, <2>1, <2>2, FlattenEmpty, CatEmpty DEF all
<1>6. CASE n # 0
  <2> DEFINE g == [i \in 1 .. n |-> f[i]]
  <2>1. \A i \in 1 .. n : g[i] = PrefixAt(g, ss, i)
    <3>1. ASSUME NEW i \in 1 .. n
          PROVE  g[i] = PrefixAt(g, ss, i)
      <4>1. i \in 1 .. n + 1 /\ all[i] = ss[i] /\ g[i] = f[i]
        BY <1>1
      <4>2. i # 1 => i - 1 \in 1 .. n /\ g[i - 1] = f[i - 1]
        BY <1>1
      <4>3. f[i] = PrefixAt(f, all, i)
        BY <1>4, <4>1
      <4>. QED
        BY <4>1, <4>2, <4>3 DEF PrefixAt
    <3>. QED
      BY <3>1
  <2>2. g = [i \in 1 .. n |-> g[i]] /\ g[n] = f[n]
    BY <1>1, <1>6
  <2> HIDE DEF g
  <2>3. Joins(g, ss, n)
    <3>1. g = [i \in 1 .. n |-> PrefixAt(g, ss, i)]
      BY <2>1, <2>2
    <3>. QED
      BY <1>1, <3>1, JoinsAre
  <2>4. FlattenSeq(ss) = g[n]
    BY <1>1, <1>6, <2>3, FlattenBy, Zenon
  <2>5. n + 1 \in 1 .. n + 1 /\ n + 1 # 1 /\ (n + 1) - 1 = n
    BY <1>1, <1>6
  <2>6. f[n + 1] = Cat(f[n], x)
    BY <1>1, <1>4, <2>5 DEF PrefixAt
  <2>. QED
    BY <1>3, <2>2, <2>4, <2>6 DEF all
<1>. QED
  BY <1>5, <1>6

LEMMA FlattenHead ==
  ASSUME NEW T, NEW ss \in Seq(Seq(T)), ss # <<>>
  PROVE  /\ FlattenSeq(ss) = Cat(Head(ss), FlattenSeq(Tail(ss)))
         /\ Head(ss) \in Seq(T) /\ Tail(ss) \in Seq(Seq(T))
<1> DEFINE n == Len(ss)
           first == Head(ss)
           rest == Tail(ss)
           m == Len(rest)
<1>1. /\ n \in Nat /\ n # 0 /\ first \in Seq(T) /\ rest \in Seq(Seq(T))
      /\ m \in Nat /\ n = m + 1 /\ ss[1] = first
      /\ \A i \in 1 .. m : rest[i] = ss[i + 1]
      /\ ss \in [1 .. n -> Seq(T)]
      /\ n = Len(ss) /\ m = Len(rest)
  OBVIOUS
<1> HIDE DEF first, rest
<1>4. m = 0 => rest = <<>>
  BY <1>1
<1> HIDE DEF n, m
<1>5. n = Len(ss) /\ n # 0 /\ m = Len(rest) /\ rest \in Seq(Seq(T))
  BY <1>1
<1>2. CASE m = 0
  <2>1. PICK f : Joins(f, ss, n)
    BY <1>1, JoinsExist
  <2>2. FlattenSeq(ss) = f[n]
    BY <1>5, <2>1, FlattenBy, Zenon
  <2>3. f[n] = first
    BY <1>1, <1>2, <2>1, JoinsAre DEF PrefixAt
  <2>4. FlattenSeq(rest) = <<>>
    BY <1>2, <1>4, FlattenEmpty
  <2>. QED
    BY <1>1, <2>2, <2>3, <2>4, CatEmpty DEF first, rest
<1>3. CASE m # 0
  <2>1. PICK f : Joins(f, rest, m)
    BY <1>1, JoinsExist
  <2>2. \A i \in 1 .. m : f[i] = PrefixAt(f, rest, i)
    BY <1>1, <2>1, JoinsAre
  <2>3. \A i \in 1 .. m : f[i] \in Seq(T)
    <3>1. rest \in [1 .. m -> Seq(T)]
      BY <1>1
    <3>. QED
      BY <1>1, <2>1, <3>1, JoinsUnique
  <2> DEFINE g == [i \in 1 .. n |-> IF i = 1 THEN first ELSE Cat(first, f[i - 1])]
  <2>4. ASSUME NEW i \in 1 .. n
        PROVE  g[i] = PrefixAt(g, ss, i)
    <3>1. CASE i = 1
      BY <1>1, <3>1 DEF PrefixAt
    <3>2. CASE i = 2
      <4>1. 1 \in 1 .. m /\ 1 \in 1 .. n /\ 1 + 1 = 2 /\ 2 - 1 = 1 /\ 2 # 1
        BY <1>1, <1>3
      <4>2. f[1] = ss[2]
        BY <1>1, <2>2, <4>1 DEF PrefixAt
      <4>3. g[2] = Cat(first, f[1]) /\ g[1] = first
        BY <3>2, <4>1
      <4>. QED
        BY <3>2, <4>1, <4>2, <4>3 DEF PrefixAt
    <3>3. CASE i \notin {1, 2}
      <4> DEFINE j == i - 1
                 l == j - 1
      <4>1. /\ j \in 1 .. m /\ l \in 1 .. m /\ j \in 1 .. n /\ j # 1 /\ i # 1 /\ j + 1 = i
        BY <1>1, <3>3
      <4>2. g[i] = Cat(first, f[j]) /\ g[j] = Cat(first, f[l])
        BY <4>1
      <4>3. f[j] = Cat(f[l], ss[i])
        <5>1. f[j] = PrefixAt(f, rest, j) /\ rest[j] = ss[i]
          BY <1>1, <2>2, <4>1
        <5>. QED
          BY <4>1, <5>1 DEF PrefixAt
      <4>4. Cat(Cat(first, f[l]), ss[i]) = Cat(first, Cat(f[l], ss[i]))
        <5>1. f[l] \in Seq(T) /\ ss[i] \in Seq(T) /\ first \in Seq(T)
          BY <1>1, <2>3, <4>1
        <5>2. \A a, b, c \in Seq(T) : Cat(Cat(a, b), c) = Cat(a, Cat(b, c))
          BY CatAssociative
        <5>. QED
          BY <5>1, <5>2
      <4>5. PrefixAt(g, ss, i) = Cat(g[j], ss[i])
        BY <4>1 DEF PrefixAt
      <4> HIDE DEF g
      <4>. QED
        BY <4>2, <4>3, <4>4, <4>5
    <3>. QED
      BY <3>1, <3>2, <3>3
  <2>5. g = [i \in 1 .. n |-> g[i]] /\ g[n] = Cat(first, f[m])
    BY <1>1, <1>3
  <2> HIDE DEF g
  <2>6. g = [i \in 1 .. n |-> PrefixAt(g, ss, i)]
    BY <2>4, <2>5
  <2>7. Joins(g, ss, n)
    BY <1>1, <2>6, JoinsAre
  <2>8. FlattenSeq(ss) = g[n]
    BY <1>5, <2>7, FlattenBy, Zenon
  <2>9. FlattenSeq(rest) = f[m]
    BY <1>3, <1>5, <2>1, FlattenBy, Zenon
  <2>. QED
    BY <1>1, <2>5, <2>8, <2>9 DEF first, rest
<1>. QED
  BY <1>2, <1>3

-----------------------------------------------------------------------------
(* Fourth part: where the events come from.                                *)

(* The event of each slice that has one.                                   *)
Yield == [path \in Paths |-> [k \in DOMAIN grouped[path] |-> EventsOf(<<path, k>>)[1]]]

(* The events are those of the slices of all objects read, each once.      *)
Read(events) == \E place : Placement(place, events, Yield, Full)

(* What has been read and is not lost: taken from the channel or in it.    *)
Joined == Cat(allEvents, FlattenSeq(eventsCh))

Below == request.limit > 0 => Len(allEvents) < request.limit

Collected == stage \in {"files", "draining"} => Read(Joined) /\ Below

Limited ==
  stage = "drained" =>
    /\ request.limit > 0 /\ Len(allEvents) = request.limit
    /\ \E rest \in Seq(Events) : Read(Cat(allEvents, rest))

(* Some of the events of a set of slices, none twice.                      *)
Some(place, events) ==
  /\ place \in Injection(DOMAIN events, Full)
  /\ \A k \in DOMAIN events : events[k] = Yield[place[k][1]][place[k][2]]

Answered ==
  Replied =>
    /\ IsFiniteSet(Full)
    /\ reply.events \in Seq(Events)
    /\ Len(reply.events) = IF request.limit > 0 /\ request.limit < Cardinality(Full)
                           THEN request.limit ELSE Cardinality(Full)
    /\ \E place : Some(place, reply.events)

RInv == Collected /\ Limited /\ Answered

LEMMA YieldIs ==
  ASSUME NEW slice \in Full
  PROVE  /\ slice[1] \in Paths /\ file[slice[1]] = "read" /\ slice[2] \in DOMAIN grouped[slice[1]]
         /\ slice = <<slice[1], slice[2]>>
         /\ EventsOf(slice) = <<Yield[slice[1]][slice[2]]>>
<1>1. /\ slice[1] \in Paths /\ file[slice[1]] = "read" /\ slice[2] \in DOMAIN grouped[slice[1]]
      /\ slice = <<slice[1], slice[2]>> /\ EventsOf(slice) # <<>>
  BY DEF Full, Slices
<1>2. EventsOf(slice) = <<EventsOf(slice)[1]>>
  BY <1>1 DEF EventsOf, SliceEvents
<1>3. Yield[slice[1]][slice[2]] = EventsOf(<<slice[1], slice[2]>>)[1]
  BY <1>1 DEF Yield
<1>. QED
  BY <1>1, <1>2, <1>3

LEMMA FullIs ==
  ASSUME NEW path \in Paths, NEW k \in DOMAIN grouped[path]
  PROVE  <<path, k>> \in Full <=> file[path] = "read" /\ EventsOf(<<path, k>>) # <<>>
BY DEF Full, Slices

(* While the groups stay, so do the slices and what they yield.            *)
LEMMA YieldKept ==
  ASSUME UNCHANGED <<request, grouped>>
  PROVE  /\ Yield' = Yield /\ Paths' = Paths
         /\ \A slice : EventsOf(slice)' = EventsOf(slice)
<1>1. \A path : ObjectOf(path)' = ObjectOf(path)
  BY DEF ObjectOf
<1>2. \A segment, m : SliceEvents(segment, m)' = SliceEvents(segment, m)
  BY DEF SliceEvents, Wanted
<1>3. \A slice : EventsOf(slice)' = EventsOf(slice)
  BY <1>1, <1>2 DEF EventsOf
<1>4. Paths' = Paths
  BY DEF Paths
<1>. QED
  BY <1>3, <1>4 DEF Yield

LEMMA FullKept ==
  ASSUME UNCHANGED <<request, grouped>>,
         \A path \in Paths : file'[path] = "read" <=> file[path] = "read"
  PROVE  Full' = Full /\ Yield' = Yield
<1>1. Yield' = Yield /\ Paths' = Paths /\ \A slice : EventsOf(slice)' = EventsOf(slice)
  BY YieldKept
<1>2. Slices' = Slices
  BY <1>1 DEF Slices
<1>. QED
  BY <1>1, <1>2 DEF Full

LEMMA ReadKept ==
  ASSUME Full' = Full, Yield' = Yield, NEW events, Read(events)
  PROVE  \E place : Placement(place, events, Yield', Full')
BY DEF Read

(* One more object read.                                                   *)
LEMMA OneObject ==
  ASSUME SecondTyped, NEW path \in Paths, ObjectOf(path) \in DOMAIN Store,
         NEW A, A = {slice \in {path} \X DOMAIN grouped[path] : EventsOf(slice) # <<>>}
  PROVE  \E place : Placement(place, FileEvents(path), Yield, A)
<1> DEFINE ss == [k \in DOMAIN grouped[path] |->
                    SliceEvents(Store[ObjectOf(path)], grouped[path][k])]
           flat == FileEvents(path)
           B == {x \in DOMAIN ss : ss[x] # <<>>}
<1>1. PICK place : FromOptions(place, flat, ss)
  BY FileEventsAre
<1>2. place \in Bijection(DOMAIN flat, B) /\ \A k \in DOMAIN flat : ss[place[k]] = <<flat[k]>>
  BY <1>1 DEF FromOptions
<1>3. \A x \in DOMAIN grouped[path] : ss[x] = EventsOf(<<path, x>>)
  BY DEF EventsOf
<1>4. /\ \A x \in B : <<path, x>> \in A /\ Yield[path][x] = ss[x][1]
      /\ \A slice \in A : slice = <<path, slice[2]>> /\ slice[2] \in B
  BY <1>3 DEF Yield
<1> DEFINE q == [k \in DOMAIN flat |-> <<path, place[k]>>]
<1> HIDE DEF flat, ss, B
<1>5. /\ \A k \in DOMAIN flat : place[k] \in B
      /\ \A k, l \in DOMAIN flat : place[k] = place[l] => k = l
      /\ \A x \in B : \E k \in DOMAIN flat : place[k] = x
  BY <1>2, BijectionIs
<1>6. q \in Bijection(DOMAIN flat, A)
  <2>1. q \in [DOMAIN flat -> A]
    BY <1>4, <1>5
  <2>2. \A k, l \in DOMAIN flat : q[k] = q[l] => k = l
    BY <1>5
  <2>3. \A slice \in A : \E k \in DOMAIN flat : q[k] = slice
    BY <1>4, <1>5
  <2>. QED
    BY <2>1, <2>2, <2>3 DEF Bijection, Injection, Surjection, IsInjective
<1>7. ASSUME NEW k \in DOMAIN flat
      PROVE  flat[k] = Yield[q[k][1]][q[k][2]]
  <2>1. ss[place[k]] = <<flat[k]>>
    BY <1>2
  <2>2. Yield[path][place[k]] = ss[place[k]][1]
    BY <1>4, <1>5
  <2>3. Yield[path][place[k]] = flat[k]
    BY <2>1, <2>2
  <2>4. q[k][1] = path /\ q[k][2] = place[k]
    OBVIOUS
  <2>. QED
    BY <2>3, <2>4
<1> HIDE DEF q
<1>8. Placement(q, flat, Yield, A)
  BY <1>6, <1>7 DEF Placement
<1>. QED
  BY <1>8 DEF flat

LEMMA GetObjectOKRead ==
  ASSUME IInv, RInv, NEW path \in Paths, GetObjectOK(path)
  PROVE  RInv'
<1> DEFINE events == FileEvents(path)
           A == {slice \in {path} \X DOMAIN grouped[path] : EventsOf(slice) # <<>>}
<1>1. /\ stage = "files" /\ file[path] = "calling" /\ ObjectOf(path) \in DOMAIN Store
      /\ file' = [file EXCEPT ![path] = "read"]
      /\ eventsCh' = IF events = <<>> THEN eventsCh ELSE Append(eventsCh, events)
      /\ UNCHANGED <<request, stage, grouped, allEvents, reply>>
  BY DEF GetObjectOK, ObjectRead
<1>2. /\ SecondTyped /\ allEvents \in Seq(Events) /\ eventsCh \in Seq(Seq(Events))
      /\ file \in [Paths -> FileState] /\ ~Replied
  BY <1>1 DEF IInv, Typed, SecondTyped, Stages, Replied, NoReply
<1>3. events \in Seq(Events)
  BY <1>1, <1>2, FileEventsAre
<1> HIDE DEF events
<1>4. Joined' = Cat(Joined, events) /\ Joined \in Seq(Events)
  <2> DEFINE flat == FlattenSeq(eventsCh)
  <2>1. flat \in Seq(Events)
    BY <1>2, FlattenType
  <2>2. FlattenSeq(eventsCh') = Cat(flat, events)
    <3>1. CASE events = <<>>
      BY <1>1, <2>1, <3>1, CatEmpty
    <3>2. CASE events # <<>>
      BY <1>1, <1>2, <1>3, <3>2, FlattenAppend
    <3>. QED
      BY <3>1, <3>2
  <2> HIDE DEF flat
  <2>3. Cat(allEvents, Cat(flat, events)) = Cat(Cat(allEvents, flat), events)
    BY <1>2, <1>3, <2>1, CatAssociative
  <2>4. Cat(allEvents, flat) \in Seq(Events)
    BY <1>2, <2>1, CatAssociative
  <2>. QED
    BY <1>1, <2>2, <2>3, <2>4 DEF Joined, flat
<1>5. \E p : Placement(p, events, Yield, A)
  BY <1>1, <1>2, OneObject DEF events
<1>6. Yield' = Yield /\ Paths' = Paths /\ \A slice : EventsOf(slice)' = EventsOf(slice)
  BY <1>1, YieldKept
<1>7. Full' = Full \cup A /\ Full \cap A = {}
  <2>1. \A p \in Paths : file'[p] = IF p = path THEN "read" ELSE file[p]
    BY <1>1, <1>2
  <2>2. Slices' = Slices \cup ({path} \X DOMAIN grouped[path])
    BY <1>1, <1>6, <2>1 DEF Slices
  <2>3. Slices \cap ({path} \X DOMAIN grouped[path]) = {}
    BY <1>1 DEF Slices
  <2>. QED
    BY <1>6, <2>2, <2>3 DEF Full
<1>8. (\E place : Placement(place, Joined, Yield, Full)) /\ Below
  BY <1>1 DEF RInv, Collected, Read
<1> HIDE DEF A
<1>9. \E place : Placement(place, Cat(Joined, events), Yield, Full \cup A)
  BY <1>3, <1>4, <1>5, <1>7, <1>8, PlacementAfter
<1>10. Read(Joined)' /\ Below'
  BY <1>1, <1>4, <1>6, <1>7, <1>8, <1>9 DEF Read, Below
<1>11. ~Replied'
  BY <1>1, <1>2 DEF Replied
<1>. QED
  BY <1>1, <1>10, <1>11 DEF RInv, Collected, Limited, Answered

LEMMA CutIs ==
  ASSUME NEW T, NEW a \in Seq(T), NEW n \in Nat, n <= Len(a)
  PROVE  \E rest \in Seq(T) : a = Cat(SubSeq(a, 1, n), rest) /\ Len(SubSeq(a, 1, n)) = n
                              /\ SubSeq(a, 1, n) \in Seq(T)
<1> DEFINE rest == SubSeq(a, n + 1, Len(a))
<1>1. rest \in Seq(T) /\ SubSeq(a, 1, n) \in Seq(T) /\ Len(SubSeq(a, 1, n)) = n
  OBVIOUS
<1>2. a = SubSeq(a, 1, n) \o rest
  <2>1. 1 \in 1 .. Len(a) + 1 /\ n \in 1 - 1 .. Len(a) /\ Len(a) \in n .. Len(a)
    OBVIOUS
  <2>2. SubSeq(a, 1, n) \o SubSeq(a, n + 1, Len(a)) = SubSeq(a, 1, Len(a))
    BY <2>1, ConcatAdjacentSubSeq, Zenon
  <2>3. SubSeq(a, 1, Len(a)) = a
    BY SubSeqFull, Zenon
  <2>. QED
    BY <2>2, <2>3, Zenon
<1> HIDE DEF rest
<1>. QED
  BY <1>1, <1>2 DEF Cat

LEMMA DrainRead == ASSUME IInv, RInv, Drain PROVE RInv'
<1> DEFINE flat == FlattenSeq(eventsCh')
           events == Cat(allEvents, Head(eventsCh))
           full == request.limit > 0 /\ Len(events) >= request.limit
<1>1. /\ stage = "draining" /\ eventsCh # <<>> /\ eventsCh' = Tail(eventsCh)
      /\ allEvents' = IF full THEN SubSeq(events, 1, request.limit) ELSE events
      /\ stage' = IF full THEN "drained" ELSE stage
      /\ UNCHANGED <<request, grouped, file, reply>>
  BY DEF Drain, Cat
<1>2. /\ allEvents \in Seq(Events) /\ eventsCh \in Seq(Seq(Events)) /\ ~Replied
      /\ request.limit \in Nat
  BY <1>1, RequestIs DEF IInv, Typed, FirstTyped, SecondTyped, Stages, Replied, NoReply
<1>3. /\ Head(eventsCh) \in Seq(Events) /\ flat \in Seq(Events)
      /\ FlattenSeq(eventsCh) = Cat(Head(eventsCh), flat)
  BY <1>1, <1>2, FlattenHead, FlattenType
<1>4. events \in Seq(Events) /\ Joined = Cat(events, flat)
  BY <1>2, <1>3, CatAssociative DEF Joined
<1>5. Full' = Full /\ Yield' = Yield
  BY <1>1, FullKept
<1>6. Read(Joined)
  BY <1>1 DEF RInv, Collected
<1>7. \E place : Placement(place, Cat(events, flat), Yield', Full')
  BY <1>4, <1>5, <1>6 DEF Read
<1>8. ~Replied'
  BY <1>1, <1>2 DEF Replied
<1> HIDE DEF flat, events
<1>9. CASE full
  <2>1. stage' = "drained" /\ allEvents' = SubSeq(events, 1, request.limit)
    BY <1>1, <1>9
  <2>2. PICK rest \in Seq(Events) :
           /\ events = Cat(allEvents', rest)
           /\ Len(allEvents') = request.limit /\ allEvents' \in Seq(Events)
    <3>1. request.limit \in Nat /\ request.limit <= Len(events) /\ events \in Seq(Events)
      BY <1>2, <1>4, <1>9
    <3>. QED
      BY <2>1, <3>1, CutIs, Zenon
  <2>3. Cat(events, flat) = Cat(allEvents', Cat(rest, flat)) /\ Cat(rest, flat) \in Seq(Events)
    BY <1>3, <2>2, CatAssociative
  <2>4. \E place : Placement(place, Cat(allEvents', Cat(rest, flat)), Yield', Full')
    BY <1>7, <2>3
  <2>5. \E r \in Seq(Events) : Read(Cat(allEvents, r))'
    BY <2>3, <2>4 DEF Read
  <2>. QED
    BY <1>1, <1>8, <1>9, <2>1, <2>2, <2>5 DEF RInv, Collected, Limited, Answered
<1>10. CASE ~full
  <2>1. stage' = "draining" /\ allEvents' = events
    BY <1>1, <1>10
  <2>2. Joined' = Cat(events, flat)
    BY <2>1 DEF Joined, flat
  <2>3. Read(Joined)'
    BY <1>7, <2>2 DEF Read
  <2>4. Below'
    BY <1>1, <1>2, <1>4, <1>10, <2>1 DEF Below
  <2>. QED
    BY <1>8, <2>1, <2>3, <2>4 DEF RInv, Collected, Limited, Answered
<1>. QED
  BY <1>9, <1>10

LEMMA NothingRead == (\A path \in Paths : file[path] # "read") => Full = {}
BY DEF Full, Slices

LEMMA ReadNothing == Full = {} => Read(<<>>)
<1>1. Placement(<<>>, <<>>, Yield, {})
  BY DEF Placement, Bijection, Injection, Surjection, IsInjective
<1>. QED
  BY <1>1 DEF Read

LEMMA GatherRead == ASSUME IInv, MInv, Gather PROVE RInv'
<1>1. PICK metas : GatheredFrom(metas)
  BY GatherIs
<1>2. /\ stage = "metadata" /\ UNCHANGED <<request, eventsCh, allEvents>>
  BY DEF Gather
<1>3. /\ Paths' = DOMAIN Group(metas) /\ file' = [path \in Paths' |-> "idle"]
  BY <1>1 DEF GatheredFrom, Paths
<1>4. Full' = {}
  <2>1. \A path \in Paths' : file'[path] # "read"
    BY <1>3
  <2>2. ((\A path \in Paths : file[path] # "read") => Full = {})'
    BY NothingRead, PTL
  <2>. QED
    BY <2>1, <2>2
<1>5. Read(<<>>)'
  <2>1. (Full = {} => Read(<<>>))'
    BY ReadNothing, PTL
  <2>. QED
    BY <1>4, <2>1
<1>6. /\ eventsCh' = <<>> /\ allEvents' = <<>> /\ ~Replied /\ request.limit \in Nat
  BY <1>2, RequestIs DEF IInv, Typed, FirstTyped, Stages, Before, Replied, NoReply
<1>7. Joined' = <<>> /\ Below'
  BY <1>2, <1>6, FlattenEmpty DEF Joined, Cat, Below
<1>8. CASE metas = <<>>
  <2>1. stage' = "done" /\ reply'.events = <<>>
    BY <1>1, <1>8 DEF GatheredFrom
  <2>2. Some(<<>>, <<>>)'
    BY DEF Some, Injection, IsInjective
  <2>3. Answered'
    BY <1>2, <1>4, <1>6, <2>1, <2>2, FS_EmptySet DEF Answered
  <2>. QED
    BY <2>1, <2>3 DEF RInv, Collected, Limited
<1>9. CASE metas # <<>>
  <2>1. stage' = "files" /\ reply' = reply
    BY <1>1, <1>9 DEF GatheredFrom
  <2>2. ~Replied'
    BY <1>6, <2>1 DEF Replied
  <2>3. Read(Joined)'
    BY <1>5, <1>7
  <2>. QED
    BY <1>7, <2>1, <2>2, <2>3 DEF RInv, Collected, Limited, Answered
<1>. QED
  BY <1>8, <1>9

(* The first events of a list, in any order.                               *)
LEMMA FirstPlaces ==
  ASSUME NEW T, NEW a \in Seq(T), NEW b \in Seq(T), NEW ss, NEW A,
         NEW p, Placement(p, Cat(a, b), ss, A),
         NEW order \in Bijection(DOMAIN a, DOMAIN a), NEW sorted,
         sorted = [k \in DOMAIN a |-> a[order[k]]]
  PROVE  \E q : /\ q \in Injection(DOMAIN sorted, A)
                /\ \A k \in DOMAIN sorted : sorted[k] = ss[q[k][1]][q[k][2]]
<1> DEFINE D == DOMAIN a
           E == DOMAIN Cat(a, b)
           q == [k \in D |-> p[order[k]]]
<1>1. D \subseteq E /\ \A k \in D : Cat(a, b)[k] = a[k]
  BY DEF Cat
<1>2. DOMAIN sorted = D /\ \A k \in D : sorted[k] = a[order[k]]
  OBVIOUS
<1>3. order \in Bijection(D, D)
  OBVIOUS
<1>4. p \in Bijection(E, A) /\ \A k \in E : Cat(a, b)[k] = ss[p[k][1]][p[k][2]]
  BY DEF Placement
<1> HIDE DEF D, E
<1>5. /\ \A k \in D : order[k] \in D
      /\ \A k, l \in D : order[k] = order[l] => k = l
  BY <1>3, BijectionIs
<1>6. /\ \A k \in E : p[k] \in A
      /\ \A k, l \in E : p[k] = p[l] => k = l
  BY <1>4, BijectionIs
<1>7. q \in Injection(D, A)
  <2>1. q \in [D -> A]
    BY <1>1, <1>5, <1>6
  <2>2. \A k, l \in D : q[k] = q[l] => k = l
    BY <1>1, <1>5, <1>6
  <2>. QED
    BY <2>1, <2>2 DEF Injection, IsInjective
<1>8. ASSUME NEW k \in D
      PROVE  sorted[k] = ss[q[k][1]][q[k][2]]
  <2>1. order[k] \in D /\ order[k] \in E /\ q[k] = p[order[k]]
    BY <1>1, <1>5
  <2>2. sorted[k] = Cat(a, b)[order[k]]
    BY <1>1, <1>2, <2>1
  <2>. QED
    BY <1>4, <2>1, <2>2
<1> HIDE DEF q
<1>. QED
  BY <1>2, <1>7, <1>8

LEMMA ReadIsFinite ==
  ASSUME NEW events \in Seq(Events), Read(events)
  PROVE  IsFiniteSet(Full) /\ Cardinality(Full) = Len(events) /\ Len(events) \in Nat
<1> DEFINE D == DOMAIN events
           n == Len(events)
<1>1. PICK p : p \in Bijection(D, Full)
  BY DEF Read, Placement
<1>2. n \in Nat /\ D = 1 .. n
  OBVIOUS
<1> HIDE DEF D, n
<1>3. IsFiniteSet(1 .. n) /\ Cardinality(1 .. n) = n
  BY <1>2, FS_Interval
<1>4. IsFiniteSet(D) /\ Cardinality(D) = n
  BY <1>2, <1>3
<1>5. ExistsBijection(D, Full) /\ p \in Surjection(D, Full)
  BY <1>1 DEF ExistsBijection, Bijection
<1>6. Cardinality(Full) = n
  BY <1>4, <1>5, FS_Bijection
<1>7. IsFiniteSet(Full)
  BY <1>4, <1>5, FS_Surjection
<1>. QED
  BY <1>2, <1>6, <1>7 DEF n

LEMMA RespondRead == ASSUME IInv, RInv, Respond PROVE RInv'
<1>1. PICK order : RespondedWith(order)
  BY RespondIs
<1>2. /\ Drained /\ stage' = "done"
      /\ UNCHANGED <<request, grouped, file>>
  BY DEF Respond, secondWave
<1>3. Full' = Full /\ Yield' = Yield
  BY <1>2, FullKept
<1>4. allEvents \in Seq(Events) /\ request.limit \in Nat
  BY RequestIs DEF IInv, Typed, FirstTyped, SecondTyped
<1> DEFINE sorted == [k \in DOMAIN allEvents |-> allEvents[order[k]]]
           n == Len(allEvents)
<1>5. order \in Bijection(DOMAIN allEvents, DOMAIN allEvents) /\ reply'.events = sorted
  BY <1>1 DEF RespondedWith
<1>6. sorted \in Seq(Events) /\ Len(sorted) = n /\ n \in Nat
  <2>1. DOMAIN allEvents = 1 .. n /\ n \in Nat /\ \A k \in 1 .. n : allEvents[k] \in Events
    BY <1>4
  <2>2. \A k \in 1 .. n : order[k] \in 1 .. n
    BY <1>5, <2>1, BijectionIs
  <2>3. sorted \in [1 .. n -> Events]
    BY <2>1, <2>2
  <2>. QED
    BY <2>1, <2>3
<1> HIDE DEF sorted, n
<1>7. \E rest \in Seq(Events) :
        /\ Read(Cat(allEvents, rest))
        /\ \/ rest = <<>> /\ (request.limit > 0 => n < request.limit)
           \/ request.limit > 0 /\ n = request.limit
  <2>1. CASE stage = "drained"
    BY <2>1 DEF RInv, Limited, n
  <2>2. CASE stage = "draining"
    <3>1. eventsCh = <<>>
      BY <1>2, <2>2 DEF Drained
    <3>2. Joined = Cat(allEvents, <<>>) /\ <<>> \in Seq(Events)
      BY <3>1, FlattenEmpty DEF Joined
    <3>3. Read(Joined) /\ Below
      BY <2>2 DEF RInv, Collected
    <3>. QED
      BY <3>2, <3>3 DEF Below, n
  <2>. QED
    BY <1>2, <2>1, <2>2 DEF Drained
<1>8. PICK rest \in Seq(Events) :
        /\ Read(Cat(allEvents, rest))
        /\ \/ rest = <<>> /\ (request.limit > 0 => n < request.limit)
           \/ request.limit > 0 /\ n = request.limit
  BY <1>7
<1>9. /\ Cat(allEvents, rest) \in Seq(Events)
      /\ Len(Cat(allEvents, rest)) >= n
      /\ rest = <<>> => Len(Cat(allEvents, rest)) = n
  BY <1>4 DEF Cat, n
<1>10. IsFiniteSet(Full) /\ Cardinality(Full) = Len(Cat(allEvents, rest))
       /\ Cardinality(Full) \in Nat
  BY <1>8, <1>9, ReadIsFinite
<1>11. n = IF request.limit > 0 /\ request.limit < Cardinality(Full)
           THEN request.limit ELSE Cardinality(Full)
  BY <1>4, <1>6, <1>8, <1>9, <1>10
<1>12. PICK p : Placement(p, Cat(allEvents, rest), Yield, Full)
  BY <1>8 DEF Read
<1>13. \E q : /\ q \in Injection(DOMAIN sorted, Full)
              /\ \A k \in DOMAIN sorted : sorted[k] = Yield[q[k][1]][q[k][2]]
  BY <1>4, <1>5, <1>12, FirstPlaces DEF sorted
<1>14. \E q : Some(q, reply.events)'
  BY <1>3, <1>5, <1>13 DEF Some
<1>15. Answered'
  BY <1>2, <1>3, <1>5, <1>6, <1>10, <1>11, <1>14 DEF Answered
<1>. QED
  BY <1>2, <1>15 DEF RInv, Collected, Limited

(* A step that leaves the groups and the events alone.                     *)
LEMMA RestRead ==
  ASSUME RInv, UNCHANGED <<request, grouped, eventsCh, allEvents, reply>>,
         \A path \in Paths : file'[path] = "read" <=> file[path] = "read",
         stage' = stage \/ stage' \notin {"files", "draining", "drained"}
           \/ (stage = "files" /\ stage' = "draining")
  PROVE  RInv'
<1>1. Full' = Full /\ Yield' = Yield
  BY FullKept
<1>2. Joined' = Joined /\ (Below <=> Below')
  BY DEF Joined, Below
<1>3. Read(Joined) => Read(Joined)'
  BY <1>1, <1>2 DEF Read
<1>4. \A rest : Read(Cat(allEvents, rest)) => Read(Cat(allEvents, rest))'
  BY <1>1 DEF Read
<1>5. \A place : Some(place, reply.events) => Some(place, reply.events)'
  BY <1>1 DEF Some
<1>6. Collected'
  BY <1>2, <1>3 DEF RInv, Collected
<1>7. Limited'
  BY <1>4 DEF RInv, Limited
<1>8. Answered'
  BY <1>1, <1>5 DEF RInv, Answered, Replied
<1>. QED
  BY <1>6, <1>7, <1>8 DEF RInv

LEMMA NextRead == IInv /\ MInv /\ RInv /\ [Next]_vars => RInv'
<1> SUFFICES ASSUME IInv, MInv, RInv, [Next]_vars PROVE RInv'
  OBVIOUS
<1>1. ASSUME Reject \/ Accept PROVE RInv'
  <2>1. CASE Accept
    <3>1. /\ UNCHANGED <<request, grouped, file, eventsCh, allEvents, reply>>
          /\ stage' = "metadata"
      BY <2>1 DEF Accept, secondWave
    <3>. QED
      BY <3>1, RestRead
  <2>2. CASE Reject
    <3>1. /\ stage' = "done"
          /\ reply' \in {[status |-> "method not allowed"], [status |-> "bad request"]}
      BY <2>2 DEF Reject
    <3>2. ~Replied'
      <4>1. CASE reply' = [status |-> "method not allowed"]
        BY <4>1 DEF Replied
      <4>2. CASE reply' = [status |-> "bad request"]
        BY <4>2 DEF Replied
      <4>. QED
        BY <3>1, <4>1, <4>2
    <3>. QED
      BY <3>1, <3>2 DEF RInv, Collected, Limited, Answered
  <2>. QED
    BY <1>1, <2>1, <2>2
<1>2. ASSUME LaunchQuery \/ (\E i \in Positions : Query(i)) PROVE RInv'
  <2>1. UNCHANGED <<request, grouped, file, eventsCh, allEvents, stage, reply>>
    BY <1>2 DEF LaunchQuery, Query, QueryShardOK, QueryShardErr, secondWave
  <2>. QED
    BY <2>1, RestRead
<1>3. ASSUME CloseEvents PROVE RInv'
  <2>1. /\ UNCHANGED <<request, grouped, file, eventsCh, allEvents, reply>>
        /\ stage = "files" /\ stage' = "draining"
    BY <1>3 DEF CloseEvents, secondWave
  <2>. QED
    BY <2>1, RestRead
<1>4. ASSUME NEW path \in Paths, LaunchFetch(path) \/ GetObjectErr(path) PROVE RInv'
  <2>1. PICK x \in {"doomed", "calling", "failed"} :
          /\ UNCHANGED <<request, grouped, eventsCh, allEvents, reply, stage>>
          /\ file[path] \in {"idle", "calling", "doomed"}
          /\ file' = [file EXCEPT ![path] = x]
    BY <1>4 DEF LaunchFetch, GetObjectErr
  <2>2. file \in [Paths -> FileState]
    BY DEF IInv, Typed, SecondTyped
  <2>3. \A p \in Paths : file'[p] = "read" <=> file[p] = "read"
    BY <2>1, <2>2
  <2>. QED
    BY <2>1, <2>3, RestRead
<1>5. ASSUME NEW path \in Paths, GetObjectPanics(path) PROVE RInv'
  <2>1. /\ UNCHANGED <<request, grouped, file, eventsCh, allEvents, reply>>
        /\ stage' = "crashed"
    BY <1>5 DEF GetObjectPanics, secondWave
  <2>. QED
    BY <2>1, RestRead
<1>6. ASSUME Expire \/ Finished \/ UNCHANGED vars PROVE RInv'
  <2>1. UNCHANGED <<request, grouped, file, eventsCh, allEvents, reply, stage>>
    BY <1>6 DEF Expire, Finished, vars, secondWave
  <2>. QED
    BY <2>1, RestRead
<1>. QED
  BY <1>1, <1>2, <1>3, <1>4, <1>5, <1>6, GatherRead, DrainRead, RespondRead, GetObjectOKRead
     DEF Next, Caller, Fetch

LEMMA RespondedRight == RInv => ResponseHoldsWhatWasRead
<1> SUFFICES ASSUME RInv, Replied
             PROVE  /\ Len(reply.events) =
                         IF request.limit > 0 /\ request.limit < Cardinality(Full)
                         THEN request.limit ELSE Cardinality(Full)
                    /\ \A k \in DOMAIN reply.events :
                         Cardinality({l \in DOMAIN reply.events : reply.events[l] = reply.events[k]})
                           <= Cardinality({slice \in Full : EventsOf(slice) = <<reply.events[k]>>})
  BY DEF ResponseHoldsWhatWasRead, Replied
<1>1. PICK place : Some(place, reply.events)
  BY DEF RInv, Answered
<1>2. IsFiniteSet(Full)
  BY DEF RInv, Answered
<1>3. ASSUME NEW k \in DOMAIN reply.events
      PROVE  Cardinality({l \in DOMAIN reply.events : reply.events[l] = reply.events[k]})
               <= Cardinality({slice \in Full : EventsOf(slice) = <<reply.events[k]>>})
  <2> DEFINE L == {l \in DOMAIN reply.events : reply.events[l] = reply.events[k]}
             S == {slice \in Full : EventsOf(slice) = <<reply.events[k]>>}
             f == [l \in L |-> place[l]]
  <2>1. /\ \A l \in L : place[l] \in Full
        /\ \A l, m \in L : place[l] = place[m] => l = m
    BY <1>1 DEF Some, Injection, IsInjective
  <2>2. \A l \in L : EventsOf(place[l]) = <<reply.events[k]>>
    <3>1. ASSUME NEW l \in L PROVE EventsOf(place[l]) = <<reply.events[k]>>
      <4>1. EventsOf(place[l]) = <<Yield[place[l][1]][place[l][2]]>>
        BY <2>1, YieldIs
      <4>2. Yield[place[l][1]][place[l][2]] = reply.events[l] /\ reply.events[l] = reply.events[k]
        BY <1>1 DEF Some
      <4>. QED
        BY <4>1, <4>2
    <3>. QED
      BY <3>1
  <2>3. \A l \in L : place[l] \in S
    BY <2>1, <2>2
  <2>4. IsFiniteSet(S)
    BY <1>2, FS_Subset
  <2> HIDE DEF L, S
  <2>5. f \in Injection(L, S)
    BY <2>1, <2>3 DEF Injection, IsInjective
  <2> HIDE DEF f
  <2>6. Cardinality(L) <= Cardinality(S)
    BY <2>4, <2>5, FS_Injection
  <2>. QED
    BY <2>6 DEF L, S
<1>. QED
  BY <1>3 DEF RInv, Answered

LEMMA InitRead == Init => RInv
BY DEF Init, RInv, Collected, Limited, Answered, Replied, NoReply

LEMMA AllRead == Spec => []RInv
BY InitRead, NextRead, Invariant, PTL DEF Spec

(* The response of fetchEventsFromS3 holds what was read: the event of     *)
(* each slice that yields one, none lost between the goroutines, the       *)
(* channel and the sort, and none twice; with a limit, as many as it says. *)
THEOREM ServiceAnswersWhatItRead == Spec => []ResponseHoldsWhatWasRead
BY AllRead, RespondedRight, PTL

-----------------------------------------------------------------------------
(* Which object a group is read from.                                      *)

(* Metadata of one path are metadata of one object: the index-builder's    *)
(* buckets have no slash, so that the first one in a path ends the bucket. *)
LEMMA OnePathOneObject ==
  ASSUME NEW d \in Entries, NEW e \in Entries, MetaOf(d).ok, MetaOf(e).ok,
         GroupPath(MetaOf(d)) = GroupPath(MetaOf(e))
  PROVE  MetaOf(d).bucket = MetaOf(e).bucket /\ MetaOf(d).key = MetaOf(e).key
<1> DEFINE T == Range(d.s3_path) \cup Range(e.s3_path)
           a == MetaOf(d).bucket
           b == MetaOf(d).key
           c == MetaOf(e).bucket
           f == MetaOf(e).key
<1>1. a \in Seq(Range(d.s3_path)) /\ b \in Seq(Range(d.s3_path))
  BY PathsAssumption, LocatedOldIsAForm DEF MetaOf
<1>2. c \in Seq(Range(e.s3_path)) /\ f \in Seq(Range(e.s3_path))
  BY PathsAssumption, LocatedOldIsAForm DEF MetaOf
<1>3. ~Has(a, "slash") /\ ~Has(c, "slash")
  BY PathsAssumption
<1>4. Range(d.s3_path) \subseteq T /\ Range(e.s3_path) \subseteq T
  OBVIOUS
<1>5. a \o <<Slash>> \o b = c \o <<Slash>> \o f
  BY DEF GroupPath
<1> HIDE DEF T, a, b, c, f
<1>6. a \in Seq(T) /\ b \in Seq(T) /\ c \in Seq(T) /\ f \in Seq(T)
  BY <1>1, <1>2, <1>4, SeqMonotonic
<1>7. a = c /\ b = f
  BY <1>3, <1>5, <1>6, OneBucketOneKey
<1>. QED
  BY <1>7 DEF a, b, c, f

(* All metadata of a group name the object that the group is read from.    *)
LEMMA GroupNamesObject ==
  ASSUME IInv, MInv, Gathered, NEW path \in Paths, NEW k \in DOMAIN grouped[path]
  PROVE  ObjectOf(path) = <<grouped[path][k].bucket, grouped[path][k].key>>
<1>1. 1 \in DOMAIN grouped[path]
  BY DEF IInv, Typed, SecondTyped
<1> DEFINE OfEntry(x) == \E e \in Entries : MetaOf(e).ok /\ grouped[path][x] = MetaOf(e)
<1>2. ASSUME NEW x \in DOMAIN grouped[path]
      PROVE  GroupPath(grouped[path][x]) = path /\ OfEntry(x)
  <2>1. /\ GroupPath(grouped[path][x]) = path
        /\ \E i \in Positions : \E j \in DOMAIN answer[i] :
             /\ MetaOf(answer[i][j]).ok
             /\ grouped[path][x] = MetaOf(answer[i][j])
    BY GroupedAnswer
  <2>2. \A i \in Positions : \A j \in DOMAIN answer[i] : answer[i][j] \in Entries
    BY DEF IInv, Typed, FirstTyped
  <2>. QED
    BY <2>1, <2>2
<1>3. PICK d \in Entries : MetaOf(d).ok /\ grouped[path][1] = MetaOf(d)
  BY <1>1, <1>2
<1>4. PICK e \in Entries : MetaOf(e).ok /\ grouped[path][k] = MetaOf(e)
  BY <1>2
<1>5. GroupPath(MetaOf(d)) = path /\ GroupPath(MetaOf(e)) = path
  BY <1>1, <1>2, <1>3, <1>4
<1>6. MetaOf(d).bucket = MetaOf(e).bucket /\ MetaOf(d).key = MetaOf(e).key
  BY <1>3, <1>4, <1>5, OnePathOneObject
<1>. QED
  BY <1>3, <1>4, <1>6 DEF ObjectOf

(* Fifth part of the invariant: what has been read is there.               *)
OInv == \A path \in Paths : file[path] = "read" => ObjectOf(path) \in DOMAIN Store

LEMMA InitObjects == Init => OInv
BY DEF Init, OInv, Paths

LEMMA ObjectsKept ==
  ASSUME OInv, grouped' = grouped, \A path \in Paths : file'[path] = "read" => file[path] = "read"
  PROVE  OInv'
BY DEF OInv, Paths, ObjectOf

LEMMA NextObjects == IInv /\ MInv /\ OInv /\ [Next]_vars => OInv'
<1> SUFFICES ASSUME IInv, MInv, OInv, [Next]_vars PROVE OInv'
  OBVIOUS
<1>1. ASSUME UNCHANGED <<grouped, file>> PROVE OInv'
  BY <1>1, ObjectsKept
<1>2. ASSUME NEW path \in Paths, NEW x \in FileState,
             grouped' = grouped, file' = [file EXCEPT ![path] = x],
             x = "read" => ObjectOf(path) \in DOMAIN Store
      PROVE  OInv'
  <2>1. file \in [Paths -> FileState]
    BY DEF IInv, Typed, SecondTyped
  <2>2. \A p \in Paths : file'[p] = IF p = path THEN x ELSE file[p]
    BY <1>2, <2>1
  <2>3. Paths' = Paths /\ \A p : ObjectOf(p)' = ObjectOf(p)
    BY <1>2 DEF Paths, ObjectOf
  <2>. QED
    BY <1>2, <2>2, <2>3 DEF OInv
<1>3. ASSUME Gather PROVE OInv'
  <2>1. PICK metas : GatheredFrom(metas)
    BY <1>3, GatherIs
  <2>2. file' = [path \in DOMAIN Group(metas) |-> "idle"] /\ Paths' = DOMAIN Group(metas)
    BY <2>1 DEF GatheredFrom, Paths
  <2>. QED
    BY <2>2 DEF OInv
<1>4. ASSUME NEW path \in Paths, Fetch(path) PROVE OInv'
  <2>1. CASE GetObjectPanics(path)
    BY <1>1, <2>1 DEF GetObjectPanics, secondWave
  <2>2. CASE GetObjectOK(path)
    BY <1>2, <2>2 DEF GetObjectOK, ObjectRead, FileState
  <2>3. CASE GetObjectErr(path)
    BY <1>2, <2>3 DEF GetObjectErr, FileState
  <2>4. CASE LaunchFetch(path)
    BY <1>2, <2>4 DEF LaunchFetch, FileState
  <2>. QED
    BY <1>4, <2>1, <2>2, <2>3, <2>4 DEF Fetch
<1>5. CASE Caller
  <2>1. CASE Reject \/ Accept \/ LaunchQuery \/ CloseEvents \/ Drain \/ Respond
    BY <1>1, <2>1 DEF Reject, Accept, LaunchQuery, CloseEvents, Drain, Respond, secondWave
  <2>. QED
    BY <1>3, <1>5, <2>1 DEF Caller
<1>6. ASSUME NEW i \in Positions, Query(i) PROVE OInv'
  BY <1>1, <1>6 DEF Query, QueryShardOK, QueryShardErr, secondWave
<1>7. CASE Expire \/ Finished \/ UNCHANGED vars
  BY <1>1, <1>7 DEF Expire, Finished, vars, secondWave
<1>. QED
  BY <1>4, <1>5, <1>6, <1>7 DEF Next

LEMMA AllObjects == Spec => []OInv
BY InitObjects, NextObjects, Invariant, PTL DEF Spec

-----------------------------------------------------------------------------
(* Every event is a line of the named object.                              *)
LEMMA SliceHasLine ==
  ASSUME NEW segment, NEW m, NEW event, SliceEvents(segment, m) = <<event>>
  PROVE  \E line \in Sliced(segment, m.start, m.end) : Wanted(line) /\ event = ServiceEvent(line)
<1> DEFINE lines == {line \in Sliced(segment, m.start, m.end) : Wanted(line)}
           line == CHOOSE line \in lines : TRUE
<1>1. lines # {}
  BY DEF SliceEvents
<1>2. line \in lines
  BY <1>1
<1>3. SliceEvents(segment, m) = <<ServiceEvent(line)>>
  BY <1>1 DEF SliceEvents
<1> HIDE DEF line
<1>4. event = ServiceEvent(line)
  BY <1>3
<1>. QED
  BY <1>2, <1>4

LEMMA EntryNamesObject ==
  ASSUME NEW e \in Entries, MetaOf(e).ok
  PROVE  NamesObject(e, MetaOf(e).bucket, MetaOf(e).key)
<1> DEFINE place == MetaOf(e)
<1>1. place = ParseS3Path(e.s3_path, e.start_byte, e.end_byte) /\ place.ok /\ Lexed(e.s3_path)
  BY PathsAssumption DEF MetaOf
<1> HIDE DEF place
<1>2. \/ e.s3_path = NodeForm(place.bucket, place.key)
      \/ e.s3_path = UriForm(place.bucket, place.key)
  BY <1>1, LocatedOldIsAForm
<1>. QED
  BY <1>2, Zenon DEF NodeForm, UriForm, NamesObject, place

LEMMA EventsAreNamed == IInv /\ MInv /\ RInv /\ OInv => FoundInTheNamedBucket
<1> SUFFICES ASSUME IInv, MInv, RInv, OInv, Replied, NEW k \in DOMAIN reply.events
             PROVE  \E i \in Positions : \E e \in Range(answer[i]) : \E place \in DOMAIN Store :
                      \E line \in Sliced(Store[place], e.start_byte, e.end_byte) :
                        /\ NamesObject(e, place[1], place[2])
                        /\ Wanted(line)
                        /\ reply.events[k] = ServiceEvent(line)
  BY DEF FoundInTheNamedBucket, Replied
<1>1. PICK p : Some(p, reply.events)
  BY DEF RInv, Answered
<1> DEFINE slice == p[k]
           path == slice[1]
           x == slice[2]
           m == grouped[path][x]
           place == ObjectOf(path)
<1>2. slice \in Full /\ reply.events[k] = Yield[path][x]
  BY <1>1 DEF Some, Injection
<1> HIDE DEF slice
<1>3. /\ path \in Paths /\ file[path] = "read" /\ x \in DOMAIN grouped[path]
      /\ EventsOf(slice) = <<Yield[path][x]>>
  BY <1>2, YieldIs
<1>4. SliceEvents(Store[place], m) = <<reply.events[k]>>
  BY <1>2, <1>3 DEF EventsOf
<1>5. PICK line \in Sliced(Store[place], m.start, m.end) :
        Wanted(line) /\ reply.events[k] = ServiceEvent(line)
  BY <1>4, SliceHasLine
<1>6. place \in DOMAIN Store
  BY <1>3 DEF OInv
<1>7. place = <<m.bucket, m.key>>
  BY <1>3, GroupNamesObject DEF Gathered
<1>8. PICK i \in Positions : \E j \in DOMAIN answer[i] : MetaOf(answer[i][j]).ok /\ m = MetaOf(answer[i][j])
  BY <1>3, GroupedAnswer DEF Gathered
<1>9. PICK j \in DOMAIN answer[i] : MetaOf(answer[i][j]).ok /\ m = MetaOf(answer[i][j])
  BY <1>8
<1> DEFINE e == answer[i][j]
<1>10. e \in Entries /\ e \in Range(answer[i])
  BY <1>8, <1>9 DEF IInv, Typed, FirstTyped, Range
<1>11. m.start = e.start_byte /\ m.end = e.end_byte
  BY <1>9, <1>10, MetadataAre DEF Located, Unresolved
<1>12. place[1] = m.bucket /\ place[2] = m.key
  BY <1>7
<1> HIDE DEF e, m, place
<1>13. m = MetaOf(e) /\ MetaOf(e).ok
  BY <1>9 DEF e
<1>14. NamesObject(e, place[1], place[2])
  BY <1>10, <1>12, <1>13, EntryNamesObject
<1>. QED
  BY <1>5, <1>6, <1>10, <1>11, <1>14

(* An event of a response is a line that lies in the range an answer names *)
(* of the object it names: grouping the metadata of many reference ids by  *)
(* "bucket/key" never mixes two objects (groupMetadataByS3Path, and the    *)
(* first metadata of a group standing for all in fetchEventsFromS3File).   *)
THEOREM ServiceReadsTheNamedObject == Spec => []FoundInTheNamedBucket
BY Invariant, AllRead, AllObjects, EventsAreNamed, PTL

-----------------------------------------------------------------------------
(* What is lost was counted.                                               *)

(* The range of a JSON line, with or without its newline, slices that line *)
(* and no other.                                                           *)
LEMMA LineIsSliced ==
  ASSUME NEW segment, IsSegment(segment), NEW line \in segment, line.json,
         NEW end \in {line.to - 1, line.to}
  PROVE  Sliced(segment, line.from, end) = {line}
<1> DEFINE size == Size(segment)
<1>1. /\ line.from \in Nat /\ line.to \in Nat /\ end \in Int
      /\ line.from + 2 < line.to
  BY DEF IsSegment
<1>2. size \in Nat /\ line.to <= size
  BY SizeHoldsLines
<1>3. ~(line.from >= size)
  BY <1>1, <1>2
<1>4. Clip(end, segment) = end
  <2>1. ~(end > size)
    BY <1>1, <1>2
  <2>. QED
    BY <2>1 DEF Clip
<1>5. Spells(line, line.from, end - 1)
  BY <1>1 DEF Spells
<1>6. ASSUME NEW l \in segment, Spells(l, line.from, end - 1)
      PROVE  l = line
  <2>1. l.from \in Nat /\ l.to \in Nat /\ (l = line \/ l.to <= line.from \/ line.to <= l.from)
    BY DEF IsSegment
  <2>2. line.from \in {l.from - 1, l.from} /\ end - 1 \in {l.to - 2, l.to - 1}
    BY <1>6 DEF Spells
  <2>3. ~(l.to <= line.from) /\ ~(line.to <= l.from)
    BY <1>1, <2>1, <2>2
  <2>. QED
    BY <2>1, <2>3
<1>7. Decoded(segment, line.from, end - 1) = {line}
  BY <1>5, <1>6 DEF Decoded
<1> HIDE DEF size
<1>. QED
  BY <1>3, <1>4, <1>7 DEF Sliced, size

LEMMA SliceOfLine ==
  ASSUME NEW segment, NEW m, NEW line, Sliced(segment, m.start, m.end) = {line}, Wanted(line)
  PROVE  SliceEvents(segment, m) = <<ServiceEvent(line)>>
<1> DEFINE lines == {l \in Sliced(segment, m.start, m.end) : Wanted(l)}
<1>1. lines = {line}
  OBVIOUS
<1>2. (CHOOSE l \in lines : TRUE) = line
  BY <1>1
<1>. QED
  BY <1>1, <1>2 DEF SliceEvents

(* An entry that names a stored object resolves to it, in either form.     *)
LEMMA NamedIsLocated ==
  ASSUME NEW place \in DOMAIN Store, NEW e, NamesObject(e, place[1], place[2])
  PROVE  MetaOf(e) = Located(place[1], place[2], e.start_byte, e.end_byte)
<1> DEFINE bucket == place[1]
           key == place[2]
<1>1. IsBucketName(bucket) /\ Lexed(key) /\ key # <<>> /\ ~Has(key, "pipe")
  BY StoreAssumption
<1>2. e.s3_path = NodeForm(bucket, key) \/ e.s3_path = UriForm(bucket, key)
  BY Zenon DEF NamesObject, NodeForm, UriForm
<1> HIDE DEF bucket, key
<1>3. CASE e.s3_path = NodeForm(bucket, key)
  BY <1>1, <1>3, NodeFormResolvesOld DEF MetaOf, bucket, key
<1>4. CASE e.s3_path = UriForm(bucket, key)
  BY <1>1, <1>4, UriFormResolvesOld DEF MetaOf, bucket, key
<1>. QED
  BY <1>2, <1>3, <1>4

(* Without a failure every shard has answered and every object was read.   *)
LEMMA NothingFailed ==
  ASSUME IInv, MInv, CInv, Replied, count.rocksFailed = 0, count.s3Failed = 0
  PROVE  /\ \A i \in Positions : asking[i] = "answered"
         /\ \A path \in Paths : file[path] = "read"
<1>1. FailedQueries = {} /\ FailedFetches = {}
  BY FailedAreFinite, FS_EmptySet DEF CInv, Failures
<1>2. \A i \in Positions : asking[i] \in {"answered", "failed"}
  BY DEF IInv, Stages, Over
<1>3. \A path \in Paths : file[path] \in {"read", "failed"}
  BY DEF IInv, Stages
<1>. QED
  BY <1>1, <1>2, <1>3 DEF FailedQueries, FailedFetches

(* The map holds one of the answers for each reference id.                 *)
LEMMA MapHoldsAnswer ==
  ASSUME IInv, MInv, NEW i \in Positions, asking[i] = "answered"
  PROVE  \E j \in Positions : /\ request.refs[j] = request.refs[i]
                              /\ asking[j] = "answered"
                              /\ result[request.refs[i]] = Metas(answer[j])
<1>1. request.refs[i] \in Refs
  BY PositionsAre DEF IInv, Typed
<1>2. CASE result[request.refs[i]] # <<>>
  BY <1>1, <1>2 DEF MInv, Known
<1>3. CASE result[request.refs[i]] = <<>>
  <2>1. Metas(answer[i]) = <<>>
    BY <1>3 DEF MInv, Noted
  <2>. QED
    BY <1>3, <2>1
<1>. QED
  BY <1>2, <1>3

(* What is in the map is in a group.                                       *)
LEMMA MappedIsGrouped ==
  ASSUME IInv, MInv, Gathered, NEW r \in Refs, NEW y \in DOMAIN result[r]
  PROVE  \E path \in Paths : \E x \in DOMAIN grouped[path] : grouped[path][x] = result[r][y]
<1>1. PICK place : GroupedFrom(place, grouped, result)
  BY DEF MInv
<1>2. <<r, y>> \in Rows(result)
  BY DEF Rows, IInv, Typed, FirstTyped
<1>3. \A t \in Rows(result) : \E row \in Rows(grouped) : place[row] = t
  BY <1>1, BijectionIs DEF GroupedFrom
<1>4. PICK row \in Rows(grouped) : place[row] = <<r, y>>
  BY <1>2, <1>3
<1>5. grouped[row[1]][row[2]] = result[r][y]
  BY <1>1, <1>4 DEF GroupedFrom
<1>6. row[1] \in Paths /\ row[2] \in DOMAIN grouped[row[1]]
  BY RowsAre DEF Paths
<1>. QED
  BY <1>5, <1>6

(* Without a limit every slice with an event is in the response.           *)
LEMMA AllIsAnswered ==
  ASSUME IInv, RInv, Replied, request.limit = 0, NEW slice \in Full
  PROVE  \E k \in DOMAIN reply.events : EventsOf(slice) = <<reply.events[k]>>
<1> DEFINE D == DOMAIN reply.events
<1>1. PICK place : Some(place, reply.events)
  BY DEF RInv, Answered
<1>2. /\ IsFiniteSet(Full) /\ Len(reply.events) = Cardinality(Full)
      /\ reply.events \in Seq(Events)
  BY DEF RInv, Answered
<1>3. place \in Injection(D, Full)
  BY <1>1 DEF Some
<1>4. Cardinality(D) = Cardinality(Full)
  <2>1. D = 1 .. Len(reply.events) /\ Len(reply.events) \in Nat
    BY <1>2
  <2>2. Cardinality(1 .. Len(reply.events)) = Len(reply.events)
    BY <2>1, FS_Interval
  <2>. QED
    BY <1>2, <2>1, <2>2
<1> HIDE DEF D
<1>5. place \in Surjection(D, Full)
  BY <1>2, <1>3, <1>4, FS_Injection
<1>6. PICK k \in D : place[k] = slice
  BY <1>5 DEF Surjection
<1>7. EventsOf(slice) = <<Yield[slice[1]][slice[2]]>>
  BY YieldIs
<1>8. reply.events[k] = Yield[slice[1]][slice[2]]
  BY <1>1, <1>6 DEF Some, D
<1>. QED
  BY <1>6, <1>7, <1>8 DEF D

LEMMA EntryIsDelivered ==
  ASSUME IInv, MInv, CInv, RInv, Replied, request.limit = 0,
         count.rocksFailed = 0, count.s3Failed = 0,
         NEW j \in Positions, NEW k \in DOMAIN answer[j],
         NEW r \in Refs, result[r] = Metas(answer[j])
  PROVE  Delivered(answer[j][k])
<1> DEFINE e == answer[j][k]
<1> SUFFICES ASSUME NEW place \in DOMAIN Store, NEW line \in Store[place], line.json, Wanted(line),
                    Names(e, place[1], place[2], line)
             PROVE  \E n \in DOMAIN reply.events : reply.events[n] = ServiceEvent(line)
  BY DEF Delivered
<1>1. answer[j] \in Seq(Entries) /\ e \in Entries
  BY DEF IInv, Typed, FirstTyped
<1> HIDE DEF e
<1>2. /\ NamesObject(e, place[1], place[2]) /\ e.start_byte = line.from
      /\ e.end_byte \in {line.to - 1, line.to}
  BY DEF Names
<1>3. MetaOf(e) = Located(place[1], place[2], e.start_byte, e.end_byte)
  BY <1>2, NamedIsLocated
<1>4. MetaOf(e).ok /\ MetaOf(e).bucket = place[1] /\ MetaOf(e).key = place[2]
      /\ MetaOf(e).start = e.start_byte /\ MetaOf(e).end = e.end_byte
  BY <1>3 DEF Located
<1>5. PICK y \in DOMAIN result[r] : result[r][y] = MetaOf(e)
  <2>1. \A i \in DOMAIN answer[j] : MetaOf(answer[j][i]).ok =>
          \E x \in DOMAIN Metas(answer[j]) : Metas(answer[j])[x] = MetaOf(answer[j][i])
    BY <1>1, MetasAre
  <2>. QED
    BY <1>4, <2>1 DEF e
<1>6. PICK path \in Paths : \E x \in DOMAIN grouped[path] : grouped[path][x] = result[r][y]
  BY MappedIsGrouped DEF Gathered
<1>7. PICK x \in DOMAIN grouped[path] : grouped[path][x] = MetaOf(e)
  BY <1>5, <1>6
<1>8. ObjectOf(path) = place
  <2>1. ObjectOf(path) = <<MetaOf(e).bucket, MetaOf(e).key>>
    BY <1>7, GroupNamesObject DEF Gathered
  <2>2. place = <<place[1], place[2]>>
    BY StoreAssumption
  <2>. QED
    BY <1>4, <2>1, <2>2
<1>9. Sliced(Store[place], line.from, e.end_byte) = {line}
  <2>1. IsSegment(Store[place])
    BY StoreAssumption
  <2>. QED
    BY <1>2, <2>1, LineIsSliced
<1>10. EventsOf(<<path, x>>) = <<ServiceEvent(line)>>
  <2> DEFINE m == MetaOf(e)
  <2>1. Sliced(Store[place], m.start, m.end) = {line}
    BY <1>2, <1>4, <1>9
  <2>2. EventsOf(<<path, x>>) = SliceEvents(Store[place], m)
    BY <1>7, <1>8 DEF EventsOf
  <2> HIDE DEF m
  <2>3. SliceEvents(Store[place], m) = <<ServiceEvent(line)>>
    BY <2>1, SliceOfLine
  <2>. QED
    BY <2>2, <2>3
<1>11. file[path] = "read"
  BY NothingFailed
<1>12. <<path, x>> \in Full
  <2>1. EventsOf(<<path, x>>) # <<>>
    <3>1. <<ServiceEvent(line)>> # <<>>
      OBVIOUS
    <3>. QED
      BY <1>10, <3>1, Zenon
  <2>2. path \in Paths /\ x \in DOMAIN grouped[path]
    BY <1>7
  <2>3. <<path, x>> \in Full <=> file[path] = "read" /\ EventsOf(<<path, x>>) # <<>>
    BY <2>2, FullIs, Zenon
  <2>. QED
    BY <1>11, <2>1, <2>3, Zenon
<1>13. PICK n \in DOMAIN reply.events : EventsOf(<<path, x>>) = <<reply.events[n]>>
  BY <1>12, AllIsAnswered
<1>. QED
  BY <1>10, <1>13

LEMMA NothingElseIsLost == IInv /\ MInv /\ CInv /\ RInv => LossIsCounted
<1> SUFFICES ASSUME IInv, MInv, CInv, RInv, Replied, request.limit = 0,
                    count.rocksFailed = 0, count.s3Failed = 0, NEW i \in Positions
             PROVE  \E j \in Positions : /\ request.refs[j] = request.refs[i]
                                         /\ asking[j] = "answered"
                                         /\ \A k \in DOMAIN answer[j] : Delivered(answer[j][k])
  BY DEF LossIsCounted, Replied
<1>1. asking[i] = "answered"
  BY NothingFailed
<1>2. PICK j \in Positions : /\ request.refs[j] = request.refs[i]
                             /\ asking[j] = "answered"
                             /\ result[request.refs[i]] = Metas(answer[j])
  BY <1>1, MapHoldsAnswer
<1>3. request.refs[i] \in Refs
  BY PositionsAre DEF IInv, Typed
<1>4. \A k \in DOMAIN answer[j] : Delivered(answer[j][k])
  BY <1>2, <1>3, EntryIsDelivered
<1>. QED
  BY <1>2, <1>4

(* A query without a limit that bumped neither rocksdb.queries.failed nor  *)
(* s3.fetches.failed has delivered what an answer for each of its          *)
(* reference ids names: through both waves, the map, the groups, the       *)
(* slicing, the channel and the sort nothing goes missing unseen.          *)
THEOREM ServiceLossIsCounted == Spec => []LossIsCounted
BY Invariant, AllRead, NothingElseIsLost, PTL

-----------------------------------------------------------------------------
(***************************************************************************)
(* Last part: the end.  That a query is answered (QueryIsAnswered) rests   *)
(* on fairness and on two facts without it, for any number of reference    *)
(* ids, objects and slots: no wait is for something that cannot happen,    *)
(* and a query cannot take steps for ever.                                 *)
(***************************************************************************)
Idle == {path \in Paths : file[path] = "idle"}

(* Where the caller waits for a token or for the goroutines, one is        *)
(* running whose timeout ends it.                                          *)
WaitsForTheRunning ==
  /\ stage = "metadata" =>
       \/ launched < Len(request.refs) /\ refTokens < RefSlots
       \/ launched = Len(request.refs) /\ \A i \in Positions : Over(i)
       \/ Asking # {}
  /\ stage = "files" =>
       \/ Idle # {} /\ fileTokens < FetchSlots
       \/ \A path \in Paths : file[path] \in {"read", "failed"}
       \/ Fetching # {}

(* The stages to come, and the steps to come in the stage: one to start a  *)
(* goroutine, one to end it, one for each list in the channel, and one in  *)
(* which the deadline may pass.                                            *)
StagesAhead ==
  CASE stage = "received" -> 5
    [] stage = "metadata" -> 4
    [] stage = "files"    -> 3
    [] stage = "draining" -> 2
    [] stage = "drained"  -> 1
    [] OTHER              -> 0

Work ==
  CASE stage = "metadata" -> 2 * (Len(request.refs) - launched) + refTokens
    [] stage = "files"    -> 2 * Cardinality(Idle) + fileTokens
    [] stage = "draining" -> Len(eventsCh)
    [] OTHER              -> 0

StepsAhead == Work + (IF expired THEN 0 ELSE 1)

ComesCloser ==
  \/ StagesAhead' < StagesAhead
  \/ StagesAhead' = StagesAhead /\ StepsAhead' < StepsAhead

LEMMA WaitsAre == IInv => WaitsForTheRunning
<1> SUFFICES ASSUME IInv PROVE WaitsForTheRunning
  OBVIOUS
<1>1. ASSUME stage = "metadata", Asking = {}
      PROVE  \/ launched < Len(request.refs) /\ refTokens < RefSlots
             \/ launched = Len(request.refs) /\ \A i \in Positions : Over(i)
  <2>1. refTokens < RefSlots
    <3>1. refTokens = 0
      BY <1>1, EmptyComprehension DEF IInv, Tokens
    <3>. QED
      BY <3>1, SlotsAssumption
  <2>2. /\ Len(request.refs) \in Nat /\ Positions = 1 .. Len(request.refs)
        /\ launched \in 0 .. Len(request.refs)
        /\ \A i \in Positions : asking[i] \in AskState
        /\ \A i \in Positions : asking[i] = "idle" <=> i > launched
    BY PositionsAre DEF IInv, Typed, FirstTyped
  <2>3. ASSUME launched = Len(request.refs), NEW i \in Positions
        PROVE  Over(i)
    <3>1. asking[i] # "idle"
      BY <2>2, <2>3
    <3>. QED
      BY <1>1, <2>2, <3>1 DEF Asking, Over, AskState
  <2>. QED
    BY <2>1, <2>2, <2>3
<1>2. ASSUME stage = "files", Fetching = {}
      PROVE  \/ Idle # {} /\ fileTokens < FetchSlots
             \/ \A path \in Paths : file[path] \in {"read", "failed"}
  <2>1. fileTokens < FetchSlots
    <3>1. fileTokens = 0
      BY <1>2, EmptyComprehension DEF IInv, Tokens
    <3>. QED
      BY <3>1, SlotsAssumption
  <2>2. \A path \in Paths : file[path] \in FileState
    BY DEF IInv, Typed, SecondTyped
  <2>. QED
    BY <1>2, <2>1, <2>2 DEF Idle, Fetching, FileState
<1>. QED
  BY <1>1, <1>2 DEF WaitsForTheRunning

(* Neither semaphore and neither wait can stop the caller for good: as     *)
(* long as it cannot go on, a goroutine of the wave it waits for is under  *)
(* way, and that one ends by its own timeout (main.go:532-585, 782-824).   *)
THEOREM WaitsEnd == Spec => []WaitsForTheRunning
BY Invariant, WaitsAre, PTL

LEMMA IdleIsFinite ==
  ASSUME SecondTyped
  PROVE  IsFiniteSet(Idle) /\ Cardinality(Idle) \in Nat
<1>1. IsFiniteSet(Paths) /\ Idle \subseteq Paths
  BY DEF SecondTyped, Idle
<1>. QED
  BY <1>1, FS_Subset, FS_CardinalityType

LEMMA StepsAheadAre == IInv => StagesAhead \in Nat /\ Work \in Nat /\ StepsAhead \in Nat
<1> SUFFICES ASSUME IInv PROVE StagesAhead \in Nat /\ Work \in Nat /\ StepsAhead \in Nat
  OBVIOUS
<1>1. StagesAhead \in Nat
  BY DEF StagesAhead
<1>2. /\ Len(request.refs) \in Nat /\ launched \in 0 .. Len(request.refs)
      /\ refTokens \in Nat /\ fileTokens \in Nat
  BY PositionsAre, AskingIsFinite, FetchingIsFinite DEF IInv, Typed, FirstTyped, Tokens
<1>3. Cardinality(Idle) \in Nat /\ Len(eventsCh) \in Nat
  BY IdleIsFinite DEF IInv, Typed, SecondTyped
<1>4. Work \in Nat
  <2>1. 2 * (Len(request.refs) - launched) + refTokens \in Nat
    BY <1>2
  <2>2. 2 * Cardinality(Idle) + fileTokens \in Nat
    BY <1>2, <1>3
  <2>. QED
    BY <1>3, <2>1, <2>2, Zenon DEF Work
<1>. QED
  BY <1>1, <1>4 DEF StepsAhead

(* A step that leaves the stage and the deadline.                          *)
LEMMA LessWork ==
  ASSUME UNCHANGED <<stage, expired>>, Work \in Int, Work' \in Int, Work' < Work
  PROVE  ComesCloser
<1> DEFINE x == IF expired THEN 0 ELSE 1
<1>1. StagesAhead' = StagesAhead
  BY DEF StagesAhead
<1>2. x \in Int /\ StepsAhead = Work + x /\ StepsAhead' = Work' + x
  BY DEF StepsAhead
<1> HIDE DEF x
<1>3. \A m, n, k \in Int : m < n => m + k < n + k
  OBVIOUS
<1>4. Work' + x < Work + x
  BY <1>2, <1>3
<1>5. StepsAhead' < StepsAhead
  BY <1>2, <1>4, Zenon
<1>. QED
  BY <1>1, <1>5 DEF ComesCloser

LEMMA NextComesCloser == IInv /\ MInv /\ [Next]_vars => [ComesCloser]_vars
<1> SUFFICES ASSUME IInv, MInv, Next, ~UNCHANGED vars PROVE ComesCloser
  OBVIOUS
<1>2. /\ Len(request.refs) \in Nat /\ launched \in 0 .. Len(request.refs)
      /\ refTokens \in Nat /\ fileTokens \in Nat /\ Cardinality(Idle) \in Nat
  BY PositionsAre, AskingIsFinite, FetchingIsFinite, IdleIsFinite
     DEF IInv, Typed, FirstTyped, Tokens
<1>3. ASSUME Reject \/ Accept \/ Gather \/ CloseEvents \/ Respond
      PROVE  ComesCloser
  <2>1. StagesAhead' < StagesAhead
    <3>1. CASE Reject \/ Accept
      <4>1. stage = "received" /\ stage' \in {"done", "metadata"}
        BY <3>1 DEF Reject, Accept
      <4>. QED
        BY <4>1 DEF StagesAhead
    <3>2. CASE Gather
      <4>1. stage = "metadata" /\ stage' \in {"done", "files"}
        BY <3>2 DEF Gather
      <4>. QED
        BY <4>1 DEF StagesAhead
    <3>3. CASE CloseEvents
      BY <3>3 DEF CloseEvents, StagesAhead
    <3>4. CASE Respond
      <4>1. stage \in {"draining", "drained"} /\ stage' = "done"
        BY <3>4 DEF Respond, Drained
      <4>. QED
        BY <4>1 DEF StagesAhead
    <3>. QED
      BY <1>3, <3>1, <3>2, <3>3, <3>4
  <2>. QED
    BY <2>1 DEF ComesCloser
<1>4. ASSUME LaunchQuery
      PROVE  ComesCloser
  <2>1. /\ stage = "metadata" /\ UNCHANGED <<stage, expired, request>>
        /\ launched' = launched + 1 /\ refTokens' = refTokens + 1
    BY <1>4 DEF LaunchQuery
  <2>2. Work' = 2 * (Len(request.refs) - (launched + 1)) + (refTokens + 1)
    BY <2>1 DEF Work
  <2>3. Work = 2 * (Len(request.refs) - launched) + refTokens
    BY <2>1 DEF Work
  <2>4. Work \in Int /\ Work' \in Int /\ Work' < Work
    <3> DEFINE n == Len(request.refs)
    <3>1. /\ n \in Nat /\ launched \in Nat /\ refTokens \in Nat
          /\ Work' = 2 * (n - (launched + 1)) + (refTokens + 1)
          /\ Work = 2 * (n - launched) + refTokens
      BY <1>2, <2>2, <2>3
    <3> HIDE DEF n
    <3>. QED
      BY <3>1
  <2>. QED
    BY <2>1, <2>4, LessWork
<1>5. ASSUME NEW i \in Positions, Query(i)
      PROVE  ComesCloser
  <2>1. /\ UNCHANGED <<stage, expired, request, launched>>
        /\ asking[i] \in {"asking", "doomed"} /\ refTokens' = refTokens - 1
    BY <1>5 DEF Query, QueryShardOK, QueryShardErr
  <2>2. stage = "metadata"
    <3>1. ~Over(i) /\ asking[i] # "idle"
      BY <2>1 DEF Over
    <3>. QED
      BY <3>1, AskedInMetadata
  <2>3. Work' = 2 * (Len(request.refs) - launched) + (refTokens - 1)
    BY <2>1, <2>2 DEF Work
  <2>4. Work = 2 * (Len(request.refs) - launched) + refTokens
    BY <2>2 DEF Work
  <2>5. Work \in Int /\ Work' \in Int /\ Work' < Work
    BY <1>2, <2>3, <2>4
  <2>. QED
    BY <2>1, <2>5, LessWork
<1>6. ASSUME NEW path \in Paths, LaunchFetch(path)
      PROVE  ComesCloser
  <2>1. /\ stage = "files" /\ UNCHANGED <<stage, expired, grouped>>
        /\ fileTokens' = fileTokens + 1 /\ file[path] = "idle"
        /\ file' = [file EXCEPT ![path] = IF expired THEN "doomed" ELSE "calling"]
    BY <1>6 DEF LaunchFetch
  <2>2. file \in [Paths -> FileState] /\ Paths' = Paths /\ IsFiniteSet(Idle)
    BY <2>1, IdleIsFinite DEF IInv, Typed, SecondTyped, Paths
  <2>3. Idle' = Idle \ {path} /\ path \in Idle
    BY <2>1, <2>2 DEF Idle
  <2>4. Cardinality(Idle') = Cardinality(Idle) - 1
    BY <2>2, <2>3, OneLess
  <2>5. Work' = 2 * Cardinality(Idle') + (fileTokens + 1)
    BY <2>1 DEF Work
  <2>6. Work = 2 * Cardinality(Idle) + fileTokens
    BY <2>1 DEF Work
  <2> HIDE DEF Idle
  <2>7. Work \in Int /\ Work' \in Int /\ Work' < Work
    BY <1>2, <2>4, <2>5, <2>6
  <2>. QED
    BY <2>1, <2>7, LessWork
<1>7. ASSUME NEW path \in Paths, GetObjectOK(path) \/ GetObjectErr(path)
      PROVE  ComesCloser
  <2>1. /\ stage = "files" /\ UNCHANGED <<stage, expired, grouped>>
        /\ fileTokens' = fileTokens - 1 /\ file[path] # "idle"
        /\ file' = [file EXCEPT ![path] = "read"] \/ file' = [file EXCEPT ![path] = "failed"]
    BY <1>7 DEF GetObjectOK, GetObjectErr, ObjectRead
  <2>2. file \in [Paths -> FileState] /\ Paths' = Paths
    BY <2>1 DEF IInv, Typed, SecondTyped, Paths
  <2>3. Idle' = Idle
    BY <2>1, <2>2 DEF Idle
  <2>5. Work' = 2 * Cardinality(Idle) + (fileTokens - 1)
    BY <2>1, <2>3 DEF Work
  <2>6. Work = 2 * Cardinality(Idle) + fileTokens
    BY <2>1 DEF Work
  <2>7. Work \in Int /\ Work' \in Int /\ Work' < Work
    BY <1>2, <2>5, <2>6
  <2>. QED
    BY <2>1, <2>7, LessWork
<1>8. ASSUME NEW path \in Paths, GetObjectPanics(path)
      PROVE  ComesCloser
  BY <1>8 DEF GetObjectPanics, ObjectRead, StagesAhead, ComesCloser
<1>9. ASSUME Drain
      PROVE  ComesCloser
  <2>1. /\ stage = "draining" /\ eventsCh # <<>> /\ eventsCh' = Tail(eventsCh)
        /\ stage' \in {"drained", stage} /\ expired' = expired
    BY <1>9 DEF Drain
  <2>2. CASE stage' = "drained"
    BY <2>1, <2>2 DEF StagesAhead, ComesCloser
  <2>3. CASE stage' = stage
    <3>1. eventsCh \in Seq(Seq(Events))
      BY DEF IInv, Typed, SecondTyped
    <3>2. Len(eventsCh) \in Int /\ Len(eventsCh') \in Int /\ Len(eventsCh') < Len(eventsCh)
      BY <2>1, <3>1
    <3>3. Work \in Int /\ Work' \in Int /\ Work' < Work
      BY <2>1, <2>3, <3>2 DEF Work
    <3>. QED
      BY <2>1, <2>3, <3>3, LessWork
  <2>. QED
    BY <2>1, <2>2, <2>3
<1>10. ASSUME Expire
       PROVE  ComesCloser
  <2>1. ~expired /\ expired' = TRUE
        /\ UNCHANGED <<request, stage, firstWave, secondWave, count, reply>>
    BY <1>10 DEF Expire
  <2>2. Work' = Work /\ StagesAhead' = StagesAhead
    BY <2>1 DEF Work, StagesAhead, firstWave, secondWave, Idle, Paths
  <2>3. Work \in Nat
    BY StepsAheadAre
  <2>4. StepsAhead' < StepsAhead
    BY <2>1, <2>2, <2>3 DEF StepsAhead
  <2>. QED
    BY <2>2, <2>4 DEF ComesCloser
<1>. QED
  BY <1>3, <1>4, <1>5, <1>6, <1>7, <1>8, <1>9, <1>10 DEF Next, Caller, Fetch, Finished

(* Every step of a query, the failures of shards and objects included,     *)
(* lowers a pair of natural numbers: it takes finitely many, however       *)
(* goroutines interleave and whatever is answered (main.go:463-585,        *)
(* 764-841).                                                               *)
THEOREM QueryIsFinite ==
  Spec => [](StagesAhead \in Nat /\ StepsAhead \in Nat) /\ [][ComesCloser]_vars
BY Invariant, StepsAheadAre, NextComesCloser, PTL DEF Spec
=============================================================================
