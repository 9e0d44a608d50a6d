--------------------------- MODULE PointerProofs ---------------------------
(***************************************************************************)
(* What the operators that the modules share compute: where SplitN cuts,   *)
(* what that makes of the forms in which an index names a place, how large *)
(* a segment is, and where the elements of a flattened list come from.     *)
(*                                                                         *)
(* Nth is defined by choice, so the first lemmas show that the choice is   *)
(* there and unique: the rank of an element of a finite set of numbers,    *)
(* how many elements are not above it, grows strictly from 1 to the size   *)
(* of the set.  For FlattenSeq there is an induction over numbers in the   *)
(* form of a set, and a bijection between the places of the flat list and  *)
(* those of the list of lists.                                             *)
(***************************************************************************)
EXTENDS Pointer, Segment, FiniteSetTheorems, FunctionTheorems, SequenceTheorems, TLAPS

(* A finite set of numbers, such as the places of the separators of a path.*)
Numbers(I) == IsFiniteSet(I) /\ I \subseteq Int

Upto(I, i) == {h \in I : h <= i}
Rank(I, i) == Cardinality(Upto(I, i))

-----------------------------------------------------------------------------
(* The k-th smallest of a finite set of numbers.                           *)
LEMMA RankType ==
  ASSUME NEW I, Numbers(I), NEW i \in I
  PROVE  Rank(I, i) \in 1 .. Cardinality(I)
<1>1. IsFiniteSet(Upto(I, i)) /\ Rank(I, i) <= Cardinality(I)
  BY FS_Subset DEF Numbers, Upto, Rank
<1>2. i \in Upto(I, i)
  BY DEF Numbers, Upto
<1>3. Rank(I, i) \in Nat /\ Cardinality(I) \in Nat /\ Rank(I, i) # 0
  BY <1>1, <1>2, FS_CardinalityType, FS_EmptySet DEF Rank, Numbers
<1>. QED
  BY <1>1, <1>3

LEMMA RankGrows ==
  ASSUME NEW I, Numbers(I), NEW i \in I, NEW j \in I, i < j
  PROVE  Rank(I, i) < Rank(I, j)
<1>0. \A h \in I : h \in Int
  BY DEF Numbers
<1>1. Upto(I, i) \subseteq Upto(I, j)
  <2>1. ASSUME NEW h \in I, h <= i
        PROVE  h <= j
    BY <1>0, <2>1
  <2>. QED
    BY <2>1 DEF Upto
<1>2. j \in Upto(I, j) /\ j \notin Upto(I, i)
  BY <1>0 DEF Upto
<1>3. IsFiniteSet(Upto(I, j))
  BY FS_Subset DEF Numbers, Upto
<1>4. Rank(I, i) <= Rank(I, j) /\ Rank(I, i) # Rank(I, j)
  BY <1>1, <1>2, <1>3, FS_Subset DEF Rank
<1>5. Rank(I, i) \in Nat /\ Rank(I, j) \in Nat
  BY <1>1, <1>3, FS_CardinalityType, FS_Subset DEF Rank
<1>. QED
  BY <1>4, <1>5

LEMMA RankInjective ==
  ASSUME NEW I, Numbers(I), NEW i \in I, NEW j \in I,
         Rank(I, i) = Rank(I, j)
  PROVE  i = j
<1>1. i < j \/ j < i \/ i = j
  BY DEF Numbers
<1>2. Cardinality(I) \in Nat
  BY FS_CardinalityType DEF Numbers
<1>3. Rank(I, i) \in Nat
  BY <1>2, RankType
<1>4. CASE i < j
  BY <1>3, <1>4, RankGrows
<1>5. CASE j < i
  BY <1>3, <1>5, RankGrows
<1>. QED
  BY <1>1, <1>4, <1>5

(* The element of rank k is the k-th.                                      *)
LEMMA NthOfRank ==
  ASSUME NEW I, Numbers(I), NEW i \in I
  PROVE  Nth(I, Rank(I, i)) = i
<1>1. Nth(I, Rank(I, i)) = CHOOSE j \in I : Rank(I, j) = Rank(I, i)
  BY DEF Nth, Rank, Upto
<1>2. \A j \in I : Rank(I, j) = Rank(I, i) => j = i
  BY RankInjective
<1>. QED
  BY <1>1, <1>2

(* A set of k numbers has a k-th.                                          *)
LEMMA NthExists ==
  ASSUME NEW I, Numbers(I), NEW k \in 1 .. Cardinality(I)
  PROVE  Nth(I, k) \in I /\ Rank(I, Nth(I, k)) = k
<1> DEFINE n == Cardinality(I)
           rank == [i \in I |-> Rank(I, i)]
<1>1. n \in Nat
  BY FS_CardinalityType DEF Numbers
<1>2. rank \in [I -> 1 .. n]
  BY RankType
<1>3. \A i, j \in I : rank[i] = rank[j] => i = j
  BY RankInjective
<1>4. rank \in Injection(I, 1 .. n)
  BY <1>2, <1>3 DEF Injection, IsInjective
<1>5. IsFiniteSet(1 .. n) /\ Cardinality(1 .. n) = n
  BY <1>1, FS_Interval
<1>6. rank \in Surjection(I, 1 .. n)
  BY <1>4, <1>5, FS_Injection
<1>7. PICK i \in I : rank[i] = k
  BY <1>6 DEF Surjection
<1>. QED
  BY <1>7, NthOfRank

(* A smaller index, a smaller element.                                     *)
LEMMA NthGrows ==
  ASSUME NEW I, Numbers(I),
         NEW k \in 1 .. Cardinality(I), NEW l \in 1 .. Cardinality(I), k < l
  PROVE  Nth(I, k) < Nth(I, l)
<1>1. /\ Nth(I, k) \in I /\ Rank(I, Nth(I, k)) = k
      /\ Nth(I, l) \in I /\ Rank(I, Nth(I, l)) = l
  BY NthExists
<1>2. Nth(I, k) < Nth(I, l) \/ Nth(I, l) < Nth(I, k) \/ Nth(I, k) = Nth(I, l)
  <2>1. Nth(I, k) \in Int /\ Nth(I, l) \in Int
    BY <1>1 DEF Numbers
  <2>. QED
    BY <2>1
<1>3. CASE Nth(I, l) < Nth(I, k)
  <2>1. l < k
    BY <1>1, <1>3, RankGrows
  <2>. QED
    BY <2>1, FS_CardinalityType DEF Numbers
<1>. QED
  BY <1>1, <1>2, <1>3, FS_CardinalityType DEF Numbers
(* Ranks counted off: the least element, the next one, the greatest.       *)
LEMMA RankFirst ==
  ASSUME NEW I, Numbers(I), NEW i \in I, \A h \in I : i <= h
  PROVE  Rank(I, i) = 1
<1>0. \A h \in I : h \in Int
  BY DEF Numbers
<1>1. Upto(I, i) = {i}
  BY <1>0 DEF Upto
<1>. QED
  BY <1>1, FS_Singleton DEF Rank

LEMMA RankNext ==
  ASSUME NEW I, Numbers(I), NEW i \in I, NEW j \in I, i < j,
         \A h \in I : h <= i \/ j <= h
  PROVE  Rank(I, j) = Rank(I, i) + 1
<1>0. \A h \in I : h \in Int
  BY DEF Numbers
<1>1. Upto(I, j) = Upto(I, i) \cup {j} /\ j \notin Upto(I, i)
  BY <1>0 DEF Upto
<1>2. IsFiniteSet(Upto(I, i))
  BY FS_Subset DEF Numbers, Upto
<1>. QED
  BY <1>1, <1>2, FS_AddElement DEF Rank

LEMMA RankLast ==
  ASSUME NEW I, Numbers(I), NEW i \in I, \A h \in I : h <= i
  PROVE  Rank(I, i) = Cardinality(I)
<1>1. Upto(I, i) = I
  BY DEF Upto
<1>. QED
  BY <1>1 DEF Rank

-----------------------------------------------------------------------------
(* Where SplitN cuts.                                                      *)
Seps(path, sep) == {i \in DOMAIN path : path[i].kind = sep}

LEMMA SepsAreNumbers ==
  ASSUME NEW T, NEW path \in Seq(T), NEW sep
  PROVE  /\ Numbers(Seps(path, sep))
         /\ Cardinality(Seps(path, sep)) \in Nat
         /\ Seps(path, sep) \subseteq 1 .. Len(path)
<1>1. Len(path) \in Nat /\ DOMAIN path = 1 .. Len(path)
  OBVIOUS
<1>2. Seps(path, sep) \subseteq 1 .. Len(path)
  BY <1>1 DEF Seps
<1>3. IsFiniteSet(1 .. Len(path))
  BY <1>1, FS_Interval
<1>4. IsFiniteSet(Seps(path, sep))
  BY <1>2, <1>3, FS_Subset
<1>. QED
  BY <1>1, <1>2, <1>4, FS_CardinalityType DEF Numbers

Pieces(path, sep, n) ==
  IF Cardinality(Seps(path, sep)) < n THEN Cardinality(Seps(path, sep)) + 1 ELSE n

Piece(path, sep, n, k) ==
  SubSeq(path, IF k = 1 THEN 1 ELSE Nth(Seps(path, sep), k - 1) + 1,
               IF k = Pieces(path, sep, n) THEN Len(path)
                                           ELSE Nth(Seps(path, sep), k) - 1)

LEMMA SplitNIsPieces ==
  ASSUME NEW path, NEW sep, NEW n
  PROVE  SplitN(path, sep, n) = [k \in 1 .. Pieces(path, sep, n) |-> Piece(path, sep, n, k)]
BY DEF SplitN, Seps, Pieces, Piece

(* Where a piece starts and ends.                                          *)
Bounds(path, sep, n, k, from, to) ==
  /\ from = IF k = 1 THEN 1 ELSE Nth(Seps(path, sep), k - 1) + 1
  /\ to = IF k = Pieces(path, sep, n) THEN Len(path) ELSE Nth(Seps(path, sep), k) - 1

Cut(path, from, to) == SubSeq(path, from, to)

LEMMA PieceIs ==
  ASSUME NEW path, NEW sep, NEW n, NEW k, NEW from, NEW to,
         Bounds(path, sep, n, k, from, to)
  PROVE  Piece(path, sep, n, k) = Cut(path, from, to)
BY Zenon DEF Bounds, Piece, Cut

(* Without a separator there is one piece.                                 *)
LEMMA SplitUncut ==
  ASSUME NEW T, NEW path \in Seq(T), NEW sep, NEW n \in Nat \ {0, 1}, ~Has(path, sep)
  PROVE  SplitN(path, sep, n) = <<path>>
<1>1. Seps(path, sep) = {}
  BY DEF Seps, Has
<1>2. Cardinality(Seps(path, sep)) = 0
  BY <1>1, FS_EmptySet
<1>3. SubSeq(path, 1, Len(path)) = path
  OBVIOUS
<1>4. Pieces(path, sep, n) = 1
  BY <1>2 DEF Pieces
<1>5. Piece(path, sep, n, 1) = path
  BY <1>3, <1>4 DEF Piece
<1>6. SplitN(path, sep, n) = [k \in 1 .. 1 |-> Piece(path, sep, n, k)]
  BY <1>4, SplitNIsPieces
<1>. QED
  BY <1>5, <1>6

(* Cut in two, a text is cut at its first separator, whatever comes after. *)
LEMMA SplitOnce ==
  ASSUME NEW T, NEW left \in Seq(T), NEW right \in Seq(T), NEW t \in T, NEW sep,
         ~Has(left, sep), t.kind = sep
  PROVE  SplitN(left \o <<t>> \o right, sep, 2) = <<left, right>>
<1> DEFINE path == left \o <<t>> \o right
           I == Seps(path, sep)
           a == Len(left) + 1
<1>1. /\ path \in Seq(T)
      /\ Len(left) \in Nat /\ Len(right) \in Nat /\ Len(path) = a + Len(right)
      /\ \A k \in 1 .. Len(left) : path[k] = left[k]
      /\ path[a] = t
      /\ \A k \in 1 .. Len(right) : path[a + k] = right[k]
  OBVIOUS
<1>2. DOMAIN path = 1 .. Len(path) /\ a \in 1 .. Len(path)
  BY <1>1
<1>3. \A k \in 1 .. Len(left) : path[k].kind # sep
  BY <1>1 DEF Has
<1>left. SubSeq(path, 1, a - 1) = left
  OBVIOUS
<1>right. SubSeq(path, a + 1, Len(path)) = right
  BY <1>1
<1> HIDE DEF path
<1>4. a \in I /\ \A k \in I : a <= k
  BY <1>1, <1>2, <1>3 DEF Seps
<1>5. Numbers(I) /\ Cardinality(I) \in Nat
  BY <1>1, SepsAreNumbers
<1>7. Rank(I, a) = 1
  BY <1>4, <1>5, RankFirst
<1>8. Nth(I, 1) = a
  BY <1>4, <1>5, <1>7, NthOfRank
<1>9. Cardinality(I) >= 1
  BY <1>4, <1>5, <1>7, RankType
<1>10. Pieces(path, sep, 2) = 2
  BY <1>5, <1>9 DEF Pieces
<1>11. Piece(path, sep, 2, 1) = left /\ Piece(path, sep, 2, 2) = right
  <2>1. Bounds(path, sep, 2, 1, 1, a - 1) /\ Bounds(path, sep, 2, 2, a + 1, Len(path))
    BY <1>8, <1>10 DEF Bounds
  <2>2. Piece(path, sep, 2, 1) = Cut(path, 1, a - 1)
    BY <2>1, PieceIs
  <2>3. Piece(path, sep, 2, 2) = Cut(path, a + 1, Len(path))
    BY <2>1, PieceIs
  <2>. QED
    BY <1>left, <1>right, <2>2, <2>3 DEF Cut
<1>12. SplitN(path, sep, 2) = [k \in 1 .. 2 |-> Piece(path, sep, 2, k)]
  BY <1>10, SplitNIsPieces
<1>13. SplitN(path, sep, 2) = <<Piece(path, sep, 2, 1), Piece(path, sep, 2, 2)>>
  BY <1>12
<1>14. SplitN(path, sep, 2) = <<left, right>>
  BY <1>11, <1>13
<1>. QED
  BY <1>14 DEF path

-----------------------------------------------------------------------------
(* The raw value of the index, "bucket|objectKey|startByte|endByte".       *)
RawForm(bucket, key, start, end) ==
  bucket \o <<Pipe>> \o key \o <<Pipe, Number(start), Pipe, Number(end)>>

(* Four pieces put together again, of a text cut at three of its tokens.   *)
LEMMA FourPieces ==
  ASSUME NEW T, NEW path \in Seq(T),
         NEW a \in 1 .. Len(path), NEW b \in 1 .. Len(path),
         a < b, b + 3 = Len(path)
  PROVE  path = SubSeq(path, 1, a - 1) \o <<path[a]>> \o SubSeq(path, a + 1, b - 1)
                  \o <<path[b], path[b + 1], path[b + 2], path[b + 3]>>
<1>1. <<path[a]>> = SubSeq(path, a, a)
  OBVIOUS
<1>2. <<path[b], path[b + 1], path[b + 2], path[b + 3]>> = SubSeq(path, b, b + 3)
  OBVIOUS
<1>3. SubSeq(path, 1, a - 1) \o SubSeq(path, a, a) = SubSeq(path, 1, a)
  <2>1. /\ 1 \in 1 .. Len(path) + 1 /\ a - 1 \in 1 - 1 .. Len(path)
        /\ a \in a - 1 .. Len(path) /\ (a - 1) + 1 = a
    OBVIOUS
  <2>. QED
    BY <2>1, ConcatAdjacentSubSeq
<1>4. SubSeq(path, 1, a) \o SubSeq(path, a + 1, b - 1) = SubSeq(path, 1, b - 1)
  <2>1. /\ 1 \in 1 .. Len(path) + 1 /\ a \in 1 - 1 .. Len(path)
        /\ b - 1 \in a .. Len(path)
    OBVIOUS
  <2>. QED
    BY <2>1, ConcatAdjacentSubSeq
<1>5. SubSeq(path, 1, b - 1) \o SubSeq(path, b, b + 3) = SubSeq(path, 1, Len(path))
  <2>1. /\ 1 \in 1 .. Len(path) + 1 /\ b - 1 \in 1 - 1 .. Len(path)
        /\ b + 3 \in b - 1 .. Len(path) /\ (b - 1) + 1 = b
    OBVIOUS
  <2>. QED
    BY <2>1, ConcatAdjacentSubSeq
<1>6. SubSeq(path, 1, Len(path)) = path
  BY SubSeqFull
<1>. QED
  BY <1>1, <1>2, <1>3, <1>4, <1>5, <1>6

(* Where parsePointer reads four pieces with numbers for the last two, the *)
(* path is the raw value of what it reads.                                 *)
LEMMA FourPiecesAreARawValue ==
  ASSUME NEW path, Lexed(path), NEW parts, parts = SplitN(path, "pipe", 4),
         Len(parts) = 4, IsNumber(parts[3]), IsNumber(parts[4])
  PROVE  path = RawForm(parts[1], parts[2], parts[3][1].value, parts[4][1].value)
<1> DEFINE T == Range(path)
           I == Seps(path, "pipe")
           a == Nth(I, 1)
           b == Nth(I, 2)
           c == Nth(I, 3)
<1>1. path \in Seq(T)
  BY DEF Lexed
<1>2. Numbers(I) /\ Cardinality(I) \in Nat /\ I \subseteq 1 .. Len(path)
  BY <1>1, SepsAreNumbers
<1>3. parts = [k \in 1 .. Pieces(path, "pipe", 4) |-> Piece(path, "pipe", 4, k)]
  BY SplitNIsPieces
<1>4. Pieces(path, "pipe", 4) = 4 /\ 3 <= Cardinality(I)
  <2>1. Pieces(path, "pipe", 4) \in Nat
    BY <1>2 DEF Pieces
  <2>2. Pieces(path, "pipe", 4) = 4
    <3> DEFINE m == Pieces(path, "pipe", 4)
               piece(k) == Piece(path, "pipe", 4, k)
    <3> HIDE DEF m, piece
    <3>1. m \in Nat /\ parts = [k \in 1 .. m |-> piece(k)]
      BY <1>3, <2>1 DEF m, piece
    <3>2. Len(parts) = m
      BY <3>1
    <3>. QED
      BY <3>2 DEF m
  <2>. QED
    BY <1>2, <2>2 DEF Pieces
<1>5. parts[1] = Piece(path, "pipe", 4, 1) /\ parts[2] = Piece(path, "pipe", 4, 2)
      /\ parts[3] = Piece(path, "pipe", 4, 3) /\ parts[4] = Piece(path, "pipe", 4, 4)
  BY <1>3, <1>4
<1>6. a \in I /\ b \in I /\ c \in I /\ a < b /\ b < c
  <2>1. 1 \in 1 .. Cardinality(I) /\ 2 \in 1 .. Cardinality(I) /\ 3 \in 1 .. Cardinality(I)
    BY <1>2, <1>4
  <2>2. a \in I /\ b \in I /\ c \in I
    BY <1>2, <2>1, NthExists
  <2>3. a < b /\ b < c
    BY <1>2, <2>1, NthGrows
  <2>. QED
    BY <2>2, <2>3
<1>7. /\ parts[1] = SubSeq(path, 1, a - 1)
      /\ parts[2] = SubSeq(path, a + 1, b - 1)
      /\ parts[3] = SubSeq(path, b + 1, c - 1)
      /\ parts[4] = SubSeq(path, c + 1, Len(path))
  BY <1>4, <1>5 DEF Piece
<1>8. path[a] = Pipe /\ path[b] = Pipe /\ path[c] = Pipe
  BY <1>6 DEF Seps, Lexed, Range
<1>9. a \in 1 .. Len(path) /\ b \in 1 .. Len(path) /\ c \in 1 .. Len(path) /\ Len(path) \in Nat
  BY <1>1, <1>2, <1>6
<1> HIDE DEF a, b, c, I
<1>10. c = b + 2 /\ Len(path) = b + 3
       /\ parts[3][1] = path[b + 1] /\ parts[4][1] = path[b + 3]
  <2>1. Len(SubSeq(path, b + 1, c - 1)) = c - 1 - b
    BY <1>1, <1>6, <1>9
  <2>2. Len(SubSeq(path, c + 1, Len(path))) = Len(path) - c
    BY <1>1, <1>9
  <2>3. c = b + 2 /\ Len(path) = b + 3
    <3>1. c - 1 - b = 1 /\ Len(path) - c = 1
      BY <1>7, <2>1, <2>2 DEF IsNumber
    <3>. QED
      BY <1>9, <3>1
  <2>4. parts[3][1] = path[b + 1]
    BY <1>1, <1>7, <1>9, <2>3
  <2>5. parts[4][1] = path[b + 3]
    BY <1>1, <1>7, <1>9, <2>3
  <2>. QED
    BY <2>3, <2>4, <2>5
<1>11. path[b + 1] = Number(parts[3][1].value) /\ path[b + 3] = Number(parts[4][1].value)
  <2>1. b + 1 \in DOMAIN path /\ b + 3 \in DOMAIN path
    BY <1>1, <1>9, <1>10
  <2>2. path[b + 1].kind = "number" /\ path[b + 3].kind = "number"
    BY <1>10 DEF IsNumber
  <2>. QED
    BY <1>10, <2>1, <2>2 DEF Lexed, Range
<1>12. path = SubSeq(path, 1, a - 1) \o <<path[a]>> \o SubSeq(path, a + 1, b - 1)
                \o <<path[b], path[b + 1], path[b + 2], path[b + 3]>>
  BY <1>1, <1>6, <1>9, <1>10, FourPieces
<1>. QED
  BY <1>7, <1>8, <1>10, <1>11, <1>12 DEF RawForm

LEMMA ConcatParts ==
  ASSUME NEW T, NEW left \in Seq(T), NEW right \in Seq(T)
  PROVE  /\ left \o right \in Seq(T) /\ Len(left \o right) = Len(left) + Len(right)
         /\ \A k \in 1 .. Len(left) : (left \o right)[k] = left[k]
         /\ \A k \in 1 .. Len(right) : (left \o right)[Len(left) + k] = right[k]
  OBVIOUS

LEMMA SubSeqOne ==
  ASSUME NEW T, NEW path \in Seq(T), NEW i \in 1 .. Len(path)
  PROVE  Cut(path, i, i) = <<path[i]>>
<1>1. <<path[i]>> = SubSeq(path, i, i)
  OBVIOUS
<1>. QED
  BY <1>1 DEF Cut

(* A part of a path is known by its tokens.                                *)
LEMMA SubSeqIs ==
  ASSUME NEW T, NEW path \in Seq(T), NEW S, NEW part \in Seq(S), NEW m \in Nat,
         m + Len(part) <= Len(path),
         \A k \in 1 .. Len(part) : path[m + k] = part[k]
  PROVE  Cut(path, m + 1, m + Len(part)) = part
<1> DEFINE n == Len(part)
           sub == SubSeq(path, m + 1, m + n)
<1>1. n \in Nat /\ Len(path) \in Nat /\ part = [k \in 1 .. n |-> part[k]]
  OBVIOUS
<1>2. sub \in Seq(T)
  BY <1>1
<1>3. Len(sub) = n
  BY <1>1
<1>4. \A k \in 1 .. n : sub[k] = path[m + k]
  BY <1>1
<1>5. sub = [k \in 1 .. n |-> sub[k]]
  <2> HIDE DEF sub, n
  <2>. QED
    BY <1>2, <1>3
<1> HIDE DEF sub
<1>. QED
  BY <1>1, <1>4, <1>5 DEF sub, Cut

(* The tokens of a raw value.                                              *)
RawTokens(path, bucket, key, start, end, x, y) ==
  /\ Len(path) = y + 3
  /\ \A k \in 1 .. Len(bucket) : path[k] = bucket[k]
  /\ path[x] = Pipe
  /\ \A k \in 1 .. Len(key) : path[x + k] = key[k]
  /\ path[y] = Pipe /\ path[y + 1] = Number(start)
  /\ path[y + 2] = Pipe /\ path[y + 3] = Number(end)

LEMMA RawFormTokens ==
  ASSUME NEW T, NEW bucket \in Seq(T), NEW key \in Seq(T), NEW start, NEW end,
         NEW x \in Nat, x = Len(bucket) + 1, NEW y \in Nat, y = x + Len(key) + 1
  PROVE  /\ RawForm(bucket, key, start, end) \in Seq(T \cup {Pipe, Number(start), Number(end)})
         /\ RawTokens(RawForm(bucket, key, start, end), bucket, key, start, end, x, y)
<1> DEFINE U == T \cup {Pipe, Number(start), Number(end)}
           head == bucket \o <<Pipe>>
           mid == head \o key
           tail == <<Pipe, Number(start), Pipe, Number(end)>>
           w == y - 1
<1>1. bucket \in Seq(U) /\ key \in Seq(U)
  OBVIOUS
<1>2. /\ tail \in Seq(U) /\ Len(tail) = 4
      /\ tail[1] = Pipe /\ tail[2] = Number(start)
      /\ tail[3] = Pipe /\ tail[4] = Number(end)
  OBVIOUS
<1>3. Len(bucket) \in Nat /\ Len(key) \in Nat /\ w \in Nat /\ w = x + Len(key) /\ y = w + 1
  OBVIOUS
<1>4. /\ head \in Seq(U) /\ Len(head) = x
      /\ \A k \in 1 .. Len(bucket) : head[k] = bucket[k]
      /\ head[x] = Pipe
  <2> HIDE DEF U
  <2>1. Pipe \in U
    BY DEF U
  <2>. QED
    BY <1>1, <2>1
<1> HIDE DEF U, head, tail, w
<1>5. /\ mid \in Seq(U) /\ Len(mid) = w
      /\ \A k \in 1 .. x : mid[k] = head[k]
      /\ \A k \in 1 .. Len(key) : mid[x + k] = key[k]
  <2>1. /\ head \o key \in Seq(U) /\ Len(head \o key) = Len(head) + Len(key)
        /\ \A k \in 1 .. Len(head) : (head \o key)[k] = head[k]
        /\ \A k \in 1 .. Len(key) : (head \o key)[Len(head) + k] = key[k]
    <3>1. head \in Seq(U) /\ key \in Seq(U)
      BY <1>1, <1>4
    <3>. QED
      BY <3>1, ConcatParts
  <2>. QED
    BY <1>3, <1>4, <2>1
<1> HIDE DEF mid
<1>6. /\ mid \o tail \in Seq(U) /\ Len(mid \o tail) = w + 4
      /\ \A k \in 1 .. w : (mid \o tail)[k] = mid[k]
      /\ \A k \in 1 .. 4 : (mid \o tail)[w + k] = tail[k]
  <2>1. /\ mid \o tail \in Seq(U) /\ Len(mid \o tail) = Len(mid) + Len(tail)
        /\ \A k \in 1 .. Len(mid) : (mid \o tail)[k] = mid[k]
        /\ \A k \in 1 .. Len(tail) : (mid \o tail)[Len(mid) + k] = tail[k]
    <3>1. mid \in Seq(U) /\ tail \in Seq(U)
      BY <1>2, <1>5
    <3>. QED
      BY <3>1, ConcatParts
  <2>. QED
    BY <1>2, <1>5, <2>1
<1>7. RawForm(bucket, key, start, end) = mid \o tail
  BY DEF RawForm, mid, head, tail
<1>8. \A k \in 1 .. Len(bucket) : (mid \o tail)[k] = bucket[k]
  <2>1. ASSUME NEW k \in 1 .. Len(bucket)
        PROVE  k \in 1 .. x /\ k \in 1 .. w
    BY <1>3
  <2>. QED
    BY <1>4, <1>5, <1>6, <2>1
<1>9. (mid \o tail)[x] = Pipe
  <2>1. x \in 1 .. x /\ x \in 1 .. w
    BY <1>3
  <2>. QED
    BY <1>4, <1>5, <1>6, <2>1
<1>10. \A k \in 1 .. Len(key) : (mid \o tail)[x + k] = key[k]
  <2>1. ASSUME NEW k \in 1 .. Len(key)
        PROVE  x + k \in 1 .. w
    BY <1>3
  <2>. QED
    BY <1>5, <1>6, <2>1
<1>11. /\ (mid \o tail)[y] = Pipe /\ (mid \o tail)[y + 1] = Number(start)
       /\ (mid \o tail)[y + 2] = Pipe /\ (mid \o tail)[y + 3] = Number(end)
  <2>1. /\ w + 1 = y /\ w + 2 = y + 1 /\ w + 3 = y + 2 /\ w + 4 = y + 3
        /\ 1 \in 1 .. 4 /\ 2 \in 1 .. 4 /\ 3 \in 1 .. 4 /\ 4 \in 1 .. 4
    BY <1>3
  <2>. QED
    BY <1>2, <1>6, <2>1
<1>12. Len(mid \o tail) = y + 3
  BY <1>3, <1>6
<1>. QED
  BY <1>6, <1>7, <1>8, <1>9, <1>10, <1>11, <1>12 DEF U, RawTokens

(* A raw value of a bucket and a key without pipes is cut into its parts.  *)
LEMMA SplitRawForm ==
  ASSUME NEW T, NEW bucket \in Seq(T), NEW key \in Seq(T), NEW start, NEW end,
         ~Has(bucket, "pipe"), ~Has(key, "pipe")
  PROVE  SplitN(RawForm(bucket, key, start, end), "pipe", 4) =
           <<bucket, key, <<Number(start)>>, <<Number(end)>>>>
<1> DEFINE path == RawForm(bucket, key, start, end)
           U == T \cup {Pipe, Number(start), Number(end)}
           I == Seps(path, "pipe")
<1>1. PICK x \in Nat, y \in Nat : x = Len(bucket) + 1 /\ y = x + Len(key) + 1
  OBVIOUS
<1>len. Len(bucket) \in Nat /\ Len(key) \in Nat /\ x < y /\ 1 <= x
  BY <1>1
<1> HIDE DEF path, U
<1>2. /\ path \in Seq(U) /\ Len(path) = y + 3
      /\ \A k \in 1 .. Len(bucket) : path[k] = bucket[k]
      /\ path[x] = Pipe
      /\ \A k \in 1 .. Len(key) : path[x + k] = key[k]
      /\ path[y] = Pipe /\ path[y + 1] = Number(start)
      /\ path[y + 2] = Pipe /\ path[y + 3] = Number(end)
  <2>1. path \in Seq(U) /\ RawTokens(path, bucket, key, start, end, x, y)
    BY <1>1, RawFormTokens DEF path, U
  <2>. QED
    BY <2>1 DEF RawTokens
<1>3. Numbers(I) /\ I \subseteq 1 .. y + 3
  BY <1>2, SepsAreNumbers
<1>4. I = {x, y, y + 2}
  <2>1. x \in I /\ y \in I /\ y + 2 \in I
    <3>1. x \in DOMAIN path /\ y \in DOMAIN path /\ y + 2 \in DOMAIN path
      BY <1>1, <1>len, <1>2
    <3>. QED
      BY <1>2, <3>1 DEF Seps, Pipe
  <2>2. ASSUME NEW i \in I
        PROVE  i \in {x, y, y + 2}
    <3>1. path[i].kind = "pipe" /\ i \in 1 .. y + 3
      BY <1>3 DEF Seps
    <3>2. i \notin 1 .. Len(bucket)
      BY <1>2, <3>1 DEF Has
    <3>3. ~(i - x \in 1 .. Len(key))
      <4>1. SUFFICES ASSUME i - x \in 1 .. Len(key) PROVE FALSE
        OBVIOUS
      <4>2. x + (i - x) = i
        BY <1>1, <1>len, <3>1
      <4>3. path[i] = key[i - x]
        BY <1>2, <4>1, <4>2
      <4>. QED
        BY <3>1, <4>1, <4>3 DEF Has
    <3>4. i # y + 1 /\ i # y + 3
      BY <1>2, <3>1 DEF Number
    <3>5. i \in Int /\ 1 <= i /\ i <= y + 3
      BY <3>1
    <3>6. x <= i
      BY <1>1, <1>len, <3>2, <3>5
    <3>7. i = x \/ y <= i
      BY <1>1, <1>len, <3>3, <3>5, <3>6
    <3>. QED
      BY <1>1, <1>len, <3>4, <3>5, <3>7
  <2>. QED
    BY <2>1, <2>2
<1> HIDE DEF I
<1>5. /\ Rank(I, x) = 1 /\ Rank(I, y) = 2 /\ Rank(I, y + 2) = 3
      /\ Cardinality(I) = 3
  <2>1. Rank(I, x) = 1
    BY <1>len, <1>3, <1>4, RankFirst
  <2>2. Rank(I, y) = 2
    BY <1>len, <1>3, <1>4, <2>1, RankNext
  <2>3. Rank(I, y + 2) = 3
    BY <1>len, <1>3, <1>4, <2>2, RankNext
  <2>4. Rank(I, y + 2) = Cardinality(I)
    BY <1>len, <1>3, <1>4, RankLast
  <2>. QED
    BY <2>1, <2>2, <2>3, <2>4
<1>6. Nth(I, 1) = x /\ Nth(I, 2) = y /\ Nth(I, 3) = y + 2
  BY <1>3, <1>4, <1>5, NthOfRank
<1>8. Pieces(path, "pipe", 4) = 4
  BY <1>5 DEF Pieces, I
<1>9. /\ Piece(path, "pipe", 4, 1) = SubSeq(path, 1, x - 1)
      /\ Piece(path, "pipe", 4, 2) = SubSeq(path, x + 1, y - 1)
      /\ Piece(path, "pipe", 4, 3) = SubSeq(path, y + 1, y + 1)
      /\ Piece(path, "pipe", 4, 4) = SubSeq(path, y + 3, y + 3)
  <2>1. (y + 2) - 1 = y + 1 /\ (y + 2) + 1 = y + 3 /\ Len(path) = y + 3
    BY <1>1, <1>2
  <2>i. Seps(path, "pipe") = I
    BY DEF I
  <2>2. Piece(path, "pipe", 4, 1) = Cut(path, 1, x - 1)
    <3>1. Bounds(path, "pipe", 4, 1, 1, x - 1)
      BY <1>6, <1>8, <2>i, <2>1 DEF Bounds
    <3>. QED
      BY <3>1, PieceIs
  <2>3. Piece(path, "pipe", 4, 2) = Cut(path, x + 1, y - 1)
    <3>1. Bounds(path, "pipe", 4, 2, x + 1, y - 1)
      BY <1>6, <1>8, <2>i, <2>1 DEF Bounds
    <3>. QED
      BY <3>1, PieceIs
  <2>4. Piece(path, "pipe", 4, 3) = Cut(path, y + 1, y + 1)
    <3>1. Bounds(path, "pipe", 4, 3, y + 1, y + 1)
      BY <1>6, <1>8, <2>i, <2>1 DEF Bounds
    <3>. QED
      BY <3>1, PieceIs
  <2>5. Piece(path, "pipe", 4, 4) = Cut(path, y + 3, y + 3)
    <3>1. Bounds(path, "pipe", 4, 4, y + 3, y + 3)
      BY <1>6, <1>8, <2>i, <2>1 DEF Bounds
    <3>. QED
      BY <3>1, PieceIs
  <2>. QED
    BY <2>2, <2>3, <2>4, <2>5 DEF Cut
<1>10. SubSeq(path, 1, x - 1) = bucket
  <2>1. 0 + Len(bucket) <= Len(path) /\ x - 1 = 0 + Len(bucket) /\ 0 + 1 = 1
    BY <1>1, <1>len, <1>2
  <2>2. \A k \in 1 .. Len(bucket) : path[0 + k] = bucket[k]
    BY <1>2
  <2>3. 0 \in Nat
    OBVIOUS
  <2>4. Cut(path, 0 + 1, 0 + Len(bucket)) = bucket
    BY <1>2, <2>1, <2>2, <2>3, SubSeqIs
  <2>. QED
    BY <2>1, <2>4 DEF Cut
<1>11. SubSeq(path, x + 1, y - 1) = key
  <2>1. x + Len(key) <= Len(path) /\ y - 1 = x + Len(key)
    BY <1>1, <1>len, <1>2
  <2>2. x \in Nat /\ \A k \in 1 .. Len(key) : path[x + k] = key[k]
    BY <1>1, <1>2
  <2>3. Cut(path, x + 1, x + Len(key)) = key
    BY <1>2, <2>1, <2>2, SubSeqIs
  <2>. QED
    BY <2>1, <2>3 DEF Cut
<1>12. SubSeq(path, y + 1, y + 1) = <<Number(start)>>
  <2>1. y + 1 \in 1 .. Len(path)
    BY <1>1, <1>2
  <2>2. Cut(path, y + 1, y + 1) = <<path[y + 1]>>
    BY <1>2, <2>1, SubSeqOne
  <2>. QED
    BY <1>2, <2>2 DEF Cut
<1>13. SubSeq(path, y + 3, y + 3) = <<Number(end)>>
  <2>1. y + 3 \in 1 .. Len(path)
    BY <1>1, <1>2
  <2>2. Cut(path, y + 3, y + 3) = <<path[y + 3]>>
    BY <1>2, <2>1, SubSeqOne
  <2>. QED
    BY <1>2, <2>2 DEF Cut
<1>14. SplitN(path, "pipe", 4) = [k \in 1 .. 4 |-> Piece(path, "pipe", 4, k)]
  BY <1>8, SplitNIsPieces
<1>15. SplitN(path, "pipe", 4) =
         <<Piece(path, "pipe", 4, 1), Piece(path, "pipe", 4, 2),
           Piece(path, "pipe", 4, 3), Piece(path, "pipe", 4, 4)>>
  BY <1>14
<1>. QED
  BY <1>9, <1>10, <1>11, <1>12, <1>13, <1>15 DEF path

-----------------------------------------------------------------------------
(* What TrimLeft leaves.                                                   *)

(* Slashes in front of a text that does not start with one are taken away. *)
LEMMA TrimLeftInFront ==
  ASSUME NEW T, NEW path \in Seq(T), path # <<>>, path[1].kind # "slash", NEW n \in Nat
  PROVE  TrimLeft([k \in 1 .. n |-> Slash] \o path) = path
<1> DEFINE lead == [k \in 1 .. n |-> Slash]
           all == lead \o path
           U == T \cup {Slash}
           I == {i \in 1 .. Len(all) : all[i].kind # "slash"}
<1>1. lead \in Seq(U) /\ Len(lead) = n /\ \A k \in 1 .. n : lead[k] = Slash
  OBVIOUS
<1>2. path \in Seq(U) /\ Len(path) \in Nat \ {0}
  OBVIOUS
<1> HIDE DEF lead, U
<1>3. /\ all \in Seq(U) /\ Len(all) = n + Len(path)
      /\ \A k \in 1 .. n : all[k] = Slash
      /\ \A k \in 1 .. Len(path) : all[n + k] = path[k]
  BY <1>1, <1>2
<1> HIDE DEF all
<1>4. n + 1 \in I /\ \A i \in I : n + 1 <= i
  <2>1. n + 1 \in 1 .. Len(all) /\ all[n + 1] = path[1]
    BY <1>2, <1>3
  <2>2. ASSUME NEW i \in 1 .. n
        PROVE  all[i].kind = "slash"
    BY <1>3 DEF Slash
  <2>3. ASSUME NEW i \in I
        PROVE  n + 1 <= i
    BY <2>2, <1>3
  <2>. QED
    BY <2>1, <2>3
<1>5. Min(I) = n + 1
  <2>1. \A i \in I : i \in Int
    OBVIOUS
  <2> HIDE DEF I
  <2>2. ASSUME NEW j \in I, \A i \in I : j <= i
        PROVE  j = n + 1
    BY <1>4, <2>1, <2>2
  <2>. QED
    BY <1>4, <2>2 DEF Min
<1>6. SelectInSeq(all, LAMBDA t : t.kind # "slash") = n + 1
  BY <1>4, <1>5 DEF SelectInSeq
<1>7. TrimLeft(all) = SubSeq(all, n + 1, Len(all))
  BY <1>6 DEF TrimLeft
<1>8. SubSeq(all, n + 1, Len(all)) = path
  BY <1>2, <1>3
<1>. QED
  BY <1>7, <1>8 DEF all, lead

-----------------------------------------------------------------------------
(* What parsePointer and parseS3Path make of the forms of an index.        *)
InFront(n) == [k \in 1 .. n |-> Slash]

NodeForm(bucket, key) == bucket \o <<Pipe>> \o key

LEMMA LexedConcat ==
  ASSUME NEW left, NEW right, Lexed(left), Lexed(right)
  PROVE  Lexed(left \o right)
<1> DEFINE T == Range(left) \cup Range(right)
<1>1. left \in Seq(T) /\ right \in Seq(T)
  BY SeqMonotonic DEF Lexed
<1>2. Range(left \o right) = T
  BY <1>1, RangeConcatenation
<1>3. left \o right \in Seq(T)
  BY <1>1
<1>. QED
  BY <1>2, <1>3 DEF Lexed

LEMMA LexedForms ==
  ASSUME NEW bucket, NEW key, Lexed(bucket), Lexed(key), NEW start, NEW end
  PROVE  Lexed(RawForm(bucket, key, start, end)) /\ Lexed(NodeForm(bucket, key))
<1>1. Lexed(<<Pipe>>)
  <2>1. Range(<<Pipe>>) = {Pipe}
    BY DEF Range
  <2>. QED
    BY <2>1 DEF Lexed, Pipe
<1>2. Lexed(<<Pipe, Number(start), Pipe, Number(end)>>)
  <2> DEFINE tail == <<Pipe, Number(start), Pipe, Number(end)>>
  <2>1. tail \in Seq({Pipe, Number(start), Number(end)})
    OBVIOUS
  <2>2. Range(tail) = {Pipe, Number(start), Number(end)}
    BY DEF Range
  <2>3. \A t \in {Pipe, Number(start), Number(end)} :
          /\ t.kind = "slash" => t = Slash
          /\ t.kind = "pipe" => t = Pipe
          /\ t.kind = "number" => t = Number(t.value)
    BY DEF Pipe, Number
  <2> HIDE DEF tail
  <2>. QED
    BY <2>1, <2>2, <2>3 DEF Lexed, tail
<1>. QED
  BY <1>1, <1>2, LexedConcat DEF RawForm, NodeForm

(* Concatenation under a name: it is associative.                          *)
Cat(a, b) == a \o b

LEMMA CatAssociative ==
  ASSUME NEW T, NEW a \in Seq(T), NEW b \in Seq(T), NEW c \in Seq(T)
  PROVE  /\ Cat(Cat(a, b), c) = Cat(a, Cat(b, c))
         /\ Cat(a, b) \in Seq(T)
<1>1. (a \o b) \o c = a \o (b \o c)
  OBVIOUS
<1>. QED
  BY <1>1 DEF Cat

(* Both forms start with the bucket, and so with no slash.                 *)
LEMMA FormsStartWithBucket ==
  ASSUME NEW bucket, IsBucketName(bucket), NEW key, Lexed(key), NEW start, NEW end, NEW n \in Nat
  PROVE  /\ TrimLeft(InFront(n) \o RawForm(bucket, key, start, end)) = RawForm(bucket, key, start, end)
         /\ TrimLeft(InFront(n) \o NodeForm(bucket, key)) = NodeForm(bucket, key)
<1>1. bucket \in Seq(Range(bucket)) /\ bucket # <<>> /\ key \in Seq(Range(key))
  BY DEF IsBucketName, Lexed
<1>2. 1 \in DOMAIN bucket /\ bucket[1].kind # "slash" /\ Len(bucket) \in Nat \ {0}
  BY <1>1 DEF IsBucketName, Has
<1>3. ASSUME NEW T, NEW rest \in Seq(T)
      PROVE  TrimLeft(InFront(n) \o (bucket \o rest)) = bucket \o rest
  <2> DEFINE U == Range(bucket) \cup T
             path == bucket \o rest
  <2>1. bucket \in Seq(U) /\ rest \in Seq(U)
    BY <1>1, <1>3, SeqMonotonic
  <2> HIDE DEF U
  <2>2. path \in Seq(U) /\ path # <<>> /\ path[1] = bucket[1]
    BY <1>2, <2>1
  <2> HIDE DEF path
  <2>3. TrimLeft([k \in 1 .. n |-> Slash] \o path) = path
    BY <1>2, <2>2, TrimLeftInFront
  <2>. QED
    BY <2>3 DEF InFront, path
<1> DEFINE T == Range(bucket) \cup Range(key) \cup {Pipe, Number(start), Number(end)}
           tail == <<Pipe, Number(start), Pipe, Number(end)>>
<1>4. bucket \in Seq(T) /\ key \in Seq(T) /\ <<Pipe>> \in Seq(T) /\ tail \in Seq(T)
  BY <1>1, SeqMonotonic
<1> HIDE DEF T, tail
<1>5. <<Pipe>> \o key \in Seq(T) /\ (<<Pipe>> \o key) \o tail \in Seq(T)
  BY <1>4
<1>6. NodeForm(bucket, key) = bucket \o (<<Pipe>> \o key)
  BY <1>4, CatAssociative DEF NodeForm, Cat
<1>7. RawForm(bucket, key, start, end) = bucket \o ((<<Pipe>> \o key) \o tail)
  <2>1. RawForm(bucket, key, start, end) = NodeForm(bucket, key) \o tail
    BY DEF RawForm, NodeForm, tail
  <2>2. (bucket \o (<<Pipe>> \o key)) \o tail = bucket \o ((<<Pipe>> \o key) \o tail)
    <3> DEFINE mid == <<Pipe>> \o key
    <3>1. mid \in Seq(T)
      BY <1>5
    <3> HIDE DEF mid
    <3>2. Cat(Cat(bucket, mid), tail) = Cat(bucket, Cat(mid, tail))
      BY <1>4, <3>1, CatAssociative
    <3>. QED
      BY <3>2 DEF Cat, mid
  <2>. QED
    BY <1>6, <2>1, <2>2
<1>. QED
  BY <1>3, <1>5, <1>6, <1>7

(* The raw value of a key without pipes is resolved to what it says.       *)
LEMMA RawFormResolves ==
  ASSUME NEW bucket, IsBucketName(bucket), NEW key, Lexed(key), ~Has(key, "pipe"),
         NEW start, NEW end, NEW n \in Nat, NEW metaStart, NEW metaEnd
  PROVE  ParsePointer(InFront(n) \o RawForm(bucket, key, start, end), metaStart, metaEnd)
           = Located(bucket, key, start, end)
<1> DEFINE path == RawForm(bucket, key, start, end)
           parts == <<bucket, key, <<Number(start)>>, <<Number(end)>>>>
           T == Range(bucket) \cup Range(key)
<1>1. bucket \in Seq(T) /\ key \in Seq(T)
  BY SeqMonotonic DEF IsBucketName, Lexed
<1>2. SplitN(path, "pipe", 4) = parts
  BY <1>1, SplitRawForm DEF IsBucketName
<1>3. TrimLeft(InFront(n) \o path) = path
  BY FormsStartWithBucket
<1>4. /\ Len(parts) = 4 /\ parts[1] = bucket /\ parts[2] = key
      /\ parts[3] = <<Number(start)>> /\ parts[4] = <<Number(end)>>
  OBVIOUS
<1> HIDE DEF path, parts
<1>5. ParsePointer(InFront(n) \o path, metaStart, metaEnd) = FromRawValue(parts)
  BY <1>2, <1>3, <1>4 DEF ParsePointer
<1>6. FromRawValue(parts) = Located(bucket, key, start, end)
  BY <1>4 DEF FromRawValue, IsNumber, Number
<1>. QED
  BY <1>5, <1>6 DEF path

(* The form of the rocksdb-node is cut at the pipe after the bucket.       *)
LEMMA NodeFormSplits ==
  ASSUME NEW bucket, IsBucketName(bucket), NEW key, Lexed(key)
  PROVE  SplitN(NodeForm(bucket, key), "pipe", 2) = <<bucket, key>>
<1> DEFINE T == Range(bucket) \cup Range(key) \cup {Pipe}
<1>1. bucket \in Seq(T) /\ key \in Seq(T)
  BY SeqMonotonic DEF IsBucketName, Lexed
<1>2. Pipe \in T /\ Pipe.kind = "pipe" /\ ~Has(bucket, "pipe")
  BY DEF Pipe, IsBucketName
<1> HIDE DEF T
<1>. QED
  BY <1>1, <1>2, SplitOnce DEF NodeForm

(* Unless the key has pipes enough to make it look like a raw value, the   *)
(* form of the rocksdb-node is resolved to what it says.                   *)
LEMMA NodeFormResolves ==
  ASSUME NEW bucket, IsBucketName(bucket), NEW key, Lexed(key), NEW n \in Nat,
         NEW start \in Int, NEW end \in Int, start < end,
         Len(SplitN(NodeForm(bucket, key), "pipe", 4)) # 4
  PROVE  ParsePointer(InFront(n) \o NodeForm(bucket, key), start, end)
           = Located(bucket, key, start, end)
<1> DEFINE path == NodeForm(bucket, key)
           parts == <<bucket, key>>
<1>1. SplitN(path, "pipe", 2) = parts
  BY NodeFormSplits
<1>2. TrimLeft(InFront(n) \o path) = path
  BY FormsStartWithBucket
<1>3. Len(parts) = 2 /\ parts[1] = bucket /\ parts[2] = key /\ bucket # <<>>
  BY DEF IsBucketName
<1> HIDE DEF path, parts
<1>4. ParsePointer(InFront(n) \o path, start, end) = FromFields(path, start, end)
  BY <1>2 DEF ParsePointer, path
<1>5. FromFields(path, start, end) = Located(bucket, key, start, end)
  <2>1. ~(end <= start) /\ end > start
    OBVIOUS
  <2>. QED
    BY <1>1, <1>3, <2>1 DEF FromFields
<1>. QED
  BY <1>4, <1>5 DEF path

(* Without a pipe in the key there is one in the path: too few for a raw   *)
(* value.                                                                  *)
LEMMA NodeFormIsNoRawValue ==
  ASSUME NEW bucket, IsBucketName(bucket), NEW key, Lexed(key), ~Has(key, "pipe")
  PROVE  Len(SplitN(NodeForm(bucket, key), "pipe", 4)) # 4
<1> DEFINE T == Range(bucket) \cup Range(key) \cup {Pipe}
           path == NodeForm(bucket, key)
           I == Seps(path, "pipe")
           a == Len(bucket) + 1
<1>1. bucket \in Seq(T) /\ key \in Seq(T) /\ <<Pipe>> \in Seq(T)
  BY SeqMonotonic DEF IsBucketName, Lexed
<1> HIDE DEF T
<1>2. /\ path \in Seq(T) /\ Len(path) = a + Len(key)
      /\ \A k \in 1 .. Len(bucket) : path[k] = bucket[k]
      /\ \A k \in 1 .. Len(key) : path[a + k] = key[k]
  BY <1>1 DEF NodeForm
<1>3. Len(bucket) \in Nat /\ Len(key) \in Nat /\ a \in Nat
  BY <1>1
<1> HIDE DEF path, a
<1>4. I \subseteq {a}
  <2>1. ASSUME NEW i \in I
        PROVE  i = a
    <3>1. path[i].kind = "pipe" /\ i \in 1 .. Len(path)
      BY <1>2 DEF Seps
    <3>2. i \notin 1 .. Len(bucket)
      BY <1>1, <1>2, <3>1 DEF Has, IsBucketName
    <3>3. ~(i - a \in 1 .. Len(key))
      <4>1. SUFFICES ASSUME i - a \in 1 .. Len(key) PROVE FALSE
        OBVIOUS
      <4>2. path[a + (i - a)] = key[i - a] /\ i - a \in DOMAIN key
        BY <1>1, <1>2, <4>1
      <4>3. a + (i - a) = i
        BY <1>3, <3>1
      <4>. QED
        BY <3>1, <4>2, <4>3 DEF Has
    <3>. QED
      BY <1>2, <1>3, <3>1, <3>2, <3>3 DEF a
  <2>. QED
    BY <2>1
<1>5. Cardinality(I) \in Nat /\ Cardinality(I) <= 1
  <2>1. IsFiniteSet({a}) /\ Cardinality({a}) = 1
    BY FS_Singleton
  <2>2. I \in SUBSET {a}
    BY <1>4
  <2>3. IsFiniteSet(I) /\ Cardinality(I) <= 1
    BY <2>1, <2>2, FS_Subset
  <2>. QED
    BY <2>3, FS_CardinalityType
<1>6. Pieces(path, "pipe", 4) = Cardinality(I) + 1
  BY <1>5 DEF Pieces
<1>7. Len(SplitN(path, "pipe", 4)) = Pieces(path, "pipe", 4)
  <2> DEFINE m == Pieces(path, "pipe", 4)
             piece(k) == Piece(path, "pipe", 4, k)
  <2>1. m \in Nat
    BY <1>5, <1>6
  <2>2. SplitN(path, "pipe", 4) = [k \in 1 .. m |-> piece(k)]
    BY SplitNIsPieces
  <2> HIDE DEF m, piece
  <2>. QED
    BY <2>1, <2>2 DEF m
<1> HIDE DEF I
<1>8. Cardinality(I) + 1 # 4
  BY <1>5
<1>. QED
  BY <1>6, <1>7, <1>8 DEF path

-----------------------------------------------------------------------------
(* What a segment holds.                                                   *)

LEMMA GreatestNumber ==
  ASSUME NEW I, Numbers(I), I # {}
  PROVE  Max(I) \in I /\ \A i \in I : i <= Max(I)
<1> DEFINE n == Cardinality(I)
           m == Nth(I, n)
<1>1. n \in Nat \ {0}
  BY FS_CardinalityType, FS_EmptySet DEF Numbers
<1>2. n \in 1 .. n
  BY <1>1
<1>3. m \in I /\ Rank(I, m) = n
  BY <1>2, NthExists
<1> HIDE DEF m
<1>4. Upto(I, m) = I
  BY <1>3, FS_Subset DEF Rank, Upto, Numbers
<1>5. \A i \in I : i \in Int /\ i <= m
  BY <1>4 DEF Upto, Numbers
<1>6. \A i \in I : m >= i
  BY <1>3, <1>5
<1>7. Max(I) \in I /\ \A i \in I : Max(I) >= i
  BY <1>3, <1>6 DEF Max
<1>. QED
  BY <1>5, <1>7

LEMMA LeastNumber ==
  ASSUME NEW I, Numbers(I), I # {}
  PROVE  Min(I) \in I /\ \A i \in I : Min(I) <= i
<1> DEFINE m == Nth(I, 1)
<1>1. Cardinality(I) \in Nat \ {0}
  BY FS_CardinalityType, FS_EmptySet DEF Numbers
<1>2. 1 \in 1 .. Cardinality(I)
  BY <1>1
<1>3. m \in I /\ Rank(I, m) = 1
  BY <1>2, NthExists
<1> HIDE DEF m
<1>4. \A i \in I : i \in Int
  BY DEF Numbers
<1>5. ASSUME NEW i \in I, i < m
      PROVE  FALSE
  <2>1. Rank(I, i) < Rank(I, m)
    BY <1>3, <1>5, RankGrows
  <2>2. Rank(I, i) \in 1 .. Cardinality(I)
    BY RankType
  <2>. QED
    BY <1>1, <1>3, <2>1, <2>2
<1>6. \A i \in I : m <= i
  BY <1>3, <1>4, <1>5
<1>7. Min(I) \in I /\ \A i \in I : Min(I) <= i
  BY <1>3, <1>6 DEF Min
<1>. QED
  BY <1>7

(* A segment holds all of its lines.                                       *)
LEMMA SizeHoldsLines ==
  ASSUME NEW segment, IsSegment(segment)
  PROVE  Size(segment) \in Nat /\ \A line \in segment : line.to <= Size(segment)
<1> DEFINE ends == {l.to : l \in segment}
           I == {0} \cup ends
           end == [l \in segment |-> l.to]
<1>1. end \in Surjection(segment, ends)
  <2>1. end \in [segment -> ends]
    OBVIOUS
  <2>2. \A t \in ends : \E l \in segment : end[l] = t
    OBVIOUS
  <2>. QED
    BY <2>1, <2>2 DEF Surjection
<1>2. IsFiniteSet(ends)
  BY <1>1, FS_Surjection DEF IsSegment
<1>3. IsFiniteSet(I)
  <2>1. I = ends \cup {0}
    OBVIOUS
  <2>. QED
    BY <1>2, <2>1, FS_AddElement
<1>4. \A i \in I : i \in Nat
  BY DEF IsSegment
<1>5. I # {} /\ \A line \in segment : line.to \in I
  OBVIOUS
<1>6. Size(segment) = Max(I)
  BY DEF Size
<1> HIDE DEF I
<1>7. Numbers(I)
  BY <1>3, <1>4 DEF Numbers
<1>. QED
  BY <1>4, <1>5, <1>6, <1>7, GreatestNumber
-----------------------------------------------------------------------------
(* The older reader: what parseS3Path makes of a path, and which paths it  *)
(* makes something of.                                                     *)

(* "s3://bucket/key".                                                      *)
UriForm(bucket, key) == <<Scheme, Slash, Slash>> \o bucket \o <<Slash>> \o key

(* A text that is cut in two is its pieces with a separator between them.  *)
IsCutIn(path, parts, sep, T) ==
  \E i \in 1 .. Len(path) :
     /\ parts[1] \in Seq(T) /\ parts[2] \in Seq(T)
     /\ path[i].kind = sep /\ path = parts[1] \o <<path[i]>> \o parts[2]

LEMMA TwoPieces ==
  ASSUME NEW T, NEW path \in Seq(T), NEW sep, NEW parts, parts = SplitN(path, sep, 2),
         Len(parts) = 2
  PROVE  IsCutIn(path, parts, sep, T)
<1> DEFINE I == Seps(path, sep)
           a == Nth(I, 1)
           m == Pieces(path, sep, 2)
           piece(k) == Piece(path, sep, 2, k)
<1>1. Numbers(I) /\ Cardinality(I) \in Nat /\ I \subseteq 1 .. Len(path)
  BY SepsAreNumbers
<1>2. m \in Nat /\ parts = [k \in 1 .. m |-> piece(k)]
  BY <1>1, SplitNIsPieces DEF Pieces
<1>3. m = 2 /\ parts[1] = piece(1) /\ parts[2] = piece(2)
  <2> HIDE DEF m, piece
  <2>1. Len(parts) = m
    BY <1>2
  <2>. QED
    BY <1>2, <2>1
<1>4. 1 \in 1 .. Cardinality(I)
  BY <1>1, <1>3 DEF Pieces
<1>5. a \in I
  BY <1>1, <1>4, NthExists
<1>6. a \in 1 .. Len(path) /\ path[a].kind = sep /\ Len(path) \in Nat
  BY <1>1, <1>5 DEF Seps
<1>7. parts[1] = SubSeq(path, 1, a - 1) /\ parts[2] = SubSeq(path, a + 1, Len(path))
  BY <1>3 DEF Piece
<1> HIDE DEF a, I, m, piece
<1>8. <<path[a]>> = SubSeq(path, a, a)
  BY <1>6
<1>9. SubSeq(path, 1, a - 1) \o SubSeq(path, a, a) = SubSeq(path, 1, a)
  <2>1. /\ 1 \in 1 .. Len(path) + 1 /\ a - 1 \in 1 - 1 .. Len(path)
        /\ a \in a - 1 .. Len(path) /\ (a - 1) + 1 = a
    BY <1>6
  <2>. QED
    BY <2>1, ConcatAdjacentSubSeq
<1>10. SubSeq(path, 1, a) \o SubSeq(path, a + 1, Len(path)) = SubSeq(path, 1, Len(path))
  <2>1. /\ 1 \in 1 .. Len(path) + 1 /\ a \in 1 - 1 .. Len(path)
        /\ Len(path) \in a .. Len(path)
    BY <1>6
  <2>. QED
    BY <2>1, ConcatAdjacentSubSeq
<1>11. SubSeq(path, 1, Len(path)) = path
  BY SubSeqFull
<1>12. path = parts[1] \o <<path[a]>> \o parts[2]
  BY <1>7, <1>8, <1>9, <1>10, <1>11, Zenon
<1>13. parts[1] \in Seq(T) /\ parts[2] \in Seq(T)
  <2>1. \A k \in 1 .. Len(path) : path[k] \in T
    OBVIOUS
  <2>2. 1 \in Int /\ a - 1 \in Int /\ \A k \in 1 .. a - 1 : path[k] \in T
    BY <1>6, <2>1
  <2>3. a + 1 \in Int /\ Len(path) \in Int /\ \A k \in a + 1 .. Len(path) : path[k] \in T
    BY <1>6, <2>1
  <2>4. SubSeq(path, 1, a - 1) \in Seq(T)
    BY <2>2, SubSeqProperties, Zenon
  <2>5. SubSeq(path, a + 1, Len(path)) \in Seq(T)
    BY <2>3, SubSeqProperties, Zenon
  <2>. QED
    BY <1>7, <2>4, <2>5, Zenon
<1>. QED
  BY <1>6, <1>12, <1>13, Zenon DEF IsCutIn

(* The prefix of a URI and what is behind it.                              *)
IsUri(path, rest) ==
  /\ Len(path) = 3 + Len(rest) /\ SubSeq(path, 1, 3) = <<Scheme, Slash, Slash>>
  /\ SubSeq(path, 4, Len(path)) = rest
  /\ \A i \in DOMAIN path : path[i] \in {Scheme, Slash} \/ \E j \in DOMAIN rest : path[i] = rest[j]

LEMMA UriParts ==
  ASSUME NEW T, NEW rest \in Seq(T), NEW path, path = <<Scheme, Slash, Slash>> \o rest
  PROVE  IsUri(path, rest)
<1> DEFINE U == T \cup {Scheme, Slash}
           head == <<Scheme, Slash, Slash>>
<1>1. head \in Seq(U) /\ rest \in Seq(U) /\ Len(head) = 3 /\ \A k \in 1 .. 3 : head[k] \in {Scheme, Slash}
  OBVIOUS
<1> HIDE DEF U, head
<1>2. /\ path \in Seq(U) /\ Len(path) = 3 + Len(rest)
      /\ \A k \in 1 .. 3 : path[k] = head[k]
      /\ \A k \in 1 .. Len(rest) : path[3 + k] = rest[k]
  <2>1. path = head \o rest
    BY DEF head
  <2>. QED
    BY <1>1, <2>1, ConcatParts
<1>3. Cut(path, 0 + 1, 0 + Len(head)) = head
  <2>1. /\ 0 \in Nat /\ 0 + Len(head) <= Len(path)
        /\ \A k \in 1 .. Len(head) : path[0 + k] = head[k]
    BY <1>1, <1>2
  <2>. QED
    BY <1>1, <1>2, <2>1, SubSeqIs
<1>4. Cut(path, 3 + 1, 3 + Len(rest)) = rest
  <2>1. 3 \in Nat /\ 3 + Len(rest) <= Len(path)
    BY <1>2
  <2>. QED
    BY <1>1, <1>2, <2>1, SubSeqIs
<1>5. \A i \in DOMAIN path : path[i] \in {Scheme, Slash} \/ \E j \in DOMAIN rest : path[i] = rest[j]
  <2>1. ASSUME NEW i \in DOMAIN path
        PROVE  path[i] \in {Scheme, Slash} \/ \E j \in DOMAIN rest : path[i] = rest[j]
    <3>1. i \in 1 .. 3 + Len(rest)
      BY <1>2
    <3>2. CASE i <= 3
      BY <1>1, <1>2, <3>1, <3>2
    <3>3. CASE i > 3
      <4>1. i - 3 \in DOMAIN rest /\ i - 3 \in 1 .. Len(rest) /\ 3 + (i - 3) = i
        BY <1>2, <3>1, <3>3
      <4>. QED
        BY <1>2, <4>1
    <3>. QED
      BY <3>1, <3>2, <3>3
  <2>. QED
    BY <2>1
<1>. QED
  BY <1>1, <1>2, <1>3, <1>4, <1>5 DEF Cut, head, IsUri

LEMMA NodeFormHasPipe ==
  ASSUME NEW bucket, IsBucketName(bucket), NEW key, Lexed(key)
  PROVE  Has(NodeForm(bucket, key), "pipe")
<1> DEFINE T == Range(bucket) \cup Range(key) \cup {Pipe}
<1>1. bucket \in Seq(T) /\ key \in Seq(T) /\ Pipe \in T
  BY SeqMonotonic DEF IsBucketName, Lexed
<1> HIDE DEF T
<1>2. /\ NodeForm(bucket, key)[Len(bucket) + 1] = Pipe
      /\ Len(bucket) + 1 \in DOMAIN NodeForm(bucket, key)
  BY <1>1 DEF NodeForm
<1>. QED
  BY <1>2 DEF Has, Pipe

LEMMA NodeFormResolvesOld ==
  ASSUME NEW bucket, IsBucketName(bucket), NEW key, Lexed(key), key # <<>>, NEW start, NEW end
  PROVE  ParseS3Path(NodeForm(bucket, key), start, end) = Located(bucket, key, start, end)
<1> DEFINE path == NodeForm(bucket, key)
           parts == <<bucket, key>>
<1>1. Has(path, "pipe") /\ SplitN(path, "pipe", 2) = parts
  BY NodeFormHasPipe, NodeFormSplits
<1>2. Len(parts) = 2 /\ parts[1] = bucket /\ parts[2] = key
  OBVIOUS
<1>3. bucket # <<>> /\ key # <<>>
  BY DEF IsBucketName
<1> HIDE DEF path, parts
<1>4. ParseS3Path(path, start, end) = Located(bucket, key, start, end)
  BY <1>1, <1>2, <1>3 DEF ParseS3Path
<1>. QED
  BY <1>4 DEF path

LEMMA UriFormResolvesOld ==
  ASSUME NEW bucket, IsBucketName(bucket), NEW key, Lexed(key), key # <<>>, ~Has(key, "pipe"),
         NEW start, NEW end
  PROVE  ParseS3Path(UriForm(bucket, key), start, end) = Located(bucket, key, start, end)
<1> DEFINE T == Range(bucket) \cup Range(key) \cup {Slash, Scheme}
           path == UriForm(bucket, key)
           head == <<Scheme, Slash, Slash>>
           rest == bucket \o <<Slash>> \o key
           parts == <<bucket, key>>
<1>1. bucket \in Seq(T) /\ key \in Seq(T) /\ Slash \in T /\ head \in Seq(T)
  BY SeqMonotonic DEF IsBucketName, Lexed
<1>2. ~Has(bucket, "slash") /\ Slash.kind = "slash" /\ ~Has(bucket, "pipe") /\ bucket # <<>>
  BY DEF IsBucketName, Slash
<1> HIDE DEF T
<1>3. path = head \o rest /\ rest \in Seq(T)
  <2>1. <<Slash>> \in Seq(T)
    BY <1>1
  <2> DEFINE one == <<Slash>>
  <2> HIDE DEF one, head
  <2>2. /\ Cat(Cat(head, bucket), one) = Cat(head, Cat(bucket, one))
        /\ Cat(bucket, one) \in Seq(T)
    <3>1. one \in Seq(T) /\ head \in Seq(T)
      BY <1>1, <2>1 DEF one
    <3>. QED
      BY <1>1, <3>1, CatAssociative
  <2>3. /\ Cat(Cat(head, Cat(bucket, one)), key) = Cat(head, Cat(Cat(bucket, one), key))
        /\ Cat(Cat(bucket, one), key) \in Seq(T)
    BY <1>1, <2>2, CatAssociative
  <2>. QED
    BY <2>2, <2>3, Zenon DEF Cat, UriForm, head, one
<1>4. SplitN(rest, "slash", 2) = parts
  BY <1>1, <1>2, SplitOnce
<1>5. ~Has(rest, "pipe")
  <2>1. /\ DOMAIN rest = 1 .. Len(bucket) + 1 + Len(key)
        /\ \A i \in 1 .. Len(bucket) : rest[i] = bucket[i]
        /\ rest[Len(bucket) + 1] = Slash
        /\ \A i \in 1 .. Len(key) : rest[Len(bucket) + 1 + i] = key[i]
    BY <1>1
  <2>2. Len(bucket) \in Nat /\ Len(key) \in Nat
        /\ DOMAIN bucket = 1 .. Len(bucket) /\ DOMAIN key = 1 .. Len(key)
    BY <1>1
  <2>3. Slash.kind # "pipe"
    BY DEF Slash
  <2> HIDE DEF rest
  <2>4. ASSUME NEW i \in DOMAIN rest, rest[i].kind = "pipe" PROVE FALSE
    <3>1. \/ i \in 1 .. Len(bucket) \/ i = Len(bucket) + 1
          \/ i - (Len(bucket) + 1) \in 1 .. Len(key) /\ Len(bucket) + 1 + (i - (Len(bucket) + 1)) = i
      BY <2>1, <2>2
    <3>2. i \notin 1 .. Len(bucket)
      BY <1>2, <2>1, <2>2, <2>4 DEF Has
    <3>3. i # Len(bucket) + 1
      BY <2>1, <2>3, <2>4
    <3> DEFINE j == i - (Len(bucket) + 1)
    <3>4. j \in 1 .. Len(key) /\ Len(bucket) + 1 + j = i
      BY <3>1, <3>2, <3>3
    <3> HIDE DEF j
    <3>5. key[j].kind = "pipe" /\ j \in DOMAIN key
      BY <2>1, <2>2, <2>4, <3>4
    <3>. QED
      BY <3>5 DEF Has
  <2>. QED
    BY <2>4 DEF Has
<1> HIDE DEF rest, path, head
<1>6. /\ Len(path) = 3 + Len(rest) /\ SubSeq(path, 1, 3) = <<Scheme, Slash, Slash>>
      /\ SubSeq(path, 4, Len(path)) = rest
      /\ \A i \in DOMAIN path : path[i] \in {Scheme, Slash} \/ \E j \in DOMAIN rest : path[i] = rest[j]
  <2>1. path = <<Scheme, Slash, Slash>> \o rest
    BY <1>3 DEF head
  <2>2. IsUri(path, rest)
    BY <1>3, <2>1, UriParts
  <2>. QED
    BY <2>2 DEF IsUri
<1>7. ~Has(path, "pipe")
  BY <1>5, <1>6 DEF Has, Scheme, Slash
<1>8. Len(path) >= 3
  BY <1>3, <1>6
<1>9. Len(parts) = 2 /\ parts[1] = bucket /\ parts[2] = key
  OBVIOUS
<1> HIDE DEF parts
<1>10. ParseS3Path(path, start, end) = Located(bucket, key, start, end)
  BY <1>2, <1>4, <1>6, <1>7, <1>8, <1>9 DEF ParseS3Path
<1>. QED
  BY <1>10 DEF path

(* The two forms are the only paths that parseS3Path locates anything by.  *)
LEMMA LocatedOldIsAForm ==
  ASSUME NEW path, Lexed(path), NEW start, NEW end, NEW place,
         place = ParseS3Path(path, start, end), place.ok
  PROVE  /\ place = Located(place.bucket, place.key, start, end)
         /\ place.bucket \in Seq(Range(path)) /\ place.key \in Seq(Range(path))
         /\ \/ path = NodeForm(place.bucket, place.key)
            \/ path = UriForm(place.bucket, place.key)
<1> DEFINE T == Range(path)
           rest == SubSeq(path, 4, Len(path))
           pipes == SplitN(path, "pipe", 2)
           slashes == SplitN(rest, "slash", 2)
           At(parts) == Len(parts) = 2 /\ place = Located(parts[1], parts[2], start, end)
<1>1. path \in Seq(T)
  BY DEF Lexed
<1>2. \/ Has(path, "pipe") /\ At(pipes)
      \/ /\ Len(path) >= 3 /\ SubSeq(path, 1, 3) = <<Scheme, Slash, Slash>>
         /\ At(slashes)
  <2> HIDE DEF rest
  <2>1. CASE Has(path, "pipe")
    BY <2>1 DEF ParseS3Path, Unresolved
  <2>2. CASE ~Has(path, "pipe")
    BY <2>2 DEF ParseS3Path, Unresolved, rest
  <2>. QED
    BY <2>1, <2>2
<1>3. CASE At(pipes)
  <2>1. Len(pipes) = 2 /\ place = Located(pipes[1], pipes[2], start, end)
    BY <1>3
  <2> HIDE DEF pipes, T
  <2>2. pipes = SplitN(path, "pipe", 2)
    BY DEF pipes
  <2>3. PICK i \in 1 .. Len(path) :
          /\ pipes[1] \in Seq(T) /\ pipes[2] \in Seq(T)
          /\ path[i].kind = "pipe" /\ path = pipes[1] \o <<path[i]>> \o pipes[2]
    <3>1. IsCutIn(path, pipes, "pipe", T)
      BY <1>1, <2>1, <2>2, TwoPieces
    <3>. QED
      BY <3>1, Zenon DEF IsCutIn
  <2>4. path[i] = Pipe
    <3>1. path[i] \in Range(path)
      <4>1. i \in 1 .. Len(path)
        OBVIOUS
      <4>2. path[i] \in T
        BY <1>1, <4>1
      <4>. QED
        BY <4>2 DEF T
    <3>2. path[i].kind = "pipe"
      BY <2>3
    <3>. QED
      BY <3>1, <3>2 DEF Lexed
  <2>5. path = NodeForm(pipes[1], pipes[2])
    BY <2>3, <2>4 DEF NodeForm
  <2>6. place.bucket = pipes[1] /\ place.key = pipes[2]
    BY <2>1 DEF Located
  <2>. QED
    BY <2>1, <2>3, <2>5, <2>6 DEF T
<1>4. CASE /\ Len(path) >= 3 /\ SubSeq(path, 1, 3) = <<Scheme, Slash, Slash>>
           /\ At(slashes)
  <2>1. Len(slashes) = 2 /\ place = Located(slashes[1], slashes[2], start, end)
    BY <1>4
  <2>2. rest \in Seq(T)
    BY <1>1
  <2>3. path = <<Scheme, Slash, Slash>> \o rest
    <3>1. 1 \in 1 .. Len(path) + 1 /\ 3 \in 1 - 1 .. Len(path) /\ Len(path) \in 3 .. Len(path) /\ 3 + 1 = 4
      BY <1>1, <1>4
    <3>2. SubSeq(path, 1, 3) \o SubSeq(path, 3 + 1, Len(path)) = SubSeq(path, 1, Len(path))
      BY <1>1, <3>1, ConcatAdjacentSubSeq, Zenon
    <3>3. SubSeq(path, 1, Len(path)) = path
      BY <1>1, SubSeqFull, Zenon
    <3>. QED
      BY <1>4, <3>1, <3>2, <3>3, Zenon
  <2>4. \A i \in 1 .. Len(rest) : rest[i].kind = "slash" => rest[i] = Slash
    <3>1. \A i \in 1 .. Len(rest) : rest[i] \in T
      BY <2>2
    <3>. QED
      BY <3>1 DEF Lexed
  <2> HIDE DEF rest, slashes, T
  <2>5. slashes = SplitN(rest, "slash", 2)
    BY DEF slashes
  <2>6. PICK i \in 1 .. Len(rest) :
          /\ slashes[1] \in Seq(T) /\ slashes[2] \in Seq(T)
          /\ rest[i].kind = "slash" /\ rest = slashes[1] \o <<rest[i]>> \o slashes[2]
    <3>1. IsCutIn(rest, slashes, "slash", T)
      BY <2>1, <2>2, <2>5, TwoPieces
    <3>. QED
      BY <3>1, Zenon DEF IsCutIn
  <2>7. rest = slashes[1] \o <<Slash>> \o slashes[2]
    BY <2>4, <2>6
  <2>8. path = UriForm(slashes[1], slashes[2])
    <3> DEFINE a == slashes[1]
               b == slashes[2]
               one == <<Slash>>
               head == <<Scheme, Slash, Slash>>
               U == T \cup {Slash, Scheme}
    <3>1. a \in Seq(U) /\ b \in Seq(U) /\ one \in Seq(U) /\ head \in Seq(U)
      BY <2>6
    <3>2. path = Cat(head, Cat(Cat(a, one), b))
      BY <2>3, <2>7, Zenon DEF Cat
    <3> HIDE DEF a, b, one, head, U
    <3>3. Cat(Cat(head, a), one) = Cat(head, Cat(a, one)) /\ Cat(a, one) \in Seq(U)
      BY <3>1, CatAssociative
    <3>4. Cat(Cat(head, Cat(a, one)), b) = Cat(head, Cat(Cat(a, one), b))
      BY <3>1, <3>3, CatAssociative
    <3>5. path = Cat(Cat(Cat(head, a), one), b)
      BY <3>2, <3>3, <3>4
    <3>. QED
      BY <3>5, Zenon DEF Cat, UriForm, a, b, one, head
  <2>9. place.bucket = slashes[1] /\ place.key = slashes[2]
    BY <2>1 DEF Located
  <2>. QED
    BY <2>1, <2>6, <2>8, <2>9 DEF T
<1>. QED
  BY <1>2, <1>3, <1>4

(* Where a bucket ends and a key begins, when the bucket has no slash.     *)
LEMMA OneBucketOneKey ==
  ASSUME NEW T, NEW a \in Seq(T), NEW b \in Seq(T), NEW c \in Seq(T), NEW d \in Seq(T),
         ~Has(a, "slash"), ~Has(c, "slash"), a \o <<Slash>> \o b = c \o <<Slash>> \o d
  PROVE  a = c /\ b = d
<1> DEFINE U == T \cup {Slash}
<1>1. /\ a \in Seq(U) /\ b \in Seq(U) /\ c \in Seq(U) /\ d \in Seq(U)
      /\ Slash \in U /\ Slash.kind = "slash"
  BY DEF Slash
<1> HIDE DEF U
<1>2. SplitN(a \o <<Slash>> \o b, "slash", 2) = <<a, b>>
  BY <1>1, SplitOnce
<1>3. SplitN(c \o <<Slash>> \o d, "slash", 2) = <<c, d>>
  BY <1>1, SplitOnce
<1>4. <<a, b>> = <<c, d>>
  BY <1>2, <1>3, Zenon
<1>. QED
  BY <1>4

-----------------------------------------------------------------------------
(* Induction over the numbers up to n, for a property given as the set of  *)
(* the numbers that have it.                                               *)
LEMMA Induct ==
  ASSUME NEW n \in Nat, NEW S, 0 \in S,
         \A m \in 0 .. n : m \in S /\ m < n => m + 1 \in S
  PROVE  0 .. n \subseteq S
<1> DEFINE I == {m \in 0 .. n : m \notin S}
           m == Nth(I, 1)
<1>1. SUFFICES ASSUME I # {} PROVE FALSE
  OBVIOUS
<1>2. Numbers(I)
  <2>1. IsFiniteSet(0 .. n) /\ I \subseteq 0 .. n
    BY FS_Interval
  <2>. QED
    BY <2>1, FS_Subset DEF Numbers
<1> HIDE DEF I
<1>3. Cardinality(I) \in Nat \ {0}
  BY <1>1, <1>2, FS_CardinalityType, FS_EmptySet DEF Numbers
<1>4. m \in I /\ Rank(I, m) = 1
  BY <1>2, <1>3, NthExists
<1> HIDE DEF m
<1>5. m \in 0 .. n /\ m \notin S /\ m # 0
  BY <1>4 DEF I
<1>6. m - 1 \in 0 .. n /\ m - 1 < n /\ (m - 1) + 1 = m
  BY <1>5
<1>7. m - 1 \in I
  BY <1>5, <1>6 DEF I
<1>8. Rank(I, m - 1) < Rank(I, m)
  BY <1>2, <1>4, <1>5, <1>7, RankGrows
<1>9. Rank(I, m - 1) \in Nat \ {0}
  BY <1>2, <1>3, <1>7, RankType
<1>. QED
  BY <1>4, <1>8, <1>9

(* FlattenSeq by its prefixes: f[i] is the first i lists after each other. *)
Joins(f, ss, m) ==
  f = [i \in 1 .. m |-> IF i = 1 THEN ss[i] ELSE f[i - 1] \o ss[i]]

LEMMA FlattenIs ==
  ASSUME NEW ss, Len(ss) # 0
  PROVE  FlattenSeq(ss) = (CHOOSE f : Joins(f, ss, Len(ss)))[Len(ss)]
BY DEF FlattenSeq, Joins

LEMMA JoinsStep ==
  ASSUME NEW ss, NEW m \in Nat, NEW g, Joins(g, ss, m)
  PROVE  \E h : Joins(h, ss, m + 1)
<1> DEFINE last == IF m + 1 = 1 THEN ss[m + 1] ELSE g[m] \o ss[m + 1]
           h == [i \in 1 .. m + 1 |-> IF i = m + 1 THEN last ELSE g[i]]
<1>1. \A i \in 1 .. m : h[i] = g[i]
  OBVIOUS
<1>2. \A i \in 1 .. m + 1 : h[i] = IF i = 1 THEN ss[i] ELSE h[i - 1] \o ss[i]
  <2>1. ASSUME NEW i \in 1 .. m + 1
        PROVE  h[i] = IF i = 1 THEN ss[i] ELSE h[i - 1] \o ss[i]
    <3>1. CASE i = m + 1
      <4>1. h[i] = last
        BY <3>1
      <4>2. i # 1 => i - 1 = m /\ h[i - 1] = g[m]
        BY <1>1, <3>1
      <4>. QED
        BY <3>1, <4>1, <4>2
    <3>2. CASE i # m + 1
      <4>1. i \in 1 .. m /\ h[i] = g[i]
        BY <1>1, <3>2
      <4>2. g[i] = IF i = 1 THEN ss[i] ELSE g[i - 1] \o ss[i]
        BY <4>1 DEF Joins
      <4>3. i # 1 => h[i - 1] = g[i - 1]
        BY <1>1, <4>1
      <4>. QED
        BY <4>1, <4>2, <4>3
    <3>. QED
      BY <3>1, <3>2
  <2>. QED
    BY <2>1
<1>3. h = [i \in 1 .. m + 1 |-> h[i]]
  OBVIOUS
<1> HIDE DEF h
<1>4. Joins(h, ss, m + 1)
  BY <1>2, <1>3 DEF Joins
<1>. QED
  BY <1>4

LEMMA JoinsExist ==
  ASSUME NEW ss, NEW n \in Nat
  PROVE  \E f : Joins(f, ss, n)
<1> DEFINE S == {m \in 0 .. n : \E g : Joins(g, ss, m)}
<1>1. 0 \in S
  <2> DEFINE g == [i \in 1 .. 0 |-> ss[i]]
  <2>1. Joins(g, ss, 0)
    BY DEF Joins
  <2> HIDE DEF g
  <2>. QED
    BY <2>1
<1>2. ASSUME NEW m \in 0 .. n, m \in S, m < n
      PROVE  m + 1 \in S
  <2>1. \E g : Joins(g, ss, m)
    BY <1>2
  <2>2. \E h : Joins(h, ss, m + 1)
    BY <2>1, JoinsStep
  <2>3. m + 1 \in 0 .. n
    BY <1>2
  <2>. QED
    BY <2>2, <2>3
<1>3. 0 .. n \subseteq S
  <2> HIDE DEF S
  <2>. QED
    BY <1>1, <1>2, Induct
<1>4. n \in S
  BY <1>3
<1>. QED
  BY <1>4

(* Places of two disjoint sets, of one list after the other.               *)
LEMMA PlacesAfter ==
  ASSUME NEW T, NEW a \in Seq(T), NEW b \in Seq(T), NEW A, NEW B, A \cap B = {},
         NEW pa \in Bijection(DOMAIN a, A), NEW pb \in Bijection(DOMAIN b, B)
  PROVE  /\ DOMAIN (a \o b) = 1 .. Len(a) + Len(b)
         /\ [k \in 1 .. Len(a) + Len(b) |-> IF k <= Len(a) THEN pa[k] ELSE pb[k - Len(a)]]
              \in Bijection(1 .. Len(a) + Len(b), A \cup B)
<1> DEFINE m == Len(a)
           n == Len(b)
           p == [k \in 1 .. m + n |-> IF k <= m THEN pa[k] ELSE pb[k - m]]
<1>1. m \in Nat /\ n \in Nat /\ DOMAIN a = 1 .. m /\ DOMAIN b = 1 .. n /\ DOMAIN (a \o b) = 1 .. m + n
  OBVIOUS
<1>2. /\ pa \in [1 .. m -> A] /\ \A k, l \in 1 .. m : pa[k] = pa[l] => k = l
      /\ \A x \in A : \E k \in 1 .. m : pa[k] = x
  BY <1>1 DEF Bijection, Injection, Surjection, IsInjective
<1>3. /\ pb \in [1 .. n -> B] /\ \A k, l \in 1 .. n : pb[k] = pb[l] => k = l
      /\ \A x \in B : \E k \in 1 .. n : pb[k] = x
  BY <1>1 DEF Bijection, Injection, Surjection, IsInjective
<1> HIDE DEF m, n
<1>4. ASSUME NEW k \in 1 .. m + n
      PROVE  /\ k \in 1 .. m => p[k] = pa[k] /\ p[k] \in A
             /\ k \notin 1 .. m => k - m \in 1 .. n /\ p[k] = pb[k - m] /\ p[k] \in B
  BY <1>1, <1>2, <1>3
<1>5. p \in [1 .. m + n -> A \cup B]
  BY <1>4
<1>6. \A k, l \in 1 .. m + n : p[k] = p[l] => k = l
  <2>1. ASSUME NEW k \in 1 .. m + n, NEW l \in 1 .. m + n, p[k] = p[l]
        PROVE  k = l
    <3>1. k \in 1 .. m <=> l \in 1 .. m
      BY <1>4, <2>1
    <3>2. CASE k \in 1 .. m
      BY <1>2, <1>4, <2>1, <3>1, <3>2
    <3>3. CASE k \notin 1 .. m
      <4>1. k - m = l - m
        BY <1>3, <1>4, <2>1, <3>1, <3>3
      <4>. QED
        BY <1>1, <4>1
    <3>. QED
      BY <3>2, <3>3
  <2>. QED
    BY <2>1
<1>7. \A x \in A \cup B : \E k \in 1 .. m + n : p[k] = x
  <2>1. ASSUME NEW x \in A PROVE \E k \in 1 .. m + n : p[k] = x
    <3>1. PICK k \in 1 .. m : pa[k] = x
      BY <1>2
    <3>2. k \in 1 .. m + n
      BY <1>1
    <3>. QED
      BY <1>4, <3>1, <3>2
  <2>2. ASSUME NEW x \in B PROVE \E k \in 1 .. m + n : p[k] = x
    <3>1. PICK k \in 1 .. n : pb[k] = x
      BY <1>3
    <3>2. m + k \in 1 .. m + n /\ m + k \notin 1 .. m /\ (m + k) - m = k
      BY <1>1
    <3>. QED
      BY <1>4, <3>1, <3>2
  <2>. QED
    BY <2>1, <2>2
<1>8. p \in Bijection(1 .. m + n, A \cup B)
  <2> HIDE DEF p
  <2>. QED
    BY <1>5, <1>6, <1>7 DEF Bijection, Injection, Surjection, IsInjective
<1>. QED
  BY <1>1, <1>8 DEF m, n

(* Where the elements of a list come from: each from its own place in A.   *)
Placement(place, flat, ss, A) ==
  /\ place \in Bijection(DOMAIN flat, A)
  /\ \A n \in DOMAIN flat : flat[n] = ss[place[n][1]][place[n][2]]

(* Places of two disjoint sets, of one list after the other.               *)
LEMMA PlacementAfter ==
  ASSUME NEW T, NEW a \in Seq(T), NEW b \in Seq(T), NEW A, NEW B, A \cap B = {},
         NEW ss, NEW pa, Placement(pa, a, ss, A), NEW pb, Placement(pb, b, ss, B)
  PROVE  \E place : Placement(place, Cat(a, b), ss, A \cup B)
<1> DEFINE p == [k \in 1 .. Len(a) + Len(b) |-> IF k <= Len(a) THEN pa[k] ELSE pb[k - Len(a)]]
<1>1. /\ DOMAIN (a \o b) = 1 .. Len(a) + Len(b)
      /\ p \in Bijection(1 .. Len(a) + Len(b), A \cup B)
  <2>1. pa \in Bijection(DOMAIN a, A) /\ pb \in Bijection(DOMAIN b, B)
    BY DEF Placement
  <2>. QED
    BY <2>1, PlacesAfter, Zenon
<1>2. ASSUME NEW k \in 1 .. Len(a) + Len(b)
      PROVE  (a \o b)[k] = ss[p[k][1]][p[k][2]]
  <2>1. CASE k <= Len(a)
    <3>1. k \in DOMAIN a /\ (a \o b)[k] = a[k] /\ p[k] = pa[k]
      BY <2>1
    <3>. QED
      BY <3>1 DEF Placement
  <2>2. CASE k > Len(a)
    <3>1. /\ k - Len(a) \in DOMAIN b /\ (a \o b)[k] = b[k - Len(a)]
          /\ p[k] = pb[k - Len(a)]
      BY <2>2
    <3>. QED
      BY <3>1 DEF Placement
  <2>. QED
    BY <2>1, <2>2
<1> HIDE DEF p
<1>3. Placement(p, Cat(a, b), ss, A \cup B)
  BY <1>1, <1>2 DEF Placement, Cat
<1>. QED
  BY <1>3

RowsOf(ss) == UNION {{x} \X DOMAIN ss[x] : x \in DOMAIN ss}

RowsTo(ss, m) == UNION {{x} \X DOMAIN ss[x] : x \in 1 .. m}

LEMMA RowsToIs ==
  ASSUME NEW ss, NEW m \in Nat
  PROVE  /\ RowsTo(ss, m + 1) = RowsTo(ss, m) \cup ({m + 1} \X DOMAIN ss[m + 1])
         /\ RowsTo(ss, m) \cap ({m + 1} \X DOMAIN ss[m + 1]) = {}
<1>1. 1 .. m + 1 = (1 .. m) \cup {m + 1} /\ m + 1 \notin 1 .. m
  OBVIOUS
<1>. QED
  BY <1>1 DEF RowsTo

LEMMA OneRow ==
  ASSUME NEW T, NEW ss, NEW x, ss[x] \in Seq(T)
  PROVE  \E place : Placement(place, ss[x], ss, {x} \X DOMAIN ss[x])
<1> DEFINE place == [k \in DOMAIN ss[x] |-> <<x, k>>]
<1>1. place \in Bijection(DOMAIN ss[x], {x} \X DOMAIN ss[x])
  BY DEF Bijection, Injection, Surjection, IsInjective
<1>2. Placement(place, ss[x], ss, {x} \X DOMAIN ss[x])
  BY <1>1 DEF Placement
<1>. QED
  BY <1>2

(* A list of lists flattened holds each of their elements at one place.    *)
LEMMA FlattenPlaces ==
  ASSUME NEW T, NEW ss \in Seq(Seq(T))
  PROVE  /\ FlattenSeq(ss) \in Seq(T)
         /\ \E place : Placement(place, FlattenSeq(ss), ss, RowsOf(ss))
<1> DEFINE n == Len(ss)
           f == CHOOSE f : Joins(f, ss, n)
           Fine(m) == /\ f[m] \in Seq(T)
                      /\ \E place : Placement(place, f[m], ss, RowsTo(ss, m))
           S == {m \in 0 .. n : m = 0 \/ Fine(m)}
<1>1. n \in Nat /\ DOMAIN ss = 1 .. n /\ \A k \in 1 .. n : ss[k] \in Seq(T)
  OBVIOUS
<1>2. CASE n = 0
  <2>1. FlattenSeq(ss) = <<>> /\ ss = <<>>
    BY <1>2 DEF FlattenSeq
  <2>2. RowsOf(ss) = {}
    BY <2>1 DEF RowsOf
  <2>3. Placement(<<>>, <<>>, ss, {})
    BY DEF Placement, Bijection, Injection, Surjection, IsInjective
  <2>. QED
    BY <2>1, <2>2, <2>3
<1>3. CASE n # 0
  <2>1. Joins(f, ss, n)
    BY <1>1, JoinsExist
  <2> HIDE DEF f
  <2>2. ASSUME NEW m \in 1 .. n
        PROVE  f[m] = IF m = 1 THEN ss[m] ELSE Cat(f[m - 1], ss[m])
    BY <2>1 DEF Joins, Cat
  <2>3. ASSUME NEW m \in 0 .. n, m \in S, m < n
        PROVE  m + 1 \in S
    <3>1. m \in Nat /\ m + 1 \in 1 .. n /\ m + 1 \in 0 .. n /\ ss[m + 1] \in Seq(T)
      BY <1>1, <2>3
    <3>2. PICK row : Placement(row, ss[m + 1], ss, {m + 1} \X DOMAIN ss[m + 1])
      BY <3>1, OneRow
    <3>3. CASE m = 0
      <4>1. f[m + 1] = ss[m + 1]
        BY <2>2, <3>1, <3>3
      <4>2. RowsTo(ss, 0) = {}
        BY DEF RowsTo
      <4>3. RowsTo(ss, m + 1) = RowsTo(ss, m) \cup ({m + 1} \X DOMAIN ss[m + 1])
        BY <3>1, RowsToIs
      <4>4. RowsTo(ss, m + 1) = {m + 1} \X DOMAIN ss[m + 1]
        BY <3>3, <4>2, <4>3
      <4>. QED
        BY <3>1, <3>2, <4>1, <4>4
    <3>4. CASE m # 0
      <4>1. f[m + 1] = Cat(f[m], ss[m + 1]) /\ Fine(m)
        BY <2>2, <2>3, <3>1, <3>4
      <4>2. PICK place : Placement(place, f[m], ss, RowsTo(ss, m))
        BY <4>1
      <4>3. RowsTo(ss, m) \cap ({m + 1} \X DOMAIN ss[m + 1]) = {}
        BY <3>1, RowsToIs
      <4>4. \E all : Placement(all, Cat(f[m], ss[m + 1]), ss,
                               RowsTo(ss, m) \cup ({m + 1} \X DOMAIN ss[m + 1]))
        BY <3>1, <3>2, <4>1, <4>2, <4>3, PlacementAfter
      <4>5. Cat(f[m], ss[m + 1]) \in Seq(T)
        BY <3>1, <4>1 DEF Cat
      <4>6. RowsTo(ss, m + 1) = RowsTo(ss, m) \cup ({m + 1} \X DOMAIN ss[m + 1])
        BY <3>1, RowsToIs
      <4>. QED
        BY <3>1, <4>1, <4>4, <4>5, <4>6
    <3>. QED
      BY <3>3, <3>4
  <2>4. 0 .. n \subseteq S
    <3>1. 0 \in S
      BY <1>1
    <3> HIDE DEF S
    <3>. QED
      BY <1>1, <2>3, <3>1, Induct
  <2>5. Fine(n)
    <3> HIDE DEF Fine
    <3>1. n \in 0 .. n
      BY <1>1
    <3>. QED
      BY <1>3, <2>4, <3>1
  <2>6. FlattenSeq(ss) = f[n]
    BY <1>3, FlattenIs DEF f
  <2>7. RowsTo(ss, n) = RowsOf(ss)
    BY <1>1 DEF RowsTo, RowsOf
  <2>. QED
    BY <2>5, <2>6, <2>7
<1>. QED
  BY <1>2, <1>3

LEMMA FlattenMembers ==
  ASSUME NEW T, NEW ss \in Seq(Seq(T))
  PROVE  /\ FlattenSeq(ss) \in Seq(T)
         /\ \A k \in DOMAIN FlattenSeq(ss) : \E x \in DOMAIN ss : \E y \in DOMAIN ss[x] :
              FlattenSeq(ss)[k] = ss[x][y]
         /\ \A x \in DOMAIN ss : \A y \in DOMAIN ss[x] : \E k \in DOMAIN FlattenSeq(ss) :
              FlattenSeq(ss)[k] = ss[x][y]
<1> DEFINE flat == FlattenSeq(ss)
<1>1. flat \in Seq(T) /\ \E place : Placement(place, flat, ss, RowsOf(ss))
  BY FlattenPlaces
<1> HIDE DEF flat
<1>2. PICK place : Placement(place, flat, ss, RowsOf(ss))
  BY <1>1
<1>3. /\ \A k \in DOMAIN flat : place[k] \in RowsOf(ss) /\ flat[k] = ss[place[k][1]][place[k][2]]
      /\ \A row \in RowsOf(ss) : \E k \in DOMAIN flat : place[k] = row
  BY <1>2, Fun_BijectionProperties DEF Placement
<1>4. \A row : row \in RowsOf(ss) <=> \E x \in DOMAIN ss : \E y \in DOMAIN ss[x] : row = <<x, y>>
  BY DEF RowsOf
<1>5. ASSUME NEW k \in DOMAIN flat
      PROVE  \E x \in DOMAIN ss : \E y \in DOMAIN ss[x] : flat[k] = ss[x][y]
  BY <1>3, <1>4
<1>6. ASSUME NEW x \in DOMAIN ss, NEW y \in DOMAIN ss[x]
      PROVE  \E k \in DOMAIN flat : flat[k] = ss[x][y]
  <2>1. PICK k \in DOMAIN flat : place[k] = <<x, y>>
    BY <1>3, <1>4
  <2>. QED
    BY <1>3, <2>1
<1>. QED
  BY <1>1, <1>5, <1>6 DEF flat

LEMMA ShortList ==
  ASSUME NEW T, NEW s \in Seq(T), Len(s) <= 1
  PROVE  s = <<>> \/ \E t \in T : s = <<t>>
<1>1. CASE Len(s) = 0
  BY <1>1
<1>2. CASE Len(s) = 1
  <2>1. s \in [1 .. 1 -> T]
    BY <1>2
  <2>2. s = <<s[1]>> /\ s[1] \in T
    BY <2>1
  <2>. QED
    BY <2>2
<1>3. Len(s) = 0 \/ Len(s) = 1
  <2>1. Len(s) \in Nat
    OBVIOUS
  <2>. QED
    BY <2>1, SMT
<1>. QED
  BY <1>1, <1>2, <1>3

(* Lists of at most one element: the elements of those that have one.      *)
FromOptions(place, flat, ss) ==
  /\ place \in Bijection(DOMAIN flat, {x \in DOMAIN ss : ss[x] # <<>>})
  /\ \A k \in DOMAIN flat : ss[place[k]] = <<flat[k]>>

LEMMA FlattenOptional ==
  ASSUME NEW T, NEW ss \in Seq(Seq(T)), \A x \in DOMAIN ss : Len(ss[x]) <= 1
  PROVE  /\ FlattenSeq(ss) \in Seq(T)
         /\ \E place : FromOptions(place, FlattenSeq(ss), ss)
<1> DEFINE flat == FlattenSeq(ss)
           A == {x \in DOMAIN ss : ss[x] # <<>>}
<1>1. flat \in Seq(T) /\ \E place : Placement(place, flat, ss, RowsOf(ss))
  BY FlattenPlaces
<1> HIDE DEF flat
<1>2. PICK place : Placement(place, flat, ss, RowsOf(ss))
  BY <1>1
<1>3. /\ \A k \in DOMAIN flat : place[k] \in RowsOf(ss) /\ flat[k] = ss[place[k][1]][place[k][2]]
      /\ \A row \in RowsOf(ss) : \E k \in DOMAIN flat : place[k] = row
      /\ \A k, l \in DOMAIN flat : place[k] = place[l] => k = l
  BY <1>2, Fun_BijectionProperties DEF Placement
<1>4. \A x \in DOMAIN ss : ss[x] \in Seq(T) /\ Len(ss[x]) \in Nat /\ Len(ss[x]) <= 1
  OBVIOUS
<1>5. ASSUME NEW x \in DOMAIN ss
      PROVE  /\ DOMAIN ss[x] = IF ss[x] = <<>> THEN {} ELSE {1}
             /\ ss[x] # <<>> => ss[x] = <<ss[x][1]>>
  <2>1. ss[x] \in Seq(T) /\ Len(ss[x]) <= 1
    BY <1>4
  <2>2. ss[x] = <<>> \/ \E t \in T : ss[x] = <<t>>
    BY <2>1, ShortList
  <2>3. CASE ss[x] = <<>>
    BY <2>3
  <2>4. CASE \E t \in T : ss[x] = <<t>>
    BY <2>4
  <2>. QED
    BY <2>2, <2>3, <2>4
<1>6. \A row : row \in RowsOf(ss) <=> \E x \in A : row = <<x, 1>>
  BY <1>5 DEF RowsOf
<1> DEFINE p == [k \in DOMAIN flat |-> place[k][1]]
<1>7. \A k \in DOMAIN flat : p[k] \in A /\ place[k] = <<p[k], 1>> /\ ss[p[k]] = <<flat[k]>>
  BY <1>3, <1>5, <1>6
<1>8. \A x \in A : \E k \in DOMAIN flat : p[k] = x
  <2>1. ASSUME NEW x \in A PROVE \E k \in DOMAIN flat : p[k] = x
    <3>1. PICK k \in DOMAIN flat : place[k] = <<x, 1>>
      BY <1>3, <1>6
    <3>. QED
      BY <3>1
  <2>. QED
    BY <2>1
<1>9. p \in [DOMAIN flat -> A]
  BY <1>7
<1> HIDE DEF p
<1>12. ASSUME NEW k \in DOMAIN flat, NEW l \in DOMAIN flat, p[k] = p[l]
       PROVE  k = l
  <2>1. place[k] = <<p[k], 1>> /\ place[l] = <<p[l], 1>>
    BY <1>7
  <2>2. place[k] = place[l]
    BY <1>12, <2>1
  <2>. QED
    BY <1>3, <2>2
<1> HIDE DEF A
<1>10. p \in Bijection(DOMAIN flat, A)
  BY <1>8, <1>9, <1>12, Fun_IsBij
<1>11. FromOptions(p, flat, ss)
  BY <1>7, <1>10 DEF FromOptions, A
<1>. QED
  BY <1>1, <1>11 DEF flat
============================================================================
