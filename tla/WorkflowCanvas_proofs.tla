----------------------- MODULE WorkflowCanvas_proofs ------------------------
(***************************************************************************)
(* Proofs about WorkflowCanvas and WorkflowLayout, for every definition    *)
(* and every number of edits.                                              *)
(*                                                                         *)
(* Both are about data, and need induction.  The library's induction rules *)
(* take an operator and cannot be used here; that the numbers are well     *)
(* ordered can, and induction and recursion over 0 .. N follow from it as  *)
(* statements about sets and functions.                                    *)
(***************************************************************************)
EXTENDS WorkflowCanvas, FiniteSetTheorems, FunctionTheorems, SequenceTheorems,
        WellFoundedInduction, TLAPS

-----------------------------------------------------------------------------
(* Induction. *)

(* A set of numbers that is not empty has a least element.                 *)
LEMMA Least ==
  ASSUME NEW T \in SUBSET Nat, T # {}
  PROVE  \E n \in T : \A m \in T : n <= m
<1>1. PICK k \in T : TRUE
  OBVIOUS
<1> DEFINE F == {0 .. m : m \in T \intersect (0 .. k)}
<1>2. IsFiniteSet(0 .. k) /\ F \in SUBSET SUBSET (0 .. k) /\ F # {}
  <2>1. IsFiniteSet(0 .. k)
    BY FS_Interval
  <2>2. \A m \in T \intersect (0 .. k) : 0 .. m \in SUBSET (0 .. k)
    OBVIOUS
  <2>3. k \in T \intersect (0 .. k)
    OBVIOUS
  <2>4. QED
    BY <2>1, <2>2, <2>3
<1>3. IsWellFoundedOn(StrictSubsetOrdering(0 .. k), SUBSET (0 .. k))
  BY <1>2, FS_StrictSubsetOrderingWellFounded, FS_FiniteSubsetsOfFinite
<1>4. PICK A \in F : \A B \in F : B \subseteq A => B = A
  <2> HIDE DEF F
  <2>1. PICK A \in F : \A B \in F : ~(<<B, A>> \in StrictSubsetOrdering(0 .. k))
    BY <1>2, <1>3, WFMin
  <2>2. QED
    BY <1>2, <2>1 DEF StrictSubsetOrdering
<1>5. PICK n \in T \intersect (0 .. k) : A = 0 .. n
  BY <1>4
<1>6. ASSUME NEW m \in T, m < n PROVE FALSE
  <2>1. m \in T \intersect (0 .. k)
    BY <1>6
  <2>2. 0 .. m \in F /\ 0 .. m \subseteq A
    BY <1>5, <1>6, <2>1
  <2>3. 0 .. m = 0 .. n
    BY <1>4, <1>5, <2>2
  <2>4. QED
    BY <1>6, <2>3
<1>7. QED
  BY <1>5, <1>6

LEMMA Induction ==
  ASSUME NEW N \in Nat, NEW T \in SUBSET Nat, 0 \in T,
         \A i \in 0 .. N : i \in T /\ i # N => i + 1 \in T
  PROVE  0 .. N \subseteq T
<1> DEFINE Out == (0 .. N) \ T
<1> SUFFICES ASSUME Out # {} PROVE FALSE
  OBVIOUS
<1>1. Out \in SUBSET Nat
  OBVIOUS
<1>2. PICK n \in Out : \A m \in Out : n <= m
  <2> HIDE DEF Out
  <2>1. QED
    BY <1>1, Least
<1>3. n - 1 \in 0 .. N /\ n - 1 \in T
  BY <1>2
<1>4. QED
  BY <1>2, <1>3

(* A function defined by recursion over 0 .. N exists.                     *)
Iterates(N, D, a, F, f) ==
  /\ f \in [0 .. N -> D]
  /\ f[0] = a
  /\ \A i \in 1 .. N : f[i] = F[<<i, f[i - 1]>>]

LEMMA Recursion ==
  ASSUME NEW N \in Nat, NEW D, NEW a \in D, NEW F,
         \A i \in 1 .. N : \A x \in D : F[<<i, x>>] \in D
  PROVE  \E f : Iterates(N, D, a, F, f)
<1> DEFINE Fits(k, f) == f[0] = a /\ \A i \in 1 .. k : f[i] = F[<<i, f[i - 1]>>]
           T == {k \in Nat : k <= N => \E f \in [0 .. k -> D] : Fits(k, f)}
<1>1. 0 \in T
  <2> DEFINE f == [i \in 0 .. 0 |-> a]
  <2>1. f \in [0 .. 0 -> D]
    OBVIOUS
  <2>2. f[0] = a
    OBVIOUS
  <2>3. \A i \in 1 .. 0 : f[i] = F[<<i, f[i - 1]>>]
    OBVIOUS
  <2>4. QED
    BY <2>1, <2>2, <2>3
<1>2. ASSUME NEW i \in 0 .. N, i \in T, i # N PROVE i + 1 \in T
  <2>1. PICK f \in [0 .. i -> D] : Fits(i, f)
    BY <1>2
  <2> DEFINE g == [j \in 0 .. i + 1 |-> IF j <= i THEN f[j] ELSE F[<<i + 1, f[i]>>]]
  <2>0. F[<<i + 1, f[i]>>] \in D
    BY <1>2
  <2>2. g \in [0 .. i + 1 -> D]
    BY <2>0
  <2>3. Fits(i + 1, g)
    <3>1. g[0] = a
      BY <2>1
    <3>2. ASSUME NEW j \in 1 .. i + 1 PROVE g[j] = F[<<j, g[j - 1]>>]
      <4>1. CASE j = i + 1
        <5>1. i \in 0 .. i + 1 /\ j \in 0 .. i + 1 /\ ~(j <= i) /\ j - 1 = i
          BY <4>1
        <5>2. g[i] = f[i] /\ g[j] = F[<<i + 1, f[i]>>]
          BY <5>1
        <5>3. QED
          BY <4>1, <5>1, <5>2
      <4>2. CASE j # i + 1
        <5>1. j \in 1 .. i /\ j - 1 \in 0 .. i
          BY <4>2
        <5>2. g[j] = f[j] /\ g[j - 1] = f[j - 1]
          BY <5>1
        <5>3. QED
          BY <2>1, <5>1, <5>2
      <4>3. QED
        BY <4>1, <4>2
    <3>3. QED
      BY <3>1, <3>2
  <2>4. \E h \in [0 .. i + 1 -> D] : Fits(i + 1, h)
    <3> HIDE DEF g, Fits
    <3>1. QED
      BY <2>2, <2>3
  <2>5. QED
    BY <2>4
<1>3. 0 .. N \subseteq T
  <2> HIDE DEF T
  <2>1. T \in SUBSET Nat
    BY DEF T
  <2>2. QED
    BY <1>1, <1>2, <2>1, Induction
<1>4. QED
  BY <1>3 DEF Iterates

-----------------------------------------------------------------------------
(* filter *)

(* Numbers of a set are told apart by how many of the set are no greater.  *)
LEMMA Ranks ==
  ASSUME NEW N \in Nat, NEW K \in SUBSET (1 .. N), NEW i \in K
  PROVE  /\ IsFiniteSet(K)
         /\ Cardinality(K) \in Nat
         /\ Cardinality({k \in K : k <= i}) \in 1 .. Cardinality(K)
         /\ \A h \in K : Cardinality({k \in K : k <= h}) = Cardinality({k \in K : k <= i})
                           => h = i
<1> DEFINE To(h) == {k \in K : k <= h}
<1>1. IsFiniteSet(K) /\ Cardinality(K) \in Nat
  <2>1. IsFiniteSet(1 .. N)
    BY FS_Interval
  <2>2. IsFiniteSet(K)
    BY <2>1, FS_Subset
  <2>3. QED
    BY <2>2, FS_CardinalityType
<1>2. ASSUME NEW h \in K PROVE /\ IsFiniteSet(To(h)) /\ Cardinality(To(h)) \in Nat
                               /\ Cardinality(To(h)) <= Cardinality(K)
  <2>1. To(h) \in SUBSET K
    OBVIOUS
  <2> HIDE DEF To
  <2>2. QED
    BY <1>1, <2>1, FS_Subset, FS_CardinalityType
<1>3. Cardinality(To(i)) # 0
  <2>1. i \in To(i)
    OBVIOUS
  <2> HIDE DEF To
  <2>2. QED
    BY <1>2, <2>1, FS_EmptySet
<1>4. ASSUME NEW h \in K, NEW j \in K, h < j PROVE Cardinality(To(h)) # Cardinality(To(j))
  <2>0. h \in Nat /\ j \in Nat /\ \A k \in K : k \in Nat
    OBVIOUS
  <2>1. To(h) \in SUBSET To(j) /\ j \in To(j) /\ j \notin To(h)
    <3>1. \A k \in K : k <= h => k <= j
      BY <1>4, <2>0
    <3>2. j <= j /\ ~(j <= h)
      BY <1>4, <2>0
    <3>3. QED
      BY <3>1, <3>2
  <2> HIDE DEF To
  <2>2. QED
    BY <1>2, <2>1, FS_Subset
<1>5. ASSUME NEW h \in K, Cardinality(To(h)) = Cardinality(To(i)) PROVE h = i
  <2>1. ~(h < i) /\ ~(i < h)
    <3> HIDE DEF To
    <3>1. QED
      BY <1>4, <1>5
  <2>2. QED
    BY <2>1
<1>6. QED
  <2> HIDE DEF To
  <2>1. /\ Cardinality(To(i)) \in 1 .. Cardinality(K)
        /\ \A h \in K : Cardinality(To(h)) = Cardinality(To(i)) => h = i
    BY <1>1, <1>2, <1>3, <1>5
  <2>2. QED
    BY <1>1, <2>1 DEF To

(* What is filtered is what stood at the places kept, each once. *)
LEMMA OnlyKeeps ==
  ASSUME NEW X, NEW s \in Seq(X), NEW K \in SUBSET DOMAIN s
  PROVE  /\ Only(s, K) \in Seq(X)
         /\ \E f \in [DOMAIN Only(s, K) -> K] :
              /\ \A j \in DOMAIN Only(s, K) : Only(s, K)[j] = s[f[j]]
              /\ \A j, k \in DOMAIN Only(s, K) : f[j] = f[k] => j = k
              /\ \A i \in K : \E j \in DOMAIN Only(s, K) : f[j] = i
<1> DEFINE rank == [i \in K |-> Cardinality({k \in K : k <= i})]
           n == Cardinality(K)
           f == [j \in 1 .. n |-> CHOOSE i \in K : Cardinality({k \in K : k <= i}) = j]
<1>1. K \in SUBSET (1 .. Len(s)) /\ Len(s) \in Nat
  OBVIOUS
<1>2. IsFiniteSet(K) /\ n \in Nat
  <2>1. IsFiniteSet(1 .. Len(s))
    BY <1>1, FS_Interval
  <2>2. QED
    BY <1>1, <2>1, FS_Subset, FS_CardinalityType
<1>3. \A i \in K : rank[i] \in 1 .. n /\ \A h \in K : rank[h] = rank[i] => h = i
  <2>1. TAKE i \in K
  <2>2. /\ Cardinality({k \in K : k <= i}) \in 1 .. n
        /\ \A h \in K : Cardinality({k \in K : k <= h}) = Cardinality({k \in K : k <= i}) => h = i
    <3> HIDE DEF rank, f
    <3>1. QED
      BY <1>1, Ranks
  <2>3. QED
    BY <2>2
<1>4. rank \in [K -> 1 .. n]
  BY <1>3
<1>5. rank \in Injection(K, 1 .. n)
  <2> HIDE DEF rank, n
  <2>1. QED
    BY <1>3, <1>4, Fun_IsInj
<1>6. IsFiniteSet(1 .. n) /\ Cardinality(1 .. n) = n
  BY <1>2, FS_Interval
<1>7. rank \in Surjection(K, 1 .. n)
  <2> HIDE DEF rank
  <2>1. Cardinality(1 .. n) = Cardinality(K)
    BY <1>6
  <2>2. QED
    BY <1>5, <1>6, <2>1, FS_Injection
<1>8. \A j \in 1 .. n : \E i \in K : rank[i] = j
  <2> HIDE DEF rank, n
  <2>1. QED
    BY <1>7, Fun_SurjectionProperties
<1>9. \A j \in 1 .. n : f[j] \in K /\ rank[f[j]] = j
  <2>1. TAKE j \in 1 .. n
  <2>2. \E i \in K : Cardinality({k \in K : k <= i}) = j
    BY <1>8
  <2>3. f[j] \in K /\ Cardinality({k \in K : k <= f[j]}) = j
    BY <2>2
  <2>4. QED
    BY <2>3
<1>0. f \in [1 .. n -> K]
  BY <1>9
<1>10. \A i \in K : rank[i] \in 1 .. n /\ f[rank[i]] = i
  <2> HIDE DEF rank, f, n
  <2>1. QED
    BY <1>3, <1>9
<1>11. Only(s, K) = [j \in 1 .. n |-> s[f[j]]]
  BY DEF Only
<1>12. QED
  <2> HIDE DEF rank, f
  <2> HIDE DEF n
  <2>1. DOMAIN Only(s, K) = 1 .. n
    BY <1>11
  <2>3. \A j \in 1 .. n : s[f[j]] \in X
    BY <1>9
  <2>4. Only(s, K) \in Seq(X)
    BY <1>2, <1>11, <2>3
  <2>5. \A j, k \in 1 .. n : f[j] = f[k] => j = k
    BY <1>9
  <2>6. \A i \in K : \E j \in 1 .. n : f[j] = i
    BY <1>10
  <2>7. QED
    BY <1>0, <1>11, <2>1, <2>4, <2>5, <2>6

-----------------------------------------------------------------------------
(* New ids. *)

LEMMA WordType ==
  ASSUME NEW w \in STRING
  PROVE  Word(w) \in Piece
<1>1. Word(w) \in [word : STRING]
  BY DEF Word
<1>2. QED
  BY <1>1 DEF Piece

LEMMA NumberType ==
  ASSUME NEW i \in Nat
  PROVE  Number(i) \in Piece
<1>1. Number(i) \in [number : Nat]
  BY DEF Number
<1>2. QED
  BY <1>1 DEF Piece

LEMMA OnePiece ==
  ASSUME NEW S, NEW x \in S
  PROVE  <<x>> \in Seq(S) /\ Len(<<x>>) = 1 /\ <<x>>[1] = x
OBVIOUS

LEMMA TwoPieces ==
  ASSUME NEW S, NEW x \in S, NEW y \in S
  PROVE  /\ <<x, y>> \in Seq(S) /\ Len(<<x, y>>) = 2
         /\ <<x, y>>[1] = x /\ <<x, y>>[2] = y
OBVIOUS

LEMMA NumberedType ==
  ASSUME NEW k \in STRING, NEW i \in Nat
  PROVE  NumberedNode(k, i) \in NodeId
<1>1. Word(k) \in Piece /\ Number(i) \in Piece
  BY WordType, NumberType
<1>2. <<Word(k), Number(i)>> \in Seq(Piece)
  BY <1>1, TwoPieces
<1>3. QED
  BY <1>2 DEF NumberedNode, NodeId

LEMMA NumbersDiffer ==
  ASSUME NEW k, NEW i, NEW j, NumberedNode(k, i) = NumberedNode(k, j)
  PROVE  i = j
<1>1. Number(i) = Number(j)
  BY DEF NumberedNode
<1>2. Number(i).number = i /\ Number(j).number = j
  BY DEF Number
<1>3. QED
  BY <1>1, <1>2

LEMMA FreshIdUnused ==
  ASSUME NEW k \in STRING, nodes \in Seq(CanvasNode)
  PROVE  FreshId(k) \in NodeId /\ FreshId(k) \notin NodeIds
<1>0. PICK N \in Nat : N = Len(nodes) + 1
  OBVIOUS
<1> DEFINE Free == {i \in 1 .. N : NumberedNode(k, i) \notin NodeIds}
           Lowest(i) == /\ NumberedNode(k, i) \notin NodeIds
                        /\ \A j \in 1 .. i - 1 : NumberedNode(k, j) \in NodeIds
<1>1. DOMAIN nodes = 1 .. N - 1
  BY <1>0
<1>2. NodeIds = {nodes[i].id : i \in 1 .. N - 1}
  BY <1>1 DEF NodeIds, Ids, Definition
<1>3. Free # {}
  <2> SUFFICES ASSUME Free = {} PROVE FALSE
    OBVIOUS
  <2> DEFINE f == [i \in 1 .. N |-> CHOOSE j \in 1 .. N - 1 : nodes[j].id = NumberedNode(k, i)]
  <2>1. \A i \in 1 .. N : f[i] \in 1 .. N - 1 /\ nodes[f[i]].id = NumberedNode(k, i)
    <3>1. TAKE i \in 1 .. N
    <3>2. \E j \in 1 .. N - 1 : nodes[j].id = NumberedNode(k, i)
      BY <1>2
    <3>3. QED
      BY <3>2
  <2>2. f \in [1 .. N -> 1 .. N - 1]
    BY <2>1
  <2> HIDE DEF f
  <2>3. /\ IsFiniteSet(1 .. N) /\ IsFiniteSet(1 .. N - 1)
        /\ Cardinality(1 .. N - 1) < Cardinality(1 .. N)
    <3>1. /\ IsFiniteSet(1 .. N)
          /\ Cardinality(1 .. N) = IF 1 > N THEN 0 ELSE N - 1 + 1
      BY FS_Interval
    <3>2. /\ IsFiniteSet(1 .. N - 1)
          /\ Cardinality(1 .. N - 1) = IF 1 > N - 1 THEN 0 ELSE N - 1 - 1 + 1
      BY FS_Interval
    <3>3. N > 0
      BY <1>0
    <3>4. QED
      BY <3>1, <3>2, <3>3
  <2>4. \E i, j \in 1 .. N : i # j /\ f[i] = f[j]
    BY <2>2, <2>3, FS_PigeonHole
  <2>5. PICK i \in 1 .. N, j \in 1 .. N : i # j /\ NumberedNode(k, i) = NumberedNode(k, j)
    BY <2>1, <2>4
  <2>6. QED
    BY <2>5, NumbersDiffer
<1>4. \E i \in 1 .. N : Lowest(i)
  <2>0. 1 .. N \subseteq Nat
    OBVIOUS
  <2>1. Free \in SUBSET Nat
    BY <2>0
  <2>2. PICK i \in Free : \A j \in Free : i <= j
    <3> HIDE DEF Free
    <3>1. QED
      BY <1>3, <2>1, Least
  <2>3. i \in 1 .. N /\ NumberedNode(k, i) \notin NodeIds
    OBVIOUS
  <2>4. ASSUME NEW j \in 1 .. i - 1 PROVE NumberedNode(k, j) \in NodeIds
    <3>1. j \in 1 .. N /\ ~(i <= j)
      BY <2>3
    <3>2. QED
      BY <2>2, <3>1
  <2>5. QED
    BY <2>3, <2>4
<1>5. FreshId(k) = NumberedNode(k, CHOOSE i \in 1 .. N : Lowest(i))
  BY <1>0 DEF FreshId
<1> DEFINE i == CHOOSE i \in 1 .. N : Lowest(i)
<1>6. i \in 1 .. N /\ Lowest(i)
  <2> HIDE DEF Lowest
  <2>1. QED
    BY <1>4
<1>7. FreshId(k) = NumberedNode(k, i)
  BY <1>5
<1>8. i \in Nat /\ NumberedNode(k, i) \notin NodeIds
  <2> HIDE DEF i
  <2>1. i \in Nat
    BY <1>6
  <2>2. NumberedNode(k, i) \notin NodeIds
    BY <1>6, Zenon
  <2>3. QED
    BY <2>1, <2>2
<1> HIDE DEF i
<1>9. NumberedNode(k, i) \in NodeId
  BY <1>8, NumberedType
<1>10. QED
  BY <1>7, <1>8, <1>9

-----------------------------------------------------------------------------
(* The edits *)

(* The first piece of an id of an edge says how it came to the canvas. *)
Hydrated == Word("e")
ByHand == Word("xy-edge__")

LEMMA FirstPiecesDiffer == Hydrated # ByHand
<1>1. Hydrated.word = "e" /\ ByHand.word = "xy-edge__"
  BY DEF Word, Hydrated, ByHand
<1>2. QED
  BY <1>1

EdgePiece == Piece \union {Hydrated, ByHand}

LEMMA NodeIdPieces == NodeId \subseteq Seq(EdgePiece)
<1>1. Piece \subseteq EdgePiece
  BY DEF EdgePiece
<1>2. QED
  BY <1>1 DEF NodeId

CanvasEdge ==
  [id : Seq(EdgePiece), source : NodeId, target : NodeId, label : STRING \cup {NoLabel}]

(* What stands where in three sequences one after the other. *)
LEMMA Joined ==
  ASSUME NEW S, NEW p \in Seq(S), NEW a \in Seq(S), NEW b \in Seq(S)
  PROVE  /\ p \o a \o b \in Seq(S)
         /\ Len(p \o a \o b) = Len(p) + Len(a) + Len(b)
         /\ \A i \in 1 .. Len(p) : (p \o a \o b)[i] = p[i]
         /\ \A i \in 1 .. Len(a) : (p \o a \o b)[Len(p) + i] = a[i]
         /\ \A i \in 1 .. Len(b) : (p \o a \o b)[Len(p) + Len(a) + i] = b[i]
<1> DEFINE q == p \o a
           r == q \o b
<1>1. q \in Seq(S) /\ Len(q) = Len(p) + Len(a)
      /\ \A i \in 1 .. Len(p) + Len(a) : q[i] = IF i <= Len(p) THEN p[i] ELSE a[i - Len(p)]
  BY ConcatProperties
<1>2. Len(p) \in Nat /\ Len(a) \in Nat /\ Len(b) \in Nat /\ Len(q) \in Nat
  BY <1>1
<1> HIDE DEF q
<1>3. r \in Seq(S) /\ Len(r) = Len(q) + Len(b)
      /\ \A i \in 1 .. Len(q) + Len(b) : r[i] = IF i <= Len(q) THEN q[i] ELSE b[i - Len(q)]
  <2>1. q \in Seq(S)
    BY <1>1
  <2>2. QED
    BY <2>1, ConcatProperties
<1> HIDE DEF r
<1>4. ASSUME NEW i \in 1 .. Len(p) PROVE r[i] = p[i]
  BY <1>1, <1>2, <1>3
<1>5. ASSUME NEW i \in 1 .. Len(a) PROVE r[Len(p) + i] = a[i]
  <2>1. r[Len(p) + i] = q[Len(p) + i]
    BY <1>1, <1>2, <1>3
  <2>2. Len(p) + i \in 1 .. Len(p) + Len(a) /\ ~(Len(p) + i <= Len(p)) /\ Len(p) + i - Len(p) = i
    BY <1>2
  <2>3. QED
    BY <1>1, <2>1, <2>2
<1>6. ASSUME NEW i \in 1 .. Len(b) PROVE r[Len(p) + Len(a) + i] = b[i]
  <2>1. Len(q) + i \in 1 .. Len(q) + Len(b) /\ ~(Len(q) + i <= Len(q)) /\ Len(q) + i - Len(q) = i
    BY <1>2
  <2>2. r[Len(q) + i] = b[i]
    BY <1>3, <2>1
  <2>3. QED
    BY <1>1, <2>2
<1>7. QED
  BY <1>1, <1>3, <1>4, <1>5, <1>6 DEF q, r

LEMMA NumberedEdge ==
  ASSUME NEW i \in Nat, NEW a \in NodeId, NEW b \in NodeId
  PROVE  /\ NumberedId(i, a, b) \in Seq(EdgePiece)
         /\ NumberedId(i, a, b)[1] = Hydrated /\ NumberedId(i, a, b)[2] = Number(i)
<1>1. PICK p : p = <<Hydrated, Number(i)>>
  OBVIOUS
<1>2. p \in Seq(EdgePiece) /\ Len(p) = 2 /\ p[1] = Hydrated /\ p[2] = Number(i)
  <2>1. Hydrated \in EdgePiece /\ Number(i) \in EdgePiece
    BY NumberType DEF EdgePiece
  <2>2. QED
    BY <1>1, <2>1, TwoPieces
<1>3. p \in Seq(EdgePiece) /\ a \in Seq(EdgePiece) /\ b \in Seq(EdgePiece)
  BY <1>2, NodeIdPieces
<1>4. /\ p \o a \o b \in Seq(EdgePiece)
      /\ \A j \in 1 .. Len(p) : (p \o a \o b)[j] = p[j]
  BY <1>3, Joined
<1>5. NumberedId(i, a, b) = p \o a \o b
  BY <1>1 DEF NumberedId, Hydrated
<1>6. (p \o a \o b)[1] = p[1] /\ (p \o a \o b)[2] = p[2]
  <2>1. 1 \in 1 .. Len(p) /\ 2 \in 1 .. Len(p)
    BY <1>2
  <2>2. QED
    BY <1>4, <2>1
<1>7. NumberedId(i, a, b)[1] = Hydrated /\ NumberedId(i, a, b)[2] = Number(i)
  BY <1>2, <1>5, <1>6, Zenon
<1>8. QED
  BY <1>4, <1>5, <1>7, Zenon

LEMMA DrawnEdge ==
  ASSUME NEW a \in NodeId, NEW b \in NodeId
  PROVE  /\ DrawnId(a, b) \in Seq(EdgePiece)
         /\ Len(DrawnId(a, b)) = 1 + Len(a) + Len(b)
         /\ DrawnId(a, b)[1] = ByHand
         /\ \A i \in 1 .. Len(a) : DrawnId(a, b)[1 + i] = a[i]
         /\ \A i \in 1 .. Len(b) : DrawnId(a, b)[1 + Len(a) + i] = b[i]
<1>1. PICK p : p = <<ByHand>>
  OBVIOUS
<1>2. p \in Seq(EdgePiece) /\ Len(p) = 1 /\ p[1] = ByHand
  <2>1. ByHand \in EdgePiece
    BY DEF EdgePiece
  <2>2. QED
    BY <1>1, <2>1, OnePiece
<1>3. p \in Seq(EdgePiece) /\ a \in Seq(EdgePiece) /\ b \in Seq(EdgePiece)
  BY <1>2, NodeIdPieces
<1>4. /\ p \o a \o b \in Seq(EdgePiece)
      /\ Len(p \o a \o b) = Len(p) + Len(a) + Len(b)
      /\ \A i \in 1 .. Len(p) : (p \o a \o b)[i] = p[i]
      /\ \A i \in 1 .. Len(a) : (p \o a \o b)[Len(p) + i] = a[i]
      /\ \A i \in 1 .. Len(b) : (p \o a \o b)[Len(p) + Len(a) + i] = b[i]
  <2>1. p \o a \o b \in Seq(EdgePiece) /\ Len(p \o a \o b) = Len(p) + Len(a) + Len(b)
    BY <1>3, Joined
  <2>2. \A i \in 1 .. Len(p) : (p \o a \o b)[i] = p[i]
    BY <1>3, Joined
  <2>3. \A i \in 1 .. Len(a) : (p \o a \o b)[Len(p) + i] = a[i]
    BY <1>3, Joined
  <2>4. \A i \in 1 .. Len(b) : (p \o a \o b)[Len(p) + Len(a) + i] = b[i]
    BY <1>3, Joined
  <2>5. QED
    BY <2>1, <2>2, <2>3, <2>4
<1>5. DrawnId(a, b) = p \o a \o b
  BY <1>1 DEF DrawnId, ByHand
<1>6. QED
  BY <1>2, <1>4, <1>5

LEMMA EdgeParts ==
  ASSUME NEW s \in Seq(CanvasEdge), NEW i \in DOMAIN s
  PROVE  s[i].id \in Seq(EdgePiece) /\ s[i].source \in NodeId /\ s[i].target \in NodeId
<1>1. PICK e \in CanvasEdge : e = s[i]
  OBVIOUS
<1>2. e.id \in Seq(EdgePiece) /\ e.source \in NodeId /\ e.target \in NodeId
  BY DEF CanvasEdge
<1>3. QED
  BY <1>1, <1>2

(* Joined with a hyphen, two pairs of ids give the same only if the first  *)
(* of one has more hyphens than the first of the other.                    *)
LEMMA DrawnApart ==
  ASSUME NEW a \in NodeId, NEW b \in NodeId, NEW c \in NodeId, NEW d \in NodeId,
         DrawnId(a, b) = DrawnId(c, d), Len(a) = Len(c)
  PROVE  a = c /\ b = d
<1>1. /\ a \in Seq(Piece) /\ b \in Seq(Piece) /\ c \in Seq(Piece) /\ d \in Seq(Piece)
      /\ Len(a) \in Nat /\ Len(b) \in Nat /\ Len(d) \in Nat
  BY DEF NodeId
<1>2. PICK f : f = DrawnId(a, b)
  OBVIOUS
<1>3. /\ Len(f) = 1 + Len(a) + Len(b)
      /\ \A i \in 1 .. Len(a) : f[1 + i] = a[i]
      /\ \A i \in 1 .. Len(b) : f[1 + Len(a) + i] = b[i]
  BY <1>2, DrawnEdge
<1>4. /\ Len(f) = 1 + Len(a) + Len(d)
      /\ \A i \in 1 .. Len(a) : f[1 + i] = c[i]
      /\ \A i \in 1 .. Len(d) : f[1 + Len(a) + i] = d[i]
  <2>1. f = DrawnId(c, d)
    BY <1>2
  <2>2. /\ Len(f) = 1 + Len(c) + Len(d)
        /\ \A i \in 1 .. Len(c) : f[1 + i] = c[i]
        /\ \A i \in 1 .. Len(d) : f[1 + Len(c) + i] = d[i]
    BY <2>1, DrawnEdge
  <2>3. QED
    BY <2>2
<1>5. Len(b) = Len(d)
  BY <1>1, <1>3, <1>4
<1>6. \A i \in 1 .. Len(a) : a[i] = c[i]
  BY <1>3, <1>4
<1>7. \A i \in 1 .. Len(b) : b[i] = d[i]
  BY <1>3, <1>4, <1>5
<1>8. a = c
  BY <1>1, <1>6, SeqEqual
<1>9. QED
  BY <1>1, <1>5, <1>7, <1>8, SeqEqual

NodesDistinct == \A i, j \in DOMAIN nodes : nodes[i].id = nodes[j].id => i = j

EndsDrawn == \A i \in DOMAIN edges : edges[i].source \in NodeIds /\ edges[i].target \in NodeIds

EdgesNamed ==
  \A i \in DOMAIN edges :
    edges[i].id = DrawnId(edges[i].source, edges[i].target) \/ edges[i].id[1] = Hydrated

EdgesApart ==
  \A i, j \in DOMAIN edges :
    i # j /\ edges[i].id = edges[j].id =>
      /\ edges[i].id = DrawnId(edges[i].source, edges[i].target)
      /\ Len(edges[i].source) # Len(edges[j].source)

CanvasInv ==
  /\ nodes \in Seq(CanvasNode)
  /\ edges \in Seq(CanvasEdge)
  /\ edits \in Nat
  /\ edits = 0 => Definition = opened
  /\ NodesDistinct
  /\ EndsDrawn
  /\ EdgesNamed
  /\ EdgesApart

LEMMA DrawnIds == NodeIds = {nodes[i].id : i \in DOMAIN nodes}
  BY DEF NodeIds, Ids, Definition

LEMMA DrawnIdsNext == NodeIds' = {nodes'[i].id : i \in DOMAIN nodes'}
  BY DEF NodeIds, Ids, Definition

(* An opened definition is drawn as it is. *)
LEMMA CanvasFilled == CanvasInit => CanvasInv
<1> SUFFICES ASSUME CanvasInit PROVE CanvasInv
  OBVIOUS
<1> DEFINE d == opened
           drawn(i) == [id |-> NumberedId(i, d.edges[i].from, d.edges[i].to),
                        source |-> d.edges[i].from, target |-> d.edges[i].to,
                        label |-> d.edges[i].branch]
<1>1. /\ d \in [nodes : Seq(CanvasNode), edges : Seq(DefinitionEdge)]
      /\ Accepted(d)
  BY CanvasAssumption DEF CanvasInit
<1>2. nodes = d.nodes /\ edges = [i \in DOMAIN d.edges |-> drawn(i)] /\ edits = 0
  BY DEF CanvasInit, Hydrate
<1>3. nodes \in Seq(CanvasNode) /\ d.edges \in Seq(DefinitionEdge)
  BY <1>1, <1>2
<1>4. \A i \in DOMAIN d.edges : drawn(i) \in CanvasEdge
  <2>1. TAKE i \in DOMAIN d.edges
  <2>2. PICK e \in DefinitionEdge : e = d.edges[i] /\ i \in Nat
    <3> HIDE DEF d
    <3>1. QED
      BY <1>3
  <2>3. e.from \in NodeId /\ e.to \in NodeId /\ e.branch \in STRING
    BY DEF DefinitionEdge
  <2>4. NumberedId(i, e.from, e.to) \in Seq(EdgePiece)
    BY <2>2, <2>3, NumberedEdge
  <2>5. drawn(i) = [id |-> NumberedId(i, e.from, e.to), source |-> e.from, target |-> e.to,
                    label |-> e.branch]
    BY <2>2
  <2>6. QED
    BY <2>3, <2>4, <2>5 DEF CanvasEdge
<1>5. edges \in Seq(CanvasEdge)
  <2> HIDE DEF drawn, d
  <2>1. QED
    BY <1>2, <1>3, <1>4
<1>6. \A i \in DOMAIN edges : /\ edges[i].id = NumberedId(i, edges[i].source, edges[i].target)
                              /\ edges[i].source = d.edges[i].from
                              /\ edges[i].target = d.edges[i].to
                              /\ edges[i].label = d.edges[i].branch
  BY <1>2
<1>7. NodeIds = Ids(d)
  BY <1>2, DrawnIds DEF Ids
<1>8. Definition = d
  <2>1. DOMAIN edges = DOMAIN d.edges
    BY <1>2
  <2>2. \A i \in DOMAIN d.edges :
          d.edges[i] = [from |-> edges[i].source, to |-> edges[i].target, branch |-> edges[i].label]
    <3>1. TAKE i \in DOMAIN d.edges
    <3>2. d.edges[i] \in DefinitionEdge
      <4> HIDE DEF d
      <4>1. QED
        BY <1>3
    <3>3. d.edges[i] = [from |-> d.edges[i].from, to |-> d.edges[i].to, branch |-> d.edges[i].branch]
      <4> HIDE DEF d
      <4>1. QED
        BY <3>2 DEF DefinitionEdge
    <3>4. QED
      BY <1>6, <2>1, <3>3
  <2>3. d.edges = [i \in DOMAIN edges |-> [from |-> edges[i].source, to |-> edges[i].target,
                                           branch |-> edges[i].label]]
    BY <1>3, <2>1, <2>2
  <2>4. d = [nodes |-> d.nodes, edges |-> d.edges]
    BY <1>1
  <2>5. QED
    BY <1>2, <2>3, <2>4 DEF Definition
<1>9. NodesDistinct
  BY <1>1, <1>2 DEF NodesDistinct, Accepted
<1>10. EndsDrawn
  BY <1>1, <1>2, <1>6, <1>7 DEF EndsDrawn, Accepted
<1>11. EdgesNamed /\ EdgesApart
  <2>1. \A i \in DOMAIN edges : edges[i].id[1] = Hydrated /\ edges[i].id[2] = Number(i)
    <3>1. TAKE i \in DOMAIN edges
    <3>2. i \in Nat /\ edges[i].source \in NodeId /\ edges[i].target \in NodeId
      BY <1>5, EdgeParts
    <3>3. PICK a \in NodeId, b \in NodeId : a = edges[i].source /\ b = edges[i].target
      BY <3>2
    <3>4. edges[i].id = NumberedId(i, a, b)
      BY <1>6, <3>3
    <3>5. NumberedId(i, a, b)[1] = Hydrated /\ NumberedId(i, a, b)[2] = Number(i)
      BY <3>2, NumberedEdge
    <3>6. QED
      BY <3>4, <3>5
  <2>2. \A i, j \in DOMAIN edges : edges[i].id = edges[j].id => i = j
    <3> SUFFICES ASSUME NEW i \in DOMAIN edges, NEW j \in DOMAIN edges,
                        edges[i].id = edges[j].id
                 PROVE  i = j
      OBVIOUS
    <3>1. Number(i) = Number(j)
      BY <2>1
    <3>2. Number(i).number = i /\ Number(j).number = j
      BY DEF Number
    <3>3. QED
      BY <3>1, <3>2
  <2>3. QED
    BY <2>1, <2>2 DEF EdgesNamed, EdgesApart
<1>12. QED
  BY <1>2, <1>3, <1>5, <1>8, <1>9, <1>10, <1>11 DEF CanvasInv

(* A node is added under an id of its own. *)
LEMMA AddKeeps ==
  ASSUME CanvasInv, NEW k \in NewKinds, AddNode(k)
  PROVE  /\ nodes' \in Seq(CanvasNode) /\ edges' \in Seq(CanvasEdge)
         /\ NodesDistinct' /\ EndsDrawn' /\ EdgesNamed' /\ EdgesApart'
<1>1. k \in STRING /\ nodes \in Seq(CanvasNode) /\ edges \in Seq(CanvasEdge)
  BY CanvasAssumption DEF CanvasInv
<1>2. FreshId(k) \in NodeId /\ FreshId(k) \notin NodeIds
  BY <1>1, FreshIdUnused
<1> DEFINE new == [id |-> FreshId(k), kind |-> k]
<1>3. nodes' = Append(nodes, new) /\ edges' = edges
  BY DEF AddNode
<1>4. new \in CanvasNode /\ new.id \notin NodeIds
  BY <1>1, <1>2 DEF CanvasNode
<1> HIDE DEF new
<1>5. /\ nodes' \in Seq(CanvasNode)
      /\ DOMAIN nodes' = 1 .. Len(nodes) + 1
      /\ \A i \in DOMAIN nodes : nodes'[i] = nodes[i]
      /\ nodes'[Len(nodes) + 1] = new
      /\ DOMAIN nodes = 1 .. Len(nodes) /\ Len(nodes) \in Nat
  BY <1>1, <1>3, <1>4
<1>6. NodeIds \subseteq NodeIds' /\ \A i \in DOMAIN nodes : nodes[i].id \in NodeIds
  BY <1>5, DrawnIds, DrawnIdsNext
<1>7. NodesDistinct'
  <2> SUFFICES ASSUME NEW i \in DOMAIN nodes', NEW j \in DOMAIN nodes',
                      nodes'[i].id = nodes'[j].id
               PROVE  i = j
    BY DEF NodesDistinct
  <2>1. CASE i \in DOMAIN nodes /\ j \in DOMAIN nodes
    BY <1>5, <2>1 DEF CanvasInv, NodesDistinct
  <2>2. CASE i \notin DOMAIN nodes
    BY <1>4, <1>5, <1>6, <2>2
  <2>3. CASE j \notin DOMAIN nodes
    BY <1>4, <1>5, <1>6, <2>3
  <2>4. QED
    BY <2>1, <2>2, <2>3
<1>8. EndsDrawn'
  BY <1>3, <1>6 DEF CanvasInv, EndsDrawn
<1>9. QED
  BY <1>1, <1>3, <1>5, <1>7, <1>8 DEF CanvasInv, EdgesNamed, EdgesApart

(* With a node all its edges go, and nothing else. *)
LEMMA DeleteNodeKeeps ==
  ASSUME CanvasInv, NEW n \in NodeIds, DeleteNode(n)
  PROVE  /\ nodes' \in Seq(CanvasNode) /\ edges' \in Seq(CanvasEdge)
         /\ NodesDistinct' /\ EndsDrawn' /\ EdgesNamed' /\ EdgesApart'
<1> DEFINE K == {i \in DOMAIN nodes : nodes[i].id # n}
<1>0. nodes \in Seq(CanvasNode) /\ edges \in Seq(CanvasEdge)
  BY DEF CanvasInv
<1>1. K \in SUBSET DOMAIN nodes /\ nodes' = Only(nodes, K)
  BY DEF DeleteNode
<1>2. PICK E \in SUBSET DOMAIN edges :
        edges' = Only(edges, E) /\ E \intersect EdgesAt(n) = {}
  <2> DEFINE J == {i \in DOMAIN edges : \A j \in EdgesAt(n) : edges[i].id # edges[j].id}
  <2>1. EdgesAt(n) \subseteq DOMAIN edges
    BY DEF EdgesAt
  <2>2. J \intersect EdgesAt(n) = {} /\ J \in SUBSET DOMAIN edges
    OBVIOUS
  <2>3. edges' = Only(edges, DOMAIN edges \ EdgesAt(n)) \/ edges' = Only(edges, J)
    BY DEF DeleteNode
  <2> HIDE DEF J
  <2>4. QED
    BY <2>1, <2>2, <2>3
<1>3. /\ nodes' \in Seq(CanvasNode)
      /\ \E f \in [DOMAIN nodes' -> K] :
           /\ \A j \in DOMAIN nodes' : nodes'[j] = nodes[f[j]]
           /\ \A j, k \in DOMAIN nodes' : f[j] = f[k] => j = k
           /\ \A i \in K : \E j \in DOMAIN nodes' : f[j] = i
  <2> HIDE DEF K
  <2>1. QED
    BY <1>0, <1>1, OnlyKeeps
<1>4. /\ edges' \in Seq(CanvasEdge)
      /\ \E f \in [DOMAIN edges' -> E] :
           /\ \A j \in DOMAIN edges' : edges'[j] = edges[f[j]]
           /\ \A j, k \in DOMAIN edges' : f[j] = f[k] => j = k
  BY <1>0, <1>2, OnlyKeeps
<1>5. PICK f \in [DOMAIN nodes' -> K] :
        /\ \A j \in DOMAIN nodes' : nodes'[j] = nodes[f[j]]
        /\ \A j, k \in DOMAIN nodes' : f[j] = f[k] => j = k
        /\ \A i \in K : \E j \in DOMAIN nodes' : f[j] = i
  BY <1>3
<1>6. PICK g \in [DOMAIN edges' -> E] :
        /\ \A j \in DOMAIN edges' : edges'[j] = edges[g[j]]
        /\ \A j, k \in DOMAIN edges' : g[j] = g[k] => j = k
  BY <1>4
<1>7. NodesDistinct'
  BY <1>5 DEF CanvasInv, NodesDistinct
<1>8. NodeIds \ {n} \subseteq NodeIds'
  <2>1. ASSUME NEW i \in DOMAIN nodes, nodes[i].id # n
        PROVE  \E j \in DOMAIN nodes' : nodes'[j].id = nodes[i].id
    BY <1>5, <2>1
  <2>2. QED
    BY <2>1, DrawnIds, DrawnIdsNext
<1>9. EndsDrawn' /\ EdgesNamed' /\ EdgesApart'
  <2>1. \A j \in DOMAIN edges' : /\ g[j] \in DOMAIN edges
                                 /\ n \notin {edges[g[j]].source, edges[g[j]].target}
    BY <1>2 DEF EdgesAt
  <2>2. EndsDrawn'
    BY <1>6, <1>8, <2>1 DEF CanvasInv, EndsDrawn
  <2>3. EdgesNamed'
    BY <1>6, <2>1 DEF CanvasInv, EdgesNamed
  <2>4. EdgesApart'
    BY <1>6, <2>1 DEF CanvasInv, EdgesApart
  <2>5. QED
    BY <2>2, <2>3, <2>4
<1>10. QED
  BY <1>3, <1>4, <1>7, <1>9

(* No second edge is drawn between two nodes, and another one gets its     *)
(* name only if hyphens are counted differently.                           *)
LEMMA ConnectKeeps ==
  ASSUME CanvasInv, NEW a \in NodeIds, NEW b \in NodeIds, Connect(a, b)
  PROVE  /\ nodes' \in Seq(CanvasNode) /\ edges' \in Seq(CanvasEdge)
         /\ NodesDistinct' /\ EndsDrawn' /\ EdgesNamed' /\ EdgesApart'
<1> DEFINE new == [id |-> DrawnId(a, b), source |-> a, target |-> b, label |-> NoLabel]
<1>1. /\ nodes \in Seq(CanvasNode) /\ edges \in Seq(CanvasEdge)
      /\ nodes' = nodes /\ edges' = Append(edges, new)
      /\ \A i \in DOMAIN edges : <<edges[i].source, edges[i].target>> # <<a, b>>
  BY DEF CanvasInv, Connect
<1>2. a \in NodeId /\ b \in NodeId
  <2>1. \A i \in DOMAIN nodes : nodes[i].id \in NodeId
    <3>1. TAKE i \in DOMAIN nodes
    <3>2. nodes[i] \in CanvasNode
      BY <1>1
    <3>3. QED
      BY <3>2 DEF CanvasNode
  <2>2. QED
    BY <2>1, DrawnIds
<1>3. new \in CanvasEdge
  <2>1. DrawnId(a, b) \in Seq(EdgePiece)
    BY <1>2, DrawnEdge
  <2>2. QED
    BY <1>2, <2>1 DEF CanvasEdge
<1>4. new.source = a /\ new.target = b /\ new.id = DrawnId(a, b)
  OBVIOUS
<1> HIDE DEF new
<1>5. /\ edges' \in Seq(CanvasEdge)
      /\ DOMAIN edges' = 1 .. Len(edges) + 1
      /\ \A i \in DOMAIN edges : edges'[i] = edges[i]
      /\ edges'[Len(edges) + 1] = new
      /\ DOMAIN edges = 1 .. Len(edges) /\ Len(edges) \in Nat
  BY <1>1, <1>3
<1>6. NodeIds' = NodeIds
  BY <1>1, DrawnIds, DrawnIdsNext
<1>7. ASSUME NEW i \in DOMAIN edges, edges[i].id = new.id
      PROVE  /\ edges[i].id = DrawnId(edges[i].source, edges[i].target)
             /\ Len(edges[i].source) # Len(a)
  <2>1. edges[i].source \in NodeId /\ edges[i].target \in NodeId
    BY <1>1, EdgeParts
  <2>2. edges[i].id[1] # Hydrated
    BY <1>2, <1>4, <1>7, DrawnEdge, FirstPiecesDiffer
  <2>3. edges[i].id = DrawnId(edges[i].source, edges[i].target)
    BY <2>2 DEF CanvasInv, EdgesNamed
  <2>4. ~(edges[i].source = a /\ edges[i].target = b)
    BY <1>1
  <2>5. Len(edges[i].source) # Len(a)
    <3>1. PICK c \in NodeId, d \in NodeId : c = edges[i].source /\ d = edges[i].target
      BY <2>1
    <3>2. DrawnId(c, d) = DrawnId(a, b) /\ ~(c = a /\ d = b)
      BY <1>4, <1>7, <2>3, <2>4, <3>1
    <3>3. Len(c) # Len(a)
      BY <1>2, <3>2, DrawnApart
    <3>4. QED
      BY <3>1, <3>3
  <2>6. QED
    BY <2>3, <2>5
<1>8. EdgesApart'
  <2> SUFFICES ASSUME NEW i \in DOMAIN edges', NEW j \in DOMAIN edges',
                      i # j, edges'[i].id = edges'[j].id
               PROVE  /\ edges'[i].id = DrawnId(edges'[i].source, edges'[i].target)
                      /\ Len(edges'[i].source) # Len(edges'[j].source)
    BY DEF EdgesApart
  <2>1. CASE i \in DOMAIN edges /\ j \in DOMAIN edges
    BY <1>5, <2>1 DEF CanvasInv, EdgesApart
  <2>2. CASE i \notin DOMAIN edges
    BY <1>4, <1>5, <1>7, <2>2
  <2>3. CASE j \notin DOMAIN edges
    BY <1>4, <1>5, <1>7, <2>3
  <2>4. QED
    BY <2>1, <2>2, <2>3
<1>9. EndsDrawn' /\ EdgesNamed'
  <2> SUFFICES ASSUME NEW i \in DOMAIN edges'
               PROVE  /\ edges'[i].source \in NodeIds' /\ edges'[i].target \in NodeIds'
                      /\ \/ edges'[i].id = DrawnId(edges'[i].source, edges'[i].target)
                         \/ edges'[i].id[1] = Hydrated
    BY DEF EndsDrawn, EdgesNamed
  <2>1. CASE i \in DOMAIN edges
    BY <1>5, <1>6, <2>1 DEF CanvasInv, EndsDrawn, EdgesNamed
  <2>2. CASE i \notin DOMAIN edges
    BY <1>4, <1>5, <1>6, <2>2
  <2>3. QED
    BY <2>1, <2>2
<1>10. QED
  BY <1>1, <1>5, <1>8, <1>9 DEF CanvasInv, NodesDistinct

LEMMA DeleteEdgeKeeps ==
  ASSUME CanvasInv, NEW id, DeleteEdge(id)
  PROVE  /\ nodes' \in Seq(CanvasNode) /\ edges' \in Seq(CanvasEdge)
         /\ NodesDistinct' /\ EndsDrawn' /\ EdgesNamed' /\ EdgesApart'
<1> DEFINE E == {i \in DOMAIN edges : edges[i].id # id}
<1>1. /\ nodes \in Seq(CanvasNode) /\ edges \in Seq(CanvasEdge)
      /\ E \in SUBSET DOMAIN edges
      /\ nodes' = nodes /\ edges' = Only(edges, E)
  BY DEF CanvasInv, DeleteEdge
<1> HIDE DEF E
<1>2. /\ edges' \in Seq(CanvasEdge)
      /\ \E f \in [DOMAIN edges' -> E] :
           /\ \A j \in DOMAIN edges' : edges'[j] = edges[f[j]]
           /\ \A j, k \in DOMAIN edges' : f[j] = f[k] => j = k
  BY <1>1, OnlyKeeps
<1>3. PICK g \in [DOMAIN edges' -> E] :
        /\ \A j \in DOMAIN edges' : edges'[j] = edges[g[j]]
        /\ \A j, k \in DOMAIN edges' : g[j] = g[k] => j = k
  BY <1>2
<1>4. \A j \in DOMAIN edges' : g[j] \in DOMAIN edges
  BY <1>1
<1>5. NodeIds' = NodeIds
  BY <1>1, DrawnIds, DrawnIdsNext
<1>6. EndsDrawn'
  BY <1>3, <1>4, <1>5 DEF CanvasInv, EndsDrawn
<1>7. EdgesNamed'
  BY <1>3, <1>4 DEF CanvasInv, EdgesNamed
<1>8. EdgesApart'
  BY <1>3, <1>4 DEF CanvasInv, EdgesApart
<1>9. QED
  BY <1>1, <1>2, <1>6, <1>7, <1>8 DEF CanvasInv, NodesDistinct

LEMMA SetLabelKeeps ==
  ASSUME CanvasInv, NEW id, NEW l \in Branches, SetLabel(id, l)
  PROVE  /\ nodes' \in Seq(CanvasNode) /\ edges' \in Seq(CanvasEdge)
         /\ NodesDistinct' /\ EndsDrawn' /\ EdgesNamed' /\ EdgesApart'
<1> DEFINE relabelled(i) ==
             IF edges[i].id = id THEN [edges[i] EXCEPT !.label = l] ELSE edges[i]
<1>1. /\ nodes \in Seq(CanvasNode) /\ edges \in Seq(CanvasEdge) /\ l \in STRING
      /\ nodes' = nodes /\ edges' = [i \in DOMAIN edges |-> relabelled(i)]
  BY CanvasAssumption DEF CanvasInv, SetLabel
<1>2. \A i \in DOMAIN edges : /\ relabelled(i) \in CanvasEdge
                              /\ relabelled(i).id = edges[i].id
                              /\ relabelled(i).source = edges[i].source
                              /\ relabelled(i).target = edges[i].target
  <2>1. TAKE i \in DOMAIN edges
  <2>2. PICK e \in CanvasEdge : e = edges[i]
    BY <1>1
  <2>3. /\ [e EXCEPT !.label = l] \in CanvasEdge
        /\ [e EXCEPT !.label = l].id = e.id
        /\ [e EXCEPT !.label = l].source = e.source
        /\ [e EXCEPT !.label = l].target = e.target
    BY <1>1 DEF CanvasEdge
  <2>4. relabelled(i) = IF e.id = id THEN [e EXCEPT !.label = l] ELSE e
    BY <2>2
  <2> HIDE DEF relabelled
  <2>5. QED
    BY <2>2, <2>3, <2>4
<1> HIDE DEF relabelled
<1>3. /\ edges' \in Seq(CanvasEdge)
      /\ DOMAIN edges' = DOMAIN edges
      /\ \A i \in DOMAIN edges : /\ edges'[i].id = edges[i].id
                                 /\ edges'[i].source = edges[i].source
                                 /\ edges'[i].target = edges[i].target
  BY <1>1, <1>2
<1>4. NodeIds' = NodeIds
  BY <1>1, DrawnIds, DrawnIdsNext
<1>5. EndsDrawn' /\ NodesDistinct'
  BY <1>1, <1>3, <1>4 DEF CanvasInv, NodesDistinct, EndsDrawn
<1>6. EdgesNamed'
  BY <1>3 DEF CanvasInv, EdgesNamed
<1>7. EdgesApart'
  BY <1>3 DEF CanvasInv, EdgesApart
<1>8. QED
  BY <1>1, <1>3, <1>5, <1>6, <1>7

LEMMA EditKeeps == CanvasInv /\ [Edit]_canvasVars => CanvasInv'
<1> SUFFICES ASSUME CanvasInv, [Edit]_canvasVars PROVE CanvasInv'
  OBVIOUS
<1>1. CASE UNCHANGED canvasVars
  BY <1>1, DrawnIds, DrawnIdsNext DEF canvasVars, CanvasInv, Definition, NodesDistinct, EndsDrawn, EdgesNamed,
                        EdgesApart
<1>2. CASE Edit
  <2>1. /\ nodes' \in Seq(CanvasNode) /\ edges' \in Seq(CanvasEdge)
        /\ NodesDistinct' /\ EndsDrawn' /\ EdgesNamed' /\ EdgesApart'
    BY <1>2, AddKeeps, DeleteNodeKeeps, ConnectKeeps, DeleteEdgeKeeps, SetLabelKeeps DEF Edit
  <2>2. edits \in Nat /\ edits' = edits + 1
    BY <1>2 DEF Edit, CanvasInv
  <2>3. QED
    BY <2>1, <2>2 DEF CanvasInv
<1>3. QED
  BY <1>1, <1>2

LEMMA GraphKept == CanvasInv => EditsKeepGraph
<1> SUFFICES ASSUME CanvasInv PROVE EditsKeepGraph
  OBVIOUS
<1> DEFINE d == Definition
<1>1. /\ d.nodes = nodes /\ DOMAIN d.edges = DOMAIN edges
      /\ \A i \in DOMAIN edges : d.edges[i].from = edges[i].source /\ d.edges[i].to = edges[i].target
      /\ Ids(d) = NodeIds
  BY DEF Definition, NodeIds
<1> HIDE DEF d
<1>2. \A i, j \in DOMAIN d.nodes : d.nodes[i].id = d.nodes[j].id => i = j
  BY <1>1 DEF CanvasInv, NodesDistinct
<1>3. \A i \in DOMAIN d.edges : {d.edges[i].from, d.edges[i].to} \subseteq Ids(d)
  BY <1>1 DEF CanvasInv, EndsDrawn
<1>4. Cardinality(TriggerNodes(d)) = 1 => d.nodes # <<>>
  <2> SUFFICES ASSUME d.nodes = <<>> PROVE Cardinality(TriggerNodes(d)) # 1
    OBVIOUS
  <2>1. TriggerNodes(d) = {}
    BY DEF TriggerNodes
  <2>2. QED
    BY <2>1, FS_EmptySet
<1>5. Accepted(d) <=> Cardinality(TriggerNodes(d)) = 1
  BY <1>2, <1>3, <1>4 DEF Accepted
<1>6. QED
  BY <1>5 DEF EditsKeepGraph, CanvasInv, EdgesApart, d

LEMMA CanvasAlways == CanvasSpec => []CanvasInv
  BY CanvasFilled, EditKeeps, PTL DEF CanvasSpec

(* However the canvas is edited, no edge dangles and no node id is given   *)
(* twice: the numbers of deleted nodes are given again, but only after     *)
(* their edges are gone.  Two edges share an id only if both were drawn by *)
(* hand and the ids of their sources differ in their number of hyphens     *)
(* (addNode, deleteSelectedNode and onConnect of edit/page.tsx).           *)
THEOREM EditorKeepsGraph == CanvasSpec => []EditsKeepGraph
  BY CanvasAlways, GraphKept, PTL

-----------------------------------------------------------------------------
(* The layout of a definition whose ids are distinct and whose edges end   *)
(* at its nodes.                                                           *)

Drawable(d) ==
  /\ Len(d.nodes) \in Nat /\ DOMAIN d.nodes = 1 .. Len(d.nodes)
  /\ Len(d.edges) \in Nat /\ DOMAIN d.edges = 1 .. Len(d.edges)
  /\ \A i, j \in DOMAIN d.nodes : d.nodes[i].id = d.nodes[j].id => i = j
  /\ \A i \in DOMAIN d.edges : d.edges[i].from \in Ids(d) /\ d.edges[i].to \in Ids(d)

Depths(d) == [Ids(d) -> 0 .. Len(d.nodes)]

Pushed(d, at, e) ==
  IF at[e.from] + 1 > at[e.to] /\ at[e.from] + 1 <= Len(d.nodes)
  THEN [at EXCEPT ![e.to] = at[e.from] + 1] ELSE at

(* A pass as the sequence of its pushes, and the passes in turn.           *)
Pass(d, depth, f) ==
  /\ f \in [0 .. Len(d.edges) -> Depths(d)]
  /\ f[0] = depth
  /\ \A j \in 1 .. Len(d.edges) : f[j] = Pushed(d, f[j - 1], d.edges[j])

LEMMA IdsCounted ==
  ASSUME NEW d, Drawable(d)
  PROVE  IsFiniteSet(Ids(d)) /\ Cardinality(Ids(d)) = Len(d.nodes)
<1> DEFINE N == Len(d.nodes)
           f == [i \in 1 .. N |-> d.nodes[i].id]
<1>1. N \in Nat /\ DOMAIN d.nodes = 1 .. N
  BY DEF Drawable
<1>2. Ids(d) = {f[i] : i \in 1 .. N}
  BY <1>1 DEF Ids
<1>3. \A i, j \in 1 .. N : f[i] = f[j] => i = j
  BY <1>1 DEF Drawable
<1>4. f \in [1 .. N -> Ids(d)]
  BY <1>2
<1> HIDE DEF f, N
<1>5. f \in Bijection(1 .. N, Ids(d))
  <2>1. \A t \in Ids(d) : \E i \in 1 .. N : f[i] = t
    BY <1>2
  <2>2. QED
    BY <1>3, <1>4, <2>1, Fun_IsBij
<1>6. ExistsBijection(1 .. N, Ids(d))
  BY <1>5, Fun_ExistsBij
<1>7. IsFiniteSet(1 .. N) /\ Cardinality(1 .. N) = N
  BY <1>1, FS_Interval
<1>8. QED
  BY <1>6, <1>7, FS_Bijection DEF N

LEMMA PushedType ==
  ASSUME NEW d, Drawable(d), NEW at \in Depths(d), NEW j \in DOMAIN d.edges
  PROVE  Pushed(d, at, d.edges[j]) \in Depths(d)
<1> DEFINE from == d.edges[j].from
           to == d.edges[j].to
<1>1. from \in Ids(d) /\ to \in Ids(d) /\ Len(d.nodes) \in Nat
  BY DEF Drawable
<1>2. at[from] \in 0 .. Len(d.nodes)
  BY <1>1 DEF Depths
<1>3. CASE at[from] + 1 > at[to] /\ at[from] + 1 <= Len(d.nodes)
  <2>1. at[from] + 1 \in 0 .. Len(d.nodes)
    BY <1>1, <1>2, <1>3
  <2>2. [at EXCEPT ![to] = at[from] + 1] \in Depths(d)
    BY <2>1 DEF Depths
  <2>3. QED
    BY <1>3, <2>2 DEF Pushed
<1>4. CASE ~(at[from] + 1 > at[to] /\ at[from] + 1 <= Len(d.nodes))
  BY <1>4 DEF Pushed
<1>5. QED
  BY <1>3, <1>4

(* What Relaxed computes.                                                  *)
LEMMA RelaxedSteps ==
  ASSUME NEW d, Drawable(d), NEW depth \in Depths(d)
  PROVE  \E f : Pass(d, depth, f) /\ Relaxed(d, depth) = f[Len(d.edges)]
<1> DEFINE E == Len(d.edges)
           Solves(f) == f = [j \in 0 .. E |->
                               IF j = 0 THEN depth ELSE Pushed(d, f[j - 1], d.edges[j])]
           F == [p \in (1 .. E) \X Depths(d) |-> Pushed(d, p[2], d.edges[p[1]])]
<1>1. E \in Nat /\ DOMAIN d.edges = 1 .. E
  BY DEF Drawable
<1>2. \A i \in 1 .. E : \A x \in Depths(d) : F[<<i, x>>] \in Depths(d)
  BY <1>1, PushedType
<1>3. PICK f : Iterates(E, Depths(d), depth, F, f)
  <2> HIDE DEF E, F
  <2>1. QED
    BY <1>1, <1>2, Recursion
<1>4. Pass(d, depth, f)
  <2>1. ASSUME NEW i \in 1 .. E PROVE f[i] = Pushed(d, f[i - 1], d.edges[i])
    <3>1. i - 1 \in 0 .. E
      BY <1>1
    <3>2. <<i, f[i - 1]>> \in (1 .. E) \X Depths(d)
      BY <1>3, <3>1 DEF Iterates
    <3>3. F[<<i, f[i - 1]>>] = Pushed(d, f[i - 1], d.edges[i])
      BY <3>2
    <3>4. QED
      BY <1>3, <3>3 DEF Iterates
  <2>2. QED
    BY <1>3, <2>1 DEF Pass, Iterates
<1>5. Solves(f)
  <2>1. \A j \in 0 .. E : f[j] = IF j = 0 THEN depth ELSE Pushed(d, f[j - 1], d.edges[j])
    BY <1>1, <1>4 DEF Pass
  <2>2. QED
    BY <1>3, <2>1 DEF Iterates
<1> DEFINE h == CHOOSE h : Solves(h)
<1>6. Solves(h)
  <2> HIDE DEF Solves
  <2>1. QED
    BY <1>5
<1>7. Relaxed(d, depth) = h[E]
  BY DEF Relaxed, Pushed
<1>8. \A j \in 0 .. E : h[j] = IF j = 0 THEN depth ELSE Pushed(d, h[j - 1], d.edges[j])
  <2> HIDE DEF h
  <2>1. QED
    BY <1>6
<1> HIDE DEF h, Solves, F
<1> DEFINE T == {j \in 0 .. E : h[j] = f[j]}
<1>9. 0 .. E \subseteq T
  <2>1. 0 \in T
    BY <1>1, <1>3, <1>8 DEF Iterates
  <2>2. ASSUME NEW i \in 0 .. E, i \in T, i # E PROVE i + 1 \in T
    <3>1. i + 1 \in 1 .. E /\ (i + 1) - 1 = i
      BY <1>1, <2>2
    <3>2. f[i + 1] = Pushed(d, f[i], d.edges[i + 1])
      BY <1>4, <3>1 DEF Pass
    <3>3. h[i + 1] = Pushed(d, h[i], d.edges[i + 1])
      BY <1>1, <1>8, <3>1
    <3>4. QED
      BY <2>2, <3>1, <3>2, <3>3
  <2>3. T \in SUBSET Nat
    BY <1>1
  <2> HIDE DEF T
  <2>4. QED
    BY <1>1, <2>1, <2>2, <2>3, Induction
<1>10. h[E] = f[E]
  BY <1>1, <1>9
<1>11. QED
  BY <1>4, <1>7, <1>10

LEMMA RelaxedType ==
  ASSUME NEW d, Drawable(d), NEW depth \in Depths(d)
  PROVE  Relaxed(d, depth) \in Depths(d)
<1>1. PICK f : Pass(d, depth, f) /\ Relaxed(d, depth) = f[Len(d.edges)]
  BY RelaxedSteps
<1>2. QED
  BY <1>1 DEF Pass, Drawable

LEMMA FirstDepthType ==
  ASSUME NEW d, Drawable(d)
  PROVE  FirstDepth(d) \in Depths(d)
<1>1. ASSUME NEW n \in Ids(d) PROVE 1 \in 0 .. Len(d.nodes) /\ 0 \in 0 .. Len(d.nodes)
  BY DEF Ids, Drawable
<1>2. QED
  BY <1>1 DEF FirstDepth, Depths

(* What Depth computes.                                                    *)
LEMMA DepthSteps ==
  ASSUME NEW d, Drawable(d)
  PROVE  \E g \in [0 .. Len(d.nodes) -> Depths(d)] :
           /\ g[0] = FirstDepth(d)
           /\ \A i \in 1 .. Len(d.nodes) : g[i] = Relaxed(d, g[i - 1])
           /\ Depth(d) = g[Len(d.nodes)]
<1> DEFINE N == Len(d.nodes)
           Solves(f) == f = [i \in 0 .. N |->
                               IF i = 0 THEN FirstDepth(d) ELSE Relaxed(d, f[i - 1])]
           F == [p \in (1 .. N) \X Depths(d) |-> Relaxed(d, p[2])]
<1>1. N \in Nat
  BY DEF Drawable
<1>2. \A i \in 1 .. N : \A x \in Depths(d) : F[<<i, x>>] \in Depths(d)
  BY <1>1, RelaxedType
<1>3. PICK f : Iterates(N, Depths(d), FirstDepth(d), F, f)
  <2>1. FirstDepth(d) \in Depths(d)
    BY FirstDepthType
  <2> HIDE DEF N, F
  <2>2. QED
    BY <1>1, <1>2, <2>1, Recursion
<1>4. ASSUME NEW i \in 1 .. N PROVE f[i] = Relaxed(d, f[i - 1])
  <2>1. i - 1 \in 0 .. N
    BY <1>1
  <2>2. <<i, f[i - 1]>> \in (1 .. N) \X Depths(d)
    BY <1>3, <2>1 DEF Iterates
  <2>3. F[<<i, f[i - 1]>>] = Relaxed(d, f[i - 1])
    BY <2>2
  <2>4. QED
    BY <1>3, <2>3 DEF Iterates
<1>5. Solves(f)
  <2>1. \A j \in 0 .. N : f[j] = IF j = 0 THEN FirstDepth(d) ELSE Relaxed(d, f[j - 1])
    BY <1>1, <1>3, <1>4 DEF Iterates
  <2>2. QED
    BY <1>3, <2>1 DEF Iterates
<1> DEFINE h == CHOOSE h : Solves(h)
<1>6. Solves(h)
  <2> HIDE DEF Solves
  <2>1. QED
    BY <1>5
<1>7. Depth(d) = h[N]
  BY DEF Depth
<1>8. \A j \in 0 .. N : h[j] = IF j = 0 THEN FirstDepth(d) ELSE Relaxed(d, h[j - 1])
  <2> HIDE DEF h
  <2>1. QED
    BY <1>6
<1> HIDE DEF h, Solves, F
<1> DEFINE T == {j \in 0 .. N : h[j] = f[j]}
<1>9. 0 .. N \subseteq T
  <2>1. 0 \in T
    BY <1>1, <1>3, <1>8 DEF Iterates
  <2>2. ASSUME NEW i \in 0 .. N, i \in T, i # N PROVE i + 1 \in T
    <3>1. i + 1 \in 1 .. N /\ (i + 1) - 1 = i
      BY <1>1, <2>2
    <3>2. f[i + 1] = Relaxed(d, f[i])
      BY <1>4, <3>1
    <3>3. h[i + 1] = Relaxed(d, h[i])
      BY <1>1, <1>8, <3>1
    <3>4. QED
      BY <2>2, <3>1, <3>2, <3>3
  <2>3. T \in SUBSET Nat
    BY <1>1
  <2> HIDE DEF T
  <2>4. QED
    BY <1>1, <2>1, <2>2, <2>3, Induction
<1>10. h[N] = f[N]
  BY <1>1, <1>9
<1>11. QED
  BY <1>3, <1>4, <1>7, <1>10 DEF Iterates

-----------------------------------------------------------------------------
(* Depths and paths.  No node is deeper than one below a predecessor: this *)
(* holds of every push.  And each pass settles, besides the nodes that     *)
(* were settled, those all of whose predecessors were: in an acyclic graph *)
(* one more at least.                                                      *)

Supported(d, at) ==
  \A n \in Ids(d) :
    \/ Predecessors(d, n) = {} /\ at[n] = 0
    \/ \E m \in Predecessors(d, n) : at[n] <= at[m] + 1

Settled(d, at, S) ==
  /\ S \subseteq Ids(d)
  /\ \A n \in S : \A m \in Predecessors(d, n) : m \in S /\ at[m] < at[n]
  /\ \A n \in S : at[n] < Cardinality(S)

LEMMA PredecessorEdges ==
  ASSUME NEW d, Drawable(d), NEW n
  PROVE  /\ Predecessors(d, n) \subseteq Ids(d)
         /\ \A m : m \in Predecessors(d, n)
                     <=> \E i \in 1 .. Len(d.edges) : d.edges[i].from = m /\ d.edges[i].to = n
  BY DEF Predecessors, Drawable

LEMMA DepthValues ==
  ASSUME NEW d, Drawable(d), NEW at \in Depths(d), NEW n \in Ids(d)
  PROVE  at[n] \in Nat /\ at[n] <= Len(d.nodes)
  BY DEF Depths, Drawable

LEMMA PushedValues ==
  ASSUME NEW d, Drawable(d), NEW at \in Depths(d), NEW j \in 1 .. Len(d.edges),
         NEW e, e = d.edges[j]
  PROVE  /\ e.from \in Ids(d) /\ e.to \in Ids(d)
         /\ \A n \in Ids(d) : n # e.to => Pushed(d, at, e)[n] = at[n]
         /\ \/ at[e.from] + 1 > at[e.to] /\ at[e.from] + 1 <= Len(d.nodes)
               /\ Pushed(d, at, e)[e.to] = at[e.from] + 1
            \/ (at[e.from] + 1 <= at[e.to] \/ at[e.from] + 1 > Len(d.nodes))
               /\ Pushed(d, at, e)[e.to] = at[e.to]
         /\ \A n \in Ids(d) : at[n] <= Pushed(d, at, e)[n]
<1>1. e.from \in Ids(d) /\ e.to \in Ids(d) /\ Len(d.nodes) \in Nat
  BY DEF Drawable
<1>2. \A n \in Ids(d) : at[n] \in Nat
  BY DepthValues
<1>3. CASE at[e.from] + 1 > at[e.to] /\ at[e.from] + 1 <= Len(d.nodes)
  <2>1. Pushed(d, at, e) = [at EXCEPT ![e.to] = at[e.from] + 1]
    BY <1>3 DEF Pushed
  <2>2. \A n \in Ids(d) : Pushed(d, at, e)[n] = IF n = e.to THEN at[e.from] + 1 ELSE at[n]
    BY <2>1 DEF Depths
  <2>3. QED
    BY <1>1, <1>2, <1>3, <2>2
<1>4. CASE ~(at[e.from] + 1 > at[e.to] /\ at[e.from] + 1 <= Len(d.nodes))
  <2>1. Pushed(d, at, e) = at
    BY <1>4 DEF Pushed
  <2>2. QED
    BY <1>1, <1>2, <1>4, <2>1
<1>5. QED
  BY <1>3, <1>4

LEMMA PushedSupported ==
  ASSUME NEW d, Drawable(d), NEW at \in Depths(d), NEW j \in 1 .. Len(d.edges), Supported(d, at)
  PROVE  Supported(d, Pushed(d, at, d.edges[j]))
<1> DEFINE e == d.edges[j]
           new == Pushed(d, at, e)
<1>1. /\ e.from \in Ids(d) /\ e.to \in Ids(d)
      /\ \A n \in Ids(d) : n # e.to => new[n] = at[n]
      /\ new[e.to] = at[e.from] + 1 \/ new[e.to] = at[e.to]
      /\ \A n \in Ids(d) : at[n] <= new[n]
  <2> HIDE DEF e
  <2>1. e = d.edges[j]
    BY DEF e
  <2>2. QED
    BY <2>1, PushedValues
<1>2. j \in 1 .. Len(d.edges) /\ d.edges[j].from = e.from /\ d.edges[j].to = e.to
  OBVIOUS
<1> HIDE DEF e
<1>3. e.from \in Predecessors(d, e.to)
  BY <1>2, PredecessorEdges
<1>4. new \in Depths(d)
  <2>1. j \in DOMAIN d.edges
    BY DEF Drawable
  <2>2. QED
    BY <2>1, PushedType DEF e
<1> HIDE DEF new
<1>5. \A n \in Ids(d) : at[n] \in Nat /\ new[n] \in Nat
  BY <1>4, DepthValues
<1>6. ASSUME NEW n \in Ids(d)
      PROVE  \/ Predecessors(d, n) = {} /\ new[n] = 0
             \/ \E m \in Predecessors(d, n) : new[n] <= new[m] + 1
  <2>1. CASE new[n] = at[n]
    <3>1. CASE Predecessors(d, n) = {} /\ at[n] = 0
      BY <2>1, <3>1
    <3>2. CASE \E m \in Predecessors(d, n) : at[n] <= at[m] + 1
      <4>1. PICK m \in Predecessors(d, n) : at[n] <= at[m] + 1
        BY <3>2
      <4>2. m \in Ids(d)
        BY PredecessorEdges
      <4>3. new[n] <= new[m] + 1
        BY <1>1, <1>5, <2>1, <4>1, <4>2
      <4>4. QED
        BY <4>3
    <3>3. QED
      BY <3>1, <3>2 DEF Supported
  <2>2. CASE new[n] # at[n]
    <3>1. n = e.to /\ new[n] = at[e.from] + 1
      BY <1>1, <2>2
    <3>2. new[n] <= new[e.from] + 1
      BY <1>1, <1>5, <3>1
    <3>3. QED
      BY <1>3, <3>1, <3>2
  <2>3. QED
    BY <2>1, <2>2
<1>7. Supported(d, new)
  BY <1>6 DEF Supported
<1>8. QED
  BY <1>7 DEF new, e

(* What holds after the first j pushes of a pass that began with S settled. *)
Pushing(d, depth, S, next, f, j) ==
  /\ Supported(d, f[j])
  /\ \A n \in S : f[j][n] = depth[n]
  /\ \A i \in 1 .. j : d.edges[i].to \in next =>
       depth[d.edges[i].from] + 1 <= f[j][d.edges[i].to]

LEMMA OnePush ==
  ASSUME NEW d, Drawable(d), NEW depth \in Depths(d), NEW S, Settled(d, depth, S),
         NEW next, next = {n \in Ids(d) : Predecessors(d, n) \subseteq S},
         Cardinality(S) \in Nat, Cardinality(S) <= Len(d.nodes),
         NEW f, Pass(d, depth, f),
         NEW j \in 0 .. Len(d.edges), j # Len(d.edges), Pushing(d, depth, S, next, f, j)
  PROVE  Pushing(d, depth, S, next, f, j + 1)
<1> DEFINE e == d.edges[j + 1]
           at == f[j]
           new == f[j + 1]
<1>1. j + 1 \in 1 .. Len(d.edges) /\ Len(d.edges) \in Nat /\ Len(d.nodes) \in Nat
  BY DEF Drawable
<1>2. at \in Depths(d) /\ new = Pushed(d, at, e)
  BY <1>1 DEF Pass
<1>3. /\ e.from \in Ids(d) /\ e.to \in Ids(d)
      /\ \A n \in Ids(d) : n # e.to => new[n] = at[n]
      /\ \/ at[e.from] + 1 > at[e.to] /\ at[e.from] + 1 <= Len(d.nodes)
            /\ new[e.to] = at[e.from] + 1
         \/ (at[e.from] + 1 <= at[e.to] \/ at[e.from] + 1 > Len(d.nodes))
            /\ new[e.to] = at[e.to]
      /\ \A n \in Ids(d) : at[n] <= new[n]
  <2> HIDE DEF at, new, e
  <2>1. e = d.edges[j + 1]
    BY DEF e
  <2>2. QED
    BY <1>1, <1>2, <2>1, PushedValues
<1>4. Supported(d, new)
  <2>1. Supported(d, at)
    BY DEF Pushing
  <2> HIDE DEF at, new
  <2>2. QED
    BY <1>1, <1>2, <2>1, PushedSupported
<1>5. e.from \in Predecessors(d, e.to)
  BY <1>1, PredecessorEdges
<1>6. new \in Depths(d)
  BY <1>1 DEF Pass
<1>7. \A n \in S : n \in Ids(d) /\ at[n] = depth[n]
  BY DEF Settled, Pushing
<1>8. \A i \in 1 .. j : d.edges[i].to \in next =>
        depth[d.edges[i].from] + 1 <= at[d.edges[i].to]
  BY DEF Pushing
<1>9. e = d.edges[j + 1]
  OBVIOUS
<1> HIDE DEF at, new, e
<1>10. \A n \in Ids(d) : depth[n] \in Nat /\ at[n] \in Nat /\ new[n] \in Nat
  BY <1>2, <1>6, DepthValues
<1>11. ASSUME NEW n \in S PROVE new[n] = depth[n]
  <2>1. CASE n # e.to
    BY <1>3, <1>7, <2>1
  <2>2. CASE n = e.to
    <3>1. e.from \in S /\ depth[e.from] < depth[n]
      BY <1>5, <2>2 DEF Settled
    <3>2. at[e.from] = depth[e.from] /\ at[n] = depth[n] /\ n \in Ids(d)
      BY <1>7, <3>1
    <3>3. at[e.from] + 1 <= at[n]
      BY <1>3, <1>10, <3>1, <3>2
    <3>4. QED
      BY <1>3, <1>10, <2>2, <3>2, <3>3
  <2>3. QED
    BY <2>1, <2>2
<1>12. ASSUME NEW i \in 1 .. j + 1, d.edges[i].to \in next
       PROVE  depth[d.edges[i].from] + 1 <= new[d.edges[i].to]
  <2>1. i \in DOMAIN d.edges
    BY <1>1 DEF Drawable
  <2>2. d.edges[i].from \in Ids(d) /\ d.edges[i].to \in Ids(d)
    BY <2>1 DEF Drawable
  <2>3. CASE i # j + 1
    <3>1. i \in 1 .. j
      BY <2>3
    <3>2. depth[d.edges[i].from] + 1 <= at[d.edges[i].to]
      BY <1>8, <1>12, <3>1
    <3>3. at[d.edges[i].to] <= new[d.edges[i].to]
      BY <1>3, <2>2
    <3>4. QED
      BY <1>10, <2>2, <3>2, <3>3
  <2>4. CASE i = j + 1
    <3>1. e.to \in next /\ e.from \in S
      BY <1>5, <1>9, <1>12, <2>4
    <3>2. at[e.from] = depth[e.from] /\ depth[e.from] < Cardinality(S)
      BY <1>7, <3>1 DEF Settled
    <3>3. at[e.from] + 1 <= Len(d.nodes)
      BY <1>1, <1>3, <1>10, <3>2
    <3>4. at[e.from] + 1 <= new[e.to]
      BY <1>1, <1>3, <1>10, <3>3
    <3>5. QED
      BY <1>9, <2>4, <3>2, <3>4
  <2>5. QED
    BY <2>3, <2>4
<1>13. Supported(d, f[j + 1])
  BY <1>4 DEF new
<1>14. \A n \in S : f[j + 1][n] = depth[n]
  BY <1>11 DEF new
<1>15. \A i \in 1 .. j + 1 : d.edges[i].to \in next =>
         depth[d.edges[i].from] + 1 <= f[j + 1][d.edges[i].to]
  BY <1>12 DEF new
<1>16. QED
  BY <1>13, <1>14, <1>15 DEF Pushing

LEMMA SomeIds ==
  ASSUME NEW d, Drawable(d), NEW S \in SUBSET Ids(d)
  PROVE  IsFiniteSet(S) /\ Cardinality(S) \in Nat /\ Cardinality(S) <= Len(d.nodes)
<1>1. IsFiniteSet(Ids(d)) /\ Cardinality(Ids(d)) = Len(d.nodes)
  BY IdsCounted
<1>2. QED
  BY <1>1, FS_Subset, FS_CardinalityType

LEMMA PassSettles ==
  ASSUME NEW d, Drawable(d), NEW depth \in Depths(d), Supported(d, depth),
         NEW S, Settled(d, depth, S),
         NEW next, next = {n \in Ids(d) : Predecessors(d, n) \subseteq S}
  PROVE  /\ Supported(d, Relaxed(d, depth))
         /\ Settled(d, Relaxed(d, depth), next)
         /\ S \subseteq next
<1> DEFINE E == Len(d.edges)
           new == Relaxed(d, depth)
<1>1. PICK f : Pass(d, depth, f) /\ Relaxed(d, depth) = f[E]
  BY RelaxedSteps
<1>2. S \in SUBSET Ids(d) /\ next \in SUBSET Ids(d) /\ S \subseteq next
  BY DEF Settled
<1>3. /\ Cardinality(S) \in Nat /\ Cardinality(S) <= Len(d.nodes)
      /\ Cardinality(next) \in Nat /\ IsFiniteSet(next)
  BY <1>2, SomeIds
<1>4. Cardinality(S) <= Cardinality(next) /\ (next # S => Cardinality(S) < Cardinality(next))
  BY <1>2, <1>3, FS_Subset
<1>5. E \in Nat /\ DOMAIN d.edges = 1 .. E
  BY DEF Drawable
<1> DEFINE T == {j \in 0 .. E : Pushing(d, depth, S, next, f, j)}
<1>6. 0 .. E \subseteq T
  <2>1. 0 \in T
    <3>1. f[0] = depth
      BY <1>1 DEF Pass
    <3>2. Pushing(d, depth, S, next, f, 0)
      BY <3>1 DEF Pushing
    <3>3. QED
      BY <1>5, <3>2
  <2>2. ASSUME NEW j \in 0 .. E, j \in T, j # E PROVE j + 1 \in T
    <3>1. Pushing(d, depth, S, next, f, j + 1)
      BY <1>1, <1>3, <2>2, OnePush
    <3>2. j + 1 \in 0 .. E
      BY <1>5, <2>2
    <3>3. QED
      BY <3>1, <3>2
  <2>3. T \in SUBSET Nat
    BY <1>5
  <2> HIDE DEF T
  <2>4. QED
    BY <1>5, <2>1, <2>2, <2>3, Induction
<1>7. Pushing(d, depth, S, next, f, E)
  BY <1>5, <1>6
<1>8. /\ Supported(d, new)
      /\ \A n \in S : new[n] = depth[n]
      /\ \A i \in 1 .. E : d.edges[i].to \in next =>
           depth[d.edges[i].from] + 1 <= new[d.edges[i].to]
  BY <1>1, <1>7 DEF Pushing
<1>9. \A n \in Ids(d) : new[n] \in Nat /\ depth[n] \in Nat
  BY RelaxedType, DepthValues
<1> HIDE DEF new, E
<1>10. ASSUME NEW n \in next, NEW m \in Predecessors(d, n)
       PROVE  m \in next /\ m \in S /\ new[m] < new[n]
  <2>1. m \in S /\ m \in Ids(d) /\ n \in Ids(d)
    BY <1>2
  <2>2. PICK i \in 1 .. E : d.edges[i].from = m /\ d.edges[i].to = n
    BY PredecessorEdges DEF E
  <2>3. depth[m] + 1 <= new[n] /\ new[m] = depth[m]
    BY <1>8, <2>1, <2>2
  <2>4. QED
    BY <1>2, <1>9, <2>1, <2>3
<1>11. ASSUME NEW n \in next PROVE new[n] < Cardinality(next)
  <2>1. CASE n \in S
    <3>1. new[n] = depth[n] /\ depth[n] < Cardinality(S) /\ n \in Ids(d)
      BY <1>2, <1>8, <2>1 DEF Settled
    <3>2. QED
      BY <1>3, <1>4, <1>9, <3>1
  <2>2. CASE n \notin S
    <3>1. Cardinality(S) < Cardinality(next) /\ n \in Ids(d)
      BY <1>2, <1>4, <2>2
    <3>2. CASE Predecessors(d, n) = {} /\ new[n] = 0
      BY <1>3, <3>1, <3>2
    <3>3. CASE \E m \in Predecessors(d, n) : new[n] <= new[m] + 1
      <4>1. PICK m \in Predecessors(d, n) : new[n] <= new[m] + 1
        BY <3>3
      <4>2. m \in S /\ m \in Ids(d)
        BY <1>2, <1>10
      <4>3. new[m] = depth[m] /\ depth[m] < Cardinality(S)
        BY <1>8, <4>2 DEF Settled
      <4>4. QED
        BY <1>3, <1>9, <3>1, <4>1, <4>2, <4>3
    <3>4. QED
      BY <1>8, <3>1, <3>2, <3>3 DEF Supported
  <2>3. QED
    BY <2>1, <2>2
<1>12. Settled(d, new, next)
  BY <1>2, <1>10, <1>11 DEF Settled
<1>13. QED
  BY <1>2, <1>8, <1>12 DEF new

(* Before the first pass the nodes without incoming edges are settled.     *)
LEMMA FirstSettles ==
  ASSUME NEW d, Drawable(d)
  PROVE  /\ Supported(d, FirstDepth(d))
         /\ Settled(d, FirstDepth(d), {n \in Ids(d) : Predecessors(d, n) = {}})
<1> DEFINE at == FirstDepth(d)
           S == {n \in Ids(d) : Predecessors(d, n) = {}}
<1>1. at \in Depths(d) /\ \A n \in Ids(d) : at[n] = IF Predecessors(d, n) = {} THEN 0 ELSE 1
  BY FirstDepthType DEF FirstDepth
<1> HIDE DEF at
<1>2. Supported(d, at)
  <2> SUFFICES ASSUME NEW n \in Ids(d), Predecessors(d, n) # {}
               PROVE  \E m \in Predecessors(d, n) : at[n] <= at[m] + 1
    BY <1>1 DEF Supported
  <2>1. PICK m \in Predecessors(d, n) : TRUE
    OBVIOUS
  <2>2. m \in Ids(d)
    BY PredecessorEdges
  <2>3. at[n] <= at[m] + 1
    BY <1>1, <2>2
  <2>4. QED
    BY <2>3
<1>3. ASSUME NEW n \in S PROVE at[n] < Cardinality(S)
  <2>1. S \in SUBSET Ids(d) /\ S # {}
    OBVIOUS
  <2>2. at[n] = 0
    BY <1>1
  <2> HIDE DEF S
  <2>3. IsFiniteSet(S) /\ Cardinality(S) \in Nat
    BY <2>1, SomeIds
  <2>4. Cardinality(S) # 0
    BY <2>1, <2>3, FS_EmptySet
  <2>5. QED
    BY <2>2, <2>3, <2>4
<1>4. Settled(d, at, S)
  BY <1>3 DEF Settled
<1>5. QED
  BY <1>2, <1>4 DEF at

(* In an acyclic graph every pass settles one more, until all are.         *)
SettledAfter(d, at, i) ==
  /\ Supported(d, at)
  /\ \E S \in SUBSET Ids(d) : Settled(d, at, S) /\ (S = Ids(d) \/ Cardinality(S) > i)

LEMMA OnePass ==
  ASSUME NEW d, Drawable(d), Acyclic(d), NEW at \in Depths(d), NEW i \in Nat,
         SettledAfter(d, at, i)
  PROVE  SettledAfter(d, Relaxed(d, at), i + 1)
<1>1. PICK S \in SUBSET Ids(d) : Settled(d, at, S) /\ (S = Ids(d) \/ Cardinality(S) > i)
  BY DEF SettledAfter
<1> DEFINE next == {n \in Ids(d) : Predecessors(d, n) \subseteq S}
<1>2. /\ Supported(d, Relaxed(d, at)) /\ Settled(d, Relaxed(d, at), next) /\ S \subseteq next
      /\ next \in SUBSET Ids(d)
  <2>1. Supported(d, at)
    BY DEF SettledAfter
  <2>2. QED
    BY <1>1, <2>1, PassSettles
<1>3. next = Ids(d) \/ Cardinality(next) > i + 1
  <2>1. CASE S = Ids(d)
    BY <1>2, <2>1
  <2>2. CASE S # Ids(d)
    <3>1. PICK n \in Ids(d) \ S : Predecessors(d, n) \intersect (Ids(d) \ S) = {}
      BY <2>2 DEF Acyclic
    <3>2. n \in next /\ n \notin S
      BY <3>1, PredecessorEdges
    <3> HIDE DEF next
    <3>3. /\ IsFiniteSet(next) /\ Cardinality(next) \in Nat /\ Cardinality(S) \in Nat
          /\ Cardinality(S) <= Cardinality(next) /\ Cardinality(S) # Cardinality(next)
      BY <1>2, <3>2, SomeIds, FS_Subset
    <3>4. QED
      BY <1>1, <2>2, <3>3
  <2>3. QED
    BY <2>1, <2>2
<1>4. QED
  BY <1>2, <1>3 DEF SettledAfter

LEMMA DepthSettles ==
  ASSUME NEW d, Drawable(d)
  PROVE  /\ Depth(d) \in Depths(d)
         /\ Acyclic(d) => IsLongestPath(d, Depth(d))
<1> DEFINE N == Len(d.nodes)
<1>1. PICK g \in [0 .. N -> Depths(d)] :
        /\ g[0] = FirstDepth(d)
        /\ \A i \in 1 .. N : g[i] = Relaxed(d, g[i - 1])
        /\ Depth(d) = g[N]
  BY DepthSteps
<1>2. N \in Nat
  BY DEF Drawable
<1>3. Depth(d) \in Depths(d)
  BY <1>1, <1>2
<1>4. ASSUME Acyclic(d) PROVE IsLongestPath(d, Depth(d))
  <2> DEFINE T == {i \in 0 .. N : SettledAfter(d, g[i], i)}
  <2>1. 0 \in T
    <3> DEFINE S == {n \in Ids(d) : Predecessors(d, n) = {}}
    <3>1. Supported(d, g[0]) /\ Settled(d, g[0], S) /\ S \in SUBSET Ids(d)
      BY <1>1, FirstSettles
    <3>2. S = Ids(d) \/ Cardinality(S) > 0
      <4>1. CASE Ids(d) = {}
        BY <4>1
      <4>2. CASE Ids(d) # {}
        <5>1. PICK n \in Ids(d) : Predecessors(d, n) \intersect Ids(d) = {}
          BY <1>4, <4>2 DEF Acyclic
        <5>2. n \in S
          BY <5>1, PredecessorEdges
        <5> HIDE DEF S
        <5>3. IsFiniteSet(S) /\ Cardinality(S) \in Nat /\ Cardinality(S) # 0
          BY <3>1, <5>2, SomeIds, FS_EmptySet
        <5>4. QED
          BY <5>3
      <4>3. QED
        BY <4>1, <4>2
    <3>3. SettledAfter(d, g[0], 0)
      BY <3>1, <3>2 DEF SettledAfter
    <3>4. QED
      BY <1>2, <3>3
  <2>2. ASSUME NEW i \in 0 .. N, i \in T, i # N PROVE i + 1 \in T
    <3>1. i + 1 \in 1 .. N /\ i + 1 \in 0 .. N /\ (i + 1) - 1 = i /\ i \in Nat
      BY <1>2, <2>2
    <3>2. g[i + 1] = Relaxed(d, g[i]) /\ g[i] \in Depths(d)
      BY <1>1, <3>1
    <3>3. SettledAfter(d, g[i + 1], i + 1)
      BY <1>4, <2>2, <3>1, <3>2, OnePass
    <3>4. QED
      BY <3>1, <3>3
  <2>3. T \in SUBSET Nat
    BY <1>2
  <2>4. 0 .. N \subseteq T
    <3> HIDE DEF T
    <3>1. QED
      BY <1>2, <2>1, <2>2, <2>3, Induction
  <2>5. SettledAfter(d, Depth(d), N)
    BY <1>1, <1>2, <2>4
  <2>6. Supported(d, Depth(d)) /\ Settled(d, Depth(d), Ids(d))
    <3>1. PICK S \in SUBSET Ids(d) : Settled(d, Depth(d), S) /\ (S = Ids(d) \/ Cardinality(S) > N)
      BY <2>5 DEF SettledAfter
    <3>2. Cardinality(S) \in Nat /\ Cardinality(S) <= N
      BY SomeIds
    <3>3. S = Ids(d)
      BY <1>2, <3>1, <3>2
    <3>4. QED
      BY <2>5, <3>1, <3>3 DEF SettledAfter
  <2> DEFINE at == Depth(d)
  <2>7. \A n \in Ids(d) : at[n] \in Nat
    BY <1>3, DepthValues
  <2>8. Supported(d, at) /\ Settled(d, at, Ids(d))
    BY <2>6
  <2> HIDE DEF at
  <2>9. ASSUME NEW n \in Ids(d)
        PROVE  \/ Predecessors(d, n) = {} /\ at[n] = 0
               \/ /\ \A m \in Predecessors(d, n) : at[m] < at[n]
                  /\ \E m \in Predecessors(d, n) : at[n] = at[m] + 1
    <3>1. \A m \in Predecessors(d, n) : m \in Ids(d) /\ at[m] < at[n]
      BY <2>8 DEF Settled
    <3>2. CASE Predecessors(d, n) = {} /\ at[n] = 0
      BY <3>2
    <3>3. CASE \E m \in Predecessors(d, n) : at[n] <= at[m] + 1
      <4>1. PICK m \in Predecessors(d, n) : at[n] <= at[m] + 1
        BY <3>3
      <4>2. at[n] = at[m] + 1
        BY <2>7, <3>1, <4>1
      <4>3. QED
        BY <3>1, <4>2
    <3>4. QED
      BY <2>8, <3>2, <3>3 DEF Supported
  <2>10. IsLongestPath(d, at)
    BY <2>9 DEF IsLongestPath
  <2>11. QED
    BY <2>10 DEF at
<1>5. QED
  BY <1>3, <1>4

-----------------------------------------------------------------------------
(* Positions.  In a row the nodes to the right of a node are fewer the     *)
(* further to the right it stands.                                         *)

RowOf(d, depth, n) == {i \in DOMAIN d.nodes : depth[d.nodes[i].id] = depth[n]}

IndexIn(d, R, n) == Cardinality({i \in R : \E j \in R : i < j /\ d.nodes[j].id = n})

LEMMA Positions ==
  ASSUME NEW d
  PROVE  LayoutPositions(d) =
           [n \in Ids(d) |->
              [x |-> 2 * IndexIn(d, RowOf(d, Depth(d), n), n)
                       - (Cardinality(RowOf(d, Depth(d), n)) - 1),
               y |-> Depth(d)[n]]]
  BY DEF LayoutPositions, RowOf, IndexIn

LEMMA IndicesDiffer ==
  ASSUME NEW d, Drawable(d), NEW R \in SUBSET DOMAIN d.nodes, NEW i \in R, NEW j \in R, i < j
  PROVE  /\ IndexIn(d, R, d.nodes[i].id) \in Nat
         /\ IndexIn(d, R, d.nodes[j].id) \in Nat
         /\ IndexIn(d, R, d.nodes[i].id) # IndexIn(d, R, d.nodes[j].id)
<1> DEFINE Before(n) == {k \in R : \E h \in R : k < h /\ d.nodes[h].id = n}
           A == Before(d.nodes[i].id)
           B == Before(d.nodes[j].id)
<1>1. /\ DOMAIN d.nodes = 1 .. Len(d.nodes) /\ Len(d.nodes) \in Nat
      /\ \A k, h \in DOMAIN d.nodes : d.nodes[k].id = d.nodes[h].id => k = h
  BY DEF Drawable
<1>2. \A k \in R : k \in Nat
  BY <1>1
<1>3. A = {k \in R : k < i} /\ B = {k \in R : k < j}
  BY <1>1
<1>4. A \subseteq B /\ i \in B /\ i \notin A /\ B \subseteq R
  BY <1>2, <1>3
<1>5. IsFiniteSet(R)
  <2> HIDE DEF A, B, Before
  <2>0. Len(d.nodes) \in Nat
    BY <1>1
  <2>1. IsFiniteSet(1 .. Len(d.nodes))
    BY <2>0, FS_Interval
  <2>2. QED
    BY <1>1, <2>1, FS_Subset
<1>6. IndexIn(d, R, d.nodes[i].id) = Cardinality(A) /\ IndexIn(d, R, d.nodes[j].id) = Cardinality(B)
  BY DEF IndexIn
<1> HIDE DEF A, B
<1>7. IsFiniteSet(A) /\ IsFiniteSet(B)
  BY <1>4, <1>5, FS_Subset
<1>8. Cardinality(A) \in Nat /\ Cardinality(B) \in Nat
  BY <1>7, FS_CardinalityType
<1>9. Cardinality(A) # Cardinality(B)
  BY <1>4, <1>7, FS_Subset
<1>10. QED
  BY <1>6, <1>8, <1>9

LEMMA PositionsDiffer ==
  ASSUME NEW d, Drawable(d), NEW m \in Ids(d), NEW n \in Ids(d),
         LayoutPositions(d)[m] = LayoutPositions(d)[n]
  PROVE  m = n
<1> DEFINE depth == Depth(d)
           R == RowOf(d, depth, n)
<1>1. depth[m] = depth[n] /\ RowOf(d, depth, m) = R
  <2>1. LayoutPositions(d)[m].y = Depth(d)[m] /\ LayoutPositions(d)[n].y = Depth(d)[n]
    BY Positions
  <2>2. QED
    BY <2>1 DEF RowOf
<1>2. PICK i \in DOMAIN d.nodes, j \in DOMAIN d.nodes : d.nodes[i].id = m /\ d.nodes[j].id = n
  BY DEF Ids
<1>3. R \in SUBSET DOMAIN d.nodes /\ i \in R /\ j \in R
  BY <1>1, <1>2 DEF RowOf
<1>4. 2 * IndexIn(d, R, m) - (Cardinality(R) - 1) = 2 * IndexIn(d, R, n) - (Cardinality(R) - 1)
  BY <1>1, Positions
<1> HIDE DEF R, depth
<1>5. i \in Nat /\ j \in Nat
  BY DEF Drawable
<1>6. Cardinality(R) \in Nat
  <2>1. DOMAIN d.nodes = 1 .. Len(d.nodes) /\ Len(d.nodes) \in Nat
    BY DEF Drawable
  <2>2. IsFiniteSet(1 .. Len(d.nodes))
    BY <2>1, FS_Interval
  <2>3. QED
    BY <1>3, <2>1, <2>2, FS_Subset, FS_CardinalityType
<1>7. ~(i < j)
  <2> SUFFICES ASSUME i < j PROVE FALSE
    OBVIOUS
  <2>1. IndexIn(d, R, m) \in Nat /\ IndexIn(d, R, n) \in Nat /\ IndexIn(d, R, m) # IndexIn(d, R, n)
    BY <1>2, <1>3, IndicesDiffer
  <2>2. QED
    BY <1>4, <1>6, <2>1
<1>8. ~(j < i)
  <2> SUFFICES ASSUME j < i PROVE FALSE
    OBVIOUS
  <2>1. IndexIn(d, R, m) \in Nat /\ IndexIn(d, R, n) \in Nat /\ IndexIn(d, R, n) # IndexIn(d, R, m)
    BY <1>2, <1>3, IndicesDiffer
  <2>2. QED
    BY <1>4, <1>6, <2>1
<1>9. QED
  BY <1>2, <1>5, <1>7, <1>8

-----------------------------------------------------------------------------
LEMMA CanvasDrawable ==
  ASSUME CanvasInv
  PROVE  Drawable(Definition) /\ Len(Definition.nodes) = Len(nodes)
<1> DEFINE d == Definition
<1>1. /\ d.nodes = nodes
      /\ d.edges = [i \in DOMAIN edges |-> [from |-> edges[i].source, to |-> edges[i].target,
                                            branch |-> edges[i].label]]
      /\ Ids(d) = NodeIds
  BY DEF Definition, NodeIds
<1>2. /\ Len(nodes) \in Nat /\ DOMAIN nodes = 1 .. Len(nodes)
      /\ Len(edges) \in Nat /\ DOMAIN edges = 1 .. Len(edges)
  BY DEF CanvasInv
<1> HIDE DEF d
<1>3. DOMAIN d.edges = 1 .. Len(edges) /\ Len(d.edges) = Len(edges)
  BY <1>1, <1>2
<1>4. \A i \in DOMAIN d.edges : d.edges[i].from \in Ids(d) /\ d.edges[i].to \in Ids(d)
  BY <1>1 DEF CanvasInv, EndsDrawn
<1>5. Drawable(d)
  BY <1>1, <1>2, <1>3, <1>4 DEF Drawable, CanvasInv, NodesDistinct
<1>6. QED
  BY <1>1, <1>5 DEF d

LEMMA LayoutOfCanvas == CanvasInv => LayoutFollowsPaths
<1> SUFFICES ASSUME CanvasInv PROVE LayoutFollowsPaths
  OBVIOUS
<1> DEFINE d == Definition
           p == LayoutPositions(d)
<1>1. Drawable(d) /\ Len(d.nodes) = Len(nodes) /\ Ids(d) = NodeIds
  BY CanvasDrawable DEF NodeIds
<1> HIDE DEF d
<1>2. \A m, n \in NodeIds : p[m] = p[n] => m = n
  BY <1>1, PositionsDiffer
<1>3. \A n \in NodeIds : p[n].y = Depth(d)[n]
  BY <1>1, Positions
<1>4. Depth(d) \in [NodeIds -> 0 .. Len(nodes)]
  BY <1>1, DepthSettles DEF Depths
<1>5. \A n \in NodeIds : p[n].y \in 0 .. Len(nodes)
  BY <1>3, <1>4
<1>6. [n \in NodeIds |-> p[n].y] = Depth(d)
  BY <1>3, <1>4
<1>7. Acyclic(d) => IsLongestPath(d, [n \in NodeIds |-> p[n].y])
  BY <1>1, <1>6, DepthSettles
<1>8. QED
  BY <1>2, <1>5, <1>7 DEF LayoutFollowsPaths, d

(* Whatever graph is drawn, and however many nodes it has, no node hides   *)
(* another, none is pushed out of the picture, and without a cycle each    *)
(* stands on the row of the longest path to it from a node that nothing    *)
(* leads to: as many passes as nodes are enough, in whatever order the     *)
(* edges are pushed (layoutPositions of workflow-graph.tsx).               *)
THEOREM CanvasLaidOut == CanvasSpec => []LayoutFollowsPaths
  BY CanvasAlways, LayoutOfCanvas, PTL
=============================================================================
