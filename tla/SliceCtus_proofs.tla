--------------------------- MODULE SliceCtus_proofs ---------------------------
(* Proofs about SliceCtus, for every picture, however it is divided into tiles *)
(* and slices of whole rows of tiles: the QP delta reads back; the invariant   *)
(* of the three passes, which says of every place of every slice what the      *)
(* predictors have been through there and where in the sub-streams it stands;  *)
(* and the properties that follow from it.                                     *)
EXTENDS SliceCtus, SequenceTheorems, FiniteSetTheorems, WellFoundedInduction, TLAPS

\* The remainder of a number of at most three ranges, by the range it falls into.
LEMMA RemainderInRanges ==
  ASSUME NEW m \in Nat \ {0}, NEW x \in Int, 0 <= x, x < 3 * m
  PROVE  \/ x < m /\ x % m = x
         \/ m <= x /\ x < 2 * m /\ x % m = x - m
         \/ 2 * m <= x /\ x % m = x - 2 * m
  <1>1. CASE x < m
    BY <1>1
  <1>2. CASE m <= x /\ x < 2 * m
    BY <1>2
  <1>3. CASE 2 * m <= x
    BY <1>3
  <1> QED BY <1>1, <1>2, <1>3

\* DeltaReadsBack: whatever QP is predicted and whatever QP the search chose, the reader
\* gets the chosen one from the delta, which takes the shorter way round the range
\* (CABACWriter::cu_qp_delta, CABACReader::cu_qp_delta).
THEOREM DeltaReadsBack ==
  \A pred, qp \in QpRange : ReceivedQp(pred, QpDelta(pred, qp)) = qp
<1> SUFFICES ASSUME NEW pred \in QpRange, NEW qp \in QpRange
             PROVE  ReceivedQp(pred, QpDelta(pred, qp)) = qp
  OBVIOUS
<1> DEFINE M == MaxQp + 1 + QpBdOffset
           half == (MaxQp + 1) \div 2 + QpBdOffset \div 2
           delta == QpDelta(pred, qp)
<1>1. /\ MaxQp \in Nat /\ QpBdOffset \in Nat /\ M \in Nat \ {0} /\ half \in Nat /\ half <= M
      /\ pred \in Int /\ qp \in Int /\ -QpBdOffset <= pred /\ pred <= MaxQp
      /\ -QpBdOffset <= qp /\ qp <= MaxQp
  BY QpAssumption DEF QpRange
<1>2. delta = ((qp - pred + M + half) % M) - half
  BY <1>1 DEF QpDelta
<1>3. /\ delta \in Int
      /\ delta \in {qp - pred, qp - pred + M, qp - pred - M}
      /\ -half <= delta /\ delta < M
  <2> DEFINE x == qp - pred + M + half
  <2>1. x \in Int /\ 0 <= x /\ x < 3 * M
    BY <1>1
  <2> HIDE DEF x, M, half
  <2>2. \/ x < M /\ x % M = x
        \/ M <= x /\ x < 2 * M /\ x % M = x - M
        \/ 2 * M <= x /\ x % M = x - 2 * M
    BY <1>1, <2>1, RemainderInRanges
  <2> QED BY <1>1, <1>2, <2>1, <2>2 DEF x
<1>4. CASE delta = 0
  <2>1. qp = pred
    BY <1>1, <1>3, <1>4
  <2> QED BY <1>4, <2>1 DEF ReceivedQp
<1>5. CASE delta # 0
  <2> DEFINE y == pred + delta + M + QpBdOffset
  <2>1. ReceivedQp(pred, delta) = (y % M) - QpBdOffset
    <3> HIDE DEF delta
    <3>1. y = pred + delta + MaxQp + 1 + 2 * QpBdOffset
      BY <1>1, <1>3
    <3> HIDE DEF y
    <3>2. ReceivedQp(pred, delta)
            = ((pred + delta + MaxQp + 1 + 2 * QpBdOffset) % M) - QpBdOffset
      BY <1>5 DEF ReceivedQp
    <3> QED BY <3>1, <3>2
  <2>2. y \in Int /\ 0 <= y /\ y < 3 * M
    BY <1>1, <1>3
  <2>3. y \in {qp + QpBdOffset, qp + QpBdOffset + M, qp + QpBdOffset + 2 * M}
    BY <1>1, <1>3
  <2>4. 0 <= qp + QpBdOffset /\ qp + QpBdOffset < M
    BY <1>1
  <2> HIDE DEF y, M, delta
  <2>5. \/ y < M /\ y % M = y
        \/ M <= y /\ y < 2 * M /\ y % M = y - M
        \/ 2 * M <= y /\ y % M = y - 2 * M
    BY <1>1, <2>2, RemainderInRanges
  <2> QED BY <1>1, <2>1, <2>2, <2>3, <2>4, <2>5 DEF delta
<1> QED BY <1>4, <1>5

(* ----------------------------- the walk over a slice ----------------------------- *)
(* p is the layout, w tells of wavefronts; place i of slice s is the i-th of its CTUs. *)

At(p, s, i) == p.slices[s][i]
Places(p, s) == 1..Len(p.slices[s])
Slices(p) == 1..Len(p.slices)

IsLeft(p, c) == CtuIsTileColBd(p, c)
Restarts(p, w, c) == IsLeft(p, c) /\ (CtuIsTileRowBd(p, c) \/ w)
HasAbove(p, c) == /\ c >= p.w /\ SliceOf(p, c - p.w) = SliceOf(p, c)
                  /\ TileIdx(p, c - p.w) = TileIdx(p, c)
Syncs(p, w, c) == IsLeft(p, c) /\ ~CtuIsTileRowBd(p, c) /\ w /\ HasAbove(p, c)
Ends(p, w, s, i) == \/ i = Len(p.slices[s])
                    \/ LastInRow(p, At(p, s, i)) /\ (LastInCol(p, At(p, s, i)) \/ w)
InFirst(p, s, i) == TileIdx(p, At(p, s, i)) = TileIdx(p, At(p, s, 1))

LEMMA LayoutTyped ==
  ASSUME NEW p \in Layouts
  PROVE  /\ p.w \in Nat /\ p.h \in Nat /\ p.slices \in Seq(Seq(Ctus(p))) /\ Len(p.slices) \in Nat
         /\ Len(p.slices) >= 1
         /\ \A s \in Slices(p) : /\ p.slices[s] \in Seq(Ctus(p)) /\ Len(p.slices[s]) \in Nat
                                 /\ Len(p.slices[s]) >= 1
                                 /\ \A i \in Places(p, s) : At(p, s, i) \in Ctus(p)
<1>1. EveryCtuOnce(p) /\ WholeRows(p)
  BY LayoutAssumption
<1>2. p.w \in Nat /\ p.h \in Nat /\ p.slices \in Seq(Seq(Ctus(p)))
  BY <1>1 DEF EveryCtuOnce, Ctus
<1>3. p.slices # <<>> /\ \A s \in 1..Len(p.slices) : p.slices[s] # <<>>
  BY <1>1 DEF WholeRows
<1> DEFINE q == p.slices  S == Ctus(p)
<1>4. q \in Seq(Seq(S)) /\ q # <<>> /\ \A s \in 1..Len(q) : q[s] # <<>>
  BY <1>2, <1>3
<1> HIDE DEF q, S
<1>5. Len(q) \in Nat /\ Len(q) >= 1
  BY <1>4
<1>6. ASSUME NEW s \in 1..Len(q)
      PROVE  /\ q[s] \in Seq(S) /\ Len(q[s]) \in Nat /\ Len(q[s]) >= 1
             /\ \A i \in 1..Len(q[s]) : q[s][i] \in S
  <2>1. q[s] \in Seq(S) /\ q[s] # <<>>
    BY <1>4
  <2> QED BY <2>1
<1> QED BY <1>2, <1>5, <1>6 DEF q, S, Slices, Places, At

LEMMA PlaceUnique ==
  ASSUME NEW p \in Layouts, NEW s \in Slices(p), NEW t \in Slices(p),
         NEW i \in Places(p, s), NEW j \in Places(p, t), At(p, s, i) = At(p, t, j)
  PROVE  s = t /\ i = j
<1>1. EveryCtuOnce(p)
  BY LayoutAssumption
<1>2. \A a, b \in 1..Len(p.slices) : \A k \in 1..Len(p.slices[a]), l \in 1..Len(p.slices[b]) :
        p.slices[a][k] = p.slices[b][l] => a = b /\ k = l
  BY ONLY <1>1 DEF EveryCtuOnce
<1> QED BY <1>2 DEF At, Places, Slices

LEMMA PlaceExists ==
  ASSUME NEW p \in Layouts, NEW c \in Ctus(p)
  PROVE  \E s \in Slices(p) : \E i \in Places(p, s) : c = At(p, s, i)
<1>1. EveryCtuOnce(p)
  BY LayoutAssumption
<1>2. \A d \in 0..(p.w * p.h - 1) :
        \E s \in 1..Len(p.slices) : \E i \in 1..Len(p.slices[s]) : p.slices[s][i] = d
  BY ONLY <1>1 DEF EveryCtuOnce
<1>3. \E s \in 1..Len(p.slices) : \E i \in 1..Len(p.slices[s]) : p.slices[s][i] = c
  BY <1>2 DEF Ctus
<1> QED BY <1>3 DEF At, Places, Slices

LEMMA SliceOfPlace ==
  ASSUME NEW p \in Layouts, NEW s \in Slices(p), NEW i \in Places(p, s)
  PROVE  SliceOf(p, At(p, s, i)) = s
<1> DEFINE c == At(p, s, i)
<1>1. s \in 1..Len(p.slices) /\ \E j \in 1..Len(p.slices[s]) : p.slices[s][j] = c
  BY DEF At, Places, Slices
<1>2. \A t \in 1..Len(p.slices) : (\E j \in 1..Len(p.slices[t]) : p.slices[t][j] = c) => t = s
  BY PlaceUnique DEF At, Places, Slices
<1> HIDE DEF c
<1>3. SliceOf(p, c) = s
  BY <1>1, <1>2 DEF SliceOf
<1> QED BY <1>3 DEF c

\* The CTU above, if it is in the slice, comes before.
LEMMA AboveBefore ==
  ASSUME NEW p \in Layouts, NEW s \in Slices(p), NEW i \in Places(p, s), HasAbove(p, At(p, s, i))
  PROVE  \E j \in 1..(i - 1) : /\ j \in Places(p, s) /\ At(p, s, j) = At(p, s, i) - p.w
                               /\ (InFirst(p, s, i) => InFirst(p, s, j))
<1> DEFINE c == At(p, s, i)  d == c - p.w
<1>1. c \in Ctus(p) /\ p.w \in Nat /\ Len(p.slices[s]) \in Nat
  BY LayoutTyped
<1>2. c >= p.w /\ SliceOf(p, d) = s /\ TileIdx(p, d) = TileIdx(p, c)
  BY SliceOfPlace DEF HasAbove
<1>3. d \in Ctus(p)
  <2> HIDE DEF c
  <2>1. c \in Int /\ 0 <= c /\ c <= p.w * p.h - 1 /\ p.w * p.h \in Int
    BY <1>1, LayoutTyped DEF Ctus
  <2> DEFINE n == p.w * p.h
  <2> HIDE DEF n
  <2>2. c - p.w \in 0..(n - 1)
    BY <1>1, <1>2, <2>1 DEF n
  <2> QED BY <2>2 DEF Ctus, n
<1>4. PICK t \in Slices(p) : \E j \in Places(p, t) : d = At(p, t, j)
  BY <1>3, PlaceExists
<1>5. PICK j \in Places(p, t) : d = At(p, t, j)
  BY <1>4
<1>6. t = s
  BY <1>2, <1>5, SliceOfPlace
<1>7. j < i
  <2>1. \A k, l \in 1..Len(p.slices[s]) : p.slices[s][l] = p.slices[s][k] - p.w => l < k
    BY LayoutAssumption DEF WholeRows, Slices
  <2> QED BY <1>5, <1>6, <2>1 DEF At, Places
<1>8. j \in 1..(i - 1)
  BY <1>1, <1>5, <1>6, <1>7 DEF Places
<1> QED BY <1>2, <1>5, <1>6, <1>8 DEF InFirst

LEMMA FirstPlace ==
  ASSUME NEW p \in Layouts, NEW s \in Slices(p)
  PROVE  1 \in Places(p, s) /\ IsLeft(p, At(p, s, 1)) /\ ~HasAbove(p, At(p, s, 1))
<1>1. 1 \in Places(p, s)
  BY LayoutTyped DEF Places
<1>2. IsLeft(p, At(p, s, 1))
  BY LayoutAssumption DEF WholeRows, Slices, At, IsLeft
<1>3. ~HasAbove(p, At(p, s, 1))
  <2> SUFFICES ASSUME HasAbove(p, At(p, s, 1))
               PROVE  FALSE
    OBVIOUS
  <2>1. PICK j \in 1..(1 - 1) : j \in Places(p, s)
    BY <1>1, AboveBefore
  <2> QED OBVIOUS
<1> QED BY <1>1, <1>2, <1>3

\* How a slice goes on behind place i.
LEMMA GoesOnAt ==
  ASSUME NEW p \in Layouts, NEW w \in BOOLEAN, NEW s \in Slices(p), NEW i \in Places(p, s),
         i < Len(p.slices[s]), NEW c, c = At(p, s, i), NEW d, d = At(p, s, i + 1)
  PROVE  /\ i + 1 \in Places(p, s)
         /\ Ends(p, w, s, i) <=> TileIdx(p, d) # TileIdx(p, c) \/ (w /\ IsLeft(p, d))
         /\ Ends(p, w, s, i) <=> IsLeft(p, d) /\ (CtuIsTileRowBd(p, d) \/ w)
         /\ Ends(p, w, s, i) <=> Changes(p, w, c, d)
         /\ InFirst(p, s, i + 1) =>
              /\ InFirst(p, s, i)
              /\ IsLeft(p, d) => HasAbove(p, d) /\ ~CtuIsTileRowBd(p, d)
<1>1. i \in Nat /\ Len(p.slices[s]) \in Nat /\ i + 1 \in Places(p, s) /\ i \in 1..(Len(p.slices[s]) - 1)
      /\ i # Len(p.slices[s]) /\ i >= 1
  BY LayoutTyped DEF Places
<1>2. GoesOn(p, p.slices[s], i)
  BY <1>1, LayoutAssumption DEF WholeRows, Slices
<1> DEFINE e == LastInRow(p, c) /\ (LastInCol(p, c) \/ w)
<1>3. Ends(p, w, s, i) <=> e
  BY <1>1 DEF Ends
<1>4. TileIdx(p, c) = CtuToTile(p.rowBd, CtuY(p, c)) * NumCols(p) + CtuToTile(p.colBd, CtuX(p, c))
      /\ TileIdx(p, d) = CtuToTile(p.rowBd, CtuY(p, d)) * NumCols(p) + CtuToTile(p.colBd, CtuX(p, d))
  BY DEF TileIdx
<1>5. ~Changes(p, FALSE, c, d) => TileIdx(p, d) = TileIdx(p, c)
  BY <1>4 DEF Changes
<1>6. TileIdx(p, d) # TileIdx(p, c) => Changes(p, w, c, d)
  BY <1>4 DEF Changes
<1>7. InFirst(p, s, i + 1) <=> TileIdx(p, d) = TileIdx(p, At(p, s, 1))
  BY DEF InFirst
<1>8. InFirst(p, s, i) <=> TileIdx(p, c) = TileIdx(p, At(p, s, 1))
  BY DEF InFirst
<1>9. CASE ~LastInRow(p, c) /\ ~Changes(p, TRUE, c, d) /\ ~CtuIsTileColBd(p, d)
  <2>1. ~Changes(p, FALSE, c, d) /\ ~Changes(p, w, c, d)
    BY <1>9 DEF Changes
  <2> QED BY <1>1, <1>3, <1>5, <1>7, <1>8, <1>9, <2>1 DEF IsLeft
<1>10. CASE /\ LastInRow(p, c) /\ ~LastInCol(p, c)
            /\ ~Changes(p, FALSE, c, d) /\ CtuY(p, c) # CtuY(p, d)
            /\ CtuIsTileColBd(p, d) /\ ~CtuIsTileRowBd(p, d)
            /\ \E j \in 1..i : p.slices[s][j] = d - p.w /\ TileIdx(p, p.slices[s][j]) = TileIdx(p, d)
  <2>1. Changes(p, w, c, d) <=> w
    BY <1>10 DEF Changes
  <2>2. HasAbove(p, d)
    <3>1. PICK j \in 1..i : p.slices[s][j] = d - p.w /\ TileIdx(p, p.slices[s][j]) = TileIdx(p, d)
      BY <1>10
    <3>2. j \in Places(p, s) /\ At(p, s, j) = d - p.w /\ TileIdx(p, d - p.w) = TileIdx(p, d)
      BY <1>1, <3>1 DEF At, Places
    <3>3. SliceOf(p, d - p.w) = s /\ SliceOf(p, d) = s
      BY <1>1, <3>2, SliceOfPlace
    <3>4. d >= p.w
      <4>1. d - p.w \in Ctus(p) /\ d \in Ctus(p) /\ p.w \in Nat /\ p.h \in Nat
        BY <1>1, <3>2, LayoutTyped
      <4>2. d - p.w \in Nat /\ d \in Int
        BY <4>1 DEF Ctus
      <4> QED BY <4>1, <4>2
    <3> QED BY <3>2, <3>3, <3>4 DEF HasAbove
  <2> QED BY <1>1, <1>3, <1>5, <1>7, <1>8, <1>10, <2>1, <2>2 DEF IsLeft
<1>11. CASE /\ LastInRow(p, c) /\ LastInCol(p, c)
            /\ CtuIsTileColBd(p, d) /\ CtuIsTileRowBd(p, d)
            /\ \A j \in 1..i : TileIdx(p, p.slices[s][j]) # TileIdx(p, d)
  <2>1. TileIdx(p, c) # TileIdx(p, d) /\ TileIdx(p, At(p, s, 1)) # TileIdx(p, d)
    <3>1. i \in 1..i /\ 1 \in 1..i
      BY <1>1
    <3> QED BY <1>11, <3>1 DEF At
  <2> QED BY <1>1, <1>3, <1>6, <1>7, <1>11, <2>1 DEF IsLeft
<1>12. c = p.slices[s][i] /\ d = p.slices[s][i + 1]
  BY DEF At
<1> QED BY <1>2, <1>9, <1>10, <1>11, <1>12 DEF GoesOn

\* The sub-stream of place i, and how many places of it come before.
Sub(p, w, s, i) == 1 + Cardinality({k \in 1..(i - 1) : Ends(p, w, s, k)})
Within(p, w, s, i) == Cardinality({k \in 1..(i - 1) : \A l \in k..(i - 1) : ~Ends(p, w, s, l)})

LEMMA SubStep ==
  ASSUME NEW p, NEW w, NEW s, NEW i \in Nat, i >= 1
  PROVE  /\ Sub(p, w, s, i) \in Nat /\ Sub(p, w, s, i) >= 1 /\ Sub(p, w, s, i) <= i
         /\ Within(p, w, s, i) \in Nat
         /\ Ends(p, w, s, i) => /\ Sub(p, w, s, i + 1) = Sub(p, w, s, i) + 1
                                /\ Within(p, w, s, i + 1) = 0
         /\ ~Ends(p, w, s, i) => /\ Sub(p, w, s, i + 1) = Sub(p, w, s, i)
                                 /\ Within(p, w, s, i + 1) = Within(p, w, s, i) + 1
<1> DEFINE E(k) == Ends(p, w, s, k)
           A == {k \in 1..(i - 1) : E(k)}
           B == {k \in 1..((i + 1) - 1) : E(k)}
           F == {k \in 1..(i - 1) : \A l \in k..(i - 1) : ~E(l)}
           G == {k \in 1..((i + 1) - 1) : \A l \in k..((i + 1) - 1) : ~E(l)}
<1> HIDE DEF E
<1>1. IsFiniteSet(1..(i - 1)) /\ Cardinality(1..(i - 1)) = i - 1
  BY FS_Interval
<1>2. IsFiniteSet(A) /\ IsFiniteSet(F) /\ Cardinality(A) <= i - 1
  <2>1. A \subseteq 1..(i - 1) /\ F \subseteq 1..(i - 1)
    OBVIOUS
  <2> HIDE DEF A, F
  <2> QED BY <1>1, <2>1, FS_Subset, ZenonT(30)
<1>3. Cardinality(A) \in Nat /\ Cardinality(F) \in Nat
  BY <1>2, FS_CardinalityType
<1>4. (i + 1) - 1 = i /\ i \notin 1..(i - 1) /\ \A k \in 1..i : k \in 1..(i - 1) \/ k = i
  OBVIOUS
<1>5. ASSUME E(i)
      PROVE  Cardinality(B) = Cardinality(A) + 1 /\ Cardinality(G) = 0
  <2>1. B = A \cup {i} /\ i \notin A
    BY <1>4, <1>5
  <2>2. G = {}
    <3>1. \A k \in 1..i : i \in k..i
      OBVIOUS
    <3> QED BY <1>4, <1>5, <3>1
  <2> HIDE DEF A, B, G
  <2>3. Cardinality(A \cup {i}) = Cardinality(A) + 1
    BY <1>2, <2>1, FS_AddElement
  <2> QED BY <2>1, <2>2, <2>3, FS_EmptySet
<1>6. ASSUME ~E(i)
      PROVE  Cardinality(B) = Cardinality(A) /\ Cardinality(G) = Cardinality(F) + 1
  <2>1. B = A
    BY <1>4, <1>6
  <2>2. G = F \cup {i} /\ i \notin F
    <3>1. \A k \in 1..(i - 1) : \A l \in k..i : l \in k..(i - 1) \/ l = i
      OBVIOUS
    <3>2. \A k \in 1..(i - 1) : k..(i - 1) \subseteq k..i /\ k \in 1..i
      OBVIOUS
    <3>3. \A k \in 1..(i - 1) : k \in G <=> k \in F
      BY <1>4, <1>6, <3>1, <3>2
    <3>4. i \in G
      <4>1. \A l \in i..i : l = i
        OBVIOUS
      <4>2. i \in 1..i
        OBVIOUS
      <4> QED BY <1>4, <1>6, <4>1, <4>2
    <3>5. F \subseteq 1..(i - 1) /\ G \subseteq 1..i
      BY <1>4
    <3> HIDE DEF F, G
    <3> QED BY <1>4, <3>3, <3>4, <3>5
  <2> HIDE DEF A, B, F, G
  <2>3. Cardinality(F \cup {i}) = Cardinality(F) + 1
    BY <1>2, <2>2, FS_AddElement
  <2> QED BY <2>1, <2>2, <2>3
<1>7. /\ Sub(p, w, s, i) = 1 + Cardinality(A) /\ Sub(p, w, s, i + 1) = 1 + Cardinality(B)
      /\ Within(p, w, s, i) = Cardinality(F) /\ Within(p, w, s, i + 1) = Cardinality(G)
  BY DEF Sub, Within, E
<1> HIDE DEF A, B, F, G
<1> DEFINE a == Cardinality(A)
<1>8. a \in Nat /\ a <= i - 1 => (1 + a) \in Nat /\ 1 + a >= 1 /\ 1 + a <= i /\ (1 + a) + 1 = 1 + (a + 1)
  <2> HIDE DEF a
  <2> QED OBVIOUS
<1> QED BY <1>2, <1>3, <1>5, <1>6, <1>7, <1>8 DEF E

LEMMA SubFirst ==
  ASSUME NEW p, NEW w, NEW s
  PROVE  Sub(p, w, s, 1) = 1 /\ Within(p, w, s, 1) = 0
<1>1. {k \in 1..(1 - 1) : Ends(p, w, s, k)} = {}
  OBVIOUS
<1>2. {k \in 1..(1 - 1) : \A l \in k..(1 - 1) : ~Ends(p, w, s, l)} = {}
  OBVIOUS
<1> QED BY <1>1, <1>2, FS_EmptySet DEF Sub, Within

\* Place m is the last before place i that begins a row of a tile.
Mark(p, s, m, i) ==
  /\ m \in 1..(i - 1) /\ IsLeft(p, At(p, s, m))
  /\ \A k \in (m + 1)..(i - 1) : ~IsLeft(p, At(p, s, k))

LEMMA MarkUnique ==
  ASSUME NEW p, NEW s, NEW i \in Nat, NEW m, NEW n, Mark(p, s, m, i), Mark(p, s, n, i)
  PROVE  m = n
<1>1. m \in 1..(i - 1) /\ n \in 1..(i - 1)
  BY DEF Mark
<1>2. m < n => n \in (m + 1)..(i - 1)
  BY <1>1
<1>3. n < m => m \in (n + 1)..(i - 1)
  BY <1>1
<1>4. ~(m < n) /\ ~(n < m)
  BY <1>2, <1>3 DEF Mark
<1> QED BY <1>1, <1>4

LEMMA MarkStep ==
  ASSUME NEW p, NEW s, NEW i \in Nat, i >= 1
  PROVE  /\ IsLeft(p, At(p, s, i)) => Mark(p, s, i, i + 1)
         /\ \A m : ~IsLeft(p, At(p, s, i)) /\ Mark(p, s, m, i) => Mark(p, s, m, i + 1)
<1>1. i \in 1..((i + 1) - 1) /\ \A k \in (i + 1)..((i + 1) - 1) : FALSE
  OBVIOUS
<1>2. ASSUME NEW m, ~IsLeft(p, At(p, s, i)), Mark(p, s, m, i)
      PROVE  Mark(p, s, m, i + 1)
  <2>1. m \in 1..(i - 1)
    BY <1>2 DEF Mark
  <2>2. m \in 1..((i + 1) - 1) /\ \A k \in (m + 1)..((i + 1) - 1) : k \in (m + 1)..(i - 1) \/ k = i
    BY <2>1
  <2> QED BY <1>2, <2>2 DEF Mark
<1> QED BY <1>1, <1>2 DEF Mark

(* --------------------------- what is carried along --------------------------- *)

\* The function f gives what a pass holds behind each CTU.  Before place i a pass takes
\* it from where the restarts say: v.
Carried(p, w, f, s, i, v) ==
  /\ Syncs(p, w, At(p, s, i)) => \E m : Mark(p, s, m, i) /\ v = f[At(p, s, m)]
  /\ ~Syncs(p, w, At(p, s, i)) /\ Restarts(p, w, At(p, s, i)) => v = <<>>
  /\ ~Restarts(p, w, At(p, s, i)) /\ i > 1 => v = f[At(p, s, i - 1)]

\* The pass before place i: what it holds, and what it holds back for the next row.
Holds(p, w, f, s, i, cur, sync) ==
  i > 1 => /\ cur = f[At(p, s, i - 1)]
           /\ w => \E m : Mark(p, s, m, i) /\ sync = f[At(p, s, m)]

Taken(p, w, c, cur, sync) == IF Syncs(p, w, c) THEN sync ELSE IF Restarts(p, w, c) THEN <<>> ELSE cur

LEMMA SyncsRestarts ==
  ASSUME NEW p \in Layouts, NEW w, NEW s \in Slices(p), NEW i \in Places(p, s)
  PROVE  /\ Syncs(p, w, At(p, s, i)) => i > 1 /\ w /\ Restarts(p, w, At(p, s, i))
         /\ Restarts(p, w, At(p, s, i)) => IsLeft(p, At(p, s, i))
<1>1. i \in Nat /\ i >= 1
  BY LayoutTyped DEF Places
<1>2. Syncs(p, w, At(p, s, i)) => i # 1
  BY FirstPlace DEF Syncs
<1> QED BY <1>1, <1>2 DEF Syncs, Restarts

LEMMA TakenCarried ==
  ASSUME NEW p \in Layouts, NEW w, NEW s \in Slices(p), NEW i \in Places(p, s),
         NEW f, NEW cur, NEW sync, Holds(p, w, f, s, i, cur, sync),
         NEW v, v = Taken(p, w, At(p, s, i), cur, sync)
  PROVE  Carried(p, w, f, s, i, v)
<1>1. /\ Syncs(p, w, At(p, s, i)) => i > 1 /\ w /\ Restarts(p, w, At(p, s, i))
  BY SyncsRestarts
<1>2. Syncs(p, w, At(p, s, i)) => v = sync
  BY DEF Taken
<1>3. ~Syncs(p, w, At(p, s, i)) /\ Restarts(p, w, At(p, s, i)) => v = <<>>
  BY DEF Taken
<1>4. ~Restarts(p, w, At(p, s, i)) => v = cur
  BY <1>1 DEF Taken
<1> QED BY <1>1, <1>2, <1>3, <1>4 DEF Carried, Holds

\* Behind place i the pass holds new, and keeps it for the next row if it begins one.
LEMMA HoldsOn ==
  ASSUME NEW p \in Layouts, NEW w, NEW s \in Slices(p), NEW i \in Places(p, s),
         NEW f, NEW cur, NEW sync, Holds(p, w, f, s, i, cur, sync),
         NEW g, \A j \in 1..(i - 1) : g[At(p, s, j)] = f[At(p, s, j)],
         NEW new, g[At(p, s, i)] = new,
         NEW sync2, w => sync2 = IF IsLeft(p, At(p, s, i)) THEN new ELSE sync
  PROVE  Holds(p, w, g, s, i + 1, new, sync2)
<1>1. i \in Nat /\ i >= 1 /\ (i + 1) - 1 = i
  BY LayoutTyped DEF Places
<1>2. ASSUME w
      PROVE  \E m : Mark(p, s, m, i + 1) /\ sync2 = g[At(p, s, m)]
  <2>1. CASE IsLeft(p, At(p, s, i))
    BY <1>1, <1>2, <2>1, MarkStep
  <2>2. CASE ~IsLeft(p, At(p, s, i))
    <3>1. i > 1
      BY <1>1, <2>2, FirstPlace
    <3>2. PICK m : Mark(p, s, m, i) /\ sync = f[At(p, s, m)]
      BY <1>2, <3>1 DEF Holds
    <3>3. g[At(p, s, m)] = f[At(p, s, m)]
      BY <3>2 DEF Mark
    <3> QED BY <1>1, <1>2, <2>2, <3>2, <3>3, MarkStep
  <2> QED BY <2>1, <2>2
<1> QED BY <1>1, <1>2 DEF Holds

LEMMA CarriedStays ==
  ASSUME NEW p \in Layouts, NEW w, NEW s \in Slices(p), NEW i \in Places(p, s),
         NEW f, NEW v, Carried(p, w, f, s, i, v),
         NEW g, \A j \in 1..(i - 1) : g[At(p, s, j)] = f[At(p, s, j)]
  PROVE  Carried(p, w, g, s, i, v)
<1>1. i \in Nat /\ i >= 1 /\ (i > 1 => i - 1 \in 1..(i - 1))
  BY LayoutTyped DEF Places
<1>2. ASSUME NEW m, Mark(p, s, m, i)
      PROVE  g[At(p, s, m)] = f[At(p, s, m)]
  BY <1>2 DEF Mark
<1> QED BY <1>1, <1>2 DEF Carried

LEMMA CarriedUnique ==
  ASSUME NEW p \in Layouts, NEW w, NEW s \in Slices(p), NEW i \in Places(p, s),
         NEW f, NEW u, Carried(p, w, f, s, i, u), NEW v, Carried(p, w, f, s, i, v),
         i > 1 \/ Restarts(p, w, At(p, s, i))
  PROVE  u = v
<1>1. i \in Nat
  BY LayoutTyped DEF Places
<1>2. CASE Syncs(p, w, At(p, s, i))
  <2>1. PICK m : Mark(p, s, m, i) /\ u = f[At(p, s, m)]
    BY <1>2 DEF Carried
  <2>2. PICK n : Mark(p, s, n, i) /\ v = f[At(p, s, n)]
    BY <1>2 DEF Carried
  <2> QED BY <1>1, <2>1, <2>2, MarkUnique
<1>3. CASE ~Syncs(p, w, At(p, s, i))
  BY <1>3 DEF Carried
<1> QED BY <1>2, <1>3

(* -------------------------------- the three passes -------------------------------- *)

Passes == {"search", "write", "read", "done"}

\* Pass q, standing at a, has been at place i of slice s.
Passed(a, q, s, i) ==
  \/ q = "search" /\ a.pass \in {"write", "read", "done"}
  \/ q = "write" /\ a.pass \in {"read", "done"}
  \/ q = "read" /\ a.pass = "done"
  \/ a.pass = q /\ (s < a.slice \/ (s = a.slice /\ i < a.idx))

AtOk(p, a) ==
  /\ a.pass \in Passes /\ a.slice \in Slices(p) /\ a.idx \in Places(p, a.slice)
  /\ a = [pass |-> a.pass, slice |-> a.slice, idx |-> a.idx]
  /\ a.pass = "done" => a.slice = 1 /\ a.idx = 1

LEMMA NextPlace ==
  ASSUME pic \in Layouts, AtOk(pic, at), at.pass # "done", at' = NextCtu
  PROVE  /\ AtOk(pic, at')
         /\ \A q \in Passes : \A s \in Slices(pic) : \A i \in Places(pic, s) :
              Passed(at', q, s, i) <=> \/ Passed(at, q, s, i)
                                       \/ q = at.pass /\ s = at.slice /\ i = at.idx
         /\ IF at.idx < Len(pic.slices[at.slice])
            THEN at'.pass = at.pass /\ at'.slice = at.slice /\ at'.idx = at.idx + 1
            ELSE /\ at'.idx = 1
                 /\ IF at.slice < Len(pic.slices)
                    THEN at'.pass = at.pass /\ at'.slice = at.slice + 1
                    ELSE at'.pass = After(at.pass) /\ at'.slice = 1
<1> DEFINE q == at.pass  s == at.slice  i == at.idx  L == Len(pic.slices[s])  N == Len(pic.slices)
<1>1. /\ q \in {"search", "write", "read"} /\ s \in 1..N /\ i \in 1..L /\ L \in Nat /\ N \in Nat
      /\ at = [pass |-> q, slice |-> s, idx |-> i]
      /\ \A t \in 1..N : Len(pic.slices[t]) \in Nat /\ Len(pic.slices[t]) >= 1
  <2>1. q \in Passes /\ s \in Slices(pic) /\ i \in Places(pic, s) /\ q # "done"
        /\ at = [pass |-> q, slice |-> s, idx |-> i]
    BY DEF AtOk
  <2>2. /\ N \in Nat
        /\ \A t \in Slices(pic) : Len(pic.slices[t]) \in Nat /\ Len(pic.slices[t]) >= 1
    BY LayoutTyped
  <2> QED BY <2>1, <2>2 DEF Passes, Slices, Places
<1>2. at' = IF i < L THEN [at EXCEPT !.idx = @ + 1]
            ELSE IF s < N THEN [at EXCEPT !.slice = @ + 1, !.idx = 1]
            ELSE [pass |-> After(q), slice |-> 1, idx |-> 1]
  BY DEF NextCtu, Slice
<1> HIDE DEF q, s, i, L, N
<1>3. CASE i < L
  <2>1. at' = [pass |-> q, slice |-> s, idx |-> i + 1]
    BY <1>1, <1>2, <1>3
  <2>2. AtOk(pic, at')
    <3>1. at'.pass = q /\ at'.slice = s /\ at'.idx = i + 1
      BY <2>1
    <3>2. i + 1 \in 1..L
      BY <1>1, <1>3
    <3> QED BY <1>1, <2>1, <3>1, <3>2 DEF AtOk, Passes, Slices, Places, L, N
  <2>3. ASSUME NEW r \in Passes, NEW t \in Slices(pic), NEW j \in Places(pic, t)
        PROVE  Passed(at', r, t, j) <=> Passed(at, r, t, j) \/ (r = q /\ t = s /\ j = i)
    <3>1. j \in Nat /\ t \in Nat
      BY LayoutTyped DEF Slices, Places
    <3>2. j < i + 1 <=> j < i \/ j = i
      BY <1>1, <3>1
    <3> QED BY <1>1, <2>1, <3>2 DEF Passed, Passes, q, s, i
  <2> QED BY <1>3, <2>1, <2>2, <2>3 DEF q, s, i, L
<1>4. CASE ~(i < L) /\ s < N
  <2>1. at' = [pass |-> q, slice |-> s + 1, idx |-> 1]
    BY <1>1, <1>2, <1>4
  <2>2. AtOk(pic, at')
    <3>1. at'.pass = q /\ at'.slice = s + 1 /\ at'.idx = 1
      BY <2>1
    <3>2. s + 1 \in 1..N /\ 1 \in 1..Len(pic.slices[s + 1])
      BY <1>1, <1>4
    <3> QED BY <1>1, <2>1, <3>1, <3>2 DEF AtOk, Passes, Slices, Places, N
  <2>3. ASSUME NEW r \in Passes, NEW t \in Slices(pic), NEW j \in Places(pic, t)
        PROVE  Passed(at', r, t, j) <=> Passed(at, r, t, j) \/ (r = q /\ t = s /\ j = i)
    <3>1. j \in Nat /\ t \in Nat /\ j >= 1
      BY LayoutTyped DEF Slices, Places
    <3>2. t < s + 1 \/ (t = s + 1 /\ j < 1) <=> t < s \/ t = s
      BY <1>1, <3>1
    <3>3. t = s => j <= L /\ (j < i \/ j = i)
      <4> SUFFICES ASSUME t = s
                   PROVE  j <= L /\ (j < i \/ j = i)
        OBVIOUS
      <4>1. j \in 1..L
        BY DEF Places, L
      <4> QED BY <1>1, <1>4, <4>1
    <3> QED BY <1>1, <2>1, <3>2, <3>3 DEF Passed, Passes, q, s, i
  <2> QED BY <1>4, <2>1, <2>2, <2>3 DEF q, s, i, L, N
<1>5. CASE ~(i < L) /\ ~(s < N)
  <2>1. at' = [pass |-> After(q), slice |-> 1, idx |-> 1]
    BY <1>1, <1>2, <1>5
  <2>2. After(q) = IF q = "search" THEN "write" ELSE IF q = "write" THEN "read" ELSE "done"
    BY <1>1 DEF After
  <2>3. AtOk(pic, at')
    <3>1. at'.pass = After(q) /\ at'.slice = 1 /\ at'.idx = 1
      BY <2>1
    <3>2. 1 \in 1..N /\ 1 \in 1..Len(pic.slices[1])
      BY <1>1
    <3>3. After(q) \in Passes
      BY <1>1, <2>2 DEF Passes
    <3> QED BY <2>1, <3>1, <3>2, <3>3 DEF AtOk, Slices, Places, N
  <2>4. ASSUME NEW r \in Passes, NEW t \in Slices(pic), NEW j \in Places(pic, t)
        PROVE  Passed(at', r, t, j) <=> Passed(at, r, t, j) \/ (r = q /\ t = s /\ j = i)
    <3>1. t \in 1..N /\ j \in 1..Len(pic.slices[t])
      BY DEF Slices, Places, N
    <3>2. ~(t < 1) /\ ~(j < 1) /\ (t < s \/ t = s)
      BY <1>1, <1>5, <3>1
    <3>3. t = s => j < i \/ j = i
      <4> SUFFICES ASSUME t = s
                   PROVE  j < i \/ j = i
        OBVIOUS
      <4>1. j \in 1..L
        BY DEF Places, L
      <4> QED BY <1>1, <1>5, <4>1
    <3>4. at'.pass = After(q) /\ at'.slice = 1 /\ at'.idx = 1
      BY <2>1
    <3>5. Passed(at', r, t, j) <=> \/ r = "search" /\ After(q) \in {"write", "read", "done"}
                                   \/ r = "write" /\ After(q) \in {"read", "done"}
                                   \/ r = "read" /\ After(q) = "done"
      BY <3>2, <3>4 DEF Passed
    <3>6. Passed(at, r, t, j) \/ (r = q /\ t = s /\ j = i) <=>
            \/ r = "search" /\ q \in {"write", "read", "done"}
            \/ r = "write" /\ q \in {"read", "done"}
            \/ r = "read" /\ q = "done"
            \/ r = q
      BY <3>2, <3>3 DEF Passed, q, s, i
    <3> QED BY <1>1, <2>2, <3>5, <3>6 DEF Passes
  <2> QED BY <1>5, <2>1, <2>3, <2>4 DEF q, s, i, L, N
<1> QED BY <1>3, <1>4, <1>5

LEMMA Restated ==
  ASSUME NEW c
  PROVE  /\ Left(c) <=> IsLeft(pic, c)
         /\ Restart(c) <=> Restarts(pic, coding.wpp, c)
         /\ Sync(c) <=> Syncs(pic, coding.wpp, c)
         /\ AboveAvailable(c) <=> HasAbove(pic, c)
         /\ Above(c) = c - pic.w
<1>1. Left(c) <=> IsLeft(pic, c)
  BY DEF Left, IsLeft
<1>2. AboveAvailable(c) <=> HasAbove(pic, c)
  BY DEF AboveAvailable, HasAbove, Above
<1>3. Restart(c) <=> Restarts(pic, coding.wpp, c)
  BY DEF Restart, RowStart, TileStart, Left, Restarts, IsLeft
<1>4. Sync(c) <=> Syncs(pic, coding.wpp, c)
  BY <1>2 DEF Sync, RowStart, TileStart, Left, Syncs, IsLeft
<1> QED BY <1>1, <1>2, <1>3, <1>4 DEF Above

(* ----------------------------------- the search ----------------------------------- *)

\* The palette behind each CTU.
Plts(p, u) == [c \in Ctus(p) |-> Append(u[c].plt, c)]

\* The QP predicted at place i of slice s, if that of each CTU before is in u.
Predicted(p, w, u, s, i) ==
  IF IsLeft(p, At(p, s, i)) /\ HasAbove(p, At(p, s, i)) THEN u[At(p, s, i) - p.w].qp
  ELSE IF i = 1 \/ Restarts(p, w, At(p, s, i)) THEN SliceQp ELSE u[At(p, s, i - 1)].qp

LutAt(p, u, s, i) ==
  IF IsLeft(p, At(p, s, i)) THEN <<>> ELSE Append(u[At(p, s, i - 1)].lut, At(p, s, i - 1))

CuOk(p, w, u, s, i) ==
  /\ u[At(p, s, i)].coded \in BOOLEAN /\ u[At(p, s, i)].qp \in QpRange
  /\ ~u[At(p, s, i)].coded => u[At(p, s, i)].qp = Predicted(p, w, u, s, i)
  /\ u[At(p, s, i)].lut = LutAt(p, u, s, i)
  /\ Carried(p, w, Plts(p, u), s, i, u[At(p, s, i)].plt)

EstOk(p, w, u, e, x, s, i) ==
  /\ Holds(p, w, Plts(p, u), s, i, e.plt, x)
  /\ i > 1 => /\ e.qp = u[At(p, s, i - 1)].qp
              /\ e.lut = Append(u[At(p, s, i - 1)].lut, At(p, s, i - 1))

SearchOk(p, w, a, u, e, x) ==
  /\ u = [c \in Ctus(p) |-> u[c]]
  /\ \A s \in Slices(p) : \A i \in Places(p, s) : Passed(a, "search", s, i) => CuOk(p, w, u, s, i)
  /\ a.pass = "search" => EstOk(p, w, u, e, x, a.slice, a.idx)

LEMMA SameBefore ==
  ASSUME NEW p \in Layouts, NEW w, NEW s \in Slices(p), NEW i \in Places(p, s), NEW u, NEW v,
         \A j \in 1..(i - 1) : v[At(p, s, j)] = u[At(p, s, j)]
  PROVE  /\ Predicted(p, w, v, s, i) = Predicted(p, w, u, s, i)
         /\ LutAt(p, v, s, i) = LutAt(p, u, s, i)
         /\ \A j \in 1..(i - 1) : Plts(p, v)[At(p, s, j)] = Plts(p, u)[At(p, s, j)]
<1> DEFINE c == At(p, s, i)
<1>1. i \in Nat /\ i >= 1 /\ (i > 1 => i - 1 \in 1..(i - 1)) /\ i <= Len(p.slices[s])
      /\ Len(p.slices[s]) \in Nat
  BY LayoutTyped DEF Places
<1>2. HasAbove(p, c) => v[c - p.w] = u[c - p.w]
  <2> SUFFICES ASSUME HasAbove(p, c)
               PROVE  v[c - p.w] = u[c - p.w]
    OBVIOUS
  <2>1. PICK j \in 1..(i - 1) : At(p, s, j) = c - p.w
    BY AboveBefore
  <2> QED BY <2>1
<1>3. i > 1 => v[At(p, s, i - 1)] = u[At(p, s, i - 1)]
  BY <1>1
<1>4. ~IsLeft(p, c) => i > 1
  BY <1>1, FirstPlace
<1>5. \A j \in 1..(i - 1) : Plts(p, v)[At(p, s, j)] = Plts(p, u)[At(p, s, j)]
  <2> TAKE j \in 1..(i - 1)
  <2>1. j \in Places(p, s)
    BY <1>1 DEF Places
  <2>2. At(p, s, j) \in Ctus(p)
    BY <2>1, LayoutTyped
  <2> QED BY <2>2 DEF Plts
<1>6. Predicted(p, w, v, s, i) = Predicted(p, w, u, s, i)
  BY <1>1, <1>2, <1>3 DEF Predicted
<1>7. LutAt(p, v, s, i) = LutAt(p, u, s, i)
  BY <1>3, <1>4 DEF LutAt
<1> QED BY <1>5, <1>6, <1>7

\* What the search decided stays as it is.
LEMMA CuOkStays ==
  ASSUME NEW p \in Layouts, NEW w, NEW s \in Slices(p), NEW i \in Places(p, s), NEW u, NEW v,
         CuOk(p, w, u, s, i), \A j \in 1..i : v[At(p, s, j)] = u[At(p, s, j)]
  PROVE  CuOk(p, w, v, s, i)
<1>1. i \in Nat /\ i >= 1 /\ i \in 1..i
  BY LayoutTyped DEF Places
<1>2. /\ Predicted(p, w, v, s, i) = Predicted(p, w, u, s, i)
      /\ LutAt(p, v, s, i) = LutAt(p, u, s, i)
      /\ \A j \in 1..(i - 1) : Plts(p, v)[At(p, s, j)] = Plts(p, u)[At(p, s, j)]
  BY <1>1, SameBefore
<1>3. v[At(p, s, i)] = u[At(p, s, i)]
  BY <1>1
<1>4. Carried(p, w, Plts(p, v), s, i, v[At(p, s, i)].plt)
  <2>1. Carried(p, w, Plts(p, u), s, i, v[At(p, s, i)].plt)
    BY <1>3 DEF CuOk
  <2> QED BY <1>2, <2>1, CarriedStays
<1> QED BY <1>2, <1>3, <1>4 DEF CuOk

LEMMA PredictedTyped ==
  ASSUME NEW p \in Layouts, NEW w, NEW s \in Slices(p), NEW i \in Places(p, s), NEW u,
         \A j \in 1..(i - 1) : u[At(p, s, j)].qp \in QpRange
  PROVE  Predicted(p, w, u, s, i) \in QpRange
<1> DEFINE c == At(p, s, i)
<1>1. i \in Nat /\ i >= 1 /\ (i > 1 => i - 1 \in 1..(i - 1))
  BY LayoutTyped DEF Places
<1>2. HasAbove(p, c) => u[c - p.w].qp \in QpRange
  <2> SUFFICES ASSUME HasAbove(p, c)
               PROVE  u[c - p.w].qp \in QpRange
    OBVIOUS
  <2>1. PICK j \in 1..(i - 1) : At(p, s, j) = c - p.w
    BY AboveBefore
  <2> QED BY <2>1
<1>3. SliceQp \in QpRange
  BY QpAssumption
<1> QED BY <1>1, <1>2, <1>3 DEF Predicted

\* PredictQP with the QP before, which restarts at slices, tiles and rows.
LEMMA PredictStep ==
  ASSUME pic \in Layouts, NEW s \in Slices(pic), NEW i \in Places(pic, s), NEW u, NEW qp,
         qp = IF Restart(At(pic, s, i)) \/ i = 1 THEN SliceQp ELSE u[At(pic, s, i - 1)].qp
  PROVE  PredictQP(At(pic, s, i), qp, u) = Predicted(pic, coding.wpp, u, s, i)
BY Restated DEF PredictQP, Predicted

LEMMA EstimateKeeps ==
  ASSUME NEW coded \in BOOLEAN, NEW qp \in QpRange, Estimate(coded, qp), pic \in Layouts, AtOk(pic, at),
         SearchOk(pic, coding.wpp, at, cu, est, estPlt)
  PROVE  SearchOk(pic, coding.wpp, at', cu', est', estPlt')
<1> DEFINE s == at.slice  i == at.idx  c == At(pic, s, i)  w == coding.wpp  b == EstBefore(c)
           pred == PredictQP(c, b.qp, cu)  q == IF coded THEN qp ELSE pred
           new == [coded |-> coded, qp |-> q, plt |-> b.plt, lut |-> b.lut]
<1>1. at.pass = "search" /\ at' = NextCtu /\ Ctu = c
  BY Zenon DEF Estimate, Ctu, Slice, At
<1>2. s \in Slices(pic) /\ i \in Places(pic, s) /\ c \in Ctus(pic) /\ i \in Nat /\ i >= 1
  <2>1. s \in Slices(pic) /\ i \in Places(pic, s)
    BY DEF AtOk
  <2>2. c \in Ctus(pic) /\ Len(pic.slices[s]) \in Nat
    BY <2>1, LayoutTyped
  <2> QED BY <2>1, <2>2 DEF Places
<1>3. /\ cu' = [cu EXCEPT ![c] = new]
      /\ est' = [qp |-> q, plt |-> Append(b.plt, c), lut |-> Append(b.lut, c)]
      /\ estPlt' = IF Left(c) /\ coding.wpp THEN est'.plt ELSE estPlt
  BY <1>1 DEF Estimate
<1>4. EstOk(pic, w, cu, est, estPlt, s, i) /\ cu = [d \in Ctus(pic) |-> cu[d]]
  BY <1>1 DEF SearchOk
<1>5. /\ b.qp = IF Restart(c) \/ i = 1 THEN SliceQp ELSE est.qp
      /\ b.plt = Taken(pic, w, c, est.plt, estPlt)
      /\ b.lut = IF Left(c) THEN <<>> ELSE est.lut
  BY Restated DEF EstBefore, Taken
<1> HIDE DEF b
<1>6. \A j \in 1..(i - 1) : j \in Places(pic, s) /\ Passed(at, "search", s, j)
  <2> TAKE j \in 1..(i - 1)
  <2>1. j \in Places(pic, s) /\ j < i
    BY <1>2, LayoutTyped DEF Places
  <2> QED BY <1>1, <2>1 DEF Passed
<1>7. \A j \in 1..(i - 1) : cu[At(pic, s, j)].qp \in QpRange
  BY <1>2, <1>6 DEF SearchOk, CuOk
<1>8. pred = Predicted(pic, w, cu, s, i)
  <2>1. b.qp = IF Restart(c) \/ i = 1 THEN SliceQp ELSE cu[At(pic, s, i - 1)].qp
    BY <1>2, <1>4, <1>5 DEF EstOk
  <2> QED BY <1>2, <2>1, PredictStep
<1>9. q \in QpRange
  <2>1. Predicted(pic, w, cu, s, i) \in QpRange
    BY <1>2, <1>7, PredictedTyped
  <2> QED BY <1>8, <2>1
<1> HIDE DEF pred, q
<1>10. /\ cu' = [d \in Ctus(pic) |-> cu'[d]] /\ cu'[c] = new
       /\ \A d \in Ctus(pic) : d # c => cu'[d] = cu[d]
  <2> HIDE DEF new, c
  <2> QED BY <1>2, <1>3, <1>4
<1>11. \A t \in Slices(pic) : \A j \in Places(pic, t) : t # s \/ j # i => cu'[At(pic, t, j)] = cu[At(pic, t, j)]
  <2> SUFFICES ASSUME NEW t \in Slices(pic), NEW j \in Places(pic, t), t # s \/ j # i
               PROVE  cu'[At(pic, t, j)] = cu[At(pic, t, j)]
    OBVIOUS
  <2>1. At(pic, t, j) \in Ctus(pic)
    BY LayoutTyped
  <2>2. At(pic, t, j) # c
    BY <1>2, PlaceUnique
  <2> QED BY <1>10, <2>1, <2>2
<1>12. \A j \in 1..(i - 1) : cu'[At(pic, s, j)] = cu[At(pic, s, j)]
  <2> TAKE j \in 1..(i - 1)
  <2>1. j \in Places(pic, s) /\ j # i
    BY <1>2, <1>6
  <2> QED BY <1>2, <1>11, <2>1
<1>13. /\ Predicted(pic, w, cu', s, i) = Predicted(pic, w, cu, s, i)
       /\ LutAt(pic, cu', s, i) = LutAt(pic, cu, s, i)
       /\ \A j \in 1..(i - 1) : Plts(pic, cu')[At(pic, s, j)] = Plts(pic, cu)[At(pic, s, j)]
  <2> DEFINE v == cu'
  <2>1. \A j \in 1..(i - 1) : v[At(pic, s, j)] = cu[At(pic, s, j)]
    BY <1>12
  <2> HIDE DEF v, s, i, w
  <2>2. /\ Predicted(pic, w, v, s, i) = Predicted(pic, w, cu, s, i)
        /\ LutAt(pic, v, s, i) = LutAt(pic, cu, s, i)
        /\ \A j \in 1..(i - 1) : Plts(pic, v)[At(pic, s, j)] = Plts(pic, cu)[At(pic, s, j)]
    BY <1>2, <2>1, SameBefore
  <2> QED BY <2>2 DEF v
<1>14. new.lut = LutAt(pic, cu, s, i)
  <2>1. ~Left(c) => i > 1
    BY <1>2, Restated, FirstPlace
  <2> QED BY <1>4, <1>5, <2>1, Restated DEF EstOk, LutAt
<1>15. Carried(pic, w, Plts(pic, cu), s, i, new.plt)
  <2>1. Holds(pic, w, Plts(pic, cu), s, i, est.plt, estPlt)
    BY <1>4 DEF EstOk
  <2>2. new.plt = Taken(pic, w, At(pic, s, i), est.plt, estPlt)
    BY <1>5
  <2> HIDE DEF new
  <2> QED BY <1>2, <2>1, <2>2, TakenCarried
<1>16. CuOk(pic, w, cu', s, i)
  <2>1. Carried(pic, w, Plts(pic, cu'), s, i, new.plt)
    BY <1>2, <1>13, <1>15, CarriedStays
  <2>2. new.coded = coded /\ new.qp = q /\ (~coded => q = pred)
    BY DEF q
  <2> HIDE DEF new
  <2> QED BY <1>8, <1>9, <1>10, <1>13, <1>14, <2>1, <2>2 DEF CuOk
<1>17. ASSUME NEW t \in Slices(pic), NEW j \in Places(pic, t), Passed(at', "search", t, j)
       PROVE  CuOk(pic, w, cu', t, j)
  <2>1. Passed(at, "search", t, j) \/ (t = s /\ j = i)
    BY <1>1, <1>17, NextPlace DEF Passes
  <2>2. CASE Passed(at, "search", t, j)
    <3>1. CuOk(pic, w, cu, t, j)
      BY <2>2 DEF SearchOk
    <3>2. \A k \in 1..j : cu'[At(pic, t, k)] = cu[At(pic, t, k)]
      <4> TAKE k \in 1..j
      <4>1. j \in 1..Len(pic.slices[t]) /\ Len(pic.slices[t]) \in Nat
        BY LayoutTyped DEF Places
      <4>2. k \in Places(pic, t)
        BY <4>1 DEF Places
      <4>3. t < s \/ (t = s /\ j < i)
        BY <1>1, <2>2 DEF Passed
      <4>4. t # s \/ k # i
        BY <1>2, <4>1, <4>3 DEF Slices
      <4> QED BY <1>11, <4>2, <4>4
    <3> QED BY <3>1, <3>2, CuOkStays
  <2> QED BY <1>16, <2>1, <2>2
<1>18. ASSUME at'.pass = "search"
       PROVE  EstOk(pic, w, cu', est', estPlt', at'.slice, at'.idx)
  <2>1. CASE at'.idx = 1
    BY <2>1 DEF EstOk, Holds
  <2>2. CASE at'.idx # 1
    <3>1. at'.slice = s /\ at'.idx = i + 1 /\ (i + 1) - 1 = i
      BY <1>1, <1>2, <2>2, NextPlace
    <3>2. est'.plt = Append(b.plt, c) /\ est'.qp = q /\ est'.lut = Append(b.lut, c)
      BY <1>3
    <3>3. Plts(pic, cu')[c] = est'.plt
      BY <1>2, <1>10, <3>2 DEF Plts
    <3>4. w => estPlt' = IF IsLeft(pic, c) THEN est'.plt ELSE estPlt
      BY <1>3, Restated
    <3>5. Holds(pic, w, Plts(pic, cu), s, i, est.plt, estPlt)
      BY <1>4 DEF EstOk
    <3>6. Holds(pic, w, Plts(pic, cu'), s, i + 1, est'.plt, estPlt')
      BY <1>2, <1>13, <3>3, <3>4, <3>5, HoldsOn
    <3>7. est'.qp = cu'[c].qp /\ est'.lut = Append(cu'[c].lut, c)
      BY <1>10, <3>2
    <3> QED BY <3>1, <3>6, <3>7 DEF EstOk
  <2> QED BY <2>1, <2>2
<1> QED BY <1>10, <1>17, <1>18 DEF SearchOk

(* --------------------------------- the sub-streams --------------------------------- *)

LEMMA SubBefore ==
  ASSUME NEW p, NEW w, NEW s, NEW i \in Nat, NEW j \in Nat, j >= 1, j < i
  PROVE  /\ Sub(p, w, s, j) <= Sub(p, w, s, i)
         /\ Ends(p, w, s, j) => Sub(p, w, s, j) < Sub(p, w, s, i)
<1> DEFINE E(n) == {k \in 1..(n - 1) : Ends(p, w, s, k)}
<1>1. \A n \in Nat : IsFiniteSet(E(n)) /\ Cardinality(E(n)) \in Nat
  <2> TAKE n \in Nat
  <2>1. IsFiniteSet(1..(n - 1)) /\ E(n) \subseteq 1..(n - 1)
    BY FS_Interval
  <2> HIDE DEF E
  <2>2. IsFiniteSet(E(n))
    BY <2>1, FS_Subset
  <2> QED BY <2>2, FS_CardinalityType
<1>2. E(j) \subseteq E(i)
  <2>1. \A k \in 1..(j - 1) : k \in 1..(i - 1)
    OBVIOUS
  <2> QED BY <2>1
<1>3. Ends(p, w, s, j) => j \in E(i) /\ j \notin E(j)
  OBVIOUS
<1>4. Sub(p, w, s, j) = 1 + Cardinality(E(j)) /\ Sub(p, w, s, i) = 1 + Cardinality(E(i))
  BY DEF Sub
<1> HIDE DEF E
<1>5. Cardinality(E(j)) <= Cardinality(E(i))
  BY <1>1, <1>2, FS_Subset
<1>6. Ends(p, w, s, j) => Cardinality(E(j)) # Cardinality(E(i))
  <2>1. Cardinality(E(j)) = Cardinality(E(i)) => E(j) = E(i)
    BY <1>1, <1>2, FS_Subset
  <2> QED BY <1>3, <2>1
<1> DEFINE a == Cardinality(E(j))  b == Cardinality(E(i))
<1>7. a \in Nat /\ b \in Nat
  BY <1>1
<1> HIDE DEF a, b
<1>8. (a <= b => 1 + a <= 1 + b) /\ (a <= b /\ a # b => 1 + a < 1 + b)
  BY <1>7
<1> QED BY <1>4, <1>5, <1>6, <1>8 DEF a, b

LEMMA SeqGrow ==
  ASSUME NEW X, NEW Y, X \subseteq Y, NEW q \in Seq(Seq(X))
  PROVE  q \in Seq(Seq(Y))
<1>1. \A t \in Seq(X) : t \in Seq(Y)
  <2> TAKE t \in Seq(X)
  <2>1. t \in [1..Len(t) -> Y] /\ Len(t) \in Nat
    OBVIOUS
  <2> QED BY <2>1
<1> DEFINE S == Seq(X)  T == Seq(Y)
<1>2. q \in Seq(S) /\ \A t \in S : t \in T
  BY <1>1
<1> HIDE DEF S, T
<1>3. q \in [1..Len(q) -> T] /\ Len(q) \in Nat
  BY <1>2
<1>4. q \in Seq(T)
  BY <1>3
<1> QED BY <1>4 DEF T

\* What WriteCtu makes of the sub-streams of its slice: tail goes behind sub-stream k, the
\* last one or a new one.
Grown(q, k, tail) ==
  [(IF k > Len(q) THEN Append(q, <<>>) ELSE q) EXCEPT ![k] = @ \o tail]
Before(q, k) == IF k > Len(q) THEN 0 ELSE Len(q[k])

GrownAs(Y, q, tail, k, r, n) ==
  /\ r \in Seq(Seq(Y)) /\ Len(r) = k
  /\ n \in Nat /\ Len(r[k]) = n + Len(tail)
  /\ \A m \in 1..Len(tail) : r[k][n + m] = tail[m]
  /\ \A j \in 1..Len(q) : j # k => r[j] = q[j]
  /\ k <= Len(q) => \A m \in 1..n : r[k][m] = q[k][m]

LEMMA GrownSub ==
  ASSUME NEW Y, NEW q \in Seq(Seq(Y)), NEW tail \in Seq(Y), NEW k \in Nat \ {0},
         k = Len(q) \/ k = Len(q) + 1, NEW r, r = Grown(q, k, tail), NEW n, n = Before(q, k)
  PROVE  GrownAs(Y, q, tail, k, r, n)
<1> DEFINE kept == IF k > Len(q) THEN Append(q, <<>>) ELSE q
           S == Seq(Y)
<1>1. <<>> \in S /\ q \in Seq(S) /\ Len(q) \in Nat
  OBVIOUS
<1>2. /\ kept \in Seq(S) /\ Len(kept) = k
      /\ \A j \in 1..Len(q) : kept[j] = q[j]
      /\ Len(kept[k]) = n /\ kept[k] \in S
      /\ k <= Len(q) => kept[k] = q[k]
  <2>1. CASE k > Len(q)
    <3>1. kept = Append(q, <<>>) /\ k = Len(q) + 1
      BY <1>1, <2>1
    <3> HIDE DEF S
    <3>2. Append(q, <<>>) \in Seq(S) /\ Len(Append(q, <<>>)) = Len(q) + 1
          /\ Append(q, <<>>)[Len(q) + 1] = <<>>
          /\ \A j \in 1..Len(q) : Append(q, <<>>)[j] = q[j]
      BY <1>1
    <3>3. n = 0 /\ Len(<<>>) = 0
      BY <2>1 DEF Before
    <3> QED BY <1>1, <2>1, <3>1, <3>2, <3>3
  <2>2. CASE ~(k > Len(q))
    <3>1. kept = q /\ k = Len(q) /\ n = Len(q[k])
      BY <1>1, <2>2 DEF Before
    <3> HIDE DEF kept, S
    <3>2. q[k] \in S
      BY <1>1, <3>1
    <3> QED BY <1>1, <3>1, <3>2
  <2> QED BY <2>1, <2>2
<1>3. r = [kept EXCEPT ![k] = kept[k] \o tail]
  BY DEF Grown
<1> HIDE DEF kept
<1>4. /\ kept[k] \o tail \in S /\ Len(kept[k] \o tail) = n + Len(tail) /\ n \in Nat
      /\ \A m \in 1..Len(tail) : (kept[k] \o tail)[n + m] = tail[m]
      /\ \A m \in 1..n : (kept[k] \o tail)[m] = kept[k][m]
  <2> DEFINE v == kept[k]
  <2>1. v \in Seq(Y) /\ Len(v) = n /\ n \in Nat /\ Len(tail) \in Nat
    BY <1>2
  <2> HIDE DEF v
  <2>2. v \o tail \in Seq(Y) /\ Len(v \o tail) = n + Len(tail)
    <3>1. v \o tail \in Seq(Y) /\ Len(v \o tail) = Len(v) + Len(tail)
      BY ONLY <2>1, tail \in Seq(Y), ConcatProperties
    <3> QED BY <2>1, <3>1
  <2>3. \A m \in 1..Len(tail) : (v \o tail)[n + m] = tail[m]
    BY <2>1
  <2>4. \A m \in 1..n : (v \o tail)[m] = v[m]
    BY <2>1
  <2> QED BY <2>1, <2>2, <2>3, <2>4 DEF v
<1> DEFINE v == kept[k] \o tail
<1>5. v \in S
  BY <1>4
<1> HIDE DEF S, v
<1>6. /\ r \in Seq(S) /\ Len(r) = k /\ r[k] = v
      /\ \A j \in 1..Len(q) : j # k => r[j] = q[j]
  <2>1. r = [kept EXCEPT ![k] = v]
    BY <1>3 DEF v
  <2>2. k \in 1..Len(kept) /\ \A j \in 1..Len(q) : j \in 1..Len(kept)
    BY <1>1, <1>2
  <2>3. r \in Seq(S) /\ Len(r) = Len(kept) /\ r[k] = v
        /\ \A j \in 1..Len(kept) : j # k => r[j] = kept[j]
    BY <1>2, <1>5, <2>1, <2>2
  <2> QED BY <1>2, <2>2, <2>3
<1> QED BY <1>2, <1>4, <1>6 DEF S, v, GrownAs

(* -------------------------------- the writing pass -------------------------------- *)
(* I is what the pass wrote for each CTU, X the set of what it wrote.                  *)

\* The contexts behind each CTU.
Ctxs(p, I) == [c \in Ctus(p) |-> Append(I[c].ctx, [ctu |-> c, coded |-> I[c].coded, dqp |-> I[c].dqp])]

ItemOk(p, w, u, I, s, i) ==
  /\ I[At(p, s, i)].ctu = At(p, s, i) /\ I[At(p, s, i)].coded = u[At(p, s, i)].coded
  /\ InFirst(p, s, i) /\ u[At(p, s, i)].coded =>
       I[At(p, s, i)].dqp = QpDelta(Predicted(p, w, u, s, i), u[At(p, s, i)].qp)
  /\ i = 1 => I[At(p, s, i)].ctx = <<>>
  /\ Carried(p, w, Ctxs(p, I), s, i, I[At(p, s, i)].ctx)

\* Where in the sub-streams q of slice s its place i is.
InSub(p, w, q, I, s, i) ==
  /\ Sub(p, w, s, i) \in 1..Len(q)
  /\ Within(p, w, s, i) + 1 \in 1..Len(q[Sub(p, w, s, i)])
  /\ q[Sub(p, w, s, i)][Within(p, w, s, i) + 1] = I[At(p, s, i)]
  /\ Ends(p, w, s, i) => /\ Len(q[Sub(p, w, s, i)]) = Within(p, w, s, i) + 2
                         /\ q[Sub(p, w, s, i)][Within(p, w, s, i) + 2] = End

\* The sub-streams before place i is written.
Filled(p, w, q, s, i) ==
  IF i = 1 \/ Ends(p, w, s, i - 1) THEN Len(q) + 1 = Sub(p, w, s, i)
  ELSE Len(q) = Sub(p, w, s, i) /\ Len(q[Sub(p, w, s, i)]) = Within(p, w, s, i)

WriterOk(p, w, u, I, r, q, s, i) ==
  /\ Filled(p, w, q, s, i) /\ Holds(p, w, Ctxs(p, I), s, i, r.ctx, r.sync)
  /\ i > 1 => /\ r.sub = Sub(p, w, s, i)
              /\ InFirst(p, s, i - 1) => r.qp = u[At(p, s, i - 1)].qp

WriteOk(p, w, a, u, r, o, I, X) ==
  /\ o \in [Slices(p) -> Seq(Seq(X))] /\ I = [c \in Ctus(p) |-> I[c]]
  /\ r = [qp |-> r.qp, ctx |-> r.ctx, sync |-> r.sync, plt |-> r.plt, sub |-> r.sub]
  /\ \A s \in Slices(p) : \A i \in Places(p, s) : Passed(a, "write", s, i) =>
       ItemOk(p, w, u, I, s, i) /\ InSub(p, w, o[s], I, s, i)
  /\ \A s \in Slices(p) : /\ ~Passed(a, "write", s, 1) => o[s] = <<>>
                          /\ Passed(a, "write", s, Len(p.slices[s])) =>
                               Len(o[s]) = Sub(p, w, s, Len(p.slices[s]))
  /\ a.pass = "write" => WriterOk(p, w, u, I, r, o[a.slice], a.slice, a.idx)

\* The writer predicts as the search did, in the first tile of the slice.
LEMMA WritePredicts ==
  ASSUME pic \in Layouts, NEW s \in Slices(pic), NEW i \in Places(pic, s), NEW u, NEW qp,
         InFirst(pic, s, i), coding.wpp \in BOOLEAN,
         qp = IF i = 1 THEN SliceQp ELSE u[At(pic, s, i - 1)].qp
  PROVE  PredictQP(At(pic, s, i), qp, u) = Predicted(pic, coding.wpp, u, s, i)
<1> DEFINE c == At(pic, s, i)
<1>1. i \in Nat /\ i >= 1 /\ i <= Len(pic.slices[s]) /\ Len(pic.slices[s]) \in Nat
  BY LayoutTyped DEF Places
<1>2. ASSUME i > 1, Restarts(pic, coding.wpp, c)
      PROVE  HasAbove(pic, c)
  <2> DEFINE k == i - 1
  <2>1. k \in Places(pic, s) /\ k < Len(pic.slices[s]) /\ k + 1 = i
    BY <1>1, <1>2 DEF Places
  <2> HIDE DEF k
  <2>2. InFirst(pic, s, k + 1) => (IsLeft(pic, c) => HasAbove(pic, c))
    BY <2>1, GoesOnAt
  <2> QED BY <1>2, <2>1, <2>2 DEF Restarts
<1>3. Restarts(pic, coding.wpp, c) => IsLeft(pic, c)
  BY DEF Restarts
<1> QED BY <1>1, <1>2, <1>3, Restated DEF PredictQP, Predicted

LEMMA ItemOkStays ==
  ASSUME NEW p \in Layouts, NEW w, NEW s \in Slices(p), NEW i \in Places(p, s), NEW u, NEW I, NEW J,
         ItemOk(p, w, u, I, s, i), \A j \in 1..i : J[At(p, s, j)] = I[At(p, s, j)]
  PROVE  ItemOk(p, w, u, J, s, i)
<1>1. i \in Nat /\ i >= 1 /\ i \in 1..i /\ i <= Len(p.slices[s]) /\ Len(p.slices[s]) \in Nat
  BY LayoutTyped DEF Places
<1>2. J[At(p, s, i)] = I[At(p, s, i)]
  BY <1>1
<1>3. \A j \in 1..(i - 1) : Ctxs(p, J)[At(p, s, j)] = Ctxs(p, I)[At(p, s, j)]
  <2> TAKE j \in 1..(i - 1)
  <2>1. j \in Places(p, s) /\ j \in 1..i
    BY <1>1 DEF Places
  <2>2. At(p, s, j) \in Ctus(p)
    BY <2>1, LayoutTyped
  <2> QED BY <2>1, <2>2 DEF Ctxs
<1>4. Carried(p, w, Ctxs(p, J), s, i, I[At(p, s, i)].ctx)
  <2>1. Carried(p, w, Ctxs(p, I), s, i, I[At(p, s, i)].ctx)
    BY DEF ItemOk
  <2> QED BY <1>3, <2>1, CarriedStays
<1> QED BY <1>2, <1>4 DEF ItemOk

LEMMA FilledBefore ==
  ASSUME NEW p, NEW w, NEW s, NEW i \in Nat, i >= 1, NEW Y, NEW q \in Seq(Seq(Y)), Filled(p, w, q, s, i)
  PROVE  /\ Sub(p, w, s, i) \in Nat \ {0}
         /\ Sub(p, w, s, i) = Len(q) \/ Sub(p, w, s, i) = Len(q) + 1
         /\ Before(q, Sub(p, w, s, i)) = Within(p, w, s, i)
<1> DEFINE k == Sub(p, w, s, i)  n == Within(p, w, s, i)  L == Len(q)
<1>1. k \in Nat /\ k >= 1 /\ L \in Nat
  BY SubStep
<1>2. i = 1 \/ Ends(p, w, s, i - 1) => n = 0
  <2>1. CASE i = 1
    BY <2>1, SubFirst
  <2>2. CASE i # 1 /\ Ends(p, w, s, i - 1)
    <3> DEFINE j == i - 1
    <3>1. j \in Nat /\ j >= 1 /\ i = j + 1 /\ Ends(p, w, s, j)
      BY <2>2
    <3> HIDE DEF j
    <3>2. Within(p, w, s, j + 1) = 0
      BY <3>1, SubStep
    <3> QED BY <3>1, <3>2
  <2> QED BY <2>1, <2>2
<1>3. IF i = 1 \/ Ends(p, w, s, i - 1) THEN L + 1 = k ELSE L = k /\ Len(q[k]) = n
  BY DEF Filled
<1>4. Before(q, k) = IF k > L THEN 0 ELSE Len(q[k])
  BY DEF Before
<1> HIDE DEF k, n, L
<1>5. (L + 1 = k => k > L) /\ (L = k => ~(k > L))
  BY <1>1
<1>6. k \in Nat \ {0} /\ (k = L \/ k = L + 1) /\ Before(q, k) = n
  BY <1>1, <1>2, <1>3, <1>4, <1>5
<1> QED BY <1>6 DEF k, n, L

LEMMA InSubStays ==
  ASSUME NEW p, NEW w, NEW s, NEW i \in Nat, NEW j \in Nat, j >= 1, j < i,
         NEW Y, NEW q \in Seq(Seq(Y)), NEW tail \in Seq(Y), Filled(p, w, q, s, i),
         NEW I, NEW J, J[At(p, s, j)] = I[At(p, s, j)], InSub(p, w, q, I, s, j)
  PROVE  InSub(p, w, Grown(q, Sub(p, w, s, i), tail), J, s, j)
<1> DEFINE k == Sub(p, w, s, i)  n == Before(q, k)  r == Grown(q, k, tail)
           a == Sub(p, w, s, j)  b == Within(p, w, s, j)  E == Ends(p, w, s, j)  v == I[At(p, s, j)]
<1>1. /\ k \in Nat \ {0} /\ (k = Len(q) \/ k = Len(q) + 1) /\ n = Before(q, k) /\ r = Grown(q, k, tail)
  BY FilledBefore
<1>2. a <= k /\ (E => a < k) /\ b \in Nat /\ a \in Nat
  BY SubBefore, SubStep, <1>1
<1>3. /\ a \in 1..Len(q) /\ b + 1 \in 1..Len(q[a]) /\ q[a][b + 1] = v
      /\ E => Len(q[a]) = b + 2 /\ q[a][b + 2] = End
  BY DEF InSub
<1>4. v = J[At(p, s, j)]
  OBVIOUS
<1> HIDE DEF k, n, r, a, b, E, v
<1>5. /\ Len(r) = k /\ n \in Nat /\ Len(r[k]) = n + Len(tail)
      /\ \A m \in 1..Len(q) : m # k => r[m] = q[m]
      /\ k <= Len(q) => \A m \in 1..n : r[k][m] = q[k][m]
  <2>1. GrownAs(Y, q, tail, k, r, n)
    BY <1>1, GrownSub
  <2> QED BY <2>1 DEF GrownAs
<1>6. /\ a \in 1..Len(r) /\ b + 1 \in 1..Len(r[a]) /\ r[a][b + 1] = v
      /\ E => Len(r[a]) = b + 2 /\ r[a][b + 2] = End
  <2>1. a \in 1..Len(r)
    BY <1>1, <1>2, <1>3, <1>5
  <2>2. CASE a # k
    BY <2>1, <2>2, <1>3, <1>5
  <2>3. CASE a = k
    <3>1. ~E /\ k <= Len(q) /\ n = Len(q[k])
      BY <1>1, <1>2, <1>3, <2>3 DEF Before
    <3>2. b + 1 \in 1..n /\ Len(tail) \in Nat
      BY <1>3, <2>3, <3>1
    <3>3. b + 1 \in 1..Len(r[k])
      BY <1>5, <3>2
    <3> QED BY <1>3, <1>5, <2>1, <2>3, <3>1, <3>2, <3>3
  <2> QED BY <2>2, <2>3
<1> QED BY <1>4, <1>6 DEF k, n, r, a, b, E, v, InSub

LEMMA InSubNew ==
  ASSUME NEW p, NEW w, NEW s, NEW i \in Nat, i >= 1,
         NEW Y, NEW q \in Seq(Seq(Y)), NEW item \in Y, End \in Y, Filled(p, w, q, s, i),
         NEW tail, tail = IF Ends(p, w, s, i) THEN <<item, End>> ELSE <<item>>,
         NEW J, J[At(p, s, i)] = item, NEW r, r = Grown(q, Sub(p, w, s, i), tail)
  PROVE  /\ r \in Seq(Seq(Y)) /\ InSub(p, w, r, J, s, i)
         /\ Len(r) = Sub(p, w, s, i) /\ Filled(p, w, r, s, i + 1)
<1> DEFINE k == Sub(p, w, s, i)  n == Within(p, w, s, i)  E == Ends(p, w, s, i)
           k2 == Sub(p, w, s, i + 1)  n2 == Within(p, w, s, i + 1)
<1>1. k \in Nat \ {0} /\ (k = Len(q) \/ k = Len(q) + 1) /\ n = Before(q, k) /\ r = Grown(q, k, tail)
  BY FilledBefore
<1>2. /\ E => k2 = k + 1 /\ n2 = 0
      /\ ~E => k2 = k /\ n2 = n + 1
  BY SubStep
<1>3. tail = (IF E THEN <<item, End>> ELSE <<item>>) /\ (i + 1) - 1 = i /\ i + 1 # 1
  OBVIOUS
<1>4. tail \in Seq(Y) /\ Len(tail) = (IF E THEN 2 ELSE 1) /\ tail[1] = item /\ (E => tail[2] = End)
  <2> HIDE DEF E
  <2> DEFINE e == End
  <2>1. e \in Y /\ item \in Y /\ tail = IF E THEN <<item, e>> ELSE <<item>>
    BY <1>3
  <2> HIDE DEF e
  <2>2. CASE E
    <3>1. /\ <<item, e>> \in Seq(Y) /\ Len(<<item, e>>) = 2
          /\ <<item, e>>[1] = item /\ <<item, e>>[2] = e
      BY ONLY <2>1
    <3>2. tail = <<item, e>>
      BY ONLY <2>1, <2>2
    <3>3. tail \in Seq(Y) /\ Len(tail) = 2 /\ tail[1] = item /\ tail[2] = e
      BY ONLY <3>1, <3>2
    <3> QED BY ONLY <2>2, <3>3 DEF e
  <2>3. CASE ~E
    <3>1. <<item>> \in Seq(Y) /\ Len(<<item>>) = 1 /\ <<item>>[1] = item
      BY ONLY <2>1
    <3>2. tail = <<item>>
      BY ONLY <2>1, <2>3
    <3>3. tail \in Seq(Y) /\ Len(tail) = 1 /\ tail[1] = item
      BY ONLY <3>1, <3>2
    <3> QED BY ONLY <2>3, <3>3
  <2> QED BY <2>2, <2>3 DEF e
<1> HIDE DEF k, n, E, k2, n2
<1>5. /\ r \in Seq(Seq(Y)) /\ Len(r) = k /\ n \in Nat /\ Len(r[k]) = n + Len(tail)
      /\ \A m \in 1..Len(tail) : r[k][n + m] = tail[m]
  <2>1. GrownAs(Y, q, tail, k, r, n)
    BY <1>1, <1>4, GrownSub
  <2> QED BY <2>1 DEF GrownAs
<1>6. /\ k \in 1..Len(r) /\ n + 1 \in 1..Len(r[k]) /\ r[k][n + 1] = item
      /\ E => Len(r[k]) = n + 2 /\ r[k][n + 2] = End
  <2>1. CASE E
    <3>1. Len(tail) = 2 /\ tail[1] = item /\ tail[2] = End /\ 1 \in 1..Len(tail) /\ 2 \in 1..Len(tail)
      BY <1>4, <2>1
    <3>2. r[k][n + 1] = item /\ r[k][n + 2] = End
      BY <1>5, <3>1
    <3> QED BY <1>1, <1>5, <3>1, <3>2
  <2>2. CASE ~E
    <3>1. Len(tail) = 1 /\ tail[1] = item /\ 1 \in 1..Len(tail)
      BY <1>4, <2>2
    <3>2. r[k][n + 1] = item
      BY <1>5, <3>1
    <3> QED BY <1>1, <1>5, <2>2, <3>1, <3>2
  <2> QED BY <2>1, <2>2
<1>7. InSub(p, w, r, J, s, i)
  BY <1>6 DEF k, n, E, InSub
<1>8. IF E THEN Len(r) + 1 = k2 ELSE Len(r) = k2 /\ Len(r[k2]) = n2
  BY <1>2, <1>4, <1>5
<1>9. Filled(p, w, r, s, i + 1)
  BY <1>3, <1>8 DEF k2, n2, E, Filled
<1> QED BY <1>5, <1>7, <1>9 DEF k

\* What WriteCtu does, in terms of places.
Wrote(s, i, c, b, dqp, item, tail, q) ==
  /\ b.qp = IF i = 1 THEN SliceQp ELSE wr.qp
  /\ b.ctx = Taken(pic, coding.wpp, c, IF i = 1 THEN <<>> ELSE wr.ctx, wr.sync)
  /\ b.sub = IF i = 1 THEN 1 ELSE wr.sub
  /\ dqp = IF cu[c].coded THEN QpDelta(PredictQP(c, b.qp, cu), cu[c].qp) ELSE 0
  /\ item = [ctu |-> c, coded |-> cu[c].coded, dqp |-> dqp, ctx |-> b.ctx]
  /\ tail = IF Ends(pic, coding.wpp, s, i) THEN <<item, End>> ELSE <<item>>
  /\ q = Grown(out[s], b.sub, tail)
  /\ out' = [out EXCEPT ![s] = q]
  /\ wr'.qp = IF cu[c].coded THEN cu[c].qp ELSE PredictQP(c, b.qp, cu)
  /\ wr'.ctx = Append(b.ctx, [ctu |-> c, coded |-> cu[c].coded, dqp |-> dqp])
  /\ wr'.sync = IF IsLeft(pic, c) /\ coding.wpp THEN wr'.ctx ELSE wr.sync
  /\ wr'.sub = IF Ends(pic, coding.wpp, s, i) THEN b.sub + 1 ELSE b.sub
  /\ wr' = [qp |-> wr'.qp, ctx |-> wr'.ctx, sync |-> wr'.sync, plt |-> wr'.plt, sub |-> wr'.sub]

LEMMA WriteCtuDoes ==
  ASSUME WriteCtu, pic \in Layouts, AtOk(pic, at), coding.wpp \in BOOLEAN,
         wr = [qp |-> wr.qp, ctx |-> wr.ctx, sync |-> wr.sync, plt |-> wr.plt, sub |-> wr.sub],
         NEW s, s = at.slice, NEW i, i = at.idx, NEW c, c = At(pic, s, i)
  PROVE  \E b, dqp, item, tail, q : Wrote(s, i, c, b, dqp, item, tail, q)
<1> DEFINE b == WriteBefore(Ctu)
           pred == PredictQP(Ctu, b.qp, cu)
           dqp == IF cu[Ctu].coded THEN QpDelta(pred, cu[Ctu].qp) ELSE 0
           ctx == Append(b.ctx, [ctu |-> Ctu, coded |-> cu[Ctu].coded, dqp |-> dqp])
           item == [ctu |-> Ctu, coded |-> cu[Ctu].coded, dqp |-> dqp, ctx |-> b.ctx]
           tail == IF EndsSubstream THEN <<item, End>> ELSE <<item>>
           kept == IF b.sub > Len(out[at.slice]) THEN Append(out[at.slice], <<>>) ELSE out[at.slice]
           q == Grown(out[at.slice], b.sub, tail)
           sync == Left(Ctu) /\ coding.wpp
<1>1. s \in Slices(pic) /\ i \in Places(pic, s) /\ i \in Nat /\ i >= 1 /\ i <= Len(pic.slices[s])
      /\ Len(pic.slices[s]) \in Nat
  <2>1. s \in Slices(pic) /\ i \in Places(pic, s)
    BY DEF AtOk
  <2>2. Len(pic.slices[s]) \in Nat
    BY <2>1, LayoutTyped
  <2> QED BY <2>1, <2>2 DEF Places
<1>2. Ctu = c /\ Slice = pic.slices[s]
  BY DEF Ctu, Slice, At
<1>3. EndsSubstream <=> Ends(pic, coding.wpp, s, i)
  <2>1. CASE i = Len(pic.slices[s])
    BY <1>2, <2>1 DEF EndsSubstream, Ends
  <2>2. CASE i # Len(pic.slices[s])
    <3> DEFINE d == At(pic, s, i + 1)
    <3>1. EndsSubstream <=> TileIdx(pic, d) # TileIdx(pic, c) \/ (coding.wpp /\ IsLeft(pic, d))
      BY <1>2, <2>2, Restated DEF EndsSubstream, At
    <3>2. i < Len(pic.slices[s])
      BY <1>1, <2>2
    <3>3. Ends(pic, coding.wpp, s, i) <=>
            TileIdx(pic, d) # TileIdx(pic, c) \/ (coding.wpp /\ IsLeft(pic, d))
      BY <1>1, <3>2, GoesOnAt
    <3> QED BY <3>1, <3>3
  <2> QED BY <2>1, <2>2
<1>4. /\ wr' = [qp   |-> IF cu[Ctu].coded THEN cu[Ctu].qp ELSE pred,
                ctx  |-> ctx,
                sync |-> IF sync THEN ctx ELSE b.sync,
                plt  |-> IF sync THEN est'.plt ELSE b.plt,
                sub  |-> IF EndsSubstream THEN b.sub + 1 ELSE b.sub]
      /\ out' = [out EXCEPT ![at.slice] = [kept EXCEPT ![b.sub] = @ \o tail]]
  BY DEF WriteCtu
<1>5. /\ b.qp = IF i = 1 THEN SliceQp ELSE wr.qp
      /\ b.ctx = WriteContexts(c)
      /\ b.sub = IF i = 1 THEN 1 ELSE wr.sub
      /\ b.sync = wr.sync
  <2> DEFINE x == WriteContexts(c)
  <2>1. b = [wr EXCEPT !.qp = IF i = 1 THEN SliceQp ELSE wr.qp, !.ctx = x,
                       !.sub = IF i = 1 THEN 1 ELSE wr.sub]
    BY <1>2 DEF WriteBefore
  <2> HIDE DEF b, x
  <2> QED BY <2>1 DEF x
<1>6. WriteContexts(c) = Taken(pic, coding.wpp, c, IF i = 1 THEN <<>> ELSE wr.ctx, wr.sync)
  BY Restated DEF WriteContexts, Taken
<1>7. sync <=> IsLeft(pic, c) /\ coding.wpp
  BY <1>2, Restated
<1>8. [kept EXCEPT ![b.sub] = @ \o tail] = q
  BY DEF Grown
<1>9. tail = IF Ends(pic, coding.wpp, s, i) THEN <<item, End>> ELSE <<item>>
  BY <1>3
<1>10. item = [ctu |-> c, coded |-> cu[c].coded, dqp |-> dqp, ctx |-> b.ctx]
       /\ dqp = (IF cu[c].coded THEN QpDelta(PredictQP(c, b.qp, cu), cu[c].qp) ELSE 0)
       /\ ctx = Append(b.ctx, [ctu |-> c, coded |-> cu[c].coded, dqp |-> dqp])
       /\ q = Grown(out[s], b.sub, tail) /\ pred = PredictQP(c, b.qp, cu)
  BY <1>2
<1> HIDE DEF b, pred, dqp, ctx, item, tail, kept, q, sync
<1>11. /\ wr'.qp = IF cu[Ctu].coded THEN cu[Ctu].qp ELSE pred
       /\ wr'.ctx = ctx
       /\ wr'.sync = IF sync THEN ctx ELSE b.sync
       /\ wr'.sub = IF EndsSubstream THEN b.sub + 1 ELSE b.sub
       /\ wr' = [qp |-> wr'.qp, ctx |-> wr'.ctx, sync |-> wr'.sync, plt |-> wr'.plt, sub |-> wr'.sub]
  BY <1>4
<1>12. Wrote(s, i, c, b, dqp, item, tail, q)
  BY <1>2, <1>3, <1>4, <1>5, <1>6, <1>7, <1>8, <1>9, <1>10, <1>11, Zenon DEF Wrote
<1> QED BY <1>12

LEMMA WriteKeeps ==
  ASSUME WriteCtu, pic \in Layouts, AtOk(pic, at), coding.wpp \in BOOLEAN,
         SearchOk(pic, coding.wpp, at, cu, est, estPlt),
         NEW I, NEW X, WriteOk(pic, coding.wpp, at, cu, wr, out, I, X)
  PROVE  \E J, Y : WriteOk(pic, coding.wpp, at', cu, wr', out', J, Y)
<1> DEFINE s == at.slice  i == at.idx  c == At(pic, s, i)  w == coding.wpp  L == Len(pic.slices[s])
<1>1. at.pass = "write" /\ at' = NextCtu
  BY DEF WriteCtu
<1>2. /\ s \in Slices(pic) /\ i \in Places(pic, s) /\ c \in Ctus(pic) /\ i \in Nat /\ i >= 1 /\ i <= L
      /\ L \in Nat
  <2>1. s \in Slices(pic) /\ i \in Places(pic, s)
    BY DEF AtOk
  <2>2. c \in Ctus(pic) /\ Len(pic.slices[s]) \in Nat
    BY <2>1, LayoutTyped
  <2> QED BY <2>1, <2>2 DEF Places
<1>3. /\ out \in [Slices(pic) -> Seq(Seq(X))] /\ I = [d \in Ctus(pic) |-> I[d]]
      /\ WriterOk(pic, w, cu, I, wr, out[s], s, i)
      /\ wr = [qp |-> wr.qp, ctx |-> wr.ctx, sync |-> wr.sync, plt |-> wr.plt, sub |-> wr.sub]
  BY <1>1 DEF WriteOk
<1>4. PICK b, dqp, item, tail, q : Wrote(s, i, c, b, dqp, item, tail, q)
  BY <1>3, WriteCtuDoes
<1> DEFINE J == [I EXCEPT ![c] = item]
           Y == X \cup {item, End}
<1>5. /\ J = [d \in Ctus(pic) |-> J[d]] /\ J[c] = item
      /\ \A d \in Ctus(pic) : d # c => J[d] = I[d]
  <2> HIDE DEF c
  <2> QED BY <1>2, <1>3
<1>6. item \in Y /\ End \in Y /\ X \subseteq Y
  OBVIOUS
<1> HIDE DEF J, Y
<1>7. \A t \in Slices(pic) : out[t] \in Seq(Seq(Y))
  BY <1>3, <1>6, SeqGrow
<1>8. \A t \in Slices(pic) : \A j \in Places(pic, t) : t # s \/ j # i => J[At(pic, t, j)] = I[At(pic, t, j)]
  <2> SUFFICES ASSUME NEW t \in Slices(pic), NEW j \in Places(pic, t), t # s \/ j # i
               PROVE  J[At(pic, t, j)] = I[At(pic, t, j)]
    OBVIOUS
  <2>1. At(pic, t, j) \in Ctus(pic)
    BY LayoutTyped
  <2>2. At(pic, t, j) # c
    BY <1>2, PlaceUnique
  <2> QED BY <1>5, <2>1, <2>2
<1>9. b.sub = Sub(pic, w, s, i)
  <2>1. i = 1 => Sub(pic, w, s, i) = 1
    BY SubFirst
  <2>2. i > 1 => wr.sub = Sub(pic, w, s, i)
    BY <1>3 DEF WriterOk
  <2>3. b.sub = IF i = 1 THEN 1 ELSE wr.sub
    <3> HIDE DEF c, i, s
    <3> QED BY ONLY <1>4, Zenon DEF Wrote
  <2> HIDE DEF i, s, w
  <2> QED BY <1>2, <2>1, <2>2, <2>3
\* The sub-streams of the slice.
<1>10. /\ q \in Seq(Seq(Y)) /\ InSub(pic, w, q, J, s, i)
       /\ Len(q) = Sub(pic, w, s, i) /\ Filled(pic, w, q, s, i + 1)
  <2>1. tail = (IF Ends(pic, w, s, i) THEN <<item, End>> ELSE <<item>>) /\ q = Grown(out[s], b.sub, tail)
    BY <1>4 DEF Wrote
  <2>2. Filled(pic, w, out[s], s, i) /\ out[s] \in Seq(Seq(Y)) /\ q = Grown(out[s], Sub(pic, w, s, i), tail)
    BY <1>2, <1>3, <1>7, <1>9, <2>1 DEF WriterOk
  <2>3. J[At(pic, s, i)] = item
    BY <1>5
  <2> HIDE DEF s, i, c, w
  <2> QED BY <1>2, <1>6, <2>1, <2>2, <2>3, InSubNew
<1>11. \A j \in 1..(i - 1) : j \in Places(pic, s) /\ Passed(at, "write", s, j)
  <2> TAKE j \in 1..(i - 1)
  <2>1. j \in Places(pic, s) /\ j < i
    BY <1>2 DEF Places
  <2> QED BY <1>1, <2>1 DEF Passed
<1>12. \A j \in 1..(i - 1) : InSub(pic, w, q, J, s, j)
  <2> TAKE j \in 1..(i - 1)
  <2>1. InSub(pic, w, out[s], I, s, j) /\ J[At(pic, s, j)] = I[At(pic, s, j)] /\ j \in Nat /\ j >= 1 /\ j < i
    <3>1. j \in Nat /\ j >= 1 /\ j < i /\ j # i /\ j \in Places(pic, s) /\ Passed(at, "write", s, j)
      BY <1>2, <1>11
    <3>2. InSub(pic, w, out[s], I, s, j)
      BY <1>2, <3>1 DEF WriteOk
    <3> QED BY <1>2, <1>8, <3>1, <3>2
  <2>2. Filled(pic, w, out[s], s, i) /\ out[s] \in Seq(Seq(Y)) /\ q = Grown(out[s], Sub(pic, w, s, i), tail)
    BY <1>2, <1>3, <1>4, <1>7, <1>9 DEF WriterOk, Wrote
  <2>3. tail \in Seq(Y)
    <3>1. tail = <<item, End>> \/ tail = <<item>>
      BY <1>4 DEF Wrote
    <3>2. <<item, End>> \in Seq(Y) /\ <<item>> \in Seq(Y)
      BY ONLY <1>6
    <3> QED BY <3>1, <3>2
  <2> HIDE DEF s, i, c, w
  <2>4. InSub(pic, w, Grown(out[s], Sub(pic, w, s, i), tail), J, s, j)
    BY <1>2, <2>1, <2>2, <2>3, InSubStays
  <2> QED BY <2>2, <2>4
<1>13. out' \in [Slices(pic) -> Seq(Seq(Y))] /\ out'[s] = q /\ \A t \in Slices(pic) : t # s => out'[t] = out[t]
  <2>1. out' = [out EXCEPT ![s] = q]
    BY <1>4 DEF Wrote
  <2> DEFINE T == Seq(Seq(Y))
  <2>2. q \in T /\ out = [t \in Slices(pic) |-> out[t]] /\ \A t \in Slices(pic) : out[t] \in T
    BY <1>3, <1>7, <1>10
  <2> HIDE DEF T, s
  <2>3. out' = [t \in Slices(pic) |-> IF t = s THEN q ELSE out[t]]
    BY <2>1, <2>2
  <2>4. out' \in [Slices(pic) -> T] /\ out'[s] = q /\ \A t \in Slices(pic) : t # s => out'[t] = out[t]
    BY <1>2, <2>2, <2>3
  <2> QED BY <2>4 DEF T
\* What was written for the CTU.
<1>14. Carried(pic, w, Ctxs(pic, I), s, i, b.ctx)
  <2> DEFINE cur == IF i = 1 THEN <<>> ELSE wr.ctx
  <2>1. Holds(pic, w, Ctxs(pic, I), s, i, cur, wr.sync)
    BY <1>3 DEF WriterOk, Holds
  <2>2. b.ctx = Taken(pic, w, c, cur, wr.sync)
    BY <1>4 DEF Wrote
  <2> HIDE DEF cur
  <2> QED BY <1>2, <2>1, <2>2, TakenCarried
<1>15. /\ item.ctu = c /\ item.coded = cu[c].coded /\ item.dqp = dqp /\ item.ctx = b.ctx
       /\ dqp = IF cu[c].coded THEN QpDelta(PredictQP(c, b.qp, cu), cu[c].qp) ELSE 0
       /\ b.qp = IF i = 1 THEN SliceQp ELSE wr.qp
  <2>1. item = [ctu |-> c, coded |-> cu[c].coded, dqp |-> dqp, ctx |-> b.ctx]
        /\ dqp = (IF cu[c].coded THEN QpDelta(PredictQP(c, b.qp, cu), cu[c].qp) ELSE 0)
        /\ b.qp = (IF i = 1 THEN SliceQp ELSE wr.qp)
    BY <1>4 DEF Wrote
  <2> DEFINE d == IF cu[c].coded THEN QpDelta(PredictQP(c, b.qp, cu), cu[c].qp) ELSE 0
             x == IF i = 1 THEN SliceQp ELSE wr.qp
  <2>2. item = [ctu |-> c, coded |-> cu[c].coded, dqp |-> dqp, ctx |-> b.ctx] /\ dqp = d /\ b.qp = x
    BY <2>1
  <2> HIDE DEF c, d, x
  <2>3. item.ctu = c /\ item.coded = cu[c].coded /\ item.dqp = dqp /\ item.ctx = b.ctx
    BY <2>2
  <2> QED BY <2>2, <2>3 DEF d, x
<1>16. InFirst(pic, s, i) => PredictQP(c, b.qp, cu) = Predicted(pic, w, cu, s, i)
  <2> SUFFICES ASSUME InFirst(pic, s, i)
               PROVE  PredictQP(c, b.qp, cu) = Predicted(pic, w, cu, s, i)
    OBVIOUS
  <2>1. i > 1 => InFirst(pic, s, i - 1)
    <3> SUFFICES ASSUME i > 1
                 PROVE  InFirst(pic, s, i - 1)
      OBVIOUS
    <3> DEFINE k == i - 1
    <3>1. k \in Places(pic, s) /\ k < L /\ k + 1 = i
      BY <1>2 DEF Places
    <3> HIDE DEF k, i
    <3> QED BY <1>2, <3>1, GoesOnAt DEF k
  <2>2. b.qp = IF i = 1 THEN SliceQp ELSE cu[At(pic, s, i - 1)].qp
    BY <1>2, <1>3, <1>15, <2>1 DEF WriterOk
  <2> HIDE DEF s, i, w
  <2> QED BY <1>2, <2>2, WritePredicts DEF w
<1>17. \A j \in 1..(i - 1) : Ctxs(pic, J)[At(pic, s, j)] = Ctxs(pic, I)[At(pic, s, j)]
  <2> TAKE j \in 1..(i - 1)
  <2>1. j \in Places(pic, s) /\ j # i
    BY <1>2, <1>11
  <2>2. J[At(pic, s, j)] = I[At(pic, s, j)] /\ At(pic, s, j) \in Ctus(pic)
    BY <1>2, <1>8, <2>1, LayoutTyped
  <2> QED BY <2>2 DEF Ctxs
<1>18. ItemOk(pic, w, cu, J, s, i)
  <2>1. Carried(pic, w, Ctxs(pic, J), s, i, b.ctx)
    BY <1>2, <1>14, <1>17, CarriedStays
  <2>2. i = 1 => b.ctx = <<>>
    <3>1. i = 1 => ~Syncs(pic, w, c)
      BY <1>2, FirstPlace DEF Syncs
    <3> QED BY <1>4, <3>1 DEF Wrote, Taken
  <2> QED BY <1>5, <1>15, <1>16, <2>1, <2>2 DEF ItemOk
<1>19. \A t \in Slices(pic) : \A j \in Places(pic, t) :
         Passed(at', "write", t, j) <=> Passed(at, "write", t, j) \/ (t = s /\ j = i)
  BY <1>1, NextPlace DEF Passes
<1>20. ASSUME NEW t \in Slices(pic), NEW j \in Places(pic, t), Passed(at', "write", t, j)
       PROVE  ItemOk(pic, w, cu, J, t, j) /\ InSub(pic, w, out'[t], J, t, j)
  <2>1. CASE t = s /\ j = i
    BY <1>10, <1>13, <1>18, <2>1
  <2>2. CASE ~(t = s /\ j = i)
    <3>1. ItemOk(pic, w, cu, I, t, j) /\ InSub(pic, w, out[t], I, t, j) /\ Passed(at, "write", t, j)
      BY <1>19, <1>20, <2>2 DEF WriteOk
    <3>2. t < s \/ (t = s /\ j < i)
      BY <1>1, <3>1 DEF Passed
    <3>3. j \in Nat /\ j >= 1 /\ j <= Len(pic.slices[t]) /\ Len(pic.slices[t]) \in Nat /\ t \in Nat /\ s \in Nat
      BY <1>2, LayoutTyped DEF Places, Slices
    <3>4. \A k \in 1..j : J[At(pic, t, k)] = I[At(pic, t, k)]
      <4> TAKE k \in 1..j
      <4>1. k \in Places(pic, t) /\ (t # s \/ k # i)
        BY <1>2, <3>2, <3>3 DEF Places
      <4> QED BY <1>8, <4>1
    <3>5. ItemOk(pic, w, cu, J, t, j)
      BY <3>1, <3>4, ItemOkStays
    <3>6. InSub(pic, w, out'[t], J, t, j)
      <4>1. CASE t = s
        <5>1. j \in 1..(i - 1)
          BY <1>2, <3>2, <3>3, <4>1
        <5> QED BY <1>12, <1>13, <4>1, <5>1
      <4>2. CASE t # s
        <5>1. out'[t] = out[t] /\ J[At(pic, t, j)] = I[At(pic, t, j)]
          BY <1>8, <1>13, <4>2
        <5> QED BY <3>1, <5>1 DEF InSub
      <4> QED BY <4>1, <4>2
    <3> QED BY <3>5, <3>6
  <2> QED BY <2>1, <2>2
<1>21. ASSUME NEW t \in Slices(pic)
       PROVE  /\ ~Passed(at', "write", t, 1) => out'[t] = <<>>
              /\ Passed(at', "write", t, Len(pic.slices[t])) =>
                   Len(out'[t]) = Sub(pic, w, t, Len(pic.slices[t]))
  <2>1. 1 \in Places(pic, t) /\ Len(pic.slices[t]) \in Places(pic, t)
    BY LayoutTyped DEF Places
  <2>2. CASE t # s
    <3>1. Passed(at', "write", t, 1) <=> Passed(at, "write", t, 1)
      BY <1>19, <2>1, <2>2
    <3>2. Passed(at', "write", t, Len(pic.slices[t])) <=> Passed(at, "write", t, Len(pic.slices[t]))
      BY <1>19, <2>1, <2>2
    <3> QED BY <1>13, <2>2, <3>1, <3>2 DEF WriteOk
  <2>3. CASE t = s
    <3>1. Passed(at', "write", s, 1)
      <4>1. i = 1 \/ 1 \in 1..(i - 1)
        BY <1>2
      <4> QED BY <1>2, <1>11, <1>19, <2>1, <2>3, <4>1
    <3>2. Passed(at', "write", s, L) => i = L
      <4>1. ~Passed(at, "write", s, L)
        <5>1. ~(L < i) /\ ~(s < s)
          BY <1>2 DEF Slices
        <5> QED BY <1>1, <5>1 DEF Passed
      <4> QED BY <1>2, <1>19, <2>1, <2>3, <4>1
    <3> QED BY <1>10, <1>13, <2>3, <3>1, <3>2
  <2> QED BY <2>2, <2>3
\* The writer before the next CTU.
<1>22. ASSUME at'.pass = "write"
       PROVE  WriterOk(pic, w, cu, J, wr', out'[at'.slice], at'.slice, at'.idx)
  <2>1. CASE i < L
    <3>1. at'.slice = s /\ at'.idx = i + 1 /\ (i + 1) - 1 = i
      BY <1>1, <1>2, <2>1, NextPlace
    <3>2. /\ wr'.ctx = Append(b.ctx, [ctu |-> c, coded |-> cu[c].coded, dqp |-> dqp])
          /\ wr'.sync = IF IsLeft(pic, c) /\ w THEN wr'.ctx ELSE wr.sync
          /\ wr'.sub = IF Ends(pic, w, s, i) THEN b.sub + 1 ELSE b.sub
          /\ wr'.qp = IF cu[c].coded THEN cu[c].qp ELSE PredictQP(c, b.qp, cu)
      BY <1>4 DEF Wrote
    <3>3. Ctxs(pic, J)[c] = wr'.ctx
      BY <1>2, <1>5, <1>15, <3>2 DEF Ctxs
    <3>4. Holds(pic, w, Ctxs(pic, J), s, i + 1, wr'.ctx, wr'.sync)
      <4>1. Holds(pic, w, Ctxs(pic, I), s, i, wr.ctx, wr.sync)
        BY <1>3 DEF WriterOk
      <4>2. w => wr'.sync = IF IsLeft(pic, c) THEN wr'.ctx ELSE wr.sync
        BY <3>2
      <4> QED BY <1>2, <1>17, <3>3, <4>1, <4>2, HoldsOn
    <3>5. wr'.sub = Sub(pic, w, s, i + 1)
      BY <1>2, <1>9, <3>2, SubStep
    <3>6. InFirst(pic, s, i) => wr'.qp = cu[c].qp
      <4>1. CuOk(pic, w, cu, s, i)
        BY <1>1, <1>2 DEF SearchOk, Passed
      <4> QED BY <1>16, <3>2, <4>1 DEF CuOk
    <3> QED BY <1>10, <1>13, <3>1, <3>4, <3>5, <3>6 DEF WriterOk
  <2>2. CASE ~(i < L)
    <3>1. at'.slice = s + 1 /\ at'.idx = 1 /\ at'.slice \in Slices(pic)
      <4>1. at'.idx = 1 /\ (at'.slice = s + 1 \/ at'.pass = After("write"))
        BY <1>1, <2>2, NextPlace
      <4>2. After("write") = "read"
        BY DEF After
      <4> QED BY <1>1, <1>22, <4>1, <4>2, NextPlace DEF AtOk
    <3>2. ~Passed(at', "write", at'.slice, 1)
      <4>1. ~(1 < 1) /\ ~(at'.slice < at'.slice)
        BY <3>1 DEF Slices
      <4> QED BY <1>22, <3>1, <4>1 DEF Passed
    <3>3. out'[at'.slice] = <<>>
      BY <1>21, <3>1, <3>2
    <3>4. Filled(pic, w, out'[at'.slice], at'.slice, at'.idx)
      BY <3>1, <3>3, SubFirst DEF Filled
    <3> QED BY <3>1, <3>4 DEF WriterOk, Holds
  <2> QED BY <2>1, <2>2
<1>23. wr' = [qp |-> wr'.qp, ctx |-> wr'.ctx, sync |-> wr'.sync, plt |-> wr'.plt, sub |-> wr'.sub]
  BY <1>4 DEF Wrote
<1>24. WriteOk(pic, w, at', cu, wr', out', J, Y)
  BY <1>5, <1>13, <1>20, <1>21, <1>22, <1>23 DEF WriteOk
<1> QED BY <1>24

(* -------------------------- the sub-streams in one piece -------------------------- *)

\* A set of numbers that is not empty has a least one.
LEMMA LeastNumber ==
  ASSUME NEW T, T \subseteq Nat, T # {}
  PROVE  \E least \in T : \A n \in T : least <= n
<1> DEFINE less == OpToRel(<, Nat)
<1>1. IsWellFoundedOn(less, Nat)
  BY NatLessThanWellFounded, Zenon
<1>2. \A x, y \in Nat : <<y, x>> \in less <=> y < x
  BY DEF OpToRel
<1> HIDE DEF less
<1>3. PICK least \in T : \A y \in T : ~ (<<y, least>> \in less)
  BY <1>1, WFMin
<1>4. ASSUME NEW n \in T PROVE least <= n
  <2>1. least \in Nat /\ n \in Nat /\ ~ (<<n, least>> \in less)
    BY <1>3
  <2>2. ~(n < least)
    BY <2>1, <1>2
  <2> QED BY <2>1, <2>2
<1> QED BY <1>4

\* A set that holds 0 and every successor of its numbers holds them all.
LEMMA SetInduction ==
  ASSUME NEW S, 0 \in S, \A n \in Nat : n \in S => n + 1 \in S
  PROVE  Nat \subseteq S
<1> SUFFICES ASSUME NEW k \in Nat, k \notin S PROVE FALSE
  OBVIOUS
<1> DEFINE T == Nat \ S
<1>1. PICK least \in T : \A n \in T : least <= n
  <2>1. T \subseteq Nat /\ T # {}
    OBVIOUS
  <2> HIDE DEF T
  <2> QED BY <2>1, LeastNumber
<1>2. least \in Nat /\ least # 0
  OBVIOUS
<1>3. least - 1 \in Nat /\ least - 1 \notin T
  BY <1>1, <1>2
<1>4. least - 1 \in S
  BY <1>3
<1> QED BY <1>2, <1>3, <1>4

\* The first n of the sub-streams q, put together as FlattenSeq does.
Chain(q, f, n) == f = [i \in 1..n |-> IF i = 1 THEN q[i] ELSE f[i - 1] \o q[i]]

LEMMA ChainExists ==
  ASSUME NEW q, NEW N \in Nat
  PROVE  \E f : Chain(q, f, N)
<1> DEFINE S == {n \in Nat : \E f : Chain(q, f, n)}
<1>1. 0 \in S
  <2> DEFINE f == [i \in 1..0 |-> IF i = 1 THEN q[i] ELSE <<>> \o q[i]]
  <2>1. Chain(q, f, 0)
    BY DEF Chain
  <2> QED BY <2>1
<1>2. \A n \in Nat : n \in S => n + 1 \in S
  <2> SUFFICES ASSUME NEW n \in Nat, n \in S
               PROVE  \E g : Chain(q, g, n + 1)
    OBVIOUS
  <2>1. PICK f : Chain(q, f, n)
    OBVIOUS
  <2> DEFINE v == IF n = 0 THEN q[1] ELSE f[n] \o q[n + 1]
             g == [i \in 1..(n + 1) |-> IF i = n + 1 THEN v ELSE f[i]]
  <2>2. \A i \in 1..n : f[i] = IF i = 1 THEN q[i] ELSE f[i - 1] \o q[i]
    BY <2>1 DEF Chain
  <2>3. /\ \A i \in 1..n : g[i] = f[i]
        /\ g[n + 1] = v
    <3> HIDE DEF v
    <3> QED OBVIOUS
  <2>4. ASSUME NEW i \in 1..(n + 1)
        PROVE  g[i] = IF i = 1 THEN q[i] ELSE g[i - 1] \o q[i]
    <3>1. CASE i = n + 1
      <4>1. CASE n = 0
        BY <2>3, <3>1, <4>1
      <4>2. CASE n # 0
        <5>1. g[n] = f[n] /\ (n + 1) - 1 = n /\ n + 1 # 1
          BY <2>3, <4>2
        <5> QED BY <2>3, <3>1, <4>2, <5>1
      <4> QED BY <4>1, <4>2
    <3>2. CASE i # n + 1
      <4>1. i \in 1..n /\ (i # 1 => i - 1 \in 1..n)
        BY <3>2
      <4> QED BY <2>2, <2>3, <4>1
    <3> QED BY <3>1, <3>2
  <2>5. g = [i \in 1..(n + 1) |-> g[i]]
    OBVIOUS
  <2> HIDE DEF g
  <2>6. g = [i \in 1..(n + 1) |-> IF i = 1 THEN q[i] ELSE g[i - 1] \o q[i]]
    BY <2>4, <2>5
  <2>7. Chain(q, g, n + 1)
    BY <2>6 DEF Chain
  <2> QED BY <2>7
<1> HIDE DEF S
<1>3. Nat \subseteq S
  BY <1>1, <1>2, SetInduction
<1> QED BY <1>3 DEF S

\* o says behind how many items each of the sub-streams begins.
IsOffsets(q, o) ==
  /\ o[1] = 0 /\ o[Len(q) + 1] = Len(FlattenSeq(q))
  /\ \A k \in 1..Len(q) : /\ o[k] \in Nat /\ o[k + 1] = o[k] + Len(q[k])
                          /\ o[k + 1] <= Len(FlattenSeq(q))
                          /\ \A m \in 1..Len(q[k]) : FlattenSeq(q)[o[k] + m] = q[k][m]

LEMMA OffsetsExist ==
  ASSUME NEW X, NEW q \in Seq(Seq(X)), Len(q) >= 1
  PROVE  \E o : IsOffsets(q, o)
<1> DEFINE N == Len(q)
           f == CHOOSE flatten : flatten = [i \in 1..Len(q) |->
                                   IF i = 1 THEN q[i] ELSE flatten[i - 1] \o q[i]]
           T == Seq(X)
<1>1. N \in Nat /\ N >= 1 /\ \A k \in 1..N : q[k] \in T
  OBVIOUS
<1>2. FlattenSeq(q) = f[N]
  BY <1>1 DEF FlattenSeq
<1>3. Chain(q, f, N)
  BY <1>1, ChainExists, Zenon DEF Chain
<1> HIDE DEF f
<1>4. \A i \in 1..N : f[i] = IF i = 1 THEN q[i] ELSE f[i - 1] \o q[i]
  BY <1>3 DEF Chain
<1> HIDE DEF N
<1> DEFINE o == [k \in 1..(N + 1) |-> IF k = 1 THEN 0 ELSE Len(f[k - 1])]
           Good(n) == /\ f[n] \in Seq(X) /\ Len(f[n]) = o[n + 1]
                      /\ \A k \in 1..n : /\ o[k] \in Nat /\ o[k + 1] = o[k] + Len(q[k])
                                         /\ o[k + 1] <= Len(f[n])
                                         /\ \A m \in 1..Len(q[k]) : f[n][o[k] + m] = q[k][m]
           S == {n \in Nat : n + 1 <= N => Good(n + 1)}
<1>5. o[1] = 0 /\ \A k \in 1..N : o[k + 1] = Len(f[k])
  <2>1. \A k \in 1..N : k + 1 \in 1..(N + 1) /\ k + 1 # 1 /\ (k + 1) - 1 = k
    BY <1>1
  <2> QED BY <1>1, <2>1
<1> HIDE DEF o, Good
<1>6. 0 \in S
  <2>1. f[1] = q[1] /\ q[1] \in Seq(X) /\ 1 \in 1..N
    BY <1>1, <1>4
  <2>2. Len(q[1]) \in Nat /\ o[1 + 1] = Len(q[1])
    BY <1>5, <2>1
  <2>3. \A m \in 1..Len(q[1]) : 0 + m = m
    BY <2>2
  <2>4. Good(1)
    BY <1>5, <2>1, <2>2, <2>3 DEF Good
  <2> QED BY <2>4
<1>7. \A n \in Nat : n \in S => n + 1 \in S
  <2> SUFFICES ASSUME NEW n \in Nat, n \in S, (n + 1) + 1 <= N
               PROVE  Good((n + 1) + 1)
    OBVIOUS
  <2> DEFINE a == n + 1  b == a + 1
  <2>1. a \in 1..N /\ b \in 1..N /\ b # 1 /\ b - 1 = a /\ a \in Nat
    BY <1>1
  <2>2. Good(a)
    <3>1. n + 1 <= N
      BY <1>1
    <3> QED BY <3>1
  <2> HIDE DEF a, b
  <2>3. f[b] = f[a] \o q[b]
    BY <1>4, <2>1
  <2>4. f[a] \in Seq(X) /\ q[b] \in Seq(X) /\ Len(f[a]) \in Nat /\ Len(q[b]) \in Nat
    <3>1. f[a] \in Seq(X) /\ q[b] \in Seq(X)
      BY <1>1, <2>1, <2>2 DEF Good
    <3> QED BY <3>1
  <2> DEFINE u == f[a]  v == q[b]
  <2>5. /\ f[b] \in Seq(X) /\ Len(f[b]) = Len(u) + Len(v)
        /\ \A m \in 1..Len(u) : f[b][m] = u[m]
        /\ \A m \in 1..Len(v) : f[b][Len(u) + m] = v[m]
    <3>1. f[b] = u \o v /\ u \in Seq(X) /\ v \in Seq(X)
      BY <2>3, <2>4
    <3> HIDE DEF u, v
    <3> DEFINE g == f[b]
    <3>2. g = u \o v
      BY <3>1
    <3> HIDE DEF g
    <3>3. g \in Seq(X) /\ Len(g) = Len(u) + Len(v)
      BY <3>1, <3>2, ConcatProperties
    <3>4. \A m \in 1..Len(u) : g[m] = u[m]
      BY <3>1, <3>2
    <3>5. \A m \in 1..Len(v) : g[Len(u) + m] = v[m]
      BY <3>1, <3>2
    <3> QED BY <3>3, <3>4, <3>5 DEF g
  <2>6. o[b + 1] = Len(f[b]) /\ o[b] = Len(u)
    BY <1>5, <2>1
  <2>7. ASSUME NEW k \in 1..b
        PROVE  /\ o[k] \in Nat /\ o[k + 1] = o[k] + Len(q[k])
               /\ o[k + 1] <= Len(f[b])
               /\ \A m \in 1..Len(q[k]) : f[b][o[k] + m] = q[k][m]
    <3>1. CASE k = b
      <4>1. o[b] \in Nat /\ o[b + 1] = o[b] + Len(q[b]) /\ o[b + 1] <= Len(f[b])
        BY <2>4, <2>5, <2>6
      <4>2. \A m \in 1..Len(q[b]) : f[b][o[b] + m] = q[b][m]
        BY <2>5, <2>6
      <4> QED BY <3>1, <4>1, <4>2
    <3>2. CASE k # b
      <4>1. k \in 1..a
        BY <2>1, <3>2
      <4>2. /\ o[k] \in Nat /\ o[k + 1] = o[k] + Len(q[k]) /\ o[k + 1] <= Len(u)
            /\ \A m \in 1..Len(q[k]) : u[o[k] + m] = q[k][m]
        BY <2>2, <4>1 DEF Good
      <4>3. Len(q[k]) \in Nat
        BY <1>1, <2>1, <4>1
      <4> DEFINE x == Len(u)  y == Len(q[k])  z == o[k]
      <4>4. \A m \in 1..y : z + m \in 1..x
        <5>1. x \in Nat /\ y \in Nat /\ z \in Nat /\ z + y <= x
          BY <2>4, <4>2, <4>3
        <5> HIDE DEF x, y, z
        <5> QED BY <5>1
      <4>5. \A m \in 1..Len(q[k]) : f[b][o[k] + m] = u[o[k] + m]
        BY <2>5, <4>4
      <4>6. o[k + 1] <= Len(f[b])
        <5>1. x \in Nat /\ Len(v) \in Nat /\ o[k + 1] <= x /\ o[k + 1] \in Nat /\ Len(f[b]) = x + Len(v)
          BY <2>4, <2>5, <4>2, <4>3
        <5> HIDE DEF x
        <5> QED BY <5>1
      <4> QED BY <4>2, <4>5, <4>6
    <3> QED BY <3>1, <3>2
  <2>8. Good(b)
    BY <2>5, <2>6, <2>7 DEF Good
  <2> QED BY <2>8 DEF a, b
<1> HIDE DEF S
<1>8. Nat \subseteq S
  BY <1>6, <1>7, SetInduction
<1>9. Good(N)
  <2>1. N - 1 \in Nat /\ (N - 1) + 1 = N
    BY <1>1
  <2>2. N - 1 \in S
    BY <1>8, <2>1
  <2> QED BY <1>1, <2>1, <2>2 DEF S
<1>10. IsOffsets(q, o)
  BY <1>2, <1>5, <1>9 DEF IsOffsets, N, Good
<1> QED BY <1>10

(* ------------------------------------ the decoder ------------------------------------ *)

Offsets(q) == CHOOSE o : IsOffsets(q, o)

\* The sub-streams q of slice s as the decoder has them.
Cut(p, k, q, s) == IF NumEntryPoints(p, s, k.wpp, k.sized) = 0 THEN <<FlattenSeq(q)>> ELSE q

\* Where in them the decoder stands before place i.
StandsAt(p, k, q, s, i, sub, pos) ==
  IF k.sized THEN sub = Sub(p, k.wpp, s, i) /\ pos = Within(p, k.wpp, s, i)
  ELSE sub = 1 /\ pos = Offsets(q)[Sub(p, k.wpp, s, i)] + Within(p, k.wpp, s, i)

\* The decoder is behind the last place of the slice.
AllTaken(p, k, q, s, sub, pos) == sub = Len(Cut(p, k, q, s)) /\ pos = Len(Cut(p, k, q, s)[sub])

\* What it finds there, n places on.
FoundAt(p, k, q, s, sub, pos, n) ==
  IF sub <= Len(Cut(p, k, q, s)) /\ pos + n <= Len(Cut(p, k, q, s)[sub]) THEN Cut(p, k, q, s)[sub][pos + n]
  ELSE [ctu |-> "none"]

\* Where there are no entry points, no sub-stream ends before the slice does.
LEMMA NoEntryPoints ==
  ASSUME NEW p \in Layouts, NEW w \in BOOLEAN, NEW s \in Slices(p), NumEntryPoints(p, s, w, TRUE) = 0,
         NEW i \in Places(p, s)
  PROVE  Sub(p, w, s, i) = 1
<1> DEFINE L == Len(p.slices[s])
           A == {j \in 1..(L - 1) : Changes(p, w, p.slices[s][j], p.slices[s][j + 1])}
           B == {j \in 1..(i - 1) : Ends(p, w, s, j)}
<1>1. Cardinality(A) = 0 /\ L \in Nat /\ i \in Nat /\ i >= 1 /\ i <= L
  <2>1. L \in Nat /\ i \in 1..L
    BY LayoutTyped DEF Places
  <2> QED BY <2>1 DEF NumEntryPoints
<1>2. A = {}
  <2>1. A \subseteq 1..(L - 1)
    OBVIOUS
  <2> HIDE DEF A, L
  <2>2. IsFiniteSet(1..(L - 1))
    BY <1>1, FS_Interval
  <2>3. IsFiniteSet(A)
    BY <2>1, <2>2, FS_Subset
  <2> QED BY <1>1, <2>3, FS_EmptySet
<1>3. B = {}
  <2> SUFFICES ASSUME NEW j \in 1..(i - 1), Ends(p, w, s, j)
               PROVE  FALSE
    OBVIOUS
  <2>1. j \in Places(p, s) /\ j < L /\ j \in 1..(L - 1)
    BY <1>1 DEF Places
  <2>2. Changes(p, w, At(p, s, j), At(p, s, j + 1))
    BY <2>1, GoesOnAt
  <2>3. Changes(p, w, p.slices[s][j], p.slices[s][j + 1])
    BY <2>2 DEF At
  <2>4. j \in A
    BY <2>1, <2>3
  <2> QED BY <1>2, <2>4
<1>4. Sub(p, w, s, i) = 1 + Cardinality(B)
  BY DEF Sub
<1> HIDE DEF B
<1>5. Cardinality(B) = 0
  BY <1>3, FS_EmptySet
<1> QED BY <1>4, <1>5

\* The decoder finds at place i what was written for it.
LEMMA FindsPlace ==
  ASSUME NEW p \in Layouts, NEW k \in [wpp : BOOLEAN, sized : BOOLEAN], NEW s \in Slices(p),
         NEW X, NEW q \in Seq(Seq(X)), Len(q) = Sub(p, k.wpp, s, Len(p.slices[s])),
         NEW i \in Places(p, s), NEW I, InSub(p, k.wpp, q, I, s, i),
         NEW sub, NEW pos, StandsAt(p, k, q, s, i, sub, pos)
  PROVE  /\ FoundAt(p, k, q, s, sub, pos, 1) = I[At(p, s, i)]
         /\ Ends(p, k.wpp, s, i) => FoundAt(p, k, q, s, sub, pos, 2) = End
         /\ i < Len(p.slices[s]) =>
              StandsAt(p, k, q, s, i + 1,
                       IF Ends(p, k.wpp, s, i) /\ k.sized THEN sub + 1 ELSE sub,
                       IF Ends(p, k.wpp, s, i) /\ k.sized THEN 0
                       ELSE IF Ends(p, k.wpp, s, i) THEN pos + 2 ELSE pos + 1)
         /\ i = Len(p.slices[s]) => AllTaken(p, k, q, s, sub, pos + 2)
<1> DEFINE w == k.wpp  L == Len(p.slices[s])  c == Cut(p, k, q, s)  E == Ends(p, w, s, i)
           a == Sub(p, w, s, i)  b == Within(p, w, s, i)
           a2 == Sub(p, w, s, i + 1)  b2 == Within(p, w, s, i + 1)  v == I[At(p, s, i)]
           o == Offsets(q)
<1>1. /\ i \in Nat /\ i >= 1 /\ i <= L /\ L \in Nat /\ w \in BOOLEAN /\ k.sized \in BOOLEAN
      /\ i = L => E
  <2>1. i \in 1..L /\ L \in Nat
    BY LayoutTyped DEF Places
  <2> QED BY <2>1 DEF Ends
<1>2. /\ a \in Nat \ {0} /\ b \in Nat /\ (E => a2 = a + 1 /\ b2 = 0) /\ (~E => a2 = a /\ b2 = b + 1)
  BY <1>1, SubStep
<1>3. /\ a \in 1..Len(q) /\ b + 1 \in 1..Len(q[a]) /\ q[a][b + 1] = v
      /\ E => Len(q[a]) = b + 2 /\ q[a][b + 2] = End
  BY DEF InSub
<1>4. IsOffsets(q, o)
  <2>1. Len(q) >= 1
    BY <1>3
  <2>2. \E f : IsOffsets(q, f)
    BY <2>1, OffsetsExist
  <2> QED BY <2>2 DEF Offsets
<1>5. Len(q) = Sub(p, w, s, L) /\ (i = L => a = Len(q)) /\ Len(q) \in Nat
  OBVIOUS
\* In one piece, or as they were written.
<1>6. \/ c = <<FlattenSeq(q)>> /\ sub = 1 /\ pos = o[a] + b
      \/ c = q /\ k.sized /\ sub = a /\ pos = b
  <2>1. CASE NumEntryPoints(p, s, w, k.sized) # 0
    <3>1. k.sized
      BY <1>1, <2>1 DEF NumEntryPoints
    <3> QED BY <2>1, <3>1 DEF Cut, StandsAt
  <2>2. CASE NumEntryPoints(p, s, w, k.sized) = 0 /\ ~k.sized
    BY <2>2 DEF Cut, StandsAt
  <2>3. CASE NumEntryPoints(p, s, w, k.sized) = 0 /\ k.sized
    <3>1. a = 1
      <4>1. k.sized = TRUE
        BY <1>1, <2>3
      <4>2. NumEntryPoints(p, s, w, TRUE) = 0
        BY <2>3, <4>1
      <4> QED BY <1>1, <4>2, NoEntryPoints
    <3>2. o[1] = 0
      BY <1>4 DEF IsOffsets
    <3>3. sub = 1 /\ pos = b
      BY <2>3, <3>1 DEF StandsAt
    <3>4. pos = o[a] + b
      BY <1>2, <3>1, <3>2, <3>3
    <3> QED BY <2>3, <3>3, <3>4 DEF Cut
  <2> QED BY <2>1, <2>2, <2>3
<1>7. /\ o[a] \in Nat /\ o[a + 1] = o[a] + Len(q[a]) /\ o[a + 1] <= Len(FlattenSeq(q))
      /\ \A m \in 1..Len(q[a]) : FlattenSeq(q)[o[a] + m] = q[a][m]
      /\ o[Len(q) + 1] = Len(FlattenSeq(q))
  BY <1>3, <1>4 DEF IsOffsets
<1>8. Len(q[a]) \in Nat
  BY <1>3
<1> DEFINE F == FlattenSeq(q)  x == Len(q[a])  y == Len(F)
<1>9. y \in Nat
  <2>1. o[a] + x <= y /\ y = o[Len(q) + 1]
    BY <1>7
  <2>2. Len(q) \in 1..Len(q)
    BY <1>3
  <2>3. o[Len(q) + 1] = o[Len(q)] + Len(q[Len(q)]) /\ o[Len(q)] \in Nat /\ Len(q[Len(q)]) \in Nat
    BY <1>4, <2>2 DEF IsOffsets
  <2> QED BY <2>1, <2>3
<1> HIDE DEF w, L, c, E, a, b, a2, b2, v, o, F
<1>10. /\ FoundAt(p, k, q, s, sub, pos, 1) = v
       /\ E => FoundAt(p, k, q, s, sub, pos, 2) = End
       /\ i = L => AllTaken(p, k, q, s, sub, pos + 2)
  <2>1. CASE c = <<F>> /\ sub = 1 /\ pos = o[a] + b
    <3>1. Len(c) = 1 /\ c[sub] = F
      BY <2>1
    <3>2. /\ FoundAt(p, k, q, s, sub, pos, 1)
            = IF sub <= Len(c) /\ pos + 1 <= Len(c[sub]) THEN c[sub][pos + 1] ELSE [ctu |-> "none"]
          /\ FoundAt(p, k, q, s, sub, pos, 2)
            = IF sub <= Len(c) /\ pos + 2 <= Len(c[sub]) THEN c[sub][pos + 2] ELSE [ctu |-> "none"]
      BY DEF FoundAt, c
    <3>3. /\ o[a] \in Nat /\ x \in Nat /\ y \in Nat /\ o[a] + x <= y
          /\ b + 1 \in 1..x /\ F[o[a] + (b + 1)] = v
          /\ E => x = b + 2 /\ F[o[a] + (b + 2)] = End
      <4>1. E => b + 2 \in 1..x
        BY <1>2, <1>3
      <4> QED BY <1>3, <1>7, <1>8, <1>9, <4>1 DEF F
    <3>4. /\ pos + 1 = o[a] + (b + 1) /\ pos + 2 = o[a] + (b + 2)
          /\ pos + 1 <= y /\ (E => pos + 2 <= y)
      <4> DEFINE z == o[a]
      <4>1. z \in Nat /\ pos = z + b /\ z + x <= y
        BY <2>1, <3>3
      <4> HIDE DEF z, x, y
      <4>2. pos + 1 = z + (b + 1) /\ pos + 2 = z + (b + 2) /\ pos + 1 <= y /\ (E => pos + 2 <= y)
        BY <1>2, <3>3, <4>1
      <4> QED BY <4>2 DEF z
    <3>5. i = L => pos + 2 = y
      <4> SUFFICES ASSUME i = L
                   PROVE  pos + 2 = y
        OBVIOUS
      <4>1. E /\ a = Len(q)
        BY <1>1, <1>5
      <4>2. y = o[a] + x /\ x = b + 2
        BY <1>3, <1>7, <4>1 DEF F
      <4> QED BY <1>2, <3>3, <3>4, <4>2
    <3>6. i = L => AllTaken(p, k, q, s, sub, pos + 2)
      BY <2>1, <3>1, <3>5 DEF AllTaken, c
    <3> QED BY <2>1, <3>1, <3>2, <3>3, <3>4, <3>6
  <2>2. CASE c = q /\ k.sized /\ sub = a /\ pos = b
    <3>1. /\ FoundAt(p, k, q, s, sub, pos, 1)
            = IF sub <= Len(c) /\ pos + 1 <= Len(c[sub]) THEN c[sub][pos + 1] ELSE [ctu |-> "none"]
          /\ FoundAt(p, k, q, s, sub, pos, 2)
            = IF sub <= Len(c) /\ pos + 2 <= Len(c[sub]) THEN c[sub][pos + 2] ELSE [ctu |-> "none"]
      BY DEF FoundAt, c
    <3>2. sub <= Len(c) /\ pos + 1 <= Len(c[sub]) /\ (E => pos + 2 <= Len(c[sub]))
      BY <1>2, <1>3, <1>5, <2>2
    <3>3. i = L => AllTaken(p, k, q, s, sub, pos + 2)
      BY <1>1, <1>3, <1>5, <2>2 DEF AllTaken, c
    <3> QED BY <1>3, <2>2, <3>1, <3>2, <3>3
  <2> QED BY <1>6, <2>1, <2>2 DEF F
<1> DEFINE sub2 == IF E /\ k.sized THEN sub + 1 ELSE sub
           pos2 == IF E /\ k.sized THEN 0 ELSE IF E THEN pos + 2 ELSE pos + 1
<1>11. IF k.sized THEN sub2 = a2 /\ pos2 = b2 ELSE sub2 = 1 /\ pos2 = o[a2] + b2
  <2>1. IF k.sized THEN sub = a /\ pos = b ELSE sub = 1 /\ pos = o[a] + b
    BY DEF StandsAt, a, b, o, w
  <2>2. CASE k.sized
    BY <1>2, <2>1, <2>2
  <2>3. CASE ~k.sized /\ E
    <3>1. sub2 = 1 /\ pos2 = pos + 2 /\ a2 = a + 1 /\ b2 = 0 /\ pos = o[a] + b
      BY <1>2, <2>1, <2>3
    <3>2. o[a + 1] = o[a] + (b + 2)
      BY <1>3, <1>7, <2>3
    <3> DEFINE z == o[a]  z2 == o[a + 1]
    <3>3. z \in Nat /\ z2 = z + (b + 2) /\ pos = z + b
      BY <1>7, <3>1, <3>2
    <3> HIDE DEF z, z2
    <3>4. pos + 2 = z2 + 0
      BY <1>2, <3>3
    <3> QED BY <2>3, <3>1, <3>4 DEF z2
  <2>4. CASE ~k.sized /\ ~E
    <3>1. sub2 = 1 /\ pos2 = pos + 1 /\ a2 = a /\ b2 = b + 1 /\ pos = o[a] + b
      BY <1>2, <2>1, <2>4
    <3> DEFINE z == o[a]
    <3>2. z \in Nat /\ pos = z + b
      BY <1>7, <3>1
    <3> HIDE DEF z
    <3>3. pos + 1 = z + (b + 1)
      BY <1>2, <3>2
    <3> QED BY <2>4, <3>1, <3>3 DEF z
  <2> QED BY <2>2, <2>3, <2>4
<1>12. StandsAt(p, k, q, s, i + 1, sub2, pos2)
  BY <1>11 DEF StandsAt, a2, b2, o, w
<1> QED BY <1>10, <1>12 DEF w, E, L, v

\* What ReadCtu does, in terms of places.
Took(s, i, c, b, item, found, q, e, next) ==
  /\ b.qp = IF Restarts(pic, coding.wpp, c) \/ i = 1 THEN SliceQp ELSE dec.qp
  /\ b.ctx = Taken(pic, coding.wpp, c, IF i = 1 THEN <<>> ELSE dec.ctx, dec.sync.ctx)
  /\ b.plt = Taken(pic, coding.wpp, c, IF i = 1 THEN <<>> ELSE dec.plt, dec.sync.plt)
  /\ b.lut = IF IsLeft(pic, c) THEN <<>> ELSE dec.lut
  /\ b.sub = IF i = 1 THEN 1 ELSE dec.sub
  /\ b.pos = IF i = 1 THEN 0 ELSE dec.pos
  /\ item = FoundAt(pic, coding, out[s], s, b.sub, b.pos, 1)
  /\ found <=> item.ctu \in DOMAIN cu
  /\ q = IF found /\ item.coded THEN ReceivedQp(PredictQP(c, b.qp, got), item.dqp)
         ELSE PredictQP(c, b.qp, got)
  /\ e <=> Ends(pic, coding.wpp, s, i)
  /\ next <=> e /\ i < Len(pic.slices[s]) /\ coding.sized
  /\ dec'.qp = q
  /\ dec'.ctx = IF found THEN Append(b.ctx, [ctu |-> c, coded |-> item.coded, dqp |-> item.dqp]) ELSE b.ctx
  /\ dec'.plt = Append(b.plt, c)
  /\ dec'.lut = Append(b.lut, c)
  /\ dec'.sync.ctx = IF IsLeft(pic, c) /\ coding.wpp THEN dec'.ctx ELSE dec.sync.ctx
  /\ dec'.sync.plt = IF IsLeft(pic, c) /\ coding.wpp THEN dec'.plt ELSE dec.sync.plt
  /\ dec'.sub = IF next THEN b.sub + 1 ELSE b.sub
  /\ dec'.pos = IF next THEN 0 ELSE IF e THEN b.pos + 2 ELSE b.pos + 1
  /\ dec'.failed <=> ~found \/ (e /\ FoundAt(pic, coding, out[s], s, b.sub, b.pos, 2) # End)

Recorded(c, b, item, q) ==
  got' = [got EXCEPT ![c] = [item |-> item, qp |-> q, ctx |-> b.ctx, plt |-> b.plt, lut |-> b.lut]]

DecShape(d) ==
  d = [qp |-> d.qp, ctx |-> d.ctx, plt |-> d.plt, lut |-> d.lut, sub |-> d.sub, pos |-> d.pos,
       sync |-> d.sync, failed |-> d.failed]

LEMMA ReadCtuDoes ==
  ASSUME ReadCtu, pic \in Layouts, AtOk(pic, at), DecShape(dec),
         NEW s, s = at.slice, NEW i, i = at.idx, NEW c, c = At(pic, s, i)
  PROVE  /\ DecShape(dec')
         /\ \E b, item, found, q, e, next : Took(s, i, c, b, item, found, q, e, next) /\ Recorded(c, b, item, q)
<1> DEFINE b == DecBefore(Ctu)
           item == Item(b, 1)
           found == item.ctu \in DOMAIN cu
           pred == PredictQP(Ctu, b.qp, got)
           q == IF found /\ item.coded THEN ReceivedQp(pred, item.dqp) ELSE pred
           ctx == IF found THEN Append(b.ctx, [ctu |-> Ctu, coded |-> item.coded, dqp |-> item.dqp])
                  ELSE b.ctx
           sync == Left(Ctu) /\ coding.wpp
           now == [b EXCEPT !.qp = q, !.ctx = ctx, !.plt = Append(@, Ctu), !.lut = Append(@, Ctu)]
           e == ExpectsEnd
           next == ExpectsEnd /\ at.idx < Len(Slice) /\ coding.sized
           failed == ~found \/ (ExpectsEnd /\ Item(b, 2) # End)
<1>1. Ctu = c /\ Slice = pic.slices[s]
  BY DEF Ctu, Slice, At
<1>2. /\ dec' = [now EXCEPT !.sync = IF sync THEN [ctx |-> ctx, plt |-> now.plt] ELSE @,
                            !.sub = IF next THEN @ + 1 ELSE @,
                            !.pos = IF next THEN 0 ELSE IF ExpectsEnd THEN @ + 2 ELSE @ + 1,
                            !.failed = failed]
      /\ got' = [got EXCEPT ![Ctu] = [item |-> item, qp |-> q, ctx |-> b.ctx, plt |-> b.plt, lut |-> b.lut]]
  BY DEF ReadCtu
<1>3. e <=> Ends(pic, coding.wpp, s, i)
  BY <1>1 DEF ExpectsEnd, Ends
<1>4. \A n : Item(b, n) = FoundAt(pic, coding, out[s], s, b.sub, b.pos, n)
  BY DEF Item, FoundAt, Received, Cut
<1>5. /\ DecShape(b)
      /\ b.qp = IF Restart(Ctu) \/ i = 1 THEN SliceQp ELSE dec.qp
      /\ b.ctx = DecContexts(Ctu) /\ b.plt = DecPalette(Ctu)
      /\ b.lut = IF Left(Ctu) THEN <<>> ELSE dec.lut
      /\ b.sub = IF i = 1 THEN 1 ELSE dec.sub
      /\ b.pos = IF i = 1 THEN 0 ELSE dec.pos
      /\ b.sync = dec.sync
  <2> DEFINE x1 == IF Restart(Ctu) \/ i = 1 THEN SliceQp ELSE dec.qp
             x2 == DecContexts(Ctu)  x3 == DecPalette(Ctu)
             x4 == IF Left(Ctu) THEN <<>> ELSE dec.lut
             x5 == IF i = 1 THEN 1 ELSE dec.sub
             x6 == IF i = 1 THEN 0 ELSE dec.pos
  <2>1. b = [dec EXCEPT !.qp = x1, !.ctx = x2, !.plt = x3, !.lut = x4, !.sub = x5, !.pos = x6]
    BY DEF DecBefore
  <2> HIDE DEF b, x1, x2, x3, x4, x5, x6
  <2>2. b = [qp |-> x1, ctx |-> x2, plt |-> x3, lut |-> x4, sub |-> x5, pos |-> x6,
             sync |-> dec.sync, failed |-> dec.failed]
    BY <2>1 DEF DecShape
  <2>3. /\ DecShape(b) /\ b.qp = x1 /\ b.ctx = x2 /\ b.plt = x3 /\ b.lut = x4 /\ b.sub = x5 /\ b.pos = x6
        /\ b.sync = dec.sync
    BY <2>2 DEF DecShape
  <2> QED BY <2>3 DEF x1, x2, x3, x4, x5, x6
<1>6. /\ DecContexts(c) = Taken(pic, coding.wpp, c, IF i = 1 THEN <<>> ELSE dec.ctx, dec.sync.ctx)
      /\ DecPalette(c) = Taken(pic, coding.wpp, c, IF i = 1 THEN <<>> ELSE dec.plt, dec.sync.plt)
      /\ Restart(c) <=> Restarts(pic, coding.wpp, c)
      /\ Left(c) <=> IsLeft(pic, c)
  BY Restated DEF DecContexts, DecPalette, Taken
<1>7. sync <=> IsLeft(pic, c) /\ coding.wpp
  BY <1>1, Restated
<1>8. /\ item = FoundAt(pic, coding, out[s], s, b.sub, b.pos, 1)
      /\ found <=> item.ctu \in DOMAIN cu
      /\ failed <=> ~found \/ (e /\ FoundAt(pic, coding, out[s], s, b.sub, b.pos, 2) # End)
      /\ next <=> e /\ i < Len(pic.slices[s]) /\ coding.sized
      /\ pred = PredictQP(c, b.qp, got)
      /\ q = IF found /\ item.coded THEN ReceivedQp(pred, item.dqp) ELSE pred
      /\ ctx = IF found THEN Append(b.ctx, [ctu |-> c, coded |-> item.coded, dqp |-> item.dqp]) ELSE b.ctx
  <2> HIDE DEF b
  <2> QED BY <1>1, <1>4
<1>9. now = [b EXCEPT !.qp = q, !.ctx = ctx, !.plt = Append(b.plt, c), !.lut = Append(b.lut, c)]
  <2> HIDE DEF b, q, ctx
  <2> QED BY <1>1
<1> HIDE DEF b, item, found, pred, q, ctx, sync, now, e, next, failed
<1> DEFINE y1 == Append(b.plt, c)  y2 == Append(b.lut, c)
<1>10. now = [qp |-> q, ctx |-> ctx, plt |-> y1, lut |-> y2, sub |-> b.sub, pos |-> b.pos,
              sync |-> b.sync, failed |-> b.failed]
  <2> HIDE DEF y1, y2
  <2>1. now = [b EXCEPT !.qp = q, !.ctx = ctx, !.plt = y1, !.lut = y2]
    BY <1>9 DEF y1, y2
  <2> QED BY <1>5, <2>1 DEF DecShape
<1> HIDE DEF y1, y2
<1> DEFINE z1 == IF sync THEN [ctx |-> ctx, plt |-> y1] ELSE dec.sync
           z2 == IF next THEN b.sub + 1 ELSE b.sub
           z3 == IF next THEN 0 ELSE IF e THEN b.pos + 2 ELSE b.pos + 1
<1>11. dec' = [now EXCEPT !.sync = z1, !.sub = z2, !.pos = z3, !.failed = failed]
  <2>1. now.plt = y1 /\ now.sync = dec.sync /\ now.sub = b.sub /\ now.pos = b.pos
    BY <1>5, <1>10
  <2>2. dec' = [now EXCEPT !.sync = IF sync THEN [ctx |-> ctx, plt |-> now.plt] ELSE now.sync,
                            !.sub = IF next THEN now.sub + 1 ELSE now.sub,
                            !.pos = IF next THEN 0 ELSE IF e THEN now.pos + 2 ELSE now.pos + 1,
                            !.failed = failed]
    BY <1>2 DEF e
  <2> QED BY <2>1, <2>2
<1> HIDE DEF z1, z2, z3
<1>12. dec' = [qp |-> q, ctx |-> ctx, plt |-> y1, lut |-> y2, sub |-> z2, pos |-> z3,
               sync |-> z1, failed |-> failed]
  BY <1>10, <1>11
<1>13. /\ DecShape(dec') /\ dec'.qp = q /\ dec'.ctx = ctx /\ dec'.plt = y1 /\ dec'.lut = y2
       /\ dec'.sub = z2 /\ dec'.pos = z3 /\ dec'.sync = z1 /\ dec'.failed = failed
  BY <1>12 DEF DecShape
<1>14. /\ dec'.sync.ctx = IF IsLeft(pic, c) /\ coding.wpp THEN dec'.ctx ELSE dec.sync.ctx
       /\ dec'.sync.plt = IF IsLeft(pic, c) /\ coding.wpp THEN dec'.plt ELSE dec.sync.plt
  <2>1. CASE sync
    <3>1. z1 = [ctx |-> ctx, plt |-> y1]
      BY <2>1 DEF z1
    <3>2. z1.ctx = ctx /\ z1.plt = y1
      BY <3>1
    <3> QED BY <1>7, <1>13, <2>1, <3>2
  <2>2. CASE ~sync
    <3>1. z1 = dec.sync
      BY <2>2 DEF z1
    <3> QED BY <1>7, <1>13, <2>2, <3>1
  <2> QED BY <2>1, <2>2
<1>15. Took(s, i, c, b, item, found, q, e, next)
  BY <1>1, <1>3, <1>5, <1>6, <1>8, <1>13, <1>14 DEF Took, y1, y2, z2, z3
<1>16. Recorded(c, b, item, q)
  BY <1>1, <1>2 DEF Recorded
<1> QED BY <1>13, <1>15, <1>16

\* The first slice of a tile, or any with wavefronts, begins with an empty palette in the
\* search too.
Keeps(p, w, s) == ~Restarts(p, w, At(p, s, 1))

GotOk(p, w, u, I, g, s, i) ==
  /\ g[At(p, s, i)].item = I[At(p, s, i)] /\ g[At(p, s, i)].ctx = I[At(p, s, i)].ctx
  /\ g[At(p, s, i)].lut = u[At(p, s, i)].lut
  /\ Keeps(p, w, s) \/ g[At(p, s, i)].plt = u[At(p, s, i)].plt
  /\ InFirst(p, s, i) => g[At(p, s, i)].qp = u[At(p, s, i)].qp

ReaderOk(p, k, u, I, d, q, s, i) ==
  /\ Holds(p, k.wpp, Ctxs(p, I), s, i, d.ctx, d.sync.ctx)
  /\ Keeps(p, k.wpp, s) \/ Holds(p, k.wpp, Plts(p, u), s, i, d.plt, d.sync.plt)
  /\ i > 1 => /\ d.lut = Append(u[At(p, s, i - 1)].lut, At(p, s, i - 1))
              /\ InFirst(p, s, i - 1) => d.qp = u[At(p, s, i - 1)].qp
              /\ StandsAt(p, k, q, s, i, d.sub, d.pos)

ReadOk(p, k, a, u, I, o, d, g) ==
  /\ DecShape(d) /\ ~d.failed /\ g = [c \in Ctus(p) |-> g[c]]
  /\ \A s \in Slices(p) : \A i \in Places(p, s) :
       IF Passed(a, "read", s, i) THEN GotOk(p, k.wpp, u, I, g, s, i) ELSE g[At(p, s, i)] = NoCu
  /\ a.pass = "read" => ReaderOk(p, k, u, I, d, o[a.slice], a.slice, a.idx)
  /\ a.pass = "read" /\ a.idx = 1 /\ a.slice > 1 =>
       AllTaken(p, k, o[a.slice - 1], a.slice - 1, d.sub, d.pos)
  /\ a.pass = "done" => AllTaken(p, k, o[Len(p.slices)], Len(p.slices), d.sub, d.pos)

\* The decoder predicts as the search did, in the first tile of the slice.
LEMMA ReadPredicts ==
  ASSUME pic \in Layouts, NEW s \in Slices(pic), NEW i \in Places(pic, s), NEW u, NEW g, NEW qp,
         InFirst(pic, s, i), coding.wpp \in BOOLEAN,
         \A j \in 1..(i - 1) : InFirst(pic, s, j) => g[At(pic, s, j)].qp = u[At(pic, s, j)].qp,
         qp = IF Restarts(pic, coding.wpp, At(pic, s, i)) \/ i = 1 THEN SliceQp ELSE u[At(pic, s, i - 1)].qp
  PROVE  PredictQP(At(pic, s, i), qp, g) = Predicted(pic, coding.wpp, u, s, i)
<1> DEFINE c == At(pic, s, i)
<1>1. HasAbove(pic, c) => g[c - pic.w].qp = u[c - pic.w].qp
  <2> SUFFICES ASSUME HasAbove(pic, c)
               PROVE  g[c - pic.w].qp = u[c - pic.w].qp
    OBVIOUS
  <2>1. PICK j \in 1..(i - 1) : At(pic, s, j) = c - pic.w /\ InFirst(pic, s, j)
    BY AboveBefore
  <2> QED BY <2>1
<1>2. PredictQP(c, qp, g) = IF IsLeft(pic, c) /\ HasAbove(pic, c) THEN g[c - pic.w].qp ELSE qp
  BY Restated DEF PredictQP
<1>3. Predicted(pic, coding.wpp, u, s, i)
        = IF IsLeft(pic, c) /\ HasAbove(pic, c) THEN u[c - pic.w].qp ELSE qp
  BY DEF Predicted
<1> QED BY <1>1, <1>2, <1>3

LEMMA ReadKeeps ==
  ASSUME ReadCtu, pic \in Layouts, AtOk(pic, at), coding \in [wpp : BOOLEAN, sized : BOOLEAN],
         SearchOk(pic, coding.wpp, at, cu, est, estPlt),
         NEW I, NEW X, WriteOk(pic, coding.wpp, at, cu, wr, out, I, X),
         ReadOk(pic, coding, at, cu, I, out, dec, got)
  PROVE  ReadOk(pic, coding, at', cu, I, out, dec', got')
<1> DEFINE s == at.slice  i == at.idx  c == At(pic, s, i)  w == coding.wpp  L == Len(pic.slices[s])
           N == Len(pic.slices)
<1>1. at.pass = "read" /\ at' = NextCtu /\ w \in BOOLEAN
  BY DEF ReadCtu
<1>2. /\ s \in Slices(pic) /\ i \in Places(pic, s) /\ c \in Ctus(pic) /\ i \in Nat /\ i >= 1 /\ i <= L
      /\ L \in Nat /\ L \in Places(pic, s) /\ N \in Nat /\ s \in 1..N
  <2>1. s \in Slices(pic) /\ i \in Places(pic, s)
    BY DEF AtOk
  <2>2. c \in Ctus(pic) /\ L \in Nat /\ L >= 1 /\ N \in Nat
    BY <2>1, LayoutTyped
  <2> QED BY <2>1, <2>2 DEF Places, Slices
<1>3. /\ DecShape(dec) /\ ~dec.failed /\ got = [d \in Ctus(pic) |-> got[d]]
      /\ ReaderOk(pic, coding, cu, I, dec, out[s], s, i)
  BY <1>1 DEF ReadOk
<1>4. DecShape(dec')
  BY <1>3, ReadCtuDoes
<1>5. PICK b, item, found, q, e, next : Took(s, i, c, b, item, found, q, e, next) /\ Recorded(c, b, item, q)
  BY <1>3, ReadCtuDoes
<1>6. \A t \in Slices(pic) : \A j \in Places(pic, t) :
        ItemOk(pic, w, cu, I, t, j) /\ InSub(pic, w, out[t], I, t, j)
  BY <1>1 DEF WriteOk, Passed
<1>7. out[s] \in Seq(Seq(X)) /\ Len(out[s]) = Sub(pic, w, s, L)
  <2>1. out[s] \in Seq(Seq(X))
    BY <1>2 DEF WriteOk
  <2>2. Passed(at, "write", s, L)
    BY <1>1 DEF Passed
  <2> QED BY <1>2, <2>1, <2>2 DEF WriteOk
\* Where the decoder stands.
<1>8. StandsAt(pic, coding, out[s], s, i, b.sub, b.pos)
  <2>1. CASE i = 1
    <3>1. b.sub = 1 /\ b.pos = 0
      BY <1>5, <2>1 DEF Took
    <3>2. Sub(pic, w, s, 1) = 1 /\ Within(pic, w, s, 1) = 0
      BY SubFirst
    <3>3. Offsets(out[s])[1] = 0
      <4>1. Len(out[s]) >= 1
        <5>1. InSub(pic, w, out[s], I, s, i)
          BY <1>2, <1>6
        <5> QED BY <1>7, <5>1 DEF InSub
      <4>2. \E o : IsOffsets(out[s], o)
        BY <1>7, <4>1, OffsetsExist
      <4>3. IsOffsets(out[s], Offsets(out[s]))
        BY <4>2 DEF Offsets
      <4> QED BY <4>3 DEF IsOffsets
    <3> QED BY <2>1, <3>1, <3>2, <3>3 DEF StandsAt
  <2>2. CASE i # 1
    <3>1. b.sub = dec.sub /\ b.pos = dec.pos
      BY <1>5, <2>2 DEF Took
    <3>2. i > 1
      BY <1>2, <2>2
    <3> QED BY <1>3, <3>1, <3>2 DEF ReaderOk
  <2> QED BY <2>1, <2>2
<1> DEFINE E == Ends(pic, w, s, i)
           sub2 == IF E /\ coding.sized THEN b.sub + 1 ELSE b.sub
           pos2 == IF E /\ coding.sized THEN 0 ELSE IF E THEN b.pos + 2 ELSE b.pos + 1
<1>9. /\ FoundAt(pic, coding, out[s], s, b.sub, b.pos, 1) = I[c]
      /\ E => FoundAt(pic, coding, out[s], s, b.sub, b.pos, 2) = End
      /\ i < L => StandsAt(pic, coding, out[s], s, i + 1, sub2, pos2)
      /\ i = L => AllTaken(pic, coding, out[s], s, b.sub, b.pos + 2)
  <2>1. InSub(pic, w, out[s], I, s, i)
    BY <1>2, <1>6
  <2> HIDE DEF s, i
  <2> QED BY <1>2, <1>7, <1>8, <2>1, FindsPlace
<1> HIDE DEF sub2, pos2
<1>10. /\ item = I[c] /\ found /\ (e <=> E)
       /\ I[c].ctu = c /\ I[c].coded = cu[c].coded
  <2>1. item = I[c] /\ (e <=> E) /\ (found <=> item.ctu \in DOMAIN cu)
    BY <1>5, <1>9 DEF Took
  <2>2. I[c].ctu = c /\ I[c].coded = cu[c].coded
    BY <1>2, <1>6 DEF ItemOk
  <2>3. DOMAIN cu = Ctus(pic)
    BY DEF SearchOk
  <2> QED BY <1>2, <2>1, <2>2, <2>3
<1>11. ~dec'.failed
  BY <1>5, <1>9, <1>10 DEF Took
\* What it takes over from before.
<1>12. \A j \in 1..(i - 1) : j \in Places(pic, s) /\ Passed(at, "read", s, j)
  <2> TAKE j \in 1..(i - 1)
  <2>1. j \in Places(pic, s) /\ j < i
    BY <1>2 DEF Places
  <2> QED BY <1>1, <2>1 DEF Passed
<1>13. i = 1 => ~Syncs(pic, w, c) /\ IsLeft(pic, c)
  BY <1>2, FirstPlace DEF Syncs
<1>14. b.ctx = I[c].ctx
  <2> DEFINE cur == IF i = 1 THEN <<>> ELSE dec.ctx
  <2>1. b.ctx = Taken(pic, w, c, cur, dec.sync.ctx)
    BY <1>5 DEF Took
  <2>2. ItemOk(pic, w, cu, I, s, i)
    BY <1>2, <1>6
  <2>3. CASE i = 1
    BY <1>13, <2>1, <2>2, <2>3 DEF Taken, ItemOk
  <2>4. CASE i # 1
    <3>1. Holds(pic, w, Ctxs(pic, I), s, i, cur, dec.sync.ctx)
      BY <1>3, <2>4 DEF ReaderOk
    <3> HIDE DEF cur
    <3>2. Carried(pic, w, Ctxs(pic, I), s, i, b.ctx)
      BY <1>2, <2>1, <3>1, TakenCarried
    <3>3. Carried(pic, w, Ctxs(pic, I), s, i, I[c].ctx) /\ i > 1
      BY <1>2, <2>2, <2>4 DEF ItemOk
    <3> QED BY <1>2, <3>2, <3>3, CarriedUnique
  <2> QED BY <2>3, <2>4
<1>15. CuOk(pic, w, cu, s, i)
  BY <1>1, <1>2 DEF SearchOk, Passed
<1>16. ~Keeps(pic, w, s) => b.plt = cu[c].plt
  <2> SUFFICES ASSUME ~Keeps(pic, w, s)
               PROVE  b.plt = cu[c].plt
    OBVIOUS
  <2> DEFINE cur == IF i = 1 THEN <<>> ELSE dec.plt
  <2>1. b.plt = Taken(pic, w, c, cur, dec.sync.plt)
    BY <1>5 DEF Took
  <2>2. Holds(pic, w, Plts(pic, cu), s, i, cur, dec.sync.plt)
    <3>1. i # 1 => cur = dec.plt
      OBVIOUS
    <3>2. i = 1 => ~(i > 1)
      BY <1>2
    <3> HIDE DEF cur
    <3> QED BY <1>3, <3>1, <3>2 DEF ReaderOk, Holds
  <2> HIDE DEF cur
  <2>3. Carried(pic, w, Plts(pic, cu), s, i, b.plt)
    BY <1>2, <2>1, <2>2, TakenCarried
  <2>4. Carried(pic, w, Plts(pic, cu), s, i, cu[c].plt)
    BY <1>15 DEF CuOk
  <2>5. i > 1 \/ Restarts(pic, w, At(pic, s, i))
    BY <1>2 DEF Keeps
  <2> QED BY <1>2, <2>3, <2>4, <2>5, CarriedUnique
<1>17. b.lut = cu[c].lut
  <2>1. cu[c].lut = LutAt(pic, cu, s, i)
    BY <1>15 DEF CuOk
  <2>2. ~IsLeft(pic, c) => i > 1
    BY <1>2, <1>13
  <2> QED BY <1>3, <1>5, <2>1, <2>2 DEF Took, LutAt, ReaderOk
<1>18. InFirst(pic, s, i) => q = cu[c].qp
  <2> SUFFICES ASSUME InFirst(pic, s, i)
               PROVE  q = cu[c].qp
    OBVIOUS
  <2> DEFINE pred == PredictQP(c, b.qp, got)
  <2>1. pred = Predicted(pic, w, cu, s, i)
    <3>1. i > 1 => InFirst(pic, s, i - 1)
      <4> SUFFICES ASSUME i > 1
                   PROVE  InFirst(pic, s, i - 1)
        OBVIOUS
      <4> DEFINE k == i - 1
      <4>1. k \in Places(pic, s) /\ k < L /\ k + 1 = i
        BY <1>2, SMTT(20) DEF Places
      <4> HIDE DEF k, i
      <4> QED BY <1>1, <1>2, <4>1, GoesOnAt DEF k
    <3>2. b.qp = IF Restarts(pic, w, c) \/ i = 1 THEN SliceQp ELSE cu[At(pic, s, i - 1)].qp
      <4>1. b.qp = IF Restarts(pic, w, c) \/ i = 1 THEN SliceQp ELSE dec.qp
        <5> HIDE DEF c, i, s
        <5> QED BY ONLY <1>5, Zenon DEF Took
      <4>2. i > 1 /\ InFirst(pic, s, i - 1) => dec.qp = cu[At(pic, s, i - 1)].qp
        BY <1>3 DEF ReaderOk
      <4> HIDE DEF c, i, s, w
      <4> QED BY <1>2, <3>1, <4>1, <4>2
    <3>3. \A j \in 1..(i - 1) : InFirst(pic, s, j) => got[At(pic, s, j)].qp = cu[At(pic, s, j)].qp
      BY <1>2, <1>12 DEF ReadOk, GotOk
    <3> HIDE DEF s, i, w
    <3> QED BY <1>1, <1>2, <3>2, <3>3, ReadPredicts DEF w
  <2>2. /\ cu[c].coded \in BOOLEAN /\ cu[c].qp \in QpRange
        /\ ~cu[c].coded => cu[c].qp = Predicted(pic, w, cu, s, i)
    BY <1>15 DEF CuOk
  <2>3. q = IF I[c].coded THEN ReceivedQp(pred, I[c].dqp) ELSE pred
    BY <1>5, <1>10 DEF Took
  <2> HIDE DEF pred
  <2>4. CASE cu[c].coded
    <3>1. I[c].dqp = QpDelta(Predicted(pic, w, cu, s, i), cu[c].qp)
      BY <1>2, <1>6, <2>4 DEF ItemOk
    <3>2. Predicted(pic, w, cu, s, i) \in QpRange
      <4>1. \A j \in 1..(i - 1) : cu[At(pic, s, j)].qp \in QpRange
        <5> TAKE j \in 1..(i - 1)
        <5>1. CuOk(pic, w, cu, s, j)
          BY <1>1, <1>2, <1>12 DEF SearchOk, Passed
        <5> QED BY <5>1 DEF CuOk
      <4> HIDE DEF s, i, w
      <4> QED BY <1>2, <4>1, PredictedTyped
    <3> QED BY <1>10, <2>1, <2>2, <2>3, <2>4, <3>1, <3>2, DeltaReadsBack
  <2>5. CASE ~cu[c].coded
    BY <1>10, <2>1, <2>2, <2>3, <2>5
  <2> QED BY <2>4, <2>5
\* What it took the CTU for.
<1>19. /\ got' = [d \in Ctus(pic) |-> got'[d]] /\ \A d \in Ctus(pic) : d # c => got'[d] = got[d]
       /\ got'[c].item = item /\ got'[c].qp = q /\ got'[c].ctx = b.ctx /\ got'[c].plt = b.plt
       /\ got'[c].lut = b.lut
  <2> DEFINE new == [item |-> item, qp |-> q, ctx |-> b.ctx, plt |-> b.plt, lut |-> b.lut]
  <2>1. got' = [got EXCEPT ![c] = new]
    BY <1>5 DEF Recorded
  <2>2. new.item = item /\ new.qp = q /\ new.ctx = b.ctx /\ new.plt = b.plt /\ new.lut = b.lut
    OBVIOUS
  <2> HIDE DEF new, c
  <2>3. /\ got' = [d \in Ctus(pic) |-> got'[d]] /\ \A d \in Ctus(pic) : d # c => got'[d] = got[d]
        /\ got'[c] = new
    BY <1>2, <1>3, <2>1
  <2> QED BY <2>2, <2>3
<1>20. GotOk(pic, w, cu, I, got', s, i)
  BY <1>10, <1>14, <1>16, <1>17, <1>18, <1>19 DEF GotOk
<1>21. ASSUME NEW t \in Slices(pic), NEW j \in Places(pic, t)
       PROVE  IF Passed(at', "read", t, j) THEN GotOk(pic, w, cu, I, got', t, j)
              ELSE got'[At(pic, t, j)] = NoCu
  <2>1. Passed(at', "read", t, j) <=> Passed(at, "read", t, j) \/ (t = s /\ j = i)
    BY <1>1, NextPlace DEF Passes
  <2>2. CASE t = s /\ j = i
    BY <1>20, <2>1, <2>2
  <2>3. CASE ~(t = s /\ j = i)
    <3>1. At(pic, t, j) \in Ctus(pic) /\ At(pic, t, j) # c
      BY <1>2, <2>3, LayoutTyped, PlaceUnique
    <3>2. got'[At(pic, t, j)] = got[At(pic, t, j)]
      BY <1>19, <3>1
    <3> QED BY <2>1, <2>3, <3>2 DEF ReadOk, GotOk
  <2> QED BY <2>2, <2>3
\* The decoder before the next CTU.
<1>22. CASE i < L
  <2>1. at'.pass = "read" /\ at'.slice = s /\ at'.idx = i + 1 /\ (i + 1) - 1 = i /\ i + 1 # 1
    BY <1>1, <1>2, <1>22, NextPlace
  <2>2. /\ dec'.qp = q /\ dec'.plt = Append(b.plt, c) /\ dec'.lut = Append(b.lut, c)
        /\ dec'.ctx = Append(I[c].ctx, [ctu |-> c, coded |-> I[c].coded, dqp |-> I[c].dqp])
        /\ dec'.sync.ctx = IF IsLeft(pic, c) /\ w THEN dec'.ctx ELSE dec.sync.ctx
        /\ dec'.sync.plt = IF IsLeft(pic, c) /\ w THEN dec'.plt ELSE dec.sync.plt
        /\ dec'.sub = sub2 /\ dec'.pos = pos2
    BY <1>5, <1>10, <1>14, <1>22, Zenon DEF Took, sub2, pos2
  <2>3. Holds(pic, w, Ctxs(pic, I), s, i + 1, dec'.ctx, dec'.sync.ctx)
    <3>1. Ctxs(pic, I)[c] = dec'.ctx
      BY <1>2, <2>2 DEF Ctxs
    <3>2. Holds(pic, w, Ctxs(pic, I), s, i, dec.ctx, dec.sync.ctx)
      BY <1>3 DEF ReaderOk
    <3>3. w => dec'.sync.ctx = IF IsLeft(pic, c) THEN dec'.ctx ELSE dec.sync.ctx
      BY <2>2
    <3> QED BY <1>2, <3>1, <3>2, <3>3, HoldsOn
  <2>4. Keeps(pic, w, s) \/ Holds(pic, w, Plts(pic, cu), s, i + 1, dec'.plt, dec'.sync.plt)
    <3> SUFFICES ASSUME ~Keeps(pic, w, s)
                 PROVE  Holds(pic, w, Plts(pic, cu), s, i + 1, dec'.plt, dec'.sync.plt)
      OBVIOUS
    <3>1. Plts(pic, cu)[c] = dec'.plt
      BY <1>2, <1>16, <2>2 DEF Plts
    <3>2. Holds(pic, w, Plts(pic, cu), s, i, dec.plt, dec.sync.plt)
      BY <1>3 DEF ReaderOk
    <3>3. w => dec'.sync.plt = IF IsLeft(pic, c) THEN dec'.plt ELSE dec.sync.plt
      BY <2>2
    <3> QED BY <1>2, <3>1, <3>2, <3>3, HoldsOn
  <2>5. ReaderOk(pic, coding, cu, I, dec', out[s], s, i + 1)
    BY <1>9, <1>17, <1>18, <1>22, <2>1, <2>2, <2>3, <2>4, Zenon DEF ReaderOk
  <2> QED BY <1>4, <1>11, <1>19, <1>21, <2>1, <2>5 DEF ReadOk
<1>23. CASE ~(i < L)
  <2>1. /\ at'.idx = 1
        /\ IF s < N THEN at'.pass = "read" /\ at'.slice = s + 1 ELSE at'.pass = "done"
    <3>1. After("read") = "done"
      BY DEF After
    <3> QED BY <1>1, <1>23, <3>1, NextPlace
  <2>2. i = L /\ E
    BY <1>2, <1>23 DEF Ends
  <2>3. dec'.sub = b.sub /\ dec'.pos = b.pos + 2
    BY <1>5, <1>10, <1>23, <2>2, Zenon DEF Took
  <2>4. AllTaken(pic, coding, out[s], s, dec'.sub, dec'.pos)
    BY <1>9, <2>2, <2>3
  <2>5. \A t : ReaderOk(pic, coding, cu, I, dec', out[t], t, 1)
    BY DEF ReaderOk, Holds
  <2>6. CASE s < N
    <3>1. (s + 1) - 1 = s /\ at'.pass = "read" /\ at'.slice = s + 1 /\ at'.idx = 1
      BY <1>2, <2>1, <2>6
    <3> QED BY <1>4, <1>11, <1>19, <1>21, <2>4, <2>5, <3>1 DEF ReadOk
  <2>7. CASE ~(s < N)
    <3>1. s = N /\ at'.pass = "done"
      BY <1>2, <2>1, <2>7
    <3> QED BY <1>4, <1>11, <1>19, <1>21, <2>4, <3>1 DEF ReadOk
  <2> QED BY <2>6, <2>7
<1> QED BY <1>22, <1>23

(* ------------------------------------ the invariant ------------------------------------ *)

\* The pass stands at a CTU; what the search decided, what was written and what was read
\* up to there is told by the predictors' restarts; and the three passes' own state is
\* what they give for the next CTU.
Inv ==
  /\ pic \in Layouts /\ coding \in [wpp : BOOLEAN, sized : BOOLEAN] /\ AtOk(pic, at)
  /\ SearchOk(pic, coding.wpp, at, cu, est, estPlt)
  /\ \E I, X : /\ WriteOk(pic, coding.wpp, at, cu, wr, out, I, X)
               /\ ReadOk(pic, coding, at, cu, I, out, dec, got)

LEMMA InitInv == Init => Inv
<1> SUFFICES ASSUME Init
             PROVE  Inv
  OBVIOUS
<1>1. /\ pic \in Layouts /\ coding \in [wpp : BOOLEAN, sized : BOOLEAN]
      /\ at = [pass |-> "search", slice |-> 1, idx |-> 1]
      /\ cu = [c \in Ctus(pic) |-> NoCu] /\ got = [c \in Ctus(pic) |-> NoCu]
      /\ wr = [qp |-> SliceQp, ctx |-> <<>>, sync |-> <<>>, plt |-> <<>>, sub |-> 1]
      /\ out = [s \in 1..Len(pic.slices) |-> <<>>]
      /\ dec = [qp |-> SliceQp, ctx |-> <<>>, plt |-> <<>>, lut |-> <<>>, sub |-> 1, pos |-> 0,
                sync |-> [ctx |-> <<>>, plt |-> <<>>], failed |-> FALSE]
  BY DEF Init
<1>2. AtOk(pic, at)
  <2>1. 1 \in Slices(pic) /\ 1 \in Places(pic, 1)
    <3>1. 1 \in Slices(pic)
      BY <1>1, LayoutTyped DEF Slices
    <3> QED BY <1>1, <3>1, FirstPlace
  <2>2. at.pass = "search" /\ at.slice = 1 /\ at.idx = 1 /\ at = [pass |-> at.pass, slice |-> at.slice, idx |-> at.idx]
    BY <1>1
  <2> QED BY <2>1, <2>2 DEF AtOk, Passes
<1>3. /\ at.pass = "search" /\ at.idx = 1
      /\ \A q \in Passes : \A s \in Slices(pic) : \A i \in Places(pic, s) : ~Passed(at, q, s, i)
  <2> SUFFICES ASSUME NEW q \in Passes, NEW s \in Slices(pic), NEW i \in Places(pic, s)
               PROVE  ~Passed(at, q, s, i)
    BY <1>1
  <2>1. s \in Nat /\ s >= 1 /\ i \in Nat /\ i >= 1
    BY <1>1, LayoutTyped DEF Slices, Places
  <2>2. at.pass = "search" /\ at.slice = 1 /\ at.idx = 1 /\ ~(s < 1) /\ ~(i < 1)
    BY <1>1, <2>1
  <2> QED BY <2>2 DEF Passed, Passes
<1>4. SearchOk(pic, coding.wpp, at, cu, est, estPlt)
  <2>1. cu = [c \in Ctus(pic) |-> cu[c]]
    BY <1>1
  <2> QED BY <1>3, <2>1 DEF SearchOk, EstOk, Holds, Passes
<1> DEFINE I == [c \in Ctus(pic) |-> NoCu]
           X == {}
<1>5. WriteOk(pic, coding.wpp, at, cu, wr, out, I, X)
  <2>1. out \in [Slices(pic) -> Seq(Seq(X))] /\ \A s \in Slices(pic) : out[s] = <<>>
    BY <1>1 DEF Slices
  <2>2. \A s \in Slices(pic) : 1 \in Places(pic, s) /\ Len(pic.slices[s]) \in Places(pic, s)
    BY <1>1, LayoutTyped DEF Places
  <2>3. I = [c \in Ctus(pic) |-> I[c]]
    OBVIOUS
  <2>4. wr = [qp |-> wr.qp, ctx |-> wr.ctx, sync |-> wr.sync, plt |-> wr.plt, sub |-> wr.sub]
    BY <1>1
  <2> HIDE DEF I, X
  <2> QED BY <1>3, <2>1, <2>2, <2>3, <2>4 DEF WriteOk, Passes
<1>6. ReadOk(pic, coding, at, cu, I, out, dec, got)
  <2>1. DecShape(dec) /\ ~dec.failed
    BY <1>1 DEF DecShape
  <2>2. got = [c \in Ctus(pic) |-> got[c]]
        /\ \A s \in Slices(pic) : \A i \in Places(pic, s) : got[At(pic, s, i)] = NoCu
    BY <1>1, LayoutTyped
  <2> QED BY <1>3, <2>1, <2>2 DEF ReadOk, Passes
<1> HIDE DEF I, X
<1> QED BY <1>1, <1>2, <1>4, <1>5, <1>6 DEF Inv

LEMMA EstimateInv ==
  ASSUME Inv, NEW coded \in BOOLEAN, NEW qp \in QpRange, Estimate(coded, qp)
  PROVE  Inv'
<1> DEFINE w == coding.wpp
<1>1. /\ at.pass = "search" /\ at' = NextCtu /\ pic' = pic /\ coding' = coding /\ wr' = wr /\ out' = out
      /\ dec' = dec /\ got' = got
  BY DEF Estimate
<1>2. /\ pic \in Layouts /\ coding \in [wpp : BOOLEAN, sized : BOOLEAN] /\ AtOk(pic, at)
      /\ SearchOk(pic, w, at, cu, est, estPlt)
  BY DEF Inv
<1>3. PICK I, X : /\ WriteOk(pic, w, at, cu, wr, out, I, X)
                  /\ ReadOk(pic, coding, at, cu, I, out, dec, got)
  BY DEF Inv
<1>4. /\ AtOk(pic, at') /\ at'.pass \in {"search", "write"} /\ (at'.pass # "search" => at'.idx = 1)
      /\ \A s \in Slices(pic) : \A i \in Places(pic, s) :
           /\ ~Passed(at, "write", s, i) /\ ~Passed(at', "write", s, i)
           /\ ~Passed(at, "read", s, i) /\ ~Passed(at', "read", s, i)
  <2>1. After("search") = "write"
    BY DEF After
  <2>2. /\ AtOk(pic, at') /\ at'.pass \in {"search", "write"} /\ (at'.pass # "search" => at'.idx = 1)
    BY <1>1, <1>2, <2>1, NextPlace
  <2>3. \A s \in Slices(pic) : \A i \in Places(pic, s) :
          ~Passed(at, "write", s, i) /\ ~Passed(at, "read", s, i)
    BY <1>1 DEF Passed
  <2> QED BY <1>1, <1>2, <2>2, <2>3, NextPlace DEF Passes
<1>5. SearchOk(pic, w, at', cu', est', estPlt')
  BY <1>2, EstimateKeeps
<1>6. WriteOk(pic, w, at', cu', wr, out, I, X)
  <2>1. \A s \in Slices(pic) : 1 \in Places(pic, s) /\ Len(pic.slices[s]) \in Places(pic, s)
    BY <1>2, LayoutTyped DEF Places
  <2>2. \A s \in Slices(pic) : out[s] = <<>>
    BY <1>3, <1>4, <2>1 DEF WriteOk
  <2>3. \A s \in Slices(pic) : WriterOk(pic, w, cu', I, wr, out[s], s, 1)
    BY <2>2, SubFirst DEF WriterOk, Filled, Holds
  <2>4. at'.pass = "write" => at'.idx = 1 /\ at'.slice \in Slices(pic)
    BY <1>4 DEF AtOk
  <2> QED BY <1>3, <1>4, <2>1, <2>2, <2>3, <2>4 DEF WriteOk
<1>7. ReadOk(pic, coding, at', cu', I, out, dec, got)
  BY <1>3, <1>4 DEF ReadOk
<1> QED BY <1>1, <1>2, <1>4, <1>5, <1>6, <1>7 DEF Inv

LEMMA WriteInv ==
  ASSUME Inv, WriteCtu
  PROVE  Inv'
<1> DEFINE w == coding.wpp
<1>1. /\ at.pass = "write" /\ at' = NextCtu /\ pic' = pic /\ coding' = coding /\ cu' = cu
      /\ estPlt' = estPlt /\ dec' = dec /\ got' = got
  BY DEF WriteCtu
<1>2. /\ pic \in Layouts /\ coding \in [wpp : BOOLEAN, sized : BOOLEAN] /\ AtOk(pic, at)
      /\ SearchOk(pic, w, at, cu, est, estPlt) /\ w \in BOOLEAN
  BY DEF Inv
<1>3. PICK I, X : /\ WriteOk(pic, w, at, cu, wr, out, I, X)
                  /\ ReadOk(pic, coding, at, cu, I, out, dec, got)
  BY DEF Inv
<1>4. PICK J, Y : WriteOk(pic, w, at', cu, wr', out', J, Y)
  BY <1>2, <1>3, WriteKeeps
<1>5. /\ AtOk(pic, at') /\ at'.pass \in {"write", "read"}
      /\ at'.pass = "read" => at'.slice = 1 /\ at'.idx = 1
  <2>1. After("write") = "read"
    BY DEF After
  <2> QED BY <1>1, <1>2, <2>1, NextPlace
<1>6. SearchOk(pic, w, at', cu, est', estPlt)
  <2>1. at'.pass # "search" /\ \A s, i : Passed(at, "search", s, i)
    BY <1>1, <1>5 DEF Passed
  <2> QED BY <1>2, <2>1 DEF SearchOk
<1>7. ReadOk(pic, coding, at', cu, J, out', dec, got)
  <2>1. \A s \in Slices(pic) : \A i \in Places(pic, s) :
          ~Passed(at, "read", s, i) /\ ~Passed(at', "read", s, i)
    BY <1>1, <1>2, NextPlace DEF Passes, Passed
  <2>2. \A s : ReaderOk(pic, coding, cu, J, dec, out'[s], s, 1)
    BY DEF ReaderOk, Holds
  <2>3. at'.pass # "done" /\ ~(at'.pass = "read" /\ at'.slice > 1)
    BY <1>5
  <2> QED BY <1>3, <1>5, <2>1, <2>2, <2>3 DEF ReadOk
<1> QED BY <1>1, <1>2, <1>4, <1>5, <1>6, <1>7 DEF Inv

LEMMA ReadInv ==
  ASSUME Inv, ReadCtu
  PROVE  Inv'
<1> DEFINE w == coding.wpp
<1>1. /\ at.pass = "read" /\ at' = NextCtu /\ pic' = pic /\ coding' = coding /\ cu' = cu
      /\ est' = est /\ estPlt' = estPlt /\ wr' = wr /\ out' = out
  BY DEF ReadCtu
<1>2. /\ pic \in Layouts /\ coding \in [wpp : BOOLEAN, sized : BOOLEAN] /\ AtOk(pic, at)
      /\ SearchOk(pic, w, at, cu, est, estPlt) /\ w \in BOOLEAN
  BY DEF Inv
<1>3. PICK I, X : /\ WriteOk(pic, w, at, cu, wr, out, I, X)
                  /\ ReadOk(pic, coding, at, cu, I, out, dec, got)
  BY DEF Inv
<1>4. ReadOk(pic, coding, at', cu, I, out, dec', got')
  BY <1>2, <1>3, ReadKeeps
<1>5. AtOk(pic, at') /\ at'.pass \in {"read", "done"}
  <2>1. After("read") = "done"
    BY DEF After
  <2> QED BY <1>1, <1>2, <2>1, NextPlace
<1>6. SearchOk(pic, w, at', cu, est, estPlt)
  <2>1. at'.pass # "search" /\ \A s, i : Passed(at, "search", s, i)
    BY <1>1, <1>5 DEF Passed
  <2> QED BY <1>2, <2>1 DEF SearchOk
<1>7. WriteOk(pic, w, at', cu, wr, out, I, X)
  <2>1. at'.pass # "write" /\ \A s, i : Passed(at, "write", s, i) /\ Passed(at', "write", s, i)
    BY <1>1, <1>5 DEF Passed
  <2> QED BY <1>3, <2>1 DEF WriteOk
<1> QED BY <1>1, <1>2, <1>4, <1>5, <1>6, <1>7 DEF Inv

\* In every state of every picture, coded in whichever way, the invariant holds.
THEOREM SliceCtusInvariant == Spec => []Inv
<1>1. Inv /\ [Next]_vars => Inv'
  <2> SUFFICES ASSUME Inv, [Next]_vars
               PROVE  Inv'
    OBVIOUS
  <2>1. ASSUME NEW qp \in Qps, Estimate(TRUE, qp)
        PROVE  Inv'
    BY <2>1, QpAssumption, EstimateInv
  <2>2. CASE Estimate(FALSE, SliceQp)
    BY <2>2, QpAssumption, EstimateInv
  <2>3. CASE WriteCtu
    BY <2>3, WriteInv
  <2>4. CASE ReadCtu
    BY <2>4, ReadInv
  <2>5. CASE UNCHANGED vars
    BY <2>5 DEF vars, Inv
  <2> QED BY <2>1, <2>2, <2>3, <2>4, <2>5 DEF Next
<1> QED BY InitInv, <1>1, PTL DEF Spec

\* What was read of a CTU, if anything was.
LEMMA ReadIsGot ==
  ASSUME Inv, NEW c \in Ctus(pic), Read(c)
  PROVE  \E I, X : \E s \in Slices(pic) : \E i \in Places(pic, s) :
           /\ c = At(pic, s, i) /\ SliceOf(pic, c) = s /\ GotOk(pic, coding.wpp, cu, I, got, s, i)
           /\ I[c].ctu = c
<1>1. pic \in Layouts
  BY DEF Inv
<1>2. PICK s \in Slices(pic) : \E i \in Places(pic, s) : c = At(pic, s, i)
  BY <1>1, PlaceExists
<1>3. PICK i \in Places(pic, s) : c = At(pic, s, i)
  BY <1>2
<1>4. PICK I, X : /\ WriteOk(pic, coding.wpp, at, cu, wr, out, I, X)
                  /\ ReadOk(pic, coding, at, cu, I, out, dec, got)
  BY DEF Inv
<1>5. Passed(at, "read", s, i) /\ GotOk(pic, coding.wpp, cu, I, got, s, i)
  BY <1>3, <1>4 DEF ReadOk, Read
<1>6. I[c].ctu = c
  <2>1. Passed(at, "write", s, i)
    BY <1>5 DEF Passed
  <2> QED BY <1>3, <1>4, <2>1 DEF WriteOk, ItemOk
<1> QED BY <1>1, <1>3, <1>5, <1>6, SliceOfPlace

\* The decoder reads every CTU with the context models the writing pass had coded it with,
\* in pictures of every size, divided in whichever way.
THEOREM ContextsAgreeHolds == Spec => []ContextsAgree
<1>1. Inv => ContextsAgree
  <2> SUFFICES ASSUME Inv, NEW c \in Ctus(pic), Read(c)
               PROVE  got[c].item.ctu = c /\ got[c].item.ctx = got[c].ctx
    BY DEF ContextsAgree
  <2> QED BY ReadIsGot DEF GotOk
<1> QED BY SliceCtusInvariant, <1>1, PTL

\* And with the palette and the motion candidates of the search.
THEOREM PredictorsAgreeHolds == Spec => []PredictorsAgree
<1>1. Inv => PredictorsAgree
  <2> SUFFICES ASSUME Inv, NEW c \in Ctus(pic), Read(c)
               PROVE  got[c].lut = cu[c].lut /\ (got[c].plt = cu[c].plt \/ KeepsOldPalette(c))
    BY DEF PredictorsAgree
  <2>1. PICK I, X : \E s \in Slices(pic) : \E i \in Places(pic, s) :
           /\ c = At(pic, s, i) /\ SliceOf(pic, c) = s /\ GotOk(pic, coding.wpp, cu, I, got, s, i)
    BY ReadIsGot
  <2>2. PICK s \in Slices(pic) : \E i \in Places(pic, s) :
           /\ c = At(pic, s, i) /\ SliceOf(pic, c) = s /\ GotOk(pic, coding.wpp, cu, I, got, s, i)
    BY <2>1
  <2>3. PICK i \in Places(pic, s) :
           /\ c = At(pic, s, i) /\ SliceOf(pic, c) = s /\ GotOk(pic, coding.wpp, cu, I, got, s, i)
    BY <2>2
  <2>4. Keeps(pic, coding.wpp, s) => KeepsOldPalette(c)
    <3>1. pic \in Layouts
      BY DEF Inv
    <3>2. IsLeft(pic, At(pic, s, 1))
      BY <3>1, FirstPlace
    <3>3. At(pic, s, 1) = pic.slices[SliceOf(pic, c)][1]
      BY <2>3 DEF At
    <3> QED BY <3>2, <3>3, Restated DEF Keeps, Restarts, KeepsOldPalette, TileStart, IsLeft
  <2> QED BY <2>3, <2>4 DEF GotOk
<1> QED BY SliceCtusInvariant, <1>1, PTL

\* And dequantizes it, in the first tile of its slice, with the QP it was quantized with.
THEOREM QpReceivedHolds == Spec => []QpReceived
<1>1. Inv => QpReceived
  <2> SUFFICES ASSUME Inv, NEW c \in Ctus(pic), Read(c), FirstTile(c)
               PROVE  got[c].qp = cu[c].qp
    BY DEF QpReceived
  <2>1. PICK I, X : \E s \in Slices(pic) : \E i \in Places(pic, s) :
           /\ c = At(pic, s, i) /\ SliceOf(pic, c) = s /\ GotOk(pic, coding.wpp, cu, I, got, s, i)
    BY ReadIsGot
  <2>2. PICK s \in Slices(pic) : \E i \in Places(pic, s) :
           /\ c = At(pic, s, i) /\ SliceOf(pic, c) = s /\ GotOk(pic, coding.wpp, cu, I, got, s, i)
    BY <2>1
  <2> QED BY <2>2 DEF GotOk, FirstTile, InFirst, At
<1> QED BY SliceCtusInvariant, <1>1, PTL

(* ------------------------------- how many sub-streams ------------------------------- *)

\* As many as places of the slice end one.
LEMMA SubsCounted ==
  ASSUME NEW p \in Layouts, NEW w \in BOOLEAN, NEW s \in Slices(p), NEW L, L = Len(p.slices[s])
  PROVE  /\ Sub(p, w, s, L) - 1 = Cardinality(SubstreamStarts(p, s, w))
         /\ Sub(p, w, s, L) - 1 = NumEntryPoints(p, s, w, TRUE)
<1> DEFINE A == {k \in 1..(L - 1) : Ends(p, w, s, k)}
           B == SubstreamStarts(p, s, w)
           C == {i \in 1..(L - 1) : Changes(p, w, p.slices[s][i], p.slices[s][i + 1])}
           f == [k \in A |-> k + 1]
<1>1. L \in Nat /\ L >= 1
  BY LayoutTyped
<1>2. \A k \in 1..(L - 1) : k \in Places(p, s) /\ k < L
  BY <1>1 DEF Places
<1>3. \A k \in 1..(L - 1) :
        /\ Ends(p, w, s, k) <=> Changes(p, w, At(p, s, k), At(p, s, k + 1))
        /\ Ends(p, w, s, k) <=> /\ IsLeft(p, At(p, s, k + 1))
                                /\ CtuIsTileRowBd(p, At(p, s, k + 1)) \/ w
  BY <1>2, GoesOnAt
<1>4. A = C
  BY <1>3 DEF At
<1>5. IsFiniteSet(A)
  <2>1. A \subseteq 1..(L - 1)
    OBVIOUS
  <2>2. IsFiniteSet(1..(L - 1))
    BY <1>1, FS_Interval
  <2> HIDE DEF A
  <2> QED BY <2>1, <2>2, FS_Subset
<1>6. B = {i \in 2..L : IsLeft(p, At(p, s, i)) /\ (CtuIsTileRowBd(p, At(p, s, i)) \/ w)}
  BY DEF SubstreamStarts, IsLeft, At
<1>7. f \in Bijection(A, B)
  <2>1. \A k \in A : k + 1 \in B
    BY <1>1, <1>3, <1>6
  <2>2. \A i \in B : i - 1 \in A /\ (i - 1) + 1 = i
    <3> TAKE i \in B
    <3>1. i \in 2..L /\ IsLeft(p, At(p, s, i)) /\ (CtuIsTileRowBd(p, At(p, s, i)) \/ w)
      BY <1>6
    <3>2. i - 1 \in 1..(L - 1) /\ (i - 1) + 1 = i
      BY <1>1, <3>1
    <3> QED BY <1>3, <3>1, <3>2
  <2>3. \A k, l \in A : k + 1 = l + 1 => k = l
    OBVIOUS
  <2> HIDE DEF A, B
  <2>4. f \in [A -> B] /\ \A k \in A : f[k] = k + 1
    BY <2>1
  <2>5. \A i \in B : \E k \in A : f[k] = i
    BY <2>2, <2>4
  <2> HIDE DEF f
  <2>6. f \in Injection(A, B)
    BY <2>3, <2>4 DEF Injection, IsInjective
  <2>7. f \in Surjection(A, B)
    BY <2>4, <2>5 DEF Surjection
  <2> QED BY <2>6, <2>7 DEF Bijection
<1>8. Cardinality(B) = Cardinality(A) /\ Cardinality(A) \in Nat
  <2>1. ExistsBijection(A, B)
    BY <1>7 DEF ExistsBijection
  <2> HIDE DEF A, B, f
  <2> QED BY <1>5, <2>1, FS_Bijection, FS_CardinalityType
<1>9. Sub(p, w, s, L) = 1 + Cardinality(A) /\ NumEntryPoints(p, s, w, TRUE) = Cardinality(C)
  BY DEF Sub, NumEntryPoints
<1> HIDE DEF A, B, C
<1> DEFINE n == Cardinality(A)
<1>10. n \in Nat => (1 + n) - 1 = n
  OBVIOUS
<1> QED BY <1>4, <1>8, <1>9, <1>10 DEF B


LEMMA FromTo ==
  ASSUME NEW a \in Nat, NEW b \in Nat
  PROVE  /\ IsFiniteSet(a..b) /\ IsFiniteSet(0..(b - 1)) /\ Cardinality(0..(b - 1)) = b
<1>1. a \in Int /\ b \in Int /\ 0 \in Int /\ b - 1 \in Int
  OBVIOUS
<1>2. IsFiniteSet(a..b)
  BY ONLY <1>1, FS_Interval
<1>3. IsFiniteSet(0..(b - 1)) /\ Cardinality(0..(b - 1)) = IF 0 > b - 1 THEN 0 ELSE (b - 1) - 0 + 1
  BY ONLY <1>1, FS_Interval
<1>4. (IF 0 > b - 1 THEN 0 ELSE (b - 1) - 0 + 1) = b
  OBVIOUS
<1> QED BY <1>2, <1>3, <1>4

\* A CTU's column and row tell it from the others.
LEMMA RowAndColumn ==
  ASSUME NEW w \in Nat, NEW h \in Nat, NEW c \in 0..(w * h - 1)
  PROVE  /\ c % w \in 0..(w - 1) /\ c \div w \in 0..(h - 1)
         /\ c = w * (c \div w) + (c % w)
<1> DEFINE q == c \div w  r == c % w  n == w * h
<1>1. n \in Int /\ c \in Int /\ 0 <= c /\ c < n
  <2>1. w * h \in Int
    OBVIOUS
  <2> HIDE DEF n
  <2>2. c \in 0..(n - 1) /\ n \in Int
    BY <2>1 DEF n
  <2> QED BY ONLY <2>2
<1>2. w > 0
  <2>1. w = 0 => w * h = 0
    OBVIOUS
  <2>2. n # 0
    BY <1>1
  <2> QED BY <2>1, <2>2
<1>3. q \in Int /\ r \in 0..(w - 1) /\ c = w * q + r
  BY ONLY <1>1, <1>2, w \in Nat
<1>4. q >= 0
  BY ONLY <1>1, <1>2, w \in Nat
<1>5. q < h
  <2> SUFFICES ASSUME q >= h
               PROVE  FALSE
    BY <1>3
  <2> HIDE DEF q, r
  <2> DEFINE d == q - h
  <2>1. d \in Nat /\ q = h + d
    BY <1>3
  <2> HIDE DEF d
  <2>2. w * q = w * h + w * d /\ w * d \in Nat
    BY ONLY <2>1, w \in Nat, h \in Nat
  <2> DEFINE a == w * q  b == w * d
  <2>3. a = n + b /\ b \in Nat
    BY <2>2
  <2>4. c = a + r
    BY <1>3
  <2> HIDE DEF a, b, n
  <2> QED BY ONLY <1>1, <1>3, <2>3, <2>4
<1> QED BY <1>3, <1>4, <1>5

\* The tile of a CTU.
LEMMA TileOfCtu ==
  ASSUME NEW p \in Layouts, NEW c \in Ctus(p)
  PROVE  /\ CtuToTile(p.colBd, CtuX(p, c)) \in 0..(NumCols(p) - 1)
         /\ CtuToTile(p.rowBd, CtuY(p, c)) \in 0..(NumRows(p) - 1)
         /\ CtuY(p, c) \in 0..(p.h - 1) /\ CtuX(p, c) \in 0..(p.w - 1)
         /\ c = p.w * CtuY(p, c) + CtuX(p, c)
         /\ NumCols(p) \in Nat /\ NumRows(p) \in Nat
<1>1. InTiles(p.colBd, p.w) /\ InTiles(p.rowBd, p.h)
  BY LayoutAssumption
<1>2. ASSUME NEW bd, NEW n, InTiles(bd, n), NEW x \in 0..(n - 1)
      PROVE  CtuToTile(bd, x) \in 0..(Last0(bd) - 1) /\ Last0(bd) \in Nat
  <2>1. \E i \in 0..(Last0(bd) - 1) : bd[i] <= x /\ x < bd[i + 1]
    BY <1>2 DEF InTiles
  <2> QED BY <1>2, <2>1 DEF CtuToTile, InTiles
<1>3. /\ CtuX(p, c) \in 0..(p.w - 1) /\ CtuY(p, c) \in 0..(p.h - 1)
      /\ c = p.w * CtuY(p, c) + CtuX(p, c)
  <2>1. c \in 0..(p.w * p.h - 1) /\ p.w \in Nat /\ p.h \in Nat
    BY LayoutTyped DEF Ctus
  <2> QED BY <2>1, RowAndColumn DEF CtuX, CtuY
<1>4. CtuToTile(p.colBd, CtuX(p, c)) \in 0..(Last0(p.colBd) - 1) /\ Last0(p.colBd) \in Nat
  BY <1>1, <1>2, <1>3
<1>5. CtuToTile(p.rowBd, CtuY(p, c)) \in 0..(Last0(p.rowBd) - 1) /\ Last0(p.rowBd) \in Nat
  BY <1>1, <1>2, <1>3
<1> QED BY <1>3, <1>4, <1>5 DEF NumCols, NumRows

\* The CTUs that begin a sub-stream, and what is told apart by: their row of tiles or, with
\* wavefronts, of CTUs, and their column of tiles.
Begin(p, w, s, i) == IsLeft(p, At(p, s, i)) /\ (i = 1 \/ CtuIsTileRowBd(p, At(p, s, i)) \/ w)
BeginsIn(p, w, s, i) ==
  <<IF w THEN CtuY(p, At(p, s, i)) ELSE CtuToTile(p.rowBd, CtuY(p, At(p, s, i))),
    CtuToTile(p.colBd, CtuX(p, At(p, s, i)))>>

LEMMA BeginsApart ==
  ASSUME NEW p \in Layouts, NEW w \in BOOLEAN, NEW s \in Slices(p),
         NEW i \in Places(p, s), NEW j \in Places(p, s), i < j,
         Begin(p, w, s, i), Begin(p, w, s, j)
  PROVE  BeginsIn(p, w, s, i) # BeginsIn(p, w, s, j)
<1> DEFINE c == At(p, s, i)  d == At(p, s, j)
<1>1. c \in Ctus(p) /\ d \in Ctus(p)
  BY LayoutTyped
<1>2. CASE w
  <2> SUFFICES ASSUME CtuY(p, c) = CtuY(p, d), CtuToTile(p.colBd, CtuX(p, c)) = CtuToTile(p.colBd, CtuX(p, d))
               PROVE  FALSE
    BY <1>2 DEF BeginsIn
  <2>1. CtuX(p, c) = CtuX(p, d)
    BY DEF Begin, IsLeft, CtuIsTileColBd
  <2>2. c = p.w * CtuY(p, c) + CtuX(p, c) /\ d = p.w * CtuY(p, d) + CtuX(p, d)
    BY <1>1, TileOfCtu
  <2>3. c = d
    BY <2>1, <2>2
  <2>4. i = j
    BY <2>3, PlaceUnique
  <2> QED BY <2>4 DEF Places
<1>3. CASE ~w
  <2>1. i \in Int /\ j \in Int /\ i >= 1 /\ j <= Len(p.slices[s]) /\ Len(p.slices[s]) \in Nat
    BY LayoutTyped DEF Places
  <2>2. j - 1 \in 1..(Len(p.slices[s]) - 1) /\ (j - 1) + 1 = j /\ i \in 1..(j - 1) /\ j # 1
    BY <2>1
  <2>3. GoesOn(p, p.slices[s], j - 1)
    BY <2>2, LayoutAssumption DEF WholeRows, Slices
  <2>4. CtuIsTileColBd(p, p.slices[s][j]) /\ CtuIsTileRowBd(p, p.slices[s][j])
    BY <1>3, <2>2 DEF Begin, IsLeft, At
  <2>5. \A k \in 1..(j - 1) : TileIdx(p, p.slices[s][k]) # TileIdx(p, p.slices[s][j])
    BY <2>2, <2>3, <2>4 DEF GoesOn
  <2>6. TileIdx(p, c) # TileIdx(p, d)
    BY <2>2, <2>5 DEF At
  <2> QED BY <1>3, <2>6 DEF TileIdx, BeginsIn
<1> QED BY <1>2, <1>3

\* No more of them than bitstreams are allocated for the picture.
LEMMA SubsBounded ==
  ASSUME NEW p \in Layouts, NEW w \in BOOLEAN, NEW s \in Slices(p), NEW L, L = Len(p.slices[s])
  PROVE  Sub(p, w, s, L) <= NumSubstreams(p, w)
<1> DEFINE B == SubstreamStarts(p, s, w)
           S == B \cup {1}
           m == IF w THEN p.h ELSE NumRows(p)
           Rows == 0..(m - 1)
           Cols == 0..(NumCols(p) - 1)
           f == [i \in S |-> BeginsIn(p, w, s, i)]
<1>1. L \in Nat /\ L >= 1 /\ p.h \in Nat
  BY LayoutTyped
<1>2. B \subseteq 2..L
  BY DEF SubstreamStarts
<1>3. IsFiniteSet(B) /\ 1 \notin B
  <2>1. IsFiniteSet(2..L)
    BY <1>1, FromTo
  <2>2. 1 \notin 2..L
    OBVIOUS
  <2> HIDE DEF B
  <2>3. IsFiniteSet(B)
    BY <1>2, <2>1, FS_Subset
  <2> QED BY <1>2, <2>2, <2>3
<1>4. \A i \in S : i \in Places(p, s) /\ Begin(p, w, s, i) /\ i \in Int
  <2>1. ASSUME NEW i \in B
        PROVE  i \in Places(p, s) /\ Begin(p, w, s, i) /\ i \in Int
    <3>1. i \in 2..L /\ CtuIsTileColBd(p, p.slices[s][i]) /\ (CtuIsTileRowBd(p, p.slices[s][i]) \/ w)
      BY DEF SubstreamStarts
    <3> QED BY <1>1, <3>1 DEF Places, Begin, IsLeft, At
  <2>2. 1 \in Places(p, s) /\ Begin(p, w, s, 1)
    BY FirstPlace DEF Begin
  <2> QED BY <2>1, <2>2
<1>5. Sub(p, w, s, L) = Cardinality(S)
  <2>1. Cardinality(S) = Cardinality(B) + 1 /\ Cardinality(B) \in Nat
    <3> HIDE DEF B
    <3> QED BY <1>3, FS_AddElement, FS_CardinalityType
  <2>2. Sub(p, w, s, L) - 1 = Cardinality(B)
    BY SubsCounted
  <2>3. Sub(p, w, s, L) \in Nat
    BY <1>1, SubStep
  <2> DEFINE a == Sub(p, w, s, L)  b == Cardinality(B)  e == Cardinality(S)
  <2>4. e = b + 1 /\ b \in Nat /\ a - 1 = b /\ a \in Nat
    BY <2>1, <2>2, <2>3
  <2> HIDE DEF a, b, e
  <2>5. a = e
    BY <2>4
  <2> QED BY <2>5 DEF a, e
<1>6. NumCols(p) \in Nat /\ NumRows(p) \in Nat
  BY LayoutAssumption DEF InTiles, NumCols, NumRows
<1>7. m \in Nat
  BY <1>1, <1>6
<1>8. \A i \in S : BeginsIn(p, w, s, i) \in Rows \X Cols
  <2> TAKE i \in S
  <2>1. At(p, s, i) \in Ctus(p)
    BY <1>4, LayoutTyped
  <2> QED BY <2>1, TileOfCtu DEF BeginsIn
<1>9. \A i, j \in S : BeginsIn(p, w, s, i) = BeginsIn(p, w, s, j) => i = j
  <2> SUFFICES ASSUME NEW i \in S, NEW j \in S, BeginsIn(p, w, s, i) = BeginsIn(p, w, s, j), i # j
               PROVE  FALSE
    OBVIOUS
  <2>1. i < j \/ j < i
    BY <1>4
  <2>2. /\ i \in Places(p, s) /\ Begin(p, w, s, i)
        /\ j \in Places(p, s) /\ Begin(p, w, s, j)
    BY <1>4
  <2> HIDE DEF S
  <2> QED BY <2>1, <2>2, BeginsApart
<1>10. Cardinality(S) <= m * NumCols(p)
  <2>1. IsFiniteSet(Rows) /\ Cardinality(Rows) = m
    <3> HIDE DEF m
    <3> QED BY <1>7, FromTo
  <2>2. IsFiniteSet(Cols) /\ Cardinality(Cols) = NumCols(p)
    <3> DEFINE n == NumCols(p)
    <3>1. n \in Nat
      BY <1>6
    <3> HIDE DEF n
    <3>2. IsFiniteSet(0..(n - 1)) /\ Cardinality(0..(n - 1)) = n
      BY <3>1, FromTo
    <3> QED BY <3>2 DEF n
  <2> HIDE DEF Rows, Cols, S
  <2>3. f \in Injection(S, Rows \X Cols)
    <3>1. f \in [S -> Rows \X Cols] /\ \A i \in S : f[i] = BeginsIn(p, w, s, i)
      BY <1>8
    <3> HIDE DEF f
    <3> QED BY <1>9, <3>1 DEF Injection, IsInjective
  <2>4. IsFiniteSet(Rows \X Cols) /\ Cardinality(Rows \X Cols) = m * NumCols(p)
    BY <2>1, <2>2, FS_Product
  <2> HIDE DEF f, m
  <2>5. Cardinality(S) <= Cardinality(Rows \X Cols)
    BY <2>3, <2>4, FS_Injection
  <2> QED BY <2>4, <2>5
<1>11. Cardinality(S) \in Nat /\ m * NumCols(p) \in Nat
  <2>1. IsFiniteSet(S)
    <3> HIDE DEF B
    <3> QED BY <1>3, FS_AddElement
  <2>2. Cardinality(S) \in Nat
    <3> HIDE DEF S
    <3> QED BY <2>1, FS_CardinalityType
  <2> DEFINE n == NumCols(p)
  <2>3. m \in Nat /\ n \in Nat
    BY <1>6, <1>7
  <2> HIDE DEF m, n
  <2>4. m * n \in Nat
    BY <2>3
  <2> QED BY <2>2, <2>4 DEF n
<1> DEFINE used == m * NumCols(p)  k == Len(p.slices)  e == Cardinality(S)
<1>12. NumSubstreams(p, w) = IF used > k THEN used ELSE k
  BY DEF NumSubstreams
<1>13. used \in Nat /\ k \in Nat /\ e \in Nat /\ e <= used
  BY <1>10, <1>11, LayoutTyped
<1> HIDE DEF used, k, e, S
<1>14. e <= NumSubstreams(p, w)
  BY <1>12, <1>13
<1> QED BY <1>5, <1>14 DEF e


\* The sub-streams of every slice are as many as the header has entry points for, no more
\* than were allocated, and the decoder takes all there is in each.
THEOREM SubstreamsReadHolds == Spec => []SubstreamsRead
<1>1. Inv => SubstreamsRead
  <2> SUFFICES ASSUME Inv
               PROVE  SubstreamsRead
    OBVIOUS
  <2>1. pic \in Layouts /\ coding.wpp \in BOOLEAN /\ coding.sized \in BOOLEAN /\ AtOk(pic, at)
    BY DEF Inv
  <2>2. PICK I, X : /\ WriteOk(pic, coding.wpp, at, cu, wr, out, I, X)
                    /\ ReadOk(pic, coding, at, cu, I, out, dec, got)
    BY DEF Inv
  <2>3. ~dec.failed
    BY <2>2 DEF ReadOk
  <2>4. ASSUME NEW s \in 1..Len(pic.slices), Written(s)
        PROVE  /\ Len(out[s]) - 1 = Cardinality(SubstreamStarts(pic, s, coding.wpp))
               /\ Len(out[s]) <= NumSubstreams(pic, coding.wpp)
               /\ coding.sized => Len(out[s]) - 1 = NumEntryPoints(pic, s, coding.wpp, coding.sized)
    <3> DEFINE L == Len(pic.slices[s])
    <3>1. s \in Slices(pic)
      BY DEF Slices
    <3>2. Passed(at, "write", s, L)
      BY <2>4 DEF Written, Passed
    <3>3. Len(out[s]) = Sub(pic, coding.wpp, s, L)
      BY <2>2, <3>1, <3>2 DEF WriteOk
    <3>4. /\ Sub(pic, coding.wpp, s, L) - 1 = Cardinality(SubstreamStarts(pic, s, coding.wpp))
          /\ Sub(pic, coding.wpp, s, L) - 1 = NumEntryPoints(pic, s, coding.wpp, TRUE)
      BY <2>1, <3>1, SubsCounted
    <3>5. Sub(pic, coding.wpp, s, L) <= NumSubstreams(pic, coding.wpp)
      BY <2>1, <3>1, SubsBounded
    <3>6. coding.sized => coding.sized = TRUE
      BY <2>1
    <3> HIDE DEF L
    <3> QED BY <3>3, <3>4, <3>5, <3>6
  <2>5. LastRead > 0 => AllTaken(pic, coding, out[LastRead], LastRead, dec.sub, dec.pos)
    <3>1. CASE at.pass = "done"
      BY <2>2, <3>1 DEF LastRead, ReadOk
    <3>2. CASE at.pass = "read" /\ at.idx = 1
      <4>1. at.slice \in Nat
        BY <2>1 DEF AtOk, Slices
      <4>2. LastRead = at.slice - 1
        BY <3>2 DEF LastRead
      <4>3. LastRead > 0 => at.slice > 1
        BY <4>1, <4>2
      <4>4. at.slice > 1 => AllTaken(pic, coding, out[at.slice - 1], at.slice - 1, dec.sub, dec.pos)
        BY <2>2, <3>2 DEF ReadOk
      <4> QED BY <4>2, <4>3, <4>4
    <3>3. CASE at.pass # "done" /\ ~(at.pass = "read" /\ at.idx = 1)
      BY <3>3 DEF LastRead
    <3> QED BY <3>1, <3>2, <3>3
  <2>6. \A n : Received(n) = Cut(pic, coding, out[n], n)
    BY DEF Received, Cut
  <2>7. LastRead > 0 => /\ dec.sub = Len(Received(LastRead))
                        /\ dec.pos = Len(Received(LastRead)[dec.sub])
    BY <2>5, <2>6 DEF AllTaken
  <2> QED BY <2>3, <2>4, <2>7 DEF SubstreamsRead
<1> QED BY SliceCtusInvariant, <1>1, PTL
=============================================================================
