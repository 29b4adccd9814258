--------------------------- MODULE SliceData_proofs ---------------------------
(* NAL units and the slices in them.  For RBSPs of every length over every set *)
(* of bytes: the NAL unit holds no start code, and the reader accepts it and   *)
(* gets the RBSP back.  For every payload, every cut into sub-streams and      *)
(* every number of zero words: the entry points the encoder predicts lead to   *)
(* the ends of the sub-streams in the NAL unit, and the decoder takes the      *)
(* sub-streams out.                                                            *)
EXTENDS SliceData, SequenceTheorems, FiniteSetTheorems, WellFoundedInduction, TLAPS

(* -------------------------------- the NAL unit -------------------------------- *)

\* The last k of the first n bytes of s are zero, and not the one before them.
Zeros(s, n, k) ==
  /\ k \in {0, 1, 2}
  /\ k <= n
  /\ k >= 1 => s[n] = 0
  /\ k = 2 => s[n - 1] = 0
  /\ n > k => s[n - k] # 0

\* A byte 3 is inserted behind place i for byte v.
Stuffed(m, i, v) == i >= 2 /\ m[i] = 0 /\ m[i - 1] = 0 /\ v <= 3

Windows(m) ==
  \A i \in 1..Len(m) - 2 : ~(m[i] = 0 /\ m[i+1] = 0 /\ m[i+2] <= 2)

\* The bytes m of a NAL unit hold the data d at the places p: this is the
\* strengthening, since what is inserted depends on the bytes before it only.
Chain(m, p, d) ==
  /\ m \in Seq(Nat) /\ p \in Seq(Nat) /\ d \in Seq(Nat)
  /\ Len(p) = Len(d) /\ Len(p) >= 2 /\ p[1] = 1
  /\ Len(m) = p[Len(p)]
  /\ \A i \in 1..Len(p) : p[i] \in 1..Len(m) /\ m[p[i]] = d[i]
  /\ \A i, k \in 1..Len(p) : i < k => p[i] < p[k]
  /\ \A i \in 1..Len(p) - 1 :
       IF Stuffed(m, p[i], d[i+1]) THEN p[i+1] = p[i] + 2 /\ m[p[i] + 1] = 3
                                   ELSE p[i+1] = p[i] + 1
  /\ Windows(m)

LEMMA Between ==
  ASSUME NEW x \in Nat, NEW n \in Nat, x + 2 <= n
  PROVE  x + 1 \in 1..n
  OBVIOUS

LEMMA NoWindow ==
  ASSUME NEW m, NEW n \in Nat, n = Len(m), Windows(m), NEW i \in 1..n, i <= n - 2,
         m[i] = 0, m[i+1] = 0, m[i+2] <= 2
  PROVE  FALSE
<1>1. i \in 1..Len(m) - 2
  OBVIOUS
<1> QED BY <1>1 DEF Windows

\* One more byte v, behind an inserted 3 exactly when the bytes before it ask for it.
LEMMA ExtendChain ==
  ASSUME NEW m, NEW p, NEW d, NEW v \in Nat, NEW m2 \in Seq(Nat), NEW n \in Nat, NEW l \in Nat,
         NEW n2 \in Nat, Chain(m, p, d), n = Len(m), l = Len(p),
         n2 = IF Stuffed(m, n, v) THEN n + 2 ELSE n + 1,
         Len(m2) = n2, \A i \in 1..n : m2[i] = m[i], m2[n2] = v,
         Stuffed(m, n, v) => m2[n + 1] = 3,
         Windows(m2)
  PROVE  Chain(m2, Append(p, n2), Append(d, v))
<1> DEFINE p2 == Append(p, n2)
           d2 == Append(d, v)
<1>1. m \in Seq(Nat) /\ p \in Seq(Nat) /\ d \in Seq(Nat)
  BY DEF Chain
<1>2. l = Len(d) /\ l >= 2 /\ p[1] = 1 /\ n = p[l]
  BY DEF Chain
<1>3. \A i \in 1..l : p[i] \in 1..n /\ m[p[i]] = d[i]
  BY DEF Chain
<1>4. \A i, k \in 1..l : i < k => p[i] < p[k]
  BY DEF Chain
<1>5. \A i \in 1..l - 1 :
        IF Stuffed(m, p[i], d[i+1]) THEN p[i+1] = p[i] + 2 /\ m[p[i] + 1] = 3
                                    ELSE p[i+1] = p[i] + 1
  BY DEF Chain
<1>6. /\ p2 \in Seq(Nat) /\ Len(p2) = l + 1 /\ p2[l + 1] = n2
      /\ \A i \in 1..l : p2[i] = p[i]
  BY <1>1
<1>7. /\ d2 \in Seq(Nat) /\ Len(d2) = l + 1 /\ d2[l + 1] = v
      /\ \A i \in 1..l : d2[i] = d[i]
  BY <1>1, <1>2
<1> HIDE DEF p2, d2
<1>8. ASSUME NEW j \in 1..n, NEW b
      PROVE  Stuffed(m2, j, b) <=> Stuffed(m, j, b)
  <2>1. m2[j] = m[j] /\ (j >= 2 => m2[j-1] = m[j-1])
    OBVIOUS
  <2> QED BY <2>1 DEF Stuffed
<1>9. n2 > n /\ n >= 1
  BY <1>2, <1>3
<1>10. \A i \in 1..l + 1 : p2[i] \in 1..n2 /\ m2[p2[i]] = d2[i]
  <2> SUFFICES ASSUME NEW i \in 1..l + 1 PROVE p2[i] \in 1..n2 /\ m2[p2[i]] = d2[i]
    OBVIOUS
  <2>1. CASE i = l + 1
    <3>1. p2[i] = n2 /\ d2[i] = v
      BY <1>6, <1>7, <2>1
    <3>2. n2 \in 1..n2
      BY <1>9
    <3> QED BY <3>1, <3>2
  <2>2. CASE i # l + 1
    <3>1. i \in 1..l BY <2>2
    <3>2. p2[i] = p[i] /\ d2[i] = d[i]
      BY <1>6, <1>7, <3>1
    <3>3. p[i] \in 1..n /\ m[p[i]] = d[i]
      BY <1>3, <3>1
    <3>4. p[i] \in 1..n2 /\ m2[p[i]] = m[p[i]]
      BY <1>9, <3>3, SMTT(20)
    <3> QED BY <3>2, <3>3, <3>4
  <2> QED BY <2>1, <2>2
<1>11. \A i, k \in 1..l + 1 : i < k => p2[i] < p2[k]
  <2> SUFFICES ASSUME NEW i \in 1..l + 1, NEW k \in 1..l + 1, i < k PROVE p2[i] < p2[k]
    OBVIOUS
  <2>1. i \in 1..l
    OBVIOUS
  <2>2. CASE k = l + 1
    <3>1. p2[i] = p[i] /\ p[i] \in 1..n /\ p2[k] = n2
      BY <1>3, <1>6, <2>1, <2>2
    <3> QED BY <1>9, <3>1
  <2>3. CASE k # l + 1
    <3>1. k \in 1..l BY <2>3
    <3> QED BY <1>4, <1>6, <2>1, <3>1
  <2> QED BY <2>2, <2>3
<1>12. \A i \in 1..l :
         IF Stuffed(m2, p2[i], d2[i+1]) THEN p2[i+1] = p2[i] + 2 /\ m2[p2[i] + 1] = 3
                                        ELSE p2[i+1] = p2[i] + 1
  <2> SUFFICES ASSUME NEW i \in 1..l
               PROVE  IF Stuffed(m2, p2[i], d2[i+1]) THEN p2[i+1] = p2[i] + 2 /\ m2[p2[i] + 1] = 3
                                                     ELSE p2[i+1] = p2[i] + 1
    OBVIOUS
  <2>1. p2[i] = p[i] /\ p[i] \in 1..n /\ (Stuffed(m2, p2[i], d2[i+1]) <=> Stuffed(m, p[i], d2[i+1]))
    BY <1>3, <1>6, <1>8
  <2>2. CASE i = l
    <3>1. p2[i] = n /\ p2[i+1] = n2 /\ d2[i+1] = v
      BY <1>2, <1>6, <1>7, <2>2
    <3> QED BY <2>1, <3>1
  <2>3. CASE i # l
    <3>1. i \in 1..l - 1 /\ i + 1 \in 1..l
      BY <2>3
    <3>2. p2[i+1] = p[i+1] /\ d2[i+1] = d[i+1] /\ p[i+1] \in 1..n
      BY <1>3, <1>6, <1>7, <3>1
    <3>3. IF Stuffed(m, p[i], d[i+1]) THEN p[i+1] = p[i] + 2 /\ m[p[i] + 1] = 3
                                      ELSE p[i+1] = p[i] + 1
      BY <1>5, <3>1
    <3>4. p[i+1] = p[i] + 2 => m2[p[i] + 1] = m[p[i] + 1]
      <4> SUFFICES ASSUME p[i+1] = p[i] + 2 PROVE m2[p[i] + 1] = m[p[i] + 1]
        OBVIOUS
      <4>1. p[i] \in Nat /\ p[i] + 2 <= n
        <5>1. PICK x \in 1..n : x = p[i]
          BY <2>1
        <5>2. PICK y \in 1..n : y = p[i+1]
          BY <3>2
        <5>3. y = x + 2
          BY <5>1, <5>2
        <5>4. x \in Nat /\ x + 2 <= n
          BY <5>3
        <5> QED BY <5>1, <5>4
      <4>2. p[i] + 1 \in 1..n
        BY <4>1, Between, Zenon
      <4> QED BY <4>2
    <3> QED BY <2>1, <3>2, <3>3, <3>4
  <2> QED BY <2>2, <2>3
<1>13. p2[1] = 1
  <2>1. 1 \in 1..l
    BY <1>2
  <2> QED BY <1>2, <1>6, <2>1
<1>14. Chain(m2, p2, d2)
  <2>1. m2 \in Seq(Nat) /\ p2 \in Seq(Nat) /\ d2 \in Seq(Nat)
    BY <1>6, <1>7
  <2>4. l + 1 >= 2
    BY <1>2
  <2>2. Len(p2) = Len(d2) /\ Len(p2) >= 2 /\ Len(m2) = p2[Len(p2)]
    BY <1>6, <1>7, <2>4
  <2>3. Len(p2) = l + 1 /\ Len(p2) - 1 = l
    BY <1>6
  <2> QED BY <1>10, <1>11, <1>12, <1>13, <2>1, <2>2, <2>3 DEF Chain
<1> QED BY <1>14 DEF p2, d2

\* PutByte keeps the chain (writeNaluContent).
LEMMA PutByteChain ==
  ASSUME NEW m, NEW p, NEW d, NEW k, NEW v \in Nat, NEW u,
         Chain(m, p, d), Zeros(m, Len(m), k), u = PutByte([nal |-> m, zeroCount |-> k], v)
  PROVE  Chain(u.nal, Append(p, Len(u.nal)), Append(d, v)) /\ Zeros(u.nal, Len(u.nal), u.zeroCount)
<1>1. m \in Seq(Nat) /\ p \in Seq(Nat)
  BY DEF Chain
<1>2. PICK n \in Nat : n = Len(m)
  BY <1>1
<1>3. PICK l \in Nat : l = Len(p)
  BY <1>1
<1>4. k \in {0, 1, 2} /\ n >= 1
  <2>1. l >= 2 /\ n = p[l] /\ p[l] \in 1..n
    BY <1>2, <1>3 DEF Chain
  <2> QED BY <2>1 DEF Zeros
<1>5. Stuffed(m, n, v) <=> k = 2 /\ v <= 3
  BY <1>2, <1>4 DEF Zeros, Stuffed
<1>6. CASE k = 2 /\ v <= 3
  <2>1. u = [nal |-> m \o <<3, v>>, zeroCount |-> IF v = 0 THEN 1 ELSE 0]
    BY <1>6 DEF PutByte
  <2> DEFINE m2 == m \o <<3, v>>
  <2>2. u.nal = m2 /\ u.zeroCount = IF v = 0 THEN 1 ELSE 0
    BY <2>1
  <2>3. /\ m2 \in Seq(Nat) /\ Len(m2) = n + 2 /\ m2[n+1] = 3 /\ m2[n+2] = v
        /\ \A i \in 1..n : m2[i] = m[i]
    BY <1>1, <1>2
  <2> HIDE DEF m2
  <2>4. Zeros(m2, n + 2, u.zeroCount)
    <3>1. CASE v # 0
      BY <1>4, <2>2, <2>3, <3>1 DEF Zeros
    <3>2. CASE v = 0
      <4>1. u.zeroCount = 1 /\ n + 2 > 1 /\ m2[n + 2] = 0 /\ m2[(n + 2) - 1] = 3
        BY <2>2, <2>3, <3>2
      <4> QED BY <1>4, <4>1 DEF Zeros
    <3> QED BY <3>1, <3>2
  <2>5. Windows(m2)
    <3> SUFFICES ASSUME NEW i \in 1..n, m2[i] = 0, m2[i+1] = 0, m2[i+2] <= 2
                 PROVE  FALSE
      BY <2>3 DEF Windows
    <3>1. i <= n - 2
      <4>1. CASE i = n
        <5>1. m2[n+1] = 0 BY <4>1
        <5> QED BY <2>3, <5>1
      <4>2. CASE i = n - 1
        <5>1. m2[(n - 1) + 2] <= 2 BY <4>2
        <5>2. (n - 1) + 2 = n + 1 OBVIOUS
        <5> QED BY <2>3, <5>1, <5>2
      <4> QED BY <4>1, <4>2
    <3>2. m[i] = 0 /\ m[i+1] = 0 /\ m[i+2] <= 2
      BY <2>3, <3>1, SMTT(20)
    <3> QED BY <1>2, <3>1, <3>2, NoWindow, Zenon DEF Chain
  <2>6. Chain(m2, Append(p, n + 2), Append(d, v))
    <3>1. Stuffed(m, n, v) /\ n + 2 \in Nat /\ n + 2 = IF Stuffed(m, n, v) THEN n + 2 ELSE n + 1
      BY <1>5, <1>6
    <3> QED BY <1>2, <1>3, <2>3, <2>5, <3>1, ExtendChain
  <2> QED BY <2>2, <2>3, <2>4, <2>6
<1>7. CASE ~(k = 2 /\ v <= 3)
  <2>1. u = [nal |-> Append(m, v), zeroCount |-> IF v = 0 THEN k + 1 ELSE 0]
    BY <1>7 DEF PutByte
  <2> DEFINE m2 == Append(m, v)
  <2>2. u.nal = m2 /\ u.zeroCount = IF v = 0 THEN k + 1 ELSE 0
    BY <2>1
  <2>3. /\ m2 \in Seq(Nat) /\ Len(m2) = n + 1 /\ m2[n+1] = v
        /\ \A i \in 1..n : m2[i] = m[i]
    BY <1>1, <1>2
  <2> HIDE DEF m2
  <2>4. Zeros(m2, n + 1, u.zeroCount)
    <3>1. /\ k <= n /\ (k >= 1 => m[n] = 0) /\ (k = 2 => m[n - 1] = 0) /\ (n > k => m[n - k] # 0)
      BY <1>2 DEF Zeros
    <3>2. CASE v # 0
      BY <1>4, <2>2, <2>3, <3>2 DEF Zeros
    <3>3. CASE v = 0 /\ k = 0
      BY <1>4, <2>2, <2>3, <3>1, <3>3 DEF Zeros
    <3>4. CASE v = 0 /\ k = 1
      BY <1>4, <2>2, <2>3, <3>1, <3>4, SMTT(20) DEF Zeros
    <3> QED BY <1>4, <1>7, <3>2, <3>3, <3>4
  <2>5. Windows(m2)
    <3> SUFFICES ASSUME NEW i \in 1..n - 1, m2[i] = 0, m2[i+1] = 0, m2[i+2] <= 2
                 PROVE  FALSE
      BY <2>3 DEF Windows
    <3>1. CASE i <= n - 2
      <4>1. m[i] = 0 /\ m[i+1] = 0 /\ m[i+2] <= 2
        BY <2>3, <3>1
      <4>2. i \in 1..n
        OBVIOUS
      <4> QED BY <1>2, <3>1, <4>1, <4>2, NoWindow, Zenon DEF Chain
    <3>2. CASE i = n - 1
      <4>1. m[n-1] = 0 /\ m[n] = 0 /\ v <= 2 /\ n >= 2
        BY <2>3, <3>2
      <4>2. k = 2
        BY <1>2, <4>1 DEF Zeros
      <4> QED BY <1>7, <4>1, <4>2
    <3> QED BY <3>1, <3>2
  <2>6. Chain(m2, Append(p, n + 1), Append(d, v))
    <3>1. ~Stuffed(m, n, v) /\ n + 1 \in Nat /\ n + 1 = IF Stuffed(m, n, v) THEN n + 2 ELSE n + 1
      BY <1>5, <1>7
    <3> QED BY <1>2, <1>3, <2>3, <2>5, <3>1, ExtendChain
  <2> QED BY <2>2, <2>3, <2>4, <2>6
<1> QED BY <1>6, <1>7
(* ---------------------------------- reader ---------------------------------- *)

\* The locations locs are those of the first at bytes that are at none of the places p.
Free(p, x) == \A i \in 1..Len(p) : p[i] # x + 1

Marks(at, locs, p) ==
  /\ \A k \in 1..Len(locs) : locs[k] \in 0..at - 1 /\ Free(p, locs[k])
  /\ \A x \in 0..at - 1 : Free(p, x) => \E k \in 1..Len(locs) : locs[k] = x
  /\ \A k \in 1..Len(locs) - 1 : locs[k] < locs[k+1]

LEMMA MarksPlain ==
  ASSUME NEW at \in Nat, NEW locs \in Seq(Nat), NEW p, Marks(at, locs, p), ~Free(p, at)
  PROVE  Marks(at + 1, locs, p)
<1>1. \A k \in 1..Len(locs) : locs[k] \in 0..at - 1 /\ Free(p, locs[k])
  BY DEF Marks
<1>2. \A k \in 1..Len(locs) : locs[k] \in 0..(at + 1) - 1
  BY <1>1
<1>3. ASSUME NEW x \in 0..(at + 1) - 1, Free(p, x) PROVE \E k \in 1..Len(locs) : locs[k] = x
  <2>1. x # at
    BY <1>3
  <2>2. x \in 0..at - 1
    BY <2>1
  <2> QED BY <1>3, <2>2 DEF Marks
<1> QED BY <1>1, <1>2, <1>3 DEF Marks

LEMMA MarksSkip ==
  ASSUME NEW at \in Nat, NEW locs \in Seq(Nat), NEW p, NEW to \in {at + 1, at + 2},
         Marks(at, locs, p), Free(p, at), to = at + 2 => ~Free(p, at + 1)
  PROVE  Marks(to, Append(locs, at), p)
<1> DEFINE locs2 == Append(locs, at)
<1>0. PICK h \in Nat : h = Len(locs)
  OBVIOUS
<1>1. Len(locs2) = h + 1 /\ locs2[h + 1] = at /\ \A k \in 1..h : locs2[k] = locs[k]
  BY <1>0
<1> HIDE DEF locs2
<1>2. \A k \in 1..h : locs[k] \in 0..at - 1 /\ Free(p, locs[k])
  BY <1>0 DEF Marks
<1>3. ASSUME NEW k \in 1..h + 1 PROVE locs2[k] \in 0..to - 1 /\ Free(p, locs2[k])
  <2>1. CASE k = h + 1
    <3>1. at \in 0..to - 1
      OBVIOUS
    <3> QED BY <1>1, <2>1, <3>1
  <2>2. CASE k # h + 1
    <3>1. k \in 1..h
      BY <2>2
    <3>2. locs2[k] = locs[k] /\ locs[k] \in 0..at - 1 /\ Free(p, locs[k])
      BY <1>1, <1>2, <3>1
    <3>3. 0..at - 1 \subseteq 0..to - 1
      OBVIOUS
    <3> QED BY <3>2, <3>3
  <2> QED BY <2>1, <2>2
<1>4. ASSUME NEW x \in 0..to - 1, Free(p, x) PROVE \E k \in 1..h + 1 : locs2[k] = x
  <2>1. CASE x = at
    <3>1. h + 1 \in 1..h + 1
      OBVIOUS
    <3> QED BY <1>1, <2>1, <3>1
  <2>2. CASE x # at
    <3>1. x \in 0..at - 1
      <4>1. CASE to = at + 1
        BY <2>2, <4>1
      <4>2. CASE to = at + 2
        <5>1. x # at + 1
          BY <1>4, <4>2
        <5> QED BY <2>2, <4>2, <5>1
      <4> QED BY <4>1, <4>2
    <3>2. PICK k \in 1..h : locs[k] = x
      BY <1>0, <1>4, <3>1 DEF Marks
    <3>3. k \in 1..h + 1
      OBVIOUS
    <3> QED BY <1>1, <3>2, <3>3
  <2> QED BY <2>1, <2>2
<1>5. ASSUME NEW k \in 1..h PROVE locs2[k] < locs2[k+1]
  <2>1. CASE k = h
    <3>1. locs[k] \in 0..at - 1 /\ locs2[k] = locs[k] /\ locs2[k+1] = at
      BY <1>1, <1>2, <2>1
    <3> QED BY <3>1
  <2>2. CASE k # h
    <3>1. k \in 1..h - 1 /\ k + 1 \in 1..h
      BY <2>2
    <3>2. locs[k] < locs[k+1]
      BY <1>0, <3>1 DEF Marks
    <3> QED BY <1>1, <3>1, <3>2
  <2> QED BY <2>1, <2>2
<1>6. (h + 1) - 1 = h
  OBVIOUS
<1> QED BY <1>1, <1>3, <1>4, <1>5, <1>6 DEF Marks, locs2

\* The bytes of the NAL unit: those that hold data, with a last 3 behind zero words.
Closed(s, m) ==
  \/ s = m /\ Zeros(m, Len(m), 0)
  \/ s = Append(m, 3) /\ Zeros(m, Len(m), 2)

ReaderState ==
  [at : Nat, zeroCount : Nat, payload : Seq(Nat), locations : Seq(Nat), thrown : BOOLEAN]

\* What the reader has done after some passes of its loop.
Reads(s, p, d, q) ==
  /\ q \in ReaderState
  /\ ~q.thrown
  /\ q.at <= Len(s) /\ Zeros(s, q.at, q.zeroCount)
  /\ Len(q.payload) <= Len(d)
  /\ \A i \in 1..Len(q.payload) : q.payload[i] = d[i]
  /\ \/ Len(q.payload) = 0 /\ q.at = 0
     \/ Len(q.payload) > 0 /\ q.at = p[Len(q.payload)]
     \/ Len(q.payload) = Len(d) /\ q.at = Len(s)
  /\ Marks(q.at, q.locations, p)

LEMMA Ordered ==
  ASSUME NEW m, NEW p, NEW d, Chain(m, p, d), NEW i \in 1..Len(p), NEW k \in 1..Len(p), i < k
  PROVE  p[i] < p[k]
  BY DEF Chain

LEMMA ZerosBound ==
  ASSUME NEW s, NEW n \in Nat, NEW k, Zeros(s, n, k)
  PROVE  k = 2 => n >= 2
  BY DEF Zeros

LEMMA OneLess ==
  ASSUME NEW j \in Nat, NEW i \in 1..j + 1, i # j + 1
  PROVE  i \in 1..j
  OBVIOUS

\* The next byte of data is taken into the payload.
LEMMA TakeReads ==
  ASSUME NEW s \in Seq(Nat), NEW p \in Seq(Nat), NEW d \in Seq(Nat), NEW q, NEW v \in Nat, NEW to \in Nat,
         q \in ReaderState,
         ~q.thrown, to <= Len(s),
         Zeros(s, to, IF v = 0 THEN q.zeroCount + 1 ELSE 0),
         Len(q.payload) < Len(d), d[Len(q.payload) + 1] = v, p[Len(q.payload) + 1] = to,
         \A i \in 1..Len(q.payload) : q.payload[i] = d[i],
         Marks(to, q.locations, p)
  PROVE  Reads(s, p, d, Take(q, v, to))
<1> DEFINE q2 == [q EXCEPT !.at = to, !.zeroCount = IF v = 0 THEN q.zeroCount + 1 ELSE 0,
                           !.payload = Append(@, v)]
           j == Len(q.payload)
<1>1. /\ q2.at = to /\ q2.zeroCount = (IF v = 0 THEN q.zeroCount + 1 ELSE 0)
      /\ q2.payload = Append(q.payload, v) /\ q2.locations = q.locations /\ q2.thrown = q.thrown
      /\ q2 \in ReaderState
  <2> DEFINE z == IF v = 0 THEN q.zeroCount + 1 ELSE 0
             pay == Append(q.payload, v)
  <2>1. z \in Nat /\ pay \in Seq(Nat)
    BY DEF ReaderState
  <2>2. q2 = [q EXCEPT !.at = to, !.zeroCount = z, !.payload = pay]
    BY DEF ReaderState
  <2> HIDE DEF z, pay
  <2>3. [q EXCEPT !.at = to, !.zeroCount = z, !.payload = pay] \in ReaderState
    BY <2>1 DEF ReaderState
  <2> QED BY <2>2, <2>3 DEF ReaderState, z, pay
<1>2. Take(q, v, to) = q2
  BY DEF Take
<1>3. q.payload \in Seq(Nat) /\ j \in Nat
  BY DEF ReaderState
<1> HIDE DEF q2
<1>4. /\ Len(q2.payload) = j + 1 /\ q2.payload[j + 1] = v
      /\ \A i \in 1..j : q2.payload[i] = q.payload[i]
  BY <1>1, <1>3
<1>5. \A i \in 1..j + 1 : q2.payload[i] = d[i]
  <2> SUFFICES ASSUME NEW i \in 1..j + 1 PROVE q2.payload[i] = d[i]
    OBVIOUS
  <2>1. CASE i = j + 1
    BY <1>4, <2>1
  <2>2. CASE i # j + 1
    <3>1. i \in 1..j
      BY <1>3, <2>2, OneLess, Zenon
    <3> QED BY <1>4, <3>1
  <2> QED BY <2>1, <2>2
<1>6. j + 1 <= Len(d) /\ j + 1 > 0
  BY <1>3
<1> QED BY <1>1, <1>2, <1>4, <1>5, <1>6 DEF Reads

\* One pass of the loop of convertPayloadToRBSP: it follows the chain.
LEMMA GetByteReads ==
  ASSUME NEW s, NEW m, NEW p, NEW d, NEW q,
         Chain(m, p, d), Closed(s, m), Reads(s, p, d, q), q.at < Len(s)
  PROVE  Reads(s, p, d, GetByte(s, q))
<1>1. m \in Seq(Nat) /\ p \in Seq(Nat) /\ d \in Seq(Nat)
  BY DEF Chain
<1>2. PICK n \in Nat, l \in Nat : n = Len(m) /\ l = Len(p)
  BY <1>1
<1>3. l = Len(d) /\ l >= 2 /\ p[1] = 1 /\ n = p[l]
  BY <1>2 DEF Chain
<1>4. \A i \in 1..l : p[i] \in 1..n /\ m[p[i]] = d[i]
  BY <1>2 DEF Chain
<1>5. q \in ReaderState /\ ~q.thrown
  BY DEF Reads
<1>6. PICK a \in Nat, k \in {0, 1, 2}, j \in Nat :
        a = q.at /\ k = q.zeroCount /\ j = Len(q.payload)
  BY <1>5 DEF Reads, ReaderState, Zeros
<1>7. PICK ls \in Nat :
        /\ ls = Len(s) /\ s \in Seq(Nat) /\ (\A i \in 1..n : s[i] = m[i])
        /\ \/ ls = n
           \/ ls = n + 1 /\ s[n + 1] = 3 /\ m[n] = 0 /\ m[n - 1] = 0
  <2>1. CASE s = m /\ Zeros(m, Len(m), 0)
    BY <1>1, <1>2, <2>1
  <2>2. CASE s = Append(m, 3) /\ Zeros(m, Len(m), 2)
    <3>1. s \in Seq(Nat) /\ Len(s) = n + 1 /\ s[n + 1] = 3 /\ (\A i \in 1..n : s[i] = m[i])
      BY <1>1, <1>2, <2>2
    <3>2. m[n] = 0 /\ m[n - 1] = 0
      BY <1>2, <2>2 DEF Zeros
    <3>3. n + 1 \in Nat
      OBVIOUS
    <3> QED BY <3>1, <3>2, <3>3
  <2> QED BY <2>1, <2>2 DEF Closed
<1>8. a < ls /\ j <= l /\ Zeros(s, a, k) /\ Marks(a, q.locations, p)
  BY <1>3, <1>6, <1>7 DEF Reads
<1>9. (j = 0 /\ a = 0) \/ (j > 0 /\ a = p[j])
  BY <1>3, <1>6, <1>7, <1>8 DEF Reads
<1>10. \A i \in 1..j : q.payload[i] = d[i]
  BY <1>6 DEF Reads
<1>11. q.locations \in Seq(Nat) /\ q.payload \in Seq(Nat)
  BY <1>5 DEF ReaderState
<1> DEFINE b == s[a + 1]
           skip == k = 2 /\ b = 3
           skipped == [q EXCEPT !.zeroCount = 0, !.locations = Append(@, a)]
<1>12. GetByte(s, q) =
         CASE k >= 2 /\ b < 3 -> [q EXCEPT !.thrown = TRUE]
           [] skip /\ a + 2 > ls -> [skipped EXCEPT !.at = @ + 1]
           [] skip /\ a + 2 <= ls ->
                IF s[a + 2] > 3 THEN [q EXCEPT !.thrown = TRUE]
                ELSE Take(skipped, s[a + 2], a + 2)
           [] OTHER -> Take(q, b, a + 1)
  BY <1>6, <1>7 DEF GetByte
<1>13. /\ skipped \in ReaderState /\ skipped.at = a /\ skipped.zeroCount = 0
       /\ skipped.payload = q.payload /\ skipped.locations = Append(q.locations, a)
       /\ ~skipped.thrown
  <2> DEFINE locs == Append(q.locations, a)
  <2>1. locs \in Seq(Nat)
    BY <1>11
  <2>2. skipped = [q EXCEPT !.zeroCount = 0, !.locations = locs]
    OBVIOUS
  <2> HIDE DEF locs
  <2>3. [q EXCEPT !.zeroCount = 0, !.locations = locs] \in ReaderState
    BY <1>5, <2>1 DEF ReaderState
  <2> QED BY <1>5, <1>6, <2>2, <2>3 DEF ReaderState, locs
<1> HIDE DEF skipped, b
<1>14. CASE j < l
  <2> DEFINE x == p[j + 1]
             v == d[j + 1]
  <2>1. j + 1 \in 1..l /\ x \in 1..n /\ x <= ls /\ v = s[x] /\ v \in Nat
    <3>1. j + 1 \in 1..l
      BY <1>14
    <3>2. x \in 1..n /\ m[x] = v /\ v \in Nat
      BY <1>1, <1>3, <1>4, <3>1
    <3> QED BY <1>7, <3>1, <3>2
  <2>2. IF k = 2 /\ v <= 3 THEN x = a + 2 /\ s[a + 1] = 3 ELSE x = a + 1
    <3>1. CASE j = 0
      <4>1. a = 0 /\ x = 1
        BY <1>3, <1>9, <3>1
      <4>2. k = 0
        BY <1>8, <4>1 DEF Zeros
      <4> QED BY <4>1, <4>2
    <3>2. CASE j > 0
      <4>1. a = p[j] /\ j \in 1..l - 1 /\ j \in 1..l
        BY <1>9, <1>14, <3>2
      <4>2. a \in 1..n
        BY <1>4, <4>1
      <4>3. s[a] = m[a] /\ (a >= 2 => s[a - 1] = m[a - 1])
        <5>1. a >= 2 => a - 1 \in 1..n
          BY <4>2
        <5> QED BY <1>7, <4>2, <5>1
      <4>4. Stuffed(m, a, v) <=> k = 2 /\ v <= 3
        BY <1>8, <4>2, <4>3 DEF Stuffed, Zeros
      <4>5. IF Stuffed(m, a, v) THEN x = a + 2 /\ m[a + 1] = 3 ELSE x = a + 1
        BY <1>2, <4>1 DEF Chain
      <4>6. x = a + 2 => m[a + 1] = s[a + 1]
        <5> SUFFICES ASSUME x = a + 2 PROVE m[a + 1] = s[a + 1]
          OBVIOUS
        <5>1. a + 2 <= n
          BY <2>1
        <5>2. a + 1 \in 1..n
          BY <5>1, Between, Zenon
        <5> QED BY <1>7, <5>2
      <4> QED BY <4>4, <4>5, <4>6
    <3> QED BY <3>1, <3>2
  <2>3. ~Free(p, x - 1)
    <3>1. p[j + 1] = (x - 1) + 1 /\ j + 1 \in 1..Len(p)
      BY <1>2, <2>1
    <3> QED BY <3>1 DEF Free
  <2>4. \A i \in 1..Len(q.payload) : q.payload[i] = d[i]
    BY <1>6, <1>10
  <2> HIDE DEF x, v
  <2>5. CASE k = 2 /\ v <= 3
    <3>1. x = a + 2 /\ b = 3 /\ s[a + 2] = v /\ a + 2 <= ls /\ a >= 2
      <4>1. a >= 2
        <5>1. k = 2
          BY <2>5
        <5> QED BY <1>8, <5>1, ZerosBound, Zenon
      <4> QED BY <2>1, <2>2, <2>5, <4>1 DEF b
    <3>2. GetByte(s, q) = Take(skipped, v, a + 2)
      BY <1>12, <2>1, <2>5, <3>1
    <3>3. Free(p, a)
      <4> SUFFICES ASSUME NEW i \in 1..l, p[i] = a + 1 PROVE FALSE
        BY <1>2 DEF Free
      <4>1. j > 0 /\ a = p[j] /\ j \in 1..l
        BY <1>9, <1>14, <3>1
      <4>2. CASE i <= j
        <5>1. p[i] = p[j] \/ p[i] < p[j]
          BY <1>2, <4>1, <4>2, SMTT(20) DEF Chain
        <5> QED BY <4>1, <5>1
      <4>3. CASE i > j
        <5>1. x = p[j+1]
          BY DEF x
        <5>2. i # j + 1
          BY <3>1, <5>1
        <5>3. j + 1 < i /\ i \in 1..Len(p) /\ j + 1 \in 1..Len(p)
          BY <1>2, <2>1, <4>3, <5>2
        <5>4. p[j+1] < p[i]
          BY <5>3, Ordered, Zenon
        <5> QED BY <3>1, <5>1, <5>4
      <4> QED BY <4>2, <4>3
    <3>4. Marks(a + 2, skipped.locations, p)
      <4>1. ~Free(p, a + 1)
        <5>1. x - 1 = a + 1
          BY <3>1
        <5> QED BY <2>3, <5>1
      <4> QED BY <1>8, <1>11, <1>13, <3>3, <4>1, MarksSkip
    <3>5. Zeros(s, a + 2, IF v = 0 THEN skipped.zeroCount + 1 ELSE 0)
      <4>1. s[a + 2] = v /\ s[a + 1] = 3 /\ (a + 2) - 1 = a + 1
        BY <3>1 DEF b
      <4> QED BY <1>13, <3>1, <4>1 DEF Zeros
    <3>6. /\ Len(skipped.payload) < Len(d) /\ d[Len(skipped.payload) + 1] = v
          /\ p[Len(skipped.payload) + 1] = a + 2
      BY <1>3, <1>6, <1>13, <1>14, <3>1 DEF v, x
    <3>7. \A i \in 1..Len(skipped.payload) : skipped.payload[i] = d[i]
      BY <1>13, <2>4
    <3>8. a + 2 \in Nat /\ a + 2 <= Len(s)
      BY <1>7, <3>1
    <3>9. Reads(s, p, d, Take(skipped, v, a + 2))
      BY <1>1, <1>7, <1>13, <2>1, <3>4, <3>5, <3>6, <3>7, <3>8, TakeReads
    <3> QED BY <3>2, <3>9
  <2>6. CASE ~(k = 2 /\ v <= 3)
    <3>1. x = a + 1 /\ b = v /\ a + 1 <= ls
      BY <2>1, <2>2, <2>6 DEF b
    <3>2. ~(k >= 2 /\ b < 3) /\ ~skip
      BY <2>1, <2>6, <3>1
    <3>3. GetByte(s, q) = Take(q, v, a + 1)
      BY <1>12, <3>1, <3>2
    <3>4. Marks(a + 1, q.locations, p)
      <4>1. ~Free(p, a)
        <5>1. x - 1 = a
          BY <3>1
        <5> QED BY <2>3, <5>1
      <4> QED BY <1>8, <1>11, <4>1, MarksPlain
    <3>5. Zeros(s, a + 1, IF v = 0 THEN q.zeroCount + 1 ELSE 0)
      <4>1. s[a + 1] = v
        BY <3>1 DEF b
      <4>2. CASE v # 0
        BY <4>1, <4>2 DEF Zeros
      <4>3. CASE v = 0
        <5>1. k \in {0, 1}
          BY <2>6, <4>3
        <5>2. CASE k = 0
          BY <1>6, <1>8, <4>1, <4>3, <5>2 DEF Zeros
        <5>3. CASE k = 1
          BY <1>6, <1>8, <4>1, <4>3, <5>3 DEF Zeros
        <5> QED BY <5>1, <5>2, <5>3
      <4> QED BY <4>2, <4>3
    <3>6. /\ Len(q.payload) < Len(d) /\ d[Len(q.payload) + 1] = v /\ p[Len(q.payload) + 1] = a + 1
      BY <1>3, <1>6, <1>14, <3>1 DEF v, x
    <3>7. a + 1 \in Nat /\ a + 1 <= Len(s)
      BY <1>7, <3>1
    <3>8. Reads(s, p, d, Take(q, v, a + 1))
      BY <1>1, <1>5, <1>7, <2>1, <2>4, <3>4, <3>5, <3>6, <3>7, TakeReads
    <3> QED BY <3>3, <3>8
  <2> QED BY <2>5, <2>6
<1>15. CASE j = l
  <2>1. j > 0 /\ a = n
    BY <1>3, <1>9, <1>15
  <2>2. ls = n + 1 /\ b = 3 /\ k = 2
    <3>1. ls = n + 1 /\ s[n + 1] = 3 /\ m[n] = 0 /\ m[n - 1] = 0
      BY <1>7, <1>8, <2>1
    <3>2. n >= 2
      <4>1. 1 \in 1..l /\ l \in 1..l /\ 1 < l
        BY <1>3
      <4>2. p[1] < p[l]
        BY <1>2, <4>1 DEF Chain
      <4> QED BY <1>3, <4>2
    <3>3. s[n] = 0 /\ s[n - 1] = 0
      <4>1. n \in 1..n /\ n - 1 \in 1..n
        BY <3>2
      <4> QED BY <1>7, <3>1, <4>1
    <3>4. k = 2
      BY <1>8, <2>1, <3>2, <3>3 DEF Zeros
    <3> QED BY <2>1, <3>1, <3>4 DEF b
  <2> DEFINE q2 == [skipped EXCEPT !.at = @ + 1]
  <2>3. GetByte(s, q) = q2
    BY <1>12, <2>1, <2>2
  <2>4. /\ q2 \in ReaderState /\ ~q2.thrown /\ q2.at = a + 1 /\ q2.zeroCount = 0
        /\ q2.payload = q.payload /\ q2.locations = Append(q.locations, a)
    <3> DEFINE to == a + 1
    <3>1. to \in Nat
      OBVIOUS
    <3>2. q2 = [skipped EXCEPT !.at = to]
      BY <1>13 DEF ReaderState
    <3> HIDE DEF to
    <3>3. [skipped EXCEPT !.at = to] \in ReaderState
      BY <1>13, <3>1 DEF ReaderState
    <3> QED BY <1>13, <3>2, <3>3 DEF ReaderState, to
  <2> HIDE DEF q2
  <2>5. Free(p, a)
    <3> SUFFICES ASSUME NEW i \in 1..l PROVE p[i] # a + 1
      BY <1>2 DEF Free
    <3>1. p[i] \in 1..n
      BY <1>4
    <3> QED BY <2>1, <3>1
  <2>6. Marks(a + 1, Append(q.locations, a), p)
    BY <1>8, <1>11, <2>5, MarksSkip
  <2>7. Zeros(s, a + 1, 0)
    BY <2>1, <2>2 DEF Zeros, b
  <2>8. Len(q.payload) = Len(d) /\ a + 1 = Len(s)
    BY <1>3, <1>6, <1>7, <1>15, <2>1, <2>2
  <2>9. Reads(s, p, d, q2)
    BY <1>6, <1>10, <2>4, <2>6, <2>7, <2>8 DEF Reads
  <2> QED BY <2>3, <2>9
<1> QED BY <1>8, <1>14, <1>15


(* ------------------------------ specification ------------------------------- *)

\* The header, the RBSP and n zero words behind it.
Data(d, b, n) ==
  /\ d \in Seq(Nat) /\ Len(d) = Len(b) + 2 * n
  /\ \A i \in 1..Len(b) : d[i] = b[i]
  /\ \A i \in Len(b) + 1..Len(d) : d[i] = 0

\* The NAL unit holds the data, and the reader has followed it so far.
Core(m, k, d) ==
  /\ Data(d, rbsp, words) /\ Chain(m, place, d) /\ Zeros(m, Len(m), k)
  /\ phase = "write" => words = 0 /\ w.nal = m /\ w.zeroCount = k
  /\ phase # "write" => /\ rbsp[Len(rbsp)] # 0
                        /\ words = 0 => k = 0 /\ w.nal = m
                        /\ words > 0 => k = 2 /\ w.nal = Append(m, 3)
  /\ phase \in {"write", "pad"} => r = Reader
  /\ phase = "read" => Reads(w.nal, place, d, r)
  /\ phase = "done" => r.payload = rbsp /\ ~r.thrown /\ Marks(r.at, r.locations, place)

IInv == Len(rbsp) >= 1 /\ \E m, k, d : Core(m, k, d)

LEMMA CoreClosed ==
  ASSUME NEW m, NEW k, NEW d, Core(m, k, d), TypeOK, phase # "write"
  PROVE  Closed(w.nal, m)
<1>1. words \in Nat
  BY DEF TypeOK
<1>2. CASE words = 0
  BY <1>2 DEF Core, Closed
<1>3. CASE words > 0
  BY <1>3 DEF Core, Closed
<1> QED BY <1>1, <1>2, <1>3

\* The types: bytes in, bytes out; the counter of the writer goes 0, 1, 2, 1.
LEMMA PutByteTyped ==
  ASSUME NEW u \in [nal : Seq(Byte), zeroCount : 0..2], NEW v \in Byte
  PROVE  PutByte(u, v) \in [nal : Seq(Byte), zeroCount : 0..2]
<1>1. 3 \in Byte
  BY DEF Byte
<1>2. u.nal \o <<3, v>> \in Seq(Byte) /\ Append(u.nal, v) \in Seq(Byte)
  BY <1>1
<1>3. CASE u.zeroCount = 2 /\ v <= 3
  BY <1>2, <1>3 DEF PutByte
<1>4. CASE u.zeroCount = 2 /\ ~(v <= 3)
  <2>1. v # 0
    BY <1>4
  <2> QED BY <1>2, <1>4, <2>1 DEF PutByte
<1>5. CASE u.zeroCount # 2
  <2>1. u.zeroCount + 1 \in 0..2
    BY <1>5
  <2> QED BY <1>2, <1>5, <2>1 DEF PutByte
<1> QED BY <1>3, <1>4, <1>5

LEMMA TakeTyped ==
  ASSUME NEW q \in ReaderType, NEW v \in Byte, NEW to \in Nat
  PROVE  Take(q, v, to) \in ReaderType
<1> DEFINE z == IF v = 0 THEN q.zeroCount + 1 ELSE 0
           pay == Append(q.payload, v)
<1>1. z \in Nat /\ pay \in Seq(Byte)
  BY DEF ReaderType
<1>2. Take(q, v, to) = [q EXCEPT !.at = to, !.zeroCount = z, !.payload = pay]
  BY DEF Take, ReaderType
<1> HIDE DEF z, pay
<1> QED BY <1>1, <1>2 DEF ReaderType

LEMMA GetByteTyped ==
  ASSUME NEW s \in Seq(Byte), NEW q \in ReaderType, q.at < Len(s)
  PROVE  GetByte(s, q) \in ReaderType
<1>1. q.at \in Nat /\ q.locations \in Seq(Nat) /\ q.zeroCount \in Nat
  BY DEF ReaderType
<1>2. PICK a \in Nat, n \in Nat : a = q.at /\ n = Len(s)
  BY <1>1
<1>3. s[a + 1] \in Byte /\ (a + 2 <= n => s[a + 2] \in Byte)
  <2>1. a + 1 \in 1..n /\ (a + 2 <= n => a + 2 \in 1..n)
    BY <1>2
  <2> QED BY <1>2, <2>1
<1> DEFINE locs == Append(q.locations, a)
           skipped == [q EXCEPT !.zeroCount = 0, !.locations = locs]
           stopped == [q EXCEPT !.thrown = TRUE]
           to == a + 1
           ended == [skipped EXCEPT !.at = to]
<1>4. locs \in Seq(Nat) /\ to \in Nat /\ a + 2 \in Nat
  BY <1>1
<1>5. /\ q.at + 1 = to /\ q.at + 2 = a + 2
      /\ [q EXCEPT !.zeroCount = 0, !.locations = Append(@, q.at)] = skipped
  BY <1>2 DEF ReaderType
<1> HIDE DEF locs, to
<1>6. skipped \in ReaderType /\ stopped \in ReaderType
  BY <1>4 DEF ReaderType
<1>7. ended \in ReaderType /\ [skipped EXCEPT !.at = @ + 1] = ended
  <2>1. skipped.at + 1 = to
    BY <1>5 DEF ReaderType
  <2> QED BY <1>4, <1>6, <2>1 DEF ReaderType
<1> HIDE DEF skipped, stopped, ended
<1>8. \/ GetByte(s, q) = stopped
      \/ GetByte(s, q) = ended
      \/ a + 2 <= n /\ GetByte(s, q) = Take(skipped, s[a + 2], a + 2)
      \/ GetByte(s, q) = Take(q, s[a + 1], to)
  <2> DEFINE b == s[a + 1]
             skip == q.zeroCount = 2 /\ b = 3
             c == s[a + 2]
  <2>1. GetByte(s, q) =
          CASE q.zeroCount >= 2 /\ b < 3 -> stopped
            [] skip /\ a + 2 > n -> ended
            [] skip /\ a + 2 <= n -> IF c > 3 THEN stopped ELSE Take(skipped, c, a + 2)
            [] OTHER -> Take(q, b, to)
    BY <1>2, <1>5, <1>7 DEF GetByte, stopped, to
  <2> HIDE DEF skip, b, c
  <2>2. \/ q.zeroCount >= 2 /\ b < 3
        \/ ~(q.zeroCount >= 2 /\ b < 3) /\ skip /\ a + 2 > n
        \/ ~(q.zeroCount >= 2 /\ b < 3) /\ skip /\ a + 2 <= n
        \/ ~(q.zeroCount >= 2 /\ b < 3) /\ ~skip
    OBVIOUS
  <2> QED BY <2>1, <2>2 DEF b, c
<1> QED BY <1>3, <1>4, <1>6, <1>7, <1>8, TakeTyped

LEMMA PairOf ==
  ASSUME NEW S, NEW T, NEW x \in S \X T
  PROVE  \E a \in S, b \in T : x = <<a, b>>
  BY SMT

LEMMA TypeInit ==
  ASSUME Init
  PROVE  TypeOK
<1> DEFINE S == 0..255
           T == 1..255
<1>0. rbsp \in S \X T
  BY NalAssumption DEF Init
<1> HIDE DEF S, T
<1>1. PICK a \in S, b \in T : rbsp = <<a, b>>
  BY <1>0, PairOf
<1>2. rbsp \in Seq(Byte) /\ <<1, 2>> \in Seq(Nat)
  <2>1. a \in Byte /\ b \in Byte
    BY <1>1 DEF S, T, Byte
  <2> QED BY <1>1, <2>1
<1>3. Reader \in ReaderType
  BY DEF Reader, ReaderType
<1> QED BY <1>2, <1>3 DEF Init, TypeOK

LEMMA BytesNat ==
  ASSUME NEW s \in Seq(Byte)
  PROVE  s \in Seq(Nat)
<1>1. Byte \subseteq Nat
  BY DEF Byte
<1> QED BY <1>1, SeqMonotonic

\* The bytes of a zero word, regrouped as PutByte puts them.
LEMMA Regroup ==
  ASSUME NEW m \in Seq(Nat)
  PROVE  /\ m \o <<0, 0, 3>> = Append(m, 0) \o <<0, 3>>
         /\ Append(m, 3) \o <<0, 0, 3>> = (m \o <<3, 0>>) \o <<0, 3>>
<1>1. PICK n \in Nat : n = Len(m)
  OBVIOUS
<1>2. m \o <<0, 0, 3>> = Append(m, 0) \o <<0, 3>>
  <2> DEFINE a == m \o <<0, 0, 3>>
             b == Append(m, 0) \o <<0, 3>>
  <2>1. a \in Seq(Nat) /\ b \in Seq(Nat) /\ Len(a) = n + 3 /\ Len(b) = n + 3
    BY <1>1
  <2>2. \A i \in 1..n + 3 : a[i] = b[i]
    BY <1>1
  <2> HIDE DEF a, b
  <2>3. a = b
    BY <2>1, <2>2, SeqEqual
  <2> QED BY <2>3 DEF a, b
<1>3. Append(m, 3) \o <<0, 0, 3>> = (m \o <<3, 0>>) \o <<0, 3>>
  <2> DEFINE a == Append(m, 3) \o <<0, 0, 3>>
             b == (m \o <<3, 0>>) \o <<0, 3>>
  <2>1. a \in Seq(Nat) /\ b \in Seq(Nat) /\ Len(a) = n + 4 /\ Len(b) = n + 4
    BY <1>1
  <2>2. \A i \in 1..n + 4 : a[i] = b[i]
    BY <1>1
  <2> HIDE DEF a, b
  <2>3. a = b
    BY <2>1, <2>2, SeqEqual
  <2> QED BY <2>3 DEF a, b
<1> QED BY <1>2, <1>3

LEMMA InitCore ==
  ASSUME Init
  PROVE  IInv
<1> DEFINE S == 0..255
           T == 1..255
<1>0. rbsp \in S \X T
  BY NalAssumption DEF Init
<1> HIDE DEF S, T
<1>1. PICK a \in S, b \in T : rbsp = <<a, b>>
  BY <1>0, PairOf
<1> DEFINE p == <<1, 2>>
<1>2. /\ rbsp \in Seq(Nat) /\ Len(rbsp) = 2 /\ rbsp[2] # 0
      /\ p \in Seq(Nat) /\ Len(p) = 2 /\ p[1] = 1 /\ p[2] = 2
  <2>1. a \in Nat /\ b \in Nat /\ b # 0
    BY <1>1 DEF S, T
  <2> QED BY <1>1, <2>1
<1>3. place = p /\ w.nal = rbsp /\ w.zeroCount = 0 /\ words = 0 /\ phase = "write" /\ r = Reader
  BY DEF Init
<1> HIDE DEF p
<1>4. Zeros(rbsp, Len(rbsp), 0)
  BY <1>2 DEF Zeros
<1>5. Windows(rbsp)
  BY <1>2 DEF Windows
<1>6. \A i \in 1..2 : p[i] = i
  BY <1>2
<1>7. /\ \A i \in 1..2 : p[i] \in 1..2 /\ rbsp[p[i]] = rbsp[i]
      /\ \A i, k \in 1..2 : i < k => p[i] < p[k]
  BY <1>6
<1>8. \A i \in 1..2 - 1 :
        IF Stuffed(rbsp, p[i], rbsp[i+1]) THEN p[i+1] = p[i] + 2 /\ rbsp[p[i] + 1] = 3
                                          ELSE p[i+1] = p[i] + 1
  <2> SUFFICES ASSUME NEW i \in 1..2 - 1
               PROVE  ~Stuffed(rbsp, p[i], rbsp[i+1]) /\ p[i+1] = p[i] + 1
    OBVIOUS
  <2>1. i = 1 /\ i + 1 = 2
    OBVIOUS
  <2> QED BY <1>2, <2>1 DEF Stuffed
<1>9. Chain(rbsp, p, rbsp)
  <2>1. Len(p) - 1 = 2 - 1 /\ Len(p) = Len(rbsp) /\ Len(p) >= 2 /\ Len(rbsp) = p[Len(p)]
    BY <1>2
  <2>2. 1..Len(p) = 1..2 /\ 1..Len(p) - 1 = 1..2 - 1 /\ 1..Len(rbsp) = 1..2
    BY <1>2
  <2>3. /\ \A i \in 1..Len(p) : p[i] \in 1..Len(rbsp) /\ rbsp[p[i]] = rbsp[i]
        /\ \A i, k \in 1..Len(p) : i < k => p[i] < p[k]
    BY <1>7, <2>2, Zenon
  <2>4. \A i \in 1..Len(p) - 1 :
          IF Stuffed(rbsp, p[i], rbsp[i+1]) THEN p[i+1] = p[i] + 2 /\ rbsp[p[i] + 1] = 3
                                            ELSE p[i+1] = p[i] + 1
    BY <1>8, <2>2, Zenon
  <2>5. rbsp \in Seq(Nat) /\ p \in Seq(Nat) /\ p[1] = 1
    BY <1>2
  <2> QED BY <1>5, <2>1, <2>3, <2>4, <2>5, Zenon DEF Chain
<1>10. Data(rbsp, rbsp, words)
  <2>1. 1..Len(rbsp) = 1..2 /\ Len(rbsp) + 2 * words = Len(rbsp)
    BY <1>2, <1>3
  <2>2. Len(rbsp) + 1..Len(rbsp) = {}
    BY <1>2
  <2> QED BY <1>2, <2>1, <2>2 DEF Data
<1>11. Core(rbsp, 0, rbsp)
  BY <1>3, <1>4, <1>9, <1>10 DEF Core
<1> QED BY <1>2, <1>11 DEF IInv

\* One more byte of the RBSP.
LEMMA WriteStep ==
  ASSUME TypeOK, IInv, NEW v \in Bytes, WriteByte(v)
  PROVE  IInv'
<1>1. PICK m, k, d : Core(m, k, d)
  BY DEF IInv
<1>2. v \in Nat
  BY NalAssumption
<1>3. /\ phase = "write" /\ phase' = "write" /\ words = 0 /\ words' = 0 /\ r' = r /\ r = Reader
      /\ w.nal = m /\ w.zeroCount = k
  BY <1>1 DEF Core, WriteByte
<1>4. w = [nal |-> m, zeroCount |-> k]
  BY <1>3 DEF TypeOK
<1>5. PICK u : u = PutByte([nal |-> m, zeroCount |-> k], v) /\ w' = u
  BY <1>4 DEF WriteByte
<1> DEFINE d2 == Append(d, v)
<1>6. place' = Append(place, Len(u.nal)) /\ rbsp' = Append(rbsp, v)
  BY <1>5 DEF WriteByte
<1>7. Chain(m, place, d) /\ Zeros(m, Len(m), k) /\ Data(d, rbsp, words)
  BY <1>1 DEF Core
<1>8. Chain(u.nal, place', d2) /\ Zeros(u.nal, Len(u.nal), u.zeroCount)
  BY <1>2, <1>5, <1>6, <1>7, PutByteChain
<1>9. rbsp \in Seq(Nat)
  BY BytesNat DEF TypeOK
<1>10. PICK n \in Nat : n = Len(rbsp)
  BY <1>9
<1>11. /\ d \in Seq(Nat) /\ Len(d) = n /\ (\A i \in 1..n : d[i] = rbsp[i])
  BY <1>3, <1>7, <1>10 DEF Data
<1>12. /\ d2 \in Seq(Nat) /\ Len(d2) = n + 1 /\ Len(rbsp') = n + 1
       /\ d2[n+1] = v /\ rbsp'[n+1] = v
       /\ \A i \in 1..n : d2[i] = d[i] /\ rbsp'[i] = rbsp[i]
  BY <1>2, <1>6, <1>9, <1>10, <1>11
<1> HIDE DEF d2
<1>13. Data(d2, rbsp', words')
  <2>1. \A i \in 1..n + 1 : d2[i] = rbsp'[i]
    <3> SUFFICES ASSUME NEW i \in 1..n + 1 PROVE d2[i] = rbsp'[i]
      OBVIOUS
    <3>1. CASE i = n + 1
      BY <1>12, <3>1
    <3>2. CASE i # n + 1
      <4>1. i \in 1..n
        BY <1>10, <3>2, OneLess, Zenon
      <4> QED BY <1>11, <1>12, <4>1
    <3> QED BY <3>1, <3>2
  <2>2. Len(rbsp') + 2 * words' = n + 1 /\ (n + 1) + 1..n + 1 = {}
    BY <1>3, <1>12
  <2> QED BY <1>12, <2>1, <2>2 DEF Data
<1>14. Core(u.nal, u.zeroCount, d2)'
  BY <1>3, <1>5, <1>8, <1>13 DEF Core
<1>15. Len(rbsp') >= 1
  BY <1>12
<1> QED BY <1>14, <1>15 DEF IInv

\* The NAL unit ends in the byte with the stop bit: nothing is added.
LEMMA EndStep ==
  ASSUME TypeOK, IInv, EndNalUnit
  PROVE  IInv'
<1>1. PICK m, k, d : Core(m, k, d)
  BY DEF IInv
<1>2. /\ phase = "write" /\ phase' = "pad" /\ words = 0 /\ words' = 0 /\ r' = r /\ r = Reader
      /\ w.nal = m /\ w.zeroCount = k /\ rbsp' = rbsp /\ place' = place /\ rbsp[Len(rbsp)] # 0
  BY <1>1 DEF Core, EndNalUnit
<1>3. Chain(m, place, d) /\ Zeros(m, Len(m), k) /\ Data(d, rbsp, words)
  BY <1>1 DEF Core
<1>4. k = 0
  <2>1. PICK n \in Nat : n = Len(rbsp)
    BY DEF TypeOK
  <2>2. n \in 1..n /\ Len(d) = n
    BY <1>2, <1>3, <2>1 DEF Data, IInv
  <2>3. m[Len(m)] = d[n]
    <3>1. Len(place) = n /\ Len(m) = place[n] /\ m[place[n]] = d[n]
      BY <1>3, <2>2 DEF Chain
    <3> QED BY <3>1
  <2>4. d[n] # 0
    BY <1>2, <1>3, <2>1, <2>2 DEF Data
  <2> QED BY <1>3, <2>3, <2>4 DEF Zeros
<1>5. w'.nal = m
  BY <1>2, <1>4 DEF EndNalUnit, EndContent, TypeOK
<1>6. Core(m, k, d)'
  BY <1>2, <1>3, <1>4, <1>5 DEF Core
<1> QED BY <1>2, <1>6 DEF IInv

\* A zero word: two bytes of data, and the 3 that ends the NAL unit.
LEMMA PadStep ==
  ASSUME TypeOK, IInv, PadZeroWord
  PROVE  IInv'
<1>1. PICK m, k, d : Core(m, k, d)
  BY DEF IInv
<1>2. /\ phase = "pad" /\ phase' = "pad" /\ words \in Nat /\ words' = words + 1 /\ r' = r /\ r = Reader
      /\ rbsp' = rbsp /\ rbsp[Len(rbsp)] # 0
      /\ place' = place \o <<Len(w.nal) + 1, Len(w.nal) + 2>>
      /\ w'.nal = w.nal \o <<0, 0, 3>>
  BY <1>1 DEF Core, PadZeroWord, TypeOK
<1>3. Chain(m, place, d) /\ Zeros(m, Len(m), k) /\ Data(d, rbsp, words)
  BY <1>1 DEF Core
<1>4. m \in Seq(Nat) /\ place \in Seq(Nat) /\ d \in Seq(Nat)
  BY <1>3 DEF Chain
<1>5. PICK n \in Nat : n = Len(m)
  BY <1>4
<1>6. PICK m1 \in Seq(Nat) :
        /\ PutByte([nal |-> m, zeroCount |-> k], 0) = [nal |-> m1, zeroCount |-> 1]
        /\ Len(m1) = Len(w.nal) + 1
        /\ w'.nal = m1 \o <<0, 3>>
  <2>1. CASE words = 0
    <3>1. k = 0 /\ w.nal = m
      BY <1>1, <1>2, <2>1 DEF Core
    <3>2. PutByte([nal |-> m, zeroCount |-> k], 0) = [nal |-> Append(m, 0), zeroCount |-> 1]
      BY <3>1 DEF PutByte
    <3>3. Append(m, 0) \in Seq(Nat) /\ Len(Append(m, 0)) = Len(m) + 1
      BY <1>4
    <3>4. m \o <<0, 0, 3>> = Append(m, 0) \o <<0, 3>>
      BY <1>4, Regroup
    <3> QED BY <1>2, <3>1, <3>2, <3>3, <3>4
  <2>2. CASE words > 0
    <3>1. k = 2 /\ w.nal = Append(m, 3)
      BY <1>1, <1>2, <2>2 DEF Core
    <3>2. PutByte([nal |-> m, zeroCount |-> k], 0) = [nal |-> m \o <<3, 0>>, zeroCount |-> 1]
      BY <3>1 DEF PutByte
    <3>3. m \o <<3, 0>> \in Seq(Nat) /\ Len(m \o <<3, 0>>) = Len(Append(m, 3)) + 1
      BY <1>4
    <3>4. Append(m, 3) \o <<0, 0, 3>> = (m \o <<3, 0>>) \o <<0, 3>>
      BY <1>4, Regroup
    <3> QED BY <1>2, <3>1, <3>2, <3>3, <3>4
  <2>3. words = 0 \/ words > 0
    BY <1>2
  <2> QED BY <2>1, <2>2, <2>3
<1> DEFINE m2 == Append(m1, 0)
           d1 == Append(d, 0)
           d2 == Append(d1, 0)
<1>7. PutByte([nal |-> m1, zeroCount |-> 1], 0) = [nal |-> m2, zeroCount |-> 2]
  BY DEF PutByte
<1>8. m2 \in Seq(Nat) /\ Len(m2) = Len(w.nal) + 2 /\ w'.nal = Append(m2, 3)
  <2>1. m1 \o <<0, 3>> = Append(Append(m1, 0), 3)
    OBVIOUS
  <2> QED BY <1>6, <2>1
<1> HIDE DEF m2, d1, d2
<1>9. Chain(m1, Append(place, Len(m1)), d1) /\ Zeros(m1, Len(m1), 1)
  <2>1. PICK u : u = PutByte([nal |-> m, zeroCount |-> k], 0) /\ u.nal = m1 /\ u.zeroCount = 1
    BY <1>6
  <2> QED BY <1>3, <2>1, PutByteChain DEF d1
<1>10. Chain(m2, Append(Append(place, Len(m1)), Len(m2)), d2) /\ Zeros(m2, Len(m2), 2)
  <2>1. PICK u : u = PutByte([nal |-> m1, zeroCount |-> 1], 0) /\ u.nal = m2 /\ u.zeroCount = 2
    BY <1>7
  <2> QED BY <1>9, <2>1, PutByteChain DEF d2
<1>11. place' = Append(Append(place, Len(m1)), Len(m2))
  <2>1. place' = place \o <<Len(m1), Len(m2)>>
    BY <1>2, <1>6, <1>8
  <2>2. Len(m1) \in Nat /\ Len(m2) \in Nat
    BY <1>8
  <2> HIDE DEF m2
  <2> QED BY <1>4, <2>1, <2>2
<1>14. Data(d2, rbsp, words + 1)
  <2>1. rbsp \in Seq(Nat)
    BY BytesNat DEF TypeOK
  <2>2. PICK b \in Nat, l \in Nat : b = Len(rbsp) /\ l = Len(d)
    BY <1>4, <2>1
  <2>3. /\ l = b + 2 * words /\ (\A i \in 1..b : d[i] = rbsp[i])
        /\ \A i \in b + 1..l : d[i] = 0
    BY <1>3, <2>2 DEF Data
  <2>4. /\ d2 \in Seq(Nat) /\ Len(d2) = l + 2 /\ d2[l+1] = 0 /\ d2[l+2] = 0
        /\ \A i \in 1..l : d2[i] = d[i]
    BY <1>4, <2>2 DEF d1, d2
  <2>5. Len(d2) = b + 2 * (words + 1) /\ b <= l
    BY <1>2, <2>3, <2>4
  <2>6. ASSUME NEW i \in 1..b PROVE d2[i] = rbsp[i]
    <3>1. i \in 1..l
      BY <2>5
    <3> QED BY <2>3, <2>4, <3>1
  <2>7. ASSUME NEW i \in b + 1..l + 2 PROVE d2[i] = 0
    <3>1. CASE i \in b + 1..l
      <4>1. i \in 1..l
        BY <3>1
      <4> QED BY <2>3, <2>4, <3>1, <4>1
    <3>2. CASE i = l + 1 \/ i = l + 2
      BY <2>4, <3>2
    <3>3. i \in b + 1..l \/ i = l + 1 \/ i = l + 2
      OBVIOUS
    <3> QED BY <3>1, <3>2, <3>3
  <2> QED BY <2>2, <2>4, <2>5, <2>6, <2>7 DEF Data
<1>15. words' > 0 /\ words' # 0
  BY <1>2
<1>16. Core(m2, 2, d2)'
  <2>1. Data(d2, rbsp', words') /\ Chain(m2, place', d2) /\ Zeros(m2, Len(m2), 2)
    BY <1>2, <1>10, <1>11, <1>14
  <2> QED BY <1>2, <1>8, <1>15, <2>1 DEF Core
<1> QED BY <1>2, <1>16 DEF IInv

\* The reader starts on a complete NAL unit.
LEMMA DeliverStep ==
  ASSUME TypeOK, IInv, Deliver
  PROVE  IInv'
<1>1. PICK m, k, d : Core(m, k, d)
  BY DEF IInv
<1>2. /\ phase = "pad" /\ phase' = "read" /\ words' = words /\ r' = Reader
      /\ rbsp' = rbsp /\ place' = place /\ w' = w
  BY <1>1 DEF Core, Deliver
<1>3. Chain(m, place, d) /\ Zeros(m, Len(m), k) /\ Data(d, rbsp, words)
  BY <1>1 DEF Core
<1>4. Reads(w.nal, place, d, Reader)
  <2>1. Reader \in ReaderState /\ ~Reader.thrown /\ Reader.at = 0 /\ Reader.zeroCount = 0
        /\ Len(Reader.payload) = 0 /\ Reader.locations = <<>>
    BY DEF Reader, ReaderState
  <2>2. Marks(0, <<>>, place)
    BY DEF Marks
  <2>3. Zeros(w.nal, 0, 0)
    BY DEF Zeros
  <2>4. Len(w.nal) >= 0 /\ Len(d) >= 0
    BY <1>3 DEF TypeOK, Chain
  <2> QED BY <2>1, <2>2, <2>3, <2>4 DEF Reads
<1>5. Core(m, k, d)'
  BY <1>1, <1>2, <1>3, <1>4 DEF Core
<1> QED BY <1>2, <1>5 DEF IInv

\* One pass of the loop of the reader.
LEMMA ReadStep ==
  ASSUME TypeOK, IInv, ReadByte
  PROVE  IInv'
<1>1. PICK m, k, d : Core(m, k, d)
  BY DEF IInv
<1>2. /\ phase = "read" /\ phase' = "read" /\ words' = words /\ r' = GetByte(w.nal, r)
      /\ rbsp' = rbsp /\ place' = place /\ w' = w /\ r.at < Len(w.nal)
  BY DEF ReadByte
<1>3. /\ Chain(m, place, d) /\ Zeros(m, Len(m), k) /\ Data(d, rbsp, words)
      /\ Reads(w.nal, place, d, r)
  BY <1>1, <1>2 DEF Core
<1>4. Closed(w.nal, m)
  BY <1>1, <1>2, CoreClosed
<1>5. Reads(w.nal, place, d, r')
  BY <1>2, <1>3, <1>4, GetByteReads
<1>6. Core(m, k, d)'
  BY <1>1, <1>2, <1>3, <1>5 DEF Core
<1> QED BY <1>2, <1>6 DEF IInv

\* The reader has all of the data when it is at the end.
LEMMA ReadAll ==
  ASSUME NEW s, NEW m, NEW p, NEW d, NEW q,
         Chain(m, p, d), Closed(s, m), Reads(s, p, d, q), q.at = Len(s)
  PROVE  /\ q.zeroCount = 0 /\ q.payload \in Seq(Nat) /\ Len(q.payload) = Len(d)
         /\ \A i \in 1..Len(d) : q.payload[i] = d[i]
<1>1. m \in Seq(Nat) /\ p \in Seq(Nat) /\ d \in Seq(Nat)
  BY DEF Chain
<1>2. PICK n \in Nat, l \in Nat : n = Len(m) /\ l = Len(p)
  BY <1>1
<1>3. l = Len(d) /\ l >= 2 /\ p[1] = 1 /\ n = p[l] /\ n >= 1
  <2>1. l = Len(d) /\ l >= 2 /\ p[1] = 1 /\ n = p[l]
    BY <1>2 DEF Chain
  <2>2. p[l] \in 1..n
    BY <1>2, <2>1 DEF Chain
  <2> QED BY <2>1, <2>2
<1>4. PICK j \in Nat : j = Len(q.payload) /\ j <= l /\ q.payload \in Seq(Nat)
  BY <1>3 DEF Reads, ReaderState
<1>5. PICK ls \in Nat : ls = Len(s) /\ ls >= n /\ s[ls] # 0
  <2>1. CASE s = m /\ Zeros(m, Len(m), 0)
    <3>1. m[n] # 0
      BY <1>2, <1>3, <2>1 DEF Zeros
    <3> QED BY <1>2, <2>1, <3>1
  <2>2. CASE s = Append(m, 3) /\ Zeros(m, Len(m), 2)
    <3>1. Len(s) = n + 1 /\ s[n + 1] = 3
      BY <1>1, <1>2, <2>2
    <3> QED BY <3>1
  <2> QED BY <2>1, <2>2 DEF Closed
<1>6. q.zeroCount = 0
  <2>1. Zeros(s, ls, q.zeroCount)
    BY <1>5 DEF Reads
  <2> QED BY <1>5, <2>1 DEF Zeros
<1>7. j = l
  <2>1. \/ j = 0 /\ ls = 0
        \/ j > 0 /\ ls = p[j]
        \/ j = l
    BY <1>3, <1>4, <1>5 DEF Reads
  <2>2. CASE j > 0 /\ ls = p[j] /\ j # l
    <3>1. j \in 1..Len(p) /\ l \in 1..Len(p) /\ j < l
      BY <1>2, <1>3, <1>4, <2>2
    <3>2. p[j] < p[l]
      BY <3>1, Ordered
    <3>3. ls < n
      BY <1>3, <2>2, <3>2
    <3> QED BY <1>5, <3>3
  <2> QED BY <1>3, <1>5, <2>1, <2>2
<1>8. \A i \in 1..l : q.payload[i] = d[i]
  BY <1>4, <1>7 DEF Reads
<1> QED BY <1>3, <1>4, <1>6, <1>7, <1>8

\* Taking the zero words off the data leaves what the writer was given.
LEMMA ZeroWordsOff ==
  ASSUME NEW b \in Seq(Nat), NEW n \in Nat, NEW d \in Seq(Nat), Data(d, b, n),
         Len(b) >= 1, b[Len(b)] # 0
  PROVE  SubSeq(d, 1, LastNonZero(d)) = b
<1>1. PICK h \in Nat, l \in Nat : h = Len(b) /\ l = Len(d)
  OBVIOUS
<1>2. /\ h >= 1 /\ b[h] # 0 /\ h <= l
      /\ (\A i \in 1..h : d[i] = b[i]) /\ (\A i \in h + 1..l : d[i] = 0)
  BY <1>1 DEF Data
<1> DEFINE Last(x) == (x > 0 => d[x] # 0) /\ \A i \in x + 1..l : d[i] = 0
<1>3. Last(h) /\ h \in 0..l
  BY <1>2
<1>4. ASSUME NEW x \in 0..l, Last(x) PROVE x = h
  <2>1. CASE x < h
    <3>1. h \in x + 1..l /\ h \in 1..h
      BY <1>2, <2>1
    <3> QED BY <1>2, <1>4, <3>1
  <2>2. CASE x > h
    <3>1. x \in h + 1..l /\ x > 0
      BY <2>2
    <3> QED BY <1>2, <1>4, <3>1
  <2> QED BY <2>1, <2>2
<1>5. LastNonZero(d) = CHOOSE x \in 0..l : Last(x)
  BY <1>1 DEF LastNonZero
<1> HIDE DEF Last
<1>6. LastNonZero(d) = h
  <2>1. \E x \in 0..l : Last(x)
    BY <1>3
  <2>2. LastNonZero(d) \in 0..l /\ Last(LastNonZero(d))
    BY <1>5, <2>1, Zenon
  <2> QED BY <1>4, <2>2
<1> DEFINE t == SubSeq(d, 1, h)
<1>7. t \in Seq(Nat) /\ Len(t) = h /\ \A i \in 1..h : t[i] = d[i]
  BY <1>1, <1>2
<1> HIDE DEF t
<1>8. \A i \in 1..h : t[i] = b[i]
  BY <1>2, <1>7
<1>9. t = b
  BY <1>1, <1>7, <1>8, SeqEqual
<1> QED BY <1>6, <1>9 DEF t

\* The end of the NAL unit: no zero byte is pending and the zero words go.
LEMMA EndReadStep ==
  ASSUME TypeOK, IInv, EndRead
  PROVE  IInv' /\ r' = [r EXCEPT !.payload = rbsp]
<1>1. PICK m, k, d : Core(m, k, d)
  BY DEF IInv
<1>2. /\ phase = "read" /\ phase' = "done" /\ words' = words /\ r' = EndPayload(r)
      /\ rbsp' = rbsp /\ place' = place /\ w' = w /\ r.at = Len(w.nal)
  BY DEF EndRead
<1>3. /\ Chain(m, place, d) /\ Zeros(m, Len(m), k) /\ Data(d, rbsp, words)
      /\ Reads(w.nal, place, d, r) /\ rbsp[Len(rbsp)] # 0
  BY <1>1, <1>2 DEF Core
<1>4. Closed(w.nal, m)
  BY <1>1, <1>2, CoreClosed
<1>5. /\ r.zeroCount = 0 /\ r.payload \in Seq(Nat) /\ Len(r.payload) = Len(d)
      /\ \A i \in 1..Len(d) : r.payload[i] = d[i]
  BY <1>2, <1>3, <1>4, ReadAll
<1>6. d \in Seq(Nat) /\ rbsp \in Seq(Nat) /\ words \in Nat
  BY <1>3, BytesNat DEF Chain, TypeOK
<1>7. r.payload = d
  BY <1>5, <1>6, SeqEqual
<1>8. SubSeq(d, 1, LastNonZero(d)) = rbsp
  BY <1>3, <1>6, ZeroWordsOff DEF IInv
<1>9. r' = [r EXCEPT !.payload = rbsp]
  BY <1>2, <1>5, <1>7, <1>8 DEF EndPayload
<1>10. /\ r'.payload = rbsp /\ r'.thrown = r.thrown
       /\ r'.at = r.at /\ r'.locations = r.locations
  BY <1>9 DEF TypeOK, ReaderType
<1>11. ~r.thrown /\ Marks(r.at, r.locations, place)
  BY <1>3 DEF Reads
<1>12. Core(m, k, d)'
  BY <1>1, <1>2, <1>3, <1>10, <1>11 DEF Core
<1> QED BY <1>2, <1>9, <1>12 DEF IInv

LEMMA TypeStep ==
  ASSUME TypeOK, IInv, [Next]_vars
  PROVE  TypeOK'
<1>1. ASSUME NEW v \in Bytes, WriteByte(v) PROVE TypeOK'
  <2>1. v \in Byte
    BY NalAssumption DEF Byte
  <2>2. w' \in [nal : Seq(Byte), zeroCount : 0..2]
    BY <1>1, <2>1, PutByteTyped DEF WriteByte, TypeOK
  <2>3. rbsp' \in Seq(Byte) /\ place' \in Seq(Nat)
    <3>1. Len(w'.nal) \in Nat
      BY <2>2
    <3> QED BY <1>1, <2>1, <3>1 DEF WriteByte, TypeOK
  <2> QED BY <1>1, <2>2, <2>3 DEF WriteByte, TypeOK
<1>2. CASE EndNalUnit
  <2>1. 3 \in Byte
    BY DEF Byte
  <2>2. EndContent(w) \in Seq(Byte)
    BY <2>1 DEF EndContent, TypeOK
  <2>3. w' \in [nal : Seq(Byte), zeroCount : 0..2]
    BY <1>2, <2>2 DEF EndNalUnit, TypeOK
  <2> QED BY <1>2, <2>3 DEF EndNalUnit, TypeOK
<1>3. CASE PadZeroWord
  <2>1. 3 \in Byte /\ 0 \in Byte
    BY DEF Byte
  <2>2. w.nal \o <<0, 0, 3>> \in Seq(Byte)
    BY <2>1 DEF TypeOK
  <2>3. w' \in [nal : Seq(Byte), zeroCount : 0..2]
    BY <1>3, <2>2 DEF PadZeroWord, TypeOK
  <2>4. place' \in Seq(Nat) /\ words' \in Nat
    BY <1>3 DEF PadZeroWord, TypeOK
  <2> QED BY <1>3, <2>3, <2>4 DEF PadZeroWord, TypeOK
<1>4. CASE Deliver
  BY <1>4 DEF Deliver, TypeOK
<1>5. CASE ReadByte
  <2>1. r' \in ReaderType
    BY <1>5, GetByteTyped DEF ReadByte, TypeOK
  <2> QED BY <1>5, <2>1 DEF ReadByte, TypeOK
<1>6. CASE EndRead
  <2>1. r' = [r EXCEPT !.payload = rbsp]
    BY <1>6, EndReadStep
  <2>2. r' \in ReaderType
    BY <2>1 DEF TypeOK, ReaderType
  <2> QED BY <1>6, <2>2 DEF EndRead, TypeOK
<1>7. CASE UNCHANGED vars
  BY <1>7 DEF vars, TypeOK
<1> QED BY <1>1, <1>2, <1>3, <1>4, <1>5, <1>6, <1>7 DEF Next

LEMMA CoreStep ==
  ASSUME TypeOK, IInv, [Next]_vars
  PROVE  IInv'
<1>1. CASE UNCHANGED vars
  BY <1>1 DEF vars, IInv, Core
<1>2. CASE Next
  BY <1>2, WriteStep, EndStep, PadStep, DeliverStep, ReadStep, EndReadStep DEF Next
<1> QED BY <1>1, <1>2

\* For every alphabet, header and length: writer and reader stay in their types,
\* and the NAL unit holds its data along the chain the reader follows.
THEOREM NalInvariant == Spec => [](TypeOK /\ IInv)
<1>1. Init => TypeOK /\ IInv
  BY TypeInit, InitCore
<1>2. TypeOK /\ IInv /\ [Next]_vars => (TypeOK /\ IInv)'
  BY TypeStep, CoreStep
<1> QED BY <1>1, <1>2, PTL DEF Spec

\* The counter of the writer never passes 2, and both sides hold bytes only
\* (writeNaluContent, convertPayloadToRBSP).
THEOREM NalTyped == Spec => []TypeOK
  BY NalInvariant, PTL

LEMMA NoStartCodeInv ==
  ASSUME TypeOK, IInv
  PROVE  NoStartCode
<1>1. PICK m, k, d : Core(m, k, d)
  BY DEF IInv
<1>2. Chain(m, place, d) /\ Windows(m) /\ Zeros(m, Len(m), k)
  BY <1>1 DEF Core, Chain
<1>3. CASE phase = "write"
  <2>1. w.nal = m
    BY <1>1, <1>3 DEF Core
  <2> QED BY <1>2, <1>3, <2>1 DEF Windows, NoStartCode
<1>4. CASE phase # "write"
  <2>1. Closed(w.nal, m)
    BY <1>1, <1>4, CoreClosed
  <2>2. m \in Seq(Nat)
    BY <1>2 DEF Chain
  <2>3. PICK n \in Nat : n = Len(m) /\ n >= 1
    <3>1. Len(place) >= 2 /\ Len(m) \in Nat
      BY <1>2 DEF Chain
    <3>2. place[1] \in 1..Len(m)
      BY <1>2, <3>1 DEF Chain
    <3> QED BY <3>1, <3>2
  <2>4. CASE w.nal = m /\ Zeros(m, Len(m), 0)
    <3>1. m[n] # 0
      BY <2>3, <2>4 DEF Zeros
    <3> QED BY <1>2, <2>3, <2>4, <3>1 DEF Windows, NoStartCode
  <2>5. CASE w.nal = Append(m, 3) /\ Zeros(m, Len(m), 2)
    <3> DEFINE t == Append(m, 3)
    <3>0. t \in Seq(Nat) /\ Len(t) = n + 1 /\ t[n + 1] = 3 /\ \A i \in 1..n : t[i] = m[i]
      BY <2>2, <2>3
    <3> HIDE DEF t
    <3>1. PICK s \in Seq(Nat) : /\ s = w.nal /\ Len(s) = n + 1 /\ s[n + 1] = 3
                                /\ \A i \in 1..n : s[i] = m[i]
      BY <2>5, <3>0 DEF t
    <3>2. ASSUME NEW i \in 1..n - 1, s[i] = 0, s[i+1] = 0, s[i+2] <= 2
          PROVE  FALSE
      <4>1. i # n - 1
        BY <3>1, <3>2
      <4>2. i \in 1..n /\ i <= n - 2
        BY <4>1
      <4>3. m[i] = 0 /\ m[i+1] = 0 /\ m[i+2] <= 2
        BY <3>1, <3>2, <4>2, SMTT(20)
      <4> QED BY <1>2, <2>3, <4>2, <4>3, NoWindow, Zenon
    <3>3. (n + 1) - 2 = n - 1
      OBVIOUS
    <3> QED BY <3>1, <3>2, <3>3 DEF NoStartCode
  <2> QED BY <2>1, <2>4, <2>5 DEF Closed
<1> QED BY <1>3, <1>4

\* No start code ever stands in a NAL unit, nor a zero byte at its end, for every
\* RBSP and every number of zero words (writeNaluContent, cabac_zero_word_padding).
THEOREM NoStartCodeHolds == Spec => []NoStartCode
<1>1. TypeOK /\ IInv => NoStartCode
  BY NoStartCodeInv
<1> QED BY <1>1, NalInvariant, PTL

LEMMA AcceptedInv ==
  ASSUME TypeOK, IInv
  PROVE  Accepted /\ ReadsBack
<1>1. PICK m, k, d : Core(m, k, d)
  BY DEF IInv
<1>2. ~Reader.thrown
  BY DEF Reader
<1> QED BY <1>1, <1>2 DEF Core, Reads, Accepted, ReadsBack, TypeOK

\* None of the CHECKs of convertPayloadToRBSP fails on what writeNaluContent and
\* cabac_zero_word_padding made.
THEOREM AcceptedHolds == Spec => []Accepted
<1>1. TypeOK /\ IInv => Accepted
  BY AcceptedInv
<1> QED BY <1>1, NalInvariant, PTL

\* What convertPayloadToRBSP leaves is what writeNaluContent was given.
THEOREM ReadsBackHolds == Spec => []ReadsBack
<1>1. TypeOK /\ IInv => ReadsBack
  BY AcceptedInv
<1> QED BY <1>1, NalInvariant, PTL

LEMMA LocationsInv ==
  ASSUME TypeOK, IInv
  PROVE  LocationsExact
<1>1. PICK m, k, d : Core(m, k, d)
  BY DEF IInv
<1>2. Marks(r.at, r.locations, place)
  <2>1. Marks(0, <<>>, place)
    BY DEF Marks
  <2>2. Reader.at = 0 /\ Reader.locations = <<>>
    BY DEF Reader
  <2> QED BY <1>1, <2>1, <2>2 DEF Core, Reads, TypeOK
<1>3. {r.locations[i] : i \in 1..Len(r.locations)}
        = {x \in 0..r.at - 1 : \A i \in 1..Len(place) : place[i] # x + 1}
  BY <1>2, ZenonT(30) DEF Marks, Free
<1> QED BY <1>2, <1>3 DEF Marks, LocationsExact

\* The emulation prevention locations are exact: the reader lists every byte passed
\* that is none of the RBSP and no other (convertPayloadToRBSP).
THEOREM LocationsExactHolds == Spec => []LocationsExact
<1>1. TypeOK /\ IInv => LocationsExact
  BY LocationsInv
<1> QED BY <1>1, NalInvariant, PTL

(* ------------------------------- the slice data ------------------------------- *)

(* --------------------------------- induction --------------------------------- *)

\* A set of numbers that has one has a least one.
LEMMA LeastNumber ==
  ASSUME NEW T, T \subseteq Nat, T # {}
  PROVE  \E least \in T : \A n \in T : least <= n
<1> DEFINE less == OpToRel(<, Nat)
<1>1. IsWellFoundedOn(less, Nat)
  BY NatLessThanWellFounded, Zenon
<1>2. \A x, y \in Nat : <<y, x>> \in less <=> y < x
  BY DEF OpToRel
<1> HIDE DEF less
<1>3. PICK least \in T : \A y \in T : ~ (<<y, least>> \in less)
  BY <1>1, WFMin
<1>4. ASSUME NEW n \in T PROVE least <= n
  <2>1. least \in Nat /\ n \in Nat /\ ~ (<<n, least>> \in less)
    BY <1>3
  <2>2. ~(n < least)
    BY <2>1, <1>2
  <2> QED BY <2>1, <2>2
<1> QED BY <1>4

\* A set that holds 0 and every successor of its numbers holds them all.
LEMMA SetInduction ==
  ASSUME NEW S, 0 \in S, \A n \in Nat : n \in S => n + 1 \in S
  PROVE  Nat \subseteq S
<1> SUFFICES ASSUME NEW k \in Nat, k \notin S PROVE FALSE
  OBVIOUS
<1> DEFINE T == Nat \ S
<1>1. PICK least \in T : \A n \in T : least <= n
  <2>1. T \subseteq Nat /\ T # {}
    OBVIOUS
  <2> HIDE DEF T
  <2> QED BY <2>1, LeastNumber
<1>2. least \in Nat /\ least # 0
  OBVIOUS
<1>3. least - 1 \in Nat /\ least - 1 \notin T
  BY <1>1, <1>2
<1>4. least - 1 \in S
  BY <1>3
<1> QED BY <1>2, <1>3, <1>4

(* --------------------------------- counting ---------------------------------- *)

\* A sequence that rises from each place to the next rises between any two.
LEMMA Rising ==
  ASSUME NEW s \in Seq(Nat), \A k \in 1..Len(s) - 1 : s[k] < s[k + 1]
  PROVE  \A i, k \in 1..Len(s) : i < k => s[i] < s[k]
<1>1. PICK n \in Nat : n = Len(s)
  OBVIOUS
<1>2. \A k \in 1..n : s[k] \in Nat
  BY <1>1
<1> SUFFICES ASSUME NEW i \in 1..n, NEW k \in 1..n, i < k PROVE s[i] < s[k]
  BY <1>1
<1> DEFINE S == {j \in Nat : i + 1 + j <= n => s[i] < s[i + 1 + j]}
<1>3. 0 \in S
  <2>1. i \in 1..n - 1
    OBVIOUS
  <2> QED BY <2>1, <1>1
<1>4. ASSUME NEW j \in Nat, j \in S PROVE j + 1 \in S
  <2> SUFFICES ASSUME i + 1 + (j + 1) <= n PROVE s[i] < s[i + 1 + (j + 1)]
    OBVIOUS
  <2> DEFINE a == i + 1 + j
  <2>1. a \in 1..n - 1 /\ a \in 1..n /\ a <= n /\ a + 1 = i + 1 + (j + 1) /\ a + 1 \in 1..n
    OBVIOUS
  <2>2. s[i] < s[a]
    BY <2>1, <1>4
  <2>3. s[a] < s[a + 1]
    BY <2>1, <1>1
  <2>4. s[i + 1 + (j + 1)] = s[a + 1]
    BY <2>1
  <2> HIDE DEF a
  <2>5. s[i] \in Nat /\ s[a] \in Nat /\ s[a + 1] \in Nat
    BY <2>1, <1>2
  <2> QED BY <2>2, <2>3, <2>4, <2>5
<1>5. Nat \subseteq S
  <2> HIDE DEF S
  <2> QED BY <1>3, <1>4, SetInduction
<1>6. k - i - 1 \in Nat /\ i + 1 + (k - i - 1) = k
  OBVIOUS
<1>7. k - i - 1 \in S
  <2> HIDE DEF S
  <2> QED BY <1>5, <1>6
<1>8. s[i] < s[i + 1 + (k - i - 1)]
  BY <1>6, <1>7
<1> QED BY <1>6, <1>8

\* Of the first bytes of a NAL unit up to the t-th byte of data, c are inserted:
\* they are the first c of the locations.
Inserted(locs, p, t, c) ==
  /\ c \in 0..Len(locs) /\ p[t] = t + c
  /\ \A k \in 1..Len(locs) : k <= c <=> locs[k] < p[t]

LEMMA InsertedCounted ==
  ASSUME NEW m, NEW p, NEW d, Chain(m, p, d), NEW locs \in Seq(Nat), NEW at \in Nat,
         Marks(at, locs, p), Len(m) <= at
  PROVE  \A t \in 1..Len(p) : \E c \in 0..Len(locs) : Inserted(locs, p, t, c)
<1>1. PICK n \in Nat, l \in Nat : n = Len(locs) /\ l = Len(p)
  BY DEF Chain
<1>2. /\ p[1] = 1 /\ l >= 2 /\ p[l] <= at
      /\ \A t \in 1..l : p[t] \in Nat \ {0}
      /\ \A i, k \in 1..l : i < k => p[i] < p[k]
      /\ \A t \in 1..l - 1 : p[t + 1] = p[t] + 1 \/ p[t + 1] = p[t] + 2
  <2>1. p \in Seq(Nat) /\ p[1] = 1 /\ l >= 2 /\ Len(m) = p[l]
    BY <1>1 DEF Chain
  <2>2. /\ \A t \in 1..l : p[t] \in 1..Len(m)
        /\ \A i, k \in 1..l : i < k => p[i] < p[k]
    BY <1>1 DEF Chain
  <2>3. \A t \in 1..l - 1 : p[t + 1] = p[t] + 1 \/ p[t + 1] = p[t] + 2
    BY <1>1 DEF Chain
  <2> QED BY <2>1, <2>2, <2>3, <1>1
<1>3. \A k \in 1..n : locs[k] \in Nat /\ locs[k] \in 0..at - 1 /\ Free(p, locs[k])
  BY <1>1 DEF Marks
<1>4. \A i, k \in 1..n : i < k => locs[i] < locs[k]
  BY <1>1, Rising DEF Marks
<1>5. \A x \in 0..at - 1 : Free(p, x) => \E k \in 1..n : locs[k] = x
  BY <1>1 DEF Marks
<1> DEFINE Counted(t) == \E c \in 0..n : Inserted(locs, p, t, c)
           S == {j \in Nat : j + 1 <= l => Counted(j + 1)}
<1>6. 0 \in S
  <2>1. \A k \in 1..n : ~(locs[k] < p[1])
    <3> SUFFICES ASSUME NEW k \in 1..n, locs[k] < p[1] PROVE FALSE
      OBVIOUS
    <3>1. locs[k] + 1 = p[1] /\ 1 \in 1..l
      BY <1>2, <1>3
    <3> QED BY <3>1, <1>1, <1>3 DEF Free
  <2>2. Inserted(locs, p, 1, 0)
    BY <2>1, <1>1, <1>2 DEF Inserted
  <2> QED BY <2>2
<1>7. ASSUME NEW j \in Nat, j \in S PROVE j + 1 \in S
  <2> SUFFICES ASSUME (j + 1) + 1 <= l PROVE Counted((j + 1) + 1)
    OBVIOUS
  <2> DEFINE t == j + 1
  <2>1. t \in 1..l - 1 /\ t \in 1..l /\ t + 1 \in 1..l /\ t \in Nat
    OBVIOUS
  <2>2. PICK c \in 0..n : Inserted(locs, p, t, c)
    BY <2>1, <1>7
  <2> HIDE DEF t
  <2>3. p[t] = t + c /\ \A k \in 1..n : k <= c <=> locs[k] < p[t]
    BY <2>2, <1>1 DEF Inserted
  <2>4. p[t] \in Nat /\ p[t + 1] \in Nat /\ p[t] < p[t + 1] /\ p[t + 1] <= at
    <3>1. t + 1 = l \/ t + 1 < l
      BY <2>1
    <3>2. l \in 1..l
      BY <1>2
    <3> QED BY <2>1, <1>2, <3>1, <3>2
  <2>5. CASE p[t + 1] = p[t] + 1
    <3>1. \A k \in 1..n : locs[k] < p[t + 1] <=> locs[k] < p[t]
      <4> SUFFICES ASSUME NEW k \in 1..n PROVE locs[k] # p[t]
        BY <2>4, <2>5, <1>3
      <4> QED BY <2>1, <2>5, <1>1, <1>3 DEF Free
    <3>2. Inserted(locs, p, t + 1, c)
      BY <3>1, <2>1, <2>3, <2>5, <1>1 DEF Inserted
    <3> QED BY <3>2 DEF t
  <2>6. CASE p[t + 1] = p[t] + 2
    <3>1. Free(p, p[t])
      <4> SUFFICES ASSUME NEW i \in 1..l, p[i] = p[t] + 1 PROVE FALSE
        BY <1>1 DEF Free
      <4>1. i < t \/ i = t \/ i = t + 1 \/ i > t + 1
        BY <2>1
      <4> QED BY <4>1, <2>1, <2>4, <2>6, <1>2
    <3>2. PICK k \in 1..n : locs[k] = p[t]
      BY <3>1, <2>4, <2>6, <1>5
    <3>3. k = c + 1
      <4>1. ~(k <= c)
        BY <2>3, <2>4, <3>2
      <4>2. CASE k > c + 1
        <5>1. c + 1 \in 1..n /\ c + 1 < k
          BY <4>2
        <5>2. locs[c + 1] < p[t] /\ ~(c + 1 <= c)
          BY <5>1, <3>2, <1>4
        <5> QED BY <5>1, <5>2, <2>3
      <4> QED BY <4>1, <4>2
    <3>4. ASSUME NEW i \in 1..n PROVE i <= c + 1 <=> locs[i] < p[t + 1]
      <4>1. CASE i <= c
        BY <4>1, <2>3, <2>4, <2>6, <1>3
      <4>2. CASE i = c + 1
        BY <4>2, <3>2, <3>3, <2>4, <2>6
      <4>3. CASE i > c + 1
        <5>1. Free(p, locs[i]) /\ locs[i] \in Nat /\ locs[i] > p[t]
          BY <4>3, <3>2, <3>3, <1>3, <1>4, <2>4
        <5>2. locs[i] # p[t] + 1
          <6>1. p[t + 1] # locs[i] + 1
            BY <5>1, <2>1, <1>1 DEF Free
          <6> QED BY <6>1, <5>1, <2>4, <2>6
        <5> QED BY <5>1, <5>2, <4>3, <2>4, <2>6
      <4> QED BY <4>1, <4>2, <4>3
    <3>5. c + 1 \in 0..n /\ Inserted(locs, p, t + 1, c + 1)
      BY <3>2, <3>3, <3>4, <2>1, <2>3, <2>6, <1>1 DEF Inserted
    <3> QED BY <3>5 DEF t
  <2> QED BY <2>1, <2>5, <2>6, <1>2
<1>8. Nat \subseteq S
  <2> HIDE DEF S
  <2> QED BY <1>6, <1>7, SetInduction
<1>9. ASSUME NEW t \in 1..l PROVE Counted(t)
  <2>1. t - 1 \in Nat /\ (t - 1) + 1 = t
    OBVIOUS
  <2>2. t - 1 \in S
    <3> HIDE DEF S
    <3> QED BY <2>1, <1>8
  <2> HIDE DEF Counted
  <2>3. Counted((t - 1) + 1)
    BY <2>1, <2>2
  <2> QED BY <2>1, <2>3
<1> QED BY <1>1, <1>9

(* --------------------- the emulations the encoder predicts -------------------- *)

\* Where there is a pair of zero bytes there is a first one.
LEMMA FirstPair ==
  ASSUME NEW s, NEW p \in Nat, Pairs(s, p) # {}
  PROVE  /\ First(Pairs(s, p)) \in Pairs(s, p)
         /\ \A q \in Pairs(s, p) : First(Pairs(s, p)) <= q
<1> DEFINE T == Pairs(s, p)
<1>1. T \subseteq Nat /\ T # {}
  BY DEF Pairs
<1> HIDE DEF T
<1>2. \E q \in T : \A r1 \in T : q <= r1
  BY <1>1, LeastNumber
<1>3. First(T) \in T /\ \A r1 \in T : First(T) <= r1
  BY <1>2 DEF First
<1> QED BY <1>3 DEF T

\* What countStartCodeEmulations adds for the first pair from p on.
CountFrom(s, f, p) ==
  IF Pairs(s, p) = {} THEN 0
  ELSE LET third == First(Pairs(s, p)) + 2
       IN f[third] + IF s[third] <= 3 THEN 1 ELSE 0

LEMMA CountFromTyped ==
  ASSUME NEW s, NEW L \in Nat, L = Len(s), NEW p \in 1..L, NEW f, \A q \in p + 1..L : f[q] \in Nat
  PROVE  /\ CountFrom(s, f, p) \in Nat
         /\ \A g : (\A q \in p + 1..L : g[q] = f[q]) => CountFrom(s, g, p) = CountFrom(s, f, p)
<1>1. CASE Pairs(s, p) = {}
  BY <1>1 DEF CountFrom
<1>2. CASE Pairs(s, p) # {}
  <2> DEFINE third == First(Pairs(s, p)) + 2
  <2>1. third \in p + 1..L
    <3>1. First(Pairs(s, p)) \in Pairs(s, p)
      BY <1>2, FirstPair
    <3>2. First(Pairs(s, p)) \in p..(Len(s) - 2)
      BY <3>1 DEF Pairs
    <3> QED BY <3>2
  <2> HIDE DEF third
  <2>2. \A g : CountFrom(s, g, p) = g[third] + IF s[third] <= 3 THEN 1 ELSE 0
    BY <1>2 DEF CountFrom, third
  <2> QED BY <2>1, <2>2
<1> QED BY <1>1, <1>2

\* The count is well defined: each place takes it from places behind it.
LEMMA CountExists ==
  ASSUME NEW s, NEW L \in Nat, L = Len(s)
  PROVE  \E f \in [1..L -> Nat] : \A p \in 1..L : f[p] = CountFrom(s, f, p)
<1> DEFINE Good(n) == \E f \in [L - n + 1..L -> Nat] : \A p \in L - n + 1..L : f[p] = CountFrom(s, f, p)
           S == {n \in Nat : n <= L => Good(n)}
<1>1. 0 \in S
  <2> DEFINE f0 == [p \in L - 0 + 1..L |-> 0]
  <2>1. f0 \in [L - 0 + 1..L -> Nat] /\ \A p \in L - 0 + 1..L : FALSE
    OBVIOUS
  <2> QED BY <2>1
<1>2. ASSUME NEW n \in Nat, n \in S PROVE n + 1 \in S
  <2> SUFFICES ASSUME n + 1 <= L PROVE Good(n + 1)
    OBVIOUS
  <2>1. n <= L /\ Good(n)
    BY <1>2
  <2>2. PICK f \in [L - n + 1..L -> Nat] : \A p \in L - n + 1..L : f[p] = CountFrom(s, f, p)
    BY <2>1
  <2> DEFINE a == L - n
             g == [p \in a..L |-> IF p = a THEN CountFrom(s, f, a) ELSE f[p]]
  <2>3. a \in 1..L /\ L - n + 1 = a + 1 /\ L - (n + 1) + 1 = a
    OBVIOUS
  <2> HIDE DEF a
  <2>4. CountFrom(s, f, a) \in Nat
    BY <2>2, <2>3, CountFromTyped
  <2>5. g \in [a..L -> Nat] /\ \A q \in a + 1..L : g[q] = f[q]
    BY <2>2, <2>3, <2>4
  <2>6. ASSUME NEW p \in a..L PROVE g[p] = CountFrom(s, g, p)
    <3>0. p \in 1..L /\ \A q \in p + 1..L : f[q] \in Nat /\ g[q] = f[q]
      BY <2>2, <2>3, <2>5
    <3>1. CountFrom(s, g, p) = CountFrom(s, f, p)
      <4> HIDE DEF g
      <4>1. \A h : (\A q \in p + 1..L : h[q] = f[q]) => CountFrom(s, h, p) = CountFrom(s, f, p)
        <5>1. \A q \in p + 1..L : f[q] \in Nat
          BY <3>0
        <5> QED BY <3>0, <5>1, CountFromTyped
      <4> QED BY <3>0, <4>1
    <3>2. CASE p = a
      BY <3>1, <3>2, <2>3
    <3>3. CASE p # a
      <4>1. p \in a + 1..L
        BY <3>3, <2>3
      <4>2. f[p] = CountFrom(s, f, p)
        BY <4>1, <2>2, <2>3
      <4> QED BY <4>1, <4>2, <3>1, <2>5
    <3> QED BY <3>2, <3>3
  <2> HIDE DEF g
  <2> QED BY <2>3, <2>5, <2>6
<1>3. Nat \subseteq S
  <2> HIDE DEF S
  <2> QED BY <1>1, <1>2, SetInduction
<1>4. L \in S
  <2> HIDE DEF S
  <2> QED BY <1>3
<1>5. Good(L)
  BY <1>4
<1>6. L - L + 1 = 1
  OBVIOUS
<1> QED BY <1>5, <1>6

LEMMA CountIs ==
  ASSUME NEW s, NEW L \in Nat \ {0}, L = Len(s)
  PROVE  \E f : /\ \A p \in 1..L : f[p] = CountFrom(s, f, p)
                /\ CountStartCodeEmulations(s) = f[1]
<1> DEFINE Is(f) == f = [p \in 1..Len(s) |-> CountFrom(s, f, p)]
           f == CHOOSE x : Is(x)
<1>1. \E x : Is(x)
  <2>1. PICK x \in [1..L -> Nat] : \A p \in 1..L : x[p] = CountFrom(s, x, p)
    BY CountExists
  <2>2. x = [p \in 1..L |-> CountFrom(s, x, p)]
    BY <2>1
  <2> QED BY <2>2
<1>2. Is(f)
  BY <1>1
<1>3. CountStartCodeEmulations(s) = f[1]
  BY DEF CountStartCodeEmulations, CountFrom
<1> HIDE DEF f
<1>4. \A p \in 1..L : f[p] = CountFrom(s, f, p)
  BY <1>2
<1> QED BY <1>3, <1>4

LEMMA CountNat ==
  ASSUME NEW s, NEW L \in Nat \ {0}, L = Len(s), NEW f, \A p \in 1..L : f[p] = CountFrom(s, f, p)
  PROVE  f[1] \in Nat
<1> DEFINE S == {n \in Nat : \A p \in 1..L : L - p <= n => f[p] \in Nat}
<1>1. ASSUME NEW p \in 1..L, \A q \in p + 1..L : f[q] \in Nat PROVE f[p] \in Nat
  <2>1. CountFrom(s, f, p) \in Nat
    BY <1>1, CountFromTyped
  <2> QED BY <2>1
<1>2. 0 \in S
  <2>1. ASSUME NEW p \in 1..L, L - p <= 0 PROVE \A q \in p + 1..L : FALSE
    BY <2>1
  <2> QED BY <2>1, <1>1
<1>3. ASSUME NEW n \in Nat, n \in S PROVE n + 1 \in S
  <2> SUFFICES ASSUME NEW p \in 1..L, L - p <= n + 1 PROVE f[p] \in Nat
    OBVIOUS
  <2>1. \A q \in p + 1..L : q \in 1..L /\ L - q <= n
    OBVIOUS
  <2>2. \A q \in p + 1..L : f[q] \in Nat
    BY <2>1, <1>3
  <2> QED BY <2>2, <1>1
<1>4. L - 1 \in S
  <2>1. L - 1 \in Nat
    OBVIOUS
  <2> HIDE DEF S
  <2> QED BY <2>1, <1>2, <1>3, SetInduction
<1>5. 1 \in 1..L /\ L - 1 <= L - 1
  OBVIOUS
<1> QED BY <1>4, <1>5

\* Two zero bytes of the NAL unit in front of a byte of data are data themselves.
LEMMA PairBefore ==
  ASSUME NEW m, NEW p, NEW d, Chain(m, p, d), NEW i \in 1..Len(p) - 1
  PROVE  /\ p[i] \in Nat \ {0} /\ p[i + 1] \in Nat \ {0} /\ p[i + 1] \in {p[i] + 1, p[i] + 2}
         /\ m[p[i + 1]] = 0 /\ m[p[i + 1] - 1] = 0 => p[i + 1] = p[i] + 1 /\ d[i] = 0 /\ d[i + 1] = 0
         /\ p[i + 1] = p[i] + 1 /\ d[i] = 0 /\ d[i + 1] = 0 => m[p[i + 1]] = 0 /\ m[p[i + 1] - 1] = 0
<1>1. /\ i \in 1..Len(p) /\ i + 1 \in 1..Len(p)
      /\ p \in Seq(Nat) /\ m \in Seq(Nat)
  BY DEF Chain
<1>2. /\ p[i] \in 1..Len(m) /\ p[i + 1] \in 1..Len(m) /\ m[p[i]] = d[i] /\ m[p[i + 1]] = d[i + 1]
  <2>1. \A k \in 1..Len(p) : p[k] \in 1..Len(m) /\ m[p[k]] = d[k]
    BY DEF Chain
  <2>2. p[i] \in 1..Len(m) /\ m[p[i]] = d[i]
    BY <2>1, <1>1
  <2> DEFINE k == i + 1
  <2>3. k \in 1..Len(p)
    BY <1>1
  <2> HIDE DEF k
  <2>4. p[k] \in 1..Len(m) /\ m[p[k]] = d[k]
    BY <2>1, <2>3
  <2> QED BY <2>2, <2>4 DEF k
<1>3. \/ p[i + 1] = p[i] + 2 /\ m[p[i] + 1] = 3
      \/ p[i + 1] = p[i] + 1
  BY DEF Chain
<1>4. p[i] \in Nat \ {0} /\ p[i + 1] \in Nat \ {0}
  <2>1. \A x \in 1..Len(m) : x \in Nat \ {0}
    BY <1>1
  <2> QED BY <1>2, <2>1
<1>5. CASE p[i + 1] = p[i] + 2 /\ m[p[i] + 1] = 3
  <2>1. m[p[i + 1] - 1] = 3
    BY <1>4, <1>5
  <2> QED BY <2>1, <1>4, <1>5
<1>6. CASE p[i + 1] = p[i] + 1
  <2>1. m[p[i + 1] - 1] = d[i]
    BY <1>2, <1>4, <1>6
  <2> QED BY <2>1, <1>2, <1>4, <1>6
<1> QED BY <1>3, <1>5, <1>6

\* Behind the i-th byte of data the writer has at most one zero byte pending.
Fresh(m, p, i) == ~(m[p[i]] = 0 /\ m[p[i] - 1] = 0)

LEMMA NoneInserted ==
  ASSUME NEW m, NEW p, NEW d, Chain(m, p, d), NEW i \in 2..Len(p), NEW j \in i..Len(p),
         Fresh(m, p, i), \A q \in i..j - 2 : ~(d[q] = 0 /\ d[q + 1] = 0)
  PROVE  p[j] = p[i] + (j - i) /\ (j > i => p[j] = p[j - 1] + 1)
<1>1. PICK l \in Nat : l = Len(p)
  BY DEF Chain
<1>2. ASSUME NEW y \in i..j - 1 PROVE p[y + 1] = p[y] + 1 /\ p[y] \in Nat
  <2>1. y \in 1..l - 1 /\ y - 1 \in 1..l - 1 /\ y >= 2
    BY <1>1
  <2>2. ~(m[p[y]] = 0 /\ m[p[y] - 1] = 0)
    <3>1. CASE y = i
      BY <3>1 DEF Fresh
    <3>2. CASE y # i
      <4>1. y - 1 \in i..j - 2 /\ (y - 1) + 1 = y
        BY <3>2
      <4>2. ~(d[y - 1] = 0 /\ d[y] = 0)
        BY <4>1
      <4> DEFINE z == y - 1
      <4>3. z \in 1..Len(p) - 1 /\ z + 1 = y
        BY <2>1, <1>1
      <4> HIDE DEF z
      <4>4. m[p[z + 1]] = 0 /\ m[p[z + 1] - 1] = 0 => d[z] = 0 /\ d[z + 1] = 0
        BY <4>3, PairBefore
      <4>5. m[p[y]] = 0 /\ m[p[y] - 1] = 0 => d[z] = 0 /\ d[y] = 0
        BY <4>3, <4>4
      <4> QED BY <4>2, <4>5 DEF z
    <3> QED BY <3>1, <3>2
  <2>3. ~Stuffed(m, p[y], d[y + 1])
    BY <2>2 DEF Stuffed
  <2>4. p[y + 1] = p[y] + 1
    BY <2>1, <2>3, <1>1 DEF Chain
  <2>5. p[y] \in Nat
    BY <2>1, <1>1, PairBefore
  <2> QED BY <2>4, <2>5
<1>3. p[i] \in Nat
  <2>1. i \in 1..Len(p)
    BY <1>1
  <2> QED BY <2>1, SMTT(20) DEF Chain
<1> DEFINE S == {n \in Nat : i + n <= j => p[i + n] = p[i] + n}
<1>4. 0 \in S
  BY <1>3
<1>5. ASSUME NEW n \in Nat, n \in S PROVE n + 1 \in S
  <2> SUFFICES ASSUME i + (n + 1) <= j PROVE p[i + (n + 1)] = p[i] + (n + 1)
    OBVIOUS
  <2> DEFINE y == i + n
  <2>1. y \in i..j - 1 /\ y + 1 = i + (n + 1) /\ y <= j
    BY <1>1
  <2>2. p[y] = p[i] + n
    BY <2>1, <1>5
  <2>3. p[y + 1] = p[y] + 1
    BY <2>1, <1>2
  <2>4. p[i + (n + 1)] = p[y + 1]
    BY <2>1
  <2> HIDE DEF y
  <2> QED BY <2>2, <2>3, <2>4, <1>3
<1>6. j - i \in S
  <2>1. j - i \in Nat
    BY <1>1
  <2> HIDE DEF S
  <2> QED BY <2>1, <1>4, <1>5, SetInduction
<1>7. p[j] = p[i] + (j - i)
  <2>1. p[i + (j - i)] = p[i] + (j - i) /\ i + (j - i) = j
    BY <1>6, <1>1
  <2> QED BY <2>1
<1>8. ASSUME j > i PROVE p[j] = p[j - 1] + 1
  <2>1. j - 1 \in i..j - 1 /\ (j - 1) + 1 = j
    BY <1>1, <1>8
  <2> QED BY <2>1, <1>2
<1> QED BY <1>7, <1>8

\* What the encoder predicts from the bytes a + 1..b of the RBSP alone is how far apart
\* they end in the NAL unit, if the byte before them and the last of them are not 0.
LEMMA Predicted ==
  ASSUME NEW m, NEW p, NEW d, Chain(m, p, d), NEW a \in 1..Len(p), NEW b \in 1..Len(p), a < b,
         d[a] # 0, NEW s \in Seq(Nat), Len(s) = b - a, \A j \in 1..b - a : s[j] = d[a + j]
  PROVE  p[b] = p[a] + (b - a) + CountStartCodeEmulations(s)
<1>1. PICK l \in Nat : l = Len(p)
  BY DEF Chain
<1> DEFINE L == b - a
<1>2. L \in Nat \ {0} /\ L = Len(s) /\ a \in Nat \ {0} /\ b = a + L /\ b <= l
  BY <1>1
<1>3. \A j \in 1..L : s[j] = d[a + j]
  OBVIOUS
<1> HIDE DEF L
<1>4. \A i \in 1..l : p[i] \in Nat \ {0} /\ m[p[i]] = d[i]
  <2>1. \A i \in 1..l : p[i] \in 1..Len(m) /\ m[p[i]] = d[i]
    BY <1>1 DEF Chain
  <2>2. \A x \in 1..Len(m) : x \in Nat \ {0}
    BY DEF Chain
  <2> QED BY <2>1, <2>2
<1>5. PICK f : /\ \A x \in 1..L : f[x] = CountFrom(s, f, x)
               /\ CountStartCodeEmulations(s) = f[1]
  BY <1>2, CountIs
\* Of the pairs that follow a fresh place none is missed.
<1>6. ASSUME NEW x \in 1..L, NEW y \in x..L, \A q \in Pairs(s, x) : ~(q < y - 1), Fresh(m, p, a + x)
      PROVE  p[a + y] = p[a + x] + (y - x) /\ (y > x => p[a + y] = p[a + y - 1] + 1)
  <2> DEFINE i == a + x
             j == a + y
  <2>1. i \in 2..Len(p) /\ j \in i..Len(p)
    BY <1>1, <1>2
  <2>2. \A q \in i..j - 2 : ~(d[q] = 0 /\ d[q + 1] = 0)
    <3> SUFFICES ASSUME NEW q \in i..j - 2, d[q] = 0, d[q + 1] = 0 PROVE FALSE
      OBVIOUS
    <3> DEFINE z == q - a
    <3>1. z \in x..(Len(s) - 2) /\ z \in 1..L /\ z + 1 \in 1..L /\ z < y - 1
          /\ a + z = q /\ a + (z + 1) = q + 1
      BY <1>2
    <3> HIDE DEF z
    <3>2. s[z] = 0 /\ s[z + 1] = 0
      BY <3>1, <1>3
    <3>3. z \in Pairs(s, x)
      BY <3>1, <3>2 DEF Pairs
    <3> QED BY <3>1, <3>3, <1>6
  <2>3. j - i = y - x /\ (y > x <=> j > i)
    BY <1>2
  <2>4. Fresh(m, p, i)
    BY <1>6
  <2> HIDE DEF i, j
  <2>5. p[j] = p[i] + (j - i) /\ (j > i => p[j] = p[j - 1] + 1)
    BY <2>1, <2>2, <2>4, NoneInserted
  <2>6. p[j] = p[i] + (y - x) /\ (y > x => p[j] = p[j - 1] + 1)
    BY <2>3, <2>5
  <2> QED BY <2>6 DEF i, j
<1> DEFINE Good(x) == f[x] \in Nat /\ (Fresh(m, p, a + x) => p[b] = p[a + x] + (L - x) + f[x])
           S == {n \in Nat : \A x \in 1..L : L - x <= n => Good(x)}
<1>7. ASSUME NEW x \in 1..L, \A z \in x + 1..L : Good(z) PROVE Good(x)
  <2>1. f[x] \in Nat /\ f[x] = CountFrom(s, f, x)
    <3>1. \A z \in x + 1..L : f[z] \in Nat
      BY <1>7
    <3>2. CountFrom(s, f, x) \in Nat
      BY <3>1, <1>2, CountFromTyped
    <3> QED BY <3>2, <1>5
  <2> SUFFICES ASSUME Fresh(m, p, a + x) PROVE p[b] = p[a + x] + (L - x) + f[x]
    BY <2>1
  <2>2. CASE Pairs(s, x) = {}
    <3>1. f[x] = 0
      BY <2>1, <2>2 DEF CountFrom
    <3>2. L \in x..L /\ a + L = b /\ a + x \in 1..l
      BY <1>2
    <3>3. p[a + L] = p[a + x] + (L - x)
      BY <3>2, <2>2, <1>6
    <3>4. p[a + x] \in Nat
      BY <3>2, <1>4
    <3> QED BY <3>1, <3>2, <3>3, <3>4, SMTT(20)
  <2>3. CASE Pairs(s, x) # {}
    <3> DEFINE q == First(Pairs(s, x))
               z == q + 2
    <3>1. q \in Pairs(s, x) /\ \A t \in Pairs(s, x) : q <= t
      BY <2>3, FirstPair
    <3> HIDE DEF q
    <3>2. q \in x..L - 2 /\ q \in 1..L /\ q + 1 \in 1..L /\ q + 1 \in x..L /\ z \in x + 1..L
          /\ s[q] = 0 /\ s[q + 1] = 0
      BY <3>1, <1>2 DEF Pairs
    <3>3. f[x] = f[z] + IF s[z] <= 3 THEN 1 ELSE 0
      BY <2>1, <2>3 DEF CountFrom, q
    <3> DEFINE i == a + q
               j == a + (q + 1)
               k == a + z
    <3>4. /\ j = i + 1 /\ k = j + 1 /\ i \in 1..l - 1 /\ j \in 2..l - 1 /\ k \in 1..l /\ a + x \in 1..l
          /\ i \in 1..l /\ j \in 1..l /\ z \in 1..L
      BY <3>2, <1>2
    <3>5. d[i] = 0 /\ d[j] = 0 /\ d[k] = s[z]
      BY <3>2, <3>4, <1>3
    <3>7. p[j] = p[a + x] + (q + 1 - x) /\ p[j] = p[i] + 1
      <4> DEFINE y == q + 1
      <4>1. y \in x..L /\ y > x /\ y - 1 = q /\ a + y = j /\ a + y - 1 = i
        BY <3>2, <1>2
      <4>0. y = q + 1
        OBVIOUS
      <4>2. ASSUME NEW t \in Pairs(s, x) PROVE ~(t < y - 1)
        <5>1. q <= t
          BY <3>1
        <5>2. t \in Int
          BY DEF Pairs
        <5> QED BY <5>1, <5>2, <3>2, <4>1
      <4> HIDE DEF y, i, j
      <4>5. y \in x..L => p[a + y] = p[a + x] + (y - x) /\ (y > x => p[a + y] = p[a + y - 1] + 1)
        BY <4>2, <1>6
      <4>3. p[a + y] = p[a + x] + (y - x) /\ p[a + y] = p[a + y - 1] + 1
        BY <4>1, <4>5, Zenon
      <4>4. p[j] = p[a + x] + (y - x) /\ p[j] = p[i] + 1
        BY <4>1, <4>3
      <4> DEFINE px == p[a + x]  pj == p[j]
      <4>6. pj = px + (y - x) /\ pj = p[i] + 1
        BY <4>4
      <4>8. px \in Nat
        <5>1. a + x \in 1..l
          BY <1>2
        <5> QED BY <5>1, <1>4
      <4> HIDE DEF px, pj
      <4>7. pj = px + (q + 1 - x) /\ pj = p[i] + 1
        <5>1. y - x = q + 1 - x
          BY <4>0, <3>2
        <5> QED BY <4>6, <5>1, Zenon
      <4> QED BY <4>7 DEF px, pj
    <3> HIDE DEF i, j, k, z
    <3>9. p[j] = p[i] + 1
      BY <3>7
    <3>10. m[p[j]] = 0 /\ m[p[j] - 1] = 0
      <4>1. i \in 1..Len(p) - 1
        BY <3>4, <1>1
      <4>2. p[i + 1] = p[i] + 1 /\ d[i] = 0 /\ d[i + 1] = 0 => m[p[i + 1]] = 0 /\ m[p[i + 1] - 1] = 0
        BY <4>1, PairBefore, SMTT(30)
      <4>3. i + 1 = j
        BY <3>4
      <4>4. p[j] = p[i] + 1 /\ d[i] = 0 /\ d[j] = 0 => m[p[j]] = 0 /\ m[p[j] - 1] = 0
        BY <4>2, <4>3, Zenon
      <4> QED BY ONLY <4>4, <3>5, <3>9
    <3>11. s[z] \in Nat /\ p[j] \in Nat \ {0} /\ p[i] \in Nat \ {0} /\ m[p[k]] = d[k] /\ p[a + x] \in Nat
           /\ p[k] \in Nat
      BY <3>4, <1>2, <1>4, SMTT(20)
    <3>12. Stuffed(m, p[j], d[k]) <=> s[z] <= 3
      <4>0. p[i] \in Nat \ {0}
        BY <3>11
      <4>1. p[j] >= 2
        BY <4>0, <3>9
      <4> QED BY <4>1, <3>5, <3>10 DEF Stuffed
    <3>13. p[k] = p[j] + IF s[z] <= 3 THEN 2 ELSE 1
      <4>1. IF Stuffed(m, p[j], d[j + 1]) THEN p[j + 1] = p[j] + 2 /\ m[p[j] + 1] = 3
                                          ELSE p[j + 1] = p[j] + 1
        <5>1. j \in 1..Len(p) - 1
          BY <3>4, <1>1
        <5> QED BY <5>1 DEF Chain
      <4> QED BY <4>1, <3>4, <3>12
    <3>14. Fresh(m, p, k)
      <4>1. CASE s[z] <= 3
        <5>1. Stuffed(m, p[j], d[j + 1])
          BY <4>1, <3>4, <3>12
        <5>2. m[p[j] + 1] = 3
          BY <3>4, <5>1, <1>1 DEF Chain
        <5>3. p[k] - 1 = p[j] + 1
          BY <4>1, <3>11, <3>13
        <5> QED BY <5>2, <5>3 DEF Fresh
      <4>2. CASE ~(s[z] <= 3)
        <5>1. m[p[k]] # 0
          BY <4>2, <3>5, <3>11, SMTT(20)
        <5> QED BY <5>1 DEF Fresh
      <4> QED BY <4>1, <4>2
    <3>15. f[z] \in Nat /\ p[b] = p[k] + (L - z) + f[z]
      <4>1. f[z] \in Nat /\ (Fresh(m, p, a + z) => p[b] = p[a + z] + (L - z) + f[z])
        BY <3>2, <1>7
      <4> QED BY <4>1, <3>14 DEF k
    <3>16. z = q + 2 /\ q \in Nat /\ x \in Nat
      BY <3>2 DEF z
    <3>17. p[j] = p[a + x] + (q + 1 - x)
      BY <3>7
    <3> DEFINE pb == p[b]  pk == p[k]  pj == p[j]  px == p[a + x]  fz == f[z]  fx == f[x]
    <3>20. /\ pk \in Nat /\ pj \in Nat /\ px \in Nat /\ fz \in Nat
           /\ pj = px + (q + 1 - x) /\ pk = pj + (IF s[z] <= 3 THEN 2 ELSE 1)
           /\ pb = pk + (L - z) + fz /\ fx = fz + (IF s[z] <= 3 THEN 1 ELSE 0)
      BY <3>3, <3>11, <3>13, <3>15, <3>17
    <3> HIDE DEF pb, pk, pj, px, fz, fx
    <3>21. pb = px + (L - x) + fx
      BY <3>16, <3>20, <1>2
    <3> QED BY <3>21 DEF pb, px, fx
  <2> QED BY <2>2, <2>3
<1>8. 0 \in S
  <2> HIDE DEF Good
  <2> SUFFICES ASSUME NEW x \in 1..L, L - x <= 0 PROVE Good(x)
    OBVIOUS
  <2>1. \A z \in x + 1..L : FALSE
    BY <1>2
  <2> QED BY <2>1, <1>7
<1>9. ASSUME NEW n \in Nat, n \in S PROVE n + 1 \in S
  <2> HIDE DEF Good
  <2> SUFFICES ASSUME NEW x \in 1..L, L - x <= n + 1 PROVE Good(x)
    OBVIOUS
  <2>1. \A z \in x + 1..L : z \in 1..L /\ L - z <= n
    BY <1>2
  <2>2. \A z \in x + 1..L : Good(z)
    BY <2>1, <1>9
  <2> QED BY <2>2, <1>7
<1>10. Good(1)
  <2>1. Nat \subseteq S
    <3> HIDE DEF S
    <3> QED BY <1>8, <1>9, SetInduction
  <2> HIDE DEF Good
  <2>2. 1 \in 1..L /\ L - 1 \in S
    <3> HIDE DEF S
    <3> QED BY <2>1, <1>2
  <2> QED BY <2>2
\* The first byte follows a byte that is not 0.
<1>11. p[a + 1] = p[a] + 1 /\ Fresh(m, p, a + 1)
  <2>1. a \in 1..l - 1 /\ a \in 1..l /\ p[a] \in Nat /\ m[p[a]] # 0
    BY <1>2, <1>4
  <2>2. ~Stuffed(m, p[a], d[a + 1])
    BY <2>1 DEF Stuffed
  <2>3. p[a + 1] = p[a] + 1
    BY <2>1, <2>2, <1>1 DEF Chain
  <2>4. p[a + 1] - 1 = p[a]
    BY <2>1, <2>3
  <2> QED BY <2>1, <2>3, <2>4 DEF Fresh
<1>12. p[b] = p[a + 1] + (L - 1) + f[1] /\ f[1] \in Nat
  BY <1>10, <1>11
<1>13. p[a] \in Nat
  BY <1>2, <1>4
<1>14. p[b] = p[a] + L + f[1]
  <2> DEFINE pb == p[b]  pa == p[a]  p1 == p[a + 1]  f1 == f[1]
  <2>1. pb = p1 + (L - 1) + f1 /\ f1 \in Nat /\ pa \in Nat /\ p1 = pa + 1
    BY <1>11, <1>12, <1>13
  <2> HIDE DEF pb, pa, p1, f1
  <2>2. pb = pa + L + f1
    BY <2>1, <1>2
  <2> QED BY <2>2 DEF pb, pa, f1
<1> QED BY <1>5, <1>14 DEF L

(* ----------------------- the locations the decoder kept ----------------------- *)

\* An inserted byte stands behind a byte of data, and the inserted bytes before it are
\* those that are listed before it.
LEMMA InsertedBehind ==
  ASSUME NEW m, NEW p, NEW d, Chain(m, p, d), NEW locs \in Seq(Nat), NEW at \in Nat,
         Marks(at, locs, p), Len(m) <= at,
         NEW t \in 1..Len(p), NEW i \in 1..Len(locs), locs[i] < p[t]
  PROVE  locs[i] < t + i - 1
<1>1. PICK n \in Nat, l \in Nat : n = Len(locs) /\ l = Len(p)
  BY DEF Chain
<1>2. /\ p[1] = 1 /\ \A u \in 1..l : p[u] \in Nat \ {0}
      /\ \A u, v \in 1..l : u < v => p[u] < p[v]
      /\ \A u \in 1..l - 1 : p[u + 1] = p[u] + 1 \/ p[u + 1] = p[u] + 2
  <2>1. p \in Seq(Nat) /\ p[1] = 1
    BY DEF Chain
  <2>2. /\ \A u \in 1..l : p[u] \in 1..Len(m)
        /\ \A u, v \in 1..l : u < v => p[u] < p[v]
    BY <1>1 DEF Chain
  <2>3. \A u \in 1..l - 1 : p[u + 1] = p[u] + 1 \/ p[u + 1] = p[u] + 2
    BY <1>1 DEF Chain
  <2> QED BY <2>1, <2>2, <2>3, <1>1
<1> DEFINE x == locs[i]
<1>3. x \in Nat /\ \A u \in 1..l : p[u] # x + 1
  <2>1. locs[i] \in 0..at - 1 /\ Free(p, locs[i])
    BY DEF Marks
  <2> QED BY <2>1, <1>1 DEF Free
<1>4. \A k \in 1..n : k < i => locs[k] < x
  <2>1. \A k, j \in 1..n : k < j => locs[k] < locs[j]
    BY <1>1, Rising DEF Marks
  <2> QED BY <2>1, <1>1
<1> DEFINE T == {u \in 1..l : x < p[u]}
<1> HIDE DEF x
<1>5. PICK v \in T : \A u \in T : v <= u
  <2>1. T \subseteq Nat /\ t \in T
    BY <1>1 DEF x
  <2> HIDE DEF T
  <2> QED BY <2>1, LeastNumber
<1>6. v \in 1..l /\ v <= t /\ x < p[v] /\ v # 1
  <2>1. t \in T
    BY <1>1 DEF x
  <2>2. v \in 1..l /\ v <= t /\ x < p[v]
    BY <2>1, <1>5
  <2>3. v # 1
    BY <2>2, <1>2, <1>3
  <2> QED BY <2>2, <2>3
<1> DEFINE u == v - 1
<1>7. u \in 1..l - 1 /\ u \in 1..l /\ u + 1 = v /\ u < t /\ p[u] <= x
  <2>1. u \in 1..l - 1 /\ u \in 1..l /\ u + 1 = v /\ u < t
    BY <1>1, <1>6
  <2>2. u \notin T
    <3> SUFFICES ASSUME u \in T PROVE FALSE
      OBVIOUS
    <3>1. v <= u
      BY <1>5
    <3> QED BY <3>1, <1>6
  <2>3. ~(x < p[u]) /\ p[u] \in Nat
    BY <2>1, <2>2, <1>2
  <2> QED BY <2>1, <2>3, <1>3
<1> HIDE DEF u
<1>8. p[u] = x
  <2>1. p[v] = p[u] + 1 \/ p[v] = p[u] + 2
    BY <1>7, <1>2
  <2>2. p[v] # x + 1 /\ p[u] \in Nat /\ p[v] \in Nat
    BY <1>6, <1>7, <1>2, <1>3
  <2> DEFINE pu == p[u]  pv == p[v]
  <2>3. /\ pu \in Nat /\ pv \in Nat /\ (pv = pu + 1 \/ pv = pu + 2) /\ pv # x + 1
        /\ x < pv /\ pu <= x /\ x \in Nat
    BY <2>1, <2>2, <1>3, <1>6, <1>7
  <2> HIDE DEF pu, pv
  <2>4. pu = x
    BY <2>3
  <2> QED BY <2>4 DEF pu
<1>9. PICK c \in 0..n : Inserted(locs, p, u, c)
  <2>1. u \in 1..Len(p)
    BY <1>7, <1>1
  <2>2. \E c \in 0..Len(locs) : Inserted(locs, p, u, c)
    BY <2>1, InsertedCounted
  <2> QED BY <2>2, <1>1
<1>10. c = i - 1
  <2>1. \A k \in 1..n : k <= c <=> locs[k] < x
    BY <1>8, <1>9, <1>1 DEF Inserted
  <2>2. ~(i <= c)
    <3>1. i \in 1..n /\ ~(locs[i] < x)
      BY <1>1, <1>3 DEF x
    <3> QED BY <3>1, <2>1
  <2>3. CASE i > 1
    <3> DEFINE k == i - 1
    <3>1. k \in 1..n /\ k < i /\ i = k + 1
      BY <2>3, <1>1
    <3> HIDE DEF k
    <3>2. k <= c
      BY <3>1, <1>4, <2>1
    <3> QED BY <3>1, <3>2, <2>2, <1>1
  <2> QED BY <2>2, <2>3, <1>1
<1>11. x = u + c
  BY <1>8, <1>9 DEF Inserted
<1>12. x < t + i - 1
  BY <1>1, <1>7, <1>10, <1>11
<1> QED BY <1>12 DEF x

\* The loop over the locations in parseSliceHeaderToNaluLocation moves the end of the
\* header by one for each inserted byte before it, and by no other.
LEMMA HeaderMoves ==
  ASSUME NEW m, NEW p, NEW d, Chain(m, p, d), NEW locs \in Seq(Nat), NEW at \in Nat,
         Marks(at, locs, p), Len(m) <= at, NEW t \in 1..Len(p),
         NEW f, f[0] = t,
         \A i \in 1..Len(locs) : f[i] = IF locs[i] < f[i - 1] THEN f[i - 1] + 1 ELSE f[i - 1]
  PROVE  f[Len(locs)] = p[t]
<1>1. PICK n \in Nat, l \in Nat : n = Len(locs) /\ l = Len(p)
  BY DEF Chain
<1>2. PICK c \in 0..n : Inserted(locs, p, t, c)
  BY <1>1, InsertedCounted
<1>3. p[t] = t + c /\ \A i \in 1..n : i <= c <=> locs[i] < p[t]
  BY <1>1, <1>2 DEF Inserted
<1>4. \A i \in 1..n : locs[i] \in Nat /\ (locs[i] < p[t] => locs[i] < t + i - 1)
  <2>1. ASSUME NEW i \in 1..Len(locs), locs[i] < p[t] PROVE locs[i] < t + i - 1
    BY <2>1, InsertedBehind
  <2> QED BY <2>1, <1>1
<1> DEFINE S == {i \in Nat : i <= n => f[i] = t + IF i <= c THEN i ELSE c}
<1>5. 0 \in S
  BY <1>1
<1>6. ASSUME NEW j \in Nat, j \in S PROVE j + 1 \in S
  <2> SUFFICES ASSUME j + 1 <= n PROVE f[j + 1] = t + IF j + 1 <= c THEN j + 1 ELSE c
    OBVIOUS
  <2> DEFINE i == j + 1
  <2>1. i \in 1..n /\ i - 1 = j /\ j <= n
    OBVIOUS
  <2>2. f[j] = t + IF j <= c THEN j ELSE c
    BY <2>1, <1>6
  <2>3. f[i] = IF locs[i] < f[j] THEN f[j] + 1 ELSE f[j]
    <3>1. f[i] = IF locs[i] < f[i - 1] THEN f[i - 1] + 1 ELSE f[i - 1]
      BY <2>1, <1>1
    <3> QED BY <2>1, <3>1
  <2>4. CASE i <= c
    <3>1. locs[i] < t + i - 1 /\ j <= c
      BY <2>1, <2>4, <1>3, <1>4
    <3> QED BY <3>1, <2>2, <2>3, <2>4, <1>1
  <2>5. CASE ~(i <= c)
    <3>1. ~(locs[i] < t + c) /\ locs[i] \in Nat
      BY <2>1, <2>5, <1>3, <1>4
    <3>2. f[j] = t + c
      BY <2>2, <2>5
    <3> QED BY <3>1, <3>2, <2>3, <2>5
  <2> QED BY <2>4, <2>5
<1>7. n \in S
  <2>1. Nat \subseteq S
    <3> HIDE DEF S
    <3> QED BY <1>5, <1>6, SetInduction
  <2> QED BY <2>1
<1>8. f[n] = t + c
  <2>1. f[n] = t + IF n <= c THEN n ELSE c
    BY <1>7
  <2>2. (IF n <= c THEN n ELSE c) = c
    OBVIOUS
  <2> QED BY <2>1, <2>2
<1> QED BY <1>1, <1>3, <1>8

\* The locations between two bytes of data, counted.
LEMMA LocationsBetween ==
  ASSUME NEW m, NEW p, NEW d, Chain(m, p, d), NEW locs \in Seq(Nat), NEW at \in Nat,
         Marks(at, locs, p), Len(m) <= at,
         NEW a \in 1..Len(p), NEW b \in 1..Len(p), a <= b
  PROVE  Cardinality({x \in {locs[i] : i \in 1..Len(locs)} : p[a] <= x /\ x < p[b]})
           = (p[b] - b) - (p[a] - a)
<1>1. PICK n \in Nat, l \in Nat : n = Len(locs) /\ l = Len(p)
  BY DEF Chain
<1>2. PICK ca \in 0..n, cb \in 0..n : Inserted(locs, p, a, ca) /\ Inserted(locs, p, b, cb)
  BY <1>1, InsertedCounted
<1>3. /\ p[a] = a + ca /\ \A i \in 1..n : i <= ca <=> locs[i] < p[a]
      /\ p[b] = b + cb /\ \A i \in 1..n : i <= cb <=> locs[i] < p[b]
  BY <1>1, <1>2 DEF Inserted
<1>4. p[a] \in Nat /\ p[b] \in Nat /\ \A i \in 1..n : locs[i] \in Nat
  BY <1>1, <1>3
<1>5. \A k, j \in 1..n : k < j => locs[k] < locs[j]
  BY <1>1, Rising DEF Marks
<1> DEFINE X == {x \in {locs[i] : i \in 1..n} : p[a] <= x /\ x < p[b]}
           I == ca + 1..cb
           g == [i \in I |-> locs[i]]
<1>6. I \subseteq 1..n
  OBVIOUS
<1>7. \A i \in 1..n : i \in I <=> p[a] <= locs[i] /\ locs[i] < p[b]
  BY <1>3, <1>4
<1>8. g \in Bijection(I, X)
  <2>1. g \in [I -> X]
    BY <1>6, <1>7
  <2>2. \A i, j \in I : g[i] = g[j] => i = j
    <3> SUFFICES ASSUME NEW i \in I, NEW j \in I, i < j PROVE g[i] # g[j]
      OBVIOUS
    <3>1. locs[i] < locs[j] /\ locs[i] \in Nat /\ locs[j] \in Nat
      BY <1>4, <1>5, <1>6
    <3> QED BY <3>1
  <2>3. \A x \in X : \E i \in I : g[i] = x
    BY <1>7
  <2> HIDE DEF g, I, X
  <2> QED BY <2>1, <2>2, <2>3 DEF Bijection, Injection, Surjection, IsInjective
<1>9. IsFiniteSet(I) /\ Cardinality(I) = IF ca + 1 > cb THEN 0 ELSE cb - (ca + 1) + 1
  BY FS_Interval
<1>10. ca <= cb
  <2>1. CASE a = b
    BY <2>1, <1>3
  <2>2. CASE a # b
    <3>1. p[a] < p[b]
      BY <2>2, <1>1 DEF Chain
    <3>2. CASE ca > cb
      <4>1. ca \in 1..n
        BY <3>2
      <4>2. locs[ca] < p[a] /\ ~(locs[ca] < p[b])
        BY <3>2, <4>1, <1>3
      <4> QED BY <4>1, <4>2, <3>1, <1>4
    <3> QED BY <3>2
  <2> QED BY <2>1, <2>2
<1>11. Cardinality(X) = Cardinality(I)
  <2>1. ExistsBijection(I, X)
    <3> HIDE DEF g, I, X
    <3> QED BY <1>8 DEF ExistsBijection
  <2> HIDE DEF I, X
  <2> QED BY <2>1, <1>9, FS_Bijection
<1>12. Cardinality(X) = (p[b] - b) - (p[a] - a)
  <2> HIDE DEF X, I
  <2> QED BY <1>3, <1>9, <1>10, <1>11, <1>1
<1> QED BY <1>12, <1>1

(* ------------------------- slices are written as NAL units -------------------- *)

\* Cutting the RBSP into parts does not change how it is written and read.
LEMMA SliceStepIsNalStep == SliceNext => [Next]_vars
<1> SUFFICES ASSUME SliceNext PROVE [Next]_vars
  OBVIOUS
<1>1. ASSUME NEW v \in Bytes, SliceByte(v) PROVE Next
  BY <1>1 DEF SliceByte, Next
<1>2. CASE EndPart \/ EndHeader \/ ReadEntryPoint \/ ExtractSubstreams
  BY <1>2 DEF EndPart, EndHeader, ReadEntryPoint, ExtractSubstreams
<1>3. CASE EndUnit
  BY <1>3 DEF EndUnit, Next
<1>4. CASE NalStep
  BY <1>4 DEF NalStep, Next
<1> QED BY <1>1, <1>2, <1>3, <1>4 DEF SliceNext

\* EncGOP and the NAL unit writer: a slice with its sub-streams is written and read as
\* any NAL unit is.
THEOREM SlicesAreNalUnits == SliceSpec => Spec
<1>1. SliceInit => Init
  BY DEF SliceInit
<1>2. [SliceNext]_svars => [Next]_vars
  <2>1. UNCHANGED svars => UNCHANGED vars
    BY DEF svars
  <2> QED BY <2>1, SliceStepIsNalStep
<1> QED BY <1>1, <1>2, PTL DEF SliceSpec, Spec

\* The parts of the RBSP: each ends behind the one before it, in a byte that is not 0.
EndsOK ==
  /\ ends \in Seq(Nat)
  /\ Len(rbsp) <= MaxBytes + 2
  /\ \A k \in 1..Len(ends) : ends[k] \in 1..Len(rbsp) /\ rbsp[ends[k]] # 0
  /\ \A j, k \in 1..Len(ends) : j < k => ends[j] < ends[k]
  /\ phase # "write" /\ ends # <<>> => Len(ends) > 1 /\ ends[Len(ends)] = Len(rbsp)
  /\ phase = "done" => r.at = Len(w.nal)

Unread == [header |-> 0, prev |-> 0, sizes |-> <<>>, streams |-> <<>>]

\* The decoder: what it has found of the parts so far.
Found ==
  \/ e = Unread
  \/ /\ phase = "done" /\ ends # <<>>
     /\ \E prev, sizes, streams :
          /\ e = [header |-> place[ends[1]], prev |-> prev, sizes |-> sizes, streams |-> streams]
          /\ sizes \in Seq(Int) /\ Len(sizes) <= Len(ends) - 2
          /\ \A k \in 1..Len(sizes) : sizes[k] = ends[k + 1] - ends[k]
          /\ prev = place[ends[Len(sizes) + 1]] - place[ends[1]]
          /\ streams = <<>> \/ streams = [k \in Streams |-> Part(k)]

SliceInv == EndsOK /\ Found

LEMMA SliceInitInv == SliceInit => SliceInv
<1> SUFFICES ASSUME SliceInit PROVE SliceInv
  OBVIOUS
<1>1. TypeOK
  BY TypeInit DEF SliceInit
<1>2. Len(rbsp) = 2
  <2> DEFINE S == 0..255
             T == 1..255
  <2>1. rbsp \in S \X T
    BY NalAssumption DEF SliceInit, Init
  <2> HIDE DEF S, T
  <2>2. PICK a \in S, b \in T : rbsp = <<a, b>>
    BY <2>1, PairOf
  <2> QED BY <2>2
<1>3. Len(rbsp) <= MaxBytes + 2
  BY <1>2, NalAssumption
<1>4. ends = <<>> /\ phase = "write" /\ e = Unread
  BY DEF SliceInit, Init, Unread
<1> QED BY <1>3, <1>4 DEF SliceInv, EndsOK, Found

\* EndsOK in parts, for the steps that change one of them.
RisingEnds(c, n) ==
  /\ c \in Seq(Nat)
  /\ \A k \in 1..Len(c) : c[k] \in 1..Len(n) /\ n[c[k]] # 0
  /\ \A j, k \in 1..Len(c) : j < k => c[j] < c[k]

LEMMA EndsParts ==
  EndsOK <=> /\ RisingEnds(ends, rbsp) /\ Len(rbsp) <= MaxBytes + 2
             /\ phase # "write" /\ ends # <<>> => Len(ends) > 1 /\ ends[Len(ends)] = Len(rbsp)
             /\ phase = "done" => r.at = Len(w.nal)
  BY DEF EndsOK, RisingEnds

LEMMA EndsKept ==
  ASSUME EndsOK, rbsp' = rbsp, ends' = ends,
         phase' # "write" /\ ends # <<>> => Len(ends) > 1 /\ ends[Len(ends)] = Len(rbsp),
         phase' = "done" => r'.at = Len(w'.nal)
  PROVE  EndsOK'
<1>1. RisingEnds(ends, rbsp) /\ Len(rbsp) <= MaxBytes + 2
  BY EndsParts
<1>2. RisingEnds(ends', rbsp') /\ Len(rbsp') <= MaxBytes + 2
  BY <1>1
<1>3. phase' # "write" /\ ends' # <<>> => Len(ends') > 1 /\ ends'[Len(ends')] = Len(rbsp')
  OBVIOUS
<1> QED BY <1>2, <1>3 DEF EndsOK, RisingEnds

\* The steps of the encoder and of the NAL unit reader.
LEMMA WritingEnds ==
  ASSUME TypeOK, IInv, SliceInv,
         (\E v \in Bytes : SliceByte(v)) \/ EndPart \/ EndUnit \/ NalStep
  PROVE  SliceInv'
<1>0. rbsp \in Seq(Byte) /\ Len(rbsp) \in Nat /\ ends \in Seq(Nat) /\ Len(ends) \in Nat
      /\ Len(rbsp) <= MaxBytes + 2 /\ MaxBytes \in Nat
  BY NalAssumption DEF TypeOK, SliceInv, EndsOK
<1>1. phase # "done" /\ e = Unread
  BY DEF SliceInv, Found, SliceByte, WriteByte, EndPart, EndUnit, EndNalUnit, NalStep, PadZeroWord,
         Deliver, ReadByte, EndRead
<1>2. e' = Unread
  BY <1>1 DEF SliceByte, EndPart, EndUnit, NalStep
<1>3. ASSUME NEW v \in Bytes, SliceByte(v) PROVE EndsOK'
  <2>1. /\ rbsp' = Append(rbsp, v) /\ ends' = ends /\ phase = "write" /\ phase' = "write"
        /\ Len(rbsp) < MaxBytes
    BY <1>3 DEF SliceByte, WriteByte
  <2>2. v \in Byte
    BY NalAssumption DEF Byte
  <2>3. /\ Len(rbsp') = Len(rbsp) + 1 /\ \A i \in 1..Len(rbsp) : rbsp'[i] = rbsp[i]
        /\ 1..Len(rbsp) \subseteq 1..Len(rbsp')
    BY <2>1, <2>2, <1>0
  <2> QED BY <1>0, <2>1, <2>3 DEF SliceInv, EndsOK
<1>4. ASSUME EndPart PROVE EndsOK'
  <2> DEFINE h == Len(rbsp)
             n == Len(ends)
  <2>1. /\ ends' = Append(ends, h) /\ rbsp' = rbsp /\ phase = "write" /\ phase' = "write"
        /\ rbsp[h] # 0 /\ h > IF ends = <<>> THEN 2 ELSE ends[n]
    BY <1>4 DEF EndPart, vars
  <2>2. /\ ends' \in Seq(Nat) /\ Len(ends') = n + 1 /\ ends'[n + 1] = h
        /\ \A k \in 1..n : ends'[k] = ends[k]
    BY <2>1, <1>0
  <2>3. /\ \A k \in 1..n : ends[k] \in 1..h /\ rbsp[ends[k]] # 0
        /\ \A j, k \in 1..n : j < k => ends[j] < ends[k]
    BY DEF SliceInv, EndsOK
  <2> HIDE DEF h, n
  <2>4. h \in Nat /\ n \in Nat /\ h \in 1..h
    <3>1. CASE ends = <<>>
      BY <3>1, <2>1, <1>0 DEF h, n
    <3>2. CASE ends # <<>>
      <4>1. n \in 1..n
        BY <3>2, <1>0 DEF n
      <4>2. ends[n] \in 1..h /\ ends[n] < h
        BY <4>1, <2>1, <2>3, <3>2
      <4> QED BY <4>2, <1>0 DEF h, n
    <3> QED BY <3>1, <3>2
  <2>5. ASSUME NEW j \in 1..n PROVE ends[j] < h
    <3>1. n \in 1..n /\ ends # <<>> /\ (j < n \/ j = n)
      BY <2>4 DEF n
    <3>2. ends[n] < h /\ ends[j] \in 1..h /\ ends[n] \in 1..h
      BY <3>1, <2>1, <2>3
    <3>3. j < n => ends[j] < ends[n]
      BY <3>1, <2>3
    <3> QED BY <3>1, <3>2, <3>3, <2>4
  <2>6. \A k \in 1..n + 1 : ends'[k] \in 1..h /\ rbsp[ends'[k]] # 0
    BY <2>1, <2>2, <2>3, <2>4
  <2>7. \A j, k \in 1..n + 1 : j < k => ends'[j] < ends'[k]
    <3> SUFFICES ASSUME NEW j \in 1..n + 1, NEW k \in 1..n + 1, j < k PROVE ends'[j] < ends'[k]
      OBVIOUS
    <3>1. j \in 1..n /\ (k \in 1..n \/ k = n + 1)
      BY <2>4
    <3> QED BY <3>1, <2>2, <2>3, <2>5
  <2>8. RisingEnds(ends', rbsp)
    BY <2>2, <2>6, <2>7 DEF h, RisingEnds
  <2>9. RisingEnds(ends', rbsp') /\ phase' = "write" /\ Len(rbsp') <= MaxBytes + 2
    BY <2>1, <2>8, <1>0
  <2> QED BY ONLY <2>9 DEF EndsOK, RisingEnds
<1>5. ASSUME EndUnit PROVE EndsOK'
  <2>1. ends # <<>> => Len(ends) > 1 /\ ends[Len(ends)] = Len(rbsp)
    BY <1>5 DEF EndUnit
  <2>2. rbsp' = rbsp /\ ends' = ends /\ phase' = "pad"
    BY <1>5 DEF EndUnit, EndNalUnit
  <2>3. EndsOK /\ phase' # "done"
    BY <2>2 DEF SliceInv
  <2> QED BY ONLY <2>1, <2>2, <2>3, EndsKept
<1>6. ASSUME NalStep PROVE EndsOK'
  <2>0. /\ ends' = ends /\ rbsp' = rbsp /\ phase # "write"
        /\ ends # <<>> => Len(ends) > 1 /\ ends[Len(ends)] = Len(rbsp)
    BY <1>6 DEF NalStep, PadZeroWord, Deliver, ReadByte, EndRead, SliceInv, EndsOK
  <2>1. CASE PadZeroWord \/ Deliver \/ ReadByte
    <3>1. phase' # "done"
      BY <2>1 DEF PadZeroWord, Deliver, ReadByte
    <3>2. EndsOK
      BY DEF SliceInv
    <3> QED BY ONLY <2>0, <3>1, <3>2, EndsKept
  <2>2. CASE EndRead
    <3>1. r' = [r EXCEPT !.payload = rbsp]
      BY <2>2, EndReadStep
    <3>2. r'.at = r.at
      BY <3>1 DEF TypeOK, ReaderType
    <3>3. r.at = Len(w.nal) /\ w' = w
      BY <2>2 DEF EndRead
    <3>4. EndsOK /\ r'.at = Len(w'.nal)
      BY <3>2, <3>3 DEF SliceInv
    <3> QED BY ONLY <2>0, <3>4, EndsKept
  <2> QED BY <2>1, <2>2, <1>6 DEF NalStep
<1> QED BY <1>2, <1>3, <1>4, <1>5, <1>6 DEF SliceInv, Found, Unread

(* ------------------------------ the entry points ------------------------------ *)

\* What the reader holds when it is through, and where the data stands.
LEMMA WhenDone ==
  ASSUME TypeOK, IInv, phase = "done", r.at = Len(w.nal)
  PROVE  \E m, d : /\ Chain(m, place, d) /\ Len(rbsp) <= Len(place)
                   /\ \A i \in 1..Len(rbsp) : d[i] = rbsp[i]
                   /\ Marks(r.at, r.locations, place) /\ Len(m) <= r.at
                   /\ r.payload = rbsp
<1>1. PICK m, k, d : Core(m, k, d)
  BY DEF IInv
<1>2. Data(d, rbsp, words) /\ Chain(m, place, d) /\ Marks(r.at, r.locations, place) /\ r.payload = rbsp
  BY <1>1 DEF Core
<1>3. Closed(w.nal, m) /\ m \in Seq(Nat)
  BY <1>1, <1>2, CoreClosed DEF Chain
<1>4. Len(m) <= Len(w.nal)
  BY <1>3 DEF Closed
<1>5. Len(rbsp) <= Len(place)
  BY <1>2 DEF Data, Chain, TypeOK
<1> QED BY <1>2, <1>4, <1>5 DEF Data

\* At most every second byte of a NAL unit is inserted.
LEMMA PlaceBound ==
  ASSUME NEW m, NEW p, NEW d, Chain(m, p, d)
  PROVE  \A t \in 1..Len(p) : p[t] \in Nat /\ p[t] <= 2 * t
<1>1. PICK l \in Nat : l = Len(p) /\ l >= 2
  BY DEF Chain
<1>2. /\ p[1] = 1 /\ \A t \in 1..l : p[t] \in Nat
      /\ \A t \in 1..l - 1 : p[t + 1] = p[t] + 1 \/ p[t + 1] = p[t] + 2
  <2>1. p \in Seq(Nat) /\ p[1] = 1
    BY DEF Chain
  <2>2. \A t \in 1..l - 1 : p[t + 1] = p[t] + 1 \/ p[t + 1] = p[t] + 2
    BY <1>1 DEF Chain
  <2> QED BY <1>1, <2>1, <2>2
<1> DEFINE S == {n \in Nat : n + 1 <= l => p[n + 1] <= 2 * (n + 1)}
<1>3. 0 \in S
  BY <1>2
<1>4. ASSUME NEW n \in Nat, n \in S PROVE n + 1 \in S
  <2> SUFFICES ASSUME (n + 1) + 1 <= l PROVE p[(n + 1) + 1] <= 2 * ((n + 1) + 1)
    OBVIOUS
  <2> DEFINE t == n + 1
  <2>1. t \in 1..l - 1 /\ t \in 1..l /\ t \in Nat /\ p[t] <= 2 * t
    BY <1>4
  <2>2. p[t] \in Nat /\ (p[t + 1] = p[t] + 1 \/ p[t + 1] = p[t] + 2)
    BY <2>1, <1>2
  <2> HIDE DEF t
  <2>3. p[t + 1] <= 2 * (t + 1)
    BY <2>1, <2>2
  <2> QED BY <2>3 DEF t
<1>5. Nat \subseteq S
  <2> HIDE DEF S
  <2> QED BY <1>3, <1>4, SetInduction
<1>6. ASSUME NEW t \in 1..l PROVE p[t] <= 2 * t
  <2>1. t - 1 \in Nat /\ (t - 1) + 1 = t
    OBVIOUS
  <2>2. t - 1 \in S
    <3> HIDE DEF S
    <3> QED BY <2>1, <1>5
  <2>3. p[(t - 1) + 1] <= 2 * ((t - 1) + 1)
    BY <2>1, <2>2
  <2> QED BY <2>1, <2>3
<1> QED BY <1>1, <1>2, <1>6

\* Where the sub-streams end: what EndsOK says once the slice has been read.
LEMMA SubstreamPlaces ==
  ASSUME TypeOK, IInv, SliceInv, phase = "done", ends # <<>>
  PROVE  /\ Len(ends) \in Nat \ {0, 1} /\ ends[Len(ends)] = Len(rbsp)
         /\ \A k \in Streams :
              /\ k \in Nat \ {0} /\ k + 1 \in 1..Len(ends) /\ k \in 1..Len(ends)
              /\ ends[k] \in Nat \ {0} /\ ends[k + 1] \in Nat /\ ends[k] < ends[k + 1]
              /\ ends[k + 1] <= Len(rbsp) /\ ends[k] <= Len(rbsp)
              /\ rbsp[ends[k]] # 0
              /\ Part(k) \in Seq(Nat) /\ Len(Part(k)) = ends[k + 1] - ends[k]
              /\ \A j \in 1..ends[k + 1] - ends[k] : Part(k)[j] = rbsp[ends[k] + j]
<1>1. /\ ends \in Seq(Nat) /\ Len(ends) > 1 /\ ends[Len(ends)] = Len(rbsp) /\ rbsp \in Seq(Nat)
      /\ \A k \in 1..Len(ends) : ends[k] \in 1..Len(rbsp) /\ rbsp[ends[k]] # 0
      /\ \A j, k \in 1..Len(ends) : j < k => ends[j] < ends[k]
  BY BytesNat DEF SliceInv, EndsOK, TypeOK
<1>2. PICK n \in Nat, h \in Nat : n = Len(ends) /\ h = Len(rbsp) /\ n > 1
  BY <1>1
<1>3. ASSUME NEW k \in 1..n - 1
      PROVE  /\ k \in Nat \ {0} /\ k + 1 \in 1..n /\ k \in 1..n
             /\ ends[k] \in Nat \ {0} /\ ends[k + 1] \in Nat /\ ends[k] < ends[k + 1]
             /\ ends[k + 1] <= h /\ ends[k] <= h /\ rbsp[ends[k]] # 0
             /\ Part(k) \in Seq(Nat) /\ Len(Part(k)) = ends[k + 1] - ends[k]
             /\ \A j \in 1..ends[k + 1] - ends[k] : Part(k)[j] = rbsp[ends[k] + j]
  <2>1. k + 1 \in 1..n /\ k \in 1..n /\ k < k + 1 /\ k \in Nat \ {0}
    BY <1>2
  <2> DEFINE a == ends[k]
             b == ends[k + 1]
  <2>2. a \in 1..h /\ b \in 1..h /\ a < b /\ rbsp[a] # 0
    BY <2>1, <1>1, <1>2
  <2>3. Part(k) = SubSeq(rbsp, a + 1, b)
    BY DEF Part
  <2> HIDE DEF a, b
  <2>4. /\ Part(k) \in Seq(Nat) /\ Len(Part(k)) = b - a
        /\ \A j \in 1..b - a : Part(k)[j] = rbsp[a + j]
    <3>1. a + 1 \in 1..h + 1 /\ b \in 0..h /\ b - (a + 1) + 1 = b - a
      BY <2>2
    <3>2. /\ SubSeq(rbsp, a + 1, b) \in Seq(Nat) /\ Len(SubSeq(rbsp, a + 1, b)) = b - a
          /\ \A j \in 1..b - a : SubSeq(rbsp, a + 1, b)[j] = rbsp[a + j]
      BY <3>1, <2>2, <1>1, <1>2, SMTT(20)
    <3> QED BY <3>2, <2>3
  <2> QED BY <2>1, <2>2, <2>4 DEF a, b
<1>4. Streams = 1..n - 1
  BY <1>2 DEF Streams
<1>5. Len(ends) \in Nat \ {0, 1} /\ ends[Len(ends)] = Len(rbsp)
  BY <1>1, <1>2
<1> QED BY ONLY <1>2, <1>3, <1>4, <1>5

\* The size the encoder expects of a sub-stream is the one it has in the NAL unit.
LEMMA SizePredicted ==
  ASSUME TypeOK, IInv, SliceInv, phase = "done", ends # <<>>, NEW k \in Streams
  PROVE  /\ place[ends[k]] \in Nat /\ place[ends[k + 1]] \in Nat
         /\ SubstreamSize(k) = place[ends[k + 1]] - place[ends[k]]
         /\ SubstreamSize(k) \in Nat \ {0} /\ SubstreamSize(k) < 2^31
<1>1. PICK m, d : /\ Chain(m, place, d) /\ Len(rbsp) <= Len(place)
                  /\ \A i \in 1..Len(rbsp) : d[i] = rbsp[i]
  BY WhenDone DEF SliceInv, EndsOK
<1> DEFINE a == ends[k]
           b == ends[k + 1]
           s == Part(k)
<1>2. /\ a \in Nat \ {0} /\ b \in Nat /\ a < b /\ b <= Len(rbsp) /\ a <= Len(rbsp) /\ rbsp[a] # 0
      /\ s \in Seq(Nat) /\ Len(s) = b - a /\ \A j \in 1..b - a : s[j] = rbsp[a + j]
  BY SubstreamPlaces
<1>3. SubstreamSize(k) = Len(s) + CountStartCodeEmulations(s)
  BY DEF SubstreamSize
<1> DEFINE pow == 2^31
           half == 2^30
<1>4. Len(rbsp) <= MaxBytes + 2 /\ Len(rbsp) \in Nat /\ MaxBytes \in Nat /\ 2 * (MaxBytes + 2) < pow
      /\ Len(place) \in Nat
  BY NalAssumption, PartsAssumption DEF SliceInv, EndsOK, TypeOK
<1>p. pow \in Int /\ half \in Int /\ pow = 2 * half
  BY SMT
<1> HIDE DEF a, b, s, pow, half
<1>5. a \in 1..Len(place) /\ b \in 1..Len(place) /\ b <= MaxBytes + 2 /\ a < b
  BY <1>1, <1>2, <1>4
<1>6. d[a] # 0 /\ \A j \in 1..b - a : s[j] = d[a + j]
  <2>1. a \in 1..Len(rbsp) /\ \A j \in 1..b - a : a + j \in 1..Len(rbsp)
    BY <1>2, <1>4
  <2> QED BY <2>1, <1>1, <1>2
<1>7. place[b] = place[a] + (b - a) + CountStartCodeEmulations(s)
  <2>1. s \in Seq(Nat) /\ Len(s) = b - a
    BY <1>2
  <2> QED BY <1>1, <1>5, <1>6, <2>1, Predicted
<1>8. PICK c \in Nat : c = CountStartCodeEmulations(s)
  <2>1. Len(s) \in Nat \ {0}
    BY <1>2
  <2>2. PICK f : /\ \A x \in 1..Len(s) : f[x] = CountFrom(s, f, x)
                 /\ CountStartCodeEmulations(s) = f[1]
    BY <2>1, CountIs
  <2> QED BY <2>1, <2>2, CountNat
<1>9. place[a] \in Nat /\ place[b] \in Nat /\ place[b] <= 2 * b
  BY <1>1, <1>5, PlaceBound
<1> DEFINE pa == place[a]
           pb == place[b]
<1>10. /\ pa \in Nat /\ pb \in Nat /\ pb <= 2 * b /\ pb = pa + (b - a) + c
       /\ SubstreamSize(k) = (b - a) + c
  BY <1>2, <1>3, <1>7, <1>8, <1>9
<1> HIDE DEF pa, pb
<1>11. SubstreamSize(k) = pb - pa /\ SubstreamSize(k) \in Nat \ {0} /\ SubstreamSize(k) < pow
  <2> DEFINE size == SubstreamSize(k)
  <2>1. size = (b - a) + c
    BY <1>10
  <2> HIDE DEF size
  <2>2. size = pb - pa /\ size \in Nat \ {0}
    BY <2>1, <1>2, <1>8, <1>10, SMTT(20)
  <2>3. size <= 2 * (MaxBytes + 2)
    BY <2>2, <1>2, <1>4, <1>5, <1>10
  <2>4. size < pow
    BY <2>2, <2>3, <1>4, <1>p
  <2> QED BY <2>2, <2>4 DEF size
<1> QED BY <1>10, <1>11 DEF a, b, pa, pb, pow

\* The field is wide enough for each of the sizes that are sent.
LEMMA OffsetSent ==
  ASSUME TypeOK, IInv, SliceInv, phase = "done", ends # <<>>, NEW k \in Streams, k < Len(ends) - 1
  PROVE  EntryPointOffset(k) = SubstreamSize(k)
<1> DEFINE Sent == {j \in Streams : j < Len(ends) - 1}
           Fits(n) == \A j \in Sent : SubstreamSize(j) < 2^n
           T == {n \in 1..31 : Fits(n)}
           OK(n) == /\ \A j \in Streams : j < Len(ends) - 1 => SubstreamSize(j) < 2^n
                    /\ n > 1 => \E j \in Streams : j < Len(ends) - 1 /\ SubstreamSize(j) >= 2^(n - 1)
<1>1. \A j \in Streams : SubstreamSize(j) \in Nat \ {0} /\ SubstreamSize(j) < 2^31
  BY SizePredicted
<1>2. \A n \in 1..31 : 2^n \in Int
  OBVIOUS
<1>3. 31 \in T
  BY <1>1, <1>2
<1>4. PICK least \in T : \A n \in T : least <= n
  <2>1. T \subseteq Nat /\ T # {}
    <3>1. \A n \in T : n \in Nat
      <4> HIDE DEF Fits
      <4> QED OBVIOUS
    <3> HIDE DEF T
    <3> QED BY <3>1, <1>3
  <2> HIDE DEF T
  <2> QED BY <2>1, LeastNumber
<1>5. OK(least)
  <2>1. ASSUME least > 1 PROVE \E j \in Sent : SubstreamSize(j) >= 2^(least - 1)
    <3> DEFINE n == least - 1
    <3>1. n \in 1..31 /\ n < least
      BY <2>1
    <3>2. n \notin T
      <4> SUFFICES ASSUME n \in T PROVE FALSE
        OBVIOUS
      <4>1. least <= n
        BY <1>4
      <4> QED BY <4>1
    <3> HIDE DEF n
    <3>3. PICK j \in Sent : ~(SubstreamSize(j) < 2^n)
      BY <3>1, <3>2
    <3>4. 2^n \in Int /\ SubstreamSize(j) \in Nat
      BY <3>1, <1>1, <1>2
    <3>5. SubstreamSize(j) >= 2^n
      BY <3>3, <3>4
    <3> QED BY <3>5 DEF n
  <2> QED BY <2>1
<1>6. OffsetBits = CHOOSE n \in 1..31 : OK(n)
  BY DEF OffsetBits
<1> HIDE DEF OK
<1>7. OffsetBits \in 1..31 /\ OK(OffsetBits)
  <2>1. \E n \in 1..31 : OK(n)
    BY <1>5
  <2> QED BY <1>6, <2>1, Zenon
<1>8. SubstreamSize(k) < 2^OffsetBits
  BY <1>7 DEF OK
<1> DEFINE size == SubstreamSize(k)
           pow == 2^OffsetBits
<1>9. size \in Nat \ {0} /\ pow \in Nat \ {0} /\ size < pow
  BY <1>1, <1>2, <1>7, <1>8
<1>10. EntryPointOffset(k) = ((size - 1) % pow) + 1
  BY DEF EntryPointOffset
<1> HIDE DEF size, pow
<1>11. (size - 1) % pow = size - 1
  <2>1. size - 1 \in 0..pow - 1
    BY <1>9
  <2> QED BY <2>1, <1>9
<1>12. EntryPointOffset(k) = size
  BY <1>9, <1>10, <1>11
<1> QED BY <1>12 DEF size
(* -------------------------- the decoder's three steps -------------------------- *)

\* A value carried through n passes of a loop.
LEMMA Passes ==
  ASSUME NEW n \in Nat, NEW start \in Int, NEW next \in [(1..n) \X Int -> Int]
  PROVE  \E f \in [0..n -> Int] : f[0] = start /\ \A i \in 1..n : f[i] = next[<<i, f[i - 1]>>]
<1> DEFINE Good(c) == \E f \in [0..c -> Int] : /\ f[0] = start
                                               /\ \A i \in 1..c : f[i] = next[<<i, f[i - 1]>>]
           S == {c \in Nat : c <= n => Good(c)}
<1>1. 0 \in S
  <2> DEFINE f0 == [i \in 0..0 |-> start]
  <2>1. f0 \in [0..0 -> Int] /\ f0[0] = start /\ \A i \in 1..0 : FALSE
    OBVIOUS
  <2> QED BY <2>1
<1>2. ASSUME NEW c \in Nat, c \in S PROVE c + 1 \in S
  <2> SUFFICES ASSUME c + 1 <= n PROVE Good(c + 1)
    OBVIOUS
  <2>1. c <= n /\ Good(c)
    BY <1>2
  <2>2. PICK f \in [0..c -> Int] : f[0] = start /\ \A i \in 1..c : f[i] = next[<<i, f[i - 1]>>]
    BY <2>1
  <2> DEFINE g == [i \in 0..c + 1 |-> IF i = c + 1 THEN next[<<c + 1, f[c]>>] ELSE f[i]]
  <2>3. f[c] \in Int /\ c + 1 \in 1..n
    OBVIOUS
  <2>4. next[<<c + 1, f[c]>>] \in Int
    BY <2>3
  <2>5. g \in [0..c + 1 -> Int]
    BY <2>4
  <2>6. g[c + 1] = next[<<c + 1, f[c]>>] /\ \A i \in 0..c : g[i] = f[i]
    OBVIOUS
  <2> HIDE DEF g
  <2>7. ASSUME NEW i \in 1..c + 1 PROVE g[i] = next[<<i, g[i - 1]>>]
    <3>1. i - 1 \in 0..c /\ g[i - 1] = f[i - 1]
      BY <2>6
    <3>2. CASE i = c + 1
      <4>1. i - 1 = c
        BY <3>2
      <4> QED BY <3>1, <3>2, <4>1, <2>6
    <3>3. CASE i # c + 1
      <4>1. i \in 1..c /\ i \in 0..c
        BY <3>3
      <4> QED BY <3>1, <4>1, <2>2, <2>6
    <3> QED BY <3>2, <3>3
  <2>8. g[0] = start
    BY <2>2, <2>6
  <2> QED BY <2>5, <2>7, <2>8
<1>3. n \in S
  <2> HIDE DEF S
  <2> QED BY <1>1, <1>2, SetInduction
<1> QED BY <1>3

LEMMA HeaderEndIs ==
  ASSUME NEW locs \in Seq(Nat), r.locations = locs, NEW at \in Nat
  PROVE  \E f : /\ f[0] = at
                /\ \A i \in 1..Len(locs) : f[i] = IF locs[i] < f[i - 1] THEN f[i - 1] + 1 ELSE f[i - 1]
                /\ HeaderEnd(at) = f[Len(locs)]
<1> DEFINE n == Len(locs)
           Is(f) == f = [i \in 0..n |-> IF i = 0 THEN at
                                        ELSE IF locs[i] < f[i - 1] THEN f[i - 1] + 1 ELSE f[i - 1]]
           f == CHOOSE x : Is(x)
           next == [q \in (1..n) \X Int |-> IF locs[q[1]] < q[2] THEN q[2] + 1 ELSE q[2]]
<1>0. n \in Nat
  OBVIOUS
<1>1. HeaderEnd(at) = f[n]
  BY DEF HeaderEnd
<1>2. \E x : Is(x)
  <2>1. next \in [(1..n) \X Int -> Int]
    OBVIOUS
  <2>2. ASSUME NEW i \in 1..n, NEW y \in Int PROVE next[<<i, y>>] = IF locs[i] < y THEN y + 1 ELSE y
    OBVIOUS
  <2> HIDE DEF next
  <2>3. PICK x \in [0..n -> Int] : x[0] = at /\ \A i \in 1..n : x[i] = next[<<i, x[i - 1]>>]
    <3>1. at \in Int
      OBVIOUS
    <3> HIDE DEF n
    <3> QED BY <1>0, <2>1, <3>1, Passes
  <2> HIDE DEF n
  <2>4. ASSUME NEW i \in 0..n, i # 0 PROVE x[i] = IF locs[i] < x[i - 1] THEN x[i - 1] + 1 ELSE x[i - 1]
    <3>1. i \in 1..n /\ i - 1 \in 0..n
      BY <2>4, <1>0
    <3>2. x[i - 1] \in Int
      BY <3>1
    <3> QED BY <3>1, <3>2, <2>2, <2>3
  <2>5. Is(x)
    BY <2>3, <2>4
  <2> QED BY <2>5
<1>3. Is(f)
  <2> HIDE DEF Is
  <2> QED BY <1>2
<1> HIDE DEF f
<1>4. f[0] = at /\ \A i \in 1..n : f[i] = IF locs[i] < f[i - 1] THEN f[i - 1] + 1 ELSE f[i - 1]
  <2>1. 0 \in 0..n /\ \A i \in 1..n : i \in 0..n /\ i # 0
    BY <1>0
  <2> HIDE DEF n
  <2> QED BY <2>1, <1>3
<1> QED BY <1>1, <1>4

LEMMA HeaderFound ==
  ASSUME TypeOK, IInv, SliceInv, EndHeader
  PROVE  SliceInv'
<1>1. /\ phase = "done" /\ ends # <<>> /\ e.header = 0 /\ UNCHANGED <<vars, ends>>
      /\ e' = [e EXCEPT !.header = HeaderEnd(ends[1])] /\ r.at = Len(w.nal)
  BY DEF EndHeader, SliceInv, EndsOK
<1>2. PICK m, d : /\ Chain(m, place, d) /\ Len(rbsp) <= Len(place)
                  /\ Marks(r.at, r.locations, place) /\ Len(m) <= r.at
  BY <1>1, WhenDone
<1>3. ends[1] \in 1..Len(place) /\ ends[1] \in Nat /\ Len(ends) \in Nat \ {0, 1}
  <2>0. Len(ends) \in Nat \ {0, 1}
    BY <1>1, SubstreamPlaces
  <2>1. 1 \in Streams
    <3>1. PICK n \in Nat : n = Len(ends) /\ n >= 2
      BY <2>0
    <3>2. 1 \in 1..n - 1
      BY <3>1
    <3> QED BY <3>1, <3>2 DEF Streams
  <2>2. ends[1] \in Nat \ {0} /\ ends[1] <= Len(rbsp)
    BY <1>1, <2>1, SubstreamPlaces
  <2>3. Len(place) \in Nat /\ Len(rbsp) \in Nat
    BY DEF TypeOK
  <2> QED BY <1>2, <2>0, <2>2, <2>3
<1>4. place[ends[1]] \in Nat \ {0}
  <2>1. m \in Seq(Nat) /\ \A i \in 1..Len(place) : place[i] \in 1..Len(m)
    BY <1>2 DEF Chain
  <2>2. place[ends[1]] \in 1..Len(m) /\ Len(m) \in Nat
    BY <1>3, <2>1
  <2> QED BY <2>2
<1>5. e = Unread
  <2>1. CASE \E prev, sizes, streams :
               e = [header |-> place[ends[1]], prev |-> prev, sizes |-> sizes, streams |-> streams]
    BY <2>1, <1>1, <1>4
  <2> QED BY <2>1 DEF SliceInv, Found
<1>6. HeaderEnd(ends[1]) = place[ends[1]]
  <2> DEFINE locs == r.locations
  <2>1. locs \in Seq(Nat) /\ r.at \in Nat
    BY DEF TypeOK, ReaderType
  <2>2. PICK f : /\ f[0] = ends[1]
                 /\ \A i \in 1..Len(locs) :
                      f[i] = IF locs[i] < f[i - 1] THEN f[i - 1] + 1 ELSE f[i - 1]
                 /\ HeaderEnd(ends[1]) = f[Len(locs)]
    BY <1>3, <2>1, HeaderEndIs
  <2> HIDE DEF locs
  <2>3. Marks(r.at, locs, place)
    BY <1>2 DEF locs
  <2>4. f[Len(locs)] = place[ends[1]]
    BY <1>2, <1>3, <2>1, <2>2, <2>3, HeaderMoves
  <2> QED BY <2>2, <2>4
<1>7. e' = [header |-> place[ends[1]], prev |-> 0, sizes |-> <<>>, streams |-> <<>>]
  BY <1>1, <1>5, <1>6 DEF Unread
<1>8. EndsOK'
  <2>1. EndsOK /\ rbsp' = rbsp /\ ends' = ends /\ phase' = phase /\ r' = r /\ w' = w
    BY <1>1 DEF SliceInv, vars
  <2> QED BY <2>1 DEF EndsOK
<1>9. Found'
  <2>1. /\ phase' = "done" /\ ends' = ends /\ place' = place /\ ends' # <<>>
        /\ place[ends[1]] - place[ends[1]] = 0
    BY <1>1, <1>4 DEF vars
  <2> DEFINE sizes == <<>>
             streams == <<>>
             prev == 0
  <2>2. /\ sizes \in Seq(Int) /\ Len(sizes) <= Len(ends') - 2
        /\ \A j \in 1..Len(sizes) : sizes[j] = ends'[j + 1] - ends'[j]
        /\ prev = place'[ends'[Len(sizes) + 1]] - place'[ends'[1]]
    <3>a. Len(ends) \in Nat \ {0, 1}
      BY <1>3
    <3>0. PICK n \in Nat : n = Len(ends) /\ n >= 2
      BY <3>a
    <3>1. sizes \in Seq(Int) /\ Len(sizes) = 0 /\ Len(ends') - 2 \in Nat
      BY <3>0, <2>1
    <3>2. Len(sizes) + 1 = 1 /\ \A j \in 1..Len(sizes) : FALSE
      BY <3>1
    <3> HIDE DEF sizes
    <3>3. place'[ends'[Len(sizes) + 1]] = place[ends[1]] /\ place'[ends'[1]] = place[ends[1]]
      BY <3>2, <2>1
    <3> QED BY <3>1, <3>2, <3>3, <2>1
  <2>3. e' = [header |-> place'[ends'[1]], prev |-> prev, sizes |-> sizes, streams |-> streams]
    BY <1>7, <2>1
  <2> QED BY <2>1, <2>2, <2>3 DEF Found
<1> QED BY <1>8, <1>9 DEF SliceInv
\* The emulation prevention bytes counted from the end of the k-th part on are those in
\* the next one: what is left of the offset is the length of that sub-stream.
LEMMA EmulationTakenOff ==
  ASSUME TypeOK, IInv, SliceInv, phase = "done", ends # <<>>, NEW k \in Streams,
         NEW from, NEW to, e.header + from = place[ends[k]], e.header + to = place[ends[k + 1]]
  PROVE  Emulation(from, to) = (place[ends[k + 1]] - ends[k + 1]) - (place[ends[k]] - ends[k])
<1>1. PICK m, d : /\ Chain(m, place, d) /\ Len(rbsp) <= Len(place)
                  /\ Marks(r.at, r.locations, place) /\ Len(m) <= r.at
  BY WhenDone DEF SliceInv, EndsOK
<1> DEFINE a == ends[k]
           b == ends[k + 1]
           locs == r.locations
<1>2. a \in 1..Len(place) /\ b \in 1..Len(place) /\ a <= b
  <2>1. a \in Nat \ {0} /\ b \in Nat /\ a < b /\ b <= Len(rbsp)
    BY SubstreamPlaces
  <2>2. Len(place) \in Nat /\ Len(rbsp) \in Nat
    BY DEF TypeOK
  <2> HIDE DEF a, b
  <2> QED BY <1>1, <2>1, <2>2
<1>3. Emulation(from, to)
        = Cardinality({l \in {locs[i] : i \in 1..Len(locs)} : place[a] <= l /\ l < place[b]})
  BY DEF Emulation, Located
<1>4. locs \in Seq(Nat) /\ r.at \in Nat /\ Marks(r.at, locs, place)
  BY <1>1 DEF TypeOK, ReaderType
<1> HIDE DEF a, b, locs
<1>5. Cardinality({l \in {locs[i] : i \in 1..Len(locs)} : place[a] <= l /\ l < place[b]})
        = (place[b] - b) - (place[a] - a)
  BY <1>1, <1>2, <1>4, LocationsBetween
<1> QED BY <1>3, <1>5 DEF a, b

LEMMA SizeRead ==
  ASSUME TypeOK, IInv, SliceInv, ReadEntryPoint
  PROVE  SliceInv' /\ EntryPointsExact'
<1>1. /\ phase = "done" /\ e.header > 0 /\ UNCHANGED <<vars, ends>>
  BY DEF ReadEntryPoint
<1>2. e # Unread
  <2>1. Unread.header = 0
    BY DEF Unread
  <2> QED BY <2>1, <1>1
<1>3. PICK prev, sizes, streams :
        /\ e = [header |-> place[ends[1]], prev |-> prev, sizes |-> sizes, streams |-> streams]
        /\ sizes \in Seq(Int) /\ Len(sizes) <= Len(ends) - 2
        /\ \A j \in 1..Len(sizes) : sizes[j] = ends[j + 1] - ends[j]
        /\ prev = place[ends[Len(sizes) + 1]] - place[ends[1]]
        /\ streams = <<>> \/ streams = [j \in Streams |-> Part(j)]
  BY <1>2 DEF SliceInv, Found
<1>4. ends # <<>>
  BY <1>2 DEF SliceInv, Found
<1>5. PICK n \in Nat : n = Len(ends) /\ n >= 2
  <2>1. Len(ends) \in Nat \ {0, 1}
    BY <1>1, <1>4, SubstreamPlaces
  <2> QED BY <2>1
<1>6. PICK c \in Nat : c = Len(sizes)
  BY <1>3
<1> DEFINE k == c + 1
           cur == prev + EntryPointOffset(k)
           size == EntryPointOffset(k) - Emulation(prev, cur)
<1>7. /\ k = Len(e.sizes) + 1 /\ Len(e.sizes) < n - 2
      /\ e' = [e EXCEPT !.sizes = Append(sizes, size), !.prev = cur]
  BY <1>3, <1>5, <1>6 DEF ReadEntryPoint
<1>8. k \in Streams /\ 1 \in Streams /\ k < n - 1 /\ k \in Nat \ {0}
  <2>1. c < n - 2
    BY <1>3, <1>6, <1>7
  <2>2. k \in 1..n - 1 /\ 1 \in 1..n - 1 /\ k < n - 1
    BY <2>1, <1>5
  <2> QED BY <2>2, <1>5 DEF Streams
<1> HIDE DEF cur, size, k
<1> DEFINE pa == place[ends[k]]
           pb == place[ends[k + 1]]
           p1 == place[ends[1]]
           a == ends[k]
           b == ends[k + 1]
<1>9. pa \in Nat /\ pb \in Nat /\ p1 \in Nat /\ SubstreamSize(k) = pb - pa
  BY <1>1, <1>4, <1>8, SizePredicted
<1>10. a \in Nat /\ b \in Nat
  BY <1>1, <1>4, <1>8, SubstreamPlaces
<1>11. EntryPointOffset(k) = pb - pa
  BY <1>1, <1>4, <1>5, <1>8, <1>9, OffsetSent
<1>12. prev = pa - p1 /\ e.header = p1
  BY <1>3, <1>6 DEF k
<1>13. cur = pb - p1
  <2> HIDE DEF pa, pb, p1
  <2> QED BY <1>9, <1>11, <1>12 DEF cur
<1>14. size = b - a
  <2>1. e.header + prev = pa /\ e.header + cur = pb
    <3> HIDE DEF pa, pb, p1
    <3> QED BY <1>9, <1>12, <1>13
  <2>2. Emulation(prev, cur) = (pb - b) - (pa - a)
    BY <2>1, <1>1, <1>4, <1>8, EmulationTakenOff
  <2> HIDE DEF pa, pb, p1, a, b
  <2> QED BY <2>2, <1>9, <1>10, <1>11 DEF size
<1> DEFINE sizes2 == Append(sizes, size)
<1>15. /\ sizes2 \in Seq(Int) /\ Len(sizes2) = k /\ sizes2[k] = size
       /\ \A j \in 1..c : sizes2[j] = sizes[j]
  <2>1. size \in Int
    <3> HIDE DEF a, b
    <3> QED BY <1>10, <1>14
  <2> QED BY <2>1, <1>3, <1>6 DEF k
<1>16. e' = [header |-> p1, prev |-> cur, sizes |-> sizes2, streams |-> streams]
  BY <1>3, <1>7
<1> HIDE DEF sizes2
<1>17. \A j \in 1..k : sizes2[j] = ends[j + 1] - ends[j]
  <2> SUFFICES ASSUME NEW j \in 1..k PROVE sizes2[j] = ends[j + 1] - ends[j]
    OBVIOUS
  <2>1. CASE j = k
    BY <2>1, <1>14, <1>15
  <2>2. CASE j # k
    <3>1. j \in 1..c
      BY <2>2 DEF k
    <3> QED BY <3>1, <1>3, <1>6, <1>15
  <2> QED BY <2>1, <2>2
<1>18. EndsOK'
  <2>1. EndsOK /\ rbsp' = rbsp /\ ends' = ends /\ phase' = phase /\ r' = r /\ w' = w
    BY <1>1 DEF SliceInv, vars
  <2> QED BY <2>1 DEF EndsOK
<1>19. /\ phase' = "done" /\ ends' = ends /\ place' = place /\ rbsp' = rbsp /\ ends # <<>>
  BY <1>1, <1>4 DEF vars
<1>20. Len(sizes2) <= n - 2 /\ Len(ends') = n
  BY <1>5, <1>8, <1>15, <1>19
<1>21. streams = <<>> \/ streams = [j \in Streams |-> Part(j)]'
  <2>1. [j \in Streams |-> Part(j)]' = [j \in Streams |-> Part(j)]
    BY <1>19 DEF Streams, Part
  <2> QED BY <2>1, <1>3
<1>22. Found'
  <2>1. e' = [header |-> place'[ends'[1]], prev |-> cur, sizes |-> sizes2, streams |-> streams]
    BY <1>16, <1>19
  <2>2. /\ sizes2 \in Seq(Int) /\ Len(sizes2) <= Len(ends') - 2
        /\ \A j \in 1..Len(sizes2) : sizes2[j] = ends'[j + 1] - ends'[j]
        /\ cur = place'[ends'[Len(sizes2) + 1]] - place'[ends'[1]]
    BY <1>13, <1>15, <1>17, <1>19, <1>20
  <2>3. phase' = "done" /\ ends' # <<>>
    BY <1>19
  <2> HIDE DEF cur, sizes2
  <2> QED BY <2>1, <2>2, <2>3, <1>21 DEF Found
<1>23. EntryPointsExact'
  <2>1. e'.header = p1 /\ e'.prev = cur /\ Len(e'.sizes) = k
    BY <1>15, <1>16
  <2>2. e'.header + e'.prev = pb
    <3> HIDE DEF pa, pb, p1
    <3> QED BY <2>1, <1>9, <1>13
  <2>3. pb = place'[ends'[Len(e'.sizes) + 1]]
    BY <2>1, <1>19
  <2> QED BY <2>2, <2>3 DEF EntryPointsExact
<1> QED BY <1>18, <1>22, <1>23 DEF SliceInv
\* Cutting off bytes the payload has gives a sub-sequence of it.
LEMMA ExtractedIs ==
  ASSUME NEW b \in Seq(Nat), r.payload = b, NEW a \in Nat, NEW n \in Nat, a + n <= Len(b)
  PROVE  ExtractSubstream(a, n) = SubSeq(b, a + 1, a + n)
<1> DEFINE x == ExtractSubstream(a, n)
           y == SubSeq(b, a + 1, a + n)
<1>1. PICK l \in Nat : l = Len(b)
  OBVIOUS
<1>2. \A i \in 1..n : a + i \in 1..l /\ a + i <= l /\ b[a + i] \in Nat
  <2> SUFFICES ASSUME NEW i \in 1..n PROVE a + i \in 1..l /\ a + i <= l /\ b[a + i] \in Nat
    OBVIOUS
  <2>1. a + i \in 1..l /\ a + i <= l
    BY <1>1
  <2> QED BY <2>1, <1>1
<1>3. x = [i \in 1..n |-> b[a + i]]
  <2>1. \A i \in 1..n : a + i <= Len(b)
    BY <1>1, <1>2
  <2> QED BY <2>1 DEF ExtractSubstream
<1>4. x \in Seq(Nat) /\ Len(x) = n /\ \A i \in 1..n : x[i] = b[a + i]
  <2> HIDE DEF x
  <2>1. x \in [1..n -> Nat]
    BY <1>2, <1>3
  <2> QED BY <2>1, <1>3
<1>5. y \in Seq(Nat) /\ Len(y) = n /\ \A i \in 1..n : y[i] = b[a + i]
  <2> DEFINE z == a + n
  <2>1. z - (a + 1) + 1 = n /\ a + 1 \in 1..l + 1 /\ z \in 0..l /\ z - a = n
    BY <1>1
  <2>2. y = SubSeq(b, a + 1, z)
    OBVIOUS
  <2> HIDE DEF y, z
  <2>3. /\ SubSeq(b, a + 1, z) \in Seq(Nat) /\ Len(SubSeq(b, a + 1, z)) = z - a
        /\ \A j \in 1..z - a : SubSeq(b, a + 1, z)[j] = b[a + j]
    <3>1. z - (a + 1) + 1 = z - a /\ (a + 1 > z => z - a = 0)
      BY <2>1
    <3>2. \A j \in 1..z - a : (a + 1) + j - 1 = a + j
      OBVIOUS
    <3> QED BY <3>1, <3>2, <2>1, <1>1, SubSeqProperties
  <2> QED BY <2>1, <2>2, <2>3
<1> HIDE DEF x, y
<1>6. x = y
  <2>1. Len(x) = Len(y) /\ \A j \in 1..Len(x) : x[j] = y[j]
    BY <1>4, <1>5
  <2>2. x \in Seq(Nat) /\ y \in Seq(Nat)
    BY <1>4, <1>5
  <2> QED BY <2>1, <2>2, SeqEqual
<1> QED BY <1>6 DEF x, y

LEMMA StreamsTaken ==
  ASSUME TypeOK, IInv, SliceInv, ExtractSubstreams
  PROVE  SliceInv'
<1>1. phase = "done" /\ e.header > 0 /\ UNCHANGED <<vars, ends>>
  BY DEF ExtractSubstreams
<1>2. e # Unread
  <2>1. Unread.header = 0
    BY DEF Unread
  <2> QED BY <2>1, <1>1
<1>3. PICK prev, sizes, streams :
        /\ e = [header |-> place[ends[1]], prev |-> prev, sizes |-> sizes, streams |-> streams]
        /\ sizes \in Seq(Int) /\ Len(sizes) <= Len(ends) - 2
        /\ \A j \in 1..Len(sizes) : sizes[j] = ends[j + 1] - ends[j]
        /\ prev = place[ends[Len(sizes) + 1]] - place[ends[1]]
  BY <1>2 DEF SliceInv, Found
<1>4. ends # <<>>
  BY <1>2 DEF SliceInv, Found
<1>5. PICK n \in Nat : n = Len(ends) /\ n >= 2
  <2>1. Len(ends) \in Nat \ {0, 1}
    BY <1>1, <1>4, SubstreamPlaces
  <2> QED BY <2>1
<1>6. Len(sizes) = n - 2 /\ e.sizes = sizes /\ Streams = 1..n - 1
  BY <1>3, <1>5 DEF ExtractSubstreams, Streams
<1>7. /\ \A k \in 1..n : ends[k] \in Nat
      /\ \A k \in 1..n - 1 : ends[k] < ends[k + 1] /\ ends[k + 1] <= Len(rbsp)
      /\ ends[n] = Len(rbsp) /\ rbsp \in Seq(Nat) /\ r.payload = rbsp
  <2>1. \A k \in 1..n - 1 : /\ ends[k] \in Nat /\ ends[k + 1] \in Nat
                            /\ ends[k] < ends[k + 1] /\ ends[k + 1] <= Len(rbsp)
    BY <1>1, <1>4, <1>6, SubstreamPlaces
  <2>2. ends[n] = Len(rbsp)
    BY <1>1, <1>4, <1>5, SubstreamPlaces
  <2>3. rbsp \in Seq(Nat)
    BY BytesNat DEF TypeOK
  <2>4. r.payload = rbsp
    BY <1>1, WhenDone DEF SliceInv, EndsOK
  <2>5. ends[n] \in Nat
    BY <2>2, <2>3
  <2>6. \A k \in 1..n : ends[k] \in Nat
    <3> SUFFICES ASSUME NEW k \in 1..n, k # n PROVE ends[k] \in Nat
      BY <2>5
    <3>1. k \in 1..n - 1
      OBVIOUS
    <3> QED BY <3>1, <2>1
  <2> QED BY <2>1, <2>2, <2>3, <2>4, <2>6
<1> DEFINE c == n - 2
           Is(f) == f = [k \in 0..Len(e.sizes) |-> IF k = 0 THEN ends[1] ELSE f[k - 1] + e.sizes[k]]
           at == CHOOSE f : Is(f)
<1>8. c \in Nat /\ \A k \in 1..c : sizes[k] = ends[k + 1] - ends[k]
  BY <1>3, <1>5, <1>6
<1>9. \E f : Is(f)
  <2> DEFINE f == [k \in 0..c |-> ends[k + 1]]
  <2>1. \A k \in 0..c : f[k] = ends[k + 1]
    OBVIOUS
  <2>2. ASSUME NEW k \in 0..c, k # 0 PROVE f[k] = f[k - 1] + e.sizes[k]
    <3>1. k \in 1..c /\ k - 1 \in 0..c /\ (k - 1) + 1 = k /\ k \in 1..n /\ k + 1 \in 1..n
      BY <2>2, <1>5, <1>8
    <3>2. f[k] = ends[k + 1] /\ f[k - 1] = ends[k]
      BY <2>1, <3>1
    <3>3. e.sizes[k] = ends[k + 1] - ends[k]
      BY <3>1, <1>6, <1>8
    <3>4. ends[k] \in Nat /\ ends[k + 1] \in Nat
      BY <3>1, <1>7
    <3> HIDE DEF f
    <3> DEFINE x == ends[k]
               y == ends[k + 1]
    <3>5. x \in Nat /\ y \in Nat /\ f[k] = y /\ f[k - 1] = x /\ e.sizes[k] = y - x
      BY <3>2, <3>3, <3>4
    <3> HIDE DEF x, y
    <3>6. y = x + (y - x)
      BY <3>5
    <3> QED BY <3>5, <3>6
  <2>3. f = [k \in 0..Len(e.sizes) |-> IF k = 0 THEN ends[1] ELSE f[k - 1] + e.sizes[k]]
    <3>1. Len(e.sizes) = c
      BY <1>6
    <3>2. f[0] = ends[1]
      BY <1>8
    <3>3. \A k \in 0..c : f[k] = IF k = 0 THEN ends[1] ELSE f[k - 1] + e.sizes[k]
      BY <2>2, <3>2
    <3>4. f = [k \in 0..c |-> f[k]]
      OBVIOUS
    <3> HIDE DEF f, c
    <3> QED BY <3>1, <3>3, <3>4
  <2> QED BY <2>3
<1>10. Is(at)
  <2> HIDE DEF Is
  <2> QED BY <1>9
<1>11. e' = [e EXCEPT !.streams =
               [k \in Streams |-> IF k <= Len(e.sizes) THEN ExtractSubstream(at[k - 1], e.sizes[k])
                                  ELSE SubSeq(r.payload, at[k - 1] + 1, Len(r.payload))]]
  BY DEF ExtractSubstreams
<1> HIDE DEF at, c
<1>12. \A k \in 0..c : at[k] = IF k = 0 THEN ends[1] ELSE at[k - 1] + sizes[k]
  <2>1. Len(e.sizes) = c
    BY <1>6 DEF c
  <2> QED BY <2>1, <1>6, <1>10
<1>13. \A k \in 0..c : at[k] = ends[k + 1]
  <2> DEFINE S == {k \in Nat : k <= c => at[k] = ends[k + 1]}
  <2>1. 0 \in S
    BY <1>8, <1>12
  <2>2. ASSUME NEW k \in Nat, k \in S PROVE k + 1 \in S
    <3> SUFFICES ASSUME k + 1 <= c PROVE at[k + 1] = ends[(k + 1) + 1]
      OBVIOUS
    <3> DEFINE j == k + 1
    <3>1. j \in 0..c /\ j # 0 /\ j - 1 = k /\ j \in 1..c /\ k <= c /\ j \in 1..n /\ j + 1 \in 1..n
      BY <1>5, <1>8 DEF c
    <3>2. at[k] = ends[j]
      BY <2>2, <3>1
    <3> HIDE DEF j
    <3>3. at[j] = at[j - 1] + sizes[j] /\ sizes[j] = ends[j + 1] - ends[j]
      BY <3>1, <1>8, <1>12
    <3>4. ends[j] \in Nat /\ ends[j + 1] \in Nat
      BY <3>1, <1>7
    <3> DEFINE x == ends[j]
               y == ends[j + 1]
    <3>5. x \in Nat /\ y \in Nat /\ at[j] = x + (y - x)
      BY <3>1, <3>2, <3>3, <3>4
    <3> HIDE DEF x, y
    <3>6. at[j] = y
      BY <3>5
    <3> QED BY <3>6 DEF y, j
  <2>3. Nat \subseteq S
    <3> HIDE DEF S
    <3> QED BY <2>1, <2>2, SetInduction
  <2> QED BY <2>3, <1>8
<1> DEFINE Cut(k) == IF k <= Len(e.sizes) THEN ExtractSubstream(at[k - 1], e.sizes[k])
                     ELSE SubSeq(r.payload, at[k - 1] + 1, Len(r.payload))
<1>14. ASSUME NEW k \in Streams PROVE Cut(k) = Part(k)
  <2>1. /\ k \in 1..n /\ k + 1 \in 1..n /\ k - 1 \in 0..c /\ (k - 1) + 1 = k /\ k \in 1..n - 1
        /\ k <= c \/ k = n - 1
    BY <1>5, <1>6 DEF c
  <2> DEFINE x == ends[k]
             y == ends[k + 1]
  <2>2. at[k - 1] = x
    BY <2>1, <1>13
  <2>3. x \in Nat /\ y \in Nat /\ x < y /\ y <= Len(rbsp)
    BY <2>1, <1>7
  <2>4. Part(k) = SubSeq(rbsp, x + 1, y)
    BY DEF Part
  <2>5. CASE k <= c
    <3>1. Cut(k) = ExtractSubstream(x, sizes[k])
      BY <2>2, <2>5, <1>6 DEF c
    <3>2. sizes[k] = y - x
      <4>1. k \in 1..c
        BY <2>1, <2>5, <1>8
      <4> QED BY <4>1, <1>8
    <3> HIDE DEF Cut, x, y
    <3>3. y - x \in Nat /\ x + (y - x) = y /\ x + (y - x) <= Len(rbsp)
      BY <2>3
    <3>4. ExtractSubstream(x, y - x) = SubSeq(rbsp, x + 1, x + (y - x))
      BY <3>3, <2>3, <1>7, ExtractedIs
    <3> QED BY <3>1, <3>2, <3>3, <3>4, <2>4
  <2>6. CASE ~(k <= c)
    <3>1. k = n - 1 /\ k + 1 = n /\ ~(k <= Len(e.sizes))
      BY <2>1, <2>6, <1>5, <1>6 DEF c
    <3>2. Cut(k) = SubSeq(rbsp, x + 1, Len(rbsp))
      BY <3>1, <2>2, <1>7
    <3>3. y = Len(rbsp)
      BY <3>1, <1>7
    <3> QED BY <3>2, <3>3, <2>4
  <2> QED BY <2>5, <2>6
<1>15. e' = [header |-> place[ends[1]], prev |-> prev, sizes |-> sizes,
             streams |-> [k \in Streams |-> Part(k)]]
  <2>1. e' = [e EXCEPT !.streams = [k \in Streams |-> Cut(k)]]
    BY <1>11
  <2> HIDE DEF Cut
  <2>2. [k \in Streams |-> Cut(k)] = [k \in Streams |-> Part(k)]
    BY <1>14
  <2> QED BY <2>1, <2>2, <1>3
<1>16. EndsOK'
  <2>1. EndsOK /\ rbsp' = rbsp /\ ends' = ends /\ phase' = phase /\ r' = r /\ w' = w
    BY <1>1 DEF SliceInv, vars
  <2> QED BY <2>1 DEF EndsOK
<1>17. /\ phase' = "done" /\ ends' = ends /\ place' = place /\ rbsp' = rbsp /\ ends # <<>>
  BY <1>1, <1>4 DEF vars
<1>18. [k \in Streams |-> Part(k)]' = [k \in Streams |-> Part(k)]
  BY <1>17 DEF Streams, Part
<1>19. Found'
  <2> DEFINE streams2 == [k \in Streams |-> Part(k)]
  <2>1. e' = [header |-> place'[ends'[1]], prev |-> prev, sizes |-> sizes, streams |-> streams2]
    BY <1>15, <1>17
  <2>2. streams2 = [k \in Streams |-> Part(k)]'
    BY <1>18
  <2>3. /\ sizes \in Seq(Int) /\ Len(sizes) <= Len(ends') - 2
        /\ \A j \in 1..Len(sizes) : sizes[j] = ends'[j + 1] - ends'[j]
        /\ prev = place'[ends'[Len(sizes) + 1]] - place'[ends'[1]]
    BY <1>3, <1>17
  <2>4. phase' = "done" /\ ends' # <<>>
    BY <1>17
  <2> HIDE DEF streams2
  <2> QED BY <2>1, <2>2, <2>3, <2>4 DEF Found
<1> QED BY <1>16, <1>19 DEF SliceInv

LEMMA SliceStep ==
  ASSUME TypeOK, IInv, SliceInv, [SliceNext]_svars
  PROVE  SliceInv'
<1>1. CASE UNCHANGED svars
  BY <1>1 DEF svars, vars, SliceInv, EndsOK, Found, Streams, Part
<1>2. CASE SliceNext
  BY <1>2, WritingEnds, HeaderFound, SizeRead, StreamsTaken DEF SliceNext
<1> QED BY <1>1, <1>2

\* The slice invariant holds in every state of every slice.
THEOREM SliceInvariant == SliceSpec => [](TypeOK /\ IInv /\ SliceInv)
<1>1. SliceInit => SliceInv
  BY SliceInitInv
<1>2. TypeOK /\ IInv /\ SliceInv /\ [SliceNext]_svars => SliceInv'
  BY SliceStep
<1> QED BY <1>1, <1>2, SlicesAreNalUnits, NalInvariant, PTL DEF SliceSpec

LEMMA EntryPointsInv ==
  ASSUME TypeOK, IInv, SliceInv
  PROVE  EntryPointsExact /\ SubstreamsMatch
<1>1. CASE e = Unread
  BY <1>1 DEF Unread, EntryPointsExact, SubstreamsMatch
<1>2. CASE e # Unread
  <2>1. PICK prev, sizes, streams :
          /\ e = [header |-> place[ends[1]], prev |-> prev, sizes |-> sizes, streams |-> streams]
          /\ sizes \in Seq(Int) /\ Len(sizes) <= Len(ends) - 2
          /\ prev = place[ends[Len(sizes) + 1]] - place[ends[1]]
          /\ streams = <<>> \/ streams = [k \in Streams |-> Part(k)]
    BY <1>2 DEF SliceInv, Found
  <2>2. phase = "done" /\ ends # <<>>
    BY <1>2 DEF SliceInv, Found
  <2>3. PICK n \in Nat : n = Len(ends) /\ n >= 2
    <3>1. Len(ends) \in Nat \ {0, 1}
      BY <2>2, SubstreamPlaces
    <3> DEFINE len == Len(ends)
    <3>2. len \in Nat \ {0, 1}
      BY <3>1
    <3> HIDE DEF len
    <3>3. len \in Nat /\ len >= 2
      BY <3>2
    <3> QED BY <3>3 DEF len
  <2>4. PICK c \in Nat : c = Len(sizes) /\ c <= n - 2
    BY <2>1, <2>3
  <2>5. c + 1 \in Streams /\ 1 \in Streams
    <3>1. c + 1 \in 1..n - 1 /\ 1 \in 1..n - 1
      BY <2>3, <2>4
    <3> QED BY <3>1, <2>3 DEF Streams
  <2> DEFINE x == place[ends[c + 1]]
             y == place[ends[1]]
  <2>6. x \in Nat /\ y \in Nat
    BY <2>2, <2>5, SizePredicted
  <2>7. e.header = y /\ e.prev = x - y /\ e.sizes = sizes /\ e.streams = streams
    BY <2>1, <2>4
  <2>8. e.header + e.prev = place[ends[Len(e.sizes) + 1]]
    <3>1. x = place[ends[Len(e.sizes) + 1]]
      BY <2>4, <2>7
    <3> HIDE DEF x, y
    <3> QED BY <3>1, <2>6, <2>7
  <2> QED BY <2>1, <2>7, <2>8 DEF EntryPointsExact, SubstreamsMatch
<1> QED BY <1>1, <1>2

\* codeTilesWPPEntryPoint and parseSliceHeader: for every payload and every cut of it,
\* the offsets sent lead to the ends of the sub-streams in the NAL unit.
THEOREM EntryPointsExactHolds == SliceSpec => []EntryPointsExact
<1>1. TypeOK /\ IInv /\ SliceInv => EntryPointsExact
  BY EntryPointsInv
<1> QED BY <1>1, SliceInvariant, PTL

\* decompressSlice: for every payload and every cut of it, each sub-stream is taken out
\* as it was written.
THEOREM SubstreamsMatchHolds == SliceSpec => []SubstreamsMatch
<1>1. TypeOK /\ IInv /\ SliceInv => SubstreamsMatch
  BY EntryPointsInv
<1> QED BY <1>1, SliceInvariant, PTL
=============================================================================
