----------------------------- MODULE AnnexB_proofs -----------------------------
(* For NAL units of any bytes without a start code in them, any number of them *)
(* and any number of zero bytes before each: the decoder reads every one, in   *)
(* order, whatever it looks ahead at.                                          *)
EXTENDS AnnexB, SequenceTheorems, TLAPS

Byte == 0..255

LEMMA Joined ==
  ASSUME NEW S, NEW a \in Seq(S), NEW b \in Seq(S), NEW c, c = a \o b
  PROVE  /\ c \in Seq(S) /\ Len(a) \in Nat /\ Len(b) \in Nat /\ Len(c) = Len(a) + Len(b)
         /\ \A j \in 1..Len(a) : c[j] = a[j]
         /\ \A j \in 1..Len(b) : c[Len(a) + j] = b[j]
OBVIOUS

(* ------------------------------- InputByteStream ------------------------------- *)

\* The stream i stands at position p of the file f, with n bytes held back.
Buffers(f, i, p, n) ==
  /\ i \in [at : Nat, held : Seq(Byte), eof : BOOLEAN]
  /\ p \in Nat /\ n \in Nat /\ p + n <= Len(f)
  /\ i.at = p + n /\ Len(i.held) = n
  /\ \A j \in 1..n : i.held[j] = f[p + j]

LEMMA BuffersTyped ==
  ASSUME NEW f, NEW i, NEW p, NEW n, Buffers(f, i, p, n)
  PROVE  /\ i.at = p + n /\ i.held \in Seq(Byte) /\ i.eof \in BOOLEAN /\ Len(i.held) = n
         /\ p \in Nat /\ n \in Nat /\ p + n <= Len(f)
         /\ \A j \in 1..n : i.held[j] = f[p + j]
BY DEF Buffers

\* eofBeforeNBytes: the position stays, and as many bytes are held as there are.
LEMMA FillHolds ==
  ASSUME file \in Seq(Byte), NEW i, NEW p, NEW n, Buffers(file, i, p, n), NEW m \in Nat
  PROVE  /\ m <= n => Fill(i, m) = i
         /\ m > n /\ p + m <= Len(file) => Buffers(file, Fill(i, m), p, m) /\ Fill(i, m).eof = i.eof
         /\ m > n /\ p + m > Len(file) =>
              Buffers(file, Fill(i, m), p, Len(file) - p) /\ Fill(i, m).eof = TRUE
<1> DEFINE L == Len(file)  k == m - n  some == IF k <= L - i.at THEN k ELSE L - i.at
           part == SubSeq(file, i.at + 1, i.at + some)  h == i.held \o part
           r == [at |-> i.at + some, held |-> h, eof |-> i.eof \/ some < k]
<1>1. /\ i.at = p + n /\ i.held \in Seq(Byte) /\ i.eof \in BOOLEAN /\ Len(i.held) = n
      /\ p \in Nat /\ n \in Nat /\ p + n <= L /\ L \in Nat
      /\ \A j \in 1..n : i.held[j] = file[p + j]
  BY BuffersTyped
<1>2. Fill(i, m) = IF k <= 0 THEN i ELSE r
  BY <1>1 DEF Fill
<1>3. m <= n => Fill(i, m) = i
  BY <1>1, <1>2
<1>4. ASSUME m > n
      PROVE  Buffers(file, Fill(i, m), p, n + some)
  <2>1. some \in Nat /\ i.at \in Nat /\ i.at + some <= L
    BY <1>1, <1>4
  <2> HIDE DEF some, L
  <2>2. /\ part \in Seq(Byte) /\ Len(part) = some
        /\ \A j \in 1..some : part[j] = file[i.at + j]
    BY <2>1, SMTT(20) DEF L
  <2> HIDE DEF part
  <2>3. /\ h \in Seq(Byte) /\ Len(h) = n + some
        /\ \A j \in 1..n : h[j] = i.held[j]
        /\ \A j \in 1..some : h[n + j] = part[j]
    <3> DEFINE a == i.held
    <3>1. a \in Seq(Byte) /\ Len(a) = n
      BY <1>1
    <3>2. part \in Seq(Byte)
      BY <2>2
    <3>4. h = a \o part
      OBVIOUS
    <3>5. a \in Seq(Byte)
      BY <3>1
    <3> HIDE DEF a, h
    <3>3. /\ h \in Seq(Byte) /\ Len(h) = Len(a) + Len(part)
          /\ \A j \in 1..Len(a) : h[j] = a[j]
          /\ \A j \in 1..Len(part) : h[Len(a) + j] = part[j]
      BY ONLY <3>2, <3>4, <3>5, Joined
    <3> QED BY <3>1, <3>3, <2>2 DEF a
  <2> HIDE DEF h
  <2>4. \A j \in 1..(n + some) : h[j] = file[p + j]
    <3>1. ASSUME NEW j \in 1..(n + some), j > n
          PROVE  h[j] = file[p + j]
      <4>1. j - n \in 1..some /\ i.at + (j - n) = p + j /\ n + (j - n) = j
        BY <1>1, <2>1, <3>1
      <4>2. h[n + (j - n)] = part[j - n] /\ part[j - n] = file[i.at + (j - n)]
        BY <2>2, <2>3, <4>1
      <4> QED BY <4>1, <4>2
    <3>2. ASSUME NEW j \in 1..(n + some), j <= n
          PROVE  h[j] = file[p + j]
      <4>1. j \in 1..n
        BY <1>1, <3>2
      <4> QED BY <1>1, <2>3, <3>2, <4>1
    <3> QED BY <1>1, <2>1, <3>1, <3>2
  <2>5. r \in [at : Nat, held : Seq(Byte), eof : BOOLEAN]
    BY <1>1, <2>1, <2>3
  <2>6. Fill(i, m) = r
    BY <1>1, <1>2, <1>4
  <2>7. Buffers(file, r, p, n + some)
    <3>1. r.at = p + (n + some) /\ r.held = h /\ p + (n + some) <= L /\ n + some \in Nat
      BY <1>1, <2>1
    <3> HIDE DEF r
    <3> QED BY <1>1, <2>3, <2>4, <2>5, <3>1 DEF Buffers, L
  <2> QED BY <2>6, <2>7
<1>5. m > n => Fill(i, m).eof = (i.eof \/ some < k)
  BY <1>1, <1>2
<1>6. ASSUME m > n, p + m <= L
      PROVE  n + some = m /\ ~(some < k)
  BY <1>1, <1>6
<1>7. ASSUME m > n, p + m > L
      PROVE  n + some = L - p /\ some < k
  BY <1>1, <1>7
<1> HIDE DEF some, k
<1> QED BY <1>1, <1>3, <1>4, <1>5, <1>6, <1>7

\* The bytes v stand at position p of the file.
Stands(p, v) == p + Len(v) <= Len(file) /\ \A j \in 1..Len(v) : file[p + j] = v[j]

\* peekBytes looks at the file, whatever is held back.
LEMMA PeeksHolds ==
  ASSUME file \in Seq(Byte), NEW i, NEW p, NEW n, Buffers(file, i, p, n), NEW v \in Seq(Byte)
  PROVE  Peeks(i, v) <=> Stands(p, v)
<1> DEFINE m == Len(v)  x == Fill(i, m)  h == x.held  L == Len(file)
<1>1. m \in Nat /\ L \in Nat
  OBVIOUS
<1>2. p \in Nat /\ n \in Nat /\ p + n <= L
  BY BuffersTyped
<1>3. PICK k \in Nat : Buffers(file, x, p, k) /\ (k >= m <=> p + m <= L)
  <2>1. m <= n => x = i
    BY <1>1, FillHolds
  <2>2. m > n /\ p + m <= L => Buffers(file, x, p, m)
    BY <1>1, FillHolds
  <2>3. m > n /\ p + m > L => Buffers(file, x, p, L - p)
    BY <1>1, FillHolds
  <2> HIDE DEF m, x, L
  <2>4. CASE m <= n
    BY <1>1, <1>2, <2>1, <2>4
  <2>5. CASE m > n /\ p + m <= L
    BY <1>1, <1>2, <2>2, <2>5
  <2>6. CASE m > n /\ p + m > L
    <3>1. L - p \in Nat /\ ~(L - p >= m)
      BY <1>1, <1>2, <2>6
    <3> DEFINE k == L - p
    <3>2. k \in Nat /\ ~(k >= m) /\ Buffers(file, x, p, k) /\ ~(p + m <= L)
      BY <1>1, <1>2, <2>3, <2>6, <3>1
    <3> HIDE DEF k
    <3> QED BY <3>2
  <2> QED BY <1>1, <1>2, <2>4, <2>5, <2>6
<1>4. /\ h \in Seq(Byte) /\ Len(h) = k /\ \A j \in 1..k : h[j] = file[p + j]
  BY <1>3, BuffersTyped
<1>5. Peeks(i, v) <=> Len(h) >= m /\ SubSeq(h, 1, m) = v
  BY DEF Peeks
<1> HIDE DEF h, x
<1>6. ASSUME k >= m
      PROVE  SubSeq(h, 1, m) = v <=> \A j \in 1..m : file[p + j] = v[j]
  <2>1. /\ SubSeq(h, 1, m) \in Seq(Byte) /\ Len(SubSeq(h, 1, m)) = m
        /\ \A j \in 1..m : SubSeq(h, 1, m)[j] = h[j]
    BY <1>1, <1>4, <1>6
  <2>2. \A j \in 1..m : h[j] = file[p + j]
    BY <1>1, <1>4, <1>6
  <2>3. SubSeq(h, 1, m) = v <=> \A j \in 1..m : SubSeq(h, 1, m)[j] = v[j]
    BY <2>1, SeqEqual
  <2> QED BY <2>1, <2>2, <2>3
<1> HIDE DEF m
<1>7. Peeks(i, v) <=> p + m <= L /\ \A j \in 1..m : file[p + j] = v[j]
  BY <1>3, <1>4, <1>5, <1>6
<1> QED BY <1>7 DEF Stands, m

ShortAt(p) == p + 3 <= Len(file) /\ file[p + 1] = 0 /\ file[p + 2] = 0 /\ file[p + 3] = 1
LongAt(p) ==
  p + 4 <= Len(file) /\ file[p + 1] = 0 /\ file[p + 2] = 0 /\ file[p + 3] = 0 /\ file[p + 4] = 1
EndAt(p) == p + 3 <= Len(file) /\ file[p + 1] = 0 /\ file[p + 2] = 0 /\ file[p + 3] \in 0..2

LEMMA PeeksCodes ==
  ASSUME file \in Seq(Byte), NEW i, NEW p, NEW n, Buffers(file, i, p, n)
  PROVE  /\ Peeks(i, Short) <=> ShortAt(p)
         /\ Peeks(i, Long) <=> LongAt(p)
         /\ AtUnitEnd(i) <=> EndAt(p)
<1>1. p \in Nat /\ Len(file) \in Nat
  BY BuffersTyped
<1>2. Short \in Seq(Byte) /\ Len(Short) = 3 /\ Short[1] = 0 /\ Short[2] = 0 /\ Short[3] = 1
  BY DEF Short, Byte
<1>3. /\ Long \in Seq(Byte) /\ Len(Long) = 4
      /\ Long[1] = 0 /\ Long[2] = 0 /\ Long[3] = 0 /\ Long[4] = 1
  BY DEF Long, Byte
<1>4. ASSUME NEW b \in 0..2
      PROVE  Peeks(i, <<0, 0, b>>) <=> p + 3 <= Len(file) /\ file[p + 1] = 0 /\ file[p + 2] = 0 /\ file[p + 3] = b
  <2> DEFINE v == <<0, 0, b>>
  <2>1. v \in Seq(Byte) /\ Len(v) = 3 /\ v[1] = 0 /\ v[2] = 0 /\ v[3] = b
    BY DEF Byte
  <2> HIDE DEF v
  <2>2. Peeks(i, v) <=> Stands(p, v)
    BY <2>1, PeeksHolds
  <2>3. Stands(p, v) <=> p + 3 <= Len(file) /\ file[p + 1] = 0 /\ file[p + 2] = 0 /\ file[p + 3] = b
    BY <1>1, <2>1 DEF Stands
  <2> QED BY <2>2, <2>3 DEF v
<1>5. Peeks(i, Short) <=> ShortAt(p)
  <2>1. Stands(p, Short) <=> ShortAt(p)
    BY <1>1, <1>2 DEF Stands, ShortAt
  <2> QED BY <1>2, <2>1, PeeksHolds
<1>6. Peeks(i, Long) <=> LongAt(p)
  <2>1. Stands(p, Long) <=> LongAt(p)
    BY <1>1, <1>3 DEF Stands, LongAt
  <2> QED BY <1>3, <2>1, PeeksHolds
<1>7. AtUnitEnd(i) <=> EndAt(p)
  BY <1>4 DEF AtUnitEnd, EndAt
<1> QED BY <1>5, <1>6, <1>7

\* readByte in front of a byte.
LEMMA ReadHolds ==
  ASSUME file \in Seq(Byte), NEW i, NEW p, NEW n, Buffers(file, i, p, n), p < Len(file)
  PROVE  /\ Buffers(file, ReadByte(i), p + 1, IF n = 0 THEN 0 ELSE n - 1)
         /\ ReadByte(i).eof = i.eof
         /\ Fill(i, 1).held[1] = file[p + 1] /\ ~NoByte(i)
<1> DEFINE x == Fill(i, 1)  k == IF n = 0 THEN 1 ELSE n
<1>1. p \in Nat /\ n \in Nat /\ Len(file) \in Nat /\ p + n <= Len(file)
  BY BuffersTyped
<1>2. Buffers(file, x, p, k) /\ x.eof = i.eof
  <2>1. 1 <= n => x = i
    BY FillHolds
  <2>2. 1 > n /\ p + 1 <= Len(file) => Buffers(file, x, p, 1) /\ x.eof = i.eof
    BY FillHolds
  <2> HIDE DEF x
  <2> QED BY <1>1, <2>1, <2>2
<1> HIDE DEF x
<1>3. /\ x \in [at : Nat, held : Seq(Byte), eof : BOOLEAN] /\ x.at = p + k /\ Len(x.held) = k
      /\ x.held \in Seq(Byte)
      /\ \A j \in 1..k : x.held[j] = file[p + j]
  BY <1>2 DEF Buffers
<1>4. k \in Nat \ {0} /\ p + k <= Len(file)
  BY <1>1
<1> DEFINE h == x.held  t == Tail(h)  y == [x EXCEPT !.held = t]
<1>5. h \in Seq(Byte) /\ Len(h) = k /\ \A j \in 1..k : h[j] = file[p + j]
  BY <1>3
<1> HIDE DEF h, k
<1>6. /\ t \in Seq(Byte) /\ Len(t) = k - 1
      /\ \A j \in 1..(k - 1) : t[j] = h[j + 1]
  BY <1>4, <1>5
<1> HIDE DEF t
<1>7. \A j \in 1..(k - 1) : t[j] = file[(p + 1) + j]
  <2> TAKE j \in 1..(k - 1)
  <2>1. j + 1 \in 1..k /\ p + (j + 1) = (p + 1) + j
    BY <1>1, <1>4
  <2> QED BY <1>5, <1>6, <2>1
<1>8. /\ y \in [at : Nat, held : Seq(Byte), eof : BOOLEAN] /\ y.at = x.at /\ y.held = t
      /\ y.eof = x.eof
  BY <1>3, <1>6
<1> HIDE DEF y
<1>9. Buffers(file, y, p + 1, k - 1)
  <2>1. /\ p + 1 \in Nat /\ k - 1 \in Nat /\ (p + 1) + (k - 1) <= Len(file)
        /\ y.at = (p + 1) + (k - 1)
    BY <1>1, <1>3, <1>4, <1>8 DEF k
  <2> QED BY <1>6, <1>7, <1>8, <2>1 DEF Buffers
<1>10. ReadByte(i) = y
  BY DEF ReadByte, x, y, t, h
<1>11. k - 1 = IF n = 0 THEN 0 ELSE n - 1
  BY <1>1 DEF k
<1>12. x.held[1] = file[p + 1] /\ x.held # <<>>
  <2>1. 1 \in 1..k /\ h # <<>>
    BY <1>4, <1>5
  <2> QED BY <1>5, <2>1 DEF h
<1>13. ~NoByte(i)
  BY <1>12 DEF NoByte, x
<1> QED BY <1>2, <1>8, <1>9, <1>10, <1>11, <1>12, <1>13 DEF x

\* readByte at the end of the file.
LEMMA NoMore ==
  ASSUME file \in Seq(Byte), NEW i, NEW p, NEW n, Buffers(file, i, p, n), p = Len(file)
  PROVE  NoByte(i) /\ n = 0
<1>1. p \in Nat /\ n \in Nat /\ p + n <= Len(file) /\ Len(file) \in Nat
  BY BuffersTyped
<1>2. n = 0
  BY <1>1
<1>3. Buffers(file, Fill(i, 1), p, Len(file) - p)
  <2>1. 1 > n /\ p + 1 > Len(file)
    BY <1>1, <1>2
  <2> QED BY <2>1, FillHolds
<1>4. Len(Fill(i, 1).held) = 0 /\ Fill(i, 1).held \in Seq(Byte)
  <2>1. Len(file) - p = 0
    BY <1>1
  <2> QED BY <1>3, <2>1, BuffersTyped
<1>5. Fill(i, 1).held = <<>>
  <2> DEFINE h == Fill(i, 1).held
  <2> HIDE DEF h
  <2>1. h = <<>>
    BY <1>4 DEF h
  <2> QED BY <2>1 DEF h
<1> QED BY <1>2, <1>5 DEF NoByte

\* The two start code checks look four bytes ahead at most.
LEMMA LookedHolds ==
  ASSUME file \in Seq(Byte), NEW i, NEW p, NEW n, Buffers(file, i, p, n), n <= 4,
         p + 4 <= Len(file)
  PROVE  /\ AtStartCode(i) <=> ShortAt(p) \/ LongAt(p)
         /\ Looked(i).eof = i.eof
         /\ ShortAt(p) => Buffers(file, Looked(i), p, IF n = 4 THEN 4 ELSE 3)
         /\ ~ShortAt(p) => Buffers(file, Looked(i), p, 4)
<1> DEFINE x == Fill(i, 3)  y == Fill(x, 4)  k == IF n = 4 THEN 4 ELSE 3
<1>1. p \in Nat /\ n \in 0..4 /\ Len(file) \in Nat
  BY BuffersTyped
<1>2. Buffers(file, x, p, k) /\ x.eof = i.eof /\ k \in {3, 4}
  <2>1. 3 <= n => x = i
    BY FillHolds, ZenonT(30)
  <2>2. 3 > n /\ p + 3 <= Len(file) => Buffers(file, x, p, 3) /\ x.eof = i.eof
    BY FillHolds
  <2> HIDE DEF x
  <2> QED BY <1>1, <2>1, <2>2
<1>3. Buffers(file, y, p, 4) /\ y.eof = i.eof
  <2> HIDE DEF x, k
  <2>0. Buffers(file, x, p, k) /\ 4 \in Nat
    BY <1>2
  <2>1. 4 <= k => y = x
    BY <2>0, FillHolds
  <2>2. 4 > k /\ p + 4 <= Len(file) => Buffers(file, y, p, 4) /\ y.eof = x.eof
    BY <1>2, FillHolds
  <2> HIDE DEF y
  <2>3. 4 <= k => k = 4
    BY <1>2
  <2> QED BY <1>1, <1>2, <2>1, <2>2, <2>3
<1>4. Peeks(i, Short) <=> ShortAt(p)
  BY PeeksCodes
<1>5. Peeks(x, Long) <=> LongAt(p)
  BY <1>2, PeeksCodes
<1> QED BY <1>2, <1>3, <1>4, <1>5 DEF AtStartCode, Looked

(* ------------------------------ the bitstream file ------------------------------ *)

\* The file f holds the NAL units us, unit k in the bytes behind st[k] up to en[k];
\* before it at least two zero bytes and a one, and nothing else.
Laid(f, us, st, en) ==
  /\ f \in Seq(Byte) /\ us \in Seq(Units)
  /\ st \in [1..Len(us) -> Nat] /\ en \in [0..Len(us) -> Nat]
  /\ en[0] = 0 /\ en[Len(us)] = Len(f)
  /\ \A k \in 1..Len(us) :
       /\ en[k - 1] + 3 <= st[k] /\ en[k] = st[k] + Len(us[k]) /\ en[k] <= Len(f)
       /\ f[st[k]] = 1
       /\ \A j \in 1..Len(f) : en[k - 1] < j /\ j < st[k] => f[j] = 0
       /\ \A j \in 1..Len(us[k]) : f[st[k] + j] = us[k][j]

\* The file g is f and one more NAL unit, u, behind a start code of s bytes.
Extends(f, g, s, u) ==
  /\ g \in Seq(Byte) /\ s \in Nat /\ s >= 3 /\ Len(g) = Len(f) + s + Len(u)
  /\ \A j \in 1..Len(f) : g[j] = f[j]
  /\ \A j \in 1..(s - 1) : g[Len(f) + j] = 0
  /\ g[Len(f) + s] = 1
  /\ \A j \in 1..Len(u) : g[Len(f) + s + j] = u[j]

LEMMA UnitTyped ==
  ASSUME NEW u \in Units
  PROVE  /\ u \in Seq(Byte) /\ Len(u) \in Nat /\ Len(u) >= 2 /\ u[Len(u)] # 0
         /\ \A i \in 1..(Len(u) - 2) : ~(u[i] = 0 /\ u[i + 1] = 0 /\ u[i + 2] <= 2)
BY UnitsAssumption DEF Byte

LEMMA WriteExtends ==
  ASSUME NEW f \in Seq(Byte), NEW u \in Units, NEW zeros \in Nat, NEW long \in BOOLEAN,
         NEW g, g = f \o [k \in 1..zeros |-> 0] \o (IF long THEN Long ELSE Short) \o u
  PROVE  \E s \in Nat : Extends(f, g, s, u)
<1> DEFINE z == [k \in 1..zeros |-> 0]  code == IF long THEN Long ELSE Short
           f1 == f \o z  f2 == f1 \o code
<1>1. z \in Seq(Byte) /\ Len(z) = zeros /\ \A j \in 1..zeros : z[j] = 0
  BY DEF Byte
<1>2. PICK c \in {3, 4} : /\ code \in Seq(Byte) /\ Len(code) = c /\ code[c] = 1
                          /\ \A j \in 1..(c - 1) : code[j] = 0
  <2>1. CASE long
    <3>1. Long \in Seq(Byte) /\ Len(Long) = 4 /\ Long[4] = 1 /\ \A j \in 1..3 : Long[j] = 0
      BY DEF Long, Byte
    <3>2. code = Long /\ 4 - 1 = 3
      BY <2>1
    <3> HIDE DEF code
    <3> QED BY <3>1, <3>2
  <2>2. CASE ~long
    <3>1. Short \in Seq(Byte) /\ Len(Short) = 3 /\ Short[3] = 1 /\ \A j \in 1..2 : Short[j] = 0
      BY DEF Short, Byte
    <3>2. code = Short /\ 3 - 1 = 2
      BY <2>2
    <3> HIDE DEF code
    <3> QED BY <3>1, <3>2
  <2> QED BY <2>1, <2>2
<1>3. u \in Seq(Byte) /\ Len(u) \in Nat /\ Len(f) \in Nat
  BY UnitTyped
<1> HIDE DEF z, code
<1>4. /\ f1 \in Seq(Byte) /\ Len(f1) = Len(f) + zeros
      /\ \A j \in 1..Len(f) : f1[j] = f[j]
      /\ \A j \in 1..zeros : f1[Len(f) + j] = 0
  <2>1. /\ f1 \in Seq(Byte) /\ Len(f1) = Len(f) + Len(z)
        /\ \A j \in 1..Len(f) : f1[j] = f[j]
        /\ \A j \in 1..Len(z) : f1[Len(f) + j] = z[j]
    <3>1. z \in Seq(Byte) /\ f1 = f \o z
      BY <1>1
    <3> HIDE DEF f1
    <3> QED BY ONLY f \in Seq(Byte), <3>1, Joined
  <2> QED BY <1>1, <2>1
<1> HIDE DEF f1
<1>5. /\ f2 \in Seq(Byte) /\ Len(f2) = Len(f1) + c
      /\ \A j \in 1..Len(f1) : f2[j] = f1[j]
      /\ \A j \in 1..c : f2[Len(f1) + j] = code[j]
  <2>1. /\ f2 \in Seq(Byte) /\ Len(f2) = Len(f1) + Len(code)
        /\ \A j \in 1..Len(f1) : f2[j] = f1[j]
        /\ \A j \in 1..Len(code) : f2[Len(f1) + j] = code[j]
    <3>1. f1 \in Seq(Byte) /\ code \in Seq(Byte) /\ f2 = f1 \o code
      BY <1>2, <1>4
    <3> HIDE DEF f2
    <3> QED BY ONLY <3>1, Joined
  <2> QED BY <1>2, <2>1
<1> HIDE DEF f2
<1>6. /\ g \in Seq(Byte) /\ Len(g) = Len(f2) + Len(u)
      /\ \A j \in 1..Len(f2) : g[j] = f2[j]
      /\ \A j \in 1..Len(u) : g[Len(f2) + j] = u[j]
  <2>1. g = f2 \o u
    BY DEF f2, f1, z, code
  <2>2. f2 \in Seq(Byte) /\ u \in Seq(Byte)
    BY <1>3, <1>5
  <2> QED BY ONLY <2>1, <2>2, Joined
<1> DEFINE s == zeros + c  F == Len(f)  F1 == Len(f1)  F2 == Len(f2)
<1>7. /\ F \in Nat /\ F1 = F + zeros /\ F2 = F + zeros + c /\ s \in Nat /\ s >= 3 /\ F2 = F + s
  BY <1>2, <1>3, <1>4, <1>5
<1>8. \A j \in 1..F : g[j] = f[j]
  <2> TAKE j \in 1..F
  <2> HIDE DEF F1, F2, F
  <2>1. j \in 1..F1 /\ j \in 1..F2
    BY <1>2, <1>7
  <2> QED BY <1>4, <1>5, <1>6, <2>1 DEF F, F1, F2
<1>9. ASSUME NEW j \in 1..(s - 1)
      PROVE  g[F + j] = 0
  <2> HIDE DEF F1, F2, F
  <2>1. F + j \in 1..F2
    BY <1>2, <1>7
  <2>2. g[F + j] = f2[F + j]
    BY <1>6, <2>1 DEF F2
  <2>3. CASE j <= zeros
    <3>1. j \in 1..zeros /\ F + j \in 1..F1
      BY <1>7, <2>3
    <3>2. f1[F + j] = 0
      BY <1>4, <3>1 DEF F
    <3>3. f2[F + j] = f1[F + j]
      BY <1>5, <3>1 DEF F1
    <3> QED BY <2>2, <3>2, <3>3
  <2>4. CASE j > zeros
    <3> DEFINE i == j - zeros
    <3>1. i \in 1..(c - 1) /\ i \in 1..c /\ F1 + i = F + j
      BY <1>2, <1>7, <2>4
    <3> HIDE DEF i
    <3>2. f2[F1 + i] = code[i]
      BY <1>5, <3>1 DEF F1
    <3>3. code[i] = 0
      BY <1>2, <3>1
    <3> QED BY <2>2, <3>1, <3>2, <3>3
  <2>5. j \in Nat
    BY <1>7
  <2> HIDE DEF s
  <2>6. j <= zeros \/ j > zeros
    BY <2>5
  <2> QED BY ONLY <2>3, <2>4, <2>6
<1>10. g[F + s] = 1
  <2> HIDE DEF F1, F2, F
  <2>1. F + s \in 1..F2 /\ F1 + c = F + s /\ c \in 1..c
    BY <1>2, <1>7
  <2>2. g[F + s] = f2[F + s]
    BY <1>6, <2>1 DEF F2
  <2>3. f2[F1 + c] = 1
    BY <1>2, <1>5, <2>1 DEF F1
  <2> QED BY <2>1, <2>2, <2>3
<1>11. \A j \in 1..Len(u) : g[F + s + j] = u[j]
  BY <1>6, <1>7
<1>12. Len(g) = F + s + Len(u)
  BY <1>6, <1>7
<1> HIDE DEF s
<1>13. Extends(f, g, s, u)
  BY <1>6, <1>7, <1>8, <1>9, <1>10, <1>11, <1>12 DEF Extends
<1> QED BY <1>7, <1>13

\* One more NAL unit is laid out behind the others.
LEMMA LaidFurther ==
  ASSUME NEW f, NEW us, NEW st, NEW en, Laid(f, us, st, en),
         NEW u \in Units, NEW s \in Nat, NEW g, Extends(f, g, s, u)
  PROVE  \E st2, en2 : Laid(g, Append(us, u), st2, en2)
<1> DEFINE N == Len(us)  K == N + 1  F == Len(f)  vs == Append(us, u)
           st2 == [k \in 1..K |-> IF k = K THEN F + s ELSE st[k]]
           en2 == [k \in 0..K |-> IF k = K THEN F + s + Len(u) ELSE en[k]]
<1>1. /\ f \in Seq(Byte) /\ us \in Seq(Units) /\ F \in Nat /\ N \in Nat
      /\ st \in [1..N -> Nat] /\ en \in [0..N -> Nat]
      /\ en[0] = 0 /\ en[N] = F
  BY DEF Laid
<1>2. \A k \in 1..N :
       /\ en[k - 1] + 3 <= st[k] /\ en[k] = st[k] + Len(us[k]) /\ en[k] <= F
       /\ f[st[k]] = 1
       /\ \A j \in 1..F : en[k - 1] < j /\ j < st[k] => f[j] = 0
       /\ \A j \in 1..Len(us[k]) : f[st[k] + j] = us[k][j]
  BY DEF Laid
<1>3. /\ g \in Seq(Byte) /\ s >= 3 /\ Len(g) = F + s + Len(u)
      /\ \A j \in 1..F : g[j] = f[j]
      /\ \A j \in 1..(s - 1) : g[F + j] = 0
      /\ g[F + s] = 1
      /\ \A j \in 1..Len(u) : g[F + s + j] = u[j]
  BY DEF Extends
<1>4. u \in Seq(Byte) /\ Len(u) \in Nat /\ Len(u) >= 2
  BY UnitTyped
<1> HIDE DEF F
<1>5. vs \in Seq(Units) /\ Len(vs) = K /\ vs[K] = u /\ \A k \in 1..N : vs[k] = us[k]
  BY <1>1
<1> HIDE DEF vs, N
<1>6. st2 \in [1..K -> Nat] /\ st2[K] = F + s /\ \A k \in 1..N : st2[k] = st[k]
  BY <1>1
<1>7. /\ en2 \in [0..K -> Nat] /\ en2[K] = F + s + Len(u) /\ \A k \in 0..N : en2[k] = en[k]
  BY <1>1, <1>4
<1> HIDE DEF st2, en2
<1>8. ASSUME NEW k \in 1..N
      PROVE  /\ en2[k - 1] + 3 <= st2[k] /\ en2[k] = st2[k] + Len(vs[k]) /\ en2[k] <= Len(g)
             /\ g[st2[k]] = 1
             /\ \A j \in 1..Len(g) : en2[k - 1] < j /\ j < st2[k] => g[j] = 0
             /\ \A j \in 1..Len(vs[k]) : g[st2[k] + j] = vs[k][j]
  <2>1. k - 1 \in 0..N /\ k \in 0..N
    BY <1>1
  <2>2. en2[k - 1] = en[k - 1] /\ en2[k] = en[k] /\ st2[k] = st[k] /\ vs[k] = us[k]
    BY <1>5, <1>6, <1>7, <2>1
  <2>3. en[k - 1] \in Nat /\ en[k] \in Nat /\ st[k] \in Nat /\ us[k] \in Units
    BY <1>1, <2>1, SMTT(20) DEF N
  <2>4. Len(us[k]) \in Nat
    BY <2>3, UnitTyped
  <2> DEFINE e == en[k - 1]  b == st[k]  l == Len(us[k])
  <2>10. e \in Nat /\ b \in Nat /\ l \in Nat /\ en[k] \in Nat
    BY <2>3, <2>4
  <2>5. e + 3 <= b /\ en[k] = b + l /\ en[k] <= F
    BY <1>2
  <2> HIDE DEF e, b, l
  <2>6. en[k] <= Len(g) /\ b \in 1..F
    BY <1>1, <1>3, <1>4, <2>5, <2>10
  <2>7. g[b] = 1
    BY <1>2, <1>3, <2>6 DEF b
  <2>8. ASSUME NEW j \in 1..Len(g), e < j, j < b
        PROVE  g[j] = 0
    <3>1. j \in 1..F
      BY <1>1, <2>6, <2>8, <2>10
    <3>2. f[j] = 0
      BY <1>2, <2>8, <3>1 DEF e, b
    <3> QED BY <1>3, <3>1, <3>2
  <2>9. ASSUME NEW j \in 1..l
        PROVE  g[b + j] = us[k][j]
    <3>1. b + j \in 1..F
      BY <1>1, <2>5, <2>6, <2>10
    <3>2. f[b + j] = us[k][j]
      BY <1>2 DEF b, l
    <3> QED BY <1>3, <3>1, <3>2
  <2> QED BY <2>2, <2>5, <2>6, <2>7, <2>8, <2>9 DEF e, b, l
<1>9. /\ en2[K - 1] + 3 <= st2[K] /\ en2[K] = st2[K] + Len(vs[K]) /\ en2[K] <= Len(g)
      /\ g[st2[K]] = 1
      /\ \A j \in 1..Len(g) : en2[K - 1] < j /\ j < st2[K] => g[j] = 0
      /\ \A j \in 1..Len(vs[K]) : g[st2[K] + j] = vs[K][j]
  <2>1. K - 1 = N /\ N \in 0..N
    BY <1>1
  <2>2. en2[K - 1] = F
    BY <1>1, <1>7, <2>1
  <2>3. ASSUME NEW j \in 1..Len(g), F < j, j < F + s
        PROVE  g[j] = 0
    <3>1. j - F \in 1..(s - 1) /\ F + (j - F) = j
      BY <1>1, <2>3
    <3> QED BY <1>3, <3>1
  <2> QED BY <1>1, <1>3, <1>4, <1>5, <1>6, <1>7, <2>2, <2>3
<1>10. \A k \in 1..K : k \in 1..N \/ k = K
  BY <1>1
<1>11. en2[0] = 0 /\ en2[Len(vs)] = Len(g)
  <2>1. 0 \in 0..N
    BY <1>1
  <2> QED BY <1>1, <1>3, <1>5, <1>7, <2>1
<1>12. Laid(g, vs, st2, en2)
  BY <1>3, <1>5, <1>6, <1>7, <1>8, <1>9, <1>10, <1>11 DEF Laid
<1> QED BY <1>12 DEF vs

LEMMA UnitAt ==
  ASSUME NEW st, NEW en, Laid(file, units, st, en), NEW k \in 1..Len(units)
  PROVE  /\ units[k] \in Units /\ Len(units[k]) \in Nat /\ Len(units[k]) >= 2
         /\ en[k - 1] \in Nat /\ st[k] \in Nat /\ en[k] \in Nat /\ Len(file) \in Nat
         /\ en[k - 1] + 3 <= st[k] /\ en[k] = st[k] + Len(units[k]) /\ en[k] <= Len(file)
         /\ file[st[k]] = 1
         /\ \A j \in 1..Len(file) : en[k - 1] < j /\ j < st[k] => file[j] = 0
         /\ \A j \in 1..Len(units[k]) : file[st[k] + j] = units[k][j]
<1> DEFINE N == Len(units)
<1>1. N \in Nat /\ file \in Seq(Byte) /\ units \in Seq(Units) /\ N = Len(units)
      /\ st \in [1..N -> Nat] /\ en \in [0..N -> Nat]
  BY DEF Laid
<1> HIDE DEF N
<1>2. k \in 1..N /\ k - 1 \in 0..N /\ k \in 0..N
  BY <1>1
<1>3. units[k] \in Units /\ en[k - 1] \in Nat /\ st[k] \in Nat /\ en[k] \in Nat /\ Len(file) \in Nat
  BY <1>1, <1>2, SMTT(20)
<1> QED BY <1>3, UnitTyped DEF Laid

\* Between two NAL units the start code is found where it stands, and zero bytes before.
LEMMA GapAt ==
  ASSUME NEW st, NEW en, Laid(file, units, st, en), NEW k \in 1..Len(units),
         NEW p \in Nat, en[k - 1] <= p, p + 3 <= st[k]
  PROVE  /\ p + 4 <= Len(file)
         /\ ShortAt(p) <=> p + 3 = st[k]
         /\ LongAt(p) <=> p + 4 = st[k]
         /\ p + 3 < st[k] => file[p + 1] = 0
<1> DEFINE e == en[k - 1]  b == st[k]  F == Len(file)
<1>1. /\ e \in Nat /\ b \in Nat /\ F \in Nat /\ b + 2 <= F
      /\ file[b] = 1
      /\ \A j \in 1..F : e < j /\ j < b => file[j] = 0
  <2>1. Len(units[k]) \in Nat /\ Len(units[k]) >= 2 /\ en[k] = b + Len(units[k]) /\ en[k] <= F
        /\ e \in Nat /\ b \in Nat /\ F \in Nat
    BY UnitAt, SMTT(20)
  <2>2. b + 2 <= F
    BY <2>1
  <2> QED BY <2>1, <2>2, UnitAt
<1>2. e <= p /\ p + 3 <= b
  OBVIOUS
<1> HIDE DEF e, b, F
<1>3. p + 4 <= F /\ p + 1 \in 1..F /\ p + 2 \in 1..F /\ p + 3 \in 1..F /\ p + 4 \in 1..F
  BY <1>1, <1>2
<1>4. file[p + 1] = 0 /\ file[p + 2] = 0
  <2>1. e < p + 1 /\ p + 1 < b /\ e < p + 2 /\ p + 2 < b
    BY <1>1, <1>2
  <2> QED BY <1>1, <1>3, <2>1
<1>5. CASE p + 3 = b
  <2>1. file[p + 3] = 1 /\ p + 4 # b
    BY <1>1, <1>5
  <2>2. ShortAt(p) /\ ~LongAt(p)
    BY <1>1, <1>3, <1>4, <2>1 DEF ShortAt, LongAt, F
  <2> QED BY <1>3, <1>5, <2>1, <2>2 DEF b, F
<1>6. CASE p + 3 < b
  <2>1. file[p + 3] = 0
    BY <1>1, <1>2, <1>3, <1>6
  <2>2. file[p + 4] = 1 <=> p + 4 = b
    <3>1. CASE p + 4 = b
      BY <1>1, <3>1
    <3>2. CASE p + 4 # b
      <4>1. e < p + 4 /\ p + 4 < b
        BY <1>1, <1>2, <1>6, <3>2
      <4> QED BY <1>1, <1>3, <3>2, <4>1
    <3> QED BY <3>1, <3>2
  <2>3. ~ShortAt(p) /\ (LongAt(p) <=> p + 4 = b)
    BY <1>3, <1>4, <2>1, <2>2 DEF ShortAt, LongAt, F
  <2> QED BY <1>1, <1>3, <1>4, <1>6, <2>3 DEF b, F
<1> QED BY <1>1, <1>2, <1>5, <1>6

\* The end of a NAL unit is found behind its last byte and nowhere before it; behind
\* the last NAL unit there is no more to look at.
LEMMA BodyAt ==
  ASSUME NEW st, NEW en, Laid(file, units, st, en), NEW k \in 1..Len(units),
         NEW p \in Nat, st[k] <= p, p <= en[k]
  PROVE  /\ EndAt(p) <=> p = en[k] /\ k < Len(units)
         /\ p = en[k] /\ k = Len(units) => p = Len(file)
<1> DEFINE b == st[k]  d == en[k]  F == Len(file)  u == units[k]  l == Len(u)
<1>1. /\ b \in Nat /\ d \in Nat /\ F \in Nat /\ l \in Nat /\ l >= 2 /\ d = b + l /\ d <= F
      /\ u \in Units /\ \A j \in 1..l : file[b + j] = u[j]
  BY UnitAt
<1>2. b <= p /\ p <= d
  OBVIOUS
<1>3. u[l] # 0 /\ \A i \in 1..(l - 2) : ~(u[i] = 0 /\ u[i + 1] = 0 /\ u[i + 2] <= 2)
  BY <1>1, UnitTyped
<1>4. Len(units) \in Nat /\ en[Len(units)] = F
  BY DEF Laid
<1> HIDE DEF b, d, F, u, l
<1>5. CASE p = d /\ k = Len(units)
  <2>1. d = F
    BY <1>4, <1>5 DEF d
  <2>2. ~(p + 3 <= F)
    BY <1>1, <1>5, <2>1
  <2> QED BY <1>5, <2>1, <2>2 DEF EndAt, d, F
<1>6. CASE p = d /\ k # Len(units)
  <2>1. k + 1 \in 1..Len(units) /\ (k + 1) - 1 = k /\ k < Len(units)
    BY <1>4, <1>6
  <2> DEFINE c == st[k + 1]
  <2>2. /\ c \in Nat /\ d + 3 <= c /\ c <= F
        /\ file[c] = 1
        /\ \A j \in 1..F : d < j /\ j < c => file[j] = 0
    <3>1. /\ c \in Nat /\ en[k + 1] = c + Len(units[k + 1]) /\ en[k + 1] <= F
          /\ Len(units[k + 1]) \in Nat
      BY <2>1, UnitAt DEF F
    <3>2. c <= F
      BY <1>1, <3>1
    <3>3. d + 3 <= c /\ file[c] = 1 /\ \A j \in 1..F : d < j /\ j < c => file[j] = 0
      BY <2>1, UnitAt DEF d, F
    <3> QED BY <3>1, <3>2, <3>3
  <2> HIDE DEF c
  <2>3. /\ p + 1 \in 1..F /\ d < p + 1 /\ p + 1 < c
        /\ p + 2 \in 1..F /\ d < p + 2 /\ p + 2 < c
        /\ p + 3 \in 1..F /\ d < p + 3 /\ p + 3 <= c
    BY <1>1, <1>6, <2>2
  <2>4. file[p + 1] = 0 /\ file[p + 2] = 0
    BY <2>2, <2>3
  <2>5. file[p + 3] \in 0..2
    <3>1. CASE p + 3 = c
      BY <2>2, <3>1
    <3>2. CASE p + 3 # c
      <4>1. p + 3 < c
        BY <2>2, <2>3, <3>2
      <4> QED BY <2>2, <2>3, <4>1
    <3> QED BY <3>1, <3>2
  <2>6. EndAt(p)
    BY <1>1, <2>3, <2>4, <2>5 DEF EndAt, F
  <2> QED BY <1>6, <2>1, <2>6 DEF d
<1>7. CASE p # d
  <2> SUFFICES ASSUME EndAt(p)
               PROVE  FALSE
    BY <1>7 DEF d
  <2>1. file[p + 1] = 0 /\ file[p + 2] = 0 /\ file[p + 3] \in 0..2
    BY DEF EndAt
  <2>2. CASE p + 3 <= d
    <3> DEFINE i == p - b + 1
    <3>1. /\ i \in 1..(l - 2) /\ i \in 1..l /\ i + 1 \in 1..l /\ i + 2 \in 1..l
          /\ b + i = p + 1 /\ b + (i + 1) = p + 2 /\ b + (i + 2) = p + 3
      BY <1>1, <1>2, <2>2
    <3> HIDE DEF i
    <3>2. u[i] = file[p + 1] /\ u[i + 1] = file[p + 2] /\ u[i + 2] = file[p + 3]
      BY <1>1, <3>1
    <3> QED BY <1>3, <2>1, <3>1, <3>2
  <2>3. CASE ~(p + 3 <= d)
    <3>1. (d = p + 1 \/ d = p + 2) /\ l \in 1..l
      BY <1>1, <1>2, <1>7, <2>3
    <3>2. file[d] = u[l]
      BY <1>1, <3>1
    <3> QED BY <1>3, <2>1, <3>1, <3>2
  <2> QED BY <2>2, <2>3
<1> QED BY <1>5, <1>6, <1>7

(* --------------------------------- the invariant --------------------------------- *)

\* Position p lies before NAL unit k, with its start code whole.
Ahead(us, st, en, p, k) ==
  k \in 1..Len(us) /\ p \in Nat /\ en[k - 1] <= p /\ p + 3 <= st[k]

Standing(f, us, st, en, i, k) ==
  \E p, n : Buffers(f, i, p, n) /\ n <= 4 /\ Ahead(us, st, en, p, k)

\* What isNewPicture comes back to if it starts with the stream i.
Behind(us, st, en, i, k) == i.at \in Nat /\ i.at >= 3 /\ Ahead(us, st, en, i.at - 3, k)

\* The reader between two NAL units, where it begins one, in the middle of one, behind
\* it, and when it has returned: g NAL units have been decoded, d are the bytes of the next.
LoopOk(f, us, st, en, i, fr, g) ==
  /\ IF i.eof THEN g = Len(us) ELSE Standing(f, us, st, en, i, g + 1)
  /\ fr /\ ~i.eof => Behind(us, st, en, i, g + 1)

LeadOk(f, us, st, en, i, d, g) ==
  ~i.eof /\ d = <<>> /\ Standing(f, us, st, en, i, g + 1)

BodyOk(f, us, st, en, i, d, g) ==
  /\ g + 1 \in 1..Len(us) /\ d \in Seq(Byte) /\ Len(d) <= Len(us[g + 1])
  /\ \A j \in 1..Len(d) : d[j] = us[g + 1][j]
  /\ i.eof => g + 1 = Len(us)
  /\ \E n : n <= 3 /\ Buffers(f, i, st[g + 1] + Len(d), n)

TrailOk(f, us, st, en, i, d, g) ==
  /\ g + 1 \in 1..Len(us) /\ d = us[g + 1] /\ ~i.eof
  /\ \E p : Buffers(f, i, p, 3) /\ Ahead(us, st, en, p, g + 2)

EndOk(f, us, st, en, i, d, g) ==
  /\ g + 1 \in 1..Len(us) /\ d = us[g + 1]
  /\ IF i.eof THEN g + 1 = Len(us)
     ELSE Standing(f, us, st, en, i, g + 2) /\ Behind(us, st, en, i, g + 2)

\* A look-ahead comes back to before the next NAL unit, wherever it is itself.
LookOk(us, st, en, c, loc, fr, g) ==
  /\ ~fr /\ loc \in Nat
  /\ c = "isNewPicture" => loc >= 3 /\ Ahead(us, st, en, loc - 3, g + 1)
  /\ c # "isNewPicture" => Ahead(us, st, en, loc, g + 1)

ReadOk(f, us, st, en, s, c, i, d, loc, fr, o) ==
  /\ s \in {"write", "loop", "lead", "body", "trail", "end"}
  /\ Len(o) \in Nat /\ o \in Seq(Seq(Byte)) /\ Len(o) <= Len(us) /\ \A k \in 1..Len(o) : o[k] = us[k]
  /\ s = "write" => i = [at |-> 0, held |-> <<>>, eof |-> FALSE] /\ o = <<>> /\ ~fr
  /\ s = "loop" => LoopOk(f, us, st, en, i, fr, Len(o))
  /\ s \in {"lead", "body", "trail", "end"} /\ c # "decode" => LookOk(us, st, en, c, loc, fr, Len(o))
  /\ c = "decode" =>
       /\ s = "lead" => LeadOk(f, us, st, en, i, d, Len(o))
       /\ s = "body" => BodyOk(f, us, st, en, i, d, Len(o))
       /\ s = "trail" => TrailOk(f, us, st, en, i, d, Len(o))
       /\ s = "end" => EndOk(f, us, st, en, i, d, Len(o))

Reads(st, en) == ReadOk(file, units, st, en, stage, caller, in, nal, location, fresh, got)

Inv == \E st, en : Laid(file, units, st, en) /\ Reads(st, en)

(* ----------------------------------- the steps ----------------------------------- *)

LEMMA AheadTyped ==
  ASSUME NEW st, NEW en, Laid(file, units, st, en), NEW p, NEW k, Ahead(units, st, en, p, k)
  PROVE  /\ k \in 1..Len(units) /\ p \in Nat /\ p + 4 <= Len(file) /\ st[k] \in Nat /\ en[k - 1] \in Nat
         /\ file \in Seq(Byte) /\ en[k - 1] <= p /\ p + 3 <= st[k] /\ en[k - 1] + 3 <= st[k]
         /\ ShortAt(p) <=> p + 3 = st[k]
         /\ LongAt(p) <=> p + 4 = st[k]
         /\ p + 3 < st[k] => file[p + 1] = 0
<1>1. k \in 1..Len(units) /\ p \in Nat /\ en[k - 1] <= p /\ p + 3 <= st[k]
  BY DEF Ahead
<1>2. st[k] \in Nat /\ en[k - 1] \in Nat /\ en[k - 1] + 3 <= st[k]
  BY <1>1, UnitAt
<1>3. file \in Seq(Byte)
  BY DEF Laid
<1>4. /\ p + 4 <= Len(file)
      /\ ShortAt(p) <=> p + 3 = st[k]
      /\ LongAt(p) <=> p + 4 = st[k]
      /\ p + 3 < st[k] => file[p + 1] = 0
  BY <1>1, GapAt
<1> QED BY <1>1, <1>2, <1>3, <1>4

\* In front of a NAL unit, a zero byte before its start code is passed over.
LEMMA ZeroSkipped ==
  ASSUME NEW st, NEW en, Laid(file, units, st, en), NEW i, NEW p, NEW n, NEW k,
         Buffers(file, i, p, n), n <= 4, Ahead(units, st, en, p, k), ~AtStartCode(i)
  PROVE  /\ ~NoByte(Looked(i)) /\ Fill(Looked(i), 1).held[1] = 0
         /\ Buffers(file, ReadByte(Looked(i)), p + 1, 3) /\ ReadByte(Looked(i)).eof = i.eof
         /\ Ahead(units, st, en, p + 1, k)
<1>1. /\ k \in 1..Len(units) /\ p \in Nat /\ p + 4 <= Len(file) /\ st[k] \in Nat /\ en[k - 1] \in Nat
      /\ file \in Seq(Byte) /\ en[k - 1] <= p /\ p + 3 <= st[k]
      /\ ShortAt(p) <=> p + 3 = st[k]
      /\ LongAt(p) <=> p + 4 = st[k]
      /\ p + 3 < st[k] => file[p + 1] = 0
  BY AheadTyped
<1> DEFINE x == Looked(i)
<1>2. /\ AtStartCode(i) <=> ShortAt(p) \/ LongAt(p)
      /\ x.eof = i.eof
      /\ ~ShortAt(p) => Buffers(file, x, p, 4)
  BY <1>1, LookedHolds
<1>3. p + 3 < st[k] /\ p + 4 < st[k] /\ Buffers(file, x, p, 4)
  BY <1>1, <1>2
<1> HIDE DEF x
<1>4. /\ Buffers(file, ReadByte(x), p + 1, IF 4 = 0 THEN 0 ELSE 4 - 1)
      /\ ReadByte(x).eof = x.eof
      /\ Fill(x, 1).held[1] = file[p + 1] /\ ~NoByte(x)
  <2>1. p < Len(file) /\ 4 \in Nat
    BY <1>1
  <2> QED BY <1>1, <1>3, <2>1, ReadHolds
<1>5. Buffers(file, ReadByte(x), p + 1, 3)
  <2>1. (IF 4 = 0 THEN 0 ELSE 4 - 1) = 3
    OBVIOUS
  <2> QED BY <1>4, <2>1
<1>6. Ahead(units, st, en, p + 1, k)
  <2>1. p + 1 \in Nat /\ en[k - 1] <= p + 1 /\ (p + 1) + 3 <= st[k]
    BY <1>1, <1>3
  <2> QED BY <1>1, <2>1 DEF Ahead
<1> QED BY <1>1, <1>2, <1>3, <1>4, <1>5, <1>6 DEF x

\* A start code is found where the one before NAL unit k stands.
LEMMA CodeFound ==
  ASSUME NEW st, NEW en, Laid(file, units, st, en), NEW i, NEW p, NEW n, NEW k,
         Buffers(file, i, p, n), n <= 4, Ahead(units, st, en, p, k), AtStartCode(i)
  PROVE  /\ Looked(i).eof = i.eof
         /\ \/ /\ p + 3 = st[k] /\ Peeks(Looked(i), Short)
               /\ Buffers(file, Looked(i), p, IF n = 4 THEN 4 ELSE 3)
            \/ /\ p + 4 = st[k] /\ ~Peeks(Looked(i), Short)
               /\ Buffers(file, Looked(i), p, 4)
<1>1. /\ k \in 1..Len(units) /\ p \in Nat /\ p + 4 <= Len(file) /\ st[k] \in Nat
      /\ file \in Seq(Byte)
      /\ ShortAt(p) <=> p + 3 = st[k]
      /\ LongAt(p) <=> p + 4 = st[k]
  BY AheadTyped
<1> DEFINE x == Looked(i)
<1>2. /\ AtStartCode(i) <=> ShortAt(p) \/ LongAt(p)
      /\ x.eof = i.eof
      /\ ShortAt(p) => Buffers(file, x, p, IF n = 4 THEN 4 ELSE 3)
      /\ ~ShortAt(p) => Buffers(file, x, p, 4)
  BY <1>1, LookedHolds
<1> HIDE DEF x
<1>3. ASSUME NEW m, Buffers(file, x, p, m)
      PROVE  Peeks(x, Short) <=> ShortAt(p)
  BY <1>1, <1>3, PeeksCodes
<1> QED BY <1>1, <1>2, <1>3 DEF x

\* Put back to a position before a NAL unit, the file is read from there.
LEMMA BackStands ==
  ASSUME NEW st, NEW en, Laid(file, units, st, en), NEW p, NEW k, Ahead(units, st, en, p, k)
  PROVE  Standing(file, units, st, en, Restored(p), k) /\ Restored(p).eof = FALSE
<1>1. p \in Nat /\ p + 4 <= Len(file) /\ file \in Seq(Byte)
  BY AheadTyped
<1> DEFINE i == Restored(p)
<1>2. i \in [at : Nat, held : Seq(Byte), eof : BOOLEAN] /\ i.at = p /\ i.held = <<>> /\ i.eof = FALSE
  BY <1>1 DEF Restored
<1> HIDE DEF i
<1>3. Buffers(file, i, p, 0)
  BY <1>1, <1>2 DEF Buffers
<1>4. Standing(file, units, st, en, i, k)
  BY <1>3 DEF Standing
<1> QED BY <1>2, <1>4 DEF i

LEMMA ReadFurther ==
  ASSUME file \in Seq(Byte), NEW i, NEW p, NEW n, Buffers(file, i, p, n), p < Len(file), n > 0
  PROVE  Buffers(file, ReadByte(i), p + 1, n - 1) /\ ReadByte(i).eof = i.eof
<1>1. Buffers(file, ReadByte(i), p + 1, IF n = 0 THEN 0 ELSE n - 1) /\ ReadByte(i).eof = i.eof
  BY ReadHolds
<1>2. (IF n = 0 THEN 0 ELSE n - 1) = n - 1
  BY BuffersTyped
<1> QED BY <1>1, <1>2

LEMMA ThreeRead ==
  ASSUME file \in Seq(Byte), NEW i, NEW p, NEW n, Buffers(file, i, p, n), p + 3 <= Len(file), n >= 3
  PROVE  LET r == ReadByte(ReadByte(ReadByte(i)))
         IN Buffers(file, r, p + 3, n - 3) /\ r.eof = i.eof
<1>1. p \in Nat /\ n \in Nat /\ Len(file) \in Nat
  BY BuffersTyped
<1> DEFINE a == ReadByte(i)  b == ReadByte(a)  c == ReadByte(b)
<1>2. Buffers(file, a, p + 1, n - 1) /\ a.eof = i.eof
  BY <1>1, ReadFurther
<1> HIDE DEF a
<1>3. Buffers(file, b, (p + 1) + 1, (n - 1) - 1) /\ b.eof = a.eof
  <2>1. p + 1 < Len(file) /\ n - 1 > 0
    BY <1>1
  <2> QED BY <1>2, <2>1, ReadFurther
<1>4. (p + 1) + 1 = p + 2 /\ (n - 1) - 1 = n - 2
  BY <1>1
<1> HIDE DEF b
<1>5. Buffers(file, b, p + 2, n - 2)
  BY <1>3, <1>4
<1>6. Buffers(file, c, (p + 2) + 1, (n - 2) - 1) /\ c.eof = b.eof
  <2>1. p + 2 < Len(file) /\ n - 2 > 0
    BY <1>1
  <2> QED BY <1>5, <2>1, ReadFurther
<1>7. (p + 2) + 1 = p + 3 /\ (n - 2) - 1 = n - 3
  BY <1>1
<1>8. Buffers(file, c, p + 3, n - 3)
  BY <1>6, <1>7
<1> HIDE DEF c
<1>9. Buffers(file, c, p + 3, n - 3) /\ c.eof = i.eof
  <2>1. c.eof = b.eof
    BY <1>6 DEF c
  <2> QED BY <1>2, <1>3, <1>8, <2>1
<1> QED BY <1>9 DEF a, b, c

\* Behind the start code stands the first byte of the NAL unit.
LEMMA CodeRead ==
  ASSUME NEW st, NEW en, Laid(file, units, st, en), NEW i, NEW p, NEW n, NEW k,
         Buffers(file, i, p, n), n <= 4, Ahead(units, st, en, p, k), AtStartCode(i),
         NEW h, h = IF Peeks(Looked(i), Short) THEN Looked(i) ELSE ReadByte(Looked(i))
  PROVE  LET r == ReadByte(ReadByte(ReadByte(h)))
         IN r.eof = i.eof /\ \E m \in 0..1 : Buffers(file, r, st[k], m)
<1> DEFINE x == Looked(i)  r == ReadByte(ReadByte(ReadByte(h)))
<1>1. /\ p \in Nat /\ p + 4 <= Len(file) /\ st[k] \in Nat /\ file \in Seq(Byte) /\ n \in Nat
      /\ Len(file) \in Nat
  BY AheadTyped, BuffersTyped
<1>2. /\ x.eof = i.eof
      /\ \/ p + 3 = st[k] /\ Peeks(x, Short) /\ Buffers(file, x, p, IF n = 4 THEN 4 ELSE 3)
         \/ p + 4 = st[k] /\ ~Peeks(x, Short) /\ Buffers(file, x, p, 4)
  BY CodeFound
<1>3. h = IF Peeks(x, Short) THEN x ELSE ReadByte(x)
  OBVIOUS
<1> HIDE DEF x
<1>4. CASE p + 3 = st[k] /\ Peeks(x, Short) /\ Buffers(file, x, p, IF n = 4 THEN 4 ELSE 3)
  <2> DEFINE m == IF n = 4 THEN 4 ELSE 3
  <2>1. h = x /\ m \in {3, 4} /\ m - 3 \in 0..1 /\ m >= 3 /\ Buffers(file, x, p, m)
    BY <1>3, <1>4
  <2> HIDE DEF m
  <2>2. Buffers(file, r, p + 3, m - 3) /\ r.eof = x.eof
    <3>1. p + 3 <= Len(file)
      BY <1>1
    <3> QED BY <1>1, <2>1, <3>1, ThreeRead
  <2> HIDE DEF r
  <2> QED BY <1>2, <1>4, <2>1, <2>2 DEF r
<1>5. CASE p + 4 = st[k] /\ ~Peeks(x, Short) /\ Buffers(file, x, p, 4)
  <2>1. h = ReadByte(x)
    BY <1>3, <1>5
  <2>2. Buffers(file, h, p + 1, 3) /\ h.eof = x.eof
    <3>1. Buffers(file, ReadByte(x), p + 1, 4 - 1) /\ ReadByte(x).eof = x.eof
      <4>1. 4 > 0 /\ p < Len(file)
        BY <1>1
      <4> QED BY <1>1, <1>5, <4>1, ReadFurther
    <3>2. 4 - 1 = 3
      OBVIOUS
    <3> QED BY <2>1, <3>1, <3>2
  <2>3. Buffers(file, r, (p + 1) + 3, 3 - 3) /\ r.eof = h.eof
    <3>1. (p + 1) + 3 <= Len(file) /\ 3 >= 3
      BY <1>1
    <3> QED BY <1>1, <2>2, <3>1, ThreeRead
  <2>4. (p + 1) + 3 = st[k] /\ 3 - 3 = 0
    BY <1>1, <1>5
  <2> HIDE DEF r
  <2>5. Buffers(file, r, st[k], 0)
    BY <2>3, <2>4
  <2> QED BY <1>2, <2>2, <2>3, <2>5 DEF r
<1> QED BY <1>2, <1>4, <1>5

\* What readByte gives of the stream x that has looked three bytes ahead, with l bytes
\* of NAL unit k read: its next byte, or nothing at the end of the last NAL unit.
NextRead(st, x, k, l) ==
  /\ l < Len(units[k]) =>
       /\ ~NoByte(x) /\ x.held[1] = units[k][l + 1]
       /\ ReadByte(x).eof => k = Len(units)
       /\ \E m \in 0..2 : Buffers(file, ReadByte(x), st[k] + (l + 1), m)
  /\ l = Len(units[k]) => NoByte(x) /\ k = Len(units) /\ x.eof = TRUE

LEMMA BodyRead ==
  ASSUME NEW st, NEW en, Laid(file, units, st, en), NEW i, NEW n, NEW k \in 1..Len(units),
         NEW l \in 0..Len(units[k]), Buffers(file, i, st[k] + l, n), n <= 3,
         i.eof => k = Len(units), ~AtUnitEnd(i)
  PROVE  NextRead(st, Fill(i, 3), k, l)
<1> DEFINE u == units[k]  U == Len(u)  p == st[k] + l  F == Len(file)  x == Fill(i, 3)
<1>1. /\ U \in Nat /\ st[k] \in Nat /\ en[k] \in Nat /\ F \in Nat /\ file \in Seq(Byte)
      /\ en[k] = st[k] + U /\ en[k] <= F /\ l \in Nat /\ l <= U /\ p \in Nat
      /\ \A j \in 1..U : file[st[k] + j] = u[j]
      /\ Len(units) \in Nat /\ n \in Nat /\ p + n <= F
  <2>1. /\ U \in Nat /\ st[k] \in Nat /\ en[k] \in Nat /\ F \in Nat
        /\ en[k] = st[k] + U /\ en[k] <= F
        /\ \A j \in 1..U : file[st[k] + j] = u[j]
    BY UnitAt
  <2>2. file \in Seq(Byte) /\ Len(units) \in Nat
    BY DEF Laid
  <2>3. n \in Nat /\ p + n <= F
    BY BuffersTyped
  <2> HIDE DEF U, F
  <2>4. l \in Nat /\ l <= U
    BY <2>1 DEF U
  <2>5. p \in Nat
    BY <2>1, <2>4
  <2> QED BY <2>1, <2>2, <2>3, <2>4, <2>5 DEF U
<1>2. /\ EndAt(p) <=> p = en[k] /\ k < Len(units)
      /\ p = en[k] /\ k = Len(units) => p = F
  <2>1. st[k] <= p /\ p <= en[k] /\ p \in Nat
    BY <1>1
  <2> HIDE DEF p
  <2> QED BY <2>1, BodyAt
<1>3. ~EndAt(p)
  BY <1>1, PeeksCodes
<1>4. k < Len(units) => en[k] + 5 <= F
  <2> SUFFICES ASSUME k < Len(units)
               PROVE  en[k] + 5 <= F
    OBVIOUS
  <2>1. k + 1 \in 1..Len(units) /\ (k + 1) - 1 = k
    BY <1>1
  <2>2. /\ st[k + 1] \in Nat /\ en[k] + 3 <= st[k + 1] /\ Len(units[k + 1]) \in Nat
        /\ Len(units[k + 1]) >= 2
        /\ en[k + 1] = st[k + 1] + Len(units[k + 1]) /\ en[k + 1] <= F
    BY <2>1, UnitAt
  <2> DEFINE b == st[k + 1]  c == Len(units[k + 1])  d == en[k + 1]  e == en[k]
  <2>3. b \in Nat /\ e \in Nat /\ F \in Nat /\ e + 3 <= b /\ c >= 2 /\ c \in Nat /\ d = b + c /\ d <= F
    BY <1>1, <2>2
  <2> HIDE DEF F, b, c, d, e
  <2>4. e + 5 <= F
    BY ONLY <2>3
  <2> QED BY <2>4 DEF e
<1>5. Buffers(file, i, p, n)
  OBVIOUS
<1>6. /\ 3 <= n => x = i
      /\ 3 > n /\ p + 3 <= F => Buffers(file, x, p, 3) /\ x.eof = i.eof
      /\ 3 > n /\ p + 3 > F => Buffers(file, x, p, F - p) /\ x.eof = TRUE
  <2>1. 3 \in Nat
    OBVIOUS
  <2> HIDE DEF p
  <2> QED BY <1>1, <1>5, <2>1, FillHolds
<1>7. ~(p = en[k] /\ k < Len(units)) /\ (p = en[k] /\ k = Len(units) => p = F)
  BY <1>2, <1>3
<1>12. st[k] + (l + 1) = p + 1
  <2> DEFINE b == st[k]
  <2>1. b \in Nat /\ l \in Nat /\ p = b + l
    BY <1>1
  <2> HIDE DEF b, p
  <2>2. b + (l + 1) = p + 1
    BY ONLY <2>1
  <2> QED BY <2>2 DEF b
<1>13. p < en[k] <=> l < U
  BY <1>1
<1>14. l < U => l + 1 \in 1..U
  BY <1>1
<1>15. p <= en[k]
  BY <1>1
<1> HIDE DEF x, p, F, U
<1>8. ASSUME p < en[k]
      PROVE  \E m \in 1..3 : Buffers(file, x, p, m) /\ (x.eof => k = Len(units))
  <2>1. CASE 3 <= n
    <3>1. n = 3
      BY <1>1, <2>1
    <3> QED BY <1>5, <1>6, <2>1, <3>1
  <2>2. CASE 3 > n /\ p + 3 <= F
    BY <1>6, <2>2
  <2>3. CASE 3 > n /\ p + 3 > F
    <3>0. k = Len(units)
      <4>1. ~(en[k] + 5 <= F)
        <5> DEFINE e == en[k]
        <5>1. e \in Nat /\ F \in Nat /\ p \in Nat /\ p + 3 > F /\ p < e
          BY <1>1, <1>8, <2>3
        <5> HIDE DEF e
        <5>2. ~(e + 5 <= F)
          BY ONLY <5>1
        <5> QED BY <5>2 DEF e
      <4>2. k <= Len(units) /\ k \in Nat
        BY <1>1
      <4> QED BY <1>1, <1>4, <4>1, <4>2
    <3>1. F - p \in 1..3 /\ k = Len(units)
      <4> DEFINE e == en[k]
      <4>1. e \in Nat /\ F \in Nat /\ p \in Nat /\ p + 3 > F /\ p < e /\ e <= F
        BY <1>1, <1>8, <2>3
      <4> HIDE DEF e
      <4>2. F - p \in 1..3
        BY ONLY <4>1
      <4> QED BY <3>0, <4>2
    <3> QED BY <1>6, <2>3, <3>1
  <2> QED BY <1>1, <2>1, <2>2, <2>3
<1>9. ASSUME l < U
      PROVE  /\ ~NoByte(x) /\ x.held[1] = u[l + 1]
             /\ ReadByte(x).eof => k = Len(units)
             /\ \E m \in 0..2 : Buffers(file, ReadByte(x), st[k] + (l + 1), m)
  <2>1. p < en[k] /\ p < F /\ l + 1 \in 1..U
    BY <1>1, <1>9, <1>13, <1>14, SMTT(20)
  <2>2. PICK m \in 1..3 : Buffers(file, x, p, m) /\ (x.eof => k = Len(units))
    BY <1>8, <2>1
  <2>3. /\ Buffers(file, ReadByte(x), p + 1, IF m = 0 THEN 0 ELSE m - 1)
        /\ ReadByte(x).eof = x.eof
        /\ Fill(x, 1).held[1] = file[p + 1] /\ ~NoByte(x)
    BY <1>1, <2>1, <2>2, ReadHolds DEF F
  <2>4. (IF m = 0 THEN 0 ELSE m - 1) \in 0..2
    OBVIOUS
  <2>5. file[p + 1] = u[l + 1]
    BY <1>1, <1>12, <2>1, SMTT(20)
  <2>6. x.held[1] = file[p + 1]
    <3>1. /\ m \in Nat /\ x.held \in Seq(Byte) /\ \A j \in 1..m : x.held[j] = file[p + j]
      BY <2>2, BuffersTyped, SMTT(20)
    <3>2. 1 \in 1..m
      OBVIOUS
    <3> QED BY <3>1, <3>2
  <2> QED BY <1>12, <2>2, <2>3, <2>4, <2>5, <2>6
<1>10. ASSUME l = U
       PROVE  NoByte(x) /\ k = Len(units) /\ x.eof = TRUE
  <2>1. p = en[k] /\ k = Len(units) /\ p = F
    <3>1. ~(p < en[k]) /\ p \in Nat
      BY <1>1, <1>10, <1>13
    <3>2. p = en[k]
      BY <1>1, <1>15, <3>1
    <3>3. k = Len(units)
      BY <1>1, <1>7, <3>2
    <3> QED BY <1>7, <3>2, <3>3
  <2>2. n = 0 /\ 3 > n /\ p + 3 > F /\ F - p = 0
    <3>1. n \in Nat /\ p \in Nat /\ F \in Nat /\ p + n <= F /\ p = F
      BY <1>1, <2>1
    <3> QED BY ONLY <3>1
  <2>3. Buffers(file, x, p, 0) /\ x.eof = TRUE
    BY <1>6, <2>2
  <2>4. NoByte(x)
    BY <1>1, <2>1, <2>3, NoMore DEF F
  <2> QED BY <2>1, <2>3, <2>4
<1> QED BY <1>9, <1>10 DEF NextRead, x, U, u

\* Behind a NAL unit the reader stands in front of the next one.
LEMMA BodyEnds ==
  ASSUME NEW st, NEW en, Laid(file, units, st, en), NEW i, NEW n, NEW k \in 1..Len(units),
         NEW l \in 0..Len(units[k]), Buffers(file, i, st[k] + l, n), n <= 3,
         i.eof => k = Len(units), AtUnitEnd(i)
  PROVE  /\ l = Len(units[k]) /\ k < Len(units) /\ Fill(i, 3).eof = i.eof
         /\ \E p : Buffers(file, Fill(i, 3), p, 3) /\ Ahead(units, st, en, p, k + 1)
<1> DEFINE U == Len(units[k])  p == st[k] + l  F == Len(file)  x == Fill(i, 3)
<1>1. /\ U \in Nat /\ st[k] \in Nat /\ en[k] \in Nat /\ F \in Nat /\ file \in Seq(Byte)
      /\ en[k] = st[k] + U /\ en[k] <= F /\ l \in Nat /\ l <= U /\ p \in Nat
      /\ Len(units) \in Nat /\ n \in Nat /\ p + n <= F
  <2>1. /\ U \in Nat /\ st[k] \in Nat /\ en[k] \in Nat /\ F \in Nat
        /\ en[k] = st[k] + U /\ en[k] <= F
    BY UnitAt
  <2>2. file \in Seq(Byte) /\ Len(units) \in Nat
    BY DEF Laid
  <2>3. n \in Nat /\ p + n <= F
    BY BuffersTyped
  <2> HIDE DEF U, F
  <2>4. l \in Nat /\ l <= U
    BY <2>1 DEF U
  <2>5. p \in Nat
    BY <2>1, <2>4
  <2> QED BY <2>1, <2>2, <2>3, <2>4, <2>5 DEF U
<1>2. EndAt(p) <=> p = en[k] /\ k < Len(units)
  <2>1. st[k] <= p /\ p <= en[k] /\ p \in Nat
    BY <1>1
  <2> HIDE DEF p
  <2> QED BY <2>1, BodyAt
<1>3. EndAt(p)
  BY <1>1, PeeksCodes
<1>4. k + 1 \in 1..Len(units) /\ (k + 1) - 1 = k
  BY <1>1, <1>2, <1>3
<1>5. en[k] + 3 <= st[k + 1] /\ st[k + 1] \in Nat
  BY <1>4, UnitAt
<1>6. Ahead(units, st, en, p, k + 1)
  <2>1. p = en[k]
    BY <1>2, <1>3
  <2>2. en[(k + 1) - 1] = p
    BY ONLY <1>4, <2>1
  <2>3. p \in Nat
    BY <1>1
  <2> HIDE DEF p
  <2>4. en[(k + 1) - 1] <= p /\ p + 3 <= st[k + 1]
    BY ONLY <1>5, <2>1, <2>2, <2>3
  <2> QED BY <1>1, <1>4, <2>3, <2>4 DEF Ahead
<1>7. Buffers(file, x, p, 3) /\ x.eof = i.eof
  <2>1. p + 3 <= F /\ 3 \in Nat
    BY <1>3 DEF EndAt
  <2>2. Buffers(file, i, p, n)
    OBVIOUS
  <2>3. /\ 3 <= n => x = i
        /\ 3 > n /\ p + 3 <= F => Buffers(file, x, p, 3) /\ x.eof = i.eof
    <3> HIDE DEF p
    <3> QED BY <1>1, <2>1, <2>2, FillHolds
  <2> HIDE DEF x, p
  <2>4. 3 <= n => n = 3
    BY <1>1
  <2> QED BY <1>1, <2>1, <2>2, <2>3, <2>4
<1>8. l = U /\ k < Len(units)
  BY <1>1, <1>2, <1>3
<1> HIDE DEF p, x, U
<1> QED BY <1>6, <1>7, <1>8 DEF x, U

LEMMA InitReads == Init => Inv
<1> SUFFICES ASSUME Init
             PROVE  Inv
  OBVIOUS
<1> DEFINE st == [k \in 1..0 |-> 0]  en == [k \in 0..0 |-> 0]
<1>1. file = <<>> /\ units = <<>> /\ Len(file) = 0 /\ Len(units) = 0
  BY DEF Init
<1>2. st \in [1..0 -> Nat] /\ en \in [0..0 -> Nat] /\ en[0] = 0
  OBVIOUS
<1> HIDE DEF st, en
<1>3. Laid(file, units, st, en)
  <2>1. file \in Seq(Byte) /\ units \in Seq(Units)
    BY <1>1
  <2>2. \A k \in 1..Len(units) : FALSE
    BY <1>1
  <2> QED BY <1>1, <1>2, <2>1, <2>2 DEF Laid
<1>4. Reads(st, en)
  <2>1. /\ stage = "write" /\ caller = "decode" /\ got = <<>> /\ fresh = FALSE
        /\ in = [at |-> 0, held |-> <<>>, eof |-> FALSE]
    BY DEF Init
  <2>2. Len(got) = 0 /\ got \in Seq(Seq(Byte)) /\ \A k \in 1..Len(got) : FALSE
    BY <2>1
  <2> QED BY <1>1, <2>1, <2>2 DEF Reads, ReadOk
<1> QED BY <1>3, <1>4 DEF Inv

LEMMA GotTyped ==
  ASSUME NEW st, NEW en, Reads(st, en)
  PROVE  /\ stage \in {"write", "loop", "lead", "body", "trail", "end"}
         /\ Len(got) \in Nat /\ got \in Seq(Seq(Byte)) /\ Len(got) <= Len(units)
         /\ \A k \in 1..Len(got) : got[k] = units[k]
BY DEF Reads, ReadOk

\* A step of the reader for the look-ahead moves nothing that decides where it comes back to.
LEMMA LookStays ==
  ASSUME NEW st, NEW en, Laid(file, units, st, en), Reads(st, en),
         stage \in {"lead", "body", "trail", "end"}, caller # "decode",
         stage' \in {"lead", "body", "trail", "end"}, Kept
  PROVE  Laid(file, units, st, en)' /\ Reads(st, en)'
<1>1. /\ file' = file /\ units' = units /\ caller' = caller /\ location' = location
      /\ fresh' = fresh /\ got' = got
  BY DEF Kept
<1>2. Laid(file, units, st, en)'
  BY <1>1
<1>3. LookOk(units, st, en, caller, location, fresh, Len(got))
  BY DEF Reads, ReadOk
<1>4. LookOk(units, st, en, caller, location, fresh, Len(got))'
  BY <1>1, <1>3
<1>5. stage' # "write" /\ stage' # "loop" /\ caller' # "decode"
  BY <1>1
<1>6. /\ stage' \in {"write", "loop", "lead", "body", "trail", "end"}
      /\ Len(got') \in Nat /\ got' \in Seq(Seq(Byte)) /\ Len(got') <= Len(units')
      /\ \A k \in 1..Len(got') : got'[k] = units'[k]
  BY <1>1, GotTyped
<1> QED BY <1>2, <1>4, <1>5, <1>6 DEF Reads, ReadOk

\* What is left to show of a step of the reader for DecApp::decode.
LEMMA DecodeStep ==
  ASSUME NEW st, NEW en, Laid(file, units, st, en), Reads(st, en), Kept, caller = "decode",
         stage' \in {"lead", "body", "trail", "end"},
         stage' = "lead" => LeadOk(file, units, st, en, in', nal', Len(got)),
         stage' = "body" => BodyOk(file, units, st, en, in', nal', Len(got)),
         stage' = "trail" => TrailOk(file, units, st, en, in', nal', Len(got)),
         stage' = "end" => EndOk(file, units, st, en, in', nal', Len(got))
  PROVE  Laid(file, units, st, en)' /\ Reads(st, en)'
<1>1. /\ file' = file /\ units' = units /\ caller' = caller /\ location' = location
      /\ fresh' = fresh /\ got' = got
  BY DEF Kept
<1>2. Laid(file, units, st, en)'
  BY <1>1
<1>3. /\ stage' = "lead" => LeadOk(file, units, st, en, in, nal, Len(got))'
      /\ stage' = "body" => BodyOk(file, units, st, en, in, nal, Len(got))'
      /\ stage' = "trail" => TrailOk(file, units, st, en, in, nal, Len(got))'
      /\ stage' = "end" => EndOk(file, units, st, en, in, nal, Len(got))'
  BY <1>1
<1>5. stage' # "write" /\ stage' # "loop" /\ caller' = "decode"
  BY <1>1
<1>6. /\ stage' \in {"write", "loop", "lead", "body", "trail", "end"}
      /\ Len(got') \in Nat /\ got' \in Seq(Seq(Byte)) /\ Len(got') <= Len(units')
      /\ \A k \in 1..Len(got') : got'[k] = units'[k]
  BY <1>1, GotTyped
<1> QED BY <1>2, <1>3, <1>5, <1>6 DEF Reads, ReadOk

LEMMA OpenReads ==
  ASSUME NEW st, NEW en, Laid(file, units, st, en), Reads(st, en), Open
  PROVE  Laid(file, units, st, en)' /\ Reads(st, en)'
<1>1. /\ stage = "write" /\ units # <<>> /\ stage' = "loop"
      /\ file' = file /\ units' = units /\ caller' = caller /\ in' = in /\ nal' = nal
      /\ location' = location /\ fresh' = fresh /\ got' = got
  BY DEF Open
<1>2. /\ in = [at |-> 0, held |-> <<>>, eof |-> FALSE] /\ got = <<>> /\ ~fresh
  BY <1>1 DEF Reads, ReadOk
<1>3. Len(got) = 0 /\ in.eof = FALSE /\ in = Restored(0)
  BY <1>2 DEF Restored
<1>4. 1 \in 1..Len(units)
  <2>1. units \in Seq(Units)
    BY DEF Laid
  <2> QED BY <1>1, <2>1
<1>5. Ahead(units, st, en, 0, 1)
  <2>1. en[1 - 1] = 0
    BY DEF Laid
  <2>2. en[1 - 1] + 3 <= st[1]
    BY <1>4, UnitAt
  <2> QED BY <1>4, <2>1, <2>2 DEF Ahead
<1>6. Standing(file, units, st, en, in, 1)
  <2>1. Standing(file, units, st, en, Restored(0), 1)
    BY <1>5, BackStands
  <2> QED BY <1>3, <2>1
<1>7. LoopOk(file, units, st, en, in, fresh, Len(got))'
  <2>1. Len(got) + 1 = 1
    BY <1>3
  <2>2. LoopOk(file, units, st, en, in, fresh, Len(got))
    BY <1>2, <1>3, <1>6, <2>1 DEF LoopOk
  <2> QED BY <1>1, <2>2
<1>8. /\ Len(got') \in Nat /\ got' \in Seq(Seq(Byte)) /\ Len(got') <= Len(units')
      /\ \A k \in 1..Len(got') : got'[k] = units'[k]
  BY <1>1, GotTyped
<1>9. Laid(file, units, st, en)'
  BY <1>1
<1> QED BY <1>1, <1>7, <1>8, <1>9 DEF Reads, ReadOk

LEMMA LeadingZeroReads ==
  ASSUME NEW st, NEW en, Laid(file, units, st, en), Reads(st, en), LeadingZero
  PROVE  Laid(file, units, st, en)' /\ Reads(st, en)'
<1>1. /\ stage = "lead" /\ ~AtStartCode(in) /\ nal' = nal /\ Kept
      /\ IF NoByte(Looked(in)) THEN Throw(Looked(in))
         ELSE IF Fill(Looked(in), 1).held[1] = 0 THEN Step(ReadByte(Looked(in)), "lead")
         ELSE Throw(ReadByte(Looked(in)))
  BY DEF LeadingZero
<1>2. CASE caller # "decode"
  <2>1. stage' \in {"lead", "end"}
    BY <1>1 DEF Throw, Step
  <2> QED BY <1>1, <1>2, <2>1, LookStays
<1>3. CASE caller = "decode"
  <2>1. LeadOk(file, units, st, en, in, nal, Len(got))
    BY <1>1, <1>3 DEF Reads, ReadOk
  <2> DEFINE k == Len(got) + 1
  <2>2. ~in.eof /\ nal = <<>> /\ Standing(file, units, st, en, in, k)
    BY <2>1 DEF LeadOk
  <2> HIDE DEF k
  <2>3. PICK p, n : Buffers(file, in, p, n) /\ n <= 4 /\ Ahead(units, st, en, p, k)
    BY <2>2 DEF Standing
  <2>4. /\ ~NoByte(Looked(in)) /\ Fill(Looked(in), 1).held[1] = 0
        /\ Buffers(file, ReadByte(Looked(in)), p + 1, 3) /\ ReadByte(Looked(in)).eof = in.eof
        /\ Ahead(units, st, en, p + 1, k)
    BY <1>1, <2>3, ZeroSkipped
  <2>5. in' = ReadByte(Looked(in)) /\ stage' = "lead"
    BY <1>1, <2>4 DEF Step
  <2>6. Standing(file, units, st, en, in', k)
    <3>1. 3 <= 4
      OBVIOUS
    <3> QED BY <2>4, <2>5, <3>1 DEF Standing
  <2>7. LeadOk(file, units, st, en, in', nal', Len(got))
    BY <1>1, <2>2, <2>4, <2>5, <2>6 DEF LeadOk, k
  <2> QED BY <1>1, <1>3, <2>5, <2>7, DecodeStep
<1> QED BY <1>2, <1>3

LEMMA StartCodeReads ==
  ASSUME NEW st, NEW en, Laid(file, units, st, en), Reads(st, en), StartCode
  PROVE  Laid(file, units, st, en)' /\ Reads(st, en)'
<1> DEFINE h == IF Peeks(Looked(in), Short) THEN Looked(in) ELSE ReadByte(Looked(in))
           r == ReadByte(ReadByte(ReadByte(h)))
<1>1. /\ stage = "lead" /\ AtStartCode(in) /\ nal' = nal /\ Kept
      /\ in' = r /\ stage' = "body"
  BY DEF StartCode, Step
<1> HIDE DEF r
<1>2. CASE caller # "decode"
  BY <1>1, <1>2, LookStays
<1>3. CASE caller = "decode"
  <2>1. LeadOk(file, units, st, en, in, nal, Len(got))
    BY <1>1, <1>3 DEF Reads, ReadOk
  <2> DEFINE k == Len(got) + 1
  <2>2. ~in.eof /\ nal = <<>> /\ Standing(file, units, st, en, in, k)
    BY <2>1 DEF LeadOk
  <2> HIDE DEF k
  <2>3. PICK p, n : Buffers(file, in, p, n) /\ n <= 4 /\ Ahead(units, st, en, p, k)
    BY <2>2 DEF Standing
  <2>4. r.eof = in.eof /\ \E m \in 0..1 : Buffers(file, r, st[k], m)
    <3> DEFINE g == h
    <3>1. g = IF Peeks(Looked(in), Short) THEN Looked(in) ELSE ReadByte(Looked(in))
      OBVIOUS
    <3>2. r = ReadByte(ReadByte(ReadByte(g)))
      BY DEF r
    <3> HIDE DEF h, g
    <3> QED BY <1>1, <2>3, <3>1, <3>2, CodeRead
  <2>5. k \in 1..Len(units) /\ st[k] \in Nat /\ units[k] \in Units /\ Len(units[k]) \in Nat
    <3>1. k \in 1..Len(units)
      BY <2>3, AheadTyped
    <3> QED BY <3>1, UnitAt
  <2>6. Len(nal') = 0 /\ nal' \in Seq(Byte) /\ \A j \in 1..Len(nal') : FALSE
    BY <1>1, <2>2
  <2>7. \E m : m <= 3 /\ Buffers(file, in', st[k] + Len(nal'), m)
    <3>1. st[k] + Len(nal') = st[k]
      BY <2>5, <2>6
    <3>2. PICK m \in 0..1 : Buffers(file, r, st[k], m)
      BY <2>4
    <3>3. m <= 3
      BY <3>2
    <3> QED BY <1>1, <3>1, <3>2, <3>3
  <2>8. BodyOk(file, units, st, en, in', nal', Len(got))
    <3>1. ~in'.eof
      BY <1>1, <2>2, <2>4
    <3>2. Len(nal') <= Len(units[k])
      BY <2>5, <2>6
    <3> QED BY <2>5, <2>6, <2>7, <3>1, <3>2 DEF BodyOk, k
  <2> QED BY <1>1, <1>3, <2>8, DecodeStep
<1> QED BY <1>2, <1>3

\* A NAL unit with one more of its bytes read.
LEMMA ByteAppended ==
  ASSUME NEW u \in Seq(Byte), NEW d \in Seq(Byte), Len(d) < Len(u),
         \A j \in 1..Len(d) : d[j] = u[j], NEW e, e = Append(d, u[Len(d) + 1])
  PROVE  /\ e \in Seq(Byte) /\ Len(e) = Len(d) + 1 /\ Len(e) <= Len(u)
         /\ \A j \in 1..Len(e) : e[j] = u[j]
<1>1. Len(d) \in Nat /\ Len(u) \in Nat /\ Len(d) + 1 \in 1..Len(u)
  OBVIOUS
<1>2. u[Len(d) + 1] \in Byte
  BY <1>1
<1> DEFINE b == u[Len(d) + 1]
<1>3. /\ e \in Seq(Byte) /\ Len(e) = Len(d) + 1 /\ e[Len(d) + 1] = b
      /\ \A j \in 1..Len(d) : e[j] = d[j]
  <2>1. e = Append(d, b) /\ b \in Byte
    BY <1>2
  <2> HIDE DEF b
  <2> QED BY <2>1
<1>4. \A j \in 1..(Len(d) + 1) : j \in 1..Len(d) \/ j = Len(d) + 1
  BY <1>1
<1> QED BY <1>1, <1>3, <1>4

LEMMA BodyTyped ==
  ASSUME NEW st, NEW en, Laid(file, units, st, en), Reads(st, en), stage = "body", caller = "decode",
         NEW k, k = Len(got) + 1
  PROVE  /\ k \in 1..Len(units) /\ nal \in Seq(Byte) /\ Len(nal) \in 0..Len(units[k])
         /\ \A j \in 1..Len(nal) : nal[j] = units[k][j]
         /\ in.eof => k = Len(units)
         /\ \E n : n <= 3 /\ Buffers(file, in, st[k] + Len(nal), n)
         /\ units[k] \in Seq(Byte) /\ Len(units[k]) \in Nat /\ st[k] \in Nat
<1>1. BodyOk(file, units, st, en, in, nal, Len(got))
  BY DEF Reads, ReadOk
<1>2. /\ k \in 1..Len(units) /\ nal \in Seq(Byte) /\ Len(nal) <= Len(units[k])
      /\ \A j \in 1..Len(nal) : nal[j] = units[k][j]
      /\ in.eof => k = Len(units)
      /\ \E n : n <= 3 /\ Buffers(file, in, st[k] + Len(nal), n)
  BY <1>1 DEF BodyOk
<1>3. units[k] \in Seq(Byte) /\ Len(units[k]) \in Nat /\ st[k] \in Nat
  <2>1. units[k] \in Units
    BY <1>2, UnitAt
  <2> QED BY <1>2, <2>1, UnitAt, UnitTyped
<1>4. Len(nal) \in 0..Len(units[k])
  BY <1>2, <1>3
<1> QED BY <1>2, <1>3, <1>4

LEMMA BodyByteReads ==
  ASSUME NEW st, NEW en, Laid(file, units, st, en), Reads(st, en), BodyByte
  PROVE  Laid(file, units, st, en)' /\ Reads(st, en)'
<1> DEFINE i == Fill(in, 3)
<1>1. /\ stage = "body" /\ ~AtUnitEnd(in) /\ Kept
      /\ IF NoByte(i) THEN Throw(i) /\ UNCHANGED nal
         ELSE Step(ReadByte(i), "body") /\ nal' = Append(nal, i.held[1])
  BY DEF BodyByte
<1> HIDE DEF i
<1>2. CASE caller # "decode"
  <2>1. stage' \in {"body", "end"}
    BY <1>1 DEF Throw, Step
  <2> QED BY <1>1, <1>2, <2>1, LookStays
<1>3. CASE caller = "decode"
  <2> DEFINE k == Len(got) + 1  u == units[k]  l == Len(nal)
  <2>1. /\ k \in 1..Len(units) /\ nal \in Seq(Byte) /\ l \in 0..Len(u)
        /\ \A j \in 1..l : nal[j] = u[j]
        /\ in.eof => k = Len(units)
        /\ \E n : n <= 3 /\ Buffers(file, in, st[k] + l, n)
        /\ u \in Seq(Byte) /\ Len(u) \in Nat /\ st[k] \in Nat
    <3> HIDE DEF k
    <3>1. k = Len(got) + 1
      BY DEF k
    <3> QED BY <1>1, <1>3, <3>1, BodyTyped
  <2>2. PICK n : n <= 3 /\ Buffers(file, in, st[k] + l, n)
    BY <2>1
  <2>3. /\ l < Len(u) => /\ ~NoByte(i) /\ i.held[1] = u[l + 1]
                         /\ ReadByte(i).eof => k = Len(units)
                         /\ \E m \in 0..2 : Buffers(file, ReadByte(i), st[k] + (l + 1), m)
        /\ l = Len(u) => NoByte(i) /\ k = Len(units) /\ i.eof = TRUE
    <3> HIDE DEF k, l, u
    <3>1. /\ k \in 1..Len(units) /\ l \in 0..Len(units[k])
          /\ in.eof => k = Len(units)
          /\ Buffers(file, in, st[k] + l, n) /\ n <= 3 /\ ~AtUnitEnd(in)
      BY <1>1, <2>1, <2>2 DEF u
    <3>2. NextRead(st, i, k, l)
      BY ONLY Laid(file, units, st, en), <3>1, BodyRead DEF i
    <3> QED BY ONLY <3>2 DEF NextRead, u
  <2>4. CASE l < Len(u)
    <3>1. stage' = "body" /\ in' = ReadByte(i) /\ nal' = Append(nal, u[l + 1])
      BY <1>1, <2>3, <2>4 DEF Step
    <3>2. /\ nal' \in Seq(Byte) /\ Len(nal') = l + 1 /\ Len(nal') <= Len(u)
          /\ \A j \in 1..Len(nal') : nal'[j] = u[j]
      <4> DEFINE e == nal'
      <4>1. e = Append(nal, u[Len(nal) + 1])
        BY <3>1
      <4> HIDE DEF e, u
      <4>2. /\ e \in Seq(Byte) /\ Len(e) = Len(nal) + 1 /\ Len(e) <= Len(u)
            /\ \A j \in 1..Len(e) : e[j] = u[j]
        BY <2>1, <2>4, <4>1, ByteAppended
      <4> QED BY <4>2 DEF e
    <3>3. \E m : m <= 3 /\ Buffers(file, in', st[k] + Len(nal'), m)
      <4>1. PICK m \in 0..2 : Buffers(file, ReadByte(i), st[k] + (l + 1), m)
        BY <2>3, <2>4
      <4>2. m <= 3
        BY <4>1
      <4>3. Buffers(file, in', st[k] + Len(nal'), m)
        <5> HIDE DEF l, k
        <5> QED BY <3>1, <3>2, <4>1
      <4> QED BY <4>2, <4>3
    <3>4. BodyOk(file, units, st, en, in', nal', Len(got))
      <4>1. in'.eof => k = Len(units)
        BY <2>3, <2>4, <3>1
      <4> QED BY <2>1, <3>2, <3>3, <4>1 DEF BodyOk
    <3> QED BY <1>1, <1>3, <3>1, <3>4, DecodeStep
  <2>5. CASE l = Len(u)
    <3>1. stage' = "end" /\ in' = i /\ nal' = nal
      BY <1>1, <2>3, <2>5 DEF Throw
    <3>2. nal = u
      <4> HIDE DEF u
      <4>1. nal \in Seq(Byte) /\ u \in Seq(Byte) /\ Len(nal) = Len(u) /\ \A j \in 1..Len(nal) : nal[j] = u[j]
        BY <2>1, <2>5
      <4> QED BY ONLY <4>1, SeqEqual
    <3>3. EndOk(file, units, st, en, in', nal', Len(got))
      BY <2>1, <2>3, <2>5, <3>1, <3>2 DEF EndOk
    <3> QED BY <1>1, <1>3, <3>1, <3>3, DecodeStep
  <2>6. l < Len(u) \/ l = Len(u)
    BY <2>1
  <2> QED BY <2>4, <2>5, <2>6
<1> QED BY <1>2, <1>3

LEMMA EndBodyReads ==
  ASSUME NEW st, NEW en, Laid(file, units, st, en), Reads(st, en), EndBody
  PROVE  Laid(file, units, st, en)' /\ Reads(st, en)'
<1>1. /\ stage = "body" /\ AtUnitEnd(in) /\ Kept /\ nal' = nal
      /\ in' = Fill(in, 3) /\ stage' = "trail"
  BY DEF EndBody, Step
<1>2. CASE caller # "decode"
  BY <1>1, <1>2, LookStays
<1>3. CASE caller = "decode"
  <2> DEFINE k == Len(got) + 1  u == units[k]  l == Len(nal)
  <2>1. /\ k \in 1..Len(units) /\ nal \in Seq(Byte) /\ l \in 0..Len(u)
        /\ \A j \in 1..l : nal[j] = u[j]
        /\ in.eof => k = Len(units)
        /\ \E n : n <= 3 /\ Buffers(file, in, st[k] + l, n)
        /\ u \in Seq(Byte) /\ Len(u) \in Nat /\ st[k] \in Nat
    <3> HIDE DEF k
    <3>1. k = Len(got) + 1
      BY DEF k
    <3> QED BY <1>1, <1>3, <3>1, BodyTyped
  <2>2. PICK n : n <= 3 /\ Buffers(file, in, st[k] + l, n)
    BY <2>1
  <2>3. /\ l = Len(u) /\ k < Len(units) /\ Fill(in, 3).eof = in.eof
        /\ \E p : Buffers(file, Fill(in, 3), p, 3) /\ Ahead(units, st, en, p, k + 1)
    <3> HIDE DEF k, l
    <3> QED BY <1>1, <2>1, <2>2, BodyEnds
  <2>4. nal = u
    <3> HIDE DEF u
    <3>1. nal \in Seq(Byte) /\ u \in Seq(Byte) /\ Len(nal) = Len(u) /\ \A j \in 1..Len(nal) : nal[j] = u[j]
      BY <2>1, <2>3
    <3> QED BY ONLY <3>1, SeqEqual
  <2>5. k + 1 = Len(got) + 2
    BY GotTyped
  <2>6. ~in.eof
    BY <2>1, <2>3
  <2>7. TrailOk(file, units, st, en, in', nal', Len(got))
    BY <1>1, <2>1, <2>3, <2>4, <2>5, <2>6 DEF TrailOk
  <2> QED BY <1>1, <1>3, <2>7, DecodeStep
<1> QED BY <1>2, <1>3

LEMMA TrailingZeroReads ==
  ASSUME NEW st, NEW en, Laid(file, units, st, en), Reads(st, en), TrailingZero
  PROVE  Laid(file, units, st, en)' /\ Reads(st, en)'
<1>1. /\ stage = "trail" /\ ~AtStartCode(in) /\ nal' = nal /\ Kept
      /\ IF NoByte(Looked(in)) THEN Throw(Looked(in))
         ELSE IF Fill(Looked(in), 1).held[1] = 0 THEN Step(ReadByte(Looked(in)), "trail")
         ELSE Throw(ReadByte(Looked(in)))
  BY DEF TrailingZero
<1>2. CASE caller # "decode"
  <2>1. stage' \in {"trail", "end"}
    BY <1>1 DEF Throw, Step
  <2> QED BY <1>1, <1>2, <2>1, LookStays
<1>3. CASE caller = "decode"
  <2>1. TrailOk(file, units, st, en, in, nal, Len(got))
    BY <1>1, <1>3 DEF Reads, ReadOk
  <2> DEFINE k == Len(got) + 2
  <2>2. PICK p : Buffers(file, in, p, 3) /\ Ahead(units, st, en, p, k)
    BY <2>1 DEF TrailOk
  <2> HIDE DEF k
  <2>4. /\ ~NoByte(Looked(in)) /\ Fill(Looked(in), 1).held[1] = 0
        /\ Buffers(file, ReadByte(Looked(in)), p + 1, 3) /\ ReadByte(Looked(in)).eof = in.eof
        /\ Ahead(units, st, en, p + 1, k)
    <3>1. 3 <= 4
      OBVIOUS
    <3> QED BY <1>1, <2>2, <3>1, ZeroSkipped
  <2>5. in' = ReadByte(Looked(in)) /\ stage' = "trail"
    BY <1>1, <2>4 DEF Step
  <2>7. TrailOk(file, units, st, en, in', nal', Len(got))
    BY <1>1, <2>1, <2>4, <2>5 DEF TrailOk, k
  <2> QED BY <1>1, <1>3, <2>5, <2>7, DecodeStep
<1> QED BY <1>2, <1>3

LEMMA EndTrailReads ==
  ASSUME NEW st, NEW en, Laid(file, units, st, en), Reads(st, en), EndTrail
  PROVE  Laid(file, units, st, en)' /\ Reads(st, en)'
<1>1. /\ stage = "trail" /\ AtStartCode(in) /\ nal' = nal /\ Kept
      /\ in' = Looked(in) /\ stage' = "end"
  BY DEF EndTrail
<1>2. CASE caller # "decode"
  BY <1>1, <1>2, LookStays
<1>3. CASE caller = "decode"
  <2>1. TrailOk(file, units, st, en, in, nal, Len(got))
    BY <1>1, <1>3 DEF Reads, ReadOk
  <2> DEFINE k == Len(got) + 2
  <2>2. PICK p : Buffers(file, in, p, 3) /\ Ahead(units, st, en, p, k)
    BY <2>1 DEF TrailOk
  <2> HIDE DEF k
  <2>3. /\ Looked(in).eof = in.eof
        /\ \/ p + 3 = st[k] /\ Buffers(file, Looked(in), p, IF 3 = 4 THEN 4 ELSE 3)
           \/ p + 4 = st[k] /\ Buffers(file, Looked(in), p, 4)
    <3>1. 3 <= 4
      OBVIOUS
    <3> QED BY <1>1, <2>2, <3>1, CodeFound
  <2>4. \E n : n <= 4 /\ Buffers(file, in', p, n) /\ p + n = st[k]
    <3>1. (IF 3 = 4 THEN 4 ELSE 3) = 3 /\ 3 <= 4 /\ 4 <= 4
      OBVIOUS
    <3> QED BY <1>1, <2>3, <3>1
  <2>5. PICK n : n <= 4 /\ Buffers(file, in', p, n) /\ p + n = st[k]
    BY <2>4
  <2>6. Standing(file, units, st, en, in', k)
    BY <2>2, <2>5 DEF Standing
  <2>7. Behind(units, st, en, in', k)
    <3>1. in'.at = st[k]
      BY <2>5, BuffersTyped
    <3>2. /\ k \in 1..Len(units) /\ st[k] \in Nat /\ en[k - 1] \in Nat /\ en[k - 1] + 3 <= st[k]
      BY <2>2, AheadTyped
    <3> DEFINE b == st[k]  e == en[k - 1]
    <3>3. b >= 3 /\ b - 3 \in Nat /\ e <= b - 3 /\ (b - 3) + 3 <= b
      <4>1. b \in Nat /\ e \in Nat /\ e + 3 <= b
        BY <3>2
      <4> HIDE DEF b, e
      <4> QED BY ONLY <4>1
    <3> QED BY <3>1, <3>2, <3>3 DEF Behind, Ahead
  <2>8. EndOk(file, units, st, en, in', nal', Len(got))
    <3>1. ~in'.eof
      BY <1>1, <2>1, <2>3 DEF TrailOk
    <3> QED BY <1>1, <2>1, <2>6, <2>7, <3>1 DEF EndOk, TrailOk, k
  <2> QED BY <1>1, <1>3, <2>8, DecodeStep
<1> QED BY <1>2, <1>3

(* -------------------------------- the callers -------------------------------- *)

LEMMA DecodeReads ==
  ASSUME NEW st, NEW en, Laid(file, units, st, en), Reads(st, en), Decode
  PROVE  Laid(file, units, st, en)' /\ Reads(st, en)'
<1>1. /\ stage = "loop" /\ ~in.eof /\ stage' = "lead" /\ caller' = "decode" /\ nal' = <<>>
      /\ file' = file /\ units' = units /\ in' = in /\ location' = location
      /\ fresh' = fresh /\ got' = got
  BY DEF Decode, Begin
<1>2. LoopOk(file, units, st, en, in, fresh, Len(got))
  BY <1>1 DEF Reads, ReadOk
<1>3. LeadOk(file, units, st, en, in, <<>>, Len(got))
  BY <1>1, <1>2 DEF LoopOk, LeadOk
<1>4. LeadOk(file, units, st, en, in, nal, Len(got))'
  BY <1>1, <1>3
<1>5. Laid(file, units, st, en)'
  BY <1>1
<1>6. /\ Len(got') \in Nat /\ got' \in Seq(Seq(Byte)) /\ Len(got') <= Len(units')
      /\ \A k \in 1..Len(got') : got'[k] = units'[k]
  BY <1>1, GotTyped
<1> QED BY <1>1, <1>4, <1>5, <1>6 DEF Reads, ReadOk

\* The NAL unit that was read is the next of those written.
LEMMA DecodedReads ==
  ASSUME NEW st, NEW en, Laid(file, units, st, en), Reads(st, en), Decoded
  PROVE  Laid(file, units, st, en)' /\ Reads(st, en)'
<1>1. /\ stage = "end" /\ caller = "decode" /\ stage' = "loop" /\ caller' = caller
      /\ file' = file /\ units' = units /\ in' = in /\ location' = location
      /\ fresh' = TRUE /\ got' = Append(got, nal)
  BY DEF Decoded
<1> DEFINE g == Len(got)  k == g + 1
<1>2. EndOk(file, units, st, en, in, nal, g)
  BY <1>1 DEF Reads, ReadOk
<1>3. /\ g \in Nat /\ got \in Seq(Seq(Byte)) /\ \A j \in 1..g : got[j] = units[j]
  BY GotTyped
<1>4. k \in 1..Len(units) /\ nal = units[k]
  BY <1>2 DEF EndOk
<1>5. nal \in Seq(Byte)
  BY <1>4, UnitAt, UnitTyped
<1>6. /\ got' \in Seq(Seq(Byte)) /\ Len(got') = k /\ got'[k] = nal
      /\ \A j \in 1..g : got'[j] = got[j]
  BY <1>1, <1>3, <1>5
<1>7. \A j \in 1..k : got'[j] = units[j]
  <2>1. \A j \in 1..k : j \in 1..g \/ j = k
    BY <1>3
  <2> QED BY <1>3, <1>4, <1>6, <2>1
<1>8. LoopOk(file, units, st, en, in, TRUE, k)
  <2>1. k + 1 = g + 2
    BY <1>3
  <2>2. IF in.eof THEN k = Len(units)
        ELSE Standing(file, units, st, en, in, g + 2) /\ Behind(units, st, en, in, g + 2)
    BY <1>2 DEF EndOk
  <2> HIDE DEF k, g
  <2> QED BY <2>1, <2>2 DEF LoopOk
<1>9. LoopOk(file, units, st, en, in, fresh, Len(got))'
  <2> HIDE DEF k, g
  <2> QED BY <1>1, <1>6, <1>8
<1>10. Laid(file, units, st, en)'
  BY <1>1
<1>11. Len(got') \in Nat /\ Len(got') <= Len(units')
  BY <1>1, <1>3, <1>4, <1>6
<1>12. \A j \in 1..Len(got') : got'[j] = units'[j]
  BY <1>1, <1>6, <1>7
<1> QED BY <1>1, <1>6, <1>9, <1>10, <1>11, <1>12 DEF Reads, ReadOk

LEMMA IsNewPictureReads ==
  ASSUME NEW st, NEW en, Laid(file, units, st, en), Reads(st, en), IsNewPicture
  PROVE  Laid(file, units, st, en)' /\ Reads(st, en)'
<1>1. /\ stage = "loop" /\ ~in.eof /\ fresh /\ stage' = "lead" /\ caller' = "isNewPicture"
      /\ file' = file /\ units' = units /\ location' = in.at /\ fresh' = FALSE /\ got' = got
  BY DEF IsNewPicture, Begin
<1>2. LoopOk(file, units, st, en, in, fresh, Len(got))
  BY <1>1 DEF Reads, ReadOk
<1>3. Behind(units, st, en, in, Len(got) + 1)
  BY <1>1, <1>2 DEF LoopOk
<1>4. LookOk(units, st, en, "isNewPicture", in.at, FALSE, Len(got))
  BY <1>3 DEF LookOk, Behind
<1>5. LookOk(units, st, en, caller, location, fresh, Len(got))'
  BY <1>1, <1>4
<1>6. Laid(file, units, st, en)'
  BY <1>1
<1>7. /\ Len(got') \in Nat /\ got' \in Seq(Seq(Byte)) /\ Len(got') <= Len(units')
      /\ \A k \in 1..Len(got') : got'[k] = units'[k]
  BY <1>1, GotTyped
<1> QED BY <1>1, <1>5, <1>6, <1>7 DEF Reads, ReadOk

LEMMA LookFurtherReads ==
  ASSUME NEW st, NEW en, Laid(file, units, st, en), Reads(st, en), LookFurther
  PROVE  Laid(file, units, st, en)' /\ Reads(st, en)'
<1>1. /\ stage = "end" /\ caller # "decode" /\ stage' = "lead" /\ caller' = caller
      /\ file' = file /\ units' = units /\ location' = location /\ fresh' = fresh /\ got' = got
  BY DEF LookFurther, Begin
<1>2. Kept
  BY <1>1 DEF Kept
<1> QED BY <1>1, <1>2, LookStays

\* What a look-ahead comes back to lies before the next NAL unit.
LEMMA BackToAhead ==
  ASSUME NEW st, NEW en, Laid(file, units, st, en), Reads(st, en), stage = "end", caller # "decode"
  PROVE  /\ BackTo \in Nat /\ Ahead(units, st, en, BackTo, Len(got) + 1) /\ ~fresh
         /\ Standing(file, units, st, en, Restored(BackTo), Len(got) + 1)
         /\ Restored(BackTo).eof = FALSE
<1>1. LookOk(units, st, en, caller, location, fresh, Len(got))
  BY DEF Reads, ReadOk
<1>2. Ahead(units, st, en, BackTo, Len(got) + 1) /\ ~fresh
  BY <1>1 DEF LookOk, BackTo
<1>3. BackTo \in Nat
  BY <1>2, AheadTyped
<1> QED BY <1>2, <1>3, BackStands

LEMMA BackReads ==
  ASSUME NEW st, NEW en, Laid(file, units, st, en), Reads(st, en),
         SamePicture \/ EndNewAccessUnit
  PROVE  Laid(file, units, st, en)' /\ Reads(st, en)'
<1>1. /\ stage = "end" /\ caller # "decode" /\ in' = Restored(BackTo) /\ stage' = "loop"
      /\ caller' = caller /\ file' = file /\ units' = units /\ location' = location
      /\ fresh' = fresh /\ got' = got
  BY DEF SamePicture, EndNewAccessUnit
<1>2. /\ ~fresh /\ Restored(BackTo).eof = FALSE
      /\ Standing(file, units, st, en, Restored(BackTo), Len(got) + 1)
  BY <1>1, BackToAhead
<1>3. LoopOk(file, units, st, en, Restored(BackTo), fresh, Len(got))
  BY <1>2 DEF LoopOk
<1>4. LoopOk(file, units, st, en, in, fresh, Len(got))'
  BY <1>1, <1>3
<1>5. Laid(file, units, st, en)'
  BY <1>1
<1>6. /\ Len(got') \in Nat /\ got' \in Seq(Seq(Byte)) /\ Len(got') <= Len(units')
      /\ \A k \in 1..Len(got') : got'[k] = units'[k]
  BY <1>1, GotTyped
<1> QED BY <1>1, <1>4, <1>5, <1>6 DEF Reads, ReadOk

LEMMA NewPictureReads ==
  ASSUME NEW st, NEW en, Laid(file, units, st, en), Reads(st, en), NewPicture
  PROVE  Laid(file, units, st, en)' /\ Reads(st, en)'
<1>1. /\ stage = "end" /\ caller = "isNewPicture" /\ in' = Restored(BackTo) /\ location' = BackTo
      /\ stage' = "lead" /\ caller' = "isNewAccessUnit"
      /\ file' = file /\ units' = units /\ fresh' = fresh /\ got' = got
  BY DEF NewPicture, Begin
<1>2. BackTo \in Nat /\ Ahead(units, st, en, BackTo, Len(got) + 1) /\ ~fresh
  BY <1>1, BackToAhead
<1>3. LookOk(units, st, en, "isNewAccessUnit", BackTo, fresh, Len(got))
  BY <1>2 DEF LookOk
<1>4. LookOk(units, st, en, caller, location, fresh, Len(got))'
  BY <1>1, <1>3
<1>5. Laid(file, units, st, en)'
  BY <1>1
<1>6. /\ Len(got') \in Nat /\ got' \in Seq(Seq(Byte)) /\ Len(got') <= Len(units')
      /\ \A k \in 1..Len(got') : got'[k] = units'[k]
  BY <1>1, GotTyped
<1> QED BY <1>1, <1>4, <1>5, <1>6 DEF Reads, ReadOk

\* One more NAL unit, before anything is read.
LEMMA WriteUnitReads ==
  ASSUME NEW st, NEW en, Laid(file, units, st, en), Reads(st, en), NEW u \in Units,
         NEW useLongStartCode \in BOOLEAN, NEW zeros \in 0..MaxZeros,
         WriteUnit(u, useLongStartCode, zeros)
  PROVE  \E st2, en2 : Laid(file, units, st2, en2)' /\ Reads(st2, en2)'
<1>1. /\ stage = "write" /\ units' = Append(units, u)
      /\ file' = file \o [k \in 1..zeros |-> 0] \o (IF useLongStartCode THEN Long ELSE Short) \o u
      /\ stage' = stage /\ caller' = caller /\ in' = in /\ nal' = nal /\ location' = location
      /\ fresh' = fresh /\ got' = got
  BY DEF WriteUnit
<1>2. PICK s \in Nat : Extends(file, file', s, u)
  <2>1. file \in Seq(Byte) /\ zeros \in Nat
    BY UnitsAssumption DEF Laid
  <2> QED BY <1>1, <2>1, WriteExtends
<1>3. PICK st2, en2 : Laid(file', Append(units, u), st2, en2)
  BY <1>2, LaidFurther
<1>4. Laid(file, units, st2, en2)'
  BY <1>1, <1>3
<1>5. in = [at |-> 0, held |-> <<>>, eof |-> FALSE] /\ got = <<>> /\ ~fresh
  BY <1>1 DEF Reads, ReadOk
<1>6. /\ got' = <<>> /\ Len(got') = 0 /\ got' \in Seq(Seq(Byte)) /\ \A k \in 1..Len(got') : FALSE
  BY <1>1, <1>5
<1>7. Len(got') \in Nat /\ Len(got') <= Len(units')
  <2>1. Len(units') \in Nat
    BY <1>4 DEF Laid
  <2> QED BY <1>6, <2>1
<1>8. Reads(st2, en2)'
  BY <1>1, <1>5, <1>6, <1>7 DEF Reads, ReadOk
<1> QED BY <1>4, <1>8

LEMMA NextReads == Inv /\ [Next]_vars => Inv'
<1> SUFFICES ASSUME Inv, [Next]_vars
             PROVE  Inv'
  OBVIOUS
<1>1. PICK st, en : Laid(file, units, st, en) /\ Reads(st, en)
  BY DEF Inv
<1>2. ASSUME Laid(file, units, st, en)' /\ Reads(st, en)'
      PROVE  Inv'
  BY <1>2 DEF Inv
<1>3. CASE \E u \in Units, useLongStartCode \in BOOLEAN, zeros \in 0..MaxZeros :
             WriteUnit(u, useLongStartCode, zeros)
  BY <1>1, <1>3, WriteUnitReads DEF Inv
<1>4. CASE Open
  BY <1>1, <1>2, <1>4, OpenReads
<1>5. CASE LeadingZero
  BY <1>1, <1>2, <1>5, LeadingZeroReads
<1>6. CASE StartCode
  BY <1>1, <1>2, <1>6, StartCodeReads
<1>7. CASE BodyByte
  BY <1>1, <1>2, <1>7, BodyByteReads
<1>8. CASE EndBody
  BY <1>1, <1>2, <1>8, EndBodyReads
<1>9. CASE TrailingZero
  BY <1>1, <1>2, <1>9, TrailingZeroReads
<1>10. CASE EndTrail
  BY <1>1, <1>2, <1>10, EndTrailReads
<1>11. CASE Decode
  BY <1>1, <1>2, <1>11, DecodeReads
<1>12. CASE Decoded
  BY <1>1, <1>2, <1>12, DecodedReads
<1>13. CASE IsNewPicture
  BY <1>1, <1>2, <1>13, IsNewPictureReads
<1>14. CASE LookFurther
  BY <1>1, <1>2, <1>14, LookFurtherReads
<1>15. CASE SamePicture \/ EndNewAccessUnit
  BY <1>1, <1>2, <1>15, BackReads
<1>16. CASE NewPicture
  BY <1>1, <1>2, <1>16, NewPictureReads
<1>17. CASE UNCHANGED vars
  BY <1>17 DEF Inv, Reads, vars
<1> QED BY <1>3, <1>4, <1>5, <1>6, <1>7, <1>8, <1>9, <1>10, <1>11, <1>12, <1>13, <1>14, <1>15,
           <1>16, <1>17 DEF Next

(* ---------------------------------- theorems ---------------------------------- *)

\* The file is the NAL units behind their start codes, and the reader of
\* InputByteStream stands in it where its stage says, whatever it has looked ahead at.
THEOREM AnnexBInvariant == Spec => []Inv
<1>1. Init => Inv
  BY InitReads
<1>2. Inv /\ [Next]_vars => Inv'
  BY NextReads
<1> QED BY <1>1, <1>2, PTL DEF Spec

\* DecApp::decode reads the NAL units that were written, in their order, whatever
\* isNewPicture and isNewAccessUnit looked at before, and ends only when all were read.
THEOREM ReadInOrderHolds == Spec => []ReadInOrder
<1>1. Inv => Len(got) <= Len(units) /\ \A k \in 1..Len(got) : got[k] = units[k]
  BY GotTyped DEF Inv
<1>2. Inv /\ stage = "loop" /\ in.eof => got = units
  <2> SUFFICES ASSUME Inv, stage = "loop", in.eof
               PROVE  got = units
    OBVIOUS
  <2>1. PICK st, en : Laid(file, units, st, en) /\ Reads(st, en)
    BY DEF Inv
  <2>2. Len(got) = Len(units)
    BY <2>1 DEF Reads, ReadOk, LoopOk
  <2>3. got \in Seq(Seq(Byte)) /\ \A k \in 1..Len(got) : got[k] = units[k]
    BY <2>1, GotTyped
  <2>4. units \in Seq(Seq(Byte))
    <3>1. units \in Seq(Units)
      BY <2>1 DEF Laid
    <3>2. \A k \in 1..Len(units) : units[k] \in Seq(Byte)
      <4> TAKE k \in 1..Len(units)
      <4>1. units[k] \in Units
        BY <3>1
      <4> QED BY <4>1, UnitTyped
    <3> QED BY <3>1, <3>2
  <2> QED BY <2>2, <2>3, <2>4, SeqEqual
<1>3. Inv => ReadInOrder
  BY <1>1, <1>2 DEF ReadInOrder
<1> QED BY <1>3, AnnexBInvariant, PTL
=============================================================================
