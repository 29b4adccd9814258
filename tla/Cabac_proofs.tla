----------------------------- MODULE Cabac_proofs -----------------------------
(* Whatever the syntax gives the encoder to code, its registers keep their     *)
(* ranges, every carry finds a byte that can take it, only bytes are written,  *)
(* and the decoder reads back what was written and not a byte more.            *)
(*                                                                             *)
(* The registers are bounded by an inductive invariant of the encoder (IInv).  *)
(* That the decoder undoes the encoder is shown by the number that the bytes   *)
(* are: every symbol selects an interval inside the one before (Moves), the    *)
(* bytes of the closed sub-stream are a number in the last one (Wrote,         *)
(* Message), and the value register of the decoder is that number seen from    *)
(* the interval of what it has read (Stands), so that every comparison of a    *)
(* reader is one of the number with a part of its interval.                    *)
EXTENDS Cabac, SequenceTheorems, WellFoundedInduction, TLAPS

(* --------------------------- arithmetic of the code --------------------------- *)

\* The shifts of the coder, as the provers need them.
LEMMA Powers ==
  /\ Pow2(0) = 1 /\ Pow2(1) = 2 /\ Pow2(2) = 4 /\ Pow2(3) = 8
  /\ Pow2(4) = 16 /\ Pow2(5) = 32 /\ Pow2(6) = 64 /\ Pow2(7) = 128
  /\ Pow2(8) = 256 /\ Pow2(9) = 512 /\ Pow2(10) = 1024 /\ Pow2(11) = 2048
  /\ Pow2(12) = 4096 /\ Pow2(13) = 8192 /\ Pow2(14) = 16384 /\ Pow2(15) = 32768
  /\ Pow2(16) = 65536 /\ Pow2(17) = 131072 /\ Pow2(18) = 262144 /\ Pow2(19) = 524288
  /\ Pow2(20) = 1048576 /\ Pow2(21) = 2097152 /\ Pow2(22) = 4194304 /\ Pow2(23) = 8388608
  /\ Pow2(24) = 16777216 /\ Pow2(25) = 33554432 /\ Pow2(26) = 67108864 /\ Pow2(27) = 134217728
  /\ Pow2(28) = 268435456
  BY DEF Pow2

\* The masks of the two estimates round down.
LEMMA Masked0Floor ==
  ASSUME NEW y \in Nat
  PROVE  \E q \in Nat : Masked0(y) = 32 * q /\ 32 * q <= y /\ y <= 32 * q + 31
<1>1. y \div 32 \in Nat /\ y = 32 * (y \div 32) + (y % 32) /\ y % 32 \in 0..31
  OBVIOUS
<1> QED BY <1>1 DEF Masked0

\* Masked1 as well.
LEMMA Masked1Floor ==
  ASSUME NEW y \in Nat
  PROVE  \E q \in Nat : Masked1(y) = 2 * q /\ 2 * q <= y /\ y <= 2 * q + 1
<1>1. y \div 2 \in Nat /\ y = 2 * (y \div 2) + (y % 2) /\ y % 2 \in 0..1
  OBVIOUS
<1> QED BY <1>1 DEF Masked1

\* One update of an estimate, at each of its rates, keeps it within 15 bits.
LEMMA Decay0 ==
  ASSUME NEW x \in 0..MaxProb, NEW k \in {4, 8, 16, 32}
  PROVE  /\ Masked0(x \div k) \in Nat
         /\ Masked0(x \div k) <= x
         /\ Masked0(MaxProb \div k) \in Nat
         /\ x - Masked0(x \div k) + Masked0(MaxProb \div k) <= MaxProb
<1>0. x \in Nat /\ x <= 32767 /\ MaxProb = 32767
  <2>1. MaxProb \in Nat BY DEF MaxProb
  <2>2. x \in Nat /\ x <= MaxProb BY <2>1
  <2> QED BY <2>2 DEF MaxProb
<1>1. CASE k = 4
  <2> DEFINE y == x \div 4
  <2>1. 4 * y <= x /\ x <= 4 * y + 3 /\ y \in Nat /\ 32767 \div 4 = 8191
    BY <1>0
  <2>2. PICK q \in Nat : Masked0(y) = 32 * q /\ 32 * q <= y /\ y <= 32 * q + 31
    BY <2>1, Masked0Floor
  <2>3. Masked0(8191) = 8160
    BY DEF Masked0
  <2> HIDE DEF y
  <2>4. x - 32 * q + 8160 <= 32767 /\ x - 32 * q >= 0
    <3>1. y <= 8191
      BY <1>0, <2>1
    <3> QED BY <1>0, <2>1, <2>2, <3>1
  <2>5. Masked0(x \div k) = 32 * q /\ Masked0(MaxProb \div k) = 8160
    BY <1>0, <1>1, <2>1, <2>2, <2>3 DEF y
  <2> QED BY <1>0, <2>4, <2>5, SMTT(20)
<1>2. CASE k = 8
  <2> DEFINE y == x \div 8
  <2>1. 8 * y <= x /\ x <= 8 * y + 7 /\ y \in Nat /\ 32767 \div 8 = 4095
    BY <1>0, SMTT(20)
  <2>2. PICK q \in Nat : Masked0(y) = 32 * q /\ 32 * q <= y /\ y <= 32 * q + 31
    BY <2>1, Masked0Floor
  <2>3. Masked0(4095) = 4064
    BY DEF Masked0
  <2> HIDE DEF y
  <2>4. x - 32 * q + 4064 <= 32767 /\ x - 32 * q >= 0
    <3>1. y <= 4095
      BY <1>0, <2>1
    <3> QED BY <1>0, <2>1, <2>2, <3>1
  <2>5. Masked0(x \div k) = 32 * q /\ Masked0(MaxProb \div k) = 4064
    BY <1>0, <1>2, <2>1, <2>2, <2>3 DEF y
  <2> QED BY <1>0, <2>4, <2>5, SMTT(20)
<1>3. CASE k = 16
  <2> DEFINE y == x \div 16
  <2>1. 16 * y <= x /\ x <= 16 * y + 15 /\ y \in Nat /\ 32767 \div 16 = 2047
    BY <1>0, SMTT(20)
  <2>2. PICK q \in Nat : Masked0(y) = 32 * q /\ 32 * q <= y /\ y <= 32 * q + 31
    BY <2>1, Masked0Floor
  <2>3. Masked0(2047) = 2016
    BY DEF Masked0
  <2> HIDE DEF y
  <2>4. x - 32 * q + 2016 <= 32767 /\ x - 32 * q >= 0
    <3>1. y <= 2047
      BY <1>0, <2>1
    <3> QED BY <1>0, <2>1, <2>2, <3>1
  <2>5. Masked0(x \div k) = 32 * q /\ Masked0(MaxProb \div k) = 2016
    BY <1>0, <1>3, <2>1, <2>2, <2>3 DEF y
  <2> QED BY <1>0, <2>4, <2>5
<1>4. CASE k = 32
  <2> DEFINE y == x \div 32
  <2>1. 32 * y <= x /\ x <= 32 * y + 31 /\ y \in Nat /\ 32767 \div 32 = 1023
    BY <1>0, SMTT(20)
  <2>2. PICK q \in Nat : Masked0(y) = 32 * q /\ 32 * q <= y /\ y <= 32 * q + 31
    BY <2>1, Masked0Floor
  <2>3. Masked0(1023) = 992
    BY DEF Masked0
  <2> HIDE DEF y
  <2>4. x - 32 * q + 992 <= 32767 /\ x - 32 * q >= 0
    <3>1. y <= 1023
      BY <1>0, <2>1
    <3> QED BY <1>0, <2>1, <2>2, <3>1
  <2>5. Masked0(x \div k) = 32 * q /\ Masked0(MaxProb \div k) = 992
    BY <1>0, <1>4, <2>1, <2>2, <2>3 DEF y
  <2> QED BY <1>0, <2>4, <2>5
<1> QED BY <1>1, <1>2, <1>3, <1>4

\* And an update of the other estimate, at each of its rates.
LEMMA Decay1 ==
  ASSUME NEW x \in 0..MaxProb, NEW k \in {32, 64, 128, 256, 512}
  PROVE  /\ Masked1(x \div k) \in Nat
         /\ Masked1(x \div k) <= x
         /\ Masked1(MaxProb \div k) \in Nat
         /\ x - Masked1(x \div k) + Masked1(MaxProb \div k) <= MaxProb
<1>0. x \in Nat /\ x <= 32767 /\ MaxProb = 32767
  <2>1. MaxProb \in Nat BY DEF MaxProb
  <2>2. x \in Nat /\ x <= MaxProb BY <2>1
  <2> QED BY <2>2 DEF MaxProb
<1>1. CASE k = 32
  <2> DEFINE y == x \div 32
  <2>1. 32 * y <= x /\ x <= 32 * y + 31 /\ y \in Nat /\ 32767 \div 32 = 1023
    BY <1>0
  <2>2. PICK q \in Nat : Masked1(y) = 2 * q /\ 2 * q <= y /\ y <= 2 * q + 1
    BY <2>1, Masked1Floor
  <2>3. Masked1(1023) = 1022
    BY DEF Masked1
  <2> HIDE DEF y
  <2>4. x - 2 * q + 1022 <= 32767 /\ x - 2 * q >= 0
    <3>1. y <= 1023
      BY <1>0, <2>1
    <3> QED BY <1>0, <2>1, <2>2, <3>1
  <2>5. Masked1(x \div k) = 2 * q /\ Masked1(MaxProb \div k) = 1022
    BY <1>0, <1>1, <2>1, <2>2, <2>3 DEF y
  <2> QED BY <1>0, <2>4, <2>5
<1>2. CASE k = 64
  <2> DEFINE y == x \div 64
  <2>1. 64 * y <= x /\ x <= 64 * y + 63 /\ y \in Nat /\ 32767 \div 64 = 511
    BY <1>0
  <2>2. PICK q \in Nat : Masked1(y) = 2 * q /\ 2 * q <= y /\ y <= 2 * q + 1
    BY <2>1, Masked1Floor
  <2>3. Masked1(511) = 510
    BY DEF Masked1
  <2> HIDE DEF y
  <2>4. x - 2 * q + 510 <= 32767 /\ x - 2 * q >= 0
    <3>1. y <= 511
      BY <1>0, <2>1
    <3> QED BY <1>0, <2>1, <2>2, <3>1
  <2>5. Masked1(x \div k) = 2 * q /\ Masked1(MaxProb \div k) = 510
    BY <1>0, <1>2, <2>1, <2>2, <2>3 DEF y
  <2> QED BY <1>0, <2>4, <2>5
<1>3. CASE k = 128
  <2> DEFINE y == x \div 128
  <2>1. 128 * y <= x /\ x <= 128 * y + 127 /\ y \in Nat /\ 32767 \div 128 = 255
    BY <1>0, SMTT(20)
  <2>2. PICK q \in Nat : Masked1(y) = 2 * q /\ 2 * q <= y /\ y <= 2 * q + 1
    BY <2>1, Masked1Floor
  <2>3. Masked1(255) = 254
    BY DEF Masked1
  <2> HIDE DEF y
  <2>4. x - 2 * q + 254 <= 32767 /\ x - 2 * q >= 0
    <3>1. y <= 255
      BY <1>0, <2>1
    <3> QED BY <1>0, <2>1, <2>2, <3>1
  <2>5. Masked1(x \div k) = 2 * q /\ Masked1(MaxProb \div k) = 254
    BY <1>0, <1>3, <2>1, <2>2, <2>3 DEF y
  <2> QED BY <1>0, <2>4, <2>5, SMTT(20)
<1>4. CASE k = 256
  <2> DEFINE y == x \div 256
  <2>1. 256 * y <= x /\ x <= 256 * y + 255 /\ y \in Nat /\ 32767 \div 256 = 127
    BY <1>0
  <2>2. PICK q \in Nat : Masked1(y) = 2 * q /\ 2 * q <= y /\ y <= 2 * q + 1
    BY <2>1, Masked1Floor
  <2>3. Masked1(127) = 126
    BY DEF Masked1
  <2> HIDE DEF y
  <2>4. x - 2 * q + 126 <= 32767 /\ x - 2 * q >= 0
    <3>1. y <= 127
      BY <1>0, <2>1
    <3> QED BY <1>0, <2>1, <2>2, <3>1
  <2>5. Masked1(x \div k) = 2 * q /\ Masked1(MaxProb \div k) = 126
    BY <1>0, <1>4, <2>1, <2>2, <2>3 DEF y
  <2> QED BY <1>0, <2>4, <2>5
<1>5. CASE k = 512
  <2> DEFINE y == x \div 512
  <2>1. 512 * y <= x /\ x <= 512 * y + 511 /\ y \in Nat /\ 32767 \div 512 = 63
    BY <1>0, SMTT(20)
  <2>2. PICK q \in Nat : Masked1(y) = 2 * q /\ 2 * q <= y /\ y <= 2 * q + 1
    BY <2>1, Masked1Floor
  <2>3. Masked1(63) = 62
    BY DEF Masked1
  <2> HIDE DEF y
  <2>4. x - 2 * q + 62 <= 32767 /\ x - 2 * q >= 0
    <3>1. y <= 63
      BY <1>0, <2>1
    <3> QED BY <1>0, <2>1, <2>2, <3>1
  <2>5. Masked1(x \div k) = 2 * q /\ Masked1(MaxProb \div k) = 62
    BY <1>0, <1>5, <2>1, <2>2, <2>3 DEF y
  <2> QED BY <1>0, <2>4, <2>5
<1> QED BY <1>1, <1>2, <1>3, <1>4, <1>5

\* A context model keeps its 15 bits (BinProbModel_Std::update).
LEMMA UpdateTyped ==
  ASSUME NEW m \in ModelType, NEW c \in Ctx, NEW bin \in 0..1
  PROVE  Update(m, c, bin) \in ModelType
<1> DEFINE k0 == Pow2(Rate0(c))
           k1 == Pow2(Rate1(c))
           a0 == Masked0(m[1] \div k0)
           b0 == Masked0(MaxProb \div k0)
           a1 == Masked1(m[2] \div k1)
           b1 == Masked1(MaxProb \div k1)
<1>1. k0 \in {4, 8, 16, 32} /\ k1 \in {32, 64, 128, 256, 512}
  <2>1. Window[c] \in 0..15 /\ Rate1(c) <= 9
    BY CabacAssumption
  <2>2. Rate0(c) \in {2, 3, 4, 5} /\ Rate1(c) \in {5, 6, 7, 8, 9}
    BY <2>1 DEF Rate0, Rate1
  <2> QED BY <2>2, Powers
<1>2. MaxProb \in Nat
  BY DEF MaxProb
<1>3. m[1] \in 0..MaxProb /\ m[2] \in 0..MaxProb
  BY DEF ModelType
<1>4. Update(m, c, bin) = <<m[1] - a0 + bin * b0, m[2] - a1 + bin * b1>>
  BY DEF Update
<1> HIDE DEF k0, k1
<1>5. a0 \in Nat /\ a0 <= m[1] /\ b0 \in Nat /\ m[1] - a0 + b0 <= MaxProb
  <2>1. m[1] \in 0..MaxProb /\ k0 \in {4, 8, 16, 32}
    BY <1>1, <1>3
  <2> QED BY <2>1, Decay0 DEF a0, b0
<1>6. a1 \in Nat /\ a1 <= m[2] /\ b1 \in Nat /\ m[2] - a1 + b1 <= MaxProb
  <2>1. m[2] \in 0..MaxProb /\ k1 \in {32, 64, 128, 256, 512}
    BY <1>1, <1>3
  <2> QED BY <2>1, Decay1 DEF a1, b1
<1> HIDE DEF a0, b0, a1, b1
<1>7. ASSUME NEW x \in 0..MaxProb, NEW a \in Nat, NEW b \in Nat, a <= x, x - a + b <= MaxProb
      PROVE  x - a + bin * b \in 0..MaxProb
  <2>1. CASE bin = 0 BY <1>2, <1>7, <2>1
  <2>2. CASE bin = 1 BY <1>2, <1>7, <2>2
  <2> QED BY <2>1, <2>2
<1>8. m[1] - a0 + bin * b0 \in 0..MaxProb
  BY <1>3, <1>5, <1>7, Zenon
<1>9. m[2] - a1 + bin * b1 \in 0..MaxProb
  BY <1>3, <1>6, <1>7, Zenon
<1> QED BY <1>4, <1>8, <1>9 DEF ModelType

\* The less probable part is at least 4 and leaves at least 128 to the other, so
\* that one shift renormalises it (getRenormBitsRange).
LpsValues == 4..236
MpsRests == 128..506

\* The sub-range of the least probable bin, and the rest of the range.
LEMMA LpsBounds ==
  ASSUME NEW m \in ModelType, NEW range \in Range9
  PROVE  Mps(m) \in 0..1 /\ Lps(m, range) \in LpsValues /\ range - Lps(m, range) \in MpsRests
<1>0. range \in 256..510
  BY DEF Range9
<1>1. State(m) \in 0..255 /\ Mps(m) \in 0..1
  <2>1. m[1] \in 0..MaxProb /\ m[2] \in 0..MaxProb
    BY DEF ModelType
  <2> MaxProb \in Nat
    BY DEF MaxProb
  <2>2. m[1] + m[2] \in Nat /\ m[1] + m[2] <= 2 * MaxProb
    BY <2>1
  <2>3. m[1] + m[2] <= 65534
    BY <2>2 DEF MaxProb
  <2>4. State(m) \in Nat /\ State(m) <= 255
    BY <2>2, <2>3 DEF State
  <2> QED BY <2>4 DEF Mps
<1> DEFINE q == IF Mps(m) = 1 THEN 255 - State(m) ELSE State(m)
<1>2. q \in 0..127
  BY <1>1 DEF Mps
<1>3. q \div 4 \in 0..31 /\ range \div 32 \in 8..15
  BY <1>0, <1>2
<1>4. Lps(m, range) = ((q \div 4) * (range \div 32)) \div 2 + 4
  BY DEF Lps
<1> HIDE DEF q
<1>5. ASSUME NEW a \in 0..31, NEW b \in 8..15
      PROVE  a * b \in 0..465 /\ a * b <= 31 * b
  <2>1. CASE b = 8 BY <2>1
  <2>2. CASE b = 9 BY <2>2
  <2>3. CASE b = 10 BY <2>3
  <2>4. CASE b = 11 BY <2>4
  <2>5. CASE b = 12 BY <2>5
  <2>6. CASE b = 13 BY <2>6
  <2>7. CASE b = 14 BY <2>7
  <2>8. CASE b = 15 BY <2>8
  <2> QED BY <2>1, <2>2, <2>3, <2>4, <2>5, <2>6, <2>7, <2>8
<1>6. (q \div 4) * (range \div 32) \in 0..465 /\ (q \div 4) * (range \div 32) <= 31 * (range \div 32)
  BY <1>3, <1>5
<1> DEFINE p == (q \div 4) * (range \div 32)
<1>7. p \in 0..465 /\ p <= 31 * (range \div 32) /\ Lps(m, range) = p \div 2 + 4
  BY <1>4, <1>6
<1> HIDE DEF p
<1>8. p \div 2 + 4 \in 4..236 /\ range - (p \div 2 + 4) \in 128..506
  BY <1>0, <1>7
<1> QED BY <1>1, <1>7, <1>8 DEF LpsValues, MpsRests

\* The table renormalises every less probable range to 256 and above.
LEMMA RenormFits ==
  ASSUME NEW lps \in 4..236
  PROVE  RenormBits(lps) \in 1..6 /\ lps * Pow2(RenormBits(lps)) \in 256..510
<1>1. CASE lps \in 4..7
  <2>1. RenormBits(lps) = 6 BY <1>1 DEF RenormBits, RenormTable
  <2> QED BY <1>1, <2>1, Powers
<1>2. CASE lps \in 8..15
  <2>1. RenormBits(lps) = 5 BY <1>2 DEF RenormBits, RenormTable
  <2> QED BY <1>2, <2>1, Powers
<1>3. CASE lps \in 16..31
  <2>1. RenormBits(lps) = 4 BY <1>3 DEF RenormBits, RenormTable
  <2> QED BY <1>3, <2>1, Powers
<1>4. CASE lps \in 32..63
  <2>1. RenormBits(lps) = 3 BY <1>4 DEF RenormBits, RenormTable
  <2> QED BY <1>4, <2>1, Powers
<1>5. CASE lps \in 64..127
  <2>1. RenormBits(lps) = 2 BY <1>5 DEF RenormBits, RenormTable
  <2> QED BY <1>5, <2>1, Powers
<1>6. CASE lps \in 128..236
  <2>1. RenormBits(lps) = 1 BY <1>6 DEF RenormBits, RenormTable
  <2> QED BY <1>6, <2>1, Powers
<1> QED BY <1>1, <1>2, <1>3, <1>4, <1>5, <1>6

(* ------------------------------ the low register ------------------------------ *)

\* The shift of the low register with that of the symbol.
LEMMA PowersAdd ==
  ASSUME NEW k \in 9..20, NEW n \in 1..8
  PROVE  Pow2(k + n) = Pow2(k) * Pow2(n) /\ Pow2(k) \in Nat /\ Pow2(n) \in Nat
<1>1. Pow2(k) \in Nat
  BY Powers
<1>2. CASE n = 1
  BY <1>1, <1>2, Powers
<1>3. CASE n = 2
  BY <1>1, <1>3, Powers
<1>4. CASE n = 3
  BY <1>1, <1>4, Powers
<1>5. CASE n = 4
  BY <1>1, <1>5, Powers
<1>6. CASE n = 5
  BY <1>1, <1>6, Powers
<1>7. CASE n = 6
  BY <1>1, <1>7, Powers
<1>8. CASE n = 7
  BY <1>1, <1>8, Powers
<1>9. CASE n = 8
  BY <1>1, <1>9, Powers
<1> QED BY <1>1, <1>2, <1>3, <1>4, <1>5, <1>6, <1>7, <1>8, <1>9

\* Shifting by n bits scales the interval of the encoder: its new part lies within
\* the old one.
Shifts == 1..8

\* A symbol that stays inside its range keeps the interval below the same bound.
LEMMA ShiftScales ==
  ASSUME NEW low \in Nat, NEW r \in Range9, NEW s \in Range9, NEW n \in Shifts,
         NEW b \in BitsLeft, NEW add \in Nat, add + s <= r * Pow2(n),
         NEW w \in {1, 2}, low + r <= w * Pow2(32 - b)
  PROVE  low * Pow2(n) + add \in Nat /\ low * Pow2(n) + add + s <= w * Pow2(32 - (b - n))
<1> DEFINE p == Pow2(n)
           k == Pow2(32 - b)
<1>1. p \in {2, 4, 8, 16, 32, 64, 128, 256} /\ k \in Nat /\ Pow2(32 - (b - n)) = k * p
  <2>1. 32 - b \in 9..20 /\ 32 - (b - n) = (32 - b) + n
    BY DEF BitsLeft, Shifts
  <2>2. p \in {2, 4, 8, 16, 32, 64, 128, 256}
    BY Powers DEF Shifts
  <2> QED BY <2>1, <2>2, PowersAdd DEF Shifts
<1>2. /\ add + s <= r * p /\ low + r <= w * k
      /\ r \in 256..510 /\ s \in 256..510
  BY DEF Range9
<1> HIDE DEF p, k
<1>3. ASSUME NEW q \in {2, 4, 8, 16, 32, 64, 128, 256}, q = p
      PROVE  low * q + add \in Nat /\ low * q + add + s <= w * (k * q)
  <2>1. CASE q = 2 /\ w = 1 BY <1>1, <1>2, <1>3, <2>1
  <2>2. CASE q = 4 /\ w = 1 BY <1>1, <1>2, <1>3, <2>2
  <2>3. CASE q = 8 /\ w = 1 BY <1>1, <1>2, <1>3, <2>3
  <2>4. CASE q = 16 /\ w = 1 BY <1>1, <1>2, <1>3, <2>4
  <2>5. CASE q = 32 /\ w = 1 BY <1>1, <1>2, <1>3, <2>5
  <2>6. CASE q = 64 /\ w = 1 BY <1>1, <1>2, <1>3, <2>6
  <2>7. CASE q = 128 /\ w = 1 BY <1>1, <1>2, <1>3, <2>7
  <2>8. CASE q = 256 /\ w = 1 BY <1>1, <1>2, <1>3, <2>8
  <2>9. CASE q = 2 /\ w = 2 BY <1>1, <1>2, <1>3, <2>9
  <2>10. CASE q = 4 /\ w = 2 BY <1>1, <1>2, <1>3, <2>10
  <2>11. CASE q = 8 /\ w = 2 BY <1>1, <1>2, <1>3, <2>11
  <2>12. CASE q = 16 /\ w = 2 BY <1>1, <1>2, <1>3, <2>12
  <2>13. CASE q = 32 /\ w = 2 BY <1>1, <1>2, <1>3, <2>13
  <2>14. CASE q = 64 /\ w = 2 BY <1>1, <1>2, <1>3, <2>14
  <2>15. CASE q = 128 /\ w = 2 BY <1>1, <1>2, <1>3, <2>15
  <2>16. CASE q = 256 /\ w = 2 BY <1>1, <1>2, <1>3, <2>16
  <2> QED BY <2>1, <2>2, <2>3, <2>4, <2>5, <2>6, <2>7, <2>8, <2>9, <2>10, <2>11, <2>12, <2>13, <2>14, <2>15, <2>16, Zenon
<1>4. low * p + add \in Nat /\ low * p + add + s <= w * (k * p)
  BY <1>1, <1>3
<1>5. low * p + add + s <= w * Pow2(32 - (b - n))
  BY <1>1, <1>4
<1> QED BY <1>4, <1>5 DEF p

\* The byte that leaves the register, and what stays in it.
Lead(low, k) == low \div Pow2(k)
Rest(low, k) == low % Pow2(k)

Widths == {256, 512}
ByteShifts == 13..20

\* The byte that leaves the low register, and what is left of it.
LEMMA LeadBounds ==
  ASSUME NEW low \in Nat, NEW r \in Range9, NEW w \in Widths, NEW k \in ByteShifts,
         low + r <= w * Pow2(k)
  PROVE  /\ Lead(low, k) \in 0..w - 1
         /\ Rest(low, k) \in Nat
         /\ Rest(low, k) + r <= 2 * Pow2(k)
         /\ Lead(low, k) = w - 1 => Rest(low, k) + r <= Pow2(k)
<1>0. r \in 256..510 /\ w \in {256, 512} /\ k \in 13..20
  BY DEF Range9, Widths, ByteShifts
<1>1. CASE k = 13
  <2>1. Pow2(k) = 8192
    BY <1>1, Powers
  <2>2. /\ low \div 8192 \in Nat /\ low % 8192 \in Nat /\ low % 8192 < 8192
        /\ low = 8192 * (low \div 8192) + (low % 8192)
    OBVIOUS
  <2>3. low + r <= w * 8192
    BY <1>0, <2>1
  <2> QED BY <1>0, <2>1, <2>2, <2>3 DEF Lead, Rest
<1>2. CASE k = 14
  <2>1. Pow2(k) = 16384
    BY <1>2, Powers
  <2>2. /\ low \div 16384 \in Nat /\ low % 16384 \in Nat /\ low % 16384 < 16384
        /\ low = 16384 * (low \div 16384) + (low % 16384)
    OBVIOUS
  <2>3. low + r <= w * 16384
    BY <1>0, <2>1
  <2> QED BY <1>0, <2>1, <2>2, <2>3 DEF Lead, Rest
<1>3. CASE k = 15
  <2>1. Pow2(k) = 32768
    BY <1>3, Powers
  <2>2. /\ low \div 32768 \in Nat /\ low % 32768 \in Nat /\ low % 32768 < 32768
        /\ low = 32768 * (low \div 32768) + (low % 32768)
    OBVIOUS
  <2>3. low + r <= w * 32768
    BY <1>0, <2>1
  <2> QED BY <1>0, <2>1, <2>2, <2>3 DEF Lead, Rest
<1>4. CASE k = 16
  <2>1. Pow2(k) = 65536
    BY <1>4, Powers
  <2>2. /\ low \div 65536 \in Nat /\ low % 65536 \in Nat /\ low % 65536 < 65536
        /\ low = 65536 * (low \div 65536) + (low % 65536)
    OBVIOUS
  <2>3. low + r <= w * 65536
    BY <1>0, <2>1
  <2> QED BY <1>0, <2>1, <2>2, <2>3 DEF Lead, Rest
<1>5. CASE k = 17
  <2>1. Pow2(k) = 131072
    BY <1>5, Powers
  <2>2. /\ low \div 131072 \in Nat /\ low % 131072 \in Nat /\ low % 131072 < 131072
        /\ low = 131072 * (low \div 131072) + (low % 131072)
    OBVIOUS
  <2>3. low + r <= w * 131072
    BY <1>0, <2>1
  <2> QED BY <1>0, <2>1, <2>2, <2>3 DEF Lead, Rest
<1>6. CASE k = 18
  <2>1. Pow2(k) = 262144
    BY <1>6, Powers
  <2>2. /\ low \div 262144 \in Nat /\ low % 262144 \in Nat /\ low % 262144 < 262144
        /\ low = 262144 * (low \div 262144) + (low % 262144)
    OBVIOUS
  <2>3. low + r <= w * 262144
    BY <1>0, <2>1
  <2> QED BY <1>0, <2>1, <2>2, <2>3 DEF Lead, Rest
<1>7. CASE k = 19
  <2>1. Pow2(k) = 524288
    BY <1>7, Powers
  <2>2. /\ low \div 524288 \in Nat /\ low % 524288 \in Nat /\ low % 524288 < 524288
        /\ low = 524288 * (low \div 524288) + (low % 524288)
    OBVIOUS
  <2>3. low + r <= w * 524288
    BY <1>0, <2>1
  <2> QED BY <1>0, <2>1, <2>2, <2>3 DEF Lead, Rest
<1>8. CASE k = 20
  <2>1. Pow2(k) = 1048576
    BY <1>8, Powers
  <2>2. /\ low \div 1048576 \in Nat /\ low % 1048576 \in Nat /\ low % 1048576 < 1048576
        /\ low = 1048576 * (low \div 1048576) + (low % 1048576)
    OBVIOUS
  <2>3. low + r <= w * 1048576
    BY <1>0, <2>1
  <2> QED BY <1>0, <2>1, <2>2, <2>3 DEF Lead, Rest
<1> QED BY <1>0, <1>1, <1>2, <1>3, <1>4, <1>5, <1>6, <1>7, <1>8

(* --------------------------------- the encoder --------------------------------- *)

\* The register before a byte is taken from it: four to eleven bits are left.
FewLeft == 4..11
FullType ==
  [low : Nat, range : Range9, bufferedByte : Byte, numBufferedBytes : Nat,
   bitsLeft : FewLeft, out : Seq(Byte)]

\* writeOut() settles only bytes, and leaves a register that fits again.
LEMMA WriteOutFits ==
  ASSUME NEW e \in FullType, Absorbs(e)
  PROVE  WriteOut(e) \in EncoderType /\ Absorbs(WriteOut(e))
<1> DEFINE k == 24 - e.bitsLeft
           lead == Lead(e.low, k)
           rem == Rest(e.low, k)
           w == IF e.numBufferedBytes = 0 \/ e.bufferedByte = 255 THEN 256 ELSE 512
           kept == [e EXCEPT !.bitsLeft = @ + 8, !.low = rem]
<1>12. e.low \in Nat /\ e.range \in 256..510
  BY DEF FullType, Range9
<1>13. e.bufferedByte \in 0..255
  BY DEF FullType, Byte
<1>14. e.bitsLeft \in 4..11
  BY DEF FullType, FewLeft
<1>15. e.numBufferedBytes \in Nat
  BY DEF FullType
<1>1. /\ e.low \in Nat /\ e.range \in 256..510 /\ e.bufferedByte \in 0..255
      /\ e.numBufferedBytes \in Nat /\ e.bitsLeft \in 4..11 /\ e.out \in Seq(Byte)
  BY <1>12, <1>13, <1>14, <1>15 DEF FullType
<1>2. k \in 13..20 /\ 32 - e.bitsLeft = k + 8 /\ 32 - (e.bitsLeft + 8) = k
  BY <1>1
<1>3. Pow2(k) \in Nat /\ Pow2(k + 8) = 256 * Pow2(k)
  BY <1>2, PowersAdd, Powers
<1>4. e.low + e.range <= w * Pow2(k)
  <2>1. Pow2(32 - e.bitsLeft) = 256 * Pow2(k)
    BY <1>2, <1>3
  <2> QED BY <1>1, <1>3, <2>1 DEF Absorbs
<1>11. w \in {256, 512} /\ (w = 256 <=> e.numBufferedBytes = 0 \/ e.bufferedByte = 255)
  OBVIOUS
<1> HIDE DEF w, k, lead, rem
<1>5. /\ lead \in 0..w - 1 /\ rem \in Nat /\ rem + e.range <= 2 * Pow2(k)
      /\ lead = w - 1 => rem + e.range <= Pow2(k)
  <2>1. e.low \in Nat /\ e.range \in Range9 /\ k \in ByteShifts /\ w \in Widths
    BY <1>2, <1>11, <1>12 DEF Range9, ByteShifts, Widths
  <2>2. /\ Lead(e.low, k) \in 0..w - 1 /\ Rest(e.low, k) \in Nat
        /\ Rest(e.low, k) + e.range <= 2 * Pow2(k)
        /\ Lead(e.low, k) = w - 1 => Rest(e.low, k) + e.range <= Pow2(k)
    BY <1>4, <2>1, LeadBounds, Zenon
  <2> QED BY <2>2 DEF lead, rem
<1>6. /\ kept.low = rem /\ kept.range = e.range /\ kept.bufferedByte = e.bufferedByte
      /\ kept.numBufferedBytes = e.numBufferedBytes /\ kept.bitsLeft = e.bitsLeft + 8
      /\ kept.out = e.out
      /\ kept \in EncoderType
  <2> DEFINE b == e.bitsLeft + 8
  <2>1. b \in BitsLeft /\ rem \in Nat
    BY <1>5, <1>14 DEF BitsLeft
  <2> HIDE DEF b
  <2>2. [e EXCEPT !.bitsLeft = b, !.low = rem] \in EncoderType
    BY <2>1 DEF FullType, EncoderType
  <2>3. kept = [e EXCEPT !.bitsLeft = b, !.low = rem]
    BY DEF b
  <2>4. kept \in EncoderType
    BY <2>2, <2>3
  <2> QED BY <2>3, <2>4 DEF FullType, b
<1>7. WriteOut(e) =
        CASE lead = 255 -> [kept EXCEPT !.numBufferedBytes = @ + 1]
          [] lead # 255 /\ e.numBufferedBytes = 0 ->
               [kept EXCEPT !.numBufferedBytes = 1, !.bufferedByte = lead]
          [] OTHER ->
               [kept EXCEPT !.numBufferedBytes = 1, !.bufferedByte = lead % 256,
                  !.out = @ \o <<e.bufferedByte + (lead \div 256)>>
                            \o [i \in 1..e.numBufferedBytes - 1 |-> (255 + (lead \div 256)) % 256]]
  BY DEF WriteOut, Lead, Rest, lead, rem, k, kept
<1> HIDE DEF kept
<1>8. CASE lead = 255
  <2> DEFINE f == [kept EXCEPT !.numBufferedBytes = @ + 1]
  <2>1. /\ f \in EncoderType /\ f.low = rem /\ f.range = e.range /\ f.bitsLeft = e.bitsLeft + 8
        /\ f.bufferedByte = e.bufferedByte /\ f.numBufferedBytes = e.numBufferedBytes + 1
    BY <1>1, <1>6 DEF EncoderType
  <2>2. Pow2(32 - f.bitsLeft) = Pow2(k)
    BY <1>2, <2>1
  <2>3. f.bufferedByte = 255 => rem + e.range <= Pow2(k)
    BY <1>5, <1>8, <1>11, <2>1
  <2>4. Absorbs(f)
    BY <1>1, <1>5, <2>1, <2>2, <2>3 DEF Absorbs
  <2> QED BY <1>7, <1>8, <2>1, <2>4
<1>9. CASE lead # 255 /\ e.numBufferedBytes = 0
  <2> DEFINE f == [kept EXCEPT !.numBufferedBytes = 1, !.bufferedByte = lead]
  <2>1. lead \in 0..254
    BY <1>5, <1>9, <1>11
  <2>2. /\ f \in EncoderType /\ f.low = rem /\ f.range = e.range /\ f.bitsLeft = e.bitsLeft + 8
        /\ f.bufferedByte = lead /\ f.numBufferedBytes = 1
    <3>1. lead \in Byte
      BY <2>1 DEF Byte
    <3> QED BY <1>6, <3>1 DEF EncoderType
  <2>3. Pow2(32 - f.bitsLeft) = Pow2(k)
    BY <1>2, <2>2
  <2>4. Absorbs(f)
    BY <1>5, <2>1, <2>2, <2>3 DEF Absorbs
  <2> QED BY <1>7, <1>9, <2>2, <2>4
<1>10. CASE lead # 255 /\ e.numBufferedBytes # 0
  <2> DEFINE settled == <<e.bufferedByte + (lead \div 256)>>
             run == [i \in 1..e.numBufferedBytes - 1 |-> (255 + (lead \div 256)) % 256]
             f == [kept EXCEPT !.numBufferedBytes = 1, !.bufferedByte = lead % 256,
                      !.out = @ \o settled \o run]
  <2>1. lead \in 0..511 /\ lead < w /\ lead \div 256 \in 0..1 /\ (255 + (lead \div 256)) % 256 \in 0..255
    BY <1>5, <1>11
  <2>2. e.bufferedByte + (lead \div 256) \in 0..255
    <3> DEFINE carry == lead \div 256
    <3>3. carry \in 0..1 /\ (lead < 256 => carry = 0)
      BY <2>1
    <3> HIDE DEF carry
    <3>1. CASE e.bufferedByte = 255
      <4>1. lead < 256 BY <1>11, <2>1, <3>1
      <4> QED BY <3>1, <3>3, <4>1 DEF carry
    <3>2. CASE e.bufferedByte # 255
      <4>1. e.bufferedByte + carry \in 0..255
        BY <1>13, <3>2, <3>3
      <4> QED BY <4>1 DEF carry
    <3> QED BY <3>1, <3>2
  <2>3. settled \in Seq(Byte)
    <3>1. e.bufferedByte + (lead \div 256) \in Byte
      BY <2>2 DEF Byte
    <3> QED BY <3>1
  <2>4. run \in Seq(Byte)
    <3>1. (255 + (lead \div 256)) % 256 \in Byte
      BY <2>1 DEF Byte
    <3> QED BY <1>1, <3>1
  <2>5. e.out \o settled \o run \in Seq(Byte)
    BY <1>1, <2>3, <2>4
  <2>6. lead % 256 \in 0..255 /\ (lead % 256 = 255 => lead = w - 1)
    BY <1>10, <1>11, <2>1
  <2> HIDE DEF settled, run
  <2>7. /\ f \in EncoderType /\ f.low = rem /\ f.range = e.range /\ f.bitsLeft = e.bitsLeft + 8
        /\ f.bufferedByte = lead % 256 /\ f.numBufferedBytes = 1
    <3>1. lead % 256 \in Byte
      BY <2>6 DEF Byte
    <3> QED BY <1>6, <2>5, <3>1, Zenon DEF EncoderType
  <2>8. Pow2(32 - f.bitsLeft) = Pow2(k)
    BY <1>2, <2>7
  <2>9. Absorbs(f)
    BY <1>5, <2>6, <2>7, <2>8 DEF Absorbs
  <2> QED BY <1>7, <1>10, <2>7, <2>9 DEF settled, run
<1> QED BY <1>8, <1>9, <1>10

\* The registers moved up by n bits, before a byte goes out.
Shifted(e, n, add, range) ==
  [e EXCEPT !.low = @ * Pow2(n) + add, !.range = range, !.bitsLeft = @ - n]

\* The registers after the shift.
LEMMA ShiftAbsorbs ==
  ASSUME NEW e \in EncoderType, Absorbs(e), NEW n \in Shifts, NEW add \in Nat,
         NEW range \in Range9, add + range <= e.range * Pow2(n)
  PROVE  /\ Shifted(e, n, add, range).low = e.low * Pow2(n) + add
         /\ Shifted(e, n, add, range).low \in Nat
         /\ Shifted(e, n, add, range).range = range
         /\ Shifted(e, n, add, range).bitsLeft = e.bitsLeft - n
         /\ Shifted(e, n, add, range).bitsLeft \in 4..22
         /\ Shifted(e, n, add, range).bufferedByte = e.bufferedByte
         /\ Shifted(e, n, add, range).numBufferedBytes = e.numBufferedBytes
         /\ Shifted(e, n, add, range).out = e.out
         /\ Absorbs(Shifted(e, n, add, range))
         /\ IF Shifted(e, n, add, range).bitsLeft < 12 THEN Shifted(e, n, add, range) \in FullType
            ELSE Shifted(e, n, add, range) \in EncoderType
<1> DEFINE b == e.bitsLeft - n
           low == e.low * Pow2(n) + add
           f == [e EXCEPT !.low = low, !.range = range, !.bitsLeft = b]
<1>1. e.low \in Nat /\ e.range \in 256..510 /\ range \in 256..510
  BY DEF EncoderType, Range9
<1>2. e.bitsLeft \in 12..23
  BY DEF EncoderType, BitsLeft
<1>3. b \in 4..22
  BY <1>2 DEF Shifts
<1>4. ASSUME NEW w \in {1, 2}, e.low + e.range <= w * Pow2(32 - e.bitsLeft)
      PROVE  low \in Nat /\ low + range <= w * Pow2(32 - b)
  <2>1. e.low \in Nat /\ e.range \in Range9 /\ e.bitsLeft \in BitsLeft
    BY DEF EncoderType
  <2> QED BY <1>4, <2>1, ShiftScales
<1>5. Pow2(32 - b) \in Nat /\ Pow2(32 - e.bitsLeft) \in Nat
  <2>1. 32 - b \in 10..28 /\ 32 - e.bitsLeft \in 9..20
    BY <1>2, <1>3
  <2> QED BY <2>1, Powers
<1>6. Shifted(e, n, add, range) = f
  BY DEF Shifted
<1>7. /\ low \in Nat
      /\ IF e.numBufferedBytes = 0 \/ e.bufferedByte = 255
         THEN low + range <= Pow2(32 - b)
         ELSE low + range <= 2 * Pow2(32 - b)
  <2> HIDE DEF b, low
  <2>1. CASE e.numBufferedBytes = 0 \/ e.bufferedByte = 255
    <3>1. e.low + e.range <= 1 * Pow2(32 - e.bitsLeft)
      BY <1>1, <1>5, <2>1 DEF Absorbs
    <3>2. low \in Nat /\ low + range <= 1 * Pow2(32 - b)
      BY <1>4, <3>1
    <3> QED BY <1>1, <1>5, <2>1, <3>2
  <2>2. CASE ~(e.numBufferedBytes = 0 \/ e.bufferedByte = 255)
    <3>1. e.low + e.range <= 2 * Pow2(32 - e.bitsLeft)
      BY <1>1, <1>5, <2>2 DEF Absorbs
    <3>2. low \in Nat /\ low + range <= 2 * Pow2(32 - b)
      BY <1>4, <3>1
    <3> QED BY <2>2, <3>2
  <2> QED BY <2>1, <2>2
<1>8. /\ f.low = low /\ f.range = range /\ f.bitsLeft = b /\ f.out = e.out
      /\ f.bufferedByte = e.bufferedByte /\ f.numBufferedBytes = e.numBufferedBytes
  BY DEF EncoderType
<1>12. low = e.low * Pow2(n) + add /\ b = e.bitsLeft - n
  OBVIOUS
<1> HIDE DEF b, low
<1>9. Absorbs(f)
  BY <1>7, <1>8 DEF Absorbs
<1>10. ASSUME b < 12 PROVE f \in FullType
  <2>1. b \in FewLeft
    BY <1>3, <1>10 DEF FewLeft
  <2> QED BY <1>7, <2>1 DEF EncoderType, FullType
<1>11. ASSUME ~(b < 12) PROVE f \in EncoderType
  <2>1. b \in BitsLeft
    BY <1>3, <1>11 DEF BitsLeft
  <2> QED BY <1>7, <2>1 DEF EncoderType
<1> HIDE DEF f
<1> QED BY <1>3, <1>6, <1>7, <1>8, <1>9, <1>10, <1>11, <1>12

\* Every step of the encoder is a shift with a part of the interval: the register
\* and the bytes held back fit again.
LEMMA PutFits ==
  ASSUME NEW e \in EncoderType, Absorbs(e), NEW n \in Shifts, NEW add \in Nat,
         NEW range \in Range9, add + range <= e.range * Pow2(n)
  PROVE  Put(e, n, add, range) \in EncoderType /\ Absorbs(Put(e, n, add, range))
<1> DEFINE f == Shifted(e, n, add, range)
<1>1. Put(e, n, add, range) = IF f.bitsLeft < 12 THEN WriteOut(f) ELSE f
  BY DEF Put, Shifted
<1>2. Absorbs(f) /\ IF f.bitsLeft < 12 THEN f \in FullType ELSE f \in EncoderType
  BY ShiftAbsorbs
<1> HIDE DEF f
<1> QED BY <1>1, <1>2, WriteOutFits

\* The range alone shrinks: a more probable bin, or a terminating bin of 0, that
\* needs no renormalisation.
LEMMA NarrowFits ==
  ASSUME NEW e \in EncoderType, Absorbs(e), NEW range \in Range9, range <= e.range
  PROVE  [e EXCEPT !.range = range] \in EncoderType /\ Absorbs([e EXCEPT !.range = range])
<1> DEFINE f == [e EXCEPT !.range = range]
<1>1. f \in EncoderType
  BY DEF EncoderType
<1>2. /\ f.low = e.low /\ f.range = range /\ f.bitsLeft = e.bitsLeft
      /\ f.bufferedByte = e.bufferedByte /\ f.numBufferedBytes = e.numBufferedBytes
  BY DEF EncoderType
<1>3. e.low \in Nat /\ e.range \in 256..510 /\ range \in 256..510
  BY DEF EncoderType, Range9
<1>4. Pow2(32 - e.bitsLeft) \in Nat
  <2>1. 32 - e.bitsLeft \in 9..20
    BY DEF EncoderType, BitsLeft
  <2> QED BY <2>1, Powers
<1>5. e.low + range <= e.low + e.range
  BY <1>3
<1>6. CASE e.numBufferedBytes = 0 \/ e.bufferedByte = 255
  <2>1. e.low + range <= Pow2(32 - e.bitsLeft)
    BY <1>3, <1>4, <1>5, <1>6 DEF Absorbs
  <2> QED BY <1>1, <1>2, <1>6, <2>1 DEF Absorbs
<1>7. CASE ~(e.numBufferedBytes = 0 \/ e.bufferedByte = 255)
  <2>1. e.low + range <= 2 * Pow2(32 - e.bitsLeft)
    BY <1>3, <1>4, <1>5, <1>7 DEF Absorbs
  <2> QED BY <1>1, <1>2, <1>7, <2>1 DEF Absorbs
<1> QED BY <1>6, <1>7

\* The bins of TBinEncoder::encodeBin.
LEMMA PutBinFits ==
  ASSUME NEW e \in EncoderType, Absorbs(e), NEW m \in ModelType, NEW bin \in 0..1
  PROVE  PutBin(e, m, bin) \in EncoderType /\ Absorbs(PutBin(e, m, bin))
<1> DEFINE lps == Lps(m, e.range)
           rest == e.range - lps
           n == RenormBits(lps)
<1>1. e.range \in 256..510
  BY DEF EncoderType, Range9
<1>2. lps \in 4..236 /\ rest \in 128..506 /\ rest + lps = e.range
  <2>1. e.range \in Range9
    BY DEF EncoderType
  <2>2. lps \in LpsValues /\ rest \in MpsRests
    BY <2>1, LpsBounds, Zenon
  <2> HIDE DEF lps
  <2>3. lps \in 4..236 /\ rest \in 128..506
    BY <2>2 DEF LpsValues, MpsRests
  <2> QED BY <1>1, <2>3
<1>3. n \in 1..6 /\ lps * Pow2(n) \in 256..510
  BY <1>2, RenormFits, Zenon
<1>4. PutBin(e, m, bin) =
        CASE bin # Mps(m) -> Put(e, n, rest * Pow2(n), lps * Pow2(n))
          [] bin = Mps(m) /\ rest < 256 -> Put(e, 1, 0, 2 * rest)
          [] OTHER -> [e EXCEPT !.range = rest]
  BY DEF PutBin
<1> HIDE DEF lps, rest, n
<1>5. CASE bin # Mps(m)
  <2>1. Pow2(n) \in {2, 4, 8, 16, 32, 64}
    BY <1>3, Powers
  <2>2. rest * Pow2(n) \in Nat /\ rest * Pow2(n) + lps * Pow2(n) <= e.range * Pow2(n)
    <3> DEFINE q == Pow2(n)
    <3> HIDE DEF q
    <3>1. rest * q \in Nat /\ rest * q + lps * q <= e.range * q
      <4>1. q \in {2, 4, 8, 16, 32, 64}
        BY <2>1 DEF q
      <4> QED BY <1>1, <1>2, <4>1
    <3> QED BY <3>1 DEF q
  <2>3. n \in Shifts /\ lps * Pow2(n) \in Range9
    BY <1>3 DEF Shifts, Range9
  <2> QED BY <1>4, <1>5, <2>2, <2>3, PutFits
<1>6. CASE bin = Mps(m) /\ rest < 256
  <2>1. 1 \in Shifts /\ 0 \in Nat /\ 2 * rest \in Range9 /\ 0 + 2 * rest <= e.range * Pow2(1)
    BY <1>1, <1>2, <1>6, Powers DEF Shifts, Range9
  <2> QED BY <1>4, <1>6, <2>1, PutFits
<1>7. CASE bin = Mps(m) /\ ~(rest < 256)
  <2>1. rest \in Range9 /\ rest <= e.range
    BY <1>1, <1>2, <1>7 DEF Range9
  <2> QED BY <1>4, <1>7, <2>1, NarrowFits
<1> QED BY <1>5, <1>6, <1>7

\* A bypass bin.
LEMMA PutBinEPFits ==
  ASSUME NEW e \in EncoderType, Absorbs(e), NEW bin \in 0..1
  PROVE  PutBinEP(e, bin) \in EncoderType /\ Absorbs(PutBinEP(e, bin))
<1>1. e.range \in 256..510 /\ e.range \in Range9
  BY DEF EncoderType, Range9
<1>2. 1 \in Shifts /\ bin * e.range \in Nat /\ bin * e.range + e.range <= e.range * Pow2(1)
  <2>1. CASE bin = 0 BY <1>1, <2>1, Powers DEF Shifts
  <2>2. CASE bin = 1 BY <1>1, <2>2, Powers DEF Shifts
  <2> QED BY <2>1, <2>2
<1> QED BY <1>1, <1>2, PutFits DEF PutBinEP

\* A chunk of a bypass string takes at most all of the interval.
BinCounts == 0..32
Chunks == 1..4

\* One chunk of a bypass string keeps the registers in their ranges.
LEMMA PutChunkFits ==
  ASSUME NEW e \in EncoderType, Absorbs(e), NEW bins \in Nat, NEW n \in BinCounts, NEW i \in Chunks
  PROVE  PutChunk(e, bins, n, i) \in EncoderType /\ Absorbs(PutChunk(e, bins, n, i))
<1> DEFINE c == ChunkBins(n, i)
           pat == Pattern(bins, n, i)
<1>1. e.range \in 256..510 /\ e.range \in Range9
  BY DEF EncoderType, Range9
<1>2. CASE 8 * (i - 1) >= n
  BY <1>2 DEF PutChunk
<1>3. CASE ~(8 * (i - 1) >= n)
  <2>1. c \in 1..8 /\ Below(n, i) \in 0..24
    BY <1>3 DEF ChunkBins, Below, BinCounts, Chunks
  <2>2. Pow2(c) \in {2, 4, 8, 16, 32, 64, 128, 256}
    <3> HIDE DEF c
    <3> QED BY <2>1, Powers
  <2>3. bins \div Pow2(Below(n, i)) \in Nat
    <3> DEFINE d == Pow2(Below(n, i))
    <3>1. d \in Nat \ {0}
      BY <2>1, Powers
    <3> HIDE DEF d
    <3>2. bins \div d \in Nat
      BY <3>1
    <3> QED BY <3>2 DEF d
  <2>4. pat \in Nat /\ pat + 1 <= Pow2(c)
    <3> DEFINE a == bins \div Pow2(Below(n, i))
               q == Pow2(c)
    <3>1. a \in Nat /\ q \in {2, 4, 8, 16, 32, 64, 128, 256} /\ pat = a % q
      BY <2>2, <2>3 DEF Pattern
    <3> HIDE DEF a, q, pat
    <3>2. pat \in Nat /\ pat + 1 <= q
      BY <3>1
    <3> QED BY <3>2 DEF q
  <2>5. e.range * pat \in Nat /\ e.range * pat + e.range <= e.range * Pow2(c)
    <3> DEFINE q == Pow2(c)
    <3>1. q \in {2, 4, 8, 16, 32, 64, 128, 256} /\ pat \in Nat /\ pat + 1 <= q
      BY <2>2, <2>4
    <3> HIDE DEF q, pat
    <3>6. ASSUME NEW x \in Nat, NEW z \in Nat
          PROVE  z * x \in Nat /\ z * x + z = z * (x + 1)
      OBVIOUS
    <3>2. e.range * pat \in Nat /\ e.range * pat + e.range = e.range * (pat + 1)
      <4>1. e.range \in Nat /\ pat \in Nat
        BY <1>1, <3>1
      <4> QED BY <3>6, <4>1, Zenon
    <3>3. ASSUME NEW x \in Nat, NEW y \in Nat, x <= y, NEW z \in Nat
          PROVE  z * x <= z * y
      <4> DEFINE d == y - x
      <4>1. d \in Nat /\ y = x + d
        BY <3>3
      <4> HIDE DEF d
      <4>2. z * d \in Nat /\ z * (x + d) = z * x + z * d /\ z * x \in Nat
        BY <4>1
      <4> QED BY <4>1, <4>2
    <3>4. e.range \in Nat /\ pat + 1 \in Nat /\ q \in Nat /\ pat + 1 <= q
      BY <1>1, <3>1
    <3>5. e.range * (pat + 1) <= e.range * q
      BY <3>3, <3>4, Zenon
    <3> QED BY <3>2, <3>5 DEF q
  <2>6. PutChunk(e, bins, n, i) = Put(e, c, e.range * pat, e.range)
    BY <1>3 DEF PutChunk
  <2> HIDE DEF c, pat
  <2> QED BY <1>1, <2>1, <2>5, <2>6, PutFits DEF Shifts
<1> QED BY <1>2, <1>3

\* So does a whole string.
LEMMA PutBinsEPFits ==
  ASSUME NEW e \in EncoderType, Absorbs(e), NEW bins \in Nat, NEW n \in BinCounts
  PROVE  PutBinsEP(e, bins, n) \in EncoderType /\ Absorbs(PutBinsEP(e, bins, n))
<1> DEFINE e1 == PutChunk(e, bins, n, 1)
           e2 == PutChunk(e1, bins, n, 2)
           e3 == PutChunk(e2, bins, n, 3)
           e4 == PutChunk(e3, bins, n, 4)
<1>0. 1 \in Chunks /\ 2 \in Chunks /\ 3 \in Chunks /\ 4 \in Chunks
  BY DEF Chunks
<1>1. e1 \in EncoderType /\ Absorbs(e1)
  BY <1>0, PutChunkFits
<1> HIDE DEF e1
<1>2. e2 \in EncoderType /\ Absorbs(e2)
  BY <1>0, <1>1, PutChunkFits
<1> HIDE DEF e2
<1>3. e3 \in EncoderType /\ Absorbs(e3)
  BY <1>0, <1>2, PutChunkFits
<1> HIDE DEF e3
<1>4. e4 \in EncoderType /\ Absorbs(e4)
  BY <1>0, <1>3, PutChunkFits
<1> QED BY <1>4 DEF PutBinsEP, e1, e2, e3

\* A terminating bin.
LEMMA PutBinTrmFits ==
  ASSUME NEW e \in EncoderType, Absorbs(e), NEW bin \in 0..1
  PROVE  PutBinTrm(e, bin) \in EncoderType /\ Absorbs(PutBinTrm(e, bin))
<1> DEFINE r == e.range - 2
<1>1. e.range \in 256..510 /\ r \in 254..508 /\ r + 2 = e.range
  <2>1. e.range \in Range9
    BY DEF EncoderType
  <2>2. e.range \in 256..510
    BY <2>1 DEF Range9
  <2> QED BY <2>2
<1>2. PutBinTrm(e, bin) =
        CASE bin = 1 -> Put(e, 7, r * Pow2(7), 2 * Pow2(7))
          [] bin = 0 /\ r >= 256 -> [e EXCEPT !.range = r]
          [] OTHER -> Put(e, 1, 0, 2 * r)
  BY DEF PutBinTrm
<1> HIDE DEF r
<1>3. CASE bin = 1
  <2>1. /\ 7 \in Shifts /\ r * Pow2(7) \in Nat /\ 2 * Pow2(7) \in Range9
        /\ r * Pow2(7) + 2 * Pow2(7) <= e.range * Pow2(7)
    BY <1>1, Powers DEF Shifts, Range9
  <2> QED BY <1>2, <1>3, <2>1, PutFits
<1>4. CASE bin = 0 /\ r >= 256
  <2>1. r \in Range9 /\ r <= e.range
    BY <1>1, <1>4 DEF Range9
  <2>2. PutBinTrm(e, bin) = [e EXCEPT !.range = r]
    BY <1>2, <1>4
  <2> QED BY <2>1, <2>2, NarrowFits
<1>5. CASE bin = 0 /\ ~(r >= 256)
  <2>1. /\ 1 \in Shifts /\ 0 \in Nat /\ 2 * r \in Range9 /\ 0 + 2 * r <= e.range * Pow2(1)
    BY <1>1, <1>5, Powers DEF Shifts, Range9
  <2>2. PutBinTrm(e, bin) = Put(e, 1, 0, 2 * r)
    BY <1>2, <1>5
  <2> QED BY <2>1, <2>2, PutFits
<1> QED BY <1>3, <1>4, <1>5

(* ------------------------------- powers of two -------------------------------- *)

\* A set of naturals that is not empty has a least member.
LEMMA LeastNumber ==
  ASSUME NEW T, T \subseteq Nat, T # {}
  PROVE  \E least \in T : \A n \in T : least <= n
<1> DEFINE less == OpToRel(<, Nat)
<1>1. IsWellFoundedOn(less, Nat)
  BY NatLessThanWellFounded, Zenon
<1>2. \A x, y \in Nat : <<y, x>> \in less <=> y < x
  BY DEF OpToRel
<1> HIDE DEF less
<1>3. PICK least \in T : \A y \in T : ~ (<<y, least>> \in less)
  BY <1>1, WFMin
<1>4. ASSUME NEW n \in T PROVE least <= n
  <2>1. least \in Nat /\ n \in Nat /\ ~ (<<n, least>> \in less)
    BY <1>3
  <2>2. ~(n < least)
    BY <2>1, <1>2
  <2> QED BY <2>1, <2>2
<1> QED BY <1>4

\* A set that holds 0 and every successor of its numbers holds them all.
LEMMA SetInduction ==
  ASSUME NEW S, 0 \in S, \A n \in Nat : n \in S => n + 1 \in S
  PROVE  Nat \subseteq S
<1> SUFFICES ASSUME NEW k \in Nat, k \notin S PROVE FALSE
  OBVIOUS
<1> DEFINE T == Nat \ S
<1>1. PICK least \in T : \A n \in T : least <= n
  <2>1. T \subseteq Nat /\ T # {}
    OBVIOUS
  <2> HIDE DEF T
  <2> QED BY <2>1, LeastNumber
<1>2. least \in Nat /\ least # 0
  OBVIOUS
<1>3. least - 1 \in Nat /\ least - 1 \notin T
  BY <1>1, <1>2
<1>4. least - 1 \in S
  BY <1>3
<1> QED BY <1>2, <1>3, <1>4

\* Each is twice the one before, as far as the coder's shifts reach.
LEMMA PowerDoubles ==
  ASSUME NEW n \in 0..31
  PROVE  Pow2(n + 1) = 2 * Pow2(n) /\ Pow2(n) \in Nat \ {0}
<1>1. Pow2(29) = 536870912 /\ Pow2(30) = 1073741824 /\ Pow2(31) = 2147483648
      /\ Pow2(32) = 4294967296
  BY DEF Pow2
<1>2. CASE n <= 8
  BY <1>2, Powers
<1>3. CASE n > 8 /\ n <= 16
  BY <1>3, Powers
<1>4. CASE n > 16 /\ n <= 24
  BY <1>4, Powers
<1>5. CASE n > 24
  BY <1>1, <1>5, Powers
<1> QED BY <1>2, <1>3, <1>4, <1>5

\* Every shift of the code is a positive number.
LEMMA PowerTyped ==
  ASSUME NEW n \in 0..32
  PROVE  Pow2(n) \in Nat \ {0}
<1>1. CASE n \in 0..31
  BY <1>1, PowerDoubles
<1>2. CASE n = 32
  <2>1. Pow2(31 + 1) = 2 * Pow2(31) /\ Pow2(31) \in Nat \ {0}
    BY PowerDoubles
  <2> QED BY <1>2, <2>1
<1> QED BY <1>1, <1>2

\* Two shifts are one shift by their sum.
LEMMA PowerSum ==
  ASSUME NEW a \in 0..32, NEW b \in 0..32, a + b <= 32
  PROVE  Pow2(a + b) = Pow2(a) * Pow2(b)
<1>1. \A n \in 0..32 : Pow2(n) \in Nat \ {0}
  BY PowerTyped
<1> DEFINE S == {k \in Nat : a + k <= 32 => Pow2(a + k) = Pow2(a) * Pow2(k)}
<1>2. 0 \in S
  BY <1>1, Powers
<1>3. ASSUME NEW k \in Nat, k \in S PROVE k + 1 \in S
  <2> SUFFICES ASSUME a + (k + 1) <= 32 PROVE Pow2(a + (k + 1)) = Pow2(a) * Pow2(k + 1)
    OBVIOUS
  <2>1. a + k \in 0..31 /\ k \in 0..31 /\ a + (k + 1) = (a + k) + 1
    OBVIOUS
  <2>2. Pow2((a + k) + 1) = 2 * Pow2(a + k) /\ Pow2(k + 1) = 2 * Pow2(k)
    BY <2>1, PowerDoubles
  <2>3. Pow2(a + k) = Pow2(a) * Pow2(k)
    BY <1>3, <2>1
  <2>4. Pow2(a) \in Nat /\ Pow2(k) \in Nat
    BY <1>1, <2>1
  <2> DEFINE u == Pow2(a)
             v == Pow2(k)
  <2> HIDE DEF u, v
  <2>5. 2 * (u * v) = u * (2 * v)
    BY <2>4 DEF u, v
  <2> QED BY <2>1, <2>2, <2>3, <2>5 DEF u, v
<1> HIDE DEF S
<1>4. Nat \subseteq S
  BY <1>2, <1>3, SetInduction
<1> QED BY <1>1, <1>4 DEF S

\* Products of naturals grow with their factors.
LEMMA TimesMonotonic ==
  ASSUME NEW a \in Nat, NEW b \in Nat, NEW c \in Nat, a <= b
  PROVE  a * c <= b * c /\ a * c \in Nat /\ b * c \in Nat
<1> DEFINE d == b - a
<1>1. d \in Nat /\ b = a + d
  OBVIOUS
<1> HIDE DEF d
<1>2. d * c \in Nat /\ (a + d) * c = a * c + d * c /\ a * c \in Nat
  BY <1>1
<1> QED BY <1>1, <1>2

\* They grow by the other factor at least.
LEMMA TimesStrict ==
  ASSUME NEW a \in Nat, NEW b \in Nat, NEW c \in Nat \ {0}, a < b
  PROVE  a * c < b * c /\ a * c + c <= b * c
<1> DEFINE d == b - (a + 1)
<1>1. d \in Nat /\ b = a + 1 + d
  OBVIOUS
<1> HIDE DEF d
<1>2. d * c \in Nat /\ (a + 1 + d) * c = a * c + c + d * c /\ a * c \in Nat
  BY <1>1
<1> QED BY <1>1, <1>2

\* A product of positive numbers is positive.
LEMMA TimesPositive ==
  ASSUME NEW a \in Nat \ {0}, NEW b \in Nat \ {0}
  PROVE  a * b \in Nat \ {0}
<1> DEFINE c == b - 1
<1>1. c \in Nat /\ b = c + 1
  OBVIOUS
<1> HIDE DEF c
<1>2. a * (c + 1) = a * c + a /\ a * c \in Nat
  BY <1>1
<1> QED BY <1>1, <1>2

\* A longer shift is a larger number.
LEMMA PowerGrows ==
  ASSUME NEW a \in 0..32, NEW b \in 0..32, a < b
  PROVE  Pow2(a) < Pow2(b)
<1> DEFINE k == b - a - 1
<1>1. k \in 0..31 /\ k \in 0..32 /\ k + 1 \in 0..32 /\ a + (k + 1) = b /\ a + (k + 1) <= 32
  OBVIOUS
<1> HIDE DEF k
<1>2. Pow2(b) = Pow2(a) * Pow2(k + 1) /\ Pow2(k + 1) = 2 * Pow2(k)
  BY <1>1, PowerSum, PowerDoubles
<1> DEFINE u == Pow2(a)
           v == Pow2(k)
<1>3. u \in Nat \ {0} /\ v \in Nat \ {0}
  BY <1>1, PowerTyped
<1> HIDE DEF u, v
<1>4. u * v \in Nat \ {0} /\ u <= u * v
  <2>1. v = 1 \/ (1 < v /\ 1 * u < v * u)
    BY <1>3, TimesStrict
  <2>2. 1 * u = u /\ v * u = u * v
    BY <1>3
  <2> QED BY <1>3, <2>1, <2>2, TimesPositive
<1>5. u * (2 * v) = 2 * (u * v)
  BY <1>3
<1>6. u < u * (2 * v)
  <2> DEFINE w == u * v
  <2>1. w \in Nat /\ u <= w /\ u \in Nat \ {0} /\ u * (2 * v) = 2 * w
    BY <1>3, <1>4, <1>5
  <2> HIDE DEF w
  <2> QED BY <2>1
<1> QED BY <1>2, <1>6 DEF u, v

\* A quotient and a remainder are the only ones.
LEMMA DivUnique ==
  ASSUME NEW a \in Nat, NEW d \in Nat \ {0}, NEW q \in Nat, NEW r \in Nat, r < d, a = q * d + r
  PROVE  a \div d = q /\ a % d = r
<1> DEFINE h == a \div d
           l == a % d
<1>1. h \in Nat /\ l \in Nat /\ l < d /\ a = h * d + l
  <2>1. a = d * (a \div d) + (a % d) /\ a \div d \in Nat /\ a % d \in Nat /\ a % d < d
    OBVIOUS
  <2> QED BY <2>1
<1> HIDE DEF h, l
<1>2. ~(h < q)
  <2> SUFFICES ASSUME h < q PROVE FALSE
    OBVIOUS
  <2>1. h * d + d <= q * d
    BY <1>1, TimesStrict
  <2>2. h * d \in Nat /\ q * d \in Nat
    BY <1>1
  <2> QED BY <1>1, <2>1, <2>2
<1>3. ~(q < h)
  <2> SUFFICES ASSUME q < h PROVE FALSE
    OBVIOUS
  <2>1. q * d + d <= h * d
    BY <1>1, TimesStrict
  <2>2. h * d \in Nat /\ q * d \in Nat
    BY <1>1
  <2> QED BY <1>1, <2>1, <2>2
<1>4. h = q
  BY <1>1, <1>2, <1>3
<1>5. l = r
  <2>1. q * d \in Nat
    OBVIOUS
  <2> QED BY <1>1, <1>4, <2>1
<1> QED BY <1>4, <1>5 DEF h, l

\* a, and the digits of a below d.
LEMMA DivSplit ==
  ASSUME NEW a \in Nat, NEW d \in Nat \ {0}
  PROVE  a \div d \in Nat /\ a % d \in Nat /\ a % d < d /\ a = (a \div d) * d + (a % d)
<1>1. a = d * (a \div d) + (a % d) /\ a \div d \in Nat /\ a % d \in Nat /\ a % d < d
  OBVIOUS
<1> DEFINE h == a \div d
<1>2. h \in Nat
  BY <1>1
<1> HIDE DEF h
<1>3. d * h = h * d
  BY <1>2
<1> QED BY <1>1, <1>3 DEF h

(* ----------------------------- the two prefixes ------------------------------ *)

\* Below the escape the prefix is shorter than its maximum and brackets the code.
LEMMA PrefixBrackets ==
  ASSUME NEW max \in 0..17, NEW code \in Nat, ~(code >= Pow2(max) - 1),
         NEW p, p = PrefixLength(code, max)
  PROVE  /\ p \in 0..max /\ p < max
         /\ Pow2(p) - 1 <= code /\ code <= Pow2(p + 1) - 2
<1>1. \A k \in 0..18 : Pow2(k) \in Nat
  BY Powers
<1> DEFINE Fits(k) == Pow2(k) - 1 <= code /\ code <= Pow2(k + 1) - 2
<1>2. \E k \in 0..max : Fits(k)
  <2> SUFFICES ASSUME \A k \in 0..max : ~Fits(k) PROVE FALSE
    OBVIOUS
  <2> HIDE DEF Fits
  <2>1. \A k \in 0..17 : k <= max => (Fits(k) <=> Pow2(k) - 1 <= code /\ code <= Pow2(k + 1) - 2)
    BY DEF Fits
  <2>2. \A k \in 0..17 : k < max /\ Pow2(k) - 1 <= code => Pow2(k + 1) - 1 <= code
    <3> SUFFICES ASSUME NEW k \in 0..17, k < max, Pow2(k) - 1 <= code PROVE Pow2(k + 1) - 1 <= code
      OBVIOUS
    <3>1. k + 1 \in 0..18 /\ k \in 0..max
      OBVIOUS
    <3>2. Pow2(k + 1) \in Nat /\ ~(code <= Pow2(k + 1) - 2)
      BY <3>1, <1>1, <2>1
    <3> QED BY <3>2
  <2>3. Pow2(0) - 1 <= code
    BY Powers
  <2>4. max >= 1
    BY <2>3
  <2> QED
    BY <2>2, <2>3, <2>4, <1>1
<1>3. p = CHOOSE k \in 0..max : Fits(k)
  BY DEF PrefixLength
<1>4. p \in 0..max /\ Fits(p)
  <2> HIDE DEF Fits
  <2> QED BY <1>2, <1>3
<1>5. p # max
  <2> SUFFICES ASSUME p = max PROVE FALSE
    OBVIOUS
  <2>1. Pow2(max) - 1 <= code /\ Pow2(max) \in Nat
    BY <1>1, <1>4
  <2> QED BY <2>1
<1> QED BY <1>4, <1>5

\* So it ends inside its range.
LEMMA PrefixInRange ==
  ASSUME NEW max \in 0..17, NEW code \in Nat
  PROVE  PrefixLength(code, max) \in 0..max
<1>1. CASE code >= Pow2(max) - 1
  BY <1>1 DEF PrefixLength
<1>2. CASE ~(code >= Pow2(max) - 1)
  BY <1>2, PrefixBrackets
<1> QED BY <1>1, <1>2

MaxPrefix(cutoff, dynRange) == 32 - cutoff - dynRange
SuffixValue(code, low, rice, p) == (code - (Pow2(p) - 1)) * Pow2(rice) + low
SuffixLength(code, rice, dynRange, max, p) ==
  IF code >= Pow2(max) - 1 THEN dynRange ELSE p + rice + 1
HasBins(c, n) == c \in Nat /\ n \in 0..32 /\ c < Pow2(n)

\* The suffix of a remainder that is no larger than its dynamic range allows has no more
\* bits than bins, with the escape and without.
LEMMA SuffixFits ==
  ASSUME NEW rice \in 0..28, NEW cutoff \in 0..17, NEW dynRange \in 15..32, cutoff + dynRange <= 31,
         NEW code \in Nat, NEW low \in Nat, low < Pow2(rice),
         (code + cutoff) * Pow2(rice) + low <= Pow2(dynRange),
         NEW max, max = MaxPrefix(cutoff, dynRange), NEW p, p = PrefixLength(code, max)
  PROVE  HasBins(SuffixValue(code, low, rice, p), SuffixLength(code, rice, dynRange, max, p))
<1> DEFINE c == SuffixValue(code, low, rice, p)
           n == SuffixLength(code, rice, dynRange, max, p)
<1>0. /\ c = (code - (Pow2(p) - 1)) * Pow2(rice) + low
      /\ n = IF code >= Pow2(max) - 1 THEN dynRange ELSE p + rice + 1
      /\ max = 32 - cutoff - dynRange
  BY DEF SuffixValue, SuffixLength, MaxPrefix
<1>q. c \in Nat /\ n \in 0..32 /\ c < Pow2(n) => HasBins(c, n)
  BY DEF HasBins
<1> HIDE DEF c, n
<1> DEFINE K == Pow2(rice)
           q == Pow2(p)
           D == Pow2(dynRange)
<1>1. max \in 1..17 /\ max \in 0..17 /\ dynRange \in 0..31 /\ dynRange \in 0..32 /\ rice \in 0..32
      /\ max + dynRange <= 32
  BY <1>0
<1>2. p \in 0..max /\ p \in 0..17 /\ p \in 0..32
  <2>1. p \in 0..max
    BY <1>1, PrefixInRange
  <2> QED BY <1>1, <2>1
<1>3. K \in Nat \ {0} /\ q \in Nat \ {0} /\ D \in Nat \ {0}
  BY <1>1, <1>2, PowerTyped
<1>4. (code + cutoff) * K + low <= D /\ c = (code - (q - 1)) * K + low /\ low < K
  BY <1>0
<1>5. CASE code >= Pow2(max) - 1
  <2>1. p = max /\ n = dynRange
    BY <1>0, <1>5 DEF PrefixLength
  <2>2. q >= 2
    <3>1. Pow2(0) < Pow2(max) /\ Pow2(0) = 1
      <4>1. 0 \in 0..32 /\ max \in 0..32 /\ 0 < max
        BY <1>1
      <4> QED BY <4>1, PowerGrows, Powers
    <3> QED BY <1>3, <2>1, <3>1
  <2> DEFINE j == code - (q - 1)
             m == cutoff + (q - 1)
  <2>3. j \in Nat /\ m \in Nat \ {0} /\ code + cutoff = j + m
    <3>1. code >= q - 1
      BY <1>5, <2>1
    <3>2. code \in Nat /\ cutoff \in Nat /\ q \in Nat /\ q >= 2
      BY <1>3, <2>2
    <3> HIDE DEF q
    <3> QED BY ONLY <3>1, <3>2
  <2> HIDE DEF j, m, K, q, D
  <2>4. (j + m) * K = j * K + m * K /\ j * K \in Nat
    BY <1>3, <2>3
  <2>5. m * K \in Nat \ {0}
    BY <1>3, <2>3, TimesPositive
  <2>6. c = j * K + low
    BY <1>4 DEF j
  <2>7. (j + m) * K + low <= D
    BY <1>4, <2>3
  <2> DEFINE g == j * K
             h == m * K
  <2>8. g \in Nat /\ h \in Nat \ {0} /\ c = g + low /\ g + h + low <= D
    BY <2>4, <2>5, <2>6, <2>7
  <2> HIDE DEF g, h
  <2>9. c \in Nat /\ c < D
    BY <1>3, <2>8
  <2>10. c \in Nat /\ n \in 0..32 /\ c < Pow2(n)
    BY <1>1, <2>1, <2>9 DEF D
  <2> QED BY <1>q, <2>10 DEF c, n
<1>6. CASE ~(code >= Pow2(max) - 1)
  <2>1. p < max /\ Pow2(p) - 1 <= code /\ code <= Pow2(p + 1) - 2
    BY <1>1, <1>6, PrefixBrackets
  <2>2. n = p + rice + 1
    BY <1>0, <1>6
  <2>3. Pow2(p + 1) = 2 * q
    <3>1. p \in 0..31
      BY <1>2
    <3> QED BY <3>1, PowerDoubles
  <2> DEFINE j == code - (q - 1)
  <2>4. j \in Nat /\ j < q /\ q - 1 <= code
    BY <1>3, <2>1, <2>3
  <2>5. p + rice <= 31
    <3> SUFFICES ASSUME p + rice > 31 PROVE FALSE
      BY <1>2
    <3> DEFINE e == 31 - rice
               f == p - 1
    <3>1. e \in 3..31 /\ e \in 0..32 /\ e <= f /\ f \in 0..32 /\ f \in 0..31 /\ f + 1 = p /\ e + rice = 31
      BY <1>2
    <3> HIDE DEF e, f
    <3>2. Pow2(e) <= Pow2(f) /\ Pow2(e) \in Nat \ {0} /\ Pow2(f) \in Nat \ {0}
      <4>1. e = f \/ e < f
        BY <3>1
      <4>2. e < f => Pow2(e) < Pow2(f)
        BY <3>1, PowerGrows
      <4>3. Pow2(e) \in Nat \ {0} /\ Pow2(f) \in Nat \ {0}
        BY <3>1, PowerTyped
      <4> QED BY <4>1, <4>2, <4>3
    <3>3. q = 2 * Pow2(f)
      BY <3>1, PowerDoubles
    <3>4. Pow2(e) <= code + cutoff
      BY <1>3, <2>4, <3>2, <3>3
    <3>5. Pow2(e) * K <= (code + cutoff) * K
      BY <1>3, <3>2, <3>4, TimesMonotonic
    <3>6. Pow2(e) * K = Pow2(31)
      <4>1. e + rice <= 32
        BY <3>1
      <4>2. Pow2(e + rice) = Pow2(e) * Pow2(rice)
        BY <1>1, <3>1, <4>1, PowerSum
      <4> QED BY <3>1, <4>2
    <3>7. D < Pow2(31)
      <4>1. dynRange < 31 /\ 31 \in 0..32
        BY <1>1, <1>2, <2>1, <3>1
      <4> QED BY <1>1, <4>1, PowerGrows
    <3>8. (code + cutoff) * K \in Nat /\ Pow2(31) \in Nat
      <4>1. 31 \in 0..32
        OBVIOUS
      <4> QED BY <1>3, <4>1, PowerTyped
    <3> DEFINE g == (code + cutoff) * K
               h == Pow2(31)
    <3>9. g \in Nat /\ h \in Nat /\ h <= g /\ g + low <= D /\ D < h
      BY <1>4, <3>5, <3>6, <3>7, <3>8
    <3> HIDE DEF g, h, D
    <3> QED BY <1>3, <3>9
  <2> DEFINE k == p + rice
  <2>6. k \in 0..31 /\ k \in 0..32 /\ n = k + 1 /\ n \in 0..32 /\ k < n /\ p + rice <= 32
    BY <1>2, <2>2, <2>5
  <2>7. Pow2(k) = q * K
    BY <1>1, <1>2, <2>6, PowerSum
  <2>8. Pow2(k) < Pow2(n)
    BY <2>6, PowerGrows
  <2>9. Pow2(k) \in Nat /\ Pow2(n) \in Nat
    BY <2>6, PowerTyped
  <2>10. j * K + K <= q * K /\ j * K \in Nat /\ q * K \in Nat
    BY <1>3, <2>4, TimesStrict, TimesMonotonic
  <2>11. c = j * K + low
    BY <1>4
  <2> DEFINE g == j * K
             h == q * K
             u == Pow2(n)
  <2>12. g + K <= h /\ g \in Nat /\ h \in Nat /\ c = g + low /\ h < u /\ u \in Nat
    BY <2>7, <2>8, <2>9, <2>10, <2>11
  <2> HIDE DEF g, h, u, K
  <2>13. c \in Nat /\ c < u
    BY <1>3, <1>4, <2>12
  <2>14. c \in Nat /\ n \in 0..32 /\ c < Pow2(n)
    BY <2>6, <2>13 DEF u
  <2> QED BY <1>q, <2>14 DEF c, n
<1> QED BY <1>5, <1>6

\* The two bypass strings of a remainder have no more bits than bins.
LEMMA RemainderPieces ==
  ASSUME NEW r \in Remainders, NEW i \in 1..2
  PROVE  /\ RemAbs(r)[i][1] \in Nat /\ RemAbs(r)[i][2] \in 0..32
         /\ RemAbs(r)[i][1] < Pow2(RemAbs(r)[i][2])
<1> DEFINE b == r[1]
           rice == r[2]
           cutoff == r[3]
           dynRange == r[4]
           K == Pow2(rice)
           unary == b \div K
           low == b % K
           max == MaxPrefix(cutoff, dynRange)
           b1 == RemAbs(r)[1][1]
           n1 == RemAbs(r)[1][2]
           b2 == RemAbs(r)[2][1]
           n2 == RemAbs(r)[2][2]
<1>1. /\ b \in Nat /\ rice \in 0..28 /\ cutoff \in 0..17 /\ dynRange \in 15..32
      /\ cutoff + dynRange <= 31 /\ b <= Pow2(dynRange)
  <2>1. r \in Nat \X (0..28) \X (0..17) \X (15..32) /\ r[3] + r[4] <= 31 /\ r[1] <= Pow2(r[4])
    BY CabacAssumption
  <2> QED BY <2>1
<1>2. unary < cutoff => b1 = Pow2(unary + 1) - 2 /\ n1 = unary + 1 /\ b2 = low /\ n2 = rice
  BY DEF RemAbs
<1>3. ~(unary < cutoff) =>
        LET p == PrefixLength(unary - cutoff, max)
        IN /\ b1 = Pow2(p + cutoff) - 1 /\ n1 = p + cutoff
           /\ b2 = SuffixValue(unary - cutoff, low, rice, p)
           /\ n2 = SuffixLength(unary - cutoff, rice, dynRange, max, p)
  BY DEF RemAbs, SuffixValue, SuffixLength, MaxPrefix
<1> HIDE DEF b, rice, cutoff, dynRange, b1, n1, b2, n2
<1>4. K \in Nat \ {0} /\ rice \in 0..32
  <2>1. rice \in 0..32
    BY <1>1
  <2> QED BY <2>1, PowerTyped
<1>5. unary \in Nat /\ low \in Nat /\ low < K /\ b = unary * K + low
  BY <1>1, <1>4, DivSplit
<1> HIDE DEF unary, low
<1>6. /\ b1 \in Nat /\ n1 \in 0..32 /\ b1 < Pow2(n1)
      /\ b2 \in Nat /\ n2 \in 0..32 /\ b2 < Pow2(n2)
  <2>1. CASE unary < cutoff
    <3>1. unary \in 0..31 /\ unary + 1 \in 0..32
      BY <1>1, <1>5, <2>1
    <3>2. Pow2(unary + 1) = 2 * Pow2(unary) /\ Pow2(unary) \in Nat \ {0}
      <4>1. unary \in 0..32
        BY <3>1
      <4> QED BY <3>1, <4>1, PowerDoubles, PowerTyped
    <3>3. b1 = Pow2(unary + 1) - 2 /\ n1 = unary + 1 /\ b2 = low /\ n2 = rice
      BY <1>2, <2>1
    <3> QED BY <1>4, <1>5, <3>1, <3>2, <3>3
  <2>2. CASE ~(unary < cutoff)
    <3> DEFINE code == unary - cutoff
               p == PrefixLength(code, max)
    <3>1. /\ b1 = Pow2(n1) - 1 /\ n1 = p + cutoff
          /\ b2 = SuffixValue(code, low, rice, p) /\ n2 = SuffixLength(code, rice, dynRange, max, p)
      BY <1>3, <2>2
    <3>2. code \in Nat /\ code + cutoff = unary /\ max \in 0..17
      BY <1>1, <1>5, <2>2 DEF MaxPrefix
    <3>3. p \in 0..max
      BY <3>2, PrefixInRange
    <3> HIDE DEF p, code
    <3>4. n1 \in 0..32
      BY <1>1, <3>1, <3>3 DEF MaxPrefix
    <3>5. b1 \in Nat /\ b1 < Pow2(n1)
      <4>1. Pow2(n1) \in Nat \ {0}
        BY <3>4, PowerTyped
      <4> QED BY <3>1, <4>1
    <3>6. (code + cutoff) * Pow2(rice) + low <= Pow2(dynRange) /\ low < Pow2(rice)
      BY <1>1, <1>5, <3>2
    <3>7. p = PrefixLength(code, max)
      BY DEF p
    <3>8. max = MaxPrefix(cutoff, dynRange)
      OBVIOUS
    <3> HIDE DEF max, K
    <3>9. code \in Nat /\ low \in Nat /\ rice \in 0..28 /\ cutoff \in 0..17 /\ dynRange \in 15..32
          /\ cutoff + dynRange <= 31
      BY <1>1, <1>5, <3>2
    <3>10. HasBins(SuffixValue(code, low, rice, p), SuffixLength(code, rice, dynRange, max, p))
      BY ONLY <3>6, <3>7, <3>8, <3>9, SuffixFits
    <3>11. b2 \in Nat /\ n2 \in 0..32 /\ b2 < Pow2(n2)
      BY <3>1, <3>10 DEF HasBins
    <3> QED BY <3>4, <3>5, <3>11
  <2> QED BY <2>1, <2>2
<1>7. i = 1 \/ i = 2
  OBVIOUS
<1> QED BY <1>6, <1>7 DEF b1, n1, b2, n2

\* A remainder is two bypass strings.
LEMMA PutRemAbsFits ==
  ASSUME NEW e \in EncoderType, Absorbs(e), NEW r \in Remainders
  PROVE  PutRemAbs(e, r) \in EncoderType /\ Absorbs(PutRemAbs(e, r))
<1> DEFINE s == RemAbs(r)
           f == PutBinsEP(e, s[1][1], s[1][2])
<1>2. s[1][1] \in Nat /\ s[1][2] \in BinCounts /\ s[2][1] \in Nat /\ s[2][2] \in BinCounts
  <2>1. 1 \in 1..2 /\ 2 \in 1..2
    OBVIOUS
  <2> QED BY <2>1, RemainderPieces DEF BinCounts
<1> HIDE DEF s
<1>3. f \in EncoderType /\ Absorbs(f)
  BY <1>2, PutBinsEPFits
<1>4. PutRemAbs(e, r) = PutBinsEP(f, s[2][1], s[2][2])
  BY DEF PutRemAbs, s
<1> HIDE DEF f
<1> QED BY <1>2, <1>3, <1>4, PutBinsEPFits

\* The tail of finish() is a sequence of bytes.
LEMMA TailBytesTyped ==
  ASSUME NEW low \in Nat, NEW b \in BitsLeft
  PROVE  TailBytes(low, b) \in Seq(Byte)
<1> DEFINE n == 25 - b
           pad == (8 - (n % 8)) % 8
           count == (n + pad) \div 8
           w == (2 * (low \div 256) + 1) * Pow2(pad)
<1>1. n \in 2..13
  BY DEF BitsLeft
<1>2. pad \in 0..7 /\ count \in 1..2
  BY <1>1
<1>3. w \in Nat
  <2>1. low \div 256 \in Nat
    OBVIOUS
  <2>2. Pow2(pad) \in {1, 2, 4, 8, 16, 32, 64, 128}
    <3> HIDE DEF pad
    <3> QED BY <1>2, Powers
  <2> DEFINE p == Pow2(pad)
             a == low \div 256
  <2>3. p \in Nat /\ a \in Nat
    BY <2>1, <2>2
  <2> HIDE DEF p, a
  <2>4. (2 * a + 1) * p \in Nat
    BY <2>3
  <2> QED BY <2>4 DEF p, a
<1>4. TailBytes(low, b) = [i \in 1..count |-> (w \div 256^(count - i)) % 256]
  BY DEF TailBytes
<1> HIDE DEF n, pad, count, w
<1>5. ASSUME NEW i \in 1..count PROVE (w \div 256^(count - i)) % 256 \in Byte
  <2>1. count - i = 0 \/ count - i = 1
    BY <1>2
  <2>2. 256^0 = 1 /\ 256^1 = 256
    OBVIOUS
  <2>4. w \div 1 \in Nat /\ w \div 256 \in Nat
    BY <1>3
  <2>5. 256^(count - i) = 1 \/ 256^(count - i) = 256
    BY <2>1, <2>2
  <2>3. w \div 256^(count - i) \in Nat
    BY <2>4, <2>5
  <2> QED BY <2>3 DEF Byte
<1> QED BY <1>2, <1>4, <1>5

\* finish() writes bytes: the carry, when there is one, has a byte to go into.
LEMMA FinishFits ==
  ASSUME NEW e \in EncoderType, Absorbs(e)
  PROVE  Finish(e) \in Seq(Byte)
<1> DEFINE one == Pow2(32 - e.bitsLeft)
<1>1. /\ e.low \in Nat /\ e.range \in 256..510 /\ e.bufferedByte \in 0..255
      /\ e.numBufferedBytes \in Nat /\ e.out \in Seq(Byte)
  <2>1. e.range \in Range9 /\ e.bufferedByte \in Byte
    BY DEF EncoderType
  <2>2. e.range \in 256..510 /\ e.bufferedByte \in 0..255
    BY <2>1 DEF Range9, Byte
  <2> QED BY <2>2 DEF EncoderType
<1>2. one \in Nat
  <2>1. 32 - e.bitsLeft \in 9..20
    BY DEF EncoderType, BitsLeft
  <2> QED BY <2>1, Powers
<1>3. 0 \in Byte /\ 255 \in Byte
  BY DEF Byte
<1>4. ASSUME NEW low \in Nat PROVE TailBytes(low, e.bitsLeft) \in Seq(Byte)
  BY TailBytesTyped DEF EncoderType
<1>5. ASSUME NEW b \in Byte, NEW n \in Nat PROVE [i \in 1..n - 1 |-> b] \in Seq(Byte)
  <2>1. CASE n = 0
    <3>1. 1..n - 1 = 1..0
      BY <2>1
    <3> QED BY <3>1
  <2>2. CASE n # 0
    BY <2>2
  <2> QED BY <2>1, <2>2
<1>6. CASE e.low >= one
  <2>1. e.bufferedByte + 1 \in Byte
    <3>1. ~(e.numBufferedBytes = 0 \/ e.bufferedByte = 255)
      <4> HIDE DEF one
      <4>1. ~(e.low + e.range <= one)
        <5>1. e.low \in Nat /\ e.range \in Nat /\ e.range > 0
          <6>1. e.low \in Nat /\ e.range \in Range9
            BY DEF EncoderType
          <6> QED BY <6>1 DEF Range9
        <5> QED BY <1>2, <1>6, <5>1
      <4>2. e.numBufferedBytes = 0 \/ e.bufferedByte = 255 => e.low + e.range <= one
        BY Zenon DEF Absorbs, one
      <4> QED BY <4>1, <4>2, Zenon
    <3>2. e.bufferedByte \in 0..254
      BY <1>1, <3>1
    <3>3. e.bufferedByte + 1 \in 0..255
      BY <3>2
    <3> QED BY <3>3 DEF Byte
  <2>2. e.low - one \in Nat
    BY <1>1, <1>2, <1>6
  <2>3. TailBytes(e.low - one, e.bitsLeft) \in Seq(Byte)
    BY <1>4, <2>2
  <2>4. [i \in 1..e.numBufferedBytes - 1 |-> 0] \in Seq(Byte)
    BY <1>1, <1>3, <1>5
  <2> HIDE DEF one
  <2>5. Finish(e) = e.out \o <<e.bufferedByte + 1>> \o [i \in 1..e.numBufferedBytes - 1 |-> 0]
                      \o TailBytes(e.low - one, e.bitsLeft)
    BY <1>6 DEF Finish, one
  <2> QED BY <1>1, <2>1, <2>3, <2>4, <2>5
<1>7. CASE ~(e.low >= one)
  <2>1. TailBytes(e.low, e.bitsLeft) \in Seq(Byte)
    BY <1>1, <1>4
  <2>2. [i \in 1..e.numBufferedBytes - 1 |-> 255] \in Seq(Byte)
    BY <1>1, <1>3, <1>5
  <2>3. (IF e.numBufferedBytes > 0 THEN <<e.bufferedByte>> ELSE <<>>) \in Seq(Byte)
    BY DEF EncoderType
  <2> HIDE DEF one
  <2>4. Finish(e) = e.out \o (IF e.numBufferedBytes > 0 THEN <<e.bufferedByte>> ELSE <<>>)
                      \o [i \in 1..e.numBufferedBytes - 1 |-> 255]
                      \o TailBytes(e.low, e.bitsLeft)
    BY <1>7 DEF Finish, one
  <2> QED BY <1>1, <2>1, <2>2, <2>3, <2>4
<1> QED BY <1>6, <1>7

(* ------------------------------ the specification ------------------------------ *)

\* The strengthening: the registers and the context models of the encoder.  Both
\* parts of CarryFits need the ranges of the registers, and these need it back.
IInv ==
  /\ enc \in EncoderType
  /\ Absorbs(enc)
  /\ encCtx \in [Ctx -> ModelType]

\* The encoder starts in its invariant.
LEMMA InitIInv == Init => IInv
<1> SUFFICES ASSUME Init PROVE IInv
  OBVIOUS
<1>1. enc = Started
  BY DEF Init
<1>2. Started \in EncoderType
  <2>1. 510 \in Range9 /\ 255 \in Byte /\ 23 \in BitsLeft
    BY DEF Range9, Byte, BitsLeft
  <2> QED BY <2>1 DEF Started, EncoderType
<1>3. Absorbs(Started)
  BY Powers DEF Absorbs, Started
<1>4. ASSUME NEW c \in Ctx PROVE InitModel(c) \in ModelType
  <2> DEFINE x == InitProb[c] * 256
  <2>1. x \in Nat /\ x <= 32512
    <3> DEFINE p == InitProb[c]
    <3>1. p \in 1..127
      BY CabacAssumption
    <3> HIDE DEF p
    <3>2. p * 256 \in Nat /\ p * 256 <= 32512
      BY <3>1
    <3> QED BY <3>2 DEF p
  <2> HIDE DEF x
  <2>2. PICK q \in Nat : Masked0(x) = 32 * q /\ 32 * q <= x
    BY <2>1, Masked0Floor
  <2>3. PICK r \in Nat : Masked1(x) = 2 * r /\ 2 * r <= x
    BY <2>1, Masked1Floor
  <2>4. Masked0(x) \in Nat /\ Masked0(x) <= 32767 /\ Masked1(x) \in Nat /\ Masked1(x) <= 32767
    BY <2>1, <2>2, <2>3
  <2>5. MaxProb \in Nat /\ 32767 <= MaxProb
    BY DEF MaxProb
  <2>6. Masked0(x) \in 0..MaxProb /\ Masked1(x) \in 0..MaxProb
    BY <2>4, <2>5
  <2> QED BY <2>6 DEF InitModel, ModelType, x
<1>5. encCtx \in [Ctx -> ModelType]
  BY <1>4 DEF Init
<1> QED BY <1>1, <1>2, <1>3, <1>5 DEF IInv

\* Every step keeps it.
LEMMA NextIInv == IInv /\ [Next]_vars => IInv'
<1> SUFFICES ASSUME IInv, [Next]_vars PROVE IInv'
  OBVIOUS
<1> USE DEF IInv
<1>1. ASSUME NEW c \in Ctx, NEW b \in 0..1, EncodeBin(c, b) PROVE IInv'
  <2>1. encCtx[c] \in ModelType
    OBVIOUS
  <2>2. enc' = PutBin(enc, encCtx[c], b) /\ encCtx' = [encCtx EXCEPT ![c] = Update(@, c, b)]
    BY <1>1 DEF EncodeBin, Encoded
  <2>3. enc' \in EncoderType /\ Absorbs(enc')
    BY <2>1, <2>2, PutBinFits
  <2>4. encCtx' \in [Ctx -> ModelType]
    BY <2>1, <2>2, UpdateTyped
  <2> QED BY <2>3, <2>4
<1>2. ASSUME NEW b \in 0..1, EncodeBinEP(b) PROVE IInv'
  <2>1. enc' = PutBinEP(enc, b) /\ encCtx' = encCtx
    BY <1>2 DEF EncodeBinEP, Encoded
  <2> QED BY <2>1, PutBinEPFits
<1>3. ASSUME NEW s \in Strings, EncodeBinsEP(s) PROVE IInv'
  <2>1. enc' = PutBinsEP(enc, s[1], s[2]) /\ encCtx' = encCtx
    BY <1>3 DEF EncodeBinsEP, Encoded
  <2>2. s[1] \in Nat /\ s[2] \in BinCounts
    BY CabacAssumption DEF BinCounts
  <2> QED BY <2>1, <2>2, PutBinsEPFits
<1>4. ASSUME NEW r \in Remainders, EncodeRemAbsEP(r) PROVE IInv'
  <2>1. enc' = PutRemAbs(enc, r) /\ encCtx' = encCtx
    BY <1>4 DEF EncodeRemAbsEP, Encoded
  <2> QED BY <2>1, PutRemAbsFits
<1>5. CASE EncodeBinTrm
  <2>1. enc' = PutBinTrm(enc, 0) /\ encCtx' = encCtx
    BY <1>5 DEF EncodeBinTrm, Encoded
  <2> QED BY <2>1, PutBinTrmFits
<1>6. CASE EndOfSlice
  <2> DEFINE e == PutBinTrm(enc, 1)
             out == Finish(e)
  <2>1. enc' = [e EXCEPT !.out = out] /\ encCtx' = encCtx
    BY <1>6 DEF EndOfSlice
  <2>2. e \in EncoderType /\ Absorbs(e)
    BY PutBinTrmFits
  <2> HIDE DEF e
  <2>3. out \in Seq(Byte)
    BY <2>2, FinishFits
  <2> HIDE DEF out
  <2>4. [e EXCEPT !.out = out] \in EncoderType
    BY <2>2, <2>3 DEF EncoderType
  <2>5. Absorbs([e EXCEPT !.out = out])
    BY <2>2 DEF EncoderType, Absorbs
  <2> QED BY <2>1, <2>4, <2>5
<1>7. CASE UNCHANGED <<enc, encCtx>>
  BY <1>7
<1>8. ASSUME DecodeBin \/ DecodeBinEP \/ DecodeBinsEP \/ DecodeRemAbsEP \/ TerminatingBit
      PROVE  UNCHANGED <<enc, encCtx>>
  BY <1>8 DEF DecodeBin, DecodeBinEP, DecodeBinsEP, DecodeRemAbsEP, TerminatingBit, Decoded
<1>9. CASE UNCHANGED vars
  BY <1>7, <1>9 DEF vars
<1> QED BY <1>1, <1>2, <1>3, <1>4, <1>5, <1>6, <1>7, <1>8, <1>9 DEF Next

\* The registers of BinEncoderBase keep their ranges, low its 32 bits among them,
\* and every byte it writes is one, whatever is coded.
THEOREM EncoderTyped == Spec => [](enc \in EncoderType /\ encCtx \in [Ctx -> ModelType])
<1>1. IInv => enc \in EncoderType /\ encCtx \in [Ctx -> ModelType]
  BY DEF IInv
<1> QED BY <1>1, InitIInv, NextIInv, PTL DEF Spec

\* A carry in writeOut() or finish() always finds a byte that can absorb it.
THEOREM CarryAlwaysFits == Spec => []CarryFits
<1>1. IInv => CarryFits
  BY DEF IInv, CarryFits
<1> QED BY <1>1, InitIInv, NextIInv, PTL DEF Spec

(* ---------------------------- the estimated length ---------------------------- *)

\* BitEstimatorBase charges a remainder the bins of its two bypass strings.
LEMMA RemainderCharged ==
  ASSUME NEW r \in Remainders
  PROVE  EstRemAbs(r) = RemAbs(r)[1][2] + RemAbs(r)[2][2]
<1> DEFINE unary == r[1] \div Pow2(r[2])
           max == 32 - r[3] - r[4]
           p == PrefixLength(unary - r[3], max)
<1>1. /\ r[1] \in Nat /\ r[2] \in 0..28 /\ r[3] \in 0..17 /\ r[4] \in 15..32 /\ max \in 0..17
  <2>1. r \in Nat \X (0..28) \X (0..17) \X (15..32) /\ r[3] + r[4] <= 31
    BY CabacAssumption
  <2> QED BY <2>1
<1>2. unary \in Int
  <2>1. Pow2(r[2]) \in Nat \ {0}
    BY <1>1, Powers
  <2> QED BY <2>1, <1>1
<1>3. CASE unary < r[3]
  <2>1. EstRemAbs(r) = unary + 1 + r[2]
    BY <1>3 DEF EstRemAbs
  <2>2. RemAbs(r)[1][2] = unary + 1 /\ RemAbs(r)[2][2] = r[2]
    BY <1>3 DEF RemAbs
  <2> QED BY <2>1, <2>2
<1>4. CASE ~(unary < r[3])
  <2>1. unary - r[3] \in Nat
    BY <1>1, <1>2, <1>4
  <2>2. p \in 0..max
    BY <1>1, <2>1, PrefixInRange
  <2> DEFINE escape == unary - r[3] >= Pow2(max) - 1
  <2>3. EstRemAbs(r) = r[3] + p + (IF escape THEN r[4] ELSE p + r[2] + 1)
    BY <1>4 DEF EstRemAbs
  <2>4. RemAbs(r)[1][2] = p + r[3] /\ RemAbs(r)[2][2] = IF escape THEN r[4] ELSE p + r[2] + 1
    BY <1>4 DEF RemAbs
  <2> HIDE DEF escape, p, unary, max
  <2>5. p \in Nat /\ r[2] \in Nat /\ r[3] \in Nat /\ r[4] \in Nat
    BY <1>1, <2>2
  <2> QED BY <2>3, <2>4, <2>5
<1> QED BY <1>3, <1>4

\* A remainder as a tuple is what the symbol holds of it.
LEMMA ConcatFour ==
  ASSUME NEW a \in Nat, NEW b \in Nat, NEW c \in Nat, NEW d \in Nat
  PROVE  <<a>> \o <<b, c, d>> = <<a, b, c, d>>
<1> DEFINE s == <<a>>
           t == <<b, c, d>>
           u == <<a, b, c, d>>
<1>1. s \in Seq(Nat) /\ t \in Seq(Nat) /\ u \in Seq(Nat)
  OBVIOUS
<1>2. Len(s) = 1 /\ Len(t) = 3 /\ Len(u) = 4 /\ s[1] = a
      /\ t[1] = b /\ t[2] = c /\ t[3] = d /\ u[1] = a /\ u[2] = b /\ u[3] = c /\ u[4] = d
  OBVIOUS
<1> HIDE DEF s, t, u
<1>3. /\ s \o t \in Seq(Nat) /\ Len(s \o t) = 4
      /\ \A i \in 1..4 : (s \o t)[i] = IF i <= 1 THEN s[i] ELSE t[i - 1]
  <2>1. /\ s \o t \in Seq(Nat) /\ Len(s \o t) = Len(s) + Len(t)
        /\ \A i \in 1..Len(s) + Len(t) : (s \o t)[i] = IF i <= Len(s) THEN s[i] ELSE t[i - Len(s)]
    BY <1>1, ConcatProperties, Zenon
  <2>2. Len(s) = 1 /\ Len(t) = 3 /\ Len(s) + Len(t) = 4
    BY <1>2
  <2> QED BY <2>1, <2>2
<1>4. \A i \in 1..4 : (s \o t)[i] = u[i]
  <2>1. 1..4 = {1, 2, 3, 4}
    OBVIOUS
  <2> QED BY <2>1, <1>2, <1>3, SMTT(20)
<1>5. s \o t = u
  BY <1>1, <1>2, <1>3, <1>4, SeqEqual
<1> QED BY <1>5 DEF s, t, u

\* What has been coded is a sequence of symbols.
CodedTyped == coded \in Seq(Symbols)

\* What is coded stays a sequence of symbols.
LEMMA CodedStep == CodedTyped /\ [Next]_vars => CodedTyped'
<1> SUFFICES ASSUME CodedTyped, [Next]_vars PROVE CodedTyped'
  OBVIOUS
<1>1. ASSUME NEW symbol \in Symbols, coded' = Append(coded, symbol) PROVE CodedTyped'
  BY <1>1 DEF CodedTyped
<1>2. ASSUME NEW c \in Ctx, NEW b \in 0..1, EncodeBin(c, b) PROVE CodedTyped'
  BY <1>1, <1>2 DEF EncodeBin, Encoded, Symbols
<1>3. ASSUME NEW b \in 0..1, EncodeBinEP(b) PROVE CodedTyped'
  BY <1>1, <1>3 DEF EncodeBinEP, Encoded, Symbols
<1>4. ASSUME NEW s \in Strings, EncodeBinsEP(s) PROVE CodedTyped'
  BY <1>1, <1>4 DEF EncodeBinsEP, Encoded, Symbols
<1>5. ASSUME NEW r \in Remainders, EncodeRemAbsEP(r) PROVE CodedTyped'
  BY <1>1, <1>5 DEF EncodeRemAbsEP, Encoded, Symbols
<1>6. CASE EncodeBinTrm
  BY <1>1, <1>6 DEF EncodeBinTrm, Encoded, Symbols
<1>7. CASE EndOfSlice
  BY <1>1, <1>7 DEF EndOfSlice, Symbols
<1>8. CASE DecodeBin \/ DecodeBinEP \/ DecodeBinsEP \/ DecodeRemAbsEP \/ TerminatingBit
  BY <1>8 DEF CodedTyped, DecodeBin, DecodeBinEP, DecodeBinsEP, DecodeRemAbsEP, TerminatingBit, Decoded
<1>9. CASE UNCHANGED vars
  BY <1>9 DEF CodedTyped, vars
<1> QED BY <1>2, <1>3, <1>4, <1>5, <1>6, <1>7, <1>8, <1>9 DEF Next

\* The search charges every remainder it codes the bins the encoder writes for it.
THEOREM EstimateAlwaysExact == Spec => []EstimateExact
<1>1. CodedTyped => EstimateExact
  <2> SUFFICES ASSUME CodedTyped, NEW i \in 1..Len(coded), coded[i].op = "rem"
               PROVE  LET r == <<coded[i].val>> \o coded[i].arg
                      IN EstRemAbs(r) = RemAbs(r)[1][2] + RemAbs(r)[2][2]
    BY DEF EstimateExact
  <2>1. coded[i] \in Symbols
    BY DEF CodedTyped
  <2>2. PICK r \in Remainders : coded[i] = Sym("rem", <<r[2], r[3], r[4]>>, r[1])
    <3>1. \E r \in Remainders : coded[i] = Sym("rem", <<r[2], r[3], r[4]>>, r[1])
      <4>1. ASSUME NEW op, NEW arg, NEW val, coded[i] = Sym(op, arg, val) PROVE op = "rem"
        BY <4>1 DEF Sym
      <4> QED BY <4>1, <2>1 DEF Symbols
    <3> QED BY <3>1
  <2>3. <<coded[i].val>> \o coded[i].arg = r
    <3>1. r \in Nat \X (0..28) \X (0..17) \X (15..32)
      BY CabacAssumption
    <3>2. coded[i].val = r[1] /\ coded[i].arg = <<r[2], r[3], r[4]>>
      BY <2>2 DEF Sym
    <3>3. <<r[1]>> \o <<r[2], r[3], r[4]>> = <<r[1], r[2], r[3], r[4]>>
      <4>1. r[1] \in Nat /\ r[2] \in Nat /\ r[3] \in Nat /\ r[4] \in Nat
        <5>1. r[1] \in Nat /\ r[2] \in 0..28 /\ r[3] \in 0..17 /\ r[4] \in 15..32
          BY <3>1
        <5>2. \A k \in 0..28 : k \in Nat
          OBVIOUS
        <5>3. (\A k \in 0..17 : k \in Nat) /\ (\A k \in 15..32 : k \in Nat)
          OBVIOUS
        <5> QED BY <5>1, <5>2, <5>3, Zenon
      <4> QED BY ONLY <4>1, ConcatFour
    <3>4. r = <<r[1], r[2], r[3], r[4]>>
      BY <3>1
    <3> QED BY <3>2, <3>3, <3>4
  <2> QED BY <2>3, RemainderCharged
<1>2. Init => CodedTyped
  BY DEF Init, CodedTyped
<1> QED BY <1>1, <1>2, CodedStep, PTL DEF Spec

(* -------------------------------- the intervals -------------------------------- *)

\* The part of the code values that stands for the symbols so far, in units of the
\* last bit written: pos is where it begins, wt what 1/128 of the range weighs.
Interval == [ctx : [Ctx -> ModelType], range : Range9, pos : Nat, wt : Nat \ {0}]

Top(x) == x.pos + 128 * (x.range * x.wt)
In(t, x) == x.pos <= t /\ t < Top(x)
Nested(y, x) == x.pos <= y.pos /\ Top(y) <= Top(x)
Scaled(x, q) == [ctx |-> x.ctx, range |-> x.range, pos |-> x.pos * q, wt |-> x.wt * q]

\* y is the part of x above k with r of its range, moved up by n bits.
Part(x, k, r, n, y) ==
  /\ y.range = r * Pow2(n)
  /\ x.wt = y.wt * Pow2(n)
  /\ y.pos = x.pos + 128 * (k * x.wt)

\* y is the part of x that n bypass bins of value b select.
Bypass(x, b, n, y) ==
  /\ y.ctx = x.ctx /\ y.range = x.range
  /\ x.wt = y.wt * Pow2(n)
  /\ y.pos = x.pos + 128 * (b * (x.range * y.wt))
  /\ b < Pow2(n)

\* The fields of an interval, and the point above it.
LEMMA IntervalTyped ==
  ASSUME NEW x \in Interval
  PROVE  /\ x.range \in Nat \ {0} /\ x.pos \in Nat /\ x.wt \in Nat \ {0}
         /\ x.ctx \in [Ctx -> ModelType] /\ x.range \in Range9
         /\ x.range * x.wt \in Nat \ {0} /\ Top(x) \in Nat
<1>1. x.range \in 256..510 /\ x.pos \in Nat /\ x.wt \in Nat \ {0}
  <2>1. x.range \in Range9 /\ x.pos \in Nat /\ x.wt \in Nat \ {0}
    BY DEF Interval
  <2> QED BY <2>1 DEF Range9
<1>2. ASSUME NEW a \in Nat \ {0}, NEW b \in Nat \ {0} PROVE a * b \in Nat \ {0}
  <2> DEFINE c == b - 1
  <2>1. c \in Nat /\ b = c + 1
    OBVIOUS
  <2> HIDE DEF c
  <2>2. a * (c + 1) = a * c + a /\ a * c \in Nat
    BY <2>1
  <2> QED BY <2>1, <2>2
<1>3. x.range \in Nat \ {0}
  BY <1>1
<1>4. x.range * x.wt \in Nat \ {0}
  BY <1>1, <1>2, <1>3
<1> HIDE DEF Interval
<1> DEFINE a == x.range * x.wt
<1>5. a \in Nat
  BY <1>4
<1> HIDE DEF a
<1>6. x.pos + 128 * a \in Nat
  BY <1>1, <1>5
<1> QED BY <1>1, <1>3, <1>4, <1>6 DEF Interval, Top, a

\* A renormalised part lies within the interval.
LEMMA PartNested ==
  ASSUME NEW x \in Interval, NEW y \in Interval, NEW k \in Nat, NEW r \in Nat, NEW n \in 0..32,
         Part(x, k, r, n, y), k + r <= x.range
  PROVE  Nested(y, x)
<1> DEFINE q == Pow2(n)
           w == x.wt
           v == y.wt
           p == x.pos
           R == x.range
<1>1. q \in Nat /\ w \in Nat /\ v \in Nat /\ p \in Nat /\ R \in Nat
  BY PowerTyped, IntervalTyped
<1>2. y.range = r * q /\ w = v * q /\ y.pos = p + 128 * (k * w)
  BY DEF Part
<1> HIDE DEF q, w, v, p, R
<1>3. k * w \in Nat /\ (r * q) * v = r * w /\ k * w + r * w = (k + r) * w /\ r * w \in Nat
  BY <1>1, <1>2
<1>4. (k + r) * w <= R * w
  <2>1. k + r \in Nat /\ k + r <= R
    BY DEF R
  <2> QED BY <1>1, <2>1, TimesMonotonic
<1>5. R * w \in Nat
  BY <1>1
<1>6. p <= p + 128 * (k * w) /\ p + 128 * (k * w) + 128 * (r * w) <= p + 128 * (R * w)
  <2> DEFINE A == k * w
             B == r * w
             D == R * w
  <2>1. A \in Nat /\ B \in Nat /\ D \in Nat /\ A + B <= D
    BY <1>3, <1>4, <1>5
  <2> HIDE DEF A, B, D
  <2>2. p <= p + 128 * A /\ p + 128 * A + 128 * B <= p + 128 * D
    BY <1>1, <2>1
  <2> QED BY <2>2 DEF A, B, D
<1>7. Top(y) = p + 128 * (k * w) + 128 * (r * w) /\ Top(x) = p + 128 * (R * w)
  <2>1. Top(y) = p + 128 * (k * w) + 128 * ((r * q) * v)
    BY <1>2 DEF Top, v
  <2> QED BY <1>3, <2>1 DEF Top, p, R, w
<1> QED BY <1>2, <1>6, <1>7 DEF Nested, p

\* The interval that a bypass string selects lies in the one it came from.
LEMMA BypassNested ==
  ASSUME NEW x \in Interval, NEW y \in Interval, NEW b \in Nat, NEW n \in 0..32,
         Bypass(x, b, n, y)
  PROVE  Nested(y, x)
<1> DEFINE q == Pow2(n)
           w == x.wt
           v == y.wt
           p == x.pos
           R == x.range
<1>1. q \in Nat /\ w \in Nat /\ v \in Nat /\ p \in Nat /\ R \in Nat
  BY PowerTyped, IntervalTyped
<1>2. y.range = R /\ w = v * q /\ y.pos = p + 128 * (b * (R * v)) /\ b < q
  BY DEF Bypass
<1> HIDE DEF q, w, v, p, R
<1> DEFINE u == R * v
<1>3. u \in Nat /\ R * w = q * u
  BY <1>1, <1>2
<1> HIDE DEF u
<1>4. (b + 1) * u <= q * u /\ (b + 1) * u \in Nat /\ q * u \in Nat
  BY <1>1, <1>2, <1>3, TimesMonotonic
<1>5. b * u \in Nat /\ (b + 1) * u = b * u + u
  BY <1>3
<1>6. p <= p + 128 * (b * u) /\ p + 128 * (b * u) + 128 * u <= p + 128 * (q * u)
  <2> DEFINE A == b * u
             D == q * u
  <2>1. A \in Nat /\ D \in Nat /\ A + u <= D
    BY <1>4, <1>5
  <2> HIDE DEF A, D
  <2>2. p <= p + 128 * A /\ p + 128 * A + 128 * u <= p + 128 * D
    BY <1>1, <1>3, <2>1
  <2> QED BY <2>2 DEF A, D
<1>7. Top(y) = p + 128 * (b * u) + 128 * u /\ Top(x) = p + 128 * (q * u)
  BY <1>2, <1>3 DEF Top, u, v, R, w, p
<1> QED BY <1>2, <1>6, <1>7 DEF Nested, p, u

\* Everything said of intervals is said of them in a finer unit.
LEMMA ScaledTyped ==
  ASSUME NEW x \in Interval, NEW q \in Nat \ {0}
  PROVE  /\ Scaled(x, q) \in Interval
         /\ Scaled(x, q).ctx = x.ctx /\ Scaled(x, q).range = x.range
         /\ Scaled(x, q).pos = x.pos * q /\ Scaled(x, q).wt = x.wt * q
         /\ Top(Scaled(x, q)) = Top(x) * q
<1>1. x.pos \in Nat /\ x.wt \in Nat \ {0} /\ x.range \in Nat
  BY IntervalTyped
<1>2. ASSUME NEW a \in Nat, NEW b \in Nat, NEW c \in Nat
      PROVE  a * b \in Nat /\ (a # 0 /\ b # 0 => a * b # 0) /\ (c * (a * b)) = (c * a) * b
  <2>1. a * b \in Nat
    OBVIOUS
  <2>2. ASSUME a # 0, b # 0 PROVE a * b # 0
    <3> DEFINE d == b - 1
    <3>1. d \in Nat /\ b = d + 1
      BY <2>2
    <3> HIDE DEF d
    <3>2. a * (d + 1) = a * d + a /\ a * d \in Nat
      BY <3>1
    <3> QED BY <2>2, <3>1, <3>2
  <2>3. c * (a * b) = (c * a) * b
    OBVIOUS
  <2> QED BY <2>1, <2>2, <2>3
<1>3. x.pos * q \in Nat /\ x.wt * q \in Nat \ {0}
  BY <1>1, <1>2
<1>4. /\ Scaled(x, q) \in Interval
      /\ Scaled(x, q).ctx = x.ctx /\ Scaled(x, q).range = x.range
      /\ Scaled(x, q).pos = x.pos * q /\ Scaled(x, q).wt = x.wt * q
  BY <1>3 DEF Scaled, Interval
<1>5. Top(Scaled(x, q)) = x.pos * q + 128 * (x.range * (x.wt * q))
  BY <1>4 DEF Top
<1>6. x.pos * q + 128 * (x.range * (x.wt * q)) = (x.pos + 128 * (x.range * x.wt)) * q
  <2> DEFINE p == x.pos
             w == x.wt
             R == x.range
  <2>1. p \in Nat /\ w \in Nat /\ R \in Nat
    BY <1>1
  <2> HIDE DEF p, w, R
  <2>2. p * q + 128 * (R * (w * q)) = (p + 128 * (R * w)) * q
    BY <2>1
  <2> QED BY <2>2 DEF p, w, R
<1> QED BY <1>4, <1>5, <1>6 DEF Top

\* An interval inside an interval inside a third lies in the third.
LEMMA NestedTransitive ==
  ASSUME NEW x \in Interval, NEW y \in Interval, NEW z \in Interval, Nested(z, y), Nested(y, x)
  PROVE  Nested(z, x)
<1>1. x.pos \in Nat /\ y.pos \in Nat /\ z.pos \in Nat /\ Top(x) \in Nat /\ Top(y) \in Nat /\ Top(z) \in Nat
  BY IntervalTyped
<1> QED BY <1>1 DEF Nested

\* Finer steps keep one interval inside the other.
LEMMA NestedScaled ==
  ASSUME NEW x \in Interval, NEW y \in Interval, NEW q \in Nat \ {0}, Nested(y, x)
  PROVE  Nested(Scaled(y, q), Scaled(x, q))
<1>1. x.pos \in Nat /\ y.pos \in Nat /\ Top(x) \in Nat /\ Top(y) \in Nat
  BY IntervalTyped
<1>2. x.pos * q <= y.pos * q /\ Top(y) * q <= Top(x) * q
  BY <1>1, TimesMonotonic DEF Nested
<1> QED BY <1>2, ScaledTyped DEF Nested

\* A number in an interval is in every interval around it.
LEMMA InNested ==
  ASSUME NEW x \in Interval, NEW y \in Interval, NEW t \in Nat, Nested(y, x), In(t, y)
  PROVE  In(t, x)
<1>1. x.pos \in Nat /\ y.pos \in Nat /\ Top(x) \in Nat /\ Top(y) \in Nat
  BY IntervalTyped
<1> QED BY <1>1 DEF Nested, In

\* Finer steps keep a part the same part.
LEMMA PartScaled ==
  ASSUME NEW x \in Interval, NEW y \in Interval, NEW k \in Nat, NEW r \in Nat, NEW n \in 0..32,
         NEW m \in Nat \ {0}, Part(x, k, r, n, y)
  PROVE  Part(Scaled(x, m), k, r, n, Scaled(y, m))
<1> DEFINE q == Pow2(n)
           w == x.wt
           v == y.wt
           p == x.pos
<1>1. q \in Nat /\ w \in Nat /\ v \in Nat /\ p \in Nat
  BY PowerTyped, IntervalTyped
<1>2. y.range = r * q /\ w = v * q /\ y.pos = p + 128 * (k * w)
  BY DEF Part
<1> HIDE DEF q, w, v, p
<1>3. w * m = (v * m) * q /\ (p + 128 * (k * w)) * m = p * m + 128 * (k * (w * m))
  BY <1>1, <1>2
<1>4. /\ Scaled(x, m).pos = p * m /\ Scaled(x, m).wt = w * m
      /\ Scaled(y, m).pos = (p + 128 * (k * w)) * m /\ Scaled(y, m).wt = v * m
      /\ Scaled(y, m).range = r * q
  BY <1>2, ScaledTyped DEF p, w, v
<1> QED BY <1>3, <1>4 DEF Part, q

\* Finer steps keep the interval of a bypass string the one it selects.
LEMMA BypassScaled ==
  ASSUME NEW x \in Interval, NEW y \in Interval, NEW b \in Nat, NEW n \in 0..32,
         NEW m \in Nat \ {0}, Bypass(x, b, n, y)
  PROVE  Bypass(Scaled(x, m), b, n, Scaled(y, m))
<1> DEFINE q == Pow2(n)
           w == x.wt
           v == y.wt
           p == x.pos
           R == x.range
<1>1. q \in Nat /\ w \in Nat /\ v \in Nat /\ p \in Nat /\ R \in Nat
  BY PowerTyped, IntervalTyped
<1>2. y.ctx = x.ctx /\ y.range = R /\ w = v * q /\ y.pos = p + 128 * (b * (R * v)) /\ b < q
  BY DEF Bypass
<1> HIDE DEF q, w, v, p, R
<1>3. w * m = (v * m) * q /\ (p + 128 * (b * (R * v))) * m = p * m + 128 * (b * (R * (v * m)))
  BY <1>1, <1>2
<1>4. /\ Scaled(x, m).pos = p * m /\ Scaled(x, m).wt = w * m /\ Scaled(x, m).range = R
      /\ Scaled(y, m).pos = (p + 128 * (b * (R * v))) * m /\ Scaled(y, m).wt = v * m
      /\ Scaled(y, m).range = R /\ Scaled(y, m).ctx = Scaled(x, m).ctx
  BY <1>2, ScaledTyped DEF p, w, v, R
<1> QED BY <1>2, <1>3, <1>4 DEF Bypass, q

\* A bypass string is its first bins and then its last ones.
LEMMA BypassSplit ==
  ASSUME NEW x \in Interval, NEW y \in Interval, NEW b \in Nat, NEW n \in 0..32,
         NEW k \in 0..n, Bypass(x, b, n, y)
  PROVE  \E z \in Interval : /\ Bypass(x, b \div Pow2(k), n - k, z)
                             /\ Bypass(z, b % Pow2(k), k, y)
<1> DEFINE K == Pow2(k)
           M == Pow2(n - k)
           w == x.wt
           v == y.wt
           p == x.pos
           R == x.range
           h == b \div K
           l == b % K
           z == [ctx |-> x.ctx, range |-> R, pos |-> p + 128 * (h * (R * (v * K))), wt |-> v * K]
<1>1. /\ K \in Nat \ {0} /\ M \in Nat \ {0} /\ w \in Nat /\ v \in Nat \ {0} /\ p \in Nat /\ R \in Nat
      /\ x.ctx \in [Ctx -> ModelType] /\ R \in Range9
  <2>1. n - k \in 0..32 /\ k \in 0..32
    OBVIOUS
  <2> QED BY <2>1, PowerTyped, IntervalTyped
<1>2. /\ y.ctx = x.ctx /\ y.range = R /\ w = v * (M * K) /\ y.pos = p + 128 * (b * (R * v))
      /\ b < M * K
  <2>1. n - k \in 0..32 /\ k \in 0..32 /\ (n - k) + k = n
    OBVIOUS
  <2>2. Pow2(n) = M * K
    BY <2>1, PowerSum
  <2> QED BY <2>2 DEF Bypass
<1>3. h \in Nat /\ l \in Nat /\ b = h * K + l /\ l < K
  <2> HIDE DEF K
  <2>1. b \div K \in Nat /\ b % K \in Nat /\ b = K * (b \div K) + (b % K) /\ b % K < K
    BY <1>1
  <2> QED BY <1>1, <2>1
<1> HIDE DEF K, M, w, v, p, R, h, l
<1>4. v * K \in Nat \ {0} /\ h * (R * (v * K)) \in Nat
  <2>1. v * K \in Nat \ {0}
    <3> DEFINE c == K - 1
    <3>1. c \in Nat /\ K = c + 1
      BY <1>1
    <3> HIDE DEF c
    <3>2. v * (c + 1) = v * c + v /\ v * c \in Nat
      BY <1>1, <3>1
    <3> QED BY <1>1, <3>1, <3>2
  <2>2. R * (v * K) \in Nat
    BY <1>1, <2>1
  <2> QED BY <1>3, <2>1, <2>2
<1>5. h < M
  <2> SUFFICES ASSUME M <= h PROVE FALSE
    BY <1>1, <1>3
  <2>1. M * K <= h * K /\ h * K \in Nat /\ M * K \in Nat
    BY <1>1, <1>3, TimesMonotonic
  <2> QED BY <1>2, <1>3, <2>1
<1>6. z \in Interval
  BY <1>1, <1>4 DEF Interval
<1>7. Bypass(x, h, n - k, z)
  <2>1. w = (v * K) * M
    BY <1>1, <1>2
  <2> QED BY <1>5, <2>1 DEF Bypass, M, w, p, R
<1>8. Bypass(z, l, k, y)
  <2>1. b * (R * v) = h * (R * (v * K)) + l * (R * v)
    BY <1>1, <1>3
  <2>2. p + 128 * (b * (R * v)) = p + 128 * (h * (R * (v * K))) + 128 * (l * (R * v))
    <3> DEFINE A == h * (R * (v * K))
               B == l * (R * v)
    <3>1. A \in Nat /\ B \in Nat
      <4>1. R * v \in Nat
        BY <1>1
      <4> QED BY <1>3, <1>4, <4>1
    <3> HIDE DEF A, B
    <3>2. p + 128 * (A + B) = p + 128 * A + 128 * B
      BY <1>1, <3>1
    <3> QED BY <2>1, <3>2 DEF A, B
  <2> QED BY <1>2, <1>3, <2>2 DEF Bypass, K, v
<1> QED BY <1>6, <1>7, <1>8 DEF h, l, K

(* ------------------------- the number the encoder writes ------------------------- *)

\* The bytes of the encoder, the ones held back included.
Size(e) == Len(e.out) + e.numBufferedBytes
OutByte(e, j) == IF j <= Len(e.out) THEN e.out[j]
                 ELSE IF j = Len(e.out) + 1 THEN e.bufferedByte ELSE 255

\* P[j] is the number that the first j bytes are, H[j] the power 256^j.
Numbers(e, P, H) ==
  /\ P \in [Nat -> Nat] /\ P[0] = 0 /\ \A j \in 1..Size(e) : P[j] = 256 * P[j - 1] + OutByte(e, j)
  /\ H \in [Nat -> Nat] /\ H[0] = 1 /\ \A j \in 1..Size(e) : H[j] = 256 * H[j - 1]

\* V is the number that bytes and low register are, total the 2^bits they have been
\* moved up by.
Worth(e, P, H, V, total) ==
  /\ Numbers(e, P, H)
  /\ V = P[Size(e)] * Pow2(32 - e.bitsLeft) + e.low
  /\ total = H[Size(e)] * Pow2(23 - e.bitsLeft)
  /\ e.numBufferedBytes = 0 => e.bufferedByte = 255
Codes(e, V, total) == \E P, H : Worth(e, P, H, V, total)

\* The bytes of f are those of e, with the carry c in those held back, and lead below.
Grows(e, f, c, lead) ==
  /\ Size(f) = Size(e) + 1
  /\ \A j \in 1..Len(e.out) : OutByte(f, j) = e.out[j]
  /\ e.numBufferedBytes > 0 => OutByte(f, Len(e.out) + 1) = e.bufferedByte + c
  /\ \A j \in Len(e.out) + 2..Size(e) : OutByte(f, j) = 255 - 255 * c
  /\ OutByte(f, Size(f)) = lead
  /\ e.numBufferedBytes = 0 => c = 0
  /\ f.numBufferedBytes # 0

\* The number stays the same when a byte moves from the register to the bytes, and
\* a carry to the bytes held back.
LEMMA GrowCodes ==
  ASSUME NEW e \in FullType, NEW f \in EncoderType, NEW V, NEW total, Codes(e, V, total),
         NEW c \in 0..1, NEW lead \in Byte, Grows(e, f, c, lead),
         f.bitsLeft = e.bitsLeft + 8,
         e.low = (256 * c + lead) * Pow2(24 - e.bitsLeft) + f.low
  PROVE  Codes(f, V, total)
<1> DEFINE L == Len(e.out)
           B == Size(e)
           nb == e.numBufferedBytes
           b == e.bitsLeft
<1>1. PICK P, H : Worth(e, P, H, V, total)
  BY DEF Codes
<1>2. /\ L \in Nat /\ nb \in Nat /\ B = L + nb /\ B \in Nat /\ b \in 4..11 /\ f.bitsLeft = b + 8
      /\ e.low \in Nat /\ f.low \in Nat /\ lead \in 0..255 /\ lead \in Nat
  <2>1. L \in Nat /\ nb \in Nat /\ e.low \in Nat /\ f.low \in Nat /\ b \in 4..11
    BY DEF FullType, FewLeft, EncoderType
  <2>2. lead \in 0..255
    BY DEF Byte
  <2> HIDE DEF L, nb, b
  <2> QED BY <2>1, <2>2, SMTT(20) DEF Size, L, nb, b
<1>3. /\ P \in [Nat -> Nat] /\ P[0] = 0 /\ \A j \in 1..B : P[j] = 256 * P[j - 1] + OutByte(e, j)
      /\ H \in [Nat -> Nat] /\ H[0] = 1 /\ \A j \in 1..B : H[j] = 256 * H[j - 1]
      /\ V = P[B] * Pow2(32 - b) + e.low /\ total = H[B] * Pow2(23 - b)
  BY <1>1 DEF Worth, Numbers
<1>4. /\ \A j \in 1..L : OutByte(e, j) = e.out[j]
      /\ OutByte(e, L + 1) = e.bufferedByte
      /\ \A j \in L + 2..B : OutByte(e, j) = 255
  BY <1>2 DEF OutByte
<1>5. /\ Size(f) = B + 1
      /\ \A j \in 1..L : OutByte(f, j) = e.out[j]
      /\ nb > 0 => OutByte(f, L + 1) = e.bufferedByte + c
      /\ \A j \in L + 2..B : OutByte(f, j) = 255 - 255 * c
      /\ OutByte(f, B + 1) = lead
      /\ nb = 0 => c = 0
      /\ f.numBufferedBytes # 0
  BY DEF Grows
<1>6. e.bufferedByte \in Nat
  <2>1. e.bufferedByte \in Byte
    BY DEF FullType
  <2> QED BY <2>1 DEF Byte
<1> HIDE DEF L, B, nb, b
<1> DEFINE P2 == [j \in Nat |-> IF j <= L THEN P[j] ELSE IF j <= B THEN P[j] + c
                                ELSE 256 * (P[B] + c) + lead]
           H2 == [j \in Nat |-> IF j <= B THEN H[j] ELSE 256 * H[B]]
<1>7. \A j \in Nat : P[j] \in Nat /\ H[j] \in Nat
  BY <1>3
<1>8. P2 \in [Nat -> Nat] /\ H2 \in [Nat -> Nat]
  <2>1. ASSUME NEW j \in Nat PROVE P2[j] \in Nat /\ H2[j] \in Nat
    <3>1. P[j] \in Nat /\ P[B] \in Nat /\ H[j] \in Nat /\ H[B] \in Nat
      BY <1>2, <1>7
    <3> QED BY <1>2, <3>1
  <2> QED BY <2>1
<1>9. /\ \A j \in 0..L : P2[j] = P[j]
      /\ \A j \in L + 1..B : P2[j] = P[j] + c
      /\ P2[B + 1] = 256 * (P[B] + c) + lead
      /\ \A j \in 0..B : H2[j] = H[j]
      /\ H2[B + 1] = 256 * H[B]
  BY <1>2
<1> HIDE DEF P2, H2
<1>10. P2[B] = P[B] + c
  <2>1. CASE nb = 0
    <3>1. B = L /\ c = 0 /\ B \in 0..L
      BY <1>2, <1>5, <2>1
    <3> QED BY <1>7, <1>9, <3>1, <1>2
  <2>2. CASE nb # 0
    <3>1. B \in L + 1..B
      BY <1>2, <2>2
    <3> QED BY <1>9, <3>1
  <2> QED BY <2>1, <2>2
<1>11. ASSUME NEW j \in 1..B + 1 PROVE P2[j] = 256 * P2[j - 1] + OutByte(f, j)
  <2>0. j \in Nat /\ j - 1 \in Nat
    BY <1>2
  <2>1. CASE j <= L
    <3>1. j \in 1..B /\ j \in 0..L /\ j - 1 \in 0..L /\ j \in 1..L
      BY <1>2, <2>1
    <3> QED BY <1>3, <1>4, <1>5, <1>9, <3>1
  <2>2. CASE j = L + 1 /\ j <= B
    <3>1. j \in 1..B /\ j \in L + 1..B /\ j - 1 \in 0..L /\ nb > 0
      BY <1>2, <2>2
    <3>2. P2[j] = P[j] + c /\ P2[j - 1] = P[j - 1] /\ P[j] = 256 * P[j - 1] + e.bufferedByte
          /\ OutByte(f, j) = e.bufferedByte + c
      BY <1>3, <1>4, <1>5, <1>9, <2>2, <3>1
    <3> QED BY <3>2, <1>6, <1>7, <2>0
  <2>3. CASE j > L + 1 /\ j <= B
    <3>1. j \in 1..B /\ j \in L + 1..B /\ j - 1 \in L + 1..B /\ j \in L + 2..B
      BY <1>2, <2>3
    <3>2. P2[j] = P[j] + c /\ P2[j - 1] = P[j - 1] + c /\ P[j] = 256 * P[j - 1] + 255
          /\ OutByte(f, j) = 255 - 255 * c
      BY <1>3, <1>4, <1>5, <1>9, <3>1
    <3> QED BY <3>2, <1>7, <2>0
  <2>4. CASE j = B + 1
    <3>1. P2[j - 1] = P[B] + c /\ P2[j] = 256 * (P[B] + c) + lead /\ OutByte(f, j) = lead
      BY <1>2, <1>5, <1>9, <1>10, <2>4
    <3> QED BY <3>1
  <2> QED BY <1>2, <2>1, <2>2, <2>3, <2>4
<1>12. ASSUME NEW j \in 1..B + 1 PROVE H2[j] = 256 * H2[j - 1]
  <2>1. CASE j <= B
    <3>1. j \in 1..B /\ j \in 0..B /\ j - 1 \in 0..B
      BY <1>2, <2>1
    <3> QED BY <1>3, <1>9, <3>1
  <2>2. CASE j = B + 1
    <3>1. j - 1 = B /\ B \in 0..B
      BY <1>2, <2>2
    <3> QED BY <1>9, <2>2, <3>1
  <2> QED BY <1>2, <2>1, <2>2
<1>13. P2[0] = 0 /\ H2[0] = 1
  <2>1. 0 \in 0..L /\ 0 \in 0..B
    BY <1>2
  <2> QED BY <1>3, <1>9, <2>1
<1>14. V = P2[B + 1] * Pow2(32 - f.bitsLeft) + f.low
  <2> DEFINE k == Pow2(24 - b)
             p == P[B]
  <2>1. k \in Nat /\ Pow2(32 - b) = 256 * k /\ Pow2(32 - f.bitsLeft) = k
    <3>1. 24 - b \in 13..20 /\ 32 - b = (24 - b) + 8 /\ 32 - f.bitsLeft = 24 - b /\ 8 \in 0..32
      BY <1>2
    <3>2. 24 - b \in 0..32 /\ (24 - b) + 8 <= 32
      BY <3>1
    <3>3. Pow2((24 - b) + 8) = Pow2(24 - b) * Pow2(8)
      BY <3>1, <3>2, PowerSum
    <3>4. Pow2(8) = 256 /\ Pow2(24 - b) \in Nat
      BY <3>2, Powers, PowerTyped
    <3> QED BY <3>1, <3>3, <3>4
  <2>2. p \in Nat
    BY <1>2, <1>7
  <2>3. V = p * (256 * k) + ((256 * c + lead) * k + f.low)
    BY <1>3, <2>1 DEF b
  <2>4. P2[B + 1] = 256 * (p + c) + lead
    BY <1>9
  <2> HIDE DEF k, p
  <2>5. p * (256 * k) + ((256 * c + lead) * k + f.low) = (256 * (p + c) + lead) * k + f.low
    BY <1>2, <2>1, <2>2
  <2> QED BY <2>1, <2>3, <2>4, <2>5
<1>15. total = H2[B + 1] * Pow2(23 - f.bitsLeft)
  <2>1. 23 - f.bitsLeft \in 0..32 /\ 23 - b = (23 - f.bitsLeft) + 8 /\ (23 - f.bitsLeft) + 8 <= 32 /\ 8 \in 0..32
    BY <1>2
  <2> DEFINE k == Pow2(23 - f.bitsLeft)
             h == H[B]
  <2>2. Pow2(23 - b) = k * Pow2(8) /\ Pow2(8) = 256 /\ k \in Nat /\ h \in Nat
    <3>1. Pow2((23 - f.bitsLeft) + 8) = Pow2(23 - f.bitsLeft) * Pow2(8)
      BY <2>1, PowerSum
    <3>2. k \in Nat /\ h \in Nat
      BY <1>2, <1>7, <2>1, PowerTyped
    <3> QED BY <2>1, <3>1, <3>2, Powers
  <2>3. total = h * Pow2(23 - b) /\ H2[B + 1] = 256 * h
    BY <1>3, <1>9
  <2> HIDE DEF k, h
  <2>4. total = (256 * h) * k
    BY <2>2, <2>3
  <2> QED BY <2>3, <2>4 DEF k
<1>16. Numbers(f, P2, H2)
  BY <1>5, <1>8, <1>11, <1>12, <1>13 DEF Numbers
<1>17. Worth(f, P2, H2, V, total)
  BY <1>5, <1>14, <1>15, <1>16 DEF Worth
<1> QED BY <1>17 DEF Codes

\* Behind the bytes written and one more, a run of equal bytes.
EndsInRun(t, s, a, z, n) ==
  /\ t \in Seq(Byte) /\ Len(t) = Len(s) + n
  /\ \A j \in 1..Len(s) : t[j] = s[j]
  /\ t[Len(s) + 1] = a
  /\ \A j \in Len(s) + 2..Len(s) + n : t[j] = z

\* What writeOut() appends ends in a byte and a run of equal bytes.
LEMMA RunAppended ==
  ASSUME NEW s \in Seq(Byte), NEW a \in Byte, NEW z \in Byte, NEW n \in Nat \ {0}
  PROVE  EndsInRun(s \o <<a>> \o [i \in 1..n - 1 |-> z], s, a, z, n)
<1> DEFINE run == [i \in 1..n - 1 |-> z]
           u == s \o <<a>>
           t == u \o run
           L == Len(s)
<1>1. n - 1 \in Nat /\ L \in Nat
  OBVIOUS
<1>2. /\ run \in Seq(Byte) /\ Len(run) = n - 1 /\ \A i \in 1..n - 1 : run[i] = z
  <2> DEFINE m == n - 1
  <2>1. m \in Nat
    BY <1>1
  <2> HIDE DEF m
  <2>2. [i \in 1..m |-> z] \in Seq(Byte) /\ Len([i \in 1..m |-> z]) = m
    BY <2>1
  <2> QED BY <2>2 DEF m
<1>3. /\ u \in Seq(Byte) /\ Len(u) = L + 1 /\ u[L + 1] = a /\ \A j \in 1..L : u[j] = s[j]
  BY <1>1
<1> HIDE DEF run, u
<1>4. /\ t \in Seq(Byte) /\ Len(t) = Len(u) + Len(run)
      /\ \A j \in 1..Len(u) + Len(run) : t[j] = IF j <= Len(u) THEN u[j] ELSE run[j - Len(u)]
  BY <1>2, <1>3, ConcatProperties, Zenon
<1> HIDE DEF t, L
<1>5. Len(t) = L + n /\ \A j \in 1..L + n : t[j] = IF j <= L + 1 THEN u[j] ELSE run[j - (L + 1)]
  BY <1>1, <1>2, <1>3, <1>4
<1>6. \A j \in 1..L : t[j] = s[j]
  <2> SUFFICES ASSUME NEW j \in 1..L PROVE t[j] = s[j]
    OBVIOUS
  <2>1. j \in 1..L + n /\ j <= L + 1
    BY <1>1
  <2> QED BY <1>3, <1>5, <2>1
<1>7. t[L + 1] = a
  <2>1. L + 1 \in 1..L + n
    BY <1>1
  <2> QED BY <1>3, <1>5, <2>1
<1>8. \A j \in L + 2..L + n : t[j] = z
  <2> SUFFICES ASSUME NEW j \in L + 2..L + n PROVE t[j] = z
    OBVIOUS
  <2>1. j \in 1..L + n /\ ~(j <= L + 1) /\ j - (L + 1) \in 1..n - 1
    BY <1>1
  <2> QED BY <1>2, <1>5, <2>1
<1> QED BY <1>4, <1>5, <1>6, <1>7, <1>8 DEF EndsInRun, t, u, run, L

\* writeOut() keeps the number.
LEMMA WriteOutCodes ==
  ASSUME NEW e \in FullType, Absorbs(e), NEW V, NEW total, Codes(e, V, total)
  PROVE  Codes(WriteOut(e), V, total) /\ WriteOut(e).range = e.range
<1> DEFINE k == 24 - e.bitsLeft
           lead == Lead(e.low, k)
           rem == Rest(e.low, k)
           w == IF e.numBufferedBytes = 0 \/ e.bufferedByte = 255 THEN 256 ELSE 512
           nb == e.numBufferedBytes
           bb == e.bufferedByte
           L == Len(e.out)
           f == WriteOut(e)
<1>1. /\ e.low \in Nat /\ e.range \in Range9 /\ bb \in Byte /\ nb \in Nat /\ e.bitsLeft \in 4..11
      /\ e.out \in Seq(Byte) /\ L \in Nat
  BY DEF FullType, FewLeft
<1>2. k \in 13..20 /\ 32 - e.bitsLeft = k + 8
  BY <1>1
<1>3. Pow2(k) \in Nat \ {0} /\ Pow2(k + 8) = 256 * Pow2(k)
  <2>1. k \in 0..32 /\ 8 \in 0..32 /\ k + 8 <= 32
    BY <1>2
  <2> HIDE DEF k
  <2>2. Pow2(k) \in Nat \ {0}
    BY <2>1, PowerTyped
  <2>3. Pow2(k + 8) = Pow2(k) * Pow2(8)
    BY <2>1, PowerSum
  <2> QED BY <2>2, <2>3, Powers
<1>4. e.low + e.range <= w * Pow2(k)
  <2>1. Pow2(32 - e.bitsLeft) = 256 * Pow2(k)
    BY <1>2, <1>3
  <2> QED BY <1>1, <1>3, <2>1 DEF Absorbs
<1>5. w \in Widths /\ (w = 256 <=> nb = 0 \/ bb = 255)
  BY DEF Widths
<1> HIDE DEF w
<1>6. lead \in 0..w - 1 /\ rem \in Nat /\ e.low = lead * Pow2(k) + rem
  <2>1. k \in ByteShifts
    BY <1>2 DEF ByteShifts
  <2> HIDE DEF k
  <2>2. Lead(e.low, k) \in 0..w - 1 /\ Rest(e.low, k) \in Nat
    BY <1>1, <1>4, <1>5, <2>1, LeadBounds
  <2> DEFINE p == Pow2(k)
  <2>3. p \in Nat \ {0}
    BY <1>3
  <2> HIDE DEF p
  <2>5. ASSUME NEW a \in Nat PROVE a = (a \div p) * p + (a % p)
    <3>1. a = p * (a \div p) + (a % p) /\ a \div p \in Nat
      BY <2>3
    <3> QED BY <2>3, <3>1
  <2>4. e.low = (e.low \div p) * p + (e.low % p)
    BY <1>1, <2>5
  <2> QED BY <2>2, <2>4 DEF Lead, Rest, p
<1>7. f \in EncoderType
  BY WriteOutFits
<1> DEFINE kept == [e EXCEPT !.bitsLeft = @ + 8, !.low = rem]
<1>8. f =
        CASE lead = 255 -> [kept EXCEPT !.numBufferedBytes = @ + 1]
          [] lead # 255 /\ e.numBufferedBytes = 0 ->
               [kept EXCEPT !.numBufferedBytes = 1, !.bufferedByte = lead]
          [] OTHER ->
               [kept EXCEPT !.numBufferedBytes = 1, !.bufferedByte = lead % 256,
                  !.out = @ \o <<e.bufferedByte + (lead \div 256)>>
                            \o [i \in 1..e.numBufferedBytes - 1 |-> (255 + (lead \div 256)) % 256]]
  BY DEF WriteOut, Lead, Rest, lead, rem, k, kept
<1>9. /\ kept.low = rem /\ kept.range = e.range /\ kept.bufferedByte = bb
      /\ kept.numBufferedBytes = nb /\ kept.bitsLeft = e.bitsLeft + 8 /\ kept.out = e.out
      /\ kept \in [low : Nat, range : Range9, bufferedByte : Byte, numBufferedBytes : Nat,
                   bitsLeft : Nat, out : Seq(Byte)]
  <2>1. rem \in Nat
    BY <1>6
  <2> HIDE DEF rem
  <2> DEFINE b == e.bitsLeft + 8
  <2>2. b \in Nat
    BY <1>1
  <2> HIDE DEF b
  <2>3. kept = [e EXCEPT !.bitsLeft = b, !.low = rem]
    BY DEF b
  <2>4. /\ kept.low = rem /\ kept.range = e.range /\ kept.bufferedByte = bb
        /\ kept.numBufferedBytes = nb /\ kept.bitsLeft = b /\ kept.out = e.out
        /\ kept \in [low : Nat, range : Range9, bufferedByte : Byte, numBufferedBytes : Nat,
                     bitsLeft : Nat, out : Seq(Byte)]
    BY <2>1, <2>2, <2>3 DEF FullType
  <2> QED BY <2>4 DEF b
<1>10. Codes(e, V, total)
  OBVIOUS
<1>14. nb = 0 => bb = 255
  BY <1>10 DEF Codes, Worth
<1> HIDE DEF kept, f, lead, rem
<1>11. CASE lead = 255
  <2>1. /\ f.low = rem /\ f.range = e.range /\ f.bufferedByte = bb
        /\ f.numBufferedBytes = nb + 1 /\ f.bitsLeft = e.bitsLeft + 8 /\ f.out = e.out
    BY <1>8, <1>9, <1>11
  <2>2. Grows(e, f, 0, 255)
    <3>1. Size(f) = Size(e) + 1 /\ Size(e) = L + nb /\ f.numBufferedBytes # 0
      BY <1>1, <2>1 DEF Size
    <3>2. \A j \in 1..L : OutByte(f, j) = e.out[j]
      BY <1>1, <2>1 DEF OutByte
    <3>3. OutByte(f, L + 1) = bb + 0
      <4>2. \A v \in Byte : v \in Nat
        BY DEF Byte
      <4>1. bb \in Nat
        BY <1>1, <4>2
      <4> QED BY <1>1, <2>1, <4>1 DEF OutByte
    <3>4. \A j \in L + 2..L + nb : OutByte(f, j) = 255 - 255 * 0
      BY <1>1, <2>1 DEF OutByte
    <3>5. OutByte(f, L + nb + 1) = 255
      <4>1. CASE nb = 0
        BY <1>1, <1>14, <2>1, <4>1 DEF OutByte
      <4>2. CASE nb # 0
        BY <1>1, <2>1, <4>2 DEF OutByte
      <4> QED BY <4>1, <4>2
    <3> QED BY <3>1, <3>2, <3>3, <3>4, <3>5 DEF Grows
  <2>3. e.low = (256 * 0 + 255) * Pow2(24 - e.bitsLeft) + f.low
    BY <1>6, <1>11, <2>1
  <2>4. 0 \in 0..1 /\ 255 \in Byte
    BY DEF Byte
  <2>5. Codes(f, V, total)
    BY <1>7, <2>1, <2>2, <2>3, <2>4, GrowCodes
  <2> QED BY <2>1, <2>5 DEF f
<1>12. CASE lead # 255 /\ nb = 0
  <2>1. /\ f.low = rem /\ f.range = e.range /\ f.bufferedByte = lead
        /\ f.numBufferedBytes = 1 /\ f.bitsLeft = e.bitsLeft + 8 /\ f.out = e.out
    BY <1>8, <1>9, <1>12
  <2>2. Grows(e, f, 0, lead)
    <3>1. Size(f) = Size(e) + 1 /\ Size(e) = L /\ f.numBufferedBytes # 0
      BY <1>1, <1>12, <2>1 DEF Size
    <3>2. \A j \in 1..L : OutByte(f, j) = e.out[j]
      BY <1>1, <2>1 DEF OutByte
    <3>3. ~(e.numBufferedBytes > 0)
      BY <1>12
    <3>4. \A j \in L + 2..L : OutByte(f, j) = 255 - 255 * 0
      BY <1>1
    <3>5. OutByte(f, L + 1) = lead
      BY <1>1, <2>1 DEF OutByte
    <3> QED BY <1>12, <3>1, <3>2, <3>3, <3>4, <3>5 DEF Grows
  <2>3. lead \in 0..255
    BY <1>5, <1>6, <1>12
  <2>4. e.low = (256 * 0 + lead) * Pow2(24 - e.bitsLeft) + f.low
    BY <1>6, <2>1, <2>3
  <2>5. 0 \in 0..1 /\ lead \in Byte
    BY <2>3 DEF Byte
  <2>6. Codes(f, V, total)
    BY <1>7, <2>1, <2>2, <2>4, <2>5, GrowCodes
  <2> QED BY <2>1, <2>6 DEF f
<1>13. CASE lead # 255 /\ nb # 0
  <2> DEFINE c == lead \div 256
             z == (255 + c) % 256
             low8 == lead % 256
  <2>1. /\ f.low = rem /\ f.range = e.range /\ f.bufferedByte = low8
        /\ f.numBufferedBytes = 1 /\ f.bitsLeft = e.bitsLeft + 8
    BY <1>8, <1>9, <1>13
  <2>11. f.out = e.out \o <<bb + c>> \o [i \in 1..nb - 1 |-> z]
    BY <1>8, <1>9, <1>13
  <2>2. lead \in 0..511 /\ (bb = 255 => lead \in 0..255)
    BY <1>5, <1>6 DEF Widths
  <2>3. /\ c \in 0..1 /\ low8 \in 0..255 /\ lead = 256 * c + low8 /\ z = 255 - 255 * c
        /\ (bb = 255 => c = 0)
    BY <2>2
  <2> HIDE DEF c, z, low8
  <2>4. bb + c \in Byte /\ z \in Byte /\ low8 \in Byte /\ z = 255 - 255 * c
    <3>1. bb \in 0..255
      BY <1>1 DEF Byte
    <3>2. bb + c \in 0..255 /\ z \in 0..255
      BY <2>3, <3>1
    <3> QED BY <2>3, <3>2 DEF Byte
  <2>5. /\ Len(f.out) = L + nb
        /\ \A j \in 1..L : f.out[j] = e.out[j]
        /\ f.out[L + 1] = bb + c
        /\ \A j \in L + 2..L + nb : f.out[j] = z
    <3>1. nb \in Nat \ {0}
      BY <1>1, <1>13
    <3> DEFINE t == e.out \o <<bb + c>> \o [i \in 1..nb - 1 |-> z]
    <3>4. ASSUME NEW a \in Byte
          PROVE  EndsInRun(e.out \o <<a>> \o [i \in 1..nb - 1 |-> z], e.out, a, z, nb)
      BY <1>1, <2>4, <3>1, RunAppended
    <3>2. EndsInRun(t, e.out, bb + c, z, nb)
      BY <2>4, <3>4
    <3>3. f.out = t
      BY <2>11
    <3> HIDE DEF t
    <3> QED BY <3>2, <3>3 DEF EndsInRun
  <2>6. Grows(e, f, c, low8)
    <3>1. Size(f) = Size(e) + 1 /\ Size(e) = L + nb /\ f.numBufferedBytes # 0
      BY <1>1, <2>1, <2>5 DEF Size
    <3>2. \A j \in 1..L + nb : OutByte(f, j) = f.out[j]
      BY <2>5 DEF OutByte
    <3>3. OutByte(f, L + nb + 1) = low8
      BY <1>1, <2>1, <2>5 DEF OutByte
    <3>4. \A j \in 1..L : OutByte(f, j) = e.out[j]
      <4>1. \A j \in 1..L : j \in 1..L + nb
        BY <1>1
      <4> QED BY <2>5, <3>2, <4>1
    <3>5. OutByte(f, L + 1) = bb + c
      <4>1. L + 1 \in 1..L + nb
        BY <1>1, <1>13
      <4> QED BY <2>5, <3>2, <4>1
    <3>6. \A j \in L + 2..L + nb : OutByte(f, j) = 255 - 255 * c
      <4>1. \A j \in L + 2..L + nb : j \in 1..L + nb
        BY <1>1
      <4> QED BY <2>4, <2>5, <3>2, <4>1
    <3> QED BY <1>13, <3>1, <3>3, <3>4, <3>5, <3>6 DEF Grows
  <2>7. e.low = (256 * c + low8) * Pow2(24 - e.bitsLeft) + f.low
    BY <1>6, <2>1, <2>3
  <2>8. Codes(f, V, total)
    BY <1>7, <2>1, <2>3, <2>4, <2>6, <2>7, GrowCodes
  <2> QED BY <2>1, <2>8 DEF f
<1> QED BY <1>11, <1>12, <1>13

\* The encoder is sound and has written V in total steps of its finest unit.
Stood(e, V, total) ==
  e \in EncoderType /\ Absorbs(e) /\ V \in Nat /\ total \in Nat \ {0} /\ Codes(e, V, total)

\* Moving the register up by n bits and adding moves the number up and adds.
LEMMA PutCodes ==
  ASSUME NEW e, NEW V, NEW total, Stood(e, V, total), NEW n \in Shifts, NEW add \in Nat,
         NEW range \in Range9, add + range <= e.range * Pow2(n)
  PROVE  /\ Stood(Put(e, n, add, range), V * Pow2(n) + add, total * Pow2(n))
         /\ Put(e, n, add, range).range = range
<1> DEFINE b == e.bitsLeft - n
           q == Pow2(n)
           low == e.low * q + add
           f == Shifted(e, n, add, range)
           V2 == V * q + add
           total2 == total * q
<1>0. e \in EncoderType /\ Absorbs(e) /\ V \in Nat /\ total \in Nat \ {0} /\ Codes(e, V, total)
  BY DEF Stood
<1>1. /\ e.low \in Nat /\ e.bitsLeft \in 12..23 /\ Len(e.out) \in Nat /\ e.numBufferedBytes \in Nat
      /\ n \in 1..8
  <2>1. e.low \in Nat /\ e.bitsLeft \in BitsLeft /\ e.out \in Seq(Byte) /\ e.numBufferedBytes \in Nat
    BY <1>0 DEF EncoderType
  <2>2. n \in 1..8
    BY DEF Shifts
  <2> QED BY <2>1, <2>2 DEF BitsLeft
<1>2. Put(e, n, add, range) \in EncoderType /\ Absorbs(Put(e, n, add, range))
  BY <1>0, PutFits
<1>3. q \in Nat \ {0}
  <2>1. n \in 0..32
    BY <1>1
  <2> QED BY <2>1, PowerTyped
<1>4. low \in Nat /\ V2 \in Nat /\ total2 \in Nat \ {0} /\ b \in 4..22
  <2> HIDE DEF q
  <2>1. low \in Nat /\ V2 \in Nat
    BY <1>0, <1>1, <1>3, SMTT(20)
  <2>2. total2 \in Nat \ {0}
    BY <1>0, <1>3, TimesPositive
  <2>3. b \in 4..22
    <3>1. \A c \in 12..23, i \in 1..8 : c - i \in 4..22
      OBVIOUS
    <3> QED BY ONLY <1>1, <3>1
  <2> HIDE DEF low, V2, total2, b
  <2> QED BY <2>1, <2>2, <2>3
<1>5. PICK P, H : Worth(e, P, H, V, total)
  BY <1>0 DEF Codes
<1>6. /\ f.low = low /\ f.range = range /\ f.bitsLeft = b /\ f.out = e.out
      /\ f.bufferedByte = e.bufferedByte /\ f.numBufferedBytes = e.numBufferedBytes
      /\ Absorbs(f) /\ IF b < 12 THEN f \in FullType ELSE f \in EncoderType
  BY <1>0, ShiftAbsorbs
<1>7. Size(f) = Size(e) /\ (\A j : OutByte(f, j) = OutByte(e, j)) /\ Size(e) \in Nat
  BY <1>1, <1>6 DEF Size, OutByte
<1> HIDE DEF f
<1>8. Worth(f, P, H, V2, total2)
  <2> DEFINE p == P[Size(e)]
             h == H[Size(e)]
             k == Pow2(32 - e.bitsLeft)
             l == Pow2(23 - e.bitsLeft)
  <2>1. p \in Nat /\ h \in Nat
    BY <1>5, <1>7 DEF Worth, Numbers
  <2>2. V = p * k + e.low /\ total = h * l
    BY <1>5 DEF Worth
  <2>3. /\ Pow2(32 - b) = k * q /\ Pow2(23 - b) = l * q /\ k \in Nat /\ l \in Nat
    <3>1. /\ 32 - e.bitsLeft \in 0..32 /\ 23 - e.bitsLeft \in 0..32 /\ n \in 0..32
          /\ (32 - e.bitsLeft) + n <= 32 /\ (23 - e.bitsLeft) + n <= 32
          /\ 32 - b = (32 - e.bitsLeft) + n /\ 23 - b = (23 - e.bitsLeft) + n
      <4> DEFINE c == e.bitsLeft
      <4>1. c \in 12..23
        BY <1>1
      <4>2. b = c - n
        OBVIOUS
      <4> HIDE DEF b, c
      <4>3. /\ 32 - c \in 0..32 /\ 23 - c \in 0..32 /\ n \in 0..32
            /\ (32 - c) + n <= 32 /\ (23 - c) + n <= 32
            /\ 32 - b = (32 - c) + n /\ 23 - b = (23 - c) + n
        BY ONLY <1>1, <4>1, <4>2
      <4> QED BY <4>3 DEF c
    <3>2. /\ Pow2((32 - e.bitsLeft) + n) = Pow2(32 - e.bitsLeft) * Pow2(n)
          /\ Pow2((23 - e.bitsLeft) + n) = Pow2(23 - e.bitsLeft) * Pow2(n)
      BY <3>1, PowerSum
    <3> QED BY <3>1, <3>2, PowerTyped
  <2> HIDE DEF p, h, k, l, q
  <2>4. V * q + add = p * (k * q) + (e.low * q + add)
    BY <1>1, <1>3, <2>1, <2>2, <2>3
  <2>5. total * q = h * (l * q)
    BY <1>3, <2>1, <2>2, <2>3
  <2>6. V2 = P[Size(f)] * Pow2(32 - f.bitsLeft) + f.low /\ total2 = H[Size(f)] * Pow2(23 - f.bitsLeft)
    BY <1>6, <1>7, <2>3, <2>4, <2>5 DEF p, h
  <2>7. Numbers(f, P, H) /\ (f.numBufferedBytes = 0 => f.bufferedByte = 255)
    BY <1>5, <1>6, <1>7 DEF Worth, Numbers
  <2> QED BY <2>6, <2>7 DEF Worth
<1>9. Codes(f, V2, total2)
  BY <1>8 DEF Codes
<1>10. Put(e, n, add, range) = IF b < 12 THEN WriteOut(f) ELSE f
  <2>1. Put(e, n, add, range) = IF f.bitsLeft < 12 THEN WriteOut(f) ELSE f
    BY DEF Put, Shifted, f
  <2> QED BY <1>6, <2>1
<1> HIDE DEF b, q, V2, total2
<1>11. CASE b < 12
  <2>1. Codes(WriteOut(f), V2, total2) /\ WriteOut(f).range = f.range
    BY <1>6, <1>9, <1>11, WriteOutCodes
  <2>2. Stood(WriteOut(f), V2, total2) /\ WriteOut(f).range = range
    BY <1>2, <1>4, <1>6, <1>10, <1>11, <2>1 DEF Stood
  <2> QED BY <1>10, <1>11, <2>2 DEF V2, total2, q
<1>12. CASE ~(b < 12)
  <2>2. Stood(f, V2, total2) /\ f.range = range
    BY <1>2, <1>4, <1>6, <1>9, <1>10, <1>12 DEF Stood
  <2> QED BY <1>10, <1>12, <2>2 DEF V2, total2, q
<1> QED BY <1>11, <1>12

(* ------------------------ the steps of the encoder ------------------------ *)

\* The part of a range that stands for a bin, and the shift that renormalises it.
BinCell(m, range, bin) ==
  LET lps == Lps(m, range)
  IN IF bin # Mps(m) THEN [low |-> range - lps, size |-> lps, shift |-> RenormBits(lps)]
     ELSE [low |-> 0, size |-> range - lps, shift |-> IF range - lps < 256 THEN 1 ELSE 0]

TrmCell(range, bin) ==
  IF bin = 1 THEN [low |-> range - 2, size |-> 2, shift |-> 7]
  ELSE [low |-> 0, size |-> range - 2, shift |-> IF range - 2 >= 256 THEN 0 ELSE 1]

CellFits(c, range) ==
  /\ c.low \in Nat /\ c.size \in Nat \ {0} /\ c.shift \in 0..7
  /\ c.low + c.size <= range
  /\ c.size * Pow2(c.shift) \in Range9
  /\ c.shift = 0 => c.low = 0

PutCell(e, c) ==
  IF c.shift = 0 THEN [e EXCEPT !.range = c.size]
  ELSE Put(e, c.shift, c.low * Pow2(c.shift), c.size * Pow2(c.shift))

\* The part of a range that encodeBin gives a bin is renormalised by its shift.
LEMMA BinCellFits ==
  ASSUME NEW m \in ModelType, NEW range \in Range9, NEW bin \in 0..1
  PROVE  CellFits(BinCell(m, range, bin), range)
<1> DEFINE lps == Lps(m, range)
           rest == range - lps
           n == RenormBits(lps)
           c == BinCell(m, range, bin)
<1>1. range \in 256..510
  BY DEF Range9
<1>2. lps \in 4..236 /\ rest \in 128..506 /\ rest + lps = range
  <2>2. lps \in LpsValues /\ rest \in MpsRests
    BY LpsBounds, Zenon
  <2> HIDE DEF lps
  <2>3. lps \in 4..236 /\ rest \in 128..506
    BY <2>2 DEF LpsValues, MpsRests
  <2> QED BY <1>1, <2>3
<1>3. n \in 1..6 /\ lps * Pow2(n) \in 256..510
  BY <1>2, RenormFits, Zenon
<1>4. c = IF bin # Mps(m) THEN [low |-> rest, size |-> lps, shift |-> n]
          ELSE [low |-> 0, size |-> rest, shift |-> IF rest < 256 THEN 1 ELSE 0]
  BY DEF BinCell
<1> HIDE DEF lps, rest, n, c
<1>5. CASE bin # Mps(m)
  <2>1. c.low = rest /\ c.size = lps /\ c.shift = n
    BY <1>4, <1>5
  <2>2. lps * Pow2(n) \in Range9
    BY <1>3 DEF Range9
  <2>3. rest \in Nat /\ lps \in Nat \ {0} /\ n \in 0..7 /\ n # 0 /\ rest + lps <= range
    BY <1>1, <1>2, <1>3
  <2> QED BY <2>1, <2>2, <2>3 DEF CellFits, c
<1>6. CASE bin = Mps(m)
  <2>1. c.low = 0 /\ c.size = rest /\ c.shift = IF rest < 256 THEN 1 ELSE 0
    BY <1>4, <1>6
  <2>2. rest * Pow2(IF rest < 256 THEN 1 ELSE 0) \in Range9
    BY <1>2, Powers DEF Range9
  <2>3. rest \in Nat \ {0} /\ 0 + rest <= range
    BY <1>1, <1>2
  <2> QED BY <2>1, <2>2, <2>3 DEF CellFits, c
<1> QED BY <1>5, <1>6

\* So is the part that encodeBinTrm gives a terminating bin.
LEMMA TrmCellFits ==
  ASSUME NEW range \in Range9, NEW bin \in 0..1
  PROVE  CellFits(TrmCell(range, bin), range)
<1> DEFINE r == range - 2
           c == TrmCell(range, bin)
<1>1. range \in 256..510 /\ r \in 254..508 /\ r + 2 = range
  <2>1. range \in 256..510
    BY DEF Range9
  <2> QED BY <2>1
<1>2. c = IF bin = 1 THEN [low |-> r, size |-> 2, shift |-> 7]
          ELSE [low |-> 0, size |-> r, shift |-> IF r >= 256 THEN 0 ELSE 1]
  BY DEF TrmCell
<1> HIDE DEF r, c
<1>3. CASE bin = 1
  <2>1. c.low = r /\ c.size = 2 /\ c.shift = 7
    BY <1>2, <1>3
  <2>2. 2 * Pow2(7) \in Range9
    BY Powers DEF Range9
  <2>3. r \in Nat /\ r + 2 <= range
    BY <1>1
  <2> QED BY <2>1, <2>2, <2>3 DEF CellFits, c
<1>4. CASE bin # 1
  <2>1. c.low = 0 /\ c.size = r /\ c.shift = IF r >= 256 THEN 0 ELSE 1
    BY <1>2, <1>4
  <2>2. r * Pow2(IF r >= 256 THEN 0 ELSE 1) \in Range9
    BY <1>1, Powers DEF Range9
  <2>3. r \in Nat \ {0} /\ 0 + r <= range
    BY <1>1
  <2> QED BY <2>1, <2>2, <2>3 DEF CellFits, c
<1> QED BY <1>3, <1>4

\* encodeBin moves the encoder to the part of its bin.
LEMMA PutBinCell ==
  ASSUME NEW e \in EncoderType, NEW m \in ModelType, NEW bin \in 0..1
  PROVE  PutBin(e, m, bin) = PutCell(e, BinCell(m, e.range, bin))
<1> DEFINE lps == Lps(m, e.range)
           rest == e.range - lps
           n == RenormBits(lps)
           c == BinCell(m, e.range, bin)
<1>2. lps \in 4..236 /\ rest \in 128..506
  <2>1. e.range \in Range9
    BY DEF EncoderType
  <2>2. lps \in LpsValues /\ rest \in MpsRests
    BY <2>1, LpsBounds, Zenon
  <2> HIDE DEF lps
  <2> QED BY <2>2 DEF LpsValues, MpsRests
<1>3. n \in 1..6
  BY <1>2, RenormFits, Zenon
<1>4. PutBin(e, m, bin) =
        CASE bin # Mps(m) -> Put(e, n, rest * Pow2(n), lps * Pow2(n))
          [] bin = Mps(m) /\ rest < 256 -> Put(e, 1, 0, 2 * rest)
          [] OTHER -> [e EXCEPT !.range = rest]
  BY DEF PutBin
<1>5. c = IF bin # Mps(m) THEN [low |-> rest, size |-> lps, shift |-> n]
          ELSE [low |-> 0, size |-> rest, shift |-> IF rest < 256 THEN 1 ELSE 0]
  BY DEF BinCell
<1> HIDE DEF lps, rest, n, c
<1>6. CASE bin # Mps(m)
  <2>1. c.low = rest /\ c.size = lps /\ c.shift = n /\ n # 0
    BY <1>3, <1>5, <1>6
  <2> QED BY <1>4, <1>6, <2>1 DEF PutCell, c
<1>7. CASE bin = Mps(m) /\ rest < 256
  <2>1. c.low = 0 /\ c.size = rest /\ c.shift = 1
    BY <1>5, <1>7
  <2>2. 0 * Pow2(1) = 0 /\ rest * Pow2(1) = 2 * rest
    BY <1>2, Powers
  <2> QED BY <1>4, <1>7, <2>1, <2>2 DEF PutCell, c
<1>8. CASE bin = Mps(m) /\ ~(rest < 256)
  <2>1. c.low = 0 /\ c.size = rest /\ c.shift = 0
    BY <1>5, <1>8
  <2> QED BY <1>4, <1>8, <2>1 DEF PutCell, c
<1> QED BY <1>6, <1>7, <1>8

\* encodeBinTrm moves it to the part of its bin.
LEMMA PutBinTrmCell ==
  ASSUME NEW e \in EncoderType, NEW bin \in 0..1
  PROVE  PutBinTrm(e, bin) = PutCell(e, TrmCell(e.range, bin))
<1> DEFINE r == e.range - 2
           c == TrmCell(e.range, bin)
<1>1. r \in 254..508
  <2>1. e.range \in Range9
    BY DEF EncoderType
  <2>2. e.range \in 256..510
    BY <2>1 DEF Range9
  <2> QED BY <2>2
<1>2. PutBinTrm(e, bin) =
        CASE bin = 1 -> Put(e, 7, r * Pow2(7), 2 * Pow2(7))
          [] bin = 0 /\ r >= 256 -> [e EXCEPT !.range = r]
          [] OTHER -> Put(e, 1, 0, 2 * r)
  BY DEF PutBinTrm
<1>3. c = IF bin = 1 THEN [low |-> r, size |-> 2, shift |-> 7]
          ELSE [low |-> 0, size |-> r, shift |-> IF r >= 256 THEN 0 ELSE 1]
  BY DEF TrmCell
<1> HIDE DEF r, c
<1>4. CASE bin = 1
  <2>1. c.low = r /\ c.size = 2 /\ c.shift = 7
    BY <1>3, <1>4
  <2> QED BY <1>2, <1>4, <2>1 DEF PutCell, c
<1>5. CASE bin = 0 /\ r >= 256
  <2>1. c.low = 0 /\ c.size = r /\ c.shift = 0
    BY <1>3, <1>5
  <2> QED BY <1>2, <1>5, <2>1 DEF PutCell, c
<1>6. CASE bin = 0 /\ ~(r >= 256)
  <2>1. c.low = 0 /\ c.size = r /\ c.shift = 1
    BY <1>3, <1>6
  <2>2. 0 * Pow2(1) = 0 /\ r * Pow2(1) = 2 * r
    BY <1>1, Powers
  <2> QED BY <1>2, <1>6, <2>1, <2>2 DEF PutCell, c
<1> QED BY <1>4, <1>5, <1>6

\* The number that is written grows by what lies below the part.
LEMMA CellCodes ==
  ASSUME NEW e, NEW V, NEW total, Stood(e, V, total), NEW c, CellFits(c, e.range)
  PROVE  /\ Stood(PutCell(e, c), V * Pow2(c.shift) + c.low * Pow2(c.shift), total * Pow2(c.shift))
         /\ PutCell(e, c).range = c.size * Pow2(c.shift)
<1> DEFINE q == Pow2(c.shift)
           k == c.low
           r == c.size
<1>0. /\ k \in Nat /\ r \in Nat \ {0} /\ c.shift \in 0..7 /\ k + r <= e.range /\ r * q \in Range9
      /\ (c.shift = 0 => k = 0) /\ e.range \in Nat /\ e \in EncoderType
  <2>1. e \in EncoderType
    BY DEF Stood
  <2>2. e.range \in Range9
    BY <2>1 DEF EncoderType
  <2>3. e.range \in Nat
    BY <2>2 DEF Range9
  <2> QED BY <2>1, <2>3 DEF CellFits
<1>1. q \in Nat \ {0}
  <2>1. c.shift \in 0..32
    BY <1>0
  <2> QED BY <2>1, PowerTyped
<1>2. CASE c.shift = 0
  <2> DEFINE f == [e EXCEPT !.range = r]
  <2>1. q = 1 /\ k = 0 /\ r * q = r /\ V \in Nat /\ total \in Nat \ {0}
    <3>1. q = 1
      BY <1>2, Powers
    <3> QED BY <1>0, <1>2, <3>1 DEF Stood
  <2>2. PutCell(e, c) = f
    BY <1>2 DEF PutCell
  <2>3. r \in Range9 /\ r <= e.range
    BY <1>0, <2>1
  <2>4. f \in EncoderType /\ Absorbs(f)
    BY <1>0, <2>3, NarrowFits DEF Stood
  <2>5. /\ f.low = e.low /\ f.range = r /\ f.bitsLeft = e.bitsLeft /\ f.out = e.out
        /\ f.bufferedByte = e.bufferedByte /\ f.numBufferedBytes = e.numBufferedBytes
    BY <1>0 DEF EncoderType
  <2> HIDE DEF f
  <2>6. PICK P, H : Worth(e, P, H, V, total)
    BY DEF Stood, Codes
  <2>7. Size(f) = Size(e) /\ \A j : OutByte(f, j) = OutByte(e, j)
    BY <2>5 DEF Size, OutByte
  <2>8. Worth(f, P, H, V, total)
    BY <2>5, <2>6, <2>7 DEF Worth, Numbers
  <2>9. Stood(f, V, total)
    BY <2>1, <2>4, <2>8 DEF Stood, Codes
  <2>10. V * q + k * q = V /\ total * q = total
    BY <2>1
  <2> QED BY <2>1, <2>2, <2>5, <2>9, <2>10
<1>3. CASE c.shift # 0
  <2>1. PutCell(e, c) = Put(e, c.shift, k * q, r * q)
    BY <1>3 DEF PutCell
  <2>2. c.shift \in Shifts
    BY <1>0, <1>3 DEF Shifts
  <2> DEFINE R == e.range
  <2>3. k * q \in Nat /\ k * q + r * q <= R * q
    <3>1. R \in Nat /\ k \in Nat /\ r \in Nat /\ k + r <= R /\ q \in Nat
      BY <1>0, <1>1
    <3> HIDE DEF q, R, k, r
    <3>2. (k + r) * q <= R * q
      <4>1. k + r \in Nat
        BY <3>1
      <4> QED BY <3>1, <4>1, TimesMonotonic
    <3>3. k * q \in Nat /\ (k + r) * q = k * q + r * q
      BY <3>1
    <3> QED BY <3>2, <3>3
  <2> QED BY <1>0, <2>1, <2>2, <2>3, PutCodes
<1> QED BY <1>2, <1>3

\* x is where the encoder stands, when all its number is counted in units of the last bit.
Placed(e, V, total, x) ==
  /\ Stood(e, V, total)
  /\ x \in Interval /\ x.range = e.range /\ x.pos = 128 * V /\ x.wt = 1

\* The encoder that has moved to a part of its range stands on that part of its
\* interval.
LEMMA CellPlaced ==
  ASSUME NEW e, NEW V, NEW total, NEW x, Placed(e, V, total, x), NEW c, CellFits(c, e.range),
         NEW ctx \in [Ctx -> ModelType]
  PROVE  \E V2, y : /\ Placed(PutCell(e, c), V2, total * Pow2(c.shift), y)
                    /\ Part(Scaled(x, Pow2(c.shift)), c.low, c.size, c.shift, y)
                    /\ y.ctx = ctx
<1> DEFINE q == Pow2(c.shift)
           k == c.low
           r == c.size
           f == PutCell(e, c)
           V2 == V * q + k * q
           y == [ctx |-> ctx, range |-> r * q, pos |-> 128 * V2, wt |-> 1]
<1>1. Stood(f, V2, total * q) /\ f.range = r * q
  BY CellCodes DEF Placed
<1>2. V2 \in Nat /\ r * q \in Range9 /\ V \in Nat /\ k \in Nat /\ q \in Nat \ {0}
  <2>1. c.shift \in 0..32
    BY DEF CellFits
  <2> QED BY <1>1, <2>1, PowerTyped DEF Stood, CellFits, Placed
<1> HIDE DEF f, V2
<1>3. y \in Interval
  <2>1. 128 * V2 \in Nat
    BY <1>2
  <2> QED BY <1>2, <2>1 DEF Interval
<1>4. Placed(f, V2, total * q, y)
  BY <1>1, <1>3 DEF Placed
<1>5. Part(Scaled(x, q), k, r, c.shift, y)
  <2>1. x \in Interval /\ x.pos = 128 * V /\ x.wt = 1
    BY DEF Placed
  <2>2. Scaled(x, q).pos = (128 * V) * q /\ Scaled(x, q).wt = 1 * q
    BY <1>2, <2>1, ScaledTyped
  <2>3. 128 * V2 = (128 * V) * q + 128 * (k * (1 * q)) /\ 1 * q = q
    <3> HIDE DEF q, k
    <3> QED BY <1>2 DEF V2
  <2> QED BY <2>2, <2>3 DEF Part
<1> QED BY <1>4, <1>5 DEF f

\* Two divisions are one by the product.
LEMMA DivTwice ==
  ASSUME NEW a \in Nat, NEW c \in Nat \ {0}, NEW d \in Nat \ {0}
  PROVE  (a \div c) \div d = a \div (c * d)
<1> DEFINE h == a \div c
           l == a % c
           u == h \div d
           v == h % d
<1>1. h \in Nat /\ l \in Nat /\ l < c /\ a = h * c + l
  BY DivSplit
<1> HIDE DEF h, l
<1>2. u \in Nat /\ v \in Nat /\ v < d /\ h = u * d + v
  BY <1>1, DivSplit
<1> HIDE DEF u, v
<1>3. c * d \in Nat \ {0}
  BY TimesPositive
<1>4. v * c + l \in Nat /\ v * c + l < c * d
  <2>1. v * c + c <= d * c
    BY <1>2, TimesStrict
  <2>2. v * c \in Nat /\ d * c \in Nat /\ d * c = c * d
    BY <1>2
  <2> QED BY <1>1, <2>1, <2>2
<1>5. a = u * (c * d) + (v * c + l)
  BY <1>1, <1>2
<1>6. a \div (c * d) = u
  BY <1>1, <1>2, <1>3, <1>4, <1>5, DivUnique
<1> QED BY <1>6 DEF u, h

\* The bypass string, its chunks 1 to i written.
Chunked(f, b, n, i, V, total, range) ==
  /\ Stood(f, V * Pow2(n - Below(n, i)) + (b \div Pow2(Below(n, i))) * range,
           total * Pow2(n - Below(n, i)))
  /\ f.range = range

\* The bins below a chunk are those below it and its own.
LEMMA BelowFalls ==
  ASSUME NEW n \in BinCounts, NEW i \in Chunks, ~(8 * (i - 1) >= n)
  PROVE  /\ Below(n, i) \in 0..24 /\ ChunkBins(n, i) \in 1..8
         /\ Below(n, i - 1) = Below(n, i) + ChunkBins(n, i)
         /\ Below(n, i - 1) \in 1..n
<1>1. n \in 0..32 /\ i \in 1..4
  BY DEF BinCounts, Chunks
<1>2. Below(n, i - 1) = n - 8 * (i - 1)
  BY <1>1 DEF Below
<1> QED BY <1>1, <1>2 DEF Below, ChunkBins

\* One more chunk of a bypass string adds its bins, each times the range.
LEMMA ChunkCodes ==
  ASSUME NEW V \in Nat, NEW total \in Nat \ {0}, NEW range, NEW n \in BinCounts, NEW b \in Nat,
         NEW i \in Chunks, NEW f, Chunked(f, b, n, i - 1, V, total, range)
  PROVE  Chunked(PutChunk(f, b, n, i), b, n, i, V, total, range)
<1>1. n \in 0..32 /\ i \in 1..4
  BY DEF BinCounts, Chunks
<1>2. CASE 8 * (i - 1) >= n
  <2>1. Below(n, i - 1) = 0 /\ Below(n, i) = 0
    BY <1>1, <1>2 DEF Below
  <2>2. PutChunk(f, b, n, i) = f
    BY <1>2 DEF PutChunk
  <2> QED BY <2>1, <2>2 DEF Chunked
<1>3. CASE ~(8 * (i - 1) >= n)
  <2> DEFINE m == Below(n, i - 1)
             k == Below(n, i)
             c == ChunkBins(n, i)
             q == Pow2(c)
             u == Pow2(n - m)
             h == b \div Pow2(m)
             g == b \div Pow2(k)
             pat == Pattern(b, n, i)
  <2>1. k \in 0..24 /\ c \in 1..8 /\ m = k + c /\ m \in 1..n
    BY <1>3, BelowFalls
  <2>11. f \in EncoderType /\ f.range = range /\ range \in Range9
    <3>1. f \in EncoderType /\ f.range = range
      BY DEF Chunked, Stood
    <3> QED BY <3>1 DEF EncoderType
  <2>12. range \in Nat
    BY <2>11 DEF Range9
  <2>2. PutChunk(f, b, n, i) = Put(f, c, range * pat, range)
    BY <1>3, <2>11 DEF PutChunk
  <2>3. Stood(f, V * u + h * range, total * u)
    BY DEF Chunked
  <2> HIDE DEF m, k, c
  <2>4. q \in Nat \ {0} /\ u \in Nat \ {0} /\ Pow2(m) \in Nat \ {0} /\ Pow2(k) \in Nat \ {0}
        /\ Pow2(m) = Pow2(k) * q /\ Pow2(n - k) = u * q
    <3>1. k \in 0..32 /\ c \in 0..32 /\ m \in 0..32 /\ n - m \in 0..32 /\ k + c <= 32
          /\ (n - m) + c <= 32 /\ n - k = (n - m) + c
      BY <1>1, <2>1
    <3>2. Pow2(k + c) = Pow2(k) * Pow2(c) /\ Pow2((n - m) + c) = Pow2(n - m) * Pow2(c)
      BY <3>1, PowerSum
    <3> QED BY <2>1, <3>1, <3>2, PowerTyped
  <2>5. g \in Nat /\ pat = g % q /\ h = g \div q
    <3>1. b \div Pow2(k) \in Nat
      BY <2>4, DivSplit
    <3>2. pat = (b \div Pow2(k)) % Pow2(c)
      BY DEF Pattern, k, c
    <3>3. (b \div Pow2(k)) \div q = b \div (Pow2(k) * q)
      BY <2>4, DivTwice
    <3> QED BY <2>4, <3>1, <3>2, <3>3
  <2> HIDE DEF q, u, h, g, pat
  <2>6. h \in Nat /\ pat \in Nat /\ pat < q /\ g = h * q + pat
    BY <2>4, <2>5, DivSplit
  <2>7. range * pat \in Nat /\ range * pat + range <= range * q
    <3>1. (pat + 1) * range <= q * range
      <4>1. pat + 1 \in Nat /\ pat + 1 <= q
        BY <2>4, <2>6
      <4> QED BY <2>4, <2>12, <4>1, TimesMonotonic
    <3>2. (pat + 1) * range = range * pat + range /\ q * range = range * q /\ range * pat \in Nat
      BY <2>4, <2>6, <2>12
    <3> QED BY <3>1, <3>2
  <2>8. c \in Shifts
    BY <2>1 DEF Shifts
  <2>9. /\ Stood(Put(f, c, range * pat, range), (V * u + h * range) * q + range * pat, (total * u) * q)
        /\ Put(f, c, range * pat, range).range = range
    <3>1. range * pat + range <= f.range * Pow2(c)
      BY <2>7, <2>11 DEF q
    <3> QED BY <2>3, <2>7, <2>8, <2>11, <3>1, PutCodes DEF q
  <2>10. (V * u + h * range) * q + range * pat = V * (u * q) + g * range /\ (total * u) * q = total * (u * q)
    <3>1. (V * u + h * range) * q = V * (u * q) + (h * q) * range
      BY <2>4, <2>6, <2>12
    <3>2. (h * q + pat) * range = (h * q) * range + range * pat
      BY <2>4, <2>6, <2>12
    <3>3. V * (u * q) \in Nat /\ (h * q) * range \in Nat /\ range * pat \in Nat
      BY <2>4, <2>6, <2>7, <2>12
    <3>4. (total * u) * q = total * (u * q)
      BY <2>4
    <3> QED BY <2>6, <3>1, <3>2, <3>3, <3>4
  <2> QED BY <2>2, <2>4, <2>9, <2>10 DEF Chunked, k, g
<1> QED BY <1>2, <1>3

\* A bypass string adds its value times the range.
LEMMA StringCodes ==
  ASSUME NEW e, NEW V, NEW total, Stood(e, V, total), NEW n \in BinCounts, NEW b \in Nat, b < Pow2(n)
  PROVE  /\ Stood(PutBinsEP(e, b, n), V * Pow2(n) + b * e.range, total * Pow2(n))
         /\ PutBinsEP(e, b, n).range = e.range
<1> DEFINE R == e.range
           e1 == PutChunk(e, b, n, 1)
           e2 == PutChunk(e1, b, n, 2)
           e3 == PutChunk(e2, b, n, 3)
           e4 == PutChunk(e3, b, n, 4)
<1>0. n \in 0..32 /\ V \in Nat /\ total \in Nat \ {0} /\ R \in Nat
  <2>1. e.range \in Range9
    BY DEF Stood, EncoderType
  <2> QED BY <2>1 DEF BinCounts, Stood, Range9
<1>1. Chunked(e, b, n, 1 - 1, V, total, R)
  <2>1. Below(n, 0) = n /\ 1 - 1 = 0 /\ n - n = 0
    BY <1>0 DEF Below
  <2>2. b \div Pow2(n) = 0
    <3>1. Pow2(n) \in Nat \ {0}
      BY <1>0, PowerTyped
    <3> DEFINE d == Pow2(n)
    <3>2. d \in Nat \ {0} /\ b < d
      BY <3>1
    <3> HIDE DEF d
    <3>3. b = 0 * d + b
      BY <3>2
    <3>4. b \div d = 0
      BY <3>2, <3>3, DivUnique
    <3> QED BY <3>4 DEF d
  <2>3. V * Pow2(0) + 0 * R = V /\ total * Pow2(0) = total
    BY <1>0, Powers
  <2> QED BY <2>1, <2>2, <2>3 DEF Chunked
<1>2. Chunked(e1, b, n, 1, V, total, R)
  BY <1>0, <1>1, ChunkCodes DEF Chunks
<1> HIDE DEF e1, R
<1>3. Chunked(e2, b, n, 2, V, total, R)
  <2>1. 2 \in Chunks /\ 2 - 1 = 1
    BY DEF Chunks
  <2> QED BY <1>0, <1>2, <2>1, ChunkCodes
<1> HIDE DEF e2
<1>4. Chunked(e3, b, n, 3, V, total, R)
  <2>1. 3 \in Chunks /\ 3 - 1 = 2
    BY DEF Chunks
  <2> QED BY <1>0, <1>3, <2>1, ChunkCodes
<1> HIDE DEF e3
<1>5. Chunked(e4, b, n, 4, V, total, R)
  <2>1. 4 \in Chunks /\ 4 - 1 = 3
    BY DEF Chunks
  <2> QED BY <1>0, <1>4, <2>1, ChunkCodes
<1>6. Below(n, 4) = 0 /\ n - 0 = n /\ b \div Pow2(0) = b
  BY <1>0, Powers DEF Below
<1>7. e4 = PutBinsEP(e, b, n)
  BY DEF PutBinsEP, e1, e2, e3
<1> HIDE DEF e4
<1> QED BY <1>5, <1>6, <1>7 DEF Chunked, R

\* The encoder that has added a bypass string stands on the interval the string
\* selects.
LEMMA BypassPlaced ==
  ASSUME NEW e, NEW V, NEW total, NEW x, Placed(e, V, total, x), NEW n \in 0..32, NEW b \in Nat,
         b < Pow2(n), NEW f, Stood(f, V * Pow2(n) + b * e.range, total * Pow2(n)),
         f.range = e.range
  PROVE  \E V2, y : Placed(f, V2, total * Pow2(n), y) /\ Bypass(Scaled(x, Pow2(n)), b, n, y)
<1> DEFINE q == Pow2(n)
           R == x.range
           V2 == V * q + b * R
           y == [ctx |-> x.ctx, range |-> R, pos |-> 128 * V2, wt |-> 1]
<1>1. Stood(f, V2, total * q) /\ f.range = R /\ x \in Interval /\ x.pos = 128 * V /\ x.wt = 1
  BY DEF Placed
<1>2. /\ V2 \in Nat /\ R \in Range9 /\ R \in Nat /\ V \in Nat /\ q \in Nat \ {0}
      /\ x.ctx \in [Ctx -> ModelType]
  BY <1>1, PowerTyped, IntervalTyped DEF Stood, Placed
<1>3. V2 = V * q + b * R
  OBVIOUS
<1> HIDE DEF V2
<1>4. y \in Interval
  <2>1. 128 * V2 \in Nat
    BY <1>2
  <2> QED BY <1>2, <2>1 DEF Interval
<1>5. Placed(f, V2, total * q, y)
  BY <1>1, <1>4 DEF Placed
<1>6. Bypass(Scaled(x, q), b, n, y)
  <2>2. /\ Scaled(x, q).pos = (128 * V) * q /\ Scaled(x, q).wt = 1 * q
        /\ Scaled(x, q).ctx = x.ctx /\ Scaled(x, q).range = R
    BY <1>1, <1>2, ScaledTyped
  <2>3. 128 * V2 = (128 * V) * q + 128 * (b * (R * 1)) /\ 1 * q = q
    <3> HIDE DEF q, R
    <3>1. R * 1 = R /\ b * R \in Nat /\ V * q \in Nat
      BY <1>2
    <3> QED BY <1>2, <1>3, <3>1
  <2> QED BY <2>2, <2>3 DEF Bypass
<1> QED BY <1>5, <1>6

(* -------------------------- the trace of the intervals -------------------------- *)

\* y is the part of x that the symbol s selects, by the kind of symbol.
InCell(x, c, y) == Part(x, c.low, c.size, c.shift, y)

BinMove(s, x, y) ==
  /\ s.op = "bin" /\ s.arg \in Ctx /\ s.val \in 0..1
  /\ InCell(x, BinCell(x.ctx[s.arg], x.range, s.val), y)
  /\ y.ctx = [x.ctx EXCEPT ![s.arg] = Update(@, s.arg, s.val)]
EPMove(s, x, y) == s.op = "ep" /\ s.val \in 0..1 /\ Bypass(x, s.val, 1, y)
BinsMove(s, x, y) ==
  /\ s.op = "eps"
  /\ s.arg \in 1..32 /\ s.val \in Nat /\ Bypass(x, s.val, s.arg, y)
RemMove(s, x, y) ==
  /\ s.op = "rem"
  /\ \E r \in Remainders :
       /\ s.arg = <<r[2], r[3], r[4]>> /\ s.val = r[1]
       /\ \E z \in Interval : /\ Bypass(x, RemAbs(r)[1][1], RemAbs(r)[1][2], z)
                              /\ Bypass(z, RemAbs(r)[2][1], RemAbs(r)[2][2], y)
TrmMove(s, x, y) ==
  s.op = "trm" /\ s.val = 0 /\ InCell(x, TrmCell(x.range, 0), y) /\ y.ctx = x.ctx

Moves(s, x, y) == BinMove(s, x, y) \/ EPMove(s, x, y) \/ BinsMove(s, x, y)
                    \/ RemMove(s, x, y) \/ TrmMove(s, x, y)

\* A part of an interval lies in it.
LEMMA InCellNested ==
  ASSUME NEW x \in Interval, NEW y \in Interval, NEW c, CellFits(c, x.range), InCell(x, c, y)
  PROVE  Nested(y, x)
<1>1. c.low \in Nat /\ c.size \in Nat /\ c.shift \in 0..32 /\ c.low + c.size <= x.range
  BY DEF CellFits
<1> QED BY <1>1, PartNested DEF InCell

\* Finer steps keep it that part.
LEMMA InCellScaled ==
  ASSUME NEW x \in Interval, NEW y \in Interval, NEW c, CellFits(c, x.range), InCell(x, c, y),
         NEW q \in Nat \ {0}
  PROVE  InCell(Scaled(x, q), c, Scaled(y, q))
<1>1. c.low \in Nat /\ c.size \in Nat /\ c.shift \in 0..32
  BY DEF CellFits
<1> QED BY <1>1, PartScaled DEF InCell

\* Every symbol selects an interval inside the one before.
LEMMA MovesNested ==
  ASSUME NEW s, NEW x \in Interval, NEW y \in Interval, Moves(s, x, y)
  PROVE  Nested(y, x)
<1>1. x.range \in Range9 /\ x.ctx \in [Ctx -> ModelType]
  BY IntervalTyped
<1>2. CASE BinMove(s, x, y)
  <2>1. s.arg \in Ctx /\ s.val \in 0..1 /\ InCell(x, BinCell(x.ctx[s.arg], x.range, s.val), y)
    BY <1>2 DEF BinMove
  <2> QED BY <1>1, <2>1, BinCellFits, InCellNested
<1>3. CASE EPMove(s, x, y)
  <2>1. s.val \in Nat /\ Bypass(x, s.val, 1, y)
    BY <1>3 DEF EPMove
  <2> QED BY <2>1, BypassNested
<1>4. CASE BinsMove(s, x, y)
  <2>1. s.val \in Nat /\ s.arg \in 0..32 /\ Bypass(x, s.val, s.arg, y)
    BY <1>4 DEF BinsMove
  <2> QED BY <2>1, BypassNested
<1>5. CASE RemMove(s, x, y)
  <2>1. PICK r \in Remainders, z \in Interval :
          /\ Bypass(x, RemAbs(r)[1][1], RemAbs(r)[1][2], z)
          /\ Bypass(z, RemAbs(r)[2][1], RemAbs(r)[2][2], y)
    BY <1>5 DEF RemMove
  <2>2. /\ RemAbs(r)[1][1] \in Nat /\ RemAbs(r)[1][2] \in 0..32
        /\ RemAbs(r)[2][1] \in Nat /\ RemAbs(r)[2][2] \in 0..32
    BY RemainderPieces
  <2>3. Nested(z, x) /\ Nested(y, z)
    BY <2>1, <2>2, BypassNested
  <2> QED BY <2>3, NestedTransitive
<1>6. CASE TrmMove(s, x, y)
  <2>1. InCell(x, TrmCell(x.range, 0), y) /\ CellFits(TrmCell(x.range, 0), x.range)
    BY <1>1, <1>6, TrmCellFits DEF TrmMove
  <2> QED BY <2>1, InCellNested
<1> QED BY <1>2, <1>3, <1>4, <1>5, <1>6 DEF Moves

\* Finer steps keep the intervals of a symbol those of the symbol.
LEMMA MovesScaled ==
  ASSUME NEW s, NEW x \in Interval, NEW y \in Interval, Moves(s, x, y), NEW q \in Nat \ {0}
  PROVE  Moves(s, Scaled(x, q), Scaled(y, q))
<1> DEFINE x2 == Scaled(x, q)
           y2 == Scaled(y, q)
<1>1. x.range \in Range9 /\ x.ctx \in [Ctx -> ModelType]
  BY IntervalTyped
<1>2. x2.range = x.range /\ x2.ctx = x.ctx /\ y2.ctx = y.ctx
  BY ScaledTyped
<1> HIDE DEF x2, y2
<1>3. CASE BinMove(s, x, y)
  <2>1. s.arg \in Ctx /\ s.val \in 0..1 /\ InCell(x, BinCell(x.ctx[s.arg], x.range, s.val), y)
    BY <1>3 DEF BinMove
  <2>2. InCell(x2, BinCell(x.ctx[s.arg], x.range, s.val), y2)
    BY <1>1, <2>1, BinCellFits, InCellScaled DEF x2, y2
  <2>3. BinMove(s, x2, y2)
    BY <1>2, <1>3, <2>2 DEF BinMove
  <2> QED BY <2>3 DEF Moves, x2, y2
<1>4. CASE EPMove(s, x, y)
  <2>1. s.val \in Nat /\ Bypass(x, s.val, 1, y)
    BY <1>4 DEF EPMove
  <2>2. Bypass(x2, s.val, 1, y2)
    BY <2>1, BypassScaled DEF x2, y2
  <2> QED BY <1>4, <2>2 DEF Moves, EPMove, x2, y2
<1>5. CASE BinsMove(s, x, y)
  <2>1. s.val \in Nat /\ s.arg \in 0..32 /\ Bypass(x, s.val, s.arg, y)
    BY <1>5 DEF BinsMove
  <2>2. Bypass(x2, s.val, s.arg, y2)
    BY <2>1, BypassScaled DEF x2, y2
  <2> QED BY <1>5, <2>2 DEF Moves, BinsMove, x2, y2
<1>6. CASE RemMove(s, x, y)
  <2>1. PICK r \in Remainders : s.arg = <<r[2], r[3], r[4]>> /\ s.val = r[1]
          /\ \E z \in Interval : /\ Bypass(x, RemAbs(r)[1][1], RemAbs(r)[1][2], z)
                                 /\ Bypass(z, RemAbs(r)[2][1], RemAbs(r)[2][2], y)
    BY <1>6 DEF RemMove
  <2>4. PICK z \in Interval : /\ Bypass(x, RemAbs(r)[1][1], RemAbs(r)[1][2], z)
                              /\ Bypass(z, RemAbs(r)[2][1], RemAbs(r)[2][2], y)
    BY <2>1
  <2>2. /\ RemAbs(r)[1][1] \in Nat /\ RemAbs(r)[1][2] \in 0..32
        /\ RemAbs(r)[2][1] \in Nat /\ RemAbs(r)[2][2] \in 0..32
    BY RemainderPieces
  <2>3. /\ Bypass(x2, RemAbs(r)[1][1], RemAbs(r)[1][2], Scaled(z, q))
        /\ Bypass(Scaled(z, q), RemAbs(r)[2][1], RemAbs(r)[2][2], y2)
        /\ Scaled(z, q) \in Interval
    BY <2>4, <2>2, BypassScaled, ScaledTyped DEF x2, y2
  <2>5. RemMove(s, x2, y2)
    BY <1>6, <2>1, <2>3 DEF RemMove
  <2> QED BY <2>5 DEF Moves, x2, y2
<1>7. CASE TrmMove(s, x, y)
  <2>1. InCell(x, TrmCell(x.range, 0), y) /\ CellFits(TrmCell(x.range, 0), x.range)
    BY <1>1, <1>7, TrmCellFits DEF TrmMove
  <2>2. InCell(x2, TrmCell(x.range, 0), y2)
    BY <2>1, InCellScaled DEF x2, y2
  <2>3. TrmMove(s, x2, y2)
    BY <1>2, <1>7, <2>2 DEF TrmMove
  <2> QED BY <2>3 DEF Moves, x2, y2
<1> QED BY <1>3, <1>4, <1>5, <1>6, <1>7 DEF Moves

\* T[i] is the interval of the first i symbols, all in units of the last bit.
FirstInterval(total) ==
  [ctx |-> [c \in Ctx |-> InitModel(c)], range |-> 510, pos |-> 0, wt |-> total]

Traced(T, symbols, total) ==
  /\ T \in [0..Len(symbols) -> Interval]
  /\ T[0] = FirstInterval(total)
  /\ \A i \in 1..Len(symbols) : Moves(symbols[i], T[i - 1], T[i])
  /\ \A i \in 0..Len(symbols) : Nested(T[Len(symbols)], T[i])

ScaledTrace(T, n, q) == [i \in 0..n |-> Scaled(T[i], q)]

\* A trace with finer steps is a trace of the same symbols.
LEMMA TraceScaled ==
  ASSUME NEW T, NEW symbols, Len(symbols) \in Nat, NEW total \in Nat \ {0}, Traced(T, symbols, total),
         NEW q \in Nat \ {0}
  PROVE  Traced(ScaledTrace(T, Len(symbols), q), symbols, total * q)
<1> DEFINE L == Len(symbols)
           T2 == ScaledTrace(T, L, q)
<1>1. L \in Nat /\ \A i \in 0..L : T[i] \in Interval
  BY DEF Traced
<1>2. \A i \in 0..L : T2[i] = Scaled(T[i], q) /\ T2[i] \in Interval
  BY <1>1, ScaledTyped DEF ScaledTrace
<1>3. T2 \in [0..L -> Interval]
  BY <1>1, ScaledTyped DEF ScaledTrace
<1> HIDE DEF L, T2
<1>4. T2[0] = FirstInterval(total * q)
  <2>1. 0 \in 0..L /\ T[0] = FirstInterval(total) /\ 0 * q = 0
    BY <1>1 DEF Traced
  <2>2. T2[0] = Scaled(FirstInterval(total), q)
    BY <1>2, <2>1
  <2>3. /\ FirstInterval(total).ctx = [c \in Ctx |-> InitModel(c)]
        /\ FirstInterval(total).range = 510 /\ FirstInterval(total).pos * q = 0
        /\ FirstInterval(total).wt * q = total * q
    BY <2>1 DEF FirstInterval
  <2> QED BY <2>2, <2>3 DEF Scaled, FirstInterval
<1>5. ASSUME NEW i \in 1..L PROVE Moves(symbols[i], T2[i - 1], T2[i])
  <2>1. i \in 0..L /\ i - 1 \in 0..L
    BY <1>1
  <2>2. Moves(symbols[i], T[i - 1], T[i])
    BY DEF Traced, L
  <2> QED BY <1>1, <1>2, <2>1, <2>2, MovesScaled
<1>6. ASSUME NEW i \in 0..L PROVE Nested(T2[L], T2[i])
  <2>1. L \in 0..L
    BY <1>1
  <2>2. Nested(T[L], T[i])
    BY DEF Traced, L
  <2> QED BY <1>1, <1>2, <2>1, <2>2, NestedScaled
<1> QED BY <1>3, <1>4, <1>5, <1>6 DEF Traced, L, T2

\* The trace grows by a symbol.
LEMMA TraceGrows ==
  ASSUME NEW T, NEW symbols \in Seq(Symbols), NEW total \in Nat \ {0}, Traced(T, symbols, total),
         NEW s \in Symbols, NEW y \in Interval, Moves(s, T[Len(symbols)], y)
  PROVE  \E T2 : Traced(T2, Append(symbols, s), total) /\ T2[Len(symbols) + 1] = y
<1> DEFINE L == Len(symbols)
           more == Append(symbols, s)
           T2 == [i \in 0..L + 1 |-> IF i <= L THEN T[i] ELSE y]
<1>1. L \in Nat /\ (\A i \in 0..L : T[i] \in Interval) /\ Len(more) = L + 1
      /\ (\A i \in 1..L : more[i] = symbols[i]) /\ more[L + 1] = s
  BY DEF Traced
<1> HIDE DEF L, more
<1>2. (\A i \in 0..L : T2[i] = T[i]) /\ T2[L + 1] = y /\ T2 \in [0..L + 1 -> Interval]
  <2>1. \A i \in 0..L : i \in 0..L + 1 /\ i <= L
    BY <1>1
  <2>2. L + 1 \in 0..L + 1 /\ ~(L + 1 <= L)
    BY <1>1
  <2>3. \A i \in 0..L + 1 : i <= L => i \in 0..L
    BY <1>1
  <2> QED BY <1>1, <2>1, <2>2, <2>3
<1> HIDE DEF T2
<1>3. T2[0] = FirstInterval(total)
  <2>1. 0 \in 0..L
    BY <1>1
  <2> QED BY <1>2, <2>1 DEF Traced
<1>4. ASSUME NEW i \in 1..L + 1 PROVE Moves(more[i], T2[i - 1], T2[i])
  <2>1. CASE i <= L
    <3>1. i \in 1..L /\ i \in 0..L /\ i - 1 \in 0..L
      BY <1>1, <2>1
    <3>2. Moves(symbols[i], T[i - 1], T[i])
      BY <3>1 DEF Traced, L
    <3> QED BY <1>1, <1>2, <3>1, <3>2
  <2>2. CASE i = L + 1
    <3>1. i - 1 = L /\ L \in 0..L
      BY <1>1, <2>2
    <3> QED BY <1>1, <1>2, <2>2, <3>1 DEF L
  <2> QED BY <1>1, <2>1, <2>2
<1>5. ASSUME NEW i \in 0..L + 1 PROVE Nested(T2[L + 1], T2[i])
  <2>0. L \in 0..L
    BY <1>1
  <2>1. CASE i <= L
    <3>1. i \in 0..L
      BY <1>1, <2>1
    <3>2. Nested(T[L], T[i]) /\ Nested(y, T[L])
      BY <1>1, <2>0, <3>1, MovesNested DEF Traced, L
    <3>3. Nested(y, T[i])
      BY <1>1, <2>0, <3>1, <3>2, NestedTransitive
    <3> QED BY <1>2, <3>1, <3>3
  <2>2. CASE i = L + 1
    <3>1. y.pos \in Nat /\ Top(y) \in Nat
      BY IntervalTyped
    <3> QED BY <1>2, <2>2, <3>1 DEF Nested
  <2> QED BY <1>1, <2>1, <2>2
<1>6. Traced(T2, more, total)
  BY <1>1, <1>2, <1>3, <1>4, <1>5 DEF Traced
<1> QED BY <1>2, <1>6 DEF more, L

\* What the encoder has written is the trace of its symbols.
Wrote(e, ctx, symbols) ==
  \E T, V, total : /\ Traced(T, symbols, total)
                   /\ Placed(e, V, total, T[Len(symbols)])
                   /\ T[Len(symbols)].ctx = ctx

\* f is e with the symbol s behind.
Writes(e, ctx, s, f, ctx2) ==
  \A x, V, total :
    Placed(e, V, total, x) /\ x.ctx = ctx =>
      \E q, V2, y : /\ q \in Nat \ {0}
                    /\ Placed(f, V2, total * q, y)
                    /\ Moves(s, Scaled(x, q), y)
                    /\ y.ctx = ctx2

\* A writer that stands on the interval of its symbols and moves by one more stands on
\* the interval of them all.
LEMMA SymbolWritten ==
  ASSUME NEW e, NEW ctx, NEW symbols \in Seq(Symbols), Wrote(e, ctx, symbols),
         NEW s \in Symbols, NEW f, NEW ctx2, Writes(e, ctx, s, f, ctx2)
  PROVE  Wrote(f, ctx2, Append(symbols, s))
<1> DEFINE L == Len(symbols)
<1>0. L \in Nat /\ Len(Append(symbols, s)) = L + 1 /\ L \in 0..L
  OBVIOUS
<1>1. PICK T, V, total : Traced(T, symbols, total) /\ Placed(e, V, total, T[L]) /\ T[L].ctx = ctx
  BY DEF Wrote
<1>2. PICK q, V2, y : /\ q \in Nat \ {0}
                      /\ Placed(f, V2, total * q, y)
                      /\ Moves(s, Scaled(T[L], q), y)
                      /\ y.ctx = ctx2
  BY <1>1 DEF Writes
<1>3. total \in Nat \ {0} /\ total * q \in Nat \ {0} /\ y \in Interval
  BY <1>1, <1>2 DEF Placed, Stood
<1> DEFINE T1 == ScaledTrace(T, L, q)
<1>4. Traced(T1, symbols, total * q) /\ T1[L] = Scaled(T[L], q)
  <2>1. Traced(T1, symbols, total * q)
    BY <1>0, <1>1, <1>2, <1>3, TraceScaled
  <2> QED BY <1>0, <2>1 DEF ScaledTrace
<1> HIDE DEF T1
<1>5. PICK T2 : Traced(T2, Append(symbols, s), total * q) /\ T2[L + 1] = y
  BY <1>2, <1>3, <1>4, TraceGrows
<1> QED BY <1>0, <1>2, <1>5 DEF Wrote

\* encodeBin moves the encoder as a context coded bin does.
LEMMA BinWritten ==
  ASSUME NEW e, NEW ctx \in [Ctx -> ModelType], NEW c \in Ctx, NEW bin \in 0..1
  PROVE  Writes(e, ctx, Sym("bin", c, bin), PutBin(e, ctx[c], bin),
                [ctx EXCEPT ![c] = Update(@, c, bin)])
<1> DEFINE s == Sym("bin", c, bin)
           ctx2 == [ctx EXCEPT ![c] = Update(@, c, bin)]
<1>0. s.op = "bin" /\ s.arg = c /\ s.val = bin
  BY DEF Sym
<1>1. ctx[c] \in ModelType /\ ctx2 \in [Ctx -> ModelType]
  BY UpdateTyped
<1> HIDE DEF s, ctx2
<1> SUFFICES ASSUME NEW x, NEW V, NEW total, Placed(e, V, total, x), x.ctx = ctx
             PROVE  \E q, V2, y : /\ q \in Nat \ {0}
                                  /\ Placed(PutBin(e, ctx[c], bin), V2, total * q, y)
                                  /\ Moves(s, Scaled(x, q), y)
                                  /\ y.ctx = ctx2
  BY DEF Writes, s, ctx2
<1> DEFINE cell == BinCell(ctx[c], e.range, bin)
           q == Pow2(cell.shift)
<1>2. e \in EncoderType /\ e.range \in Range9 /\ x \in Interval /\ x.range = e.range
  <2>1. e \in EncoderType /\ x \in Interval /\ x.range = e.range
    BY DEF Placed, Stood
  <2> QED BY <2>1 DEF EncoderType
<1>3. CellFits(cell, e.range) /\ PutBin(e, ctx[c], bin) = PutCell(e, cell)
  BY <1>1, <1>2, BinCellFits, PutBinCell
<1> HIDE DEF cell
<1>4. q \in Nat \ {0}
  <2>1. cell.shift \in 0..32
    BY <1>3 DEF CellFits
  <2> QED BY <2>1, PowerTyped
<1>5. PICK V2, y : /\ Placed(PutCell(e, cell), V2, total * q, y)
                   /\ Part(Scaled(x, q), cell.low, cell.size, cell.shift, y)
                   /\ y.ctx = ctx2
  BY <1>1, <1>3, CellPlaced
<1>6. Scaled(x, q).ctx = ctx /\ Scaled(x, q).range = e.range
  BY <1>2, <1>4, ScaledTyped
<1>7. BinMove(s, Scaled(x, q), y)
  <2>1. y.ctx = [Scaled(x, q).ctx EXCEPT ![s.arg] = Update(@, s.arg, s.val)]
    BY <1>0, <1>5, <1>6 DEF ctx2
  <2>2. InCell(Scaled(x, q), BinCell(Scaled(x, q).ctx[s.arg], Scaled(x, q).range, s.val), y)
    BY <1>0, <1>5, <1>6 DEF InCell, cell
  <2> QED BY <1>0, <2>1, <2>2 DEF BinMove
<1> QED BY <1>3, <1>4, <1>5, <1>7 DEF Moves

\* encodeBinTrm(0) moves it as a terminating bin of 0 does.
LEMMA TrmWritten ==
  ASSUME NEW e, NEW ctx
  PROVE  Writes(e, ctx, Sym("trm", 0, 0), PutBinTrm(e, 0), ctx)
<1> DEFINE s == Sym("trm", 0, 0)
<1>0. s.op = "trm" /\ s.val = 0 /\ 0 \in 0..1
  BY DEF Sym
<1> HIDE DEF s
<1> SUFFICES ASSUME NEW x, NEW V, NEW total, Placed(e, V, total, x), x.ctx = ctx
             PROVE  \E q, V2, y : /\ q \in Nat \ {0}
                                  /\ Placed(PutBinTrm(e, 0), V2, total * q, y)
                                  /\ Moves(s, Scaled(x, q), y)
                                  /\ y.ctx = ctx
  BY DEF Writes, s
<1> DEFINE cell == TrmCell(e.range, 0)
           q == Pow2(cell.shift)
<1>2. /\ e \in EncoderType /\ e.range \in Range9 /\ x \in Interval /\ x.range = e.range
      /\ ctx \in [Ctx -> ModelType]
  <2>1. e \in EncoderType /\ x \in Interval /\ x.range = e.range
    BY DEF Placed, Stood
  <2> QED BY <2>1, IntervalTyped DEF EncoderType
<1>3. CellFits(cell, e.range) /\ PutBinTrm(e, 0) = PutCell(e, cell)
  BY <1>0, <1>2, TrmCellFits, PutBinTrmCell
<1> HIDE DEF cell
<1>4. q \in Nat \ {0}
  <2>1. cell.shift \in 0..32
    BY <1>3 DEF CellFits
  <2> QED BY <2>1, PowerTyped
<1>5. PICK V2, y : /\ Placed(PutCell(e, cell), V2, total * q, y)
                   /\ Part(Scaled(x, q), cell.low, cell.size, cell.shift, y)
                   /\ y.ctx = ctx
  BY <1>2, <1>3, CellPlaced
<1>6. Scaled(x, q).ctx = ctx /\ Scaled(x, q).range = e.range
  BY <1>2, <1>4, ScaledTyped
<1>7. TrmMove(s, Scaled(x, q), y)
  BY <1>0, <1>5, <1>6 DEF TrmMove, InCell, cell
<1> QED BY <1>3, <1>4, <1>5, <1>7 DEF Moves

\* encodeBinEP moves it as one bypass bin does.
LEMMA EPWritten ==
  ASSUME NEW e, NEW ctx, NEW bin \in 0..1
  PROVE  Writes(e, ctx, Sym("ep", 0, bin), PutBinEP(e, bin), ctx)
<1> DEFINE s == Sym("ep", 0, bin)
<1>0. s.op = "ep" /\ s.val = bin
  BY DEF Sym
<1> HIDE DEF s
<1> SUFFICES ASSUME NEW x, NEW V, NEW total, Placed(e, V, total, x), x.ctx = ctx
             PROVE  \E q, V2, y : /\ q \in Nat \ {0}
                                  /\ Placed(PutBinEP(e, bin), V2, total * q, y)
                                  /\ Moves(s, Scaled(x, q), y)
                                  /\ y.ctx = ctx
  BY DEF Writes, s
<1> DEFINE R == e.range
           f == PutBinEP(e, bin)
           q == Pow2(1)
<1>1. Stood(e, V, total) /\ e \in EncoderType /\ R \in Range9 /\ R \in 256..510 /\ x \in Interval
  <2>1. Stood(e, V, total) /\ e \in EncoderType /\ x \in Interval
    BY DEF Placed, Stood
  <2>2. R \in Range9
    BY <2>1 DEF EncoderType
  <2> QED BY <2>1, <2>2 DEF Range9
<1>2. 1 \in Shifts /\ bin * R \in Nat /\ bin * R + R <= R * Pow2(1) /\ q = 2 /\ bin < Pow2(1)
  <2>1. CASE bin = 0 BY <1>1, <2>1, Powers DEF Shifts
  <2>2. CASE bin = 1 BY <1>1, <2>2, Powers DEF Shifts
  <2> QED BY <2>1, <2>2
<1>3. Stood(f, V * q + bin * R, total * q) /\ f.range = R
  <2> DEFINE add == bin * R
  <2>1. f = Put(e, 1, add, R)
    BY DEF PutBinEP
  <2>2. add \in Nat /\ add + R <= e.range * Pow2(1)
    BY <1>2
  <2>3. Stood(e, V, total) /\ 1 \in Shifts /\ R \in Range9
    BY <1>1, <1>2
  <2> HIDE DEF f, R, add
  <2>4. /\ Stood(Put(e, 1, add, R), V * Pow2(1) + add, total * Pow2(1))
        /\ Put(e, 1, add, R).range = R
    BY ONLY <2>2, <2>3, PutCodes
  <2> QED BY <2>1, <2>4 DEF add
<1> HIDE DEF f
<1>4. 1 \in 0..32 /\ bin \in Nat /\ q \in Nat \ {0}
  BY <1>2
<1>5. PICK V2, y : Placed(f, V2, total * q, y) /\ Bypass(Scaled(x, q), bin, 1, y)
  BY <1>2, <1>3, <1>4, BypassPlaced
<1>6. Scaled(x, q).ctx = ctx
  BY <1>1, <1>4, ScaledTyped
<1>7. EPMove(s, Scaled(x, q), y) /\ y.ctx = ctx
  BY <1>0, <1>5, <1>6 DEF EPMove, Bypass
<1> QED BY <1>4, <1>5, <1>7 DEF Moves, f

\* encodeBinsEP leaves the encoder on the interval its string selects.
LEMMA StringPlaced ==
  ASSUME NEW e, NEW V, NEW total, NEW x, Placed(e, V, total, x), NEW n \in 0..32, NEW b \in Nat,
         b < Pow2(n)
  PROVE  \E V2, y : /\ Placed(PutBinsEP(e, b, n), V2, total * Pow2(n), y)
                    /\ Bypass(Scaled(x, Pow2(n)), b, n, y)
<1>1. n \in BinCounts /\ Stood(e, V, total)
  BY DEF BinCounts, Placed
<1>2. /\ Stood(PutBinsEP(e, b, n), V * Pow2(n) + b * e.range, total * Pow2(n))
      /\ PutBinsEP(e, b, n).range = e.range
  BY <1>1, StringCodes
<1> QED BY <1>2, BypassPlaced

\* encodeBinsEP moves it as a bypass string does.
LEMMA BinsWritten ==
  ASSUME NEW e, NEW ctx, NEW b \in Nat, NEW n \in 1..32, b < Pow2(n)
  PROVE  Writes(e, ctx, Sym("eps", n, b), PutBinsEP(e, b, n), ctx)
<1> DEFINE s == Sym("eps", n, b)
<1>0. s.op = "eps" /\ s.arg = n /\ s.val = b
  BY DEF Sym
<1> HIDE DEF s
<1> SUFFICES ASSUME NEW x, NEW V, NEW total, Placed(e, V, total, x), x.ctx = ctx
             PROVE  \E q, V2, y : /\ q \in Nat \ {0}
                                  /\ Placed(PutBinsEP(e, b, n), V2, total * q, y)
                                  /\ Moves(s, Scaled(x, q), y)
                                  /\ y.ctx = ctx
  BY DEF Writes, s
<1> DEFINE q == Pow2(n)
<1>1. q \in Nat \ {0} /\ n \in 0..32 /\ x \in Interval
  BY PowerTyped DEF Placed
<1>2. PICK V2, y : Placed(PutBinsEP(e, b, n), V2, total * q, y) /\ Bypass(Scaled(x, q), b, n, y)
  BY <1>1, StringPlaced
<1>3. Scaled(x, q).ctx = ctx
  BY <1>1, ScaledTyped
<1>4. BinsMove(s, Scaled(x, q), y) /\ y.ctx = ctx
  BY <1>0, <1>2, <1>3 DEF BinsMove, Bypass
<1> QED BY <1>1, <1>2, <1>4 DEF Moves

\* encodeRemAbsEP moves it as the two strings of the remainder do.
LEMMA RemWritten ==
  ASSUME NEW e, NEW ctx, NEW r \in Remainders
  PROVE  Writes(e, ctx, Sym("rem", <<r[2], r[3], r[4]>>, r[1]), PutRemAbs(e, r), ctx)
<1> DEFINE s == Sym("rem", <<r[2], r[3], r[4]>>, r[1])
<1>0. s.op = "rem" /\ s.arg = <<r[2], r[3], r[4]>> /\ s.val = r[1]
  BY DEF Sym
<1> HIDE DEF s
<1> SUFFICES ASSUME NEW x, NEW V, NEW total, Placed(e, V, total, x), x.ctx = ctx
             PROVE  \E q, V2, y : /\ q \in Nat \ {0}
                                  /\ Placed(PutRemAbs(e, r), V2, total * q, y)
                                  /\ Moves(s, Scaled(x, q), y)
                                  /\ y.ctx = ctx
  BY DEF Writes, s
<1> DEFINE b1 == RemAbs(r)[1][1]
           n1 == RemAbs(r)[1][2]
           b2 == RemAbs(r)[2][1]
           n2 == RemAbs(r)[2][2]
           f == PutBinsEP(e, b1, n1)
           g == PutBinsEP(f, b2, n2)
           q1 == Pow2(n1)
           q2 == Pow2(n2)
<1>1. /\ b1 \in Nat /\ n1 \in 0..32 /\ b1 < Pow2(n1)
      /\ b2 \in Nat /\ n2 \in 0..32 /\ b2 < Pow2(n2)
  BY RemainderPieces
<1>2. g = PutRemAbs(e, r)
  BY DEF PutRemAbs
<1>3. x \in Interval /\ total \in Nat \ {0}
  BY DEF Placed, Stood
<1>4. q1 \in Nat \ {0} /\ q2 \in Nat \ {0}
  BY <1>1, PowerTyped
<1>5. PICK V1, z : Placed(f, V1, total * q1, z) /\ Bypass(Scaled(x, q1), b1, n1, z)
  BY <1>1, StringPlaced
<1>6. PICK V2, y : Placed(g, V2, (total * q1) * q2, y) /\ Bypass(Scaled(z, q2), b2, n2, y)
  BY <1>1, <1>5, StringPlaced
<1> HIDE DEF f, g, q1, q2
<1>7. q1 * q2 \in Nat \ {0} /\ (total * q1) * q2 = total * (q1 * q2)
  BY <1>3, <1>4, TimesPositive
<1>8. Scaled(Scaled(x, q1), q2) = Scaled(x, q1 * q2)
  <2>1. x.pos \in Nat /\ x.wt \in Nat
    BY <1>3, IntervalTyped
  <2>2. ASSUME NEW a \in Nat PROVE (a * q1) * q2 = a * (q1 * q2)
    BY <1>4
  <2> QED BY <2>1, <2>2 DEF Scaled
<1>9. z \in Interval /\ Scaled(x, q1) \in Interval /\ Scaled(z, q2) \in Interval
  BY <1>3, <1>4, <1>5, ScaledTyped DEF Placed
<1>10. Bypass(Scaled(x, q1 * q2), b1, n1, Scaled(z, q2))
  <2>1. Bypass(Scaled(Scaled(x, q1), q2), b1, n1, Scaled(z, q2))
    BY <1>1, <1>4, <1>5, <1>9, BypassScaled
  <2> QED BY <1>8, <2>1
<1>11. RemMove(s, Scaled(x, q1 * q2), y)
  BY <1>0, <1>6, <1>9, <1>10 DEF RemMove
<1>12. y.ctx = ctx
  <2>1. y.ctx = Scaled(z, q2).ctx /\ Scaled(z, q2).ctx = Scaled(x, q1 * q2).ctx
    BY <1>6, <1>10 DEF Bypass
  <2>2. Scaled(x, q1 * q2).ctx = ctx
    BY DEF Scaled
  <2> QED BY <2>1, <2>2
<1>13. Placed(PutRemAbs(e, r), V2, total * (q1 * q2), y)
  BY <1>2, <1>6, <1>7
<1> QED BY <1>7, <1>11, <1>12, <1>13 DEF Moves

\* start() stands on the whole interval: nothing is written.
LEMMA NothingWritten ==
  ASSUME [c \in Ctx |-> InitModel(c)] \in [Ctx -> ModelType], Started \in EncoderType,
         Absorbs(Started)
  PROVE  Wrote(Started, [c \in Ctx |-> InitModel(c)], <<>>)
<1> DEFINE T == [i \in 0..0 |-> FirstInterval(1)]
           x == FirstInterval(1)
           P == [n \in Nat |-> 0]
           H == [n \in Nat |-> 1]
<1>1. /\ x.range = 510 /\ x.pos = 0 /\ x.wt = 1 /\ x.ctx = [c \in Ctx |-> InitModel(c)]
      /\ x \in Interval
  <2>1. 510 \in Range9
    BY DEF Range9
  <2> QED BY <2>1 DEF FirstInterval, Interval
<1>2. Size(Started) = 0 /\ Started.range = 510 /\ Started.bitsLeft = 23 /\ Started.low = 0
      /\ Started.bufferedByte = 255
  BY DEF Size, Started
<1>3. Numbers(Started, P, H)
  <2>1. P \in [Nat -> Nat] /\ H \in [Nat -> Nat] /\ P[0] = 0 /\ H[0] = 1
    OBVIOUS
  <2>2. 1..0 = {}
    OBVIOUS
  <2> QED BY <1>2, <2>1, <2>2 DEF Numbers
<1>4. Worth(Started, P, H, 0, 1)
  <2>1. P[0] * Pow2(32 - 23) + 0 = 0 /\ H[0] * Pow2(23 - 23) = 1
    BY Powers
  <2> QED BY <1>2, <1>3, <2>1 DEF Worth
<1>5. Stood(Started, 0, 1)
  BY <1>4 DEF Stood, Codes
<1> HIDE DEF x
<1>6. Placed(Started, 0, 1, x)
  <2>1. 128 * 0 = 0
    OBVIOUS
  <2> QED BY <1>1, <1>2, <1>5, <2>1 DEF Placed
<1>7. Len(<<>>) = 0 /\ T \in [0..0 -> Interval] /\ T[0] = x /\ 1..0 = {} /\ \A i \in 0..0 : i = 0
  BY <1>1 DEF x
<1>8. Nested(x, x)
  <2>1. x.pos \in Nat /\ Top(x) \in Nat
    BY <1>1, IntervalTyped
  <2> QED BY <2>1 DEF Nested
<1>9. Traced(T, <<>>, 1)
  BY <1>7, <1>8 DEF Traced, x
<1> HIDE DEF T
<1>10. T[Len(<<>>)] = x /\ x.ctx = [c \in Ctx |-> InitModel(c)]
  BY ONLY <1>1, <1>7
<1> QED BY <1>6, <1>9, <1>10, Zenon DEF Wrote

(* ------------------------- the end of the sub-stream ------------------------- *)

\* P[j] is the number that the first j of the bytes s are.
Reads(P, s, n) ==
  P \in [Nat -> Nat] /\ P[0] = 0 /\ \A j \in 1..n : P[j] = 256 * P[j - 1] + s[j]

Heights(H, n) ==
  H \in [Nat -> Nat] /\ H[0] = 1 /\ \A j \in 1..n : H[j] = 256 * H[j - 1]

\* One more byte extends the number that the bytes are.
LEMMA ReadsOn ==
  ASSUME NEW s, NEW n \in Nat, NEW P, Reads(P, s, n), s[n + 1] \in Nat
  PROVE  \E P2 : Reads(P2, s, n + 1) /\ P2[n + 1] = 256 * P[n] + s[n + 1]
<1> DEFINE v == 256 * P[n] + s[n + 1]
           P2 == [i \in Nat |-> IF i <= n THEN P[i] ELSE v]
<1>1. v \in Nat /\ P \in [Nat -> Nat]
  BY DEF Reads
<1> HIDE DEF v
<1>2. P2 \in [Nat -> Nat] /\ (\A i \in 0..n : P2[i] = P[i]) /\ P2[n + 1] = v
  BY <1>1
<1> HIDE DEF P2
<1>3. ASSUME NEW j \in 1..n + 1 PROVE P2[j] = 256 * P2[j - 1] + s[j]
  <2>1. CASE j <= n
    <3>1. j \in 1..n /\ j \in 0..n /\ j - 1 \in 0..n
      BY <2>1
    <3> QED BY <1>2, <3>1 DEF Reads
  <2>2. CASE j = n + 1
    <3>1. j - 1 = n /\ n \in 0..n
      BY <2>2
    <3> QED BY <1>2, <2>2, <3>1 DEF v
  <2> QED BY <2>1, <2>2
<1>4. P2[0] = 0
  <2>1. 0 \in 0..n
    OBVIOUS
  <2> QED BY <1>2, <2>1 DEF Reads
<1>5. Reads(P2, s, n + 1)
  BY <1>2, <1>3, <1>4 DEF Reads
<1> QED BY <1>2, <1>5 DEF v

\* One more byte is 256 times as high.
LEMMA HeightsOn ==
  ASSUME NEW n \in Nat, NEW H, Heights(H, n)
  PROVE  \E H2 : Heights(H2, n + 1) /\ H2[n + 1] = 256 * H[n]
<1> DEFINE v == 256 * H[n]
           H2 == [i \in Nat |-> IF i <= n THEN H[i] ELSE v]
<1>1. v \in Nat /\ H \in [Nat -> Nat]
  BY DEF Heights
<1> HIDE DEF v
<1>2. H2 \in [Nat -> Nat] /\ (\A i \in 0..n : H2[i] = H[i]) /\ H2[n + 1] = v
  BY <1>1
<1> HIDE DEF H2
<1>3. ASSUME NEW j \in 1..n + 1 PROVE H2[j] = 256 * H2[j - 1]
  <2>1. CASE j <= n
    <3>1. j \in 1..n /\ j \in 0..n /\ j - 1 \in 0..n
      BY <2>1
    <3> QED BY <1>2, <3>1 DEF Heights
  <2>2. CASE j = n + 1
    <3>1. j - 1 = n /\ n \in 0..n
      BY <2>2
    <3> QED BY <1>2, <2>2, <3>1 DEF v
  <2> QED BY <2>1, <2>2
<1>4. H2[0] = 1
  <2>1. 0 \in 0..n
    OBVIOUS
  <2> QED BY <1>2, <2>1 DEF Heights
<1>5. Heights(H2, n + 1)
  BY <1>2, <1>3, <1>4 DEF Heights
<1> QED BY <1>2, <1>5 DEF v

\* The bytes s begin with those of e, with the carry c in the ones held back.
Carried(e, s, c) ==
  /\ \A j \in 1..Len(e.out) : s[j] = e.out[j]
  /\ e.numBufferedBytes > 0 => s[Len(e.out) + 1] = e.bufferedByte + c
  /\ \A j \in Len(e.out) + 2..Size(e) : s[j] = 255 - 255 * c
  /\ e.numBufferedBytes = 0 => c = 0

\* A carry into the bytes held back adds 1 to the number that all bytes are.
LEMMA CarriedReads ==
  ASSUME NEW e \in EncoderType, NEW P, NEW H, Numbers(e, P, H), NEW c \in 0..1, NEW s,
         Carried(e, s, c)
  PROVE  \E P2 : Reads(P2, s, Size(e)) /\ P2[Size(e)] = P[Size(e)] + c
<1> DEFINE L == Len(e.out)
           B == Size(e)
           nb == e.numBufferedBytes
           P2 == [j \in Nat |-> IF j <= L THEN P[j] ELSE P[j] + c]
<1>1. L \in Nat /\ nb \in Nat /\ B = L + nb /\ B \in Nat /\ c \in Nat
  BY DEF EncoderType, Size
<1>2. P \in [Nat -> Nat] /\ P[0] = 0 /\ \A j \in 1..B : P[j] = 256 * P[j - 1] + OutByte(e, j)
  BY DEF Numbers
<1>3. /\ \A j \in 1..L : s[j] = e.out[j]
      /\ nb > 0 => s[L + 1] = e.bufferedByte + c
      /\ \A j \in L + 2..B : s[j] = 255 - 255 * c
      /\ nb = 0 => c = 0
  BY DEF Carried
<1>4. /\ \A j \in 1..L : OutByte(e, j) = e.out[j]
      /\ OutByte(e, L + 1) = e.bufferedByte
      /\ \A j \in L + 2..B : OutByte(e, j) = 255
  <2>1. \A j \in 1..L : j <= L
    BY <1>1
  <2>2. ~(L + 1 <= L) /\ \A j \in L + 2..B : ~(j <= L) /\ j # L + 1
    BY <1>1
  <2> QED BY <2>1, <2>2 DEF OutByte
<1>5. e.bufferedByte \in Nat
  <2>1. e.bufferedByte \in Byte
    BY DEF EncoderType
  <2> QED BY <2>1 DEF Byte
<1>6. \A j \in Nat : P[j] \in Nat
  BY <1>2
<1> HIDE DEF L, nb, B
<1>7. /\ P2 \in [Nat -> Nat] /\ (\A j \in 0..L : P2[j] = P[j]) /\ (\A j \in L + 1..B : P2[j] = P[j] + c)
  <2>1. \A j \in 0..L : j \in Nat /\ j <= L
    BY <1>1
  <2>2. \A j \in L + 1..B : j \in Nat /\ ~(j <= L)
    BY <1>1
  <2> QED BY <1>1, <1>6, <2>1, <2>2
<1> HIDE DEF P2
<1>8. ASSUME NEW j \in 1..B PROVE P2[j] = 256 * P2[j - 1] + s[j]
  <2>0. j \in Nat /\ j - 1 \in Nat
    BY <1>1
  <2>1. CASE j <= L
    <3>1. j \in 1..B /\ j \in 0..L /\ j - 1 \in 0..L /\ j \in 1..L
      BY <1>1, <2>1
    <3> QED BY <1>2, <1>3, <1>4, <1>7, <3>1
  <2>2. CASE j = L + 1
    <3>1. j \in L + 1..B /\ j - 1 \in 0..L /\ nb > 0
      BY <1>1, <2>2
    <3>2. P2[j] = P[j] + c /\ P2[j - 1] = P[j - 1] /\ P[j] = 256 * P[j - 1] + e.bufferedByte
          /\ s[j] = e.bufferedByte + c
      BY <1>2, <1>3, <1>4, <1>7, <2>2, <3>1
    <3> QED BY <3>2, <1>1, <1>5, <1>6, <2>0
  <2>3. CASE j > L + 1
    <3>1. j \in L + 1..B /\ j - 1 \in L + 1..B /\ j \in L + 2..B
      BY <1>1, <2>3
    <3>2. P2[j] = P[j] + c /\ P2[j - 1] = P[j - 1] + c /\ P[j] = 256 * P[j - 1] + 255
          /\ s[j] = 255 - 255 * c
      BY <1>2, <1>3, <1>4, <1>7, <3>1
    <3> QED BY <3>2, <1>1, <1>6, <2>0
  <2> QED BY <1>1, <2>1, <2>2, <2>3
<1>9. P2[B] = P[B] + c
  <2>1. CASE nb = 0
    <3>1. B \in 0..L /\ c = 0
      BY <1>1, <1>3, <2>1
    <3> QED BY <1>1, <1>6, <1>7, <3>1
  <2>2. CASE nb # 0
    <3>1. B \in L + 1..B
      BY <1>1, <2>2
    <3> QED BY <1>7, <3>1
  <2> QED BY <2>1, <2>2
<1>10. P2[0] = 0
  <2>1. 0 \in 0..L
    BY <1>1
  <2> QED BY <1>2, <1>7, <2>1
<1>11. Reads(P2, s, B)
  BY <1>7, <1>8, <1>10 DEF Reads
<1> QED BY <1>9, <1>11 DEF B

\* What TailBytes writes of the low register: its upper bits, the stop bit, padding.
Pad(b) == (8 - ((25 - b) % 8)) % 8
Count(b) == ((25 - b) + Pad(b)) \div 8
Word(low, b) == (2 * (low \div 256) + 1) * Pow2(Pad(b))

\* The bits of the low register that are left, with the stop bit and the alignment, are
\* one byte or two.
LEMMA PadFits ==
  ASSUME NEW b \in BitsLeft
  PROVE  /\ Pad(b) \in 0..7 /\ Count(b) \in 1..2 /\ (25 - b) + Pad(b) = 8 * Count(b)
         /\ 25 - b \in 2..13
<1>1. b \in 12..23
  BY DEF BitsLeft
<1>2. (25 - b) % 8 \in 0..7 /\ ((25 - b) + Pad(b)) % 8 = 0 /\ Pad(b) \in 0..7
  BY <1>1 DEF Pad
<1> DEFINE n == 25 - b
           p == Pad(b)
<1>3. n \in 2..13 /\ p \in 0..7 /\ (n + p) % 8 = 0
  BY <1>1, <1>2
<1>4. Count(b) = (n + p) \div 8
  BY DEF Count
<1>6. p = (8 - (n % 8)) % 8
  BY DEF Pad
<1> HIDE DEF n, p
<1>5. (n + p) \div 8 \in 1..2 /\ n + p = 8 * ((n + p) \div 8)
  BY <1>3, <1>6
<1> QED BY <1>3, <1>4, <1>5 DEF n, p

\* They are a number of that many bytes.
LEMMA WordFits ==
  ASSUME NEW b \in BitsLeft, NEW low \in Nat, low < Pow2(32 - b)
  PROVE  /\ Word(low, b) \in Nat /\ Word(low, b) < Pow2(8 * Count(b))
         /\ Pow2(32 - b) = 256 * Pow2(24 - b) /\ Pow2(25 - b) = 2 * Pow2(24 - b)
         /\ Pow2(8 * Count(b)) = Pow2(25 - b) * Pow2(Pad(b))
<1> DEFINE k == Pow2(24 - b)
           p == Pow2(Pad(b))
           a == low \div 256
           n == Pow2(25 - b)
<1>1. Pad(b) \in 0..7 /\ (25 - b) + Pad(b) = 8 * Count(b) /\ 25 - b \in 2..13 /\ Count(b) \in 1..2
  BY PadFits
<1>2. /\ Pow2(32 - b) = 256 * k /\ n = 2 * k /\ k \in Nat \ {0} /\ p \in Nat \ {0}
      /\ Pow2(8 * Count(b)) = n * p
  <2>1. b \in 12..23
    BY DEF BitsLeft
  <2>2. /\ 24 - b \in 0..31 /\ 24 - b \in 0..32 /\ 8 \in 0..32 /\ (24 - b) + 8 <= 32
        /\ (24 - b) + 8 = 32 - b /\ (24 - b) + 1 = 25 - b
    BY <2>1
  <2>3. Pow2((24 - b) + 8) = Pow2(24 - b) * Pow2(8) /\ Pow2((24 - b) + 1) = 2 * Pow2(24 - b)
        /\ Pow2(24 - b) \in Nat \ {0}
    BY <2>2, PowerSum, PowerDoubles
  <2>4. 25 - b \in 0..32 /\ Pad(b) \in 0..32 /\ (25 - b) + Pad(b) <= 32
    <3>1. \A x \in 2..13, y \in 0..7 : x \in 0..32 /\ y \in 0..32 /\ x + y <= 32
      OBVIOUS
    <3> QED BY <1>1, <3>1
  <2>5. Pow2((25 - b) + Pad(b)) = Pow2(25 - b) * Pow2(Pad(b)) /\ Pow2(Pad(b)) \in Nat \ {0}
    BY <2>4, PowerSum, PowerTyped
  <2>6. Pow2(24 - b) * 256 = 256 * Pow2(24 - b)
    BY <2>3
  <2> QED BY <1>1, <2>2, <2>3, <2>5, <2>6, Powers
<1> HIDE DEF k, p, n
<1>3. a \in Nat /\ a < k
  BY <1>2
<1> HIDE DEF a
<1>4. 2 * a + 1 \in Nat /\ 2 * a + 1 < n
  BY <1>2, <1>3
<1>5. (2 * a + 1) * p < n * p /\ (2 * a + 1) * p \in Nat
  <2>1. n \in Nat /\ p \in Nat \ {0}
    BY <1>2
  <2> QED BY <1>4, <2>1, TimesStrict, TimesMonotonic
<1> QED BY <1>2, <1>5 DEF Word, a, p, k, n

\* The bytes of that number.
LEMMA TailShape ==
  ASSUME NEW b \in BitsLeft, NEW low \in Nat, low < Pow2(32 - b)
  PROVE  /\ Len(TailBytes(low, b)) = Count(b)
         /\ Count(b) = 1 => TailBytes(low, b)[1] = Word(low, b)
         /\ Count(b) = 2 => /\ TailBytes(low, b)[1] = Word(low, b) \div 256
                            /\ TailBytes(low, b)[2] = Word(low, b) % 256
<1> DEFINE w == Word(low, b)
           n == Count(b)
           t == TailBytes(low, b)
<1>1. t = [i \in 1..n |-> (w \div 256^(n - i)) % 256]
  BY DEF TailBytes, Word, Count, Pad
<1>2. n \in 1..2 /\ w \in Nat /\ w < Pow2(8 * n)
  BY PadFits, WordFits
<1> HIDE DEF w, n, t
<1>3. Len(t) = n /\ \A i \in 1..n : t[i] = (w \div 256^(n - i)) % 256
  BY <1>1, <1>2
<1>4. 256^0 = 1 /\ 256^1 = 256
  OBVIOUS
<1>5. CASE n = 1
  <2>1. t[1] = (w \div 256^0) % 256 /\ w < 256
    BY <1>2, <1>3, <1>5, Powers
  <2> QED BY <1>2, <1>3, <1>4, <1>5, <2>1 DEF w, n, t
<1>6. CASE n = 2
  <2>1. t[1] = (w \div 256^1) % 256 /\ t[2] = (w \div 256^0) % 256 /\ w < 65536
    BY <1>2, <1>3, <1>6, Powers
  <2>2. t[1] = w \div 256 /\ t[2] = w % 256
    BY <1>2, <1>4, <2>1
  <2> QED BY <1>3, <1>6, <2>2 DEF w, n, t
<1> QED BY <1>2, <1>5, <1>6

\* finish() in its parts: c is the carry, low what is left without it.
Finished(e, s, c, low) ==
  /\ c \in 0..1 /\ low \in Nat /\ low < Pow2(32 - e.bitsLeft)
  /\ e.low = c * Pow2(32 - e.bitsLeft) + low
  /\ Carried(e, s, c)
  /\ Len(s) = Size(e) + Count(e.bitsLeft)
  /\ \A i \in 1..Count(e.bitsLeft) : s[Size(e) + i] = TailBytes(low, e.bitsLeft)[i]

\* finish() settles the bytes held back, with the carry or without, and appends those
\* bytes.
LEMMA FinishShape ==
  ASSUME NEW e \in EncoderType, Absorbs(e)
  PROVE  \E c, low : Finished(e, Finish(e), c, low)
<1> DEFINE one == Pow2(32 - e.bitsLeft)
           L == Len(e.out)
           nb == e.numBufferedBytes
           B == Size(e)
           n == Count(e.bitsLeft)
           s == Finish(e)
           bb == e.bufferedByte
           el == e.low
           R == e.range
<1>1. /\ el \in Nat /\ R \in 256..510 /\ bb \in 0..255
      /\ nb \in Nat /\ e.out \in Seq(Byte) /\ L \in Nat /\ B = L + nb /\ e.bitsLeft \in BitsLeft
  <2>1. e.range \in Range9 /\ bb \in Byte
    BY DEF EncoderType
  <2>2. e.range \in 256..510 /\ bb \in 0..255
    BY <2>1 DEF Range9, Byte
  <2> QED BY <2>2 DEF EncoderType, Size
<1>2. one \in Nat \ {0}
  <2>2. \A b \in BitsLeft : 32 - b \in 9..20
    BY DEF BitsLeft
  <2>1. 32 - e.bitsLeft \in 9..20
    BY <1>1, <2>2
  <2> QED BY <2>1, Powers
<1>3. 0 \in Byte /\ 255 \in Byte /\ n \in 1..2
  BY <1>1, PadFits DEF Byte
<1>9. nb = 0 \/ bb = 255 => el + R <= one
  BY Zenon DEF Absorbs
<1>10. ~(nb = 0 \/ bb = 255) => el + R <= 2 * one
  BY Zenon DEF Absorbs
<1>11. s = IF el >= one
           THEN e.out \o <<bb + 1>> \o [i \in 1..nb - 1 |-> 0] \o TailBytes(el - one, e.bitsLeft)
           ELSE e.out \o (IF nb > 0 THEN <<bb>> ELSE <<>>) \o [i \in 1..nb - 1 |-> 255]
                  \o TailBytes(el, e.bitsLeft)
  BY DEF Finish
<1> HIDE DEF el, R, nb, bb, L, one, s
<1>4. ASSUME NEW low \in Nat, low < one
      PROVE  /\ TailBytes(low, e.bitsLeft) \in Seq(Byte) /\ Len(TailBytes(low, e.bitsLeft)) = n
  BY <1>1, <1>4, TailBytesTyped, TailShape DEF one
<1>5. ASSUME NEW low \in Nat, low < one, NEW u \in Seq(Byte), Len(u) = B,
             s = u \o TailBytes(low, e.bitsLeft)
      PROVE  /\ Len(s) = B + n
             /\ \A i \in 1..n : s[B + i] = TailBytes(low, e.bitsLeft)[i]
             /\ \A i \in 1..B : s[i] = u[i]
  <2> DEFINE t == TailBytes(low, e.bitsLeft)
  <2>1. t \in Seq(Byte) /\ Len(t) = n
    BY <1>4, <1>5
  <2> HIDE DEF t, n, B
  <2>2. /\ Len(u \o t) = B + n
        /\ \A i \in 1..B + n : (u \o t)[i] = IF i <= B THEN u[i] ELSE t[i - B]
    BY <1>5, <2>1, ConcatProperties
  <2>3. B \in Nat
    BY <1>1 DEF B
  <2>4. ASSUME NEW i \in 1..n PROVE B + i \in 1..B + n /\ ~(B + i <= B) /\ (B + i) - B = i
    BY <1>3, <2>3
  <2>5. ASSUME NEW i \in 1..B PROVE i \in 1..B + n /\ i <= B
    BY <1>3, <2>3
  <2>6. s = u \o t
    BY <1>5 DEF t
  <2> HIDE DEF s
  <2>7. \A i \in 1..n : s[B + i] = t[i]
    BY <2>2, <2>4, <2>6
  <2>8. \A i \in 1..B : s[i] = u[i]
    BY <2>2, <2>5, <2>6
  <2> QED BY <2>2, <2>6, <2>7, <2>8 DEF t
<1>6. ASSUME NEW c \in 0..1, NEW low \in Nat, low < one, el = c * one + low,
             NEW u \in Seq(Byte), Len(u) = B, s = u \o TailBytes(low, e.bitsLeft),
             \A j \in 1..L : u[j] = e.out[j],
             nb > 0 => u[L + 1] = bb + c,
             \A j \in L + 2..B : u[j] = 255 - 255 * c,
             nb = 0 => c = 0
      PROVE  \E c2, low2 : Finished(e, s, c2, low2)
  <2>1. /\ Len(s) = B + n
        /\ \A i \in 1..n : s[B + i] = TailBytes(low, e.bitsLeft)[i]
        /\ \A i \in 1..B : s[i] = u[i]
    BY <1>5, <1>6
  <2> HIDE DEF s
  <2>2. \A j \in 1..L : s[j] = e.out[j]
    <3>1. \A j \in 1..L : j \in 1..B
      BY <1>1
    <3> QED BY <1>6, <2>1, <3>1
  <2>3. nb > 0 => s[L + 1] = bb + c
    <3>1. nb > 0 => L + 1 \in 1..B
      BY <1>1
    <3> QED BY <1>6, <2>1, <3>1
  <2>4. \A j \in L + 2..B : s[j] = 255 - 255 * c
    <3>1. \A j \in L + 2..B : j \in 1..B
      BY <1>1
    <3> QED BY <1>6, <2>1, <3>1
  <2>5. Carried(e, s, c)
    BY <1>6, <2>2, <2>3, <2>4 DEF Carried, L, nb, bb
  <2>6. Finished(e, s, c, low)
    BY <1>6, <2>1, <2>5 DEF Finished, el, one
  <2> QED BY <2>6
<1>7. CASE el >= one
  <2> DEFINE low == el - one
             u == e.out \o <<bb + 1>> \o [i \in 1..nb - 1 |-> 0]
  <2>1. ~(nb = 0 \/ bb = 255) /\ low \in Nat /\ low < one
    BY <1>1, <1>2, <1>7, <1>9, <1>10
  <2>3. bb + 1 \in Byte
    BY <1>1, <2>1 DEF Byte
  <2>4. EndsInRun(u, e.out, bb + 1, 0, nb)
    <3>1. nb \in Nat \ {0}
      BY <1>1, <2>1
    <3> QED BY <1>1, <1>3, <2>3, <3>1, RunAppended
  <2>5. s = u \o TailBytes(low, e.bitsLeft)
    BY <1>7, <1>11
  <2> HIDE DEF u
  <2>6. /\ u \in Seq(Byte) /\ Len(u) = B /\ (\A j \in 1..L : u[j] = e.out[j])
        /\ u[L + 1] = bb + 1 /\ \A j \in L + 2..B : u[j] = 0
    BY <1>1, <2>4 DEF EndsInRun, L
  <2>7. 1 \in 0..1 /\ el = 1 * one + low /\ 255 - 255 * 1 = 0 /\ ~(nb = 0)
    BY <1>1, <1>2, <2>1
  <2> HIDE DEF low, s
  <2>8. /\ nb > 0 => u[L + 1] = bb + 1
        /\ \A j \in L + 2..B : u[j] = 255 - 255 * 1
        /\ nb = 0 => 1 = 0
    BY <2>6, <2>7
  <2>9. \E c2, low2 : Finished(e, s, c2, low2)
    BY ONLY <1>6, <2>1, <2>5, <2>6, <2>7, <2>8
  <2> QED BY <2>9 DEF s
<1>8. CASE ~(el >= one)
  <2> DEFINE run == [i \in 1..nb - 1 |-> 255]
             u == e.out \o (IF nb > 0 THEN <<bb>> ELSE <<>>) \o run
  <2>1. el \in Nat /\ el < one
    BY <1>1, <1>2, <1>8
  <2>2. s = u \o TailBytes(el, e.bitsLeft)
    BY <1>8, <1>11
  <2>3. /\ u \in Seq(Byte) /\ Len(u) = B /\ (\A j \in 1..L : u[j] = e.out[j])
        /\ (nb > 0 => u[L + 1] = bb) /\ \A j \in L + 2..B : u[j] = 255
    <3>1. CASE nb = 0
      <4>1. 1..nb - 1 = {}
        BY <3>1
      <4>2. run = <<>>
        <5>1. run = [i \in {} |-> 255]
          BY <4>1
        <5>2. [i \in {} |-> 255] = <<>>
          <6>1. 1..0 = {} /\ [i \in 1..0 |-> 255] = <<>>
            OBVIOUS
          <6> QED BY <6>1
        <5> QED BY <5>1, <5>2
      <4> HIDE DEF run
      <4>3. u = e.out
        BY <1>1, <3>1, <4>2
      <4>4. L + 2..B = {} /\ B = L
        BY <1>1, <3>1
      <4> HIDE DEF u
      <4> QED BY <1>1, <3>1, <4>3, <4>4 DEF L
    <3>2. CASE nb # 0
      <4>1. nb \in Nat \ {0} /\ bb \in Byte /\ nb > 0
        BY <1>1, <3>2 DEF Byte
      <4>2. u = e.out \o <<bb>> \o run
        BY <4>1
      <4> HIDE DEF u
      <4>3. EndsInRun(u, e.out, bb, 255, nb)
        BY <1>1, <1>3, <4>1, <4>2, RunAppended
      <4> QED BY <1>1, <4>3 DEF EndsInRun, L
    <3> QED BY <3>1, <3>2
  <2> HIDE DEF u
  <2>7. 0 \in 0..1 /\ el = 0 * one + el /\ 255 - 255 * 0 = 255 /\ bb + 0 = bb
    BY <1>1, <1>2
  <2> QED BY <1>6, <2>1, <2>2, <2>3, <2>7 DEF s
<1> QED BY <1>7, <1>8

\* The number of the bytes of finish(), and their height.
Delivers(e, s, V, total, P, H) ==
  /\ Reads(P, s, Len(s)) /\ Heights(H, Len(s)) /\ Len(s) \in Nat \ {0}
  /\ P[Len(s)] = (2 * (V \div 256) + 1) * Pow2(Pad(e.bitsLeft))
  /\ H[Len(s)] = 4 * (total * Pow2(Pad(e.bitsLeft)))

\* The bytes of the finished sub-stream are the number the encoder stood for, its stop
\* bit set.
LEMMA FinishNumber ==
  ASSUME NEW e, NEW V, NEW total, Stood(e, V, total)
  PROVE  \E P, H : Delivers(e, Finish(e), V, total, P, H)
<1> DEFINE s == Finish(e)
           B == Size(e)
           b == e.bitsLeft
           n == Count(b)
           k == Pow2(24 - b)
           p == Pow2(Pad(b))
           q == Pow2(8 * n)
<1>1. e \in EncoderType /\ Absorbs(e) /\ V \in Nat /\ total \in Nat \ {0} /\ Codes(e, V, total)
  BY DEF Stood
<1>2. b \in BitsLeft /\ B \in Nat
  BY <1>1 DEF EncoderType, Size
<1>3. PICK c, low : Finished(e, s, c, low)
  BY <1>1, FinishShape
<1> HIDE DEF s
<1>4. PICK P, H : Worth(e, P, H, V, total)
  BY <1>1 DEF Codes
<1>5. /\ c \in 0..1 /\ low \in Nat /\ low < Pow2(32 - b) /\ e.low = c * Pow2(32 - b) + low
      /\ Carried(e, s, c) /\ Len(s) = B + n
      /\ \A i \in 1..n : s[B + i] = TailBytes(low, b)[i]
  BY <1>3 DEF Finished
<1>6. /\ Numbers(e, P, H) /\ V = P[B] * Pow2(32 - b) + e.low /\ total = H[B] * Pow2(23 - b)
      /\ P[B] \in Nat /\ H[B] \in Nat
  BY <1>2, <1>4 DEF Worth, Numbers
<1> DEFINE w == Word(low, b)
<1>7. /\ w \in Nat /\ w < q /\ Pow2(32 - b) = 256 * k /\ Pow2(25 - b) = 2 * k
      /\ q = (2 * k) * p /\ n \in 1..2
  <2>1. /\ w \in Nat /\ w < q /\ Pow2(32 - b) = 256 * k /\ Pow2(25 - b) = 2 * k
        /\ q = Pow2(25 - b) * p
    BY <1>2, <1>5, WordFits
  <2> QED BY <1>2, <2>1, PadFits
<1>8. k \in Nat \ {0} /\ p \in Nat \ {0} /\ Pow2(23 - b) \in Nat \ {0} /\ k = 2 * Pow2(23 - b)
  <2>1. b \in 12..23
    BY <1>2 DEF BitsLeft
  <2> HIDE DEF b
  <2>2. 23 - b \in 0..31 /\ (23 - b) + 1 = 24 - b
    BY <2>1
  <2>3. Pad(b) \in 0..32
    <3>1. Pad(b) \in 0..7
      BY <1>2, PadFits
    <3> QED BY <3>1
  <2>4. Pow2((23 - b) + 1) = 2 * Pow2(23 - b) /\ Pow2(23 - b) \in Nat \ {0}
    BY <2>2, PowerDoubles
  <2>5. Pow2(Pad(b)) \in Nat \ {0}
    BY <2>3, PowerTyped
  <2>6. k = 2 * Pow2(23 - b)
    BY <2>2, <2>4
  <2> HIDE DEF k
  <2>7. k \in Nat \ {0}
    BY <2>4, <2>6
  <2> QED BY <2>4, <2>5, <2>6, <2>7
<1>9. PICK P1 : Reads(P1, s, B) /\ P1[B] = P[B] + c
  BY <1>1, <1>5, <1>6, CarriedReads
<1>10. Heights(H, B)
  BY <1>6 DEF Numbers, Heights
<1>11. TailBytes(low, b) = TailBytes(low, b) /\ Len(TailBytes(low, b)) = n
       /\ (n = 1 => TailBytes(low, b)[1] = w)
       /\ (n = 2 => TailBytes(low, b)[1] = w \div 256 /\ TailBytes(low, b)[2] = w % 256)
  BY <1>2, <1>5, TailShape
<1> DEFINE u == P[B] + c
           h == H[B]
<1>12. u \in Nat /\ h \in Nat
  BY <1>5, <1>6
<1>13. \E P2, H2 : Reads(P2, s, B + n) /\ Heights(H2, B + n) /\ P2[B + n] = u * q + w /\ H2[B + n] = h * q
  <2> HIDE DEF u, h, w, b, n, q, B
  <2>1. PICK H1 : Heights(H1, B + 1) /\ H1[B + 1] = 256 * h
    BY <1>2, <1>10, HeightsOn DEF h, B
  <2>2. CASE n = 1
    <3>1. s[B + 1] = w /\ q = 256 /\ s[B + 1] \in Nat
      <4>1. 1 \in 1..n /\ 8 * n = 8
        BY <2>2
      <4>2. s[B + 1] = w
        BY <1>5, <1>11, <2>2, <4>1
      <4> QED BY <1>7, <4>1, <4>2, Powers DEF q
    <3>2. PICK P2 : Reads(P2, s, B + 1) /\ P2[B + 1] = 256 * P1[B] + s[B + 1]
      BY <1>2, <1>9, <3>1, ReadsOn
    <3>3. 256 * u = u * 256 /\ 256 * h = h * 256
      BY <1>12
    <3>4. P2[B + 1] = u * q + w /\ H1[B + 1] = h * q
      BY <1>9, <2>1, <3>1, <3>2, <3>3 DEF u
    <3> QED BY <2>1, <2>2, <3>2, <3>4
  <2>3. CASE n = 2
    <3>1. s[B + 1] = w \div 256 /\ s[B + 2] = w % 256 /\ q = 65536
      <4>1. 1 \in 1..n /\ 2 \in 1..n /\ 8 * n = 16
        BY <2>3
      <4>2. s[B + 1] = TailBytes(low, b)[1] /\ s[B + 2] = TailBytes(low, b)[2]
        BY <1>5, <4>1
      <4> QED BY <1>11, <2>3, <4>1, <4>2, Powers DEF q
    <3>2. w \div 256 \in Nat /\ w % 256 \in Nat /\ w = (w \div 256) * 256 + (w % 256)
      BY <1>7
    <3>3. PICK P2 : Reads(P2, s, B + 1) /\ P2[B + 1] = 256 * P1[B] + s[B + 1]
      BY <1>2, <1>9, <3>1, <3>2, ReadsOn
    <3>4. B + 1 \in Nat /\ (B + 1) + 1 = B + 2
      BY <1>2
    <3>5. PICK P3 : Reads(P3, s, (B + 1) + 1) /\ P3[(B + 1) + 1] = 256 * P2[B + 1] + s[(B + 1) + 1]
      <4>1. s[(B + 1) + 1] \in Nat
        BY <3>1, <3>2, <3>4
      <4> QED BY ONLY <3>3, <3>4, <4>1, ReadsOn
    <3>6. PICK H2 : Heights(H2, (B + 1) + 1) /\ H2[(B + 1) + 1] = 256 * H1[B + 1]
      BY <2>1, <3>4, HeightsOn
    <3>7. P2[B + 1] = 256 * u + (w \div 256)
      BY <1>9, <3>1, <3>3 DEF u
    <3>8. P3[B + 2] = u * q + w /\ H2[B + 2] = h * q
      <4>1. 256 * (256 * u + (w \div 256)) + (w % 256) = u * 65536 + w
        BY <1>12, <3>2
      <4>2. 256 * (256 * h) = h * 65536
        BY <1>12
      <4> QED BY <2>1, <3>1, <3>4, <3>5, <3>6, <3>7, <4>1, <4>2
    <3> QED BY <2>3, <3>4, <3>5, <3>6, <3>8
  <2> QED BY <1>7, <2>2, <2>3
<1>14. PICK P2, H2 : Reads(P2, s, B + n) /\ Heights(H2, B + n) /\ P2[B + n] = u * q + w /\ H2[B + n] = h * q
  BY <1>13
<1> DEFINE a == low \div 256
<1>15. w = (2 * a + 1) * p /\ a \in Nat /\ low = 256 * a + (low % 256) /\ low % 256 \in 0..255
  <2>1. a \in Nat /\ low = 256 * a + (low % 256) /\ low % 256 \in 0..255
    BY <1>5
  <2> QED BY <2>1 DEF Word
<1>16. V = 256 * (u * k + a) + (low % 256)
  <2>1. V = P[B] * (256 * k) + (c * (256 * k) + low)
    BY <1>5, <1>6, <1>7
  <2> DEFINE v == P[B]
  <2>2. v \in Nat /\ c \in Nat /\ k \in Nat
    BY <1>5, <1>6, <1>8
  <2> HIDE DEF v, k, a
  <2>3. v * (256 * k) + (c * (256 * k) + low) = 256 * ((v + c) * k + a) + (low % 256)
    <3>1. v * (256 * k) + c * (256 * k) = 256 * ((v + c) * k)
      BY <2>2
    <3>2. (v + c) * k \in Nat /\ v * (256 * k) \in Nat /\ c * (256 * k) \in Nat
      BY <2>2
    <3> DEFINE X == (v + c) * k
               Y == v * (256 * k)
               Z == c * (256 * k)
    <3>3. X \in Nat /\ Y \in Nat /\ Z \in Nat /\ Y + Z = 256 * X
      BY <3>1, <3>2
    <3> HIDE DEF X, Y, Z
    <3> DEFINE d == low % 256
    <3>5. d \in Nat /\ a \in Nat /\ low \in Nat /\ low = 256 * a + d
      BY <1>5, <1>15
    <3> HIDE DEF d
    <3>4. Y + (Z + low) = 256 * (X + a) + d
      BY ONLY <3>3, <3>5
    <3> QED BY <3>4 DEF X, Y, Z, d
  <2> QED BY <2>1, <2>3 DEF v
<1> HIDE DEF u, k, p, q, w, a, h
<1>17. V \div 256 = u * k + a
  <2>1. u * k + a \in Nat
    BY <1>8, <1>12, <1>15
  <2> DEFINE x == u * k + a
             r == low % 256
  <2> HIDE DEF x
  <2>2. r \in 0..255
    BY <1>15
  <2> HIDE DEF r
  <2>3. (256 * x + r) \div 256 = x
    BY <2>1, <2>2 DEF x
  <2> QED BY <1>16, <2>3 DEF x, r
<1>18. u * q + w = (2 * (u * k + a) + 1) * p
  <2>1. u * ((2 * k) * p) + (2 * a + 1) * p = (2 * (u * k + a) + 1) * p
    BY <1>8, <1>12, <1>15
  <2> QED BY <1>7, <1>15, <2>1
<1>19. h * q = 4 * (total * p)
  <2> DEFINE g == Pow2(23 - b)
  <2>1. g \in Nat /\ k = 2 * g /\ total = h * g /\ p \in Nat
    BY <1>6, <1>8 DEF h
  <2> HIDE DEF g
  <2>2. h * ((2 * (2 * g)) * p) = 4 * ((h * g) * p)
    BY <1>12, <2>1
  <2> QED BY <1>7, <2>1, <2>2
<1>20. Len(s) = B + n /\ B + n \in Nat \ {0}
  <2>1. \A i \in Nat, j \in 1..2 : i + j \in Nat \ {0}
    OBVIOUS
  <2> QED BY <1>2, <1>5, <1>7, <2>1
<1> HIDE DEF n, B
<1>21. Delivers(e, s, V, total, P2, H2)
  BY <1>14, <1>17, <1>18, <1>19, <1>20 DEF Delivers, p
<1> QED BY <1>21 DEF s

Weights(W, n) ==
  W \in [0..n -> Nat] /\ W[n] = 128 /\ \A j \in 1..n : W[j - 1] = 256 * W[j]

\* The bytes of a sub-stream as a number t, in units of the last bit: P[j] is what
\* the first j bytes are, W[j] what a step of byte j weighs.
Stream(s, P, W, t) ==
  /\ s \in Seq(Byte) /\ Len(s) >= 2
  /\ Reads(P, s, Len(s))
  /\ Weights(W, Len(s))
  /\ t = 128 * P[Len(s)]

\* The number lies where the last two steps of the range are, the part of the
\* terminating bin, and it ends with the stop bit and pad bits.
StopsIn(s, P, W, t, x, pad) ==
  /\ pad \in 0..7 /\ x.wt = Pow2(pad)
  /\ In(t, x)
  /\ x.pos + 128 * ((x.range - 2) * x.wt) <= t
  /\ \E u \in Nat : P[Len(s)] = (2 * u + 1) * Pow2(pad)

\* The weights of the bytes of a stream, from the last byte back.
LEMMA WeightsExist ==
  ASSUME NEW K \in Nat, NEW H, Heights(H, K), K >= 1, NEW g \in Nat, H[K] = 512 * g, g # 0
  PROVE  /\ K >= 2
         /\ \E W : Weights(W, K) /\ W[2] = g
<1> DEFINE W == [j \in 0..K |-> 128 * H[K - j]]
<1>1. H \in [Nat -> Nat] /\ H[0] = 1 /\ \A j \in 1..K : H[j] = 256 * H[j - 1]
  BY DEF Heights
<1>2. K >= 2
  <2> SUFFICES ASSUME K = 1 PROVE FALSE
    OBVIOUS
  <2>1. 1 \in 1..K /\ 1 - 1 = 0
    OBVIOUS
  <2>2. H[1] = 256
    BY <1>1, <2>1
  <2> QED BY <2>2
<1>3. ASSUME NEW j \in 0..K PROVE K - j \in Nat /\ H[K - j] \in Nat /\ W[j] = 128 * H[K - j]
  <2>1. K - j \in Nat
    OBVIOUS
  <2> QED BY <1>1, <2>1
<1>4. W \in [0..K -> Nat]
  BY <1>3
<1> HIDE DEF W
<1>5. W[K] = 128
  <2>1. K \in 0..K /\ K - K = 0
    OBVIOUS
  <2> QED BY <1>1, <1>3, <2>1
<1>6. ASSUME NEW j \in 1..K PROVE W[j - 1] = 256 * W[j]
  <2>1. j \in 0..K /\ j - 1 \in 0..K /\ K - (j - 1) \in 1..K /\ (K - (j - 1)) - 1 = K - j
    OBVIOUS
  <2>2. H[K - (j - 1)] = 256 * H[K - j]
    BY <1>1, <2>1
  <2>3. W[j - 1] = 128 * (256 * H[K - j]) /\ W[j] = 128 * H[K - j] /\ H[K - j] \in Nat
    BY <1>3, <2>1, <2>2
  <2> QED BY <2>3
<1>7. W[2] = g
  <2>1. 2 \in 0..K /\ K \in 1..K /\ K - 1 \in 1..K /\ (K - 1) - 1 = K - 2
    BY <1>2
  <2>2. H[K] = 256 * H[K - 1] /\ H[K - 1] = 256 * H[K - 2] /\ H[K - 2] \in Nat /\ W[2] = 128 * H[K - 2]
    BY <1>1, <1>3, <2>1
  <2> QED BY <2>2
<1>8. Weights(W, K)
  BY <1>4, <1>5, <1>6 DEF Weights
<1> QED BY <1>2, <1>7, <1>8

\* A sub-stream that is closed is a stream whose number lies in the last interval, with
\* its stop bit.
LEMMA StreamEnds ==
  ASSUME NEW e, NEW V, NEW total, NEW x, Placed(e, V, total, x)
  PROVE  \E P, W, t, pad :
           /\ Stream(Finish(PutBinTrm(e, 1)), P, W, t)
           /\ W[2] = total * Pow2(pad)
           /\ StopsIn(Finish(PutBinTrm(e, 1)), P, W, t, Scaled(x, Pow2(pad)), pad)
<1> DEFINE f == PutBinTrm(e, 1)
           s == Finish(f)
           R == e.range
           A == V + (R - 2)
           pad == Pad(f.bitsLeft)
           m == Pow2(pad)
           cell == TrmCell(R, 1)
<1>1. e \in EncoderType /\ R \in Range9 /\ Stood(e, V, total) /\ V \in Nat /\ total \in Nat \ {0}
  <2>1. e \in EncoderType /\ Stood(e, V, total) /\ V \in Nat /\ total \in Nat \ {0}
    BY DEF Placed, Stood
  <2> QED BY <2>1 DEF EncoderType
<1>2. R \in 256..510 /\ R - 2 \in Nat /\ A \in Nat
  <2>1. R \in 256..510
    BY <1>1 DEF Range9
  <2> HIDE DEF R
  <2> QED BY <1>1, <2>1
<1>3. f = PutCell(e, cell) /\ CellFits(cell, R)
  <2>1. 1 \in 0..1
    OBVIOUS
  <2> QED BY <1>1, <2>1, PutBinTrmCell, TrmCellFits
<1>4. cell.shift = 7 /\ cell.low = R - 2 /\ Pow2(7) = 128
  BY Powers DEF TrmCell
<1> HIDE DEF f, cell
<1>5. Stood(f, V * 128 + (R - 2) * 128, total * 128)
  BY <1>1, <1>3, <1>4, CellCodes
<1>6. V * 128 + (R - 2) * 128 = 128 * A
  BY <1>1, <1>2
<1>7. PICK P, H : Delivers(f, s, 128 * A, total * 128, P, H)
  BY <1>5, <1>6, FinishNumber
<1>8. pad \in 0..7 /\ m \in Nat \ {0}
  <2>1. f.bitsLeft \in BitsLeft
    BY <1>5 DEF Stood, EncoderType
  <2>2. pad \in 0..7
    BY <2>1, PadFits
  <2> HIDE DEF pad
  <2>3. pad \in 0..32
    BY <2>2
  <2> QED BY <2>2, <2>3, PowerTyped
<1>9. s \in Seq(Byte)
  BY <1>5, FinishFits DEF Stood
<1> HIDE DEF s
<1> DEFINE K == Len(s)
           g == total * m
           a == A \div 2
           t == 128 * P[K]
<1>10. /\ Reads(P, s, K) /\ Heights(H, K) /\ K \in Nat /\ K >= 1
       /\ P[K] = (2 * ((128 * A) \div 256) + 1) * m
       /\ H[K] = 4 * ((total * 128) * m)
  BY <1>7 DEF Delivers
<1>11. g \in Nat /\ g # 0 /\ H[K] = 512 * g
  <2>1. g \in Nat \ {0}
    BY <1>1, <1>8, TimesPositive
  <2> HIDE DEF m
  <2>2. (total * 128) * m = 128 * (total * m)
    BY <1>1, <1>8
  <2> DEFINE G == total * m
  <2>3. G \in Nat /\ H[K] = 4 * (128 * G)
    BY <1>10, <2>1, <2>2
  <2> HIDE DEF G
  <2>4. H[K] = 512 * G
    BY <2>3
  <2> QED BY <2>1, <2>4 DEF G
<1>12. (128 * A) \div 256 = a /\ a \in Nat /\ A <= 2 * a + 1 /\ 2 * a + 1 < A + 2
  <2> HIDE DEF A
  <2> QED BY <1>2
<1> HIDE DEF pad, m, g, a, K
<1>13. K >= 2 /\ \E W : Weights(W, K) /\ W[2] = g
  BY <1>10, <1>11, WeightsExist
<1>14. PICK W : Weights(W, K) /\ W[2] = g
  BY <1>13
<1>15. Stream(s, P, W, t)
  BY <1>9, <1>10, <1>13, <1>14 DEF Stream, K
<1> DEFINE x2 == Scaled(x, m)
<1>16. /\ x \in Interval /\ x2.range = R /\ x2.pos = (128 * V) * m /\ x2.wt = m
       /\ x2.pos \in Nat
  <2>1. x \in Interval /\ x.range = R /\ x.pos = 128 * V /\ x.wt = 1
    BY DEF Placed
  <2>2. x2.range = R /\ x2.pos = (128 * V) * m /\ x2.wt = 1 * m
    BY <1>8, <2>1, ScaledTyped
  <2>3. 1 * m = m /\ (128 * V) * m \in Nat
    BY <1>1, <1>8
  <2> QED BY <2>1, <2>2, <2>3
<1> HIDE DEF x2, R
<1>17. P[K] = (2 * a + 1) * m
  BY <1>10, <1>12
<1> DEFINE y == 2 * a + 1
<1>18. A * m <= y * m /\ y * m < (A + 2) * m
  <2>1. y \in Nat /\ A <= y /\ y < A + 2 /\ A + 2 \in Nat /\ m \in Nat
    BY <1>2, <1>8, <1>12
  <2> HIDE DEF y, A
  <2> QED BY <1>2, <1>8, <2>1, TimesMonotonic, TimesStrict
<1>19. /\ (128 * V) * m + 128 * ((R - 2) * m) = 128 * (A * m)
       /\ (128 * V) * m + 128 * (R * m) = 128 * ((A + 2) * m)
  <2> DEFINE r == R - 2
  <2>1. r \in Nat /\ R = r + 2
    BY <1>2
  <2> HIDE DEF r
  <2>2. /\ (128 * V) * m + 128 * (r * m) = 128 * ((V + r) * m)
        /\ (128 * V) * m + 128 * ((r + 2) * m) = 128 * ((V + r + 2) * m)
    BY <1>1, <1>8, <2>1
  <2> QED BY <2>1, <2>2 DEF r
<1>20. x2.pos + 128 * ((x2.range - 2) * x2.wt) <= t /\ t < Top(x2) /\ x2.pos <= t
  <2>1. t = 128 * (y * m) /\ A * m \in Nat /\ y * m \in Nat /\ (A + 2) * m \in Nat
    <3>1. t = 128 * (y * m)
      BY <1>17
    <3>2. A \in Nat /\ y \in Nat /\ m \in Nat
      BY <1>2, <1>8, <1>12
    <3> HIDE DEF y, A
    <3> QED BY <3>1, <3>2
  <2>2. 128 * (A * m) <= t /\ t < 128 * ((A + 2) * m)
    <3> DEFINE i == A * m
               j == y * m
               k == (A + 2) * m
    <3>1. i \in Nat /\ j \in Nat /\ k \in Nat /\ i <= j /\ j < k /\ t = 128 * j
      BY <1>18, <2>1
    <3> HIDE DEF i, j, k, t
    <3>2. 128 * i <= t /\ t < 128 * k
      BY <3>1
    <3> QED BY <3>2 DEF i, k
  <2>3. (R - 2) * m \in Nat /\ (128 * V) * m \in Nat
    BY <1>1, <1>2, <1>8
  <2>4. (128 * V) * m <= 128 * (A * m)
    <3> DEFINE i == (R - 2) * m
               j == (128 * V) * m
    <3>1. i \in Nat /\ j \in Nat /\ j + 128 * i = 128 * (A * m)
      BY <1>19, <2>3
    <3> HIDE DEF i, j
    <3>2. j <= j + 128 * i
      BY <3>1
    <3> QED BY <3>1, <3>2 DEF j
  <2>5. t \in Nat /\ 128 * (A * m) \in Nat
    BY <2>1
  <2>6. (128 * V) * m <= t
    <3> DEFINE i == 128 * (A * m)
               j == (128 * V) * m
    <3>1. i \in Nat /\ j \in Nat /\ j <= i /\ i <= t
      BY <2>2, <2>3, <2>4, <2>5
    <3> HIDE DEF i, j, t
    <3>2. j <= t
      BY <2>5, <3>1 DEF t
    <3> QED BY <3>2 DEF j
  <2> HIDE DEF t
  <2> QED BY <1>16, <1>19, <2>2, <2>6 DEF Top
<1>21. StopsIn(s, P, W, t, x2, pad)
  <2>1. x2.wt = Pow2(pad) /\ P[K] = (2 * a + 1) * Pow2(pad)
    BY <1>16, <1>17 DEF m
  <2> HIDE DEF t
  <2> QED BY <1>8, <1>12, <1>20, <2>1 DEF StopsIn, In, K
<1>22. W[2] = total * Pow2(pad)
  BY <1>14 DEF g, m
<1> HIDE DEF t
<1>23. Stream(s, P, W, t) /\ W[2] = total * Pow2(pad) /\ StopsIn(s, P, W, t, Scaled(x, Pow2(pad)), pad)
  BY <1>15, <1>21, <1>22 DEF x2, m
<1> QED BY <1>23 DEF s, f

(* ------------------------------- the decoder ------------------------------- *)

DecoderType == [value : Nat, range : Range9, bitsNeeded : -8..-1, idx : Nat \ {0}]

\* The value register of the decoder: the number its bytes are, beyond pos, in steps
\* of wt; m of them in units of the last bit shifted in.
Register(s, P, W, value, n, j, pos, wt, m) ==
  /\ m \in Nat /\ value = m * Pow2(n)
  /\ W[j] = wt * Pow2(n)
  /\ pos + m * W[j] = P[j] * W[j]

Registers(s, P, W, value, n, j, pos, wt) ==
  \E m : Register(s, P, W, value, n, j, pos, wt, m)

Holds(s, P, W, d, pos, wt) ==
  /\ d.idx - 1 \in 2..Len(s)
  /\ Registers(s, P, W, d.value, 8 + d.bitsNeeded, d.idx - 1, pos, wt)

\* The first j bytes bound the number.
LEMMA StreamBound ==
  ASSUME NEW s, NEW P, NEW W, NEW t, Stream(s, P, W, t), NEW j \in 0..Len(s)
  PROVE  /\ P[j] \in Nat /\ W[j] \in Nat /\ t \in Nat
         /\ P[j] * W[j] <= t /\ t < P[j] * W[j] + W[j]
<1> DEFINE K == Len(s)
<1>1. /\ K \in Nat /\ K >= 2 /\ s \in Seq(Byte)
      /\ Reads(P, s, K) /\ Weights(W, K) /\ t = 128 * P[K]
  BY DEF Stream
<1>2. (\A i \in 1..K : s[i] \in 0..255) /\ (\A i \in 0..K : P[i] \in Nat /\ W[i] \in Nat)
      /\ (\A i \in 1..K : P[i] = 256 * P[i - 1] + s[i] /\ W[i - 1] = 256 * W[i])
      /\ W[K] = 128
  <2>0. Len(s) \in Nat /\ \A i \in 1..Len(s) : s[i] \in Byte
    BY <1>1
  <2>1. \A i \in 1..K : s[i] \in 0..255
    BY <2>0 DEF Byte
  <2> HIDE DEF K
  <2>2. P \in [Nat -> Nat] /\ \A i \in 1..K : P[i] = 256 * P[i - 1] + s[i]
    BY <1>1 DEF Reads
  <2>3. W \in [0..K -> Nat] /\ W[K] = 128 /\ \A i \in 1..K : W[i - 1] = 256 * W[i]
    BY <1>1 DEF Weights
  <2>4. \A i \in 0..K : P[i] \in Nat /\ W[i] \in Nat
    <3>1. \A i \in 0..K : i \in Nat
      BY <1>1
    <3>2. \A i \in Nat : P[i] \in Nat
      BY <2>2
    <3>3. \A i \in 0..K : W[i] \in Nat
      BY <2>3
    <3> QED BY <3>1, <3>2, <3>3
  <2> QED BY <2>1, <2>2, <2>3, <2>4
<1> HIDE DEF K
<1> DEFINE B(i) == P[i] * W[i] <= t /\ t < P[i] * W[i] + W[i]
           S == {i \in Nat : i <= K => B(K - i)}
<1>3. 0 \in S
  <2>1. B(K)
    <3> DEFINE p == P[K]
    <3>1. p \in Nat /\ t = 128 * p /\ W[K] = 128
      BY <1>1, <1>2
    <3> HIDE DEF p
    <3>2. p * 128 <= t /\ t < p * 128 + 128
      BY <3>1
    <3> QED BY <3>1, <3>2 DEF p
  <2>2. K - 0 = K
    BY <1>1
  <2> QED BY <2>1, <2>2
<1>4. ASSUME NEW i \in Nat, i \in S PROVE i + 1 \in S
  <2> SUFFICES ASSUME i + 1 <= K PROVE B(K - (i + 1))
    OBVIOUS
  <2> DEFINE k == K - i
             p == P[k - 1]
             w == W[k]
             b == s[k]
  <2>1. k \in 1..K /\ k \in 0..K /\ k - 1 \in 0..K /\ K - (i + 1) = k - 1
    BY <1>1
  <2>2. B(k)
    <3>1. i <= K
      BY <1>1
    <3> HIDE DEF B
    <3> QED BY <1>4, <3>1
  <2> HIDE DEF k
  <2>3. p \in Nat /\ w \in Nat /\ b \in 0..255 /\ P[k] = 256 * p + b /\ W[k - 1] = 256 * w
    BY <1>2, <2>1
  <2>4. (256 * p + b) * w <= t /\ t < (256 * p + b) * w + w
    BY <2>2, <2>3
  <2> HIDE DEF B
  <2>t. t \in Nat
    BY <1>1, <1>2
  <2> HIDE DEF p, w, b
  <2>5. (256 * p + b) * w = p * (256 * w) + b * w
    BY <2>3
  <2>6. b * w + w <= 256 * w /\ b * w \in Nat
    <3>1. b + 1 \in Nat /\ b + 1 <= 256 /\ b \in Nat
      BY <2>3
    <3>2. (b + 1) * w <= 256 * w
      BY <2>3, <3>1, TimesMonotonic
    <3>3. (b + 1) * w = b * w + w /\ b * w \in Nat
      BY <2>3, <3>1
    <3> QED BY <3>2, <3>3
  <2>7. p * (256 * w) <= t /\ t < p * (256 * w) + 256 * w
    <3> DEFINE u == p * (256 * w)
               v == b * w
    <3>1. u \in Nat /\ v \in Nat /\ u + v <= t /\ t < u + v + w /\ v + w <= 256 * w
      BY <2>3, <2>4, <2>5, <2>6
    <3> HIDE DEF u, v
    <3>2. u <= t /\ t < u + 256 * w
      BY <2>3, <2>t, <3>1
    <3> QED BY <3>2 DEF u
  <2>8. B(k - 1)
    BY <2>3, <2>7 DEF B, p, w
  <2> QED BY <2>1, <2>8
<1> HIDE DEF S
<1>5. Nat \subseteq S
  BY <1>3, <1>4, SetInduction
<1>6. K - j \in Nat /\ K - j <= K /\ K - (K - j) = j /\ j \in 0..K
  BY <1>1 DEF K
<1> HIDE DEF B
<1>7. B(j)
  <2>1. K - j \in S
    BY <1>5, <1>6
  <2> QED BY <1>6, <2>1 DEF S
<1>8. t \in Nat
  <2>1. K \in 0..K
    BY <1>1
  <2>2. P[K] \in Nat
    BY <1>2, <2>1
  <2> QED BY <1>1, <2>2
<1> QED BY <1>2, <1>6, <1>7, <1>8 DEF B

\* The factor of 128 that is left of a shift.
LEMMA SevenSplit ==
  ASSUME NEW n \in 0..7
  PROVE  Pow2(n) \in Nat \ {0} /\ Pow2(7 - n) \in Nat \ {0} /\ 128 = Pow2(7 - n) * Pow2(n)
<1>1. n \in 0..32 /\ 7 - n \in 0..32 /\ (7 - n) + n = 7
  OBVIOUS
<1>2. Pow2(7) = 128
  BY Powers
<1>3. Pow2(n) \in Nat \ {0} /\ Pow2(7 - n) \in Nat \ {0}
  BY <1>1, PowerTyped
<1>4. Pow2((7 - n) + n) = Pow2(7 - n) * Pow2(n)
  <2> DEFINE a == 7 - n
  <2>1. a \in 0..32 /\ a + n <= 32
    OBVIOUS
  <2> HIDE DEF a
  <2>2. Pow2(a + n) = Pow2(a) * Pow2(n)
    BY <1>1, <2>1, PowerSum
  <2> QED BY <2>2 DEF a
<1> QED BY <1>1, <1>2, <1>3, <1>4

\* The compare of value with the range tells on which side of a place the number is.
LEMMA RegisterCompares ==
  ASSUME NEW s, NEW P, NEW W, NEW t, Stream(s, P, W, t), NEW j \in 0..Len(s),
         NEW n \in 0..7, NEW value \in Nat, NEW pos \in Nat, NEW wt \in Nat \ {0},
         Registers(s, P, W, value, n, j, pos, wt), NEW k \in Nat
  PROVE  (value >= 128 * k <=> pos + 128 * (k * wt) <= t)
<1>0. PICK m : Register(s, P, W, value, n, j, pos, wt, m)
  BY DEF Registers
<1> DEFINE u == Pow2(n)
           g == Pow2(7 - n)
           w == W[j]
           p == P[j]
           G == g * k
<1>1. u \in Nat \ {0} /\ g \in Nat \ {0} /\ 128 = g * u
  BY SevenSplit
<1>2. m \in Nat /\ value = m * u /\ w = wt * u /\ pos + m * w = p * w
  BY <1>0 DEF Register
<1>3. p \in Nat /\ w \in Nat /\ p * w <= t /\ t < p * w + w
  BY StreamBound
<1>t. t \in Nat
  BY StreamBound
<1> HIDE DEF u, g, w, p
<1>4. G \in Nat /\ 128 * k = G * u /\ 128 * (k * wt) = G * w
  <2>1. G \in Nat
    BY <1>1
  <2>2. (g * u) * k = (g * k) * u /\ (g * u) * (k * wt) = (g * k) * (wt * u)
    BY <1>1
  <2> QED BY <1>1, <1>2, <2>1, <2>2
<1> HIDE DEF G
<1>5. value \in Nat /\ (value >= 128 * k <=> G <= m)
  <2>1. m * u \in Nat /\ G * u \in Nat
    BY <1>1, <1>2, <1>4
  <2>2. CASE G <= m
    <3>1. G * u <= m * u
      BY <1>1, <1>2, <1>4, <2>2, TimesMonotonic
    <3> QED BY <1>2, <1>4, <2>1, <2>2, <3>1
  <2>3. CASE m < G
    <3>1. m * u < G * u
      BY <1>1, <1>2, <1>4, <2>3, TimesStrict
    <3> QED BY <1>2, <1>4, <2>1, <2>3, <3>1
  <2> QED BY <1>2, <1>4, <2>2, <2>3
<1>6. pos + G * w <= t <=> G <= m
  <2>1. m * w \in Nat /\ G * w \in Nat /\ p * w \in Nat
    <3>1. m \in Nat /\ G \in Nat /\ p \in Nat /\ w \in Nat
      BY <1>2, <1>3, <1>4
    <3> QED BY ONLY <3>1
  <2>2. CASE G <= m
    <3>1. G * w <= m * w
      BY <1>2, <1>3, <1>4, <2>2, TimesMonotonic
    <3> DEFINE a == G * w
               b == m * w
               c == p * w
    <3>2. a \in Nat /\ b \in Nat /\ c \in Nat /\ a <= b /\ pos + b = c /\ c <= t
      BY <1>2, <1>3, <2>1, <3>1
    <3> HIDE DEF a, b, c
    <3>3. pos + a <= t
      BY <1>t, <3>2
    <3> QED BY <2>2, <3>3 DEF a
  <2>3. CASE m < G
    <3>0. w # 0
      <4>1. p * w <= t /\ t < p * w + w
        BY <1>3
      <4> QED BY <1>t, <1>3, <2>1, <4>1
    <3>1. m * w + w <= G * w
      BY <1>2, <1>3, <1>4, <2>3, <3>0, TimesStrict
    <3> DEFINE a == G * w
               b == m * w
               c == p * w
    <3>2. a \in Nat /\ b \in Nat /\ c \in Nat /\ b + w <= a /\ pos + b = c /\ t < c + w
      BY <1>2, <1>3, <2>1, <3>1
    <3> HIDE DEF a, b, c
    <3>3. ~(pos + a <= t)
      BY <1>t, <1>3, <3>2
    <3> QED BY <1>2, <1>4, <2>3, <3>3 DEF a
  <2> QED BY <1>2, <1>4, <2>2, <2>3
<1> QED BY <1>4, <1>5, <1>6

\* Taking 128 * k from the value moves pos up.
LEMMA RegisterTakes ==
  ASSUME NEW s, NEW P, NEW W, NEW j, NEW n \in 0..7, NEW value \in Nat, NEW pos \in Nat,
         NEW wt \in Nat \ {0}, Registers(s, P, W, value, n, j, pos, wt),
         W[j] \in Nat, P[j] \in Nat,
         NEW k \in Nat, value >= 128 * k, NEW value2, value2 = value - 128 * k,
         NEW pos2, pos2 = pos + 128 * (k * wt)
  PROVE  Registers(s, P, W, value2, n, j, pos2, wt)
<1>0. PICK m : Register(s, P, W, value, n, j, pos, wt, m)
  BY DEF Registers
<1> DEFINE u == Pow2(n)
           g == Pow2(7 - n)
           w == W[j]
           p == P[j]
           G == g * k
<1>1. u \in Nat \ {0} /\ g \in Nat \ {0} /\ 128 = g * u
  BY SevenSplit
<1>2. m \in Nat /\ value = m * u /\ w = wt * u /\ pos + m * w = p * w
  BY <1>0 DEF Register
<1>3. p \in Nat /\ w \in Nat
  OBVIOUS
<1> HIDE DEF u, g, w, p
<1>4. G \in Nat /\ 128 * k = G * u /\ 128 * (k * wt) = G * w
  <2>1. G \in Nat
    BY <1>1
  <2>2. (g * u) * k = (g * k) * u /\ (g * u) * (k * wt) = (g * k) * (wt * u)
    BY <1>1
  <2> QED BY <1>1, <1>2, <2>1, <2>2
<1> HIDE DEF G
<1>5. G <= m
  <2> SUFFICES ASSUME m < G PROVE FALSE
    BY <1>2, <1>4
  <2>1. m * u < G * u /\ m * u \in Nat /\ G * u \in Nat
    BY <1>1, <1>2, <1>4, TimesStrict
  <2> QED BY <1>2, <1>4, <2>1
<1> DEFINE m2 == m - G
<1>6. m2 \in Nat /\ m = m2 + G
  BY <1>2, <1>4, <1>5
<1> HIDE DEF m2
<1>7. value - 128 * k = m2 * u
  <2>1. (m2 + G) * u = m2 * u + G * u /\ m2 * u \in Nat /\ G * u \in Nat
    BY <1>1, <1>4, <1>6
  <2> QED BY <1>2, <1>4, <1>6, <2>1
<1>8. (pos + 128 * (k * wt)) + m2 * w = p * w
  <2>1. (m2 + G) * w = m2 * w + G * w /\ m2 * w \in Nat /\ G * w \in Nat /\ p * w \in Nat
    BY <1>3, <1>4, <1>6
  <2> QED BY <1>2, <1>4, <1>6, <2>1
<1>9. Register(s, P, W, value2, n, j, pos2, wt, m2)
  BY <1>2, <1>6, <1>7, <1>8 DEF Register, u, w, p
<1> QED BY <1>9 DEF Registers

\* Moving the value up moves wt down.
LEMMA RegisterMoves ==
  ASSUME NEW s, NEW P, NEW W, NEW j, NEW q \in 0..7, NEW n \in 1..8, NEW value,
         NEW pos, NEW wt \in Nat \ {0},
         Registers(s, P, W, value, q, j, pos, wt * Pow2(n)), q + n <= 7
  PROVE  Registers(s, P, W, value * Pow2(n), q + n, j, pos, wt)
<1>0. PICK m : Register(s, P, W, value, q, j, pos, wt * Pow2(n), m)
  BY DEF Registers
<1>1. Pow2(q + n) = Pow2(q) * Pow2(n) /\ Pow2(q) \in Nat /\ Pow2(n) \in Nat
  <2>1. q \in 0..32 /\ n \in 0..32 /\ q + n <= 32
    OBVIOUS
  <2> QED BY <2>1, PowerSum, PowerTyped
<1>2. m \in Nat /\ value = m * Pow2(q) /\ W[j] = (wt * Pow2(n)) * Pow2(q)
      /\ pos + m * W[j] = P[j] * W[j]
  BY <1>0 DEF Register
<1> DEFINE a == Pow2(q)
           b == Pow2(n)
<1> HIDE DEF a, b
<1>3. (m * a) * b = m * (a * b) /\ (wt * b) * a = wt * (a * b)
  BY <1>1, <1>2 DEF a, b
<1>4. Register(s, P, W, value * Pow2(n), q + n, j, pos, wt, m)
  BY <1>1, <1>2, <1>3 DEF Register, a, b
<1> QED BY <1>4 DEF Registers

\* Once eight bits have gone, the next byte comes in, and there is one.
LEMMA RegisterReads ==
  ASSUME NEW s, NEW P, NEW W, NEW t, Stream(s, P, W, t), NEW j \in 0..Len(s),
         NEW q \in 0..7, NEW n \in 1..8, NEW value,
         NEW pos \in Nat, NEW wt \in Nat \ {0},
         Registers(s, P, W, value, q, j, pos, wt * Pow2(n)), q + n >= 8
  PROVE  /\ j + 1 \in 1..Len(s) /\ s[j + 1] \in 0..255
         /\ Registers(s, P, W, value * Pow2(n) + s[j + 1] * Pow2(q + n - 8), q + n - 8,
                      j + 1, pos, wt)
<1>0. PICK m : Register(s, P, W, value, q, j, pos, wt * Pow2(n), m)
  BY DEF Registers
<1> DEFINE K == Len(s)
           l == q + n - 8
           a == Pow2(q)
           b == Pow2(n)
           c == Pow2(l)
<1>1. a * b = 256 * c /\ a \in Nat /\ b \in Nat /\ c \in Nat \ {0}
  <2>1. q \in 0..32 /\ n \in 0..32 /\ q + n <= 32 /\ l \in 0..32 /\ 8 \in 0..32 /\ l + 8 <= 32
        /\ l + 8 = q + n
    OBVIOUS
  <2>2. Pow2(q + n) = a * b /\ Pow2(l + 8) = Pow2(l) * Pow2(8)
    <3> HIDE DEF l
    <3> QED BY <2>1, PowerSum
  <2>3. a \in Nat /\ b \in Nat /\ c \in Nat \ {0} /\ Pow2(8) = 256
    <3> HIDE DEF l
    <3>1. a \in Nat /\ b \in Nat /\ c \in Nat \ {0}
      BY <2>1, PowerTyped
    <3>2. Pow2(8) = 256
      BY Powers
    <3> QED BY <3>1, <3>2
  <2>4. a * b = c * 256
    <3> HIDE DEF a, b
    <3> QED BY <2>1, <2>2, <2>3
  <2> HIDE DEF a, b, c
  <2> QED BY <2>3, <2>4
<1>2. m \in Nat /\ value = m * a /\ W[j] = (wt * b) * a /\ pos + m * W[j] = P[j] * W[j]
  BY <1>0 DEF Register
<1>3. /\ K \in Nat /\ (\A i \in 1..K : s[i] \in Byte) /\ W[K] = 128
      /\ \A i \in 1..K : P[i] = 256 * P[i - 1] + s[i] /\ W[i - 1] = 256 * W[i]
  <2>1. s \in Seq(Byte) /\ Reads(P, s, K) /\ Weights(W, K)
    BY DEF Stream
  <2>2. K \in Nat /\ \A i \in 1..K : s[i] \in Byte
    BY <2>1
  <2> HIDE DEF K
  <2> QED BY <2>1, <2>2 DEF Reads, Weights
<1>4. W[j] = 256 * (wt * c) /\ wt * c \in Nat \ {0}
  <2>1. wt * c \in Nat \ {0}
    <3> HIDE DEF c
    <3> QED BY <1>1, TimesPositive
  <2> HIDE DEF a, b, c
  <2>2. (wt * b) * a = wt * (a * b) /\ wt * (256 * c) = 256 * (wt * c)
    BY <1>1
  <2> QED BY <1>1, <1>2, <2>1, <2>2
<1> HIDE DEF K, a, b, c
<1>5. j \in 0..K
  BY DEF K
<1>6. j # K
  <2> SUFFICES ASSUME j = K PROVE FALSE
    OBVIOUS
  <2> DEFINE x == wt * c
  <2>1. x \in Nat /\ x # 0 /\ 128 = 256 * x
    BY <1>3, <1>4
  <2> HIDE DEF x
  <2> QED BY <2>1
<1>7. j + 1 \in 1..K /\ (j + 1) - 1 = j
  BY <1>3, <1>5, <1>6
<1> DEFINE i == j + 1
           z == s[i]
           p == P[j]
           w == wt * c
<1>8. z \in 0..255 /\ P[i] = 256 * p + z /\ 256 * W[i] = W[j]
  <2>1. i \in 1..K /\ i - 1 = j
    BY <1>7
  <2> HIDE DEF i
  <2>2. s[i] \in Byte
    BY <1>3, <2>1
  <2>3. P[i] = 256 * P[j] + s[i] /\ W[j] = 256 * W[i]
    BY ONLY <1>3, <2>1
  <2> QED BY <2>2, <2>3 DEF Byte
<1>9. W[i] = w /\ W[j] = 256 * w /\ w \in Nat
  <2>1. W[i] \in Nat /\ p \in Nat
    BY <1>7, StreamBound DEF K
  <2> HIDE DEF i, w
  <2>2. 256 * W[i] = 256 * w /\ w \in Nat
    BY <1>4, <1>8 DEF w
  <2> QED BY <1>4, <2>1, <2>2 DEF w
<1>p. p \in Nat
  BY StreamBound
<1> HIDE DEF i, z, p, w
<1>10. value * b + z * c = (256 * m + z) * c
  <2>1. (m * a) * b = m * (a * b) /\ m * (256 * c) + z * c = (256 * m + z) * c
    BY <1>1, <1>2, <1>8
  <2> QED BY <1>1, <1>2, <2>1
<1>11. pos + (256 * m + z) * w = (256 * p + z) * w
  <2>1. pos + m * (256 * w) = p * (256 * w)
    BY <1>2, <1>9 DEF p
  <2>2. (256 * m + z) * w = m * (256 * w) + z * w /\ (256 * p + z) * w = p * (256 * w) + z * w
        /\ m * (256 * w) \in Nat /\ z * w \in Nat /\ p * (256 * w) \in Nat
    <3>1. z \in Nat
      BY <1>8
    <3> QED BY ONLY <3>1, <1>2, <1>9, <1>p
  <2> QED BY <2>1, <2>2
<1>12. 256 * m + z \in Nat
  BY <1>2, <1>8
<1>13. Register(s, P, W, value * b + z * c, l, i, pos, wt, 256 * m + z)
  <2> HIDE DEF l
  <2> QED BY <1>8, <1>9, <1>10, <1>11, <1>12 DEF Register, w, c
<1>14. Registers(s, P, W, value * b + z * c, l, i, pos, wt)
  BY <1>13 DEF Registers
<1> QED BY <1>7, <1>8, <1>14 DEF b, z, c, i, K

\* What the decoder may read on from x.
Stands(s, P, W, t, d, x) ==
  /\ d \in DecoderType /\ x \in Interval /\ d.range = x.range
  /\ Holds(s, P, W, d, x.pos, x.wt)
  /\ In(t, x)

\* The ranges of the decoder's registers.
LEMMA DecoderFields ==
  ASSUME NEW d \in DecoderType
  PROVE  /\ d.value \in Nat /\ d.range \in Nat /\ d.range \in Range9 /\ d.idx \in Nat \ {0}
         /\ d.bitsNeeded \in -8..-1 /\ 8 + d.bitsNeeded \in 0..7
<1>1. d.value \in Nat /\ d.range \in 256..510 /\ d.idx \in Nat \ {0} /\ d.bitsNeeded \in -8..-1
  <2>1. d.value \in Nat /\ d.range \in Range9 /\ d.idx \in Nat \ {0} /\ d.bitsNeeded \in -8..-1
    BY DEF DecoderType
  <2> QED BY <2>1 DEF Range9
<1> DEFINE b == d.bitsNeeded
<1>2. b \in -8..-1
  BY <1>1
<1> HIDE DEF b
<1>3. 8 + b \in 0..7
  BY <1>2
<1> QED BY <1>1, <1>3 DEF b, Range9

\* The decoder with a new value register.
Set(f, d, v, k, i) ==
  /\ f \in DecoderType
  /\ f.value = v /\ f.range = d.range /\ f.bitsNeeded = k /\ f.idx = i

\* A refill that needs no byte.
LEMMA RefillStays ==
  ASSUME NEW s, NEW d \in DecoderType, NEW n, NEW v \in Nat, v = d.value * Pow2(n),
         NEW k \in -8..-1, k = d.bitsNeeded + n
  PROVE  Set(Refill(s, d, n), d, v, k, d.idx)
<1>1. k < 0
  OBVIOUS
<1>2. Refill(s, d, n) = [d EXCEPT !.value = v, !.bitsNeeded = k]
  BY <1>1 DEF Refill
<1>3. Set([d EXCEPT !.value = v, !.bitsNeeded = k], d, v, k, d.idx)
  BY DEF Set, DecoderType
<1> QED BY <1>2, <1>3

\* A refill that reads one.
LEMMA RefillReads ==
  ASSUME NEW s, NEW d \in DecoderType, NEW n, NEW need \in 0..7, need = d.bitsNeeded + n,
         NEW v \in Nat, v = d.value * Pow2(n) + ByteAt(s, d.idx) * Pow2(need)
  PROVE  Set(Refill(s, d, n), d, v, need - 8, d.idx + 1)
<1> DEFINE k == need - 8
           i == d.idx + 1
<1>1. k \in -8..-1 /\ ~(need < 0)
  OBVIOUS
<1>2. i \in Nat \ {0}
  <2>1. d.idx \in Nat \ {0}
    BY DecoderFields
  <2> QED BY <2>1
<1>3. Refill(s, d, n) = [d EXCEPT !.value = v, !.bitsNeeded = k, !.idx = @ + 1]
  BY <1>1 DEF Refill
<1>4. [d EXCEPT !.value = v, !.bitsNeeded = k, !.idx = @ + 1]
        = [d EXCEPT !.value = v, !.bitsNeeded = k, !.idx = i]
  OBVIOUS
<1> HIDE DEF k, i
<1>5. Set([d EXCEPT !.value = v, !.bitsNeeded = k, !.idx = i], d, v, k, i)
  BY <1>1, <1>2 DEF Set, DecoderType
<1>6. Refill(s, d, n) = [d EXCEPT !.value = v, !.bitsNeeded = k, !.idx = i]
  BY <1>3, <1>4
<1> QED BY <1>5, <1>6 DEF k, i

\* Where the register of a decoder stands.
LEMMA HoldsPlace ==
  ASSUME NEW s, NEW P, NEW W, NEW d \in DecoderType, NEW pos, NEW wt, Holds(s, P, W, d, pos, wt)
  PROVE  \E q \in 0..7, j \in 0..Len(s), v \in Nat :
           /\ v = d.value /\ q = 8 + d.bitsNeeded /\ j = d.idx - 1 /\ j \in 2..Len(s)
           /\ Registers(s, P, W, v, q, j, pos, wt)
<1>1. 8 + d.bitsNeeded \in 0..7 /\ d.value \in Nat
  BY DecoderFields
<1>2. d.idx - 1 \in 2..Len(s) /\ Registers(s, P, W, d.value, 8 + d.bitsNeeded, d.idx - 1, pos, wt)
  BY DEF Holds
<1> DEFINE q == 8 + d.bitsNeeded
           j == d.idx - 1
<1> HIDE DEF q, j
<1>3. q \in 0..7 /\ j \in 2..Len(s) /\ Registers(s, P, W, d.value, q, j, pos, wt)
  BY <1>1, <1>2 DEF q, j
<1>4. j \in 0..Len(s)
  BY <1>3
<1> QED BY <1>1, <1>3, <1>4 DEF q, j

\* A decoder whose registers hold the number.
LEMMA HoldsMade ==
  ASSUME NEW s, NEW P, NEW W, NEW f, NEW v, NEW q, NEW j \in 2..Len(s), NEW pos, NEW wt,
         f.value = v, 8 + f.bitsNeeded = q, f.idx - 1 = j, Registers(s, P, W, v, q, j, pos, wt)
  PROVE  Holds(s, P, W, f, pos, wt)
BY Zenon DEF Holds

\* A refill keeps the number, in steps finer by the bins it makes room for.
LEMMA HoldsRefilled ==
  ASSUME NEW s, NEW P, NEW W, NEW t, Stream(s, P, W, t), NEW d \in DecoderType,
         NEW n \in 1..8, NEW pos \in Nat, NEW wt \in Nat \ {0}, Holds(s, P, W, d, pos, wt * Pow2(n))
  PROVE  /\ Refill(s, d, n) \in DecoderType /\ Refill(s, d, n).range = d.range
         /\ Holds(s, P, W, Refill(s, d, n), pos, wt)
<1> DEFINE f == Refill(s, d, n)
           bn == d.bitsNeeded
           i == d.idx
           q == 8 + bn
           j == i - 1
           dv == d.value
           v == dv * Pow2(n)
<1>1. /\ dv \in Nat /\ d.range \in Range9 /\ i \in Nat \ {0} /\ bn \in -8..-1
      /\ q \in 0..7
  BY DecoderFields
<1>2. j \in 2..Len(s) /\ Registers(s, P, W, dv, q, j, pos, wt * Pow2(n))
  BY DEF Holds
<1>4. Len(s) \in Nat /\ DOMAIN s = 1..Len(s)
  BY DEF Stream
<1>5. Pow2(n) \in Nat /\ v \in Nat
  <2>1. n \in 0..32
    OBVIOUS
  <2>2. Pow2(n) \in Nat
    BY <2>1, PowerTyped
  <2> HIDE DEF dv
  <2> QED BY <1>1, <2>2
<1>6. CASE bn + n < 0
  <2>3. bn + n \in -8..-1 /\ 8 + (bn + n) = q + n /\ q + n <= 7
    <3> HIDE DEF bn
    <3> QED BY <1>1, <1>6
  <2> DEFINE k == bn + n
  <2>1. Set(f, d, v, k, i)
    <3>1. v \in Nat /\ v = d.value * Pow2(n) /\ k \in -8..-1 /\ k = d.bitsNeeded + n
      BY <1>5, <2>3
    <3> HIDE DEF v, k
    <3> QED BY <3>1, RefillStays
  <2> HIDE DEF f, v, bn, i, dv
  <2>2. f.value = v /\ f.bitsNeeded = bn + n /\ f.range = d.range /\ f.idx = i
    BY <2>1 DEF Set
  <2>4. f \in DecoderType
    BY <2>1 DEF Set
  <2> HIDE DEF q, j, k
  <2>5. Registers(s, P, W, v, q + n, j, pos, wt)
    BY <1>1, <1>2, <2>3, RegisterMoves DEF v
  <2>6. 8 + f.bitsNeeded = q + n /\ f.idx - 1 = j
    BY <2>2, <2>3 DEF j
  <2>7. Holds(s, P, W, f, pos, wt)
    <3> DEFINE A == q + n
    <3>1. f.value = v /\ 8 + f.bitsNeeded = A /\ f.idx - 1 = j /\ Registers(s, P, W, v, A, j, pos, wt)
      BY <2>2, <2>5, <2>6
    <3> HIDE DEF A
    <3> QED BY <1>2, <3>1, HoldsMade
  <2> QED BY <2>2, <2>4, <2>7 DEF f
<1>7. CASE ~(bn + n < 0)
  <2> DEFINE need == bn + n
             z == s[j + 1]
             v2 == v + z * Pow2(need)
  <2>0. i = j + 1 /\ j \in 0..Len(s) /\ need = q + n - 8 /\ q + n >= 8 /\ need \in 0..7
    <3> HIDE DEF bn, i
    <3> QED BY <1>1, <1>2, <1>7
  <2>1. /\ j + 1 \in 1..Len(s) /\ z \in 0..255
        /\ Registers(s, P, W, dv * Pow2(n) + z * Pow2(q + n - 8), q + n - 8, j + 1, pos, wt)
    <3> HIDE DEF j, q, dv
    <3> QED BY <1>1, <1>2, <2>0, RegisterReads, Zenon
  <2>2. ByteAt(s, i) = z
    <3> HIDE DEF i, j
    <3> QED BY <1>4, <2>0, <2>1 DEF ByteAt
  <2>5. v2 \in Nat
    <3>1. need \in 0..32
      <4> HIDE DEF need
      <4> QED BY <2>0
    <3>2. Pow2(need) \in Nat
      <4> HIDE DEF need
      <4> QED BY <3>1, PowerTyped
    <3>3. z \in Nat
      <4> HIDE DEF z
      <4> QED BY <2>1
    <3> DEFINE u == Pow2(need)
    <3> HIDE DEF need, z, u, v
    <3>4. v + z * u \in Nat
      BY <1>5, <3>2, <3>3 DEF u
    <3> QED BY <3>4 DEF v2, u
  <2>3. Set(f, d, v2, need - 8, i + 1)
    <3>1. v2 = d.value * Pow2(n) + ByteAt(s, d.idx) * Pow2(need) /\ need = d.bitsNeeded + n /\ need \in 0..7
      BY <2>0, <2>2
    <3> HIDE DEF v2, need
    <3> QED BY <2>5, <3>1, RefillReads
  <2> HIDE DEF f, v2, i, dv, v, bn
  <2>4. f.value = v2 /\ f.bitsNeeded = need - 8 /\ f.range = d.range /\ f.idx = i + 1
    <3> HIDE DEF need
    <3> QED BY <2>3 DEF Set
  <2> HIDE DEF q, need
  <2>6. need - 8 \in -8..-1 /\ 8 + (need - 8) = q + n - 8 /\ i + 1 \in Nat \ {0} /\ i + 1 - 1 = j + 1
    BY <1>1, <2>0
  <2>7. f \in DecoderType
    BY <2>3 DEF Set
  <2>8. v2 = dv * Pow2(n) + z * Pow2(q + n - 8)
    BY <2>0 DEF v2, v
  <2>9. j + 1 \in 2..Len(s)
    <3> HIDE DEF j
    <3> QED BY <1>2, <1>4, <2>1
  <2> HIDE DEF j, z
  <2> DEFINE A == q + n - 8
             J == j + 1
  <2>10. f.value = v2 /\ 8 + f.bitsNeeded = A /\ f.idx - 1 = J /\ J \in 2..Len(s)
    <3>1. f.value = v2 /\ J \in 2..Len(s)
      BY <2>4, <2>9
    <3>2. 8 + f.bitsNeeded = A
      <4> HIDE DEF need
      <4> QED BY <2>4, <2>6
    <3>3. f.idx - 1 = J
      <4>1. f.idx = i + 1 /\ i \in Nat /\ i = J
        BY <1>1, <2>0, <2>4
      <4> HIDE DEF J
      <4> QED BY ONLY <4>1
    <3> QED BY <3>1, <3>2, <3>3
  <2>12. Registers(s, P, W, v2, A, J, pos, wt)
    BY <2>1, <2>8
  <2> HIDE DEF A, J
  <2>11. Holds(s, P, W, f, pos, wt)
    BY <2>10, <2>12, HoldsMade
  <2> QED BY <2>4, <2>7, <2>11 DEF f
<1> QED BY <1>6, <1>7

\* To compare the value register with a part of the range is to compare the number with
\* that part of the interval.
LEMMA HoldsCompares ==
  ASSUME NEW s, NEW P, NEW W, NEW t, Stream(s, P, W, t), NEW d \in DecoderType,
         NEW pos \in Nat, NEW wt \in Nat \ {0}, Holds(s, P, W, d, pos, wt), NEW k \in Nat
  PROVE  d.value >= 128 * k <=> pos + 128 * (k * wt) <= t
<1>1. PICK q \in 0..7, j \in 0..Len(s), v \in Nat :
           v = d.value /\ Registers(s, P, W, v, q, j, pos, wt)
  BY HoldsPlace
<1>2. v >= 128 * k <=> pos + 128 * (k * wt) <= t
  BY <1>1, RegisterCompares, SMTT(20)
<1> QED BY <1>1, <1>2

\* To subtract that part from the value is to move past it in the interval.
LEMMA HoldsTakes ==
  ASSUME NEW s, NEW P, NEW W, NEW t, Stream(s, P, W, t), NEW d \in DecoderType,
         NEW pos \in Nat, NEW wt \in Nat \ {0}, Holds(s, P, W, d, pos, wt), NEW k \in Nat,
         d.value >= 128 * k, NEW e, e.value = d.value - 128 * k,
         e.bitsNeeded = d.bitsNeeded, e.idx = d.idx,
         NEW pos2, pos2 = pos + 128 * (k * wt)
  PROVE  Holds(s, P, W, e, pos2, wt)
<1>1. PICK q \in 0..7, j \in 0..Len(s), v \in Nat :
           /\ v = d.value /\ q = 8 + d.bitsNeeded /\ j = d.idx - 1 /\ j \in 2..Len(s)
           /\ Registers(s, P, W, v, q, j, pos, wt)
  BY HoldsPlace
<1>2. W[j] \in Nat /\ P[j] \in Nat
  BY StreamBound
<1> DEFINE z == e.value
<1>3. v >= 128 * k /\ z = v - 128 * k /\ 8 + e.bitsNeeded = q /\ e.idx - 1 = j
  BY <1>1
<1> HIDE DEF z
<1>4. Registers(s, P, W, z, q, j, pos2, wt)
  BY <1>1, <1>2, <1>3, RegisterTakes, ZenonT(30)
<1> QED BY <1>1, <1>3, <1>4, HoldsMade DEF z

\* The decoder after the part c of its range.
ReadCell(s, d, c) ==
  IF c.shift = 0 THEN [d EXCEPT !.range = c.size]
  ELSE Refill(s, [d EXCEPT !.range = c.size * Pow2(c.shift), !.value = d.value - 128 * c.low], c.shift)

\* e is d with another range and value.
Narrowed(e, d, r, v) ==
  /\ e \in DecoderType
  /\ e.range = r /\ e.value = v /\ e.bitsNeeded = d.bitsNeeded /\ e.idx = d.idx

\* A new range and a new value.
LEMMA DecoderNarrowed ==
  ASSUME NEW d \in DecoderType, NEW r \in Range9, NEW v \in Nat
  PROVE  Narrowed([d EXCEPT !.range = r, !.value = v], d, r, v)
BY DEF DecoderType, Narrowed

\* A new range alone.
LEMMA DecoderRanged ==
  ASSUME NEW d \in DecoderType, NEW r \in Range9
  PROVE  Narrowed([d EXCEPT !.range = r], d, r, d.value)
BY DEF DecoderType, Narrowed

\* A new value alone.
LEMMA DecoderValued ==
  ASSUME NEW d \in DecoderType, NEW v \in Nat
  PROVE  Narrowed([d EXCEPT !.value = v], d, d.range, v)
BY DEF DecoderType, Narrowed

\* The range says nothing of the number held.
LEMMA HoldsSame ==
  ASSUME NEW s, NEW P, NEW W, NEW d, NEW pos, NEW wt, Holds(s, P, W, d, pos, wt),
         NEW e, e.value = d.value, e.bitsNeeded = d.bitsNeeded, e.idx = d.idx
  PROVE  Holds(s, P, W, e, pos, wt)
BY DEF Holds

\* A decoder whose number lies in a part of its interval finds its value in that part
\* of its range and moves to it.
LEMMA CellRead ==
  ASSUME NEW s, NEW P, NEW W, NEW t, Stream(s, P, W, t), NEW d, NEW x, Stands(s, P, W, t, d, x),
         NEW c, CellFits(c, x.range), NEW y \in Interval, InCell(x, c, y), In(t, y)
  PROVE  /\ d.value >= 128 * c.low /\ d.value < 128 * (c.low + c.size)
         /\ Stands(s, P, W, t, ReadCell(s, d, c), y)
<1> DEFINE k == c.low
           r == c.size
           n == c.shift
           q == Pow2(n)
           p == x.pos
           w == x.wt
           u == y.wt
<1>1. /\ d \in DecoderType /\ x \in Interval /\ d.range = x.range /\ Holds(s, P, W, d, p, w)
  BY DEF Stands
<1>2. p \in Nat /\ w \in Nat \ {0} /\ u \in Nat \ {0} /\ y.range \in Range9 /\ y.pos \in Nat
  BY <1>1, IntervalTyped
<1>3. k \in Nat /\ r \in Nat \ {0} /\ n \in 0..7 /\ r * q \in Range9 /\ (n = 0 => k = 0)
  BY DEF CellFits
<1>4. q \in Nat \ {0}
  <2> HIDE DEF n
  <2>1. n \in 0..32
    BY <1>3
  <2> QED BY <2>1, PowerTyped
<1>5. y.range = r * q /\ w = u * q /\ y.pos = p + 128 * (k * w)
  BY DEF InCell, Part
<1>6. y.pos <= t /\ t < y.pos + 128 * ((r * q) * u)
  BY <1>5 DEF In, Top
<1>7. d.value \in Nat
  BY <1>1, DecoderFields
<1>t. t \in Nat
  <2>1. 0 \in 0..Len(s)
    BY DEF Stream
  <2> QED BY <2>1, StreamBound
<1> HIDE DEF k, r, n, q, p, w, u
<1>8. y.pos + 128 * ((r * q) * u) = p + 128 * ((k + r) * w)
  <2>1. (r * q) * u = r * w /\ (k + r) * w = k * w + r * w
    BY <1>2, <1>3, <1>4, <1>5
  <2> DEFINE a == k * w
             b == r * w
  <2>2. a \in Nat /\ b \in Nat
    BY <1>2, <1>3
  <2> HIDE DEF a, b
  <2>3. (p + 128 * a) + 128 * b = p + 128 * (a + b)
    BY <1>2, <2>2
  <2> QED BY <1>5, <2>1, <2>3 DEF a, b
<1>9. d.value >= 128 * k /\ d.value < 128 * (k + r)
  <2>1. d.value >= 128 * k <=> p + 128 * (k * w) <= t
    BY <1>1, <1>2, <1>3, HoldsCompares
  <2> DEFINE h == k + r
  <2>2. h \in Nat
    BY <1>3
  <2> HIDE DEF h
  <2>3. d.value >= 128 * h <=> p + 128 * (h * w) <= t
    BY <1>1, <1>2, <2>2, HoldsCompares
  <2> DEFINE z == p + 128 * (h * w)
  <2>4. z \in Nat /\ t < z
    <3>1. z \in Nat
      <4>1. h * w \in Nat
        BY <1>2, <2>2
      <4> QED BY <1>2, <4>1
    <3> HIDE DEF z
    <3> QED BY <1>6, <1>8, <3>1 DEF z, h
  <2> HIDE DEF z
  <2>5. ~(d.value >= 128 * h)
    BY <1>t, <2>3, <2>4 DEF z
  <2>6. d.value >= 128 * k
    BY <1>5, <1>6, <2>1
  <2> QED BY <1>7, <2>2, <2>5, <2>6 DEF h
<1>10. CASE n = 0
  <2>1. q = 1 /\ k = 0
    BY <1>3, <1>10, Powers DEF q
  <2>2. y.range = r /\ r \in Range9 /\ w = u /\ y.pos = p
    <3>1. r * 1 = r /\ u * 1 = u /\ p + 128 * (0 * w) = p
      BY <1>2, <1>3
    <3> QED BY <1>3, <1>5, <2>1, <3>1
  <2> DEFINE e == [d EXCEPT !.range = r]
  <2>3. e \in DecoderType /\ e.range = r /\ e.value = d.value /\ e.bitsNeeded = d.bitsNeeded /\ e.idx = d.idx
    <3>1. Narrowed(e, d, r, d.value)
      BY <1>1, <2>2, DecoderRanged
    <3> QED BY <3>1 DEF Narrowed
  <2>4. ReadCell(s, d, c) = e
    BY <1>10 DEF ReadCell, n, r
  <2> HIDE DEF e
  <2>5. Holds(s, P, W, e, y.pos, u)
    BY <1>1, <2>2, <2>3, HoldsSame
  <2> QED BY <1>9, <2>2, <2>3, <2>4, <2>5 DEF Stands, k, r, u
<1>11. CASE n # 0
  <2> DEFINE v == d.value - 128 * k
             R == r * q
             e == [d EXCEPT !.range = R, !.value = v]
             f == Refill(s, e, n)
  <2>1. v \in Nat /\ R \in Range9
    BY <1>3, <1>7, <1>9
  <2>2. e \in DecoderType /\ e.range = R /\ e.value = v /\ e.bitsNeeded = d.bitsNeeded /\ e.idx = d.idx
    <3> HIDE DEF v, R
    <3>1. Narrowed(e, d, R, v)
      BY <1>1, <2>1, DecoderNarrowed, Zenon
    <3> HIDE DEF e
    <3> QED BY <3>1 DEF Narrowed
  <2>3. ReadCell(s, d, c) = f
    BY <1>11 DEF ReadCell, n, r, k, q
  <2> HIDE DEF e, f
  <2>4. Holds(s, P, W, e, y.pos, w)
    BY <1>1, <1>2, <1>3, <1>5, <1>9, <2>2, HoldsTakes
  <2>5. Holds(s, P, W, e, y.pos, u * Pow2(n)) /\ n \in 1..8
    BY <1>3, <1>5, <1>11, <2>4 DEF q
  <2>6. f \in DecoderType /\ f.range = e.range /\ Holds(s, P, W, f, y.pos, u)
    BY <1>2, <2>2, <2>5, HoldsRefilled DEF f
  <2> QED BY <1>5, <1>9, <2>2, <2>3, <2>6 DEF Stands, k, r, u
<1> QED BY <1>10, <1>11

\* To assign the value it has changes nothing.
LEMMA SameValue ==
  ASSUME NEW d \in DecoderType, NEW r \in Range9, NEW v, v = d.value
  PROVE  [d EXCEPT !.range = r, !.value = v] = [d EXCEPT !.range = r]
<1> DEFINE f == [d EXCEPT !.range = r]
<1>1. [d EXCEPT !.range = r, !.value = v] = [f EXCEPT !.value = v]
  OBVIOUS
<1>2. f \in DecoderType /\ f.value = v
  <2>1. Narrowed(f, d, r, d.value)
    BY DecoderRanged
  <2> QED BY <2>1 DEF Narrowed
<1> HIDE DEF f
<1>3. [f EXCEPT !.value = v] = f
  BY <1>2 DEF DecoderType
<1> QED BY <1>1, <1>3 DEF f

\* The lowest part, renormalised by one bit, is read by a refill.
LEMMA LowCellRead ==
  ASSUME NEW s, NEW d \in DecoderType, NEW c, c.low = 0, c.shift = 1,
         NEW r \in Range9, r = c.size * Pow2(1)
  PROVE  ReadCell(s, d, c) = Refill(s, [d EXCEPT !.range = r], 1)
<1> DEFINE v == d.value - 128 * 0
<1>1. v = d.value
  <2> DEFINE z == d.value
  <2>1. z \in Nat
    BY DecoderFields
  <2> HIDE DEF z
  <2>2. z - 128 * 0 = z
    BY <2>1
  <2> QED BY <2>2 DEF z
<1>2. ReadCell(s, d, c) = Refill(s, [d EXCEPT !.range = r, !.value = v], 1)
  <2>1. ~(c.shift = 0)
    OBVIOUS
  <2>2. ReadCell(s, d, c) = Refill(s, [d EXCEPT !.range = c.size * Pow2(c.shift), !.value = d.value - 128 * c.low], c.shift)
    BY <2>1, Zenon DEF ReadCell
  <2> QED BY <2>2, Zenon
<1> HIDE DEF v
<1>3. [d EXCEPT !.range = r, !.value = v] = [d EXCEPT !.range = r]
  BY <1>1, SameValue, Zenon
<1> QED BY <1>2, <1>3, Zenon

\* A context coded bin is read as it was written.
LEMMA BinRead ==
  ASSUME NEW s, NEW P, NEW W, NEW t, Stream(s, P, W, t), NEW d, NEW x, Stands(s, P, W, t, d, x),
         NEW m \in ModelType, NEW bin \in 0..1, NEW y \in Interval,
         InCell(x, BinCell(m, x.range, bin), y), In(t, y)
  PROVE  GetBin(s, d, m)[1] = bin /\ Stands(s, P, W, t, GetBin(s, d, m)[2], y)
<1> DEFINE c == BinCell(m, x.range, bin)
           lps == Lps(m, d.range)
           rest == d.range - lps
           n == RenormBits(lps)
<1>1. d \in DecoderType /\ x \in Interval /\ d.range = x.range /\ d.range \in Range9 /\ d.value \in Nat
  BY DecoderFields DEF Stands
<1>2. CellFits(c, x.range)
  BY <1>1, BinCellFits
<1>3. /\ d.value >= 128 * c.low /\ d.value < 128 * (c.low + c.size)
      /\ Stands(s, P, W, t, ReadCell(s, d, c), y)
  BY <1>2, CellRead
<1>4. Mps(m) \in 0..1 /\ lps \in Nat /\ rest \in Nat /\ rest # 0 /\ Pow2(7) = 128 /\ Pow2(1) = 2 /\ 2 * rest \in Int
  <2>1. lps \in 4..236 /\ rest \in 128..506 /\ Mps(m) \in 0..1
    BY <1>1, LpsBounds DEF LpsValues, MpsRests
  <2>2. Pow2(7) = 128 /\ Pow2(1) = 2
    BY Powers
  <2> HIDE DEF lps, rest
  <2> QED BY <2>1, <2>2
<1>5. c = IF bin # Mps(m) THEN [low |-> rest, size |-> lps, shift |-> n]
          ELSE [low |-> 0, size |-> rest, shift |-> IF rest < 256 THEN 1 ELSE 0]
  BY <1>1 DEF BinCell
<1>6. GetBin(s, d, m) =
        CASE d.value < rest * Pow2(7) /\ rest < 256 ->
               <<Mps(m), Refill(s, [d EXCEPT !.range = 2 * rest], 1)>>
          [] d.value < rest * Pow2(7) /\ rest >= 256 ->
               <<Mps(m), [d EXCEPT !.range = rest]>>
          [] OTHER ->
               <<1 - Mps(m), Refill(s, [d EXCEPT !.range = lps * Pow2(n), !.value = @ - rest * Pow2(7)], n)>>
  BY DEF GetBin
<1> HIDE DEF c, lps, rest, n
<1>7. CASE bin # Mps(m)
  <2>1. c.low = rest /\ c.size = lps /\ c.shift = n
    BY <1>5, <1>7
  <2>2. n # 0
    BY <1>2, <1>4, <2>1 DEF CellFits
  <2>3. ~(d.value < rest * Pow2(7)) /\ rest * Pow2(7) = 128 * rest
    BY <1>1, <1>3, <1>4, <2>1
  <2>4. GetBin(s, d, m) = <<1 - Mps(m), Refill(s, [d EXCEPT !.range = lps * Pow2(n), !.value = @ - rest * Pow2(7)], n)>>
    BY <1>6, <2>3
  <2>5. ReadCell(s, d, c) = Refill(s, [d EXCEPT !.range = lps * Pow2(n), !.value = @ - rest * Pow2(7)], n)
    BY <2>1, <2>2, <2>3 DEF ReadCell
  <2>6. 1 - Mps(m) = bin
    BY <1>4, <1>7
  <2> QED BY <1>3, <2>4, <2>5, <2>6
<1>8. CASE bin = Mps(m)
  <2>1. c.low = 0 /\ c.size = rest /\ c.shift = IF rest < 256 THEN 1 ELSE 0
    BY <1>5, <1>8
  <2>2. d.value < rest * Pow2(7) /\ d.value - 128 * 0 = d.value
    BY <1>1, <1>3, <1>4, <2>1
  <2>3. CASE rest < 256
    <3>0. ~(rest >= 256)
      BY <1>4, <2>3
    <3> DEFINE g == Refill(s, [d EXCEPT !.range = 2 * rest], 1)
    <3> HIDE DEF g
    <3>1. GetBin(s, d, m) = <<Mps(m), g>>
      BY <1>6, <2>2, <2>3, <3>0 DEF g
    <3>2. rest * Pow2(1) = 2 * rest /\ 2 * rest \in Range9
      <4>1. rest * Pow2(1) \in Range9
        BY <1>2, <2>1, <2>3 DEF CellFits
      <4> QED BY <1>4, <4>1
    <3> DEFINE R == 2 * rest
    <3>4. c.low = 0 /\ c.shift = 1 /\ R \in Range9 /\ R = c.size * Pow2(1)
      BY <2>1, <2>3, <3>2
    <3> HIDE DEF R
    <3>5. ReadCell(s, d, c) = Refill(s, [d EXCEPT !.range = R], 1)
      BY <1>1, <3>4, LowCellRead
    <3> QED BY <1>3, <1>8, <3>1, <3>5 DEF R, g
  <2>4. CASE ~(rest < 256)
    <3>1. rest >= 256
      BY <1>4, <2>4
    <3>2. GetBin(s, d, m) = <<Mps(m), [d EXCEPT !.range = rest]>>
      BY <1>6, <2>2, <2>4, <3>1
    <3>3. ReadCell(s, d, c) = [d EXCEPT !.range = rest]
      BY <2>1, <2>4 DEF ReadCell
    <3> QED BY <1>3, <1>8, <3>2, <3>3
  <2> QED BY <2>3, <2>4
<1> QED BY <1>7, <1>8

\* A terminating bin of 0 is read as 0.
LEMMA TrmRead ==
  ASSUME NEW s, NEW P, NEW W, NEW t, Stream(s, P, W, t), NEW d, NEW x, Stands(s, P, W, t, d, x),
         NEW y \in Interval, InCell(x, TrmCell(x.range, 0), y), In(t, y)
  PROVE  GetBinTrm(s, d)[1] = 0 /\ Stands(s, P, W, t, GetBinTrm(s, d)[2], y)
<1> DEFINE c == TrmCell(x.range, 0)
           r == d.range - 2
<1>1. d \in DecoderType /\ x \in Interval /\ d.range = x.range /\ d.range \in Range9 /\ d.value \in Nat
  BY DecoderFields DEF Stands
<1>2. CellFits(c, x.range)
  <2>1. 0 \in 0..1
    OBVIOUS
  <2> QED BY <1>1, <2>1, TrmCellFits
<1>3. /\ d.value < 128 * (c.low + c.size)
      /\ Stands(s, P, W, t, ReadCell(s, d, c), y)
  BY <1>2, CellRead
<1>4. r \in Nat /\ Pow2(7) = 128 /\ Pow2(1) = 2
  <2>1. d.range \in 256..510
    BY <1>1 DEF Range9
  <2>2. Pow2(7) = 128 /\ Pow2(1) = 2
    BY Powers
  <2> QED BY <2>1, <2>2
<1>5. c.low = 0 /\ c.size = r /\ c.shift = IF r >= 256 THEN 0 ELSE 1
  BY <1>1 DEF TrmCell
<1>6. GetBinTrm(s, d) =
        CASE d.value >= r * Pow2(7) -> <<1, [d EXCEPT !.range = r]>>
          [] d.value < r * Pow2(7) /\ r >= 256 -> <<0, [d EXCEPT !.range = r]>>
          [] OTHER -> <<0, Refill(s, [d EXCEPT !.range = 2 * r], 1)>>
  BY DEF GetBinTrm
<1> HIDE DEF c, r
<1>7. d.value < r * Pow2(7) /\ ~(d.value >= r * Pow2(7)) /\ d.value - 128 * 0 = d.value
  <2> DEFINE v == d.value
  <2>1. v \in Nat /\ v < 128 * (0 + r)
    BY <1>1, <1>3, <1>5
  <2> HIDE DEF v
  <2>2. v < r * 128 /\ ~(v >= r * 128) /\ v - 128 * 0 = v
    BY <1>4, <2>1
  <2> QED BY <1>4, <2>2 DEF v
<1>8. CASE r >= 256
  <2>1. GetBinTrm(s, d) = <<0, [d EXCEPT !.range = r]>>
    BY <1>6, <1>7, <1>8
  <2>2. ReadCell(s, d, c) = [d EXCEPT !.range = r]
    BY <1>5, <1>8 DEF ReadCell
  <2> QED BY <1>3, <2>1, <2>2
<1>9. CASE ~(r >= 256)
  <2>1. GetBinTrm(s, d) = <<0, Refill(s, [d EXCEPT !.range = 2 * r], 1)>>
    BY <1>6, <1>7, <1>9
  <2>2. r * Pow2(1) = 2 * r /\ 2 * r \in Range9
    <3>1. r * Pow2(1) \in Range9
      BY <1>2, <1>5, <1>9 DEF CellFits
    <3> QED BY <1>4, <3>1
  <2> DEFINE R == 2 * r
  <2>4. c.low = 0 /\ c.shift = 1 /\ R \in Range9 /\ R = c.size * Pow2(1)
    BY <1>5, <1>9, <2>2
  <2> HIDE DEF R
  <2>5. ReadCell(s, d, c) = Refill(s, [d EXCEPT !.range = R], 1)
    BY <1>1, <2>4, LowCellRead
  <2> QED BY <1>3, <2>1, <2>5 DEF R
<1> QED BY <1>8, <1>9

\* The terminating bin of 1 is read as 1: the number is in its part.
LEMMA LastRead ==
  ASSUME NEW s, NEW P, NEW W, NEW t, Stream(s, P, W, t), NEW d, NEW x, Stands(s, P, W, t, d, x),
         NEW pad, StopsIn(s, P, W, t, x, pad)
  PROVE  GetBinTrm(s, d) = <<1, [d EXCEPT !.range = d.range - 2]>>
<1> DEFINE r == d.range - 2
<1>1. d \in DecoderType /\ x \in Interval /\ d.range = x.range /\ d.range \in Range9 /\ d.value \in Nat
      /\ Holds(s, P, W, d, x.pos, x.wt)
  BY DecoderFields DEF Stands
<1>2. r \in Nat /\ Pow2(7) = 128
  <2>1. d.range \in 256..510
    BY <1>1 DEF Range9
  <2>2. Pow2(7) = 128
    BY Powers
  <2> QED BY <2>1, <2>2
<1>3. x.pos + 128 * (r * x.wt) <= t
  BY <1>1 DEF StopsIn
<1> HIDE DEF r
<1>4. x.pos \in Nat /\ x.wt \in Nat \ {0}
  BY <1>1, IntervalTyped
<1>5. d.value >= 128 * r
  BY <1>1, <1>2, <1>3, <1>4, HoldsCompares
<1>6. d.value >= r * Pow2(7) /\ ~(d.value < r * Pow2(7))
  BY <1>1, <1>2, <1>5
<1>7. GetBinTrm(s, d) =
        CASE d.value >= r * Pow2(7) -> <<1, [d EXCEPT !.range = r]>>
          [] d.value < r * Pow2(7) /\ r >= 256 -> <<0, [d EXCEPT !.range = r]>>
          [] OTHER -> <<0, Refill(s, [d EXCEPT !.range = 2 * r], 1)>>
  BY DEF GetBinTrm, r
<1>8. GetBinTrm(s, d) = <<1, [d EXCEPT !.range = r]>>
  BY <1>6, <1>7
<1> QED BY <1>8 DEF r

\* The value of a bypass string, moved up by its n bins.
LEMMA StringShifted ==
  ASSUME NEW s, NEW P, NEW W, NEW t, Stream(s, P, W, t), NEW d, NEW x, Stands(s, P, W, t, d, x),
         NEW n \in 1..8, NEW b \in Nat, NEW y \in Interval, Bypass(x, b, n, y), In(t, y),
         NEW f, f = Refill(s, d, n), NEW e, e = [f EXCEPT !.value = f.value - 128 * (b * d.range)]
  PROVE  /\ f \in DecoderType /\ f.range = d.range /\ d \in DecoderType
         /\ f.value >= 128 * (b * d.range) /\ f.value < 128 * ((b + 1) * d.range)
         /\ Stands(s, P, W, t, e, y)
<1> DEFINE R == x.range
           p == x.pos
           w == x.wt
           u == y.wt
           k == b * R
           h == (b + 1) * R
<1>1. /\ d \in DecoderType /\ x \in Interval /\ d.range = R /\ Holds(s, P, W, d, p, w)
  BY DEF Stands
<1>2. p \in Nat /\ w \in Nat \ {0} /\ u \in Nat \ {0} /\ R \in Nat /\ y.pos \in Nat /\ R * u \in Nat
  <2>1. p \in Nat /\ w \in Nat \ {0} /\ u \in Nat \ {0} /\ R \in Nat /\ y.pos \in Nat
    BY <1>1, IntervalTyped
  <2> HIDE DEF R, u
  <2> QED BY <2>1
<1>3. y.range = R /\ w = u * Pow2(n) /\ y.pos = p + 128 * (b * (R * u))
  BY DEF Bypass
<1>4. y.pos <= t /\ t < y.pos + 128 * (R * u)
  BY <1>3 DEF In, Top
<1>t. t \in Nat
  <2>1. 0 \in 0..Len(s)
    BY DEF Stream
  <2> QED BY <2>1, StreamBound
<1>5. f \in DecoderType /\ f.range = d.range /\ Holds(s, P, W, f, p, u)
  <2>1. Holds(s, P, W, d, p, u * Pow2(n))
    BY <1>1, <1>3
  <2> QED BY <1>1, <1>2, <2>1, HoldsRefilled
<1>6. f.value \in Nat
  BY <1>5, DecoderFields
<1> HIDE DEF R, p, w, u
<1>7. /\ k \in Nat /\ h \in Nat /\ k * u \in Nat /\ h * u \in Nat
      /\ y.pos = p + 128 * (k * u) /\ y.pos + 128 * (R * u) = p + 128 * (h * u)
  <2>1. k * u = b * (R * u) /\ h * u = b * (R * u) + R * u /\ k \in Nat /\ h \in Nat
    BY <1>2
  <2> DEFINE i == b * (R * u)
             j == R * u
  <2>2. i \in Nat /\ j \in Nat
    BY <1>2
  <2> HIDE DEF k, h, i, j
  <2>3. (p + 128 * i) + 128 * j = p + 128 * (i + j)
    BY <1>2, <2>2
  <2> QED BY <1>3, <2>1, <2>2, <2>3 DEF i, j
<1> HIDE DEF k, h
<1>8. f.value >= 128 * k /\ f.value < 128 * h
  <2>1. f.value >= 128 * k <=> p + 128 * (k * u) <= t
    BY <1>2, <1>5, <1>7, HoldsCompares
  <2>2. f.value >= 128 * h <=> p + 128 * (h * u) <= t
    BY <1>2, <1>5, <1>7, HoldsCompares
  <2> DEFINE i == p + 128 * (h * u)
  <2>3. i \in Nat
    BY <1>2, <1>7
  <2>4. t < i
    BY <1>4, <1>7
  <2> HIDE DEF i
  <2>5. ~(f.value >= 128 * h)
    BY <1>t, <2>2, <2>3, <2>4 DEF i
  <2>6. f.value >= 128 * k
    BY <1>4, <1>7, <2>1
  <2> DEFINE v == f.value
  <2>7. v \in Nat /\ ~(v >= 128 * h) /\ v >= 128 * k
    BY <1>6, <2>5, <2>6
  <2> HIDE DEF v
  <2>8. v < 128 * h
    BY <1>7, <2>7
  <2> QED BY <2>6, <2>8 DEF v
<1>9. e = [f EXCEPT !.value = f.value - 128 * k]
  BY <1>1 DEF k
<1> DEFINE v == f.value - 128 * k
<1>10. v \in Nat
  BY <1>6, <1>7, <1>8
<1>11. Narrowed(e, f, f.range, v)
  <2> HIDE DEF v
  <2>1. e = [f EXCEPT !.value = v]
    BY <1>9 DEF v
  <2> QED BY <1>5, <1>10, <2>1, DecoderValued
<1>12. e \in DecoderType /\ e.range = f.range /\ e.value = f.value - 128 * k
       /\ e.bitsNeeded = f.bitsNeeded /\ e.idx = f.idx
  BY <1>11 DEF Narrowed
<1>13. Holds(s, P, W, e, y.pos, u)
  <2> DEFINE z == y.pos
  <2>1. z = p + 128 * (k * u) /\ Holds(s, P, W, f, p, u) /\ f \in DecoderType /\ f.value >= 128 * k
    BY <1>5, <1>7, <1>8
  <2> HIDE DEF z
  <2>2. Stream(s, P, W, t) /\ p \in Nat /\ u \in Nat \ {0} /\ k \in Nat
        /\ e.value = f.value - 128 * k /\ e.bitsNeeded = f.bitsNeeded /\ e.idx = f.idx
    BY <1>2, <1>7, <1>12
  <2>3. Holds(s, P, W, e, z, u)
    BY ONLY <2>1, <2>2, HoldsTakes
  <2> QED BY <2>3 DEF z
<1>14. Stands(s, P, W, t, e, y)
  BY <1>1, <1>3, <1>5, <1>12, <1>13 DEF Stands, u
<1> QED BY <1>1, <1>5, <1>8, <1>14 DEF k, h

\* A bypass bin is read as it was written.
LEMMA EPRead ==
  ASSUME NEW s, NEW P, NEW W, NEW t, Stream(s, P, W, t), NEW d, NEW x, Stands(s, P, W, t, d, x),
         NEW b \in 0..1, NEW y \in Interval, Bypass(x, b, 1, y), In(t, y)
  PROVE  GetBinEP(s, d)[1] = b /\ Stands(s, P, W, t, GetBinEP(s, d)[2], y)
<1> DEFINE f == Refill(s, d, 1)
           e == [f EXCEPT !.value = f.value - 128 * (b * d.range)]
           R == d.range
<1>1. /\ f \in DecoderType /\ f.range = d.range /\ d \in DecoderType
      /\ f.value >= 128 * (b * R) /\ f.value < 128 * ((b + 1) * R)
      /\ Stands(s, P, W, t, e, y)
  <2>1. 1 \in 1..8 /\ b \in Nat
    OBVIOUS
  <2> HIDE DEF f
  <2> QED BY <2>1, StringShifted DEF f
<1>2. f.value \in Nat /\ R \in Nat /\ Pow2(7) = 128
  <2>1. Pow2(7) = 128
    BY Powers
  <2> HIDE DEF f
  <2> QED BY <1>1, <2>1, DecoderFields
<1>3. GetBinEP(s, d) = IF f.value >= f.range * Pow2(7)
                       THEN <<1, [f EXCEPT !.value = @ - f.range * Pow2(7)]>> ELSE <<0, f>>
  BY DEF GetBinEP
<1> HIDE DEF f, R
<1>4. CASE b = 1
  <2>1. f.value >= 128 * (1 * R) /\ 1 * R = R /\ f.range = R
    BY <1>1, <1>2, <1>4 DEF R
  <2>2. f.value >= f.range * Pow2(7) /\ f.range * Pow2(7) = 128 * R
    BY <1>2, <2>1
  <2>3. GetBinEP(s, d) = <<1, [f EXCEPT !.value = @ - f.range * Pow2(7)]>>
    BY <1>3, <2>2
  <2>4. [f EXCEPT !.value = @ - f.range * Pow2(7)] = e
    BY <1>4, <2>1, <2>2 DEF R
  <2> QED BY <1>1, <1>4, <2>3, <2>4
<1>5. CASE b = 0
  <2>1. f.value < 128 * R /\ f.range = R
    BY <1>1, <1>2, <1>5 DEF R
  <2>2. ~(f.value >= f.range * Pow2(7)) /\ f.value - 128 * (0 * R) = f.value
    BY <1>2, <2>1
  <2>3. GetBinEP(s, d) = <<0, f>>
    BY <1>3, <2>2
  <2>4. e = f
    <3>1. e = [f EXCEPT !.value = f.value]
      BY <1>5, <2>2 DEF R
    <3> QED BY <1>1, <3>1 DEF DecoderType
  <2> QED BY <1>1, <1>5, <2>3, <2>4
<1> QED BY <1>4, <1>5

\* What the first i bins of a chunk leave of its value v.
Taken(v, range, b, k) ==
  <<b \div Pow2(k), v - (128 * range) * ((b \div Pow2(k)) * Pow2(k))>>

\* One comparison of decodeBinsEP takes the next bin of the number.
LEMMA BinTaken ==
  ASSUME NEW n \in 1..8, NEW range \in Nat, NEW v \in Nat, NEW b \in Nat,
         128 * (b * range) <= v, v < 128 * ((b + 1) * range), NEW i \in 1..n
  PROVE  TakeBin(Taken(v, range, b, n - (i - 1)), range, n, i) = Taken(v, range, b, n - i)
<1> DEFINE k == n - i
           c == Pow2(k)
           h == b \div (c * 2)
           l == b \div c
           D == 128 * range
           a == Taken(v, range, b, n - (i - 1))
<1>1. k \in 0..7 /\ n - (i - 1) = k + 1 /\ 7 + n - i = 7 + k
  OBVIOUS
<1>2. Pow2(k + 1) = c * 2 /\ c \in Nat \ {0} /\ Pow2(7 + k) = 128 * c
  <2> HIDE DEF k
  <2>1. k \in 0..31 /\ 7 \in 0..32 /\ k \in 0..32 /\ 7 + k <= 32
    BY <1>1
  <2>2. Pow2(k + 1) = 2 * Pow2(k) /\ Pow2(k) \in Nat \ {0}
    BY <2>1, PowerDoubles
  <2>3. Pow2(7 + k) = Pow2(7) * Pow2(k) /\ Pow2(7) = 128
    BY <2>1, PowerSum, Powers
  <2> QED BY <2>2, <2>3
<1>3. a = <<h, v - D * (h * (c * 2))>>
  BY <1>1, <1>2 DEF Taken
<1> HIDE DEF k, a, c
<1>4. h \in Nat /\ l \in Nat /\ (l = 2 * h \/ l = 2 * h + 1)
  <2>1. l \in Nat /\ l \div 2 = b \div (c * 2)
    <3>1. l \in Nat
      BY <1>2, DivSplit
    <3>2. (b \div c) \div 2 = b \div (c * 2)
      BY <1>2, DivTwice
    <3> QED BY <3>1, <3>2
  <2> HIDE DEF l
  <2>2. l = 2 * (l \div 2) \/ l = 2 * (l \div 2) + 1
    BY <2>1
  <2>3. l \div 2 \in Nat
    BY <2>1
  <2> QED BY <2>1, <2>2, <2>3
<1>5. l * c <= b /\ b < l * c + c /\ l * c \in Nat
  <2>1. b % c \in Nat /\ b % c < c /\ b = l * c + (b % c) /\ l \in Nat
    BY <1>2, DivSplit
  <2> DEFINE z == b % c
  <2> HIDE DEF l, z
  <2>2. l * c \in Nat
    BY <1>2, <2>1
  <2>3. z \in Nat /\ z < c /\ b = l * c + z
    BY <2>1 DEF z
  <2> QED BY <1>2, <2>2, <2>3
<1>6. TakeBin(a, range, n, i) =
        IF a[2] >= range * Pow2(7 + n - i)
        THEN <<2 * a[1] + 1, a[2] - range * Pow2(7 + n - i)>> ELSE <<2 * a[1], a[2]>>
  BY DEF TakeBin
<1> DEFINE E == D * (h * (c * 2))
           w == D * c
<1>7. range * Pow2(7 + n - i) = w /\ a[1] = h /\ a[2] = v - E
  <2>1. range * (128 * c) = D * c
    BY <1>2
  <2> QED BY <1>1, <1>2, <1>3, <2>1
<1>8. Taken(v, range, b, n - i) = <<l, v - D * (l * c)>>
  BY DEF Taken, k, c
<1>9. D \in Nat /\ 128 * (b * range) = D * b /\ 128 * ((b + 1) * range) = D * (b + 1)
  OBVIOUS
<1> HIDE DEF h, l, D
<1>10. E \in Nat /\ w \in Nat
  BY <1>2, <1>4, <1>9
<1>11. CASE l = 2 * h + 1
  <2>1. D * (l * c) = E + w
    BY <1>2, <1>4, <1>9, <1>11
  <2>2. D * (l * c) <= D * b
    <3>1. (l * c) * D <= b * D
      BY <1>5, <1>9, TimesMonotonic
    <3> QED BY <1>5, <1>9, <3>1
  <2> HIDE DEF E, w
  <2>3. E + w <= v
    <3> DEFINE z == D * b
    <3>1. z \in Nat /\ E + w <= z /\ z <= v
      BY <1>9, <2>1, <2>2
    <3> HIDE DEF z
    <3> QED BY <1>10, <3>1
  <2>4. v - E >= w /\ (v - E) - w = v - (E + w)
    BY <1>10, <2>3
  <2>5. TakeBin(a, range, n, i) = <<2 * h + 1, (v - E) - w>>
    BY <1>6, <1>7, <2>4
  <2> QED BY <1>8, <1>11, <2>1, <2>4, <2>5 DEF a
<1>12. CASE l = 2 * h
  <2>1. D * (l * c) = E
    BY <1>2, <1>4, <1>9, <1>12
  <2>2. D * (b + 1) <= D * (l * c + c)
    <3>1. b + 1 \in Nat /\ l * c + c \in Nat /\ b + 1 <= l * c + c
      BY <1>2, <1>5
    <3>2. (b + 1) * D <= (l * c + c) * D
      BY <1>9, <3>1, TimesMonotonic
    <3> QED BY <1>9, <3>1, <3>2
  <2>3. D * (l * c + c) = E + w
    BY <1>2, <1>4, <1>9, <1>12
  <2> HIDE DEF E, w
  <2>4. v < E + w
    <3> DEFINE z == D * (b + 1)
    <3>1. z \in Nat /\ z <= E + w /\ v < z
      BY <1>9, <2>2, <2>3
    <3> HIDE DEF z
    <3> QED BY <1>10, <3>1
  <2>5. ~(v - E >= w)
    BY <1>10, <2>4
  <2>6. TakeBin(a, range, n, i) = <<2 * h, v - E>>
    BY <1>6, <1>7, <2>5
  <2> QED BY <1>8, <1>12, <2>1, <2>6 DEF a
<1> QED BY <1>4, <1>11, <1>12

TakenBins(v, range, n) ==
  CHOOSE take : take = [i \in 0..n |-> IF i = 0 THEN <<0, v>> ELSE TakeBin(take[i - 1], range, n, i)]

\* Its comparisons take the bins of the number, and leave the rest.
LEMMA BinsTaken ==
  ASSUME NEW n \in 1..8, NEW range \in Nat, NEW v \in Nat, NEW b \in Nat, b < Pow2(n),
         128 * (b * range) <= v, v < 128 * ((b + 1) * range)
  PROVE  TakenBins(v, range, n)[n] = <<b, v - 128 * (b * range)>>
<1> DEFINE G(i) == Taken(v, range, b, n - i)
           g == [i \in 0..n |-> G(i)]
           Step(f, i) == IF i = 0 THEN <<0, v>> ELSE TakeBin(f[i - 1], range, n, i)
<1>1. G(0) = <<0, v>>
  <2>1. Pow2(n) \in Nat \ {0}
    <3>1. n \in 0..32
      OBVIOUS
    <3> QED BY <3>1, PowerTyped
  <2>2. b \div Pow2(n) = 0
    <3> DEFINE c == Pow2(n)
    <3> HIDE DEF c
    <3>1. c \in Nat \ {0} /\ b < c /\ b = 0 * c + b
      BY <2>1 DEF c
    <3>2. b \div c = 0
      BY <3>1, DivUnique
    <3> QED BY <3>2 DEF c
  <2>3. v - (128 * range) * (0 * Pow2(n)) = v /\ n - 0 = n
    BY <2>1
  <2> QED BY <2>2, <2>3 DEF Taken
<1>2. ASSUME NEW i \in 1..n PROVE TakeBin(G(i - 1), range, n, i) = G(i)
  BY BinTaken
<1>3. G(n) = <<b, v - 128 * (b * range)>>
  <2>1. Pow2(0) = 1 /\ n - n = 0
    BY Powers
  <2>2. b \div 1 = b /\ (128 * range) * (b * 1) = 128 * (b * range)
    OBVIOUS
  <2> QED BY <2>1, <2>2 DEF Taken
<1> HIDE DEF G
<1>4. g = [i \in 0..n |-> Step(g, i)]
  <2>1. ASSUME NEW i \in 0..n PROVE G(i) = Step(g, i)
    <3>1. CASE i = 0
      BY <1>1, <3>1
    <3>2. CASE i # 0
      <4>1. i \in 1..n /\ i - 1 \in 0..n
        BY <3>2
      <4>2. g[i - 1] = G(i - 1)
        BY <4>1
      <4> QED BY <1>2, <3>2, <4>1, <4>2
    <3> QED BY <3>1, <3>2
  <2> HIDE DEF Step
  <2> QED BY <2>1
<1> DEFINE f == TakenBins(v, range, n)
<1>5. f = [i \in 0..n |-> Step(f, i)]
  <2>1. \E take : take = [i \in 0..n |-> Step(take, i)]
    BY <1>4
  <2> QED BY <2>1 DEF TakenBins
<1> HIDE DEF f, g
<1> DEFINE S == {i \in Nat : i <= n => f[i] = G(i)}
<1>6. 0 \in S
  <2>1. 0 \in 0..n
    OBVIOUS
  <2> QED BY <1>1, <1>5, <2>1
<1>7. ASSUME NEW i \in Nat, i \in S PROVE i + 1 \in S
  <2> SUFFICES ASSUME i + 1 <= n PROVE f[i + 1] = G(i + 1)
    OBVIOUS
  <2>1. i + 1 \in 0..n /\ i + 1 \in 1..n /\ (i + 1) - 1 = i /\ i <= n /\ i + 1 # 0
    OBVIOUS
  <2>2. f[i] = G(i)
    BY <1>7, <2>1
  <2> DEFINE j == i + 1
  <2> HIDE DEF j
  <2>3. f[j] = TakeBin(f[j - 1], range, n, j)
    BY <1>5, <2>1 DEF j
  <2>4. TakeBin(G(j - 1), range, n, j) = G(j)
    BY <1>2, <2>1 DEF j
  <2>5. f[j - 1] = G(j - 1)
    BY <2>1, <2>2 DEF j
  <2> QED BY <2>3, <2>4, <2>5 DEF j
<1> HIDE DEF S
<1>8. Nat \subseteq S
  BY <1>6, <1>7, SetInduction
<1>9. f[n] = G(n)
  <2>1. n \in S /\ n <= n
    BY <1>8
  <2> QED BY <2>1 DEF S
<1> QED BY <1>3, <1>9 DEF f

\* A chunk of a bypass string is read as it was written, bin by bin.
LEMMA ChunkRead ==
  ASSUME NEW s, NEW P, NEW W, NEW t, Stream(s, P, W, t), NEW d, NEW x, Stands(s, P, W, t, d, x),
         NEW n \in 1..8, NEW b \in Nat, NEW y \in Interval, Bypass(x, b, n, y), In(t, y)
  PROVE  /\ GetChunk(s, d, n)[1] = b
         /\ Stands(s, P, W, t, GetChunk(s, d, n)[2], y)
<1> DEFINE f == Refill(s, d, n)
           e == [f EXCEPT !.value = f.value - 128 * (b * d.range)]
           g == TakenBins(f.value, d.range, n)
<1>1. /\ f \in DecoderType /\ f.range = d.range /\ d \in DecoderType
      /\ f.value >= 128 * (b * d.range) /\ f.value < 128 * ((b + 1) * d.range)
      /\ Stands(s, P, W, t, e, y)
  <2> HIDE DEF f
  <2> QED BY StringShifted DEF f
<1>2. GetChunk(s, d, n) = <<g[n][1], [f EXCEPT !.value = g[n][2]]>>
  BY DEF GetChunk, TakenBins
<1> HIDE DEF f
<1>3. g[n] = <<b, f.value - 128 * (b * d.range)>>
  <2> DEFINE v == f.value
             R == d.range
  <2>1. v \in Nat /\ R \in Nat /\ 128 * (b * R) <= v /\ v < 128 * ((b + 1) * R)
    <3>1. v \in Nat /\ R \in Nat
      BY <1>1, DecoderFields
    <3> HIDE DEF v, R
    <3> QED BY <1>1, <3>1 DEF v, R
  <2> HIDE DEF v, R
  <2>2. b < Pow2(n)
    BY DEF Bypass
  <2>3. TakenBins(v, R, n)[n] = <<b, v - 128 * (b * R)>>
    BY <2>1, <2>2, BinsTaken, SMTT(20)
  <2> QED BY <2>3 DEF v, R
<1> HIDE DEF g
<1>4. GetChunk(s, d, n) = <<b, e>>
  <2> DEFINE z == f.value - 128 * (b * d.range)
             h == g[n]
  <2> HIDE DEF z, h
  <2>1. h = <<b, z>> /\ GetChunk(s, d, n) = <<h[1], [f EXCEPT !.value = h[2]]>>
    BY <1>2, <1>3 DEF z, h
  <2>2. h[1] = b /\ h[2] = z
    BY <2>1
  <2>3. GetChunk(s, d, n) = <<b, [f EXCEPT !.value = z]>>
    BY <2>1, <2>2
  <2> QED BY <2>3 DEF z
<1> QED BY <1>1, <1>4

\* A byte read is a number.
LEMMA ByteAtTyped ==
  ASSUME NEW s \in Seq(Byte), NEW i
  PROVE  ByteAt(s, i) \in Nat
<1>1. CASE i \in DOMAIN s
  <2>1. s[i] \in Byte
    BY <1>1
  <2>2. \A z \in Byte : z \in Nat
    BY DEF Byte
  <2>3. s[i] \in Nat
    BY <2>1, <2>2
  <2> QED BY <1>1, <2>3 DEF ByteAt
<1>2. CASE ~(i \in DOMAIN s)
  BY <1>2 DEF ByteAt
<1> QED BY <1>1, <1>2

\* Decoders with the same registers are the same.
LEMMA SameDecoder ==
  ASSUME NEW d \in DecoderType, NEW e \in DecoderType, d.value = e.value, d.range = e.range,
         d.bitsNeeded = e.bitsNeeded, d.idx = e.idx
  PROVE  d = e
BY DEF DecoderType

\* The refill f of a value, and the refill g of 0.
Apart(f, g, d, n) ==
  /\ f \in DecoderType /\ g \in DecoderType
  /\ f.value = d.value * Pow2(n) + g.value
  /\ f.range = d.range /\ g.range = d.range /\ f.bitsNeeded = g.bitsNeeded /\ f.idx = g.idx

\* A refill shifts the value and adds what it would have made of 0.
LEMMA RefillApart ==
  ASSUME NEW s \in Seq(Byte), NEW d \in DecoderType, NEW n \in 1..8,
         NEW z, z = [d EXCEPT !.value = 0], NEW f, f = Refill(s, d, n), NEW g, g = Refill(s, z, n)
  PROVE  Apart(f, g, d, n)
<1>1. Narrowed(z, d, d.range, 0)
  <2>1. 0 \in Nat
    OBVIOUS
  <2> QED BY <2>1, DecoderValued
<1>2. z \in DecoderType /\ z.value = 0 /\ z.bitsNeeded = d.bitsNeeded /\ z.idx = d.idx /\ z.range = d.range
  BY <1>1 DEF Narrowed
<1> DEFINE N == Pow2(n)
           v == d.value
           a == v * N
           c == 0 * N
           bn == d.bitsNeeded
           i == d.idx
<1>3. v \in Nat /\ bn \in -8..-1 /\ i \in Nat
  BY DecoderFields
<1>4. N \in Nat
  <2>1. n \in 0..32
    OBVIOUS
  <2> QED BY <2>1, PowerTyped
<1>5. a \in Nat /\ c \in Nat /\ c = 0 /\ a = d.value * Pow2(n) /\ c = z.value * Pow2(n)
  <2>1. a = d.value * Pow2(n) /\ c = z.value * Pow2(n)
    BY <1>2
  <2> HIDE DEF v, N
  <2>2. a \in Nat /\ c \in Nat /\ c = 0
    BY <1>3, <1>4
  <2> QED BY <2>1, <2>2
<1>6. CASE bn + n < 0
  <2> DEFINE k == bn + n
  <2>1. k \in -8..-1 /\ k = d.bitsNeeded + n /\ k = z.bitsNeeded + n
    <3>1. k = d.bitsNeeded + n /\ k = z.bitsNeeded + n
      BY <1>2
    <3> HIDE DEF bn
    <3> QED BY <1>3, <1>6, <3>1, SMTT(20)
  <2> HIDE DEF k, a, c
  <2>2. Set(f, d, a, k, d.idx)
    BY <1>5, <2>1, RefillStays
  <2>3. Set(g, z, c, k, z.idx)
    BY <1>2, <1>5, <2>1, RefillStays
  <2>4. a = a + c
    BY <1>5
  <2> QED BY <1>2, <1>5, <2>2, <2>3, <2>4 DEF Set, Apart
<1>7. CASE ~(bn + n < 0)
  <2> DEFINE need == bn + n
             w == ByteAt(s, d.idx) * Pow2(need)
             a2 == a + w
             c2 == c + w
  <2>1. need \in 0..7 /\ need = d.bitsNeeded + n /\ need = z.bitsNeeded + n
    <3>1. need = d.bitsNeeded + n /\ need = z.bitsNeeded + n
      BY <1>2
    <3> HIDE DEF bn
    <3> QED BY <1>3, <1>7, <3>1, SMTT(20)
  <2>2. w \in Nat
    <3> HIDE DEF need
    <3>1. need \in 0..32
      BY <2>1
    <3>2. Pow2(need) \in Nat /\ ByteAt(s, d.idx) \in Nat
      BY <3>1, PowerTyped, ByteAtTyped
    <3> QED BY <3>2
  <2>3. a2 \in Nat /\ c2 \in Nat /\ a2 = a + c2
    <3> HIDE DEF a, c, w
    <3> QED BY <1>5, <2>2
  <2>4. a2 = d.value * Pow2(n) + ByteAt(s, d.idx) * Pow2(need)
        /\ c2 = z.value * Pow2(n) + ByteAt(s, z.idx) * Pow2(need)
    <3> HIDE DEF a, c, need
    <3> QED BY <1>2, <1>5
  <2> HIDE DEF a2, c2, need, a
  <2>5. Set(f, d, a2, need - 8, d.idx + 1)
    BY <2>1, <2>3, <2>4, RefillReads
  <2>6. Set(g, z, c2, need - 8, z.idx + 1)
    BY <1>2, <2>1, <2>3, <2>4, RefillReads
  <2> QED BY <1>2, <1>5, <2>3, <2>5, <2>6 DEF Set, Apart
<1> QED BY <1>6, <1>7

\* With the range 256 a chunk is taken from the value, to the same end.
LEMMA AlignedChunkRead ==
  ASSUME NEW s, NEW P, NEW W, NEW t, Stream(s, P, W, t), NEW d, NEW x, Stands(s, P, W, t, d, x),
         d.range = 256,
         NEW n \in 1..8, NEW b \in Nat, NEW y \in Interval, Bypass(x, b, n, y), In(t, y)
  PROVE  /\ GetAlignedChunk(s, d, n)[1] = b
         /\ Stands(s, P, W, t, GetAlignedChunk(s, d, n)[2], y)
<1> DEFINE f == Refill(s, d, n)
           e == [f EXCEPT !.value = f.value - 128 * (b * d.range)]
           z == [d EXCEPT !.value = 0]
           g == Refill(s, z, n)
           v == d.value
           c == Pow2(15 - n)
           N == Pow2(n)
           m == Pow2(8 - n)
           w == x.wt
           u == y.wt
           p == x.pos
           k == b * m
           h == (b + 1) * m
<1>1. /\ f \in DecoderType /\ f.range = d.range /\ d \in DecoderType
      /\ f.value >= 128 * (b * d.range) /\ f.value < 128 * ((b + 1) * d.range)
      /\ Stands(s, P, W, t, e, y)
  <2> HIDE DEF f
  <2> QED BY StringShifted DEF f
<1>2. x \in Interval /\ x.range = 256 /\ Holds(s, P, W, d, p, w)
  BY DEF Stands
<1>3. p \in Nat /\ w \in Nat \ {0} /\ u \in Nat \ {0} /\ v \in Nat /\ y.pos \in Nat
  BY <1>1, <1>2, IntervalTyped, DecoderFields
<1>4. c = 128 * m /\ N * m = 256 /\ c * N = 32768 /\ N \in Nat \ {0} /\ m \in Nat \ {0} /\ Pow2(15) = 32768
  <2>1. Pow2(1) = 2 /\ Pow2(2) = 4 /\ Pow2(3) = 8 /\ Pow2(4) = 16 /\ Pow2(5) = 32 /\ Pow2(6) = 64
        /\ Pow2(7) = 128 /\ Pow2(8) = 256 /\ Pow2(0) = 1 /\ Pow2(9) = 512 /\ Pow2(10) = 1024
        /\ Pow2(11) = 2048 /\ Pow2(12) = 4096 /\ Pow2(13) = 8192 /\ Pow2(14) = 16384 /\ Pow2(15) = 32768
    BY Powers
  <2>2. CASE n = 1
    BY <2>1, <2>2
  <2>3. CASE n = 2
    BY <2>1, <2>3
  <2>4. CASE n = 3
    BY <2>1, <2>4
  <2>5. CASE n = 4
    BY <2>1, <2>5
  <2>6. CASE n = 5
    BY <2>1, <2>6
  <2>7. CASE n = 6
    BY <2>1, <2>7
  <2>8. CASE n = 7
    BY <2>1, <2>8
  <2>9. CASE n = 8
    BY <2>1, <2>9
  <2> QED BY <2>2, <2>3, <2>4, <2>5, <2>6, <2>7, <2>8, <2>9
<1>5. y.range = 256 /\ w = u * N /\ y.pos = p + 128 * (b * (256 * u)) /\ b < N
  BY <1>2 DEF Bypass
<1>6. y.pos <= t /\ t < y.pos + 128 * (256 * u)
  BY <1>5 DEF In, Top
<1>t. t \in Nat
  <2>1. 0 \in 0..Len(s)
    BY DEF Stream
  <2> QED BY <2>1, StreamBound
<1>7. GetAlignedChunk(s, d, n) = <<(v \div c) % N, [g EXCEPT !.value = @ + ((v * N) % Pow2(15))]>>
  BY DEF GetAlignedChunk
<1> HIDE DEF f, g, z, v, c, N, m, w, u, p
<1>8. /\ k \in Nat /\ h \in Nat /\ y.pos = p + 128 * (k * w) /\ y.pos + 128 * (256 * u) = p + 128 * (h * w)
      /\ p + 128 * (h * w) \in Nat
  <2>1. k * w = b * ((N * m) * u) /\ h * w = b * ((N * m) * u) + (N * m) * u /\ k \in Nat /\ h \in Nat
    BY <1>3, <1>4, <1>5
  <2>2. b * (256 * u) \in Nat /\ 256 * u \in Nat
    BY <1>3
  <2> DEFINE i == b * (256 * u)
             j == 256 * u
  <2>3. k * w = i /\ h * w = i + j /\ i \in Nat /\ j \in Nat
    BY <1>4, <2>1, <2>2
  <2>4. y.pos = p + 128 * i /\ y.pos + 128 * j = p + 128 * i + 128 * j
    BY <1>5
  <2> HIDE DEF i, k, h
  <2>5. p + 128 * i + 128 * j = p + 128 * (i + j) /\ p + 128 * (i + j) \in Nat
    <3> HIDE DEF j
    <3> QED BY <1>3, <2>3
  <2> HIDE DEF j
  <2>6. y.pos = p + 128 * (k * w) /\ y.pos + 128 * j = p + 128 * (h * w) /\ p + 128 * (h * w) \in Nat
    BY <2>3, <2>4, <2>5
  <2> QED BY <2>1, <2>6 DEF j
<1> HIDE DEF k, h
<1>9. v >= 128 * k /\ v < 128 * h
  <2>1. v >= 128 * k <=> p + 128 * (k * w) <= t
    BY <1>1, <1>2, <1>3, <1>8, HoldsCompares DEF v
  <2>2. v >= 128 * h <=> p + 128 * (h * w) <= t
    BY <1>1, <1>2, <1>3, <1>8, HoldsCompares DEF v
  <2> DEFINE i == p + 128 * (h * w)
  <2>3. i \in Nat /\ t < i
    BY <1>6, <1>8
  <2> HIDE DEF i
  <2>4. ~(v >= 128 * h)
    BY <1>t, <2>2, <2>3 DEF i
  <2>5. v >= 128 * k
    BY <1>6, <1>8, <2>1
  <2> QED BY <1>3, <1>8, <2>4, <2>5
<1> DEFINE r == v - b * c
<1>10. b * c \in Nat /\ r \in Nat /\ r < c /\ v = b * c + r
  <2>1. 128 * k = b * c /\ 128 * h = b * c + c /\ b * c \in Nat /\ c \in Nat
    BY <1>4 DEF k, h
  <2> QED BY <1>3, <1>9, <2>1
<1> HIDE DEF r
<1>11. c \in Nat \ {0}
  BY <1>4
<1>12. v \div c = b /\ b % N = b
  <2>1. v \div c = b
    BY <1>3, <1>10, <1>11, DivUnique
  <2>2. b = 0 * N + b
    BY <1>4
  <2>3. b % N = b
    BY <1>4, <1>5, <2>2, DivUnique
  <2> QED BY <2>1, <2>3
<1>13. (v * N) % 32768 = r * N /\ v * N = b * 32768 + r * N /\ r * N \in Nat
  <2>1. v * N = b * (c * N) + r * N /\ r * N \in Nat /\ v * N \in Nat
    BY <1>3, <1>4, <1>10, <1>11
  <2>2. r * N < c * N
    BY <1>4, <1>10, <1>11, TimesStrict
  <2> DEFINE i == v * N
             j == r * N
  <2>3. i \in Nat /\ j \in Nat /\ j < 32768 /\ i = b * 32768 + j /\ 32768 \in Nat \ {0}
    <3>1. c * N = 32768
      BY <1>4
    <3> DEFINE a == c * N
    <3> HIDE DEF a
    <3>2. i \in Nat /\ j \in Nat /\ j < a /\ i = b * a + j /\ a = 32768
      BY <2>1, <2>2, <3>1 DEF a
    <3> HIDE DEF i, j
    <3> QED BY <3>2
  <2> HIDE DEF i, j
  <2>4. i % 32768 = j
    BY <2>3, DivUnique
  <2> QED BY <2>3, <2>4 DEF i, j
<1> DEFINE q == r * N
           e2 == [g EXCEPT !.value = @ + q]
<1>14. GetAlignedChunk(s, d, n) = <<b, e2>>
  <2>1. (v * N) % Pow2(15) = q
    BY <1>4, <1>13
  <2> QED BY <1>7, <1>12, <2>1
<1>15. /\ g \in DecoderType
       /\ f.value = v * N + g.value
       /\ f.range = d.range /\ g.range = d.range /\ f.bitsNeeded = g.bitsNeeded /\ f.idx = g.idx
  <2>1. s \in Seq(Byte)
    BY DEF Stream
  <2>2. z = [d EXCEPT !.value = 0] /\ f = Refill(s, d, n) /\ g = Refill(s, z, n)
    BY DEF f, g, z
  <2> HIDE DEF e2
  <2>3. /\ g \in DecoderType
        /\ f.value = d.value * Pow2(n) + g.value
        /\ f.range = d.range /\ g.range = d.range /\ f.bitsNeeded = g.bitsNeeded /\ f.idx = g.idx
    <3>1. Apart(f, g, d, n)
      BY <1>1, <2>1, <2>2, RefillApart
    <3> QED BY <3>1 DEF Apart
  <2> QED BY <2>3 DEF v, N
<1> HIDE DEF q
<1>16. e2 = e
  <2> DEFINE i == g.value + q
             j == f.value - 128 * (b * d.range)
  <2>1. q \in Nat /\ q = r * N /\ v * N \in Nat
    BY <1>3, <1>4, <1>13 DEF q
  <2>2. g.value \in Nat /\ f.value \in Nat
    BY <1>1, <1>15, DecoderFields
  <2>3. i = j /\ i \in Nat
    <3> DEFINE a == g.value
               l == v * N
               o == f.value
    <3>1. a \in Nat /\ l = b * 32768 + q /\ o = l + a /\ l \in Nat
      BY <1>13, <1>15, <2>1, <2>2
    <3>2. 128 * (b * d.range) = b * 32768
      OBVIOUS
    <3> HIDE DEF a, l, o
    <3>3. a + q = o - b * 32768 /\ a + q \in Nat
      BY <2>1, <3>1
    <3> QED BY <3>2, <3>3 DEF a, o
  <2>4. e2 = [g EXCEPT !.value = i] /\ e = [f EXCEPT !.value = j]
    OBVIOUS
  <2> HIDE DEF i, j, e, e2
  <2>5. Narrowed(e2, g, g.range, i) /\ Narrowed(e, f, f.range, j)
    BY <1>1, <1>15, <2>3, <2>4, DecoderValued
  <2> QED BY <1>15, <2>3, <2>5, SameDecoder DEF Narrowed
<1> QED BY <1>1, <1>14, <1>16

\* No bins lead nowhere.
LEMMA StandsOn ==
  ASSUME NEW s, NEW P, NEW W, NEW t, NEW d, NEW z, NEW y \in Interval, Stands(s, P, W, t, d, z),
         Bypass(z, 0, 0, y)
  PROVE  Stands(s, P, W, t, d, y)
<1>1. z \in Interval
  BY DEF Stands
<1>2. y.ctx = z.ctx /\ y.range = z.range /\ z.wt = y.wt * 1 /\ y.pos = z.pos + 128 * (0 * (z.range * y.wt))
  BY Powers DEF Bypass
<1>3. z.pos \in Nat /\ y.wt \in Nat /\ z.range \in Nat /\ y.pos \in Nat /\ z.wt \in Nat
  BY <1>1, IntervalTyped
<1> DEFINE w == y.wt
           p == z.pos
           r == z.range
<1>4. w \in Nat /\ p \in Nat /\ r \in Nat /\ z.wt = w * 1 /\ y.pos = p + 128 * (0 * (r * w))
  BY <1>2, <1>3
<1> HIDE DEF w, p, r
<1>5. w * 1 = w /\ p + 128 * (0 * (r * w)) = p
  BY <1>4
<1>6. z.wt = y.wt /\ y.pos = z.pos /\ y.range = z.range
  BY <1>2, <1>4, <1>5 DEF w, p
<1> QED BY <1>6 DEF Stands, In, Top

\* A part that holds the number is nested in those that do.
LEMMA BypassIn ==
  ASSUME NEW z \in Interval, NEW y \in Interval, NEW b \in Nat, NEW n \in 0..32, Bypass(z, b, n, y),
         NEW t \in Nat, In(t, y)
  PROVE  In(t, z)
BY BypassNested, InNested

\* The chunks 1 to i of the string b, of n bins, have been read; y is where it ends.
Reading(s, P, W, t, a, b, n, i, y) ==
  /\ a[1] = b \div Pow2(Below(n, i))
  /\ \E z \in Interval : /\ Stands(s, P, W, t, a[2], z)
                         /\ Bypass(z, b % Pow2(Below(n, i)), Below(n, i), y)

\* One more chunk of a bypass string is read back.
LEMMA ChunkStep ==
  ASSUME NEW s, NEW P, NEW W, NEW t, Stream(s, P, W, t),
         NEW b \in Nat, NEW n \in BinCounts, NEW i \in Chunks, NEW y \in Interval, In(t, y),
         NEW a, Reading(s, P, W, t, a, b, n, i - 1, y)
  PROVE  Reading(s, P, W, t, ReadChunk(s, a, n, i), b, n, i, y)
<1>t. t \in Nat
  <2>1. 0 \in 0..Len(s)
    BY DEF Stream
  <2> QED BY <2>1, StreamBound
<1>1. CASE 8 * (i - 1) >= n
  <2>1. Below(n, i) = 0 /\ Below(n, i - 1) = 0
    <3>1. n \in 0..32 /\ i \in 1..4
      BY DEF BinCounts, Chunks
    <3> QED BY <1>1, <3>1 DEF Below
  <2>2. ReadChunk(s, a, n, i) = a
    BY <1>1 DEF ReadChunk
  <2> QED BY <2>1, <2>2 DEF Reading
<1>2. CASE ~(8 * (i - 1) >= n)
  <2> DEFINE A == Below(n, i - 1)
             B == Below(n, i)
             k == ChunkBins(n, i)
             PA == Pow2(A)
             PB == Pow2(B)
             PK == Pow2(k)
             h == b \div PA
             c == b % PA
             l == c \div PB
             r == c % PB
  <2>1. B \in 0..24 /\ k \in 1..8 /\ A = B + k /\ A \in 1..n /\ n \in 0..32
    BY <1>2, BelowFalls DEF BinCounts
  <2> HIDE DEF A, B, k
  <2>2. PA = PK * PB /\ PA \in Nat \ {0} /\ PB \in Nat \ {0} /\ PK \in Nat \ {0}
    <3>1. A \in 0..32 /\ B \in 0..32 /\ k \in 0..32 /\ k + B <= 32 /\ A = k + B
      BY <2>1
    <3> QED BY <3>1, PowerSum, PowerTyped
  <2> HIDE DEF PA, PB, PK
  <2>3. h \in Nat /\ c \in Nat /\ b = h * PA + c
    BY <2>2, DivSplit
  <2> HIDE DEF h, c
  <2>4. l \in Nat /\ r \in Nat /\ r < PB /\ c = l * PB + r
    BY <2>2, <2>3, DivSplit
  <2> HIDE DEF l, r
  <2>5. b \div PB = h * PK + l /\ b % PB = r
    <3>1. b = (h * PK + l) * PB + r /\ h * PK + l \in Nat
      BY <2>2, <2>3, <2>4
    <3> DEFINE o == h * PK + l
    <3> HIDE DEF o
    <3>2. b \div PB = o /\ b % PB = r
      BY <2>2, <2>4, <3>1, DivUnique DEF o
    <3> QED BY <3>2 DEF o
  <2>6. a[1] = h /\ \E z \in Interval : Stands(s, P, W, t, a[2], z) /\ Bypass(z, c, A, y)
    BY DEF Reading, A, PA, h, c
  <2>7. PICK z \in Interval : Stands(s, P, W, t, a[2], z) /\ Bypass(z, c, A, y)
    BY <2>6
  <2>8. PICK z1 \in Interval : Bypass(z, l, k, z1) /\ Bypass(z1, r, B, y)
    <3>1. A \in 0..32 /\ B \in 0..A /\ A - B = k
      BY <2>1
    <3>2. \E z1 \in Interval : Bypass(z, c \div Pow2(B), A - B, z1) /\ Bypass(z1, c % Pow2(B), B, y)
      BY <2>3, <2>7, <3>1, BypassSplit
    <3> QED BY <3>1, <3>2 DEF l, r, PB
  <2>9. In(t, z1)
    <3>1. B \in 0..32
      BY <2>1
    <3> QED BY <1>t, <2>4, <2>8, <3>1, BypassIn
  <2> DEFINE d == a[2]
             u == IF d.range = 256 THEN GetAlignedChunk(s, d, k) ELSE GetChunk(s, d, k)
  <2>10. u[1] = l /\ Stands(s, P, W, t, u[2], z1)
    <3>1. Stands(s, P, W, t, d, z)
      BY <2>7
    <3> HIDE DEF d
    <3>2. CASE d.range = 256
      BY <2>1, <2>4, <2>8, <2>9, <3>1, <3>2, AlignedChunkRead
    <3>3. CASE d.range # 256
      BY <2>1, <2>4, <2>8, <2>9, <3>1, <3>3, ChunkRead
    <3> QED BY <3>2, <3>3
  <2>11. ReadChunk(s, a, n, i) = <<h * PK + l, u[2]>>
    <3>1. ReadChunk(s, a, n, i) = <<a[1] * PK + u[1], u[2]>>
      BY <1>2 DEF ReadChunk, k, PK
    <3> HIDE DEF u
    <3> QED BY <2>6, <2>10, <3>1
  <2> HIDE DEF u
  <2>12. Reading(s, P, W, t, <<h * PK + l, u[2]>>, b, n, i, y)
    BY <2>5, <2>8, <2>10 DEF Reading, B, PB
  <2> QED BY <2>11, <2>12
<1> QED BY <1>1, <1>2

\* A bypass string is read as it was written, whatever its length.
LEMMA StringRead ==
  ASSUME NEW s, NEW P, NEW W, NEW t, Stream(s, P, W, t), NEW d, NEW x, Stands(s, P, W, t, d, x),
         NEW n \in 0..32, NEW b \in Nat, NEW y \in Interval, Bypass(x, b, n, y), In(t, y)
  PROVE  GetBinsEP(s, d, n)[1] = b /\ Stands(s, P, W, t, GetBinsEP(s, d, n)[2], y)
<1> DEFINE a0 == <<0, d>>
           a1 == ReadChunk(s, a0, n, 1)
           a2 == ReadChunk(s, a1, n, 2)
           a3 == ReadChunk(s, a2, n, 3)
           a4 == ReadChunk(s, a3, n, 4)
<1>0. GetBinsEP(s, d, n) = a4
  BY DEF GetBinsEP
<1>1. n \in BinCounts /\ 1 \in Chunks /\ 2 \in Chunks /\ 3 \in Chunks /\ 4 \in Chunks
      /\ Below(n, 0) = n /\ Below(n, 4) = 0 /\ 1 - 1 = 0 /\ 2 - 1 = 1 /\ 3 - 1 = 2 /\ 4 - 1 = 3
  BY DEF BinCounts, Chunks, Below
<1>2. Reading(s, P, W, t, a0, b, n, 0, y)
  <2>1. Pow2(n) \in Nat \ {0} /\ b < Pow2(n)
    BY PowerTyped DEF Bypass
  <2>2. b \div Pow2(n) = 0 /\ b % Pow2(n) = b
    <3> DEFINE c == Pow2(n)
    <3> HIDE DEF c
    <3>1. c \in Nat \ {0} /\ b < c /\ b = 0 * c + b
      BY <2>1 DEF c
    <3>2. b \div c = 0 /\ b % c = b
      BY <3>1, DivUnique
    <3> QED BY <3>2 DEF c
  <2>3. x \in Interval
    BY DEF Stands
  <2> QED BY <1>1, <2>2, <2>3 DEF Reading
<1> HIDE DEF a0
<1>3. Reading(s, P, W, t, a1, b, n, 1, y)
  <2>1. Reading(s, P, W, t, a0, b, n, 1 - 1, y)
    BY <1>1, <1>2
  <2> QED BY <1>1, <2>1, ChunkStep
<1> HIDE DEF a1
<1>4. Reading(s, P, W, t, a2, b, n, 2, y)
  <2>1. Reading(s, P, W, t, a1, b, n, 2 - 1, y)
    BY <1>1, <1>3
  <2> QED BY <1>1, <2>1, ChunkStep
<1> HIDE DEF a2
<1>5. Reading(s, P, W, t, a3, b, n, 3, y)
  <2>1. Reading(s, P, W, t, a2, b, n, 3 - 1, y)
    BY <1>1, <1>4
  <2> QED BY <1>1, <2>1, ChunkStep
<1> HIDE DEF a3
<1>6. Reading(s, P, W, t, a4, b, n, 4, y)
  <2>1. Reading(s, P, W, t, a3, b, n, 4 - 1, y)
    BY <1>1, <1>5
  <2> QED BY <1>1, <2>1, ChunkStep
<1> HIDE DEF a4
<1>7. Pow2(0) = 1 /\ b \div 1 = b /\ b % 1 = 0
  BY Powers
<1>8. a4[1] = b /\ \E z \in Interval : Stands(s, P, W, t, a4[2], z) /\ Bypass(z, 0, 0, y)
  BY <1>1, <1>6, <1>7 DEF Reading
<1>9. Stands(s, P, W, t, a4[2], y)
  BY <1>8, StandsOn
<1> QED BY <1>0, <1>8, <1>9

(* ------------------------- the prefix of a remainder ------------------------- *)

FirstPrefix(d) == [ones |-> 0, more |-> TRUE, d |-> d]

\* f[i] is what i bins of the prefix have given.
PrefixRun(s, d, n, f) ==
  f = [i \in 0..n |-> IF i = 0 THEN FirstPrefix(d) ELSE PrefixBin(s, f[i - 1])]

PrefixOf(s, d, n) == CHOOSE f : PrefixRun(s, d, n, f)

\* The run of a prefix, bin by bin.
LEMMA PrefixSteps ==
  ASSUME NEW s, NEW d, NEW n \in Nat, NEW f, PrefixRun(s, d, n, f)
  PROVE  f[0] = FirstPrefix(d) /\ \A i \in 1..n : f[i] = PrefixBin(s, f[i - 1])
<1>1. f = [i \in 0..n |-> IF i = 0 THEN FirstPrefix(d) ELSE PrefixBin(s, f[i - 1])]
  BY DEF PrefixRun
<1>2. 0 \in 0..n /\ \A i \in 1..n : i \in 0..n /\ i # 0
  OBVIOUS
<1> QED BY <1>1, <1>2, Zenon

\* It exists for every number of bins.
LEMMA PrefixExists ==
  ASSUME NEW s, NEW d
  PROVE  \A n \in Nat : \E f : PrefixRun(s, d, n, f)
<1> DEFINE S == {n \in Nat : \E f : PrefixRun(s, d, n, f)}
<1>1. 0 \in S
  <2> DEFINE f == [i \in 0..0 |-> FirstPrefix(d)]
  <2>1. f = [i \in 0..0 |-> IF i = 0 THEN FirstPrefix(d) ELSE PrefixBin(s, f[i - 1])]
    OBVIOUS
  <2> HIDE DEF f
  <2> QED BY <2>1 DEF PrefixRun
<1>2. ASSUME NEW n \in Nat, n \in S PROVE n + 1 \in S
  <2>1. PICK f : PrefixRun(s, d, n, f)
    BY <1>2
  <2>2. f[0] = FirstPrefix(d) /\ \A i \in 1..n : f[i] = PrefixBin(s, f[i - 1])
    BY <2>1, PrefixSteps
  <2> DEFINE G(i) == IF i = n + 1 THEN PrefixBin(s, f[n]) ELSE f[i]
             g == [i \in 0..n + 1 |-> G(i)]
             h == [i \in 0..n + 1 |-> IF i = 0 THEN FirstPrefix(d) ELSE PrefixBin(s, g[i - 1])]
  <2>3. ASSUME NEW i \in 0..n + 1 PROVE g[i] = h[i]
    <3>1. CASE i = 0
      <4>1. i # n + 1
        BY <3>1
      <4> QED BY <2>2, <3>1, <4>1
    <3>2. CASE i # 0 /\ i # n + 1
      <4>1. i \in 1..n /\ i - 1 \in 0..n + 1 /\ i - 1 # n + 1
        BY <3>2
      <4>2. g[i] = f[i] /\ g[i - 1] = f[i - 1]
        BY <3>2, <4>1
      <4>3. h[i] = PrefixBin(s, g[i - 1])
        BY <3>2
      <4> HIDE DEF g, h
      <4> QED BY <2>2, <4>1, <4>2, <4>3
    <3>3. CASE i = n + 1
      <4>1. i - 1 = n /\ n \in 0..n + 1 /\ n # n + 1 /\ i # 0
        BY <3>3
      <4>2. g[i] = PrefixBin(s, f[n]) /\ g[n] = f[n]
        BY <3>3, <4>1
      <4>3. h[i] = PrefixBin(s, g[i - 1])
        BY <4>1
      <4> HIDE DEF g, h
      <4> QED BY <4>1, <4>2, <4>3
    <3> QED BY <3>1, <3>2, <3>3
  <2>4. g = [i \in 0..n + 1 |-> g[i]] /\ h = [i \in 0..n + 1 |-> h[i]]
    OBVIOUS
  <2>5. g = h
    <3> HIDE DEF g, h
    <3> QED BY <2>3, <2>4
  <2>6. h = [i \in 0..n + 1 |-> IF i = 0 THEN FirstPrefix(d) ELSE PrefixBin(s, g[i - 1])]
    OBVIOUS
  <2> HIDE DEF g, h
  <2>7. PrefixRun(s, d, n + 1, g)
    BY <2>5, <2>6 DEF PrefixRun
  <2> QED BY <2>7
<1>3. Nat \subseteq S
  <2> HIDE DEF S
  <2> QED BY <1>1, <1>2, SetInduction
<1> QED BY <1>3

\* i of the Q bins 1 before u have been read, the prefix goes on.
OnesRead(s, P, W, t, a, i, Q, u) ==
  /\ a.more = TRUE /\ a.ones = i
  /\ \E z \in Interval : /\ Stands(s, P, W, t, a.d, z)
                         /\ Bypass(z, Pow2(Q - i) - 1, Q - i, u)

\* Q bins 1 and the bin 0 before w have been read.
PrefixEnded(s, P, W, t, a, Q, w) ==
  ~a.more /\ a.ones = Q /\ Stands(s, P, W, t, a.d, w)

PrefixMade(ones, bin, d) == [ones |-> ones + bin, more |-> bin = 1, d |-> d]

\* What a bin of 1, and one of 0, make of the prefix.
LEMMA PrefixMore ==
  ASSUME NEW ones, NEW d
  PROVE  /\ PrefixMade(ones, 1, d).more = TRUE /\ PrefixMade(ones, 1, d).ones = ones + 1
         /\ PrefixMade(ones, 1, d).d = d
         /\ ~PrefixMade(ones, 0, d).more /\ PrefixMade(ones, 0, d).ones = ones + 0
         /\ PrefixMade(ones, 0, d).d = d
<1>1. (1 = 1) = TRUE /\ (0 = 1) = FALSE
  OBVIOUS
<1>2. /\ PrefixMade(ones, 1, d) = [ones |-> ones + 1, more |-> TRUE, d |-> d]
      /\ PrefixMade(ones, 0, d) = [ones |-> ones + 0, more |-> FALSE, d |-> d]
  BY <1>1, Zenon DEF PrefixMade
<1> QED BY <1>2

\* A bin of 1 of the prefix is read as one.
LEMMA OneRead ==
  ASSUME NEW s, NEW P, NEW W, NEW t, Stream(s, P, W, t), NEW a, NEW Q \in 0..32, NEW i \in Nat, i < Q,
         NEW u \in Interval, In(t, u), OnesRead(s, P, W, t, a, i, Q, u)
  PROVE  OnesRead(s, P, W, t, PrefixBin(s, a), i + 1, Q, u)
<1>t. t \in Nat
  <2>1. 0 \in 0..Len(s)
    BY DEF Stream
  <2> QED BY <2>1, StreamBound
<1> DEFINE n == Q - i
           k == Q - (i + 1)
           K == Pow2(k)
<1>1. PICK z \in Interval : Stands(s, P, W, t, a.d, z) /\ Bypass(z, Pow2(n) - 1, n, u)
  BY DEF OnesRead
<1>2. n \in 1..32 /\ k \in 0..31 /\ n = k + 1 /\ n - k = 1 /\ n \in 0..32 /\ k \in 0..n /\ k \in 0..32
  OBVIOUS
<1> HIDE DEF n, k
<1>3. Pow2(n) = 2 * K /\ K \in Nat \ {0}
  BY <1>2, PowerDoubles
<1> HIDE DEF K
<1>4. (2 * K - 1) \div K = 1 /\ (2 * K - 1) % K = K - 1
  <2>1. 2 * K - 1 = 1 * K + (K - 1) /\ 2 * K - 1 \in Nat /\ K - 1 \in Nat /\ K - 1 < K
    BY <1>3
  <2> DEFINE b == 2 * K - 1
             r == K - 1
  <2>2. b \in Nat /\ r \in Nat /\ r < K /\ b = 1 * K + r
    BY <2>1
  <2> HIDE DEF b, r
  <2>3. b \div K = 1 /\ b % K = r
    BY <1>3, <2>2, DivUnique
  <2> QED BY <2>3 DEF b, r
<1>5. PICK z2 \in Interval : Bypass(z, 1, 1, z2) /\ Bypass(z2, K - 1, k, u)
  <2> DEFINE b == 2 * K - 1
  <2>1. b \in Nat /\ Bypass(z, b, n, u)
    BY <1>1, <1>3
  <2>2. b \div K = 1 /\ b % K = K - 1
    BY <1>4
  <2> HIDE DEF b
  <2>3. \E z2 \in Interval : Bypass(z, b \div Pow2(k), n - k, z2) /\ Bypass(z2, b % Pow2(k), k, u)
    BY <1>2, <2>1, BypassSplit
  <2> QED BY <1>2, <2>2, <2>3 DEF K
<1>6. In(t, z2)
  <2>1. K - 1 \in Nat
    BY <1>3
  <2> DEFINE r == K - 1
  <2>2. r \in Nat /\ Bypass(z2, r, k, u)
    BY <1>5, <2>1
  <2> HIDE DEF r
  <2> QED BY <1>t, <1>2, <2>2, BypassIn
<1>7. GetBinEP(s, a.d)[1] = 1 /\ Stands(s, P, W, t, GetBinEP(s, a.d)[2], z2)
  <2>1. 1 \in 0..1
    OBVIOUS
  <2> QED BY <1>1, <1>5, <1>6, <2>1, EPRead
<1> DEFINE b == GetBinEP(s, a.d)
           c == PrefixBin(s, a)
<1>8. a.more = TRUE /\ a.ones = i
  BY DEF OnesRead
<1>9. c = PrefixMade(a.ones, b[1], b[2])
  BY <1>8 DEF PrefixBin, PrefixMade
<1> HIDE DEF b
<1>10. c.more = TRUE /\ c.ones = i + 1 /\ c.d = b[2]
  <2>1. PrefixMade(i, 1, b[2]).more = TRUE /\ PrefixMade(i, 1, b[2]).ones = i + 1
        /\ PrefixMade(i, 1, b[2]).d = b[2]
    BY PrefixMore, ZenonT(30)
  <2>2. c = PrefixMade(i, 1, b[2])
    BY <1>7, <1>8, <1>9 DEF b
  <2> QED BY <2>1, <2>2
<1> HIDE DEF c
<1>11. Stands(s, P, W, t, c.d, z2) /\ Bypass(z2, Pow2(Q - (i + 1)) - 1, Q - (i + 1), u)
  BY <1>5, <1>7, <1>10 DEF K, k, b
<1>12. OnesRead(s, P, W, t, c, i + 1, Q, u)
  BY <1>10, <1>11 DEF OnesRead
<1> QED BY <1>12 DEF c

\* All the ones are read.
LEMMA OnesEnd ==
  ASSUME NEW s, NEW P, NEW W, NEW t, NEW a, NEW Q \in Nat, NEW u \in Interval,
         OnesRead(s, P, W, t, a, Q, Q, u)
  PROVE  a.more = TRUE /\ a.ones = Q /\ Stands(s, P, W, t, a.d, u)
<1>1. Q - Q = 0 /\ Pow2(0) - 1 = 0
  BY Powers
<1>2. PICK z \in Interval : Stands(s, P, W, t, a.d, z) /\ Bypass(z, Pow2(Q - Q) - 1, Q - Q, u)
  BY DEF OnesRead
<1>3. Bypass(z, 0, 0, u)
  BY <1>1, <1>2
<1>4. Stands(s, P, W, t, a.d, u)
  BY <1>2, <1>3, StandsOn
<1> QED BY <1>4 DEF OnesRead

\* The separator ends the prefix.
LEMMA ZeroRead ==
  ASSUME NEW s, NEW P, NEW W, NEW t, Stream(s, P, W, t), NEW a, NEW Q \in Nat,
         NEW u \in Interval, OnesRead(s, P, W, t, a, Q, Q, u),
         NEW w \in Interval, Bypass(u, 0, 1, w), In(t, w)
  PROVE  PrefixEnded(s, P, W, t, PrefixBin(s, a), Q, w)
<1>1. a.more = TRUE /\ a.ones = Q /\ Stands(s, P, W, t, a.d, u)
  BY OnesEnd
<1>2. GetBinEP(s, a.d)[1] = 0 /\ Stands(s, P, W, t, GetBinEP(s, a.d)[2], w)
  <2>1. 0 \in 0..1
    OBVIOUS
  <2> QED BY <1>1, <2>1, EPRead
<1> DEFINE b == GetBinEP(s, a.d)
           c == PrefixBin(s, a)
<1>3. c = PrefixMade(a.ones, b[1], b[2])
  BY <1>1 DEF PrefixBin, PrefixMade
<1> HIDE DEF b
<1>4. ~c.more /\ c.ones = Q /\ c.d = b[2]
  <2>1. ~PrefixMade(Q, 0, b[2]).more /\ PrefixMade(Q, 0, b[2]).ones = Q + 0
        /\ PrefixMade(Q, 0, b[2]).d = b[2]
    BY PrefixMore, ZenonT(30)
  <2>2. c = PrefixMade(Q, 0, b[2])
    BY <1>1, <1>2, <1>3 DEF b
  <2> QED BY <2>1, <2>2
<1> HIDE DEF c
<1>5. PrefixEnded(s, P, W, t, c, Q, w)
  BY <1>2, <1>4 DEF PrefixEnded, b
<1> QED BY <1>5 DEF c

\* w follows the Q bins 1 before u: behind a bin 0, unless the prefix has its maximum.
Ends(u, w, Q, max) == (Q < max => Bypass(u, 0, 1, w)) /\ (Q = max => w = u)

Ones(x, Q, u) == Bypass(x, Pow2(Q) - 1, Q, u)

\* The unary prefix of Q bins 1, ended by a bin 0 or by its greatest length.
LEMMA PrefixRead ==
  ASSUME NEW s, NEW P, NEW W, NEW t, Stream(s, P, W, t), NEW d, NEW x, Stands(s, P, W, t, d, x),
         NEW max \in 0..32, NEW Q \in 0..max, NEW u \in Interval, In(t, u),
         Ones(x, Q, u), NEW w \in Interval, In(t, w), Ends(u, w, Q, max),
         NEW f, PrefixRun(s, d, max, f)
  PROVE  f[max].ones = Q /\ Stands(s, P, W, t, f[max].d, w)
<1>1. f[0] = FirstPrefix(d) /\ \A i \in 1..max : f[i] = PrefixBin(s, f[i - 1])
  <2>1. max \in Nat
    OBVIOUS
  <2>2. PrefixRun(s, d, max, f)
    OBVIOUS
  <2> QED BY ONLY <2>1, <2>2, PrefixSteps
<1> DEFINE Ok(i) == /\ i <= Q => OnesRead(s, P, W, t, f[i], i, Q, u)
                    /\ i > Q => PrefixEnded(s, P, W, t, f[i], Q, w)
           S == {i \in Nat : i <= max => Ok(i)}
<1>2. 0 \in S
  <2>1. ~(0 > Q) /\ Q - 0 = Q
    OBVIOUS
  <2>2. f[0].more = TRUE /\ f[0].ones = 0 /\ f[0].d = d
    BY <1>1 DEF FirstPrefix
  <2>3. OnesRead(s, P, W, t, f[0], 0, Q, u)
    BY <2>1, <2>2 DEF OnesRead, Stands, Ones
  <2> QED BY <2>1, <2>3
<1>3. ASSUME NEW i \in Nat, i \in S PROVE i + 1 \in S
  <2> SUFFICES ASSUME i + 1 <= max PROVE Ok(i + 1)
    OBVIOUS
  <2>1. f[i + 1] = PrefixBin(s, f[i])
    <3>1. i + 1 \in 1..max /\ (i + 1) - 1 = i
      OBVIOUS
    <3> QED BY <1>1, <3>1
  <2>2. Ok(i)
    BY <1>3
  <2>3. CASE i < Q
    <3>1. OnesRead(s, P, W, t, f[i], i, Q, u) /\ Q \in 0..32
      BY <2>2, <2>3
    <3>2. OnesRead(s, P, W, t, f[i + 1], i + 1, Q, u)
      BY <2>1, <2>3, <3>1, OneRead
    <3>3. ~(i + 1 > Q)
      BY <2>3
    <3> QED BY <3>2, <3>3
  <2>4. CASE i = Q
    <3>1. OnesRead(s, P, W, t, f[i], Q, Q, u) /\ Q \in Nat /\ Q < max /\ Bypass(u, 0, 1, w)
      BY <2>2, <2>4 DEF Ends
    <3>2. PrefixEnded(s, P, W, t, f[i + 1], Q, w)
      BY <2>1, <3>1, ZeroRead
    <3>3. ~(i + 1 <= Q)
      BY <2>4
    <3> QED BY <3>2, <3>3
  <2>5. CASE i > Q
    <3>1. PrefixEnded(s, P, W, t, f[i], Q, w)
      BY <2>2, <2>5
    <3>2. PrefixBin(s, f[i]) = f[i]
      BY <3>1 DEF PrefixEnded, PrefixBin
    <3>3. ~(i + 1 <= Q)
      BY <2>5
    <3> QED BY <2>1, <3>1, <3>2, <3>3
  <2> QED BY <2>3, <2>4, <2>5
<1>4. Nat \subseteq S
  <2> HIDE DEF S
  <2> QED BY <1>2, <1>3, SetInduction
<1>5. max \in Nat /\ Ok(max)
  BY <1>4
<1>6. CASE Q < max
  <2>1. max > Q
    BY <1>6
  <2> QED BY <1>5, <2>1 DEF PrefixEnded
<1>7. CASE Q = max
  <2>1. OnesRead(s, P, W, t, f[max], Q, Q, u) /\ w = u /\ Q \in Nat
    BY <1>5, <1>7 DEF Ends
  <2> QED BY <2>1, OnesEnd
<1> QED BY <1>6, <1>7

(* ------------------------- a remainder is read back ------------------------- *)

RemOffset(ones, rice, cutoff) ==
  (IF ones < cutoff THEN ones ELSE Pow2(ones - cutoff) + cutoff - 1) * Pow2(rice)
RemLength(ones, rice, cutoff, dynRange, max) ==
  CASE ones < cutoff -> rice
    [] ones >= cutoff /\ ones = max -> dynRange
    [] OTHER -> rice + ones - cutoff

\* The remainder behind the prefix p.
RestOf(s, p, rice, cutoff, dynRange, max) ==
  GetBinsEP(s, p.d, RemLength(p.ones, rice, cutoff, dynRange, max))

RemainderFrom(s, p, rice, cutoff, dynRange, max) ==
  LET rest == RestOf(s, p, rice, cutoff, dynRange, max)
  IN <<RemOffset(p.ones, rice, cutoff) + rest[1], rest[2]>>

\* decodeRemAbsEP is a prefix and what follows from it.
LEMMA RemFromPrefix ==
  ASSUME NEW s, NEW d, NEW rice, NEW cutoff, NEW dynRange \in 15..32, NEW max, max = 32 - dynRange
  PROVE  \E f : /\ PrefixRun(s, d, max, f)
                /\ GetRemAbs(s, d, rice, cutoff, dynRange)
                     = RemainderFrom(s, f[max], rice, cutoff, dynRange, max)
<1> DEFINE f == PrefixOf(s, d, max)
<1>1. GetRemAbs(s, d, rice, cutoff, dynRange)
        = RemainderFrom(s, f[max], rice, cutoff, dynRange, max)
  BY DEF GetRemAbs, RemainderFrom, RemOffset, RestOf, RemLength, PrefixOf, PrefixRun, FirstPrefix
<1>2. max \in Nat
  OBVIOUS
<1>3. PrefixRun(s, d, max, f)
  BY <1>2, PrefixExists DEF PrefixOf
<1> HIDE DEF f
<1> QED BY <1>1, <1>3

Follows(n, ones, rice, cutoff, dynRange, max) == n = RemLength(ones, rice, cutoff, dynRange, max)

\* A prefix of Q bins 1, and the c of n bins that belongs behind it.
LEMMA PrefixedRead ==
  ASSUME NEW s, NEW P, NEW W, NEW t, Stream(s, P, W, t), NEW d, NEW x, Stands(s, P, W, t, d, x),
         NEW rice, NEW cutoff, NEW dynRange \in 15..32, NEW max, max = 32 - dynRange,
         NEW Q \in 0..max, NEW u \in Interval, In(t, u), Ones(x, Q, u),
         NEW w \in Interval, Ends(u, w, Q, max),
         NEW n \in 0..32, Follows(n, Q, rice, cutoff, dynRange, max),
         NEW c \in Nat, NEW y \in Interval, Bypass(w, c, n, y), In(t, y), In(t, w)
  PROVE  /\ GetRemAbs(s, d, rice, cutoff, dynRange)[1] = RemOffset(Q, rice, cutoff) + c
         /\ Stands(s, P, W, t, GetRemAbs(s, d, rice, cutoff, dynRange)[2], y)
<1>s. Stream(s, P, W, t)
  OBVIOUS
<1>d. dynRange \in 15..32 /\ max = 32 - dynRange
  OBVIOUS
<1>m. max \in 0..32 /\ Q \in 0..max
  OBVIOUS
<1>p. /\ Stands(s, P, W, t, d, x)
      /\ u \in Interval /\ In(t, u) /\ Ones(x, Q, u)
      /\ w \in Interval /\ In(t, w) /\ Ends(u, w, Q, max)
  OBVIOUS
<1>n. n = RemLength(Q, rice, cutoff, dynRange, max)
  BY DEF Follows
<1>c. /\ n \in 0..32 /\ c \in Nat /\ y \in Interval /\ w \in Interval /\ Bypass(w, c, n, y) /\ In(t, y)
  OBVIOUS
<1>1. PICK f : /\ PrefixRun(s, d, max, f)
                /\ GetRemAbs(s, d, rice, cutoff, dynRange)
                     = RemainderFrom(s, f[max], rice, cutoff, dynRange, max)
  BY ONLY <1>d, RemFromPrefix
<1>2. f[max].ones = Q /\ Stands(s, P, W, t, f[max].d, w)
  <2>1. PrefixRun(s, d, max, f)
    BY <1>1
  <2> QED BY ONLY <1>s, <1>m, <1>p, <2>1, PrefixRead
<1> DEFINE e == f[max].d
<1>3. RestOf(s, f[max], rice, cutoff, dynRange, max) = GetBinsEP(s, e, n)
  BY <1>2, <1>n DEF RestOf
<1>4. Stands(s, P, W, t, e, w)
  BY <1>2
<1> HIDE DEF e
<1>5. GetBinsEP(s, e, n)[1] = c /\ Stands(s, P, W, t, GetBinsEP(s, e, n)[2], y)
  BY ONLY <1>s, <1>c, <1>4, StringRead
<1> DEFINE r == GetBinsEP(s, e, n)
<1> HIDE DEF r
<1>6. GetRemAbs(s, d, rice, cutoff, dynRange) = <<RemOffset(Q, rice, cutoff) + r[1], r[2]>>
  BY <1>1, <1>2, <1>3 DEF RemainderFrom, r
<1> QED BY <1>5, <1>6 DEF r

\* The reader of a remainder gives b and stands at y.
RemBack(s, P, W, t, d, rice, cutoff, dynRange, b, y) ==
  /\ GetRemAbs(s, d, rice, cutoff, dynRange)[1] = b
  /\ Stands(s, P, W, t, GetRemAbs(s, d, rice, cutoff, dynRange)[2], y)

\* A remainder below the cutoff: unary bins 1, a bin 0 and the low bits.
LEMMA UnaryRead ==
  ASSUME NEW s, NEW P, NEW W, NEW t, Stream(s, P, W, t), NEW d, NEW x, Stands(s, P, W, t, d, x),
         NEW rice \in 0..28, NEW cutoff \in 0..17, NEW dynRange \in 15..32, cutoff + dynRange <= 32,
         NEW unary \in Nat, unary < cutoff, NEW low \in Nat, NEW b, b = unary * Pow2(rice) + low,
         NEW z \in Interval, NEW c, c = Pow2(unary + 1) - 2, Bypass(x, c, unary + 1, z),
         NEW y \in Interval, Bypass(z, low, rice, y), In(t, y)
  PROVE  RemBack(s, P, W, t, d, rice, cutoff, dynRange, b, y)
<1>t. t \in Nat
  <2>1. 0 \in 0..Len(s)
    BY DEF Stream
  <2> QED BY <2>1, StreamBound
<1> DEFINE max == 32 - dynRange
           n == unary + 1
           q == Pow2(unary)
<1>1. /\ unary \in 0..16 /\ max \in 0..17 /\ unary < max /\ unary # max /\ unary \in 0..max
      /\ n \in 1..17 /\ n \in 0..32 /\ n - 1 = unary /\ unary \in 0..31 /\ rice \in 0..32
  OBVIOUS
<1>2. Pow2(n) = 2 * q /\ q \in Nat \ {0} /\ Pow2(1) = 2
  BY <1>1, PowerDoubles, Powers
<1> HIDE DEF n, q
<1>3. c = 2 * q - 2 /\ c \in Nat /\ c \div 2 = q - 1 /\ c % 2 = 0
  BY <1>2 DEF n
<1>x. x \in Interval
  BY DEF Stands
<1>4. PICK u \in Interval : Bypass(x, q - 1, unary, u) /\ Bypass(u, 0, 1, z)
  <2>1. Bypass(x, c, n, z) /\ 1 \in 0..n
    BY <1>1 DEF n
  <2>2. \E u \in Interval : Bypass(x, c \div Pow2(1), n - 1, u) /\ Bypass(u, c % Pow2(1), 1, z)
    BY <1>x, <1>1, <1>3, <2>1, BypassSplit, Zenon
  <2> QED BY <1>1, <1>2, <1>3, <2>2
<1>5. In(t, z) /\ In(t, u)
  <2>1. In(t, z)
    BY <1>t, <1>1, BypassIn
  <2>2. 1 \in 0..32 /\ 0 \in Nat
    OBVIOUS
  <2> QED BY <1>t, <1>4, <2>1, <2>2, BypassIn
<1>6. Ones(x, unary, u)
  BY <1>4 DEF Ones, q
<1>7. Ends(u, z, unary, max)
  BY <1>1, <1>4 DEF Ends
<1> HIDE DEF max
<1>8. Follows(rice, unary, rice, cutoff, dynRange, max)
  BY DEF RemLength, Follows
<1>9. RemOffset(unary, rice, cutoff) = unary * Pow2(rice)
  BY DEF RemOffset
<1>10. /\ GetRemAbs(s, d, rice, cutoff, dynRange)[1] = RemOffset(unary, rice, cutoff) + low
       /\ Stands(s, P, W, t, GetRemAbs(s, d, rice, cutoff, dynRange)[2], y)
  <2>1. max = 32 - dynRange /\ dynRange \in 15..32
    BY DEF max
  <2>2. Stream(s, P, W, t) /\ Stands(s, P, W, t, d, x) /\ unary \in 0..max /\ u \in Interval /\ In(t, u)
        /\ Ones(x, unary, u) /\ z \in Interval /\ Ends(u, z, unary, max)
    BY <1>1, <1>4, <1>5, <1>6, <1>7
  <2>3. rice \in 0..32 /\ low \in Nat /\ y \in Interval /\ Bypass(z, low, rice, y) /\ In(t, y) /\ In(t, z)
    BY <1>1, <1>5
  <2> QED BY ONLY <1>8, <2>1, <2>2, <2>3, PrefixedRead
<1> QED BY <1>9, <1>10 DEF RemBack

\* Beyond the cutoff: the prefix of the Exp-Golomb code, and the rest.
LEMMA GolombRead ==
  ASSUME NEW s, NEW P, NEW W, NEW t, Stream(s, P, W, t), NEW d, NEW x, Stands(s, P, W, t, d, x),
         NEW rice \in 0..28, NEW cutoff \in 0..17, NEW dynRange \in 15..32, cutoff + dynRange <= 32,
         NEW code \in Nat, NEW low \in Nat, low < Pow2(rice),
         NEW b, b = (code + cutoff) * Pow2(rice) + low,
         NEW max, max = 32 - cutoff - dynRange, NEW p, p = PrefixLength(code, max),
         NEW n1, n1 = p + cutoff, NEW z \in Interval, Ones(x, n1, z),
         NEW c \in Nat, c = (code - (Pow2(p) - 1)) * Pow2(rice) + low,
         NEW n \in 0..32, n = IF code >= Pow2(max) - 1 THEN dynRange ELSE p + rice + 1,
         NEW y \in Interval, Bypass(z, c, n, y), In(t, y)
  PROVE  RemBack(s, P, W, t, d, rice, cutoff, dynRange, b, y)
<1>t. t \in Nat
  <2>1. 0 \in 0..Len(s)
    BY DEF Stream
  <2> QED BY <2>1, StreamBound
<1> DEFINE top == 32 - dynRange
           K == Pow2(rice)
           q == Pow2(p)
<1>1. max \in 0..17 /\ top \in 0..17 /\ top = max + cutoff /\ rice \in 0..32
  OBVIOUS
<1>2. p \in 0..max /\ p \in 0..17
  <2>1. p \in 0..max
    BY <1>1, PrefixInRange
  <2> QED BY <1>1, <2>1
<1>3. n1 \in 0..top /\ ~(n1 < cutoff) /\ n1 >= cutoff /\ n1 - cutoff = p /\ (n1 = top <=> p = max)
      /\ n1 \in Nat
  BY <1>1, <1>2
<1>4. K \in Nat \ {0} /\ q \in Nat \ {0}
  <2>1. p \in 0..32
    BY <1>2
  <2> QED BY <1>1, <2>1, PowerTyped
<1>5. RemOffset(n1, rice, cutoff) + c = b
  <2>1. RemOffset(n1, rice, cutoff) = (q + cutoff - 1) * K
    BY <1>3 DEF RemOffset
  <2>2. ASSUME NEW i \in Int, NEW j \in Int PROVE i * K + (j * K + low) = (i + j) * K + low
    BY <1>4
  <2>3. q + cutoff - 1 \in Int /\ code - (q - 1) \in Int
        /\ (q + cutoff - 1) + (code - (q - 1)) = code + cutoff
    BY <1>4
  <2> DEFINE i == q + cutoff - 1
             j == code - (q - 1)
  <2>4. i \in Int /\ j \in Int /\ i + j = code + cutoff /\ c = j * K + low
        /\ RemOffset(n1, rice, cutoff) = i * K
    BY <2>1, <2>3
  <2> HIDE DEF i, j, K
  <2>5. RemOffset(n1, rice, cutoff) + c = (i + j) * K + low
    BY <2>2, <2>4
  <2> QED BY <2>4, <2>5 DEF K
<1>6. In(t, z)
  BY <1>t, BypassIn
<1> HIDE DEF top, K, q
<1>s. Stream(s, P, W, t) /\ Stands(s, P, W, t, d, x) /\ n1 \in 0..top /\ z \in Interval /\ In(t, z)
      /\ Ones(x, n1, z) /\ y \in Interval /\ In(t, y)
  BY <1>3, <1>6
<1>d. dynRange \in 15..32 /\ top = 32 - dynRange
  BY DEF top
<1>7. CASE code >= Pow2(max) - 1
  <2>1. p = max
    BY <1>7 DEF PrefixLength
  <2>2. n1 = top /\ ~(n1 < top) /\ n = dynRange
    BY <1>1, <1>3, <1>7, <2>1
  <2>3. Ends(z, z, n1, top)
    BY <2>2 DEF Ends
  <2>4. Follows(n, n1, rice, cutoff, dynRange, top)
    BY <1>3, <2>2 DEF RemLength, Follows
  <2>5. n \in 0..32 /\ c \in Nat /\ Bypass(z, c, n, y)
    OBVIOUS
  <2>6. /\ GetRemAbs(s, d, rice, cutoff, dynRange)[1] = RemOffset(n1, rice, cutoff) + c
        /\ Stands(s, P, W, t, GetRemAbs(s, d, rice, cutoff, dynRange)[2], y)
    BY ONLY <1>s, <1>d, <2>3, <2>4, <2>5, PrefixedRead
  <2> QED BY <1>5, <2>6 DEF RemBack
<1>8. CASE ~(code >= Pow2(max) - 1)
  <2>1. p < max /\ Pow2(p) - 1 <= code /\ code <= Pow2(p + 1) - 2
    BY <1>1, <1>8, PrefixBrackets
  <2>2. Pow2(p + 1) = 2 * q
    <3>1. p \in 0..31
      BY <1>2
    <3> QED BY <3>1, PowerDoubles DEF q
  <2> DEFINE k == p + rice
             j == code - (q - 1)
             B == Pow2(k)
  <2>3. n = k + 1 /\ k \in 0..31 /\ k \in 0..32 /\ n - k = 1 /\ k \in 0..n
    <3>1. n = p + rice + 1
      BY <1>8
    <3>2. n \in 0..32 /\ rice \in 0..28 /\ k = p + rice
      OBVIOUS
    <3> QED BY ONLY <1>2, <3>1, <3>2
  <2>4. j \in Nat /\ j < q /\ c = j * K + low
    <3>1. j \in Nat /\ j < q
      BY <1>4, <2>1, <2>2 DEF q
    <3> QED BY <3>1 DEF K, q
  <2>5. B = q * K
    <3>1. p \in 0..32 /\ p + rice <= 32
      <4>1. k = p + rice
        OBVIOUS
      <4> QED BY ONLY <1>2, <2>3, <4>1
    <3> QED BY <1>1, <3>1, PowerSum DEF q, K
  <2> HIDE DEF k, j, B
  <2>6. c < B /\ B \in Nat \ {0}
    <3>1. j * K + K <= q * K /\ j * K \in Nat /\ q * K \in Nat \ {0}
      BY <1>4, <2>4, TimesStrict, TimesMonotonic, TimesPositive
    <3>2. low < K
      BY DEF K
    <3> DEFINE g == j * K
               h == q * K
    <3>3. g + K <= h /\ g \in Nat /\ h \in Nat \ {0} /\ c = g + low /\ B = h
      BY <2>4, <2>5, <3>1
    <3> HIDE DEF g, h
    <3> QED BY <1>4, <3>2, <3>3
  <2>7. c \div B = 0 /\ c % B = c
    <3>1. c = 0 * B + c
      BY <2>6
    <3>2. c \in Nat /\ 0 \in Nat
      OBVIOUS
    <3> QED BY ONLY <2>6, <3>1, <3>2, DivUnique
  <2>8. PICK w \in Interval : Bypass(z, 0, 1, w) /\ Bypass(w, c, k, y)
    <3>1. \E w \in Interval : Bypass(z, c \div Pow2(k), n - k, w) /\ Bypass(w, c % Pow2(k), k, y)
      BY <2>3, BypassSplit
    <3> QED BY <2>3, <2>7, <3>1 DEF B
  <2>9. In(t, w)
    BY <1>t, <2>3, <2>8, BypassIn
  <2>10. n1 < top /\ n1 # top
    BY <1>1, <1>3, <2>1 
  <2>11. Ends(z, w, n1, top)
    BY <2>8, <2>10 DEF Ends
  <2>12. Follows(k, n1, rice, cutoff, dynRange, top)
    <3>1. RemLength(n1, rice, cutoff, dynRange, top) = rice + n1 - cutoff
      BY <1>3, <2>10 DEF RemLength
    <3> QED BY <1>3, <3>1 DEF k, Follows
  <2>13. k \in 0..32 /\ c \in Nat /\ w \in Interval /\ Bypass(w, c, k, y) /\ In(t, w)
    BY <2>3, <2>8, <2>9
  <2>14. /\ GetRemAbs(s, d, rice, cutoff, dynRange)[1] = RemOffset(n1, rice, cutoff) + c
         /\ Stands(s, P, W, t, GetRemAbs(s, d, rice, cutoff, dynRange)[2], y)
    BY ONLY <1>s, <1>d, <2>11, <2>12, <2>13, PrefixedRead
  <2> QED BY <1>5, <2>14 DEF RemBack
<1> QED BY <1>7, <1>8

\* decodeRemAbsEP gives the remainder that encodeRemAbsEP was given.
LEMMA RemRead ==
  ASSUME NEW s, NEW P, NEW W, NEW t, Stream(s, P, W, t), NEW d, NEW x, Stands(s, P, W, t, d, x),
         NEW r \in Remainders, NEW z \in Interval, NEW y \in Interval,
         Bypass(x, RemAbs(r)[1][1], RemAbs(r)[1][2], z),
         Bypass(z, RemAbs(r)[2][1], RemAbs(r)[2][2], y), In(t, y)
  PROVE  RemBack(s, P, W, t, d, r[2], r[3], r[4], r[1], y)
<1> DEFINE b == r[1]
           rice == r[2]
           cutoff == r[3]
           dynRange == r[4]
           K == Pow2(rice)
           unary == b \div K
           low == b % K
           max == 32 - cutoff - dynRange
           b1 == RemAbs(r)[1][1]
           n1 == RemAbs(r)[1][2]
           b2 == RemAbs(r)[2][1]
           n2 == RemAbs(r)[2][2]
<1>1. /\ b \in Nat /\ rice \in 0..28 /\ cutoff \in 0..17 /\ dynRange \in 15..32
      /\ cutoff + dynRange <= 32
  <2>1. r \in Nat \X (0..28) \X (0..17) \X (15..32) /\ r[3] + r[4] <= 31
    BY CabacAssumption
  <2> QED BY <2>1
<1>2. Bypass(x, b1, n1, z) /\ Bypass(z, b2, n2, y)
  OBVIOUS
<1>3. b1 \in Nat /\ n1 \in 0..32 /\ b2 \in Nat /\ n2 \in 0..32
  BY RemainderPieces
<1>4. unary < cutoff => b1 = Pow2(unary + 1) - 2 /\ n1 = unary + 1 /\ b2 = low /\ n2 = rice
  BY DEF RemAbs
<1>5. ~(unary < cutoff) =>
        LET p == PrefixLength(unary - cutoff, max)
        IN /\ b1 = Pow2(p + cutoff) - 1 /\ n1 = p + cutoff
           /\ b2 = (unary - cutoff - (Pow2(p) - 1)) * K + low
           /\ n2 = IF unary - cutoff >= Pow2(max) - 1 THEN dynRange ELSE p + rice + 1
  BY DEF RemAbs
<1> HIDE DEF b, rice, cutoff, dynRange, b1, n1, b2, n2
<1>6. K \in Nat \ {0}
  <2>1. rice \in 0..32
    BY <1>1
  <2> QED BY <2>1, PowerTyped
<1>7. unary \in Nat /\ low \in Nat /\ low < K /\ b = unary * K + low
  BY <1>1, <1>6, DivSplit
<1> HIDE DEF unary, low
<1>s. Stream(s, P, W, t) /\ Stands(s, P, W, t, d, x)
  OBVIOUS
<1>y. z \in Interval /\ y \in Interval /\ In(t, y)
  OBVIOUS
<1>8. CASE unary < cutoff
  <2>1. b1 = Pow2(unary + 1) - 2 /\ Bypass(x, b1, unary + 1, z) /\ Bypass(z, low, rice, y)
    BY <1>2, <1>4, <1>8
  <2>2. b = unary * Pow2(rice) + low
    BY <1>7 DEF K
  <2> HIDE DEF K
  <2>3. RemBack(s, P, W, t, d, rice, cutoff, dynRange, b, y)
    BY ONLY <1>s, <1>y, <1>1, <1>7, <1>8, <2>1, <2>2, UnaryRead, Zenon
  <2> QED BY <2>3 DEF b, rice, cutoff, dynRange
<1>9. CASE ~(unary < cutoff)
  <2> DEFINE code == unary - cutoff
             p == PrefixLength(code, max)
  <2>1. /\ b1 = Pow2(n1) - 1 /\ n1 = p + cutoff
        /\ b2 = (code - (Pow2(p) - 1)) * K + low
        /\ n2 = IF code >= Pow2(max) - 1 THEN dynRange ELSE p + rice + 1
    BY <1>5, <1>9
  <2>2. code \in Nat /\ code + cutoff = unary
    BY <1>1, <1>7, <1>9
  <2> HIDE DEF code
  <2>3. Ones(x, n1, z)
    BY <1>2, <2>1 DEF Ones
  <2>4. low < Pow2(rice) /\ b = (code + cutoff) * Pow2(rice) + low
    BY <1>7, <2>2 DEF K
  <2>5. b2 = (code - (Pow2(p) - 1)) * Pow2(rice) + low
    BY <2>1 DEF K
  <2>6. max = 32 - cutoff - dynRange /\ p = PrefixLength(code, max)
    OBVIOUS
  <2> HIDE DEF K, p, max
  <2>7. n1 = p + cutoff /\ n2 = IF code >= Pow2(max) - 1 THEN dynRange ELSE p + rice + 1
    BY <2>1
  <2>8. RemBack(s, P, W, t, d, rice, cutoff, dynRange, b, y)
    BY ONLY <1>s, <1>y, <1>1, <1>2, <1>3, <1>7, <2>2, <2>3, <2>4, <2>5, <2>6, <2>7, GolombRead, Zenon
  <2> QED BY <2>8 DEF b, rice, cutoff, dynRange
<1> QED BY <1>8, <1>9

(* --------------------------- where the decoder starts --------------------------- *)

\* BinDecoderBase::start stands on the whole interval.
LEMMA StartStands ==
  ASSUME NEW s, NEW P, NEW W, NEW t, Stream(s, P, W, t),
         NEW x \in Interval, x.range = 510, x.pos = 0, x.wt = W[2], In(t, x)
  PROVE  Stands(s, P, W, t, StartDecoder(s), x)
<1> DEFINE d == StartDecoder(s)
           v == 256 * ByteAt(s, 1) + ByteAt(s, 2)
           K == Len(s)
<1>1. s \in Seq(Byte) /\ K >= 2 /\ K \in Nat /\ P[0] = 0 /\ \A j \in 1..K : P[j] = 256 * P[j - 1] + s[j]
  BY DEF Stream, Reads
<1>2. 1 \in 1..K /\ 2 \in 1..K /\ 1 - 1 = 0 /\ 2 - 1 = 1 /\ 2 \in 0..K /\ 2 \in 2..K
  BY <1>1
<1>3. s[1] \in 0..255 /\ s[2] \in 0..255 /\ 1 \in DOMAIN s /\ 2 \in DOMAIN s
  BY <1>1, <1>2 DEF Byte
<1>4. ByteAt(s, 1) = s[1] /\ ByteAt(s, 2) = s[2]
  BY <1>3 DEF ByteAt
<1>5. v \in Nat /\ v = P[2]
  <2>1. P[1] = 256 * 0 + s[1] /\ P[2] = 256 * P[1] + s[2]
    BY <1>1, <1>2
  <2> DEFINE a == s[1]
             b == s[2]
             p1 == P[1]
             p2 == P[2]
  <2>2. a \in 0..255 /\ b \in 0..255 /\ v = 256 * a + b /\ p1 = 256 * 0 + a /\ p2 = 256 * p1 + b
    BY <1>3, <1>4, <2>1
  <2> HIDE DEF a, b, p1, p2, v
  <2>3. v \in Nat /\ v = p2
    BY ONLY <2>2
  <2> QED BY <2>3 DEF p2
<1>6. d.value = v /\ d.range = 510 /\ d.bitsNeeded = -8 /\ d.idx = 3 /\ d \in DecoderType
  <2>1. 510 \in Range9 /\ -8 \in -8..-1 /\ 3 \in Nat \ {0}
    BY DEF Range9
  <2> HIDE DEF v
  <2>2. d = [value |-> v, range |-> 510, bitsNeeded |-> -8, idx |-> 3]
    BY DEF StartDecoder, v
  <2> HIDE DEF d
  <2> QED BY <1>5, <2>1, <2>2 DEF DecoderType
<1> HIDE DEF v, d
<1>7. 8 + d.bitsNeeded = 0 /\ d.idx - 1 = 2
  BY <1>6
<1>8. Register(s, P, W, v, 0, 2, 0, W[2], v)
  <2>0. Stream(s, P, W, t)
    OBVIOUS
  <2>1. W[2] \in Nat /\ P[2] \in Nat /\ Pow2(0) = 1
    <3>1. \A j \in 0..Len(s) : W[j] \in Nat /\ P[j] \in Nat
      BY ONLY <2>0, StreamBound
    <3>2. Pow2(0) = 1
      BY ONLY Powers
    <3> QED BY <1>2, <3>1, <3>2
  <2> DEFINE w == W[2]
             p == P[2]
  <2>2. w \in Nat /\ p \in Nat /\ v = p
    BY <1>5, <2>1
  <2> HIDE DEF w, p
  <2>3. v = v * 1 /\ w = w * 1 /\ 0 + v * w = p * w
    BY <2>2
  <2> QED BY <1>5, <2>1, <2>3 DEF Register, w, p
<1>9. Holds(s, P, W, d, x.pos, x.wt)
  <2>1. Registers(s, P, W, v, 0, 2, 0, W[2])
    BY <1>8 DEF Registers
  <2> QED BY <1>2, <1>6, <1>7, <2>1 DEF Holds
<1>10. Stands(s, P, W, t, d, x)
  BY <1>6, <1>9 DEF Stands
<1> QED BY <1>10 DEF d

(* ---------------------------- where the decoder ends ---------------------------- *)

\* A byte before the last one weighs at least 256 of its steps.
LEMMA WeightsFall ==
  ASSUME NEW W, NEW K \in Nat, Weights(W, K), NEW j \in 0..K, j # K
  PROVE  W[j] >= 32768 /\ W[j] \in Nat
<1>1. W \in [0..K -> Nat] /\ W[K] = 128 /\ \A i \in 1..K : W[i - 1] = 256 * W[i]
  BY DEF Weights
<1> DEFINE S == {i \in Nat : i + 1 <= K => W[K - (i + 1)] >= 32768}
<1>2. 0 \in S
  <2> SUFFICES ASSUME 0 + 1 <= K PROVE W[K - (0 + 1)] >= 32768
    OBVIOUS
  <2>1. K \in 1..K /\ K - (0 + 1) = K - 1
    OBVIOUS
  <2> QED BY <1>1, <2>1
<1>3. ASSUME NEW i \in Nat, i \in S PROVE i + 1 \in S
  <2> SUFFICES ASSUME i + 1 + 1 <= K PROVE W[K - (i + 1 + 1)] >= 32768
    OBVIOUS
  <2>1. K - (i + 1) \in 1..K /\ (K - (i + 1)) - 1 = K - (i + 1 + 1) /\ i + 1 <= K
    OBVIOUS
  <2>2. W[K - (i + 1)] >= 32768 /\ W[K - (i + 1)] \in Nat
    BY <1>1, <1>3, <2>1
  <2>3. W[K - (i + 1 + 1)] = 256 * W[K - (i + 1)]
    BY <1>1, <2>1
  <2> QED BY <2>2, <2>3
<1>4. Nat \subseteq S
  <2> HIDE DEF S
  <2> QED BY <1>2, <1>3, SetInduction
<1>5. K - j - 1 \in Nat /\ (K - j - 1) + 1 <= K /\ K - ((K - j - 1) + 1) = j
  OBVIOUS
<1>6. W[K - ((K - j - 1) + 1)] >= 32768
  BY <1>4, <1>5
<1> QED BY <1>1, <1>5, <1>6

\* The stop bit comes to the top of the last byte.
LEMMA StopBit ==
  ASSUME NEW pad \in 0..7, NEW q \in 0..7, NEW before \in Nat, NEW byte \in Nat, NEW u \in Nat,
         Pow2(pad) * Pow2(q) = 128, 256 * before + byte = (2 * u + 1) * Pow2(pad)
  PROVE  (byte * Pow2(q)) % 256 = 128
<1> DEFINE a == Pow2(pad)
           c == Pow2(q)
<1>1. a \in Nat \ {0} /\ c \in Nat \ {0} /\ a * c = 128
  <2>1. pad \in 0..32 /\ q \in 0..32
    OBVIOUS
  <2> QED BY <2>1, PowerTyped
<1> HIDE DEF a, c
<1>2. 256 * before + byte = (2 * u + 1) * a
  BY DEF a
<1>3. (256 * before + byte) * c = 256 * (before * c) + byte * c /\ before * c \in Nat /\ byte * c \in Nat
  BY <1>1
<1>4. ((2 * u + 1) * a) * c = (2 * u + 1) * (a * c)
  BY <1>1
<1>5. 256 * (before * c) + byte * c = 256 * u + 128
  BY <1>1, <1>2, <1>3, <1>4
<1> DEFINE g == before * c
           h == byte * c
<1>6. g \in Nat /\ h \in Nat /\ 256 * g + h = 256 * u + 128
  BY <1>3, <1>5
<1> HIDE DEF g, h
<1>7. h % 256 = 128
  <2>1. h = 256 * (u - g) + 128 /\ u - g \in Int
    BY <1>6
  <2> DEFINE k == u - g
  <2>2. k \in Int /\ h = 256 * k + 128
    BY <2>1
  <2> HIDE DEF k
  <2> QED BY <1>6, <2>2
<1> QED BY <1>7 DEF h, c

\* The decoder that has read the terminating bin has read the last byte, and the
\* stop bit is the next bit.
LEMMA StopsAtEnd ==
  ASSUME NEW s, NEW P, NEW W, NEW t, Stream(s, P, W, t), NEW d, NEW x, Stands(s, P, W, t, d, x),
         NEW pad, StopsIn(s, P, W, t, x, pad)
  PROVE  d.idx = Len(s) + 1 /\ (s[d.idx - 1] * Pow2(8 + d.bitsNeeded)) % 256 = 128
<1> DEFINE K == Len(s)
<1>1. d \in DecoderType /\ Holds(s, P, W, d, x.pos, x.wt) /\ d.idx \in Nat
  BY DecoderFields DEF Stands
<1>2. PICK q \in 0..7, j \in 0..K, v \in Nat :
           /\ v = d.value /\ q = 8 + d.bitsNeeded /\ j = d.idx - 1 /\ j \in 2..K
           /\ Registers(s, P, W, v, q, j, x.pos, x.wt)
  BY <1>1, HoldsPlace
<1>q. q \in 0..7 /\ q = 8 + d.bitsNeeded
  BY <1>2
<1>j. j \in 0..K /\ j >= 2 /\ d.idx - 1 = j
  BY <1>2
<1>3. W[j] = x.wt * Pow2(q)
  BY <1>2 DEF Registers, Register
<1>4. pad \in 0..7 /\ x.wt = Pow2(pad)
  BY DEF StopsIn
<1>5. PICK u \in Nat : P[K] = (2 * u + 1) * Pow2(pad)
  BY DEF StopsIn
<1>6. s \in Seq(Byte) /\ K \in Nat /\ Weights(W, K) /\ W[K] = 128 /\ P \in [Nat -> Nat]
      /\ \A i \in 1..K : P[i] = 256 * P[i - 1] + s[i]
  <2>1. s \in Seq(Byte) /\ Weights(W, K) /\ Reads(P, s, K)
    BY DEF Stream
  <2>2. K \in Nat
    BY <2>1
  <2> HIDE DEF K
  <2>3. W[K] = 128
    BY ONLY <2>1 DEF Weights
  <2>4. P \in [Nat -> Nat] /\ \A i \in 1..K : P[i] = 256 * P[i - 1] + s[i]
    BY ONLY <2>1 DEF Reads
  <2> QED BY ONLY <2>1, <2>2, <2>3, <2>4
<1> HIDE DEF K
<1>r. q \in 0..7 /\ pad \in 0..7
  BY <1>4
<1>7. Pow2(pad) * Pow2(q) = Pow2(pad + q) /\ Pow2(pad + q) < 32768 /\ Pow2(pad + q) \in Nat
  <2>1. pad \in 0..32 /\ q \in 0..32 /\ pad + q <= 32 /\ pad + q \in 0..14
    BY ONLY <1>r
  <2>2. Pow2(pad) * Pow2(q) = Pow2(pad + q)
    BY ONLY <2>1, PowerSum
  <2>3. \A i \in 0..14 : Pow2(i) < 32768 /\ Pow2(i) \in Nat
    BY ONLY Powers
  <2> QED BY ONLY <2>1, <2>2, <2>3
<1>w. W[j] = Pow2(pad + q)
  BY ONLY <1>3, <1>4, <1>7
<1>8. j = K
  <2> SUFFICES ASSUME j # K PROVE FALSE
    OBVIOUS
  <2>0. j # K
    OBVIOUS
  <2>1. W[j] >= 32768 /\ W[j] \in Nat
    BY ONLY <1>j, <1>6, <2>0, WeightsFall
  <2> DEFINE w == W[j]
  <2>5. w \in Nat /\ w < 32768 /\ w >= 32768
    BY <1>7, <1>w, <2>1
  <2> HIDE DEF w
  <2> QED BY ONLY <2>5
<1>9. d.idx = K + 1
  <2> DEFINE i == d.idx
  <2>1. i \in Nat /\ i - 1 = K
    BY <1>1, <1>j, <1>8
  <2> HIDE DEF i
  <2>2. i = K + 1
    BY ONLY <1>6, <2>1
  <2> QED BY <2>2 DEF i
<1>10. Pow2(pad) * Pow2(q) = 128
  <2>1. W[K] = 128 /\ W[K] = Pow2(pad + q)
    BY <1>w, <1>6, <1>8
  <2>2. Pow2(pad) * Pow2(q) = Pow2(pad + q)
    BY <1>7
  <2> QED BY ONLY <2>1, <2>2
<1>11. K \in 1..K /\ K - 1 \in Nat
  BY ONLY <1>6, <1>j, <1>8
<1>12. P[K] = 256 * P[K - 1] + s[K] /\ P[K - 1] \in Nat /\ s[K] \in Nat
  <2>1. s[K] \in Byte
    BY ONLY <1>6, <1>11 DEF K
  <2>2. \A b \in Byte : b \in Nat
    BY ONLY DEF Byte
  <2>3. s[K] \in Nat
    BY ONLY <2>1, <2>2
  <2> QED BY ONLY <1>6, <1>11, <2>3
<1> DEFINE before == P[K - 1]
           byte == s[K]
<1>13. before \in Nat /\ byte \in Nat /\ 256 * before + byte = (2 * u + 1) * Pow2(pad)
  BY <1>5, <1>12
<1> HIDE DEF before, byte
<1>u. u \in Nat
  OBVIOUS
<1>14. (byte * Pow2(q)) % 256 = 128
  BY ONLY <1>r, <1>10, <1>13, <1>u, StopBit
<1>15. d.idx = Len(s) + 1
  BY <1>9 DEF K
<1>16. s[d.idx - 1] = byte
  BY <1>j, <1>8 DEF byte
<1>17. (s[d.idx - 1] * Pow2(8 + d.bitsNeeded)) % 256 = 128
  BY <1>q, <1>14, <1>16
<1> QED BY <1>15, <1>17

(* ------------------------------- the whole message ------------------------------- *)

\* The bytes s are the symbols, closed by a terminating bin: T is their trace, t the
\* number of the bytes in the last interval.
Message(s, symbols, T, total, P, W, t, pad) ==
  /\ symbols \in Seq(Symbols) /\ total \in Nat \ {0}
  /\ Traced(T, symbols, total)
  /\ Stream(s, P, W, t) /\ W[2] = total
  /\ StopsIn(s, P, W, t, T[Len(symbols)], pad)

\* What the encoder has written when the sub-stream is closed is a message.
LEMMA MessageSent ==
  ASSUME NEW e, NEW ctx, NEW symbols \in Seq(Symbols), Wrote(e, ctx, symbols)
  PROVE  \E T, total, P, W, t, pad : Message(Finish(PutBinTrm(e, 1)), symbols, T, total, P, W, t, pad)
<1> DEFINE L == Len(symbols)
           s == Finish(PutBinTrm(e, 1))
<1>0. L \in Nat /\ L \in 0..L
  OBVIOUS
<1>1. PICK T, V, total : Traced(T, symbols, total) /\ Placed(e, V, total, T[L])
  BY DEF Wrote
<1>2. total \in Nat \ {0}
  BY <1>1 DEF Placed, Stood
<1> HIDE DEF s
<1>3. PICK P, W, t, pad : /\ Stream(s, P, W, t)
                          /\ W[2] = total * Pow2(pad)
                          /\ StopsIn(s, P, W, t, Scaled(T[L], Pow2(pad)), pad)
  BY <1>1, StreamEnds DEF s
<1> DEFINE q == Pow2(pad)
<1>4. q \in Nat \ {0}
  <2>1. pad \in 0..7
    BY <1>3 DEF StopsIn
  <2>2. pad \in 0..32
    BY ONLY <2>1
  <2> QED BY <2>2, PowerTyped
<1> HIDE DEF q
<1>5. total * q \in Nat \ {0}
  BY <1>2, <1>4, TimesPositive
<1> DEFINE T1 == ScaledTrace(T, L, q)
<1>6. Traced(T1, symbols, total * q) /\ T1[L] = Scaled(T[L], q)
  <2>1. Traced(T1, symbols, total * q)
    BY <1>0, <1>1, <1>2, <1>4, TraceScaled
  <2> QED BY <1>0, <2>1 DEF ScaledTrace
<1> HIDE DEF T1
<1>7. Message(s, symbols, T1, total * q, P, W, t, pad)
  BY <1>3, <1>5, <1>6 DEF Message, q
<1>8. \E T0, total0, P0, W0, t0, pad0 : Message(s, symbols, T0, total0, P0, W0, t0, pad0)
  BY ONLY <1>7
<1> QED BY <1>8 DEF s

\* Its number lies in the interval of every prefix.
LEMMA MessageHolds ==
  ASSUME NEW s, NEW symbols, NEW T, NEW total, NEW P, NEW W, NEW t, NEW pad,
         Message(s, symbols, T, total, P, W, t, pad), NEW n \in 0..Len(symbols)
  PROVE  T[n] \in Interval /\ In(t, T[n])
<1> DEFINE L == Len(symbols)
<1>1. symbols \in Seq(Symbols) /\ Traced(T, symbols, total) /\ Stream(s, P, W, t)
      /\ StopsIn(s, P, W, t, T[L], pad)
  BY DEF Message
<1>2. L \in Nat /\ L \in 0..L
  BY <1>1
<1>3. (\A i \in 0..L : T[i] \in Interval) /\ Nested(T[L], T[n])
  BY <1>1 DEF Traced
<1>4. t \in Nat
  <2>1. 0 \in 0..Len(s)
    BY <1>1 DEF Stream
  <2> QED BY <1>1, <2>1, StreamBound
<1>5. In(t, T[L])
  BY <1>1 DEF StopsIn
<1> QED BY <1>2, <1>3, <1>4, <1>5, InNested

\* The decoder starts on the first one.
LEMMA MessageStart ==
  ASSUME NEW s, NEW symbols, NEW T, NEW total, NEW P, NEW W, NEW t, NEW pad,
         Message(s, symbols, T, total, P, W, t, pad)
  PROVE  Stands(s, P, W, t, StartDecoder(s), T[0]) /\ T[0].ctx = [c \in Ctx |-> InitModel(c)]
<1>1. symbols \in Seq(Symbols) /\ Traced(T, symbols, total) /\ Stream(s, P, W, t) /\ W[2] = total
  BY DEF Message
<1>2. 0 \in 0..Len(symbols)
  BY <1>1
<1>3. T[0] \in Interval /\ In(t, T[0])
  BY <1>2, MessageHolds
<1>4. T[0].range = 510 /\ T[0].pos = 0 /\ T[0].wt = W[2] /\ T[0].ctx = [c \in Ctx |-> InitModel(c)]
  BY <1>1 DEF Traced, FirstInterval
<1> DEFINE x == T[0]
<1>5. x \in Interval /\ In(t, x) /\ x.range = 510 /\ x.pos = 0 /\ x.wt = W[2]
  BY <1>3, <1>4
<1> HIDE DEF x
<1>6. Stands(s, P, W, t, StartDecoder(s), x)
  BY ONLY <1>1, <1>5, StartStands
<1> QED BY <1>4, <1>6 DEF x

\* The values g have been read.
Midway(s, symbols, T, P, W, t, d, ctx, g) ==
  /\ g \in Seq(Nat) /\ Len(g) <= Len(symbols)
  /\ \A i \in 1..Len(g) : g[i] = symbols[i].val
  /\ Stands(s, P, W, t, d, T[Len(g)])
  /\ ctx = T[Len(g)].ctx

\* The symbol after g, where it leads from and to.
LEMMA MessageMoves ==
  ASSUME NEW s, NEW symbols, NEW T, NEW total, NEW P, NEW W, NEW t, NEW pad,
         Message(s, symbols, T, total, P, W, t, pad),
         NEW d, NEW ctx, NEW g, Midway(s, symbols, T, P, W, t, d, ctx, g), Len(g) < Len(symbols)
  PROVE  /\ Stream(s, P, W, t) /\ Stands(s, P, W, t, d, T[Len(g)]) /\ ctx = T[Len(g)].ctx
         /\ T[Len(g) + 1] \in Interval /\ In(t, T[Len(g) + 1])
         /\ Moves(symbols[Len(g) + 1], T[Len(g)], T[Len(g) + 1])
<1> DEFINE n == Len(g)
           L == Len(symbols)
<1>1. g \in Seq(Nat) /\ symbols \in Seq(Symbols) /\ Traced(T, symbols, total) /\ Stream(s, P, W, t)
      /\ Stands(s, P, W, t, d, T[n]) /\ ctx = T[n].ctx
  BY DEF Message, Midway
<1>2. n \in Nat /\ L \in Nat /\ n < L
  BY <1>1
<1> HIDE DEF n, L
<1>3. n + 1 \in 1..L /\ n + 1 \in 0..L /\ (n + 1) - 1 = n
  BY <1>2
<1>4. Moves(symbols[n + 1], T[n], T[n + 1])
  BY <1>1, <1>3 DEF Traced, L
<1>5. T[n + 1] \in Interval /\ In(t, T[n + 1])
  BY <1>3, MessageHolds DEF L
<1> QED BY <1>1, <1>4, <1>5 DEF n

\* One more is read.
LEMMA MidwayOn ==
  ASSUME NEW s, NEW symbols, NEW T, NEW P, NEW W, NEW t, symbols \in Seq(Symbols),
         NEW d, NEW ctx, NEW g, Midway(s, symbols, T, P, W, t, d, ctx, g), Len(g) < Len(symbols),
         NEW v \in Nat, v = symbols[Len(g) + 1].val,
         NEW d2, Stands(s, P, W, t, d2, T[Len(g) + 1]), NEW ctx2, ctx2 = T[Len(g) + 1].ctx
  PROVE  Midway(s, symbols, T, P, W, t, d2, ctx2, Append(g, v))
<1> DEFINE n == Len(g)
           h == Append(g, v)
<1>1. g \in Seq(Nat) /\ \A i \in 1..n : g[i] = symbols[i].val
  BY DEF Midway
<1>2. /\ h \in Seq(Nat) /\ Len(h) = n + 1 /\ n \in Nat /\ Len(symbols) \in Nat
      /\ (\A i \in 1..n : h[i] = g[i]) /\ h[n + 1] = v
  BY <1>1
<1> HIDE DEF h
<1>3. ASSUME NEW i \in 1..n + 1 PROVE h[i] = symbols[i].val
  <2>1. CASE i = n + 1
    BY <1>2, <2>1
  <2>2. CASE i # n + 1
    <3>1. i \in 1..n
      BY <1>2, <2>2
    <3> QED BY <1>1, <1>2, <3>1
  <2> QED BY <2>1, <2>2
<1>4. n + 1 <= Len(symbols)
  BY <1>2
<1>5. Midway(s, symbols, T, P, W, t, d2, ctx2, h)
  BY <1>2, <1>3, <1>4 DEF Midway
<1> QED BY <1>5 DEF h

(* ------------------------ every kind of symbol is read back ------------------------ *)

\* What a reader gave is the symbol, and it stands behind it.
Gives(s, P, W, t, read, symbol, y) ==
  symbol.val \in Nat /\ read[1] = symbol.val /\ Stands(s, P, W, t, read[2], y)

\* decodeBin gives the next symbol, when that is a context coded bin.
LEMMA BinGiven ==
  ASSUME NEW s, NEW P, NEW W, NEW t, Stream(s, P, W, t), NEW d, NEW x, Stands(s, P, W, t, d, x),
         NEW y \in Interval, In(t, y), NEW symbol, symbol.op = "bin", Moves(symbol, x, y)
  PROVE  /\ Gives(s, P, W, t, GetBin(s, d, x.ctx[symbol.arg]), symbol, y)
         /\ y.ctx = [x.ctx EXCEPT ![symbol.arg] = Update(@, symbol.arg, symbol.val)]
<1>1. BinMove(symbol, x, y)
  BY DEF Moves, BinMove, EPMove, BinsMove, RemMove, TrmMove
<1> DEFINE c == symbol.arg
           b == symbol.val
<1>2. /\ c \in Ctx /\ b \in 0..1 /\ InCell(x, BinCell(x.ctx[c], x.range, b), y)
      /\ y.ctx = [x.ctx EXCEPT ![c] = Update(@, c, b)]
  BY <1>1 DEF BinMove
<1> HIDE DEF c, b
<1>3. x.ctx[c] \in ModelType
  <2>1. x \in Interval
    BY DEF Stands
  <2> QED BY <1>2, <2>1, IntervalTyped
<1> DEFINE m == x.ctx[c]
<1>4. m \in ModelType /\ InCell(x, BinCell(m, x.range, b), y)
  BY <1>2, <1>3
<1> HIDE DEF m
<1>5. GetBin(s, d, m)[1] = b /\ Stands(s, P, W, t, GetBin(s, d, m)[2], y)
  BY <1>2, <1>4, BinRead
<1>6. b \in Nat
  BY <1>2
<1>7. Gives(s, P, W, t, GetBin(s, d, m), symbol, y)
  BY <1>5, <1>6 DEF Gives, b
<1> QED BY <1>2, <1>7 DEF m, c, b

\* decodeBinEP gives a bypass bin.
LEMMA EPGiven ==
  ASSUME NEW s, NEW P, NEW W, NEW t, Stream(s, P, W, t), NEW d, NEW x, Stands(s, P, W, t, d, x),
         NEW y \in Interval, In(t, y), NEW symbol, symbol.op = "ep", Moves(symbol, x, y)
  PROVE  Gives(s, P, W, t, GetBinEP(s, d), symbol, y) /\ y.ctx = x.ctx
<1>1. EPMove(symbol, x, y)
  BY DEF Moves, BinMove, EPMove, BinsMove, RemMove, TrmMove
<1> DEFINE b == symbol.val
<1>2. b \in 0..1 /\ Bypass(x, b, 1, y) /\ y.ctx = x.ctx
  BY <1>1 DEF EPMove, Bypass
<1> HIDE DEF b
<1>3. GetBinEP(s, d)[1] = b /\ Stands(s, P, W, t, GetBinEP(s, d)[2], y)
  BY <1>2, EPRead
<1>4. b \in Nat
  BY <1>2
<1> QED BY <1>2, <1>3, <1>4 DEF Gives, b

\* decodeBinsEP gives a bypass string.
LEMMA BinsGiven ==
  ASSUME NEW s, NEW P, NEW W, NEW t, Stream(s, P, W, t), NEW d, NEW x, Stands(s, P, W, t, d, x),
         NEW y \in Interval, In(t, y), NEW symbol, symbol.op = "eps", Moves(symbol, x, y)
  PROVE  Gives(s, P, W, t, GetBinsEP(s, d, symbol.arg), symbol, y) /\ y.ctx = x.ctx
<1>1. BinsMove(symbol, x, y)
  BY DEF Moves, BinMove, EPMove, BinsMove, RemMove, TrmMove
<1> DEFINE b == symbol.val
           n == symbol.arg
<1>2. b \in Nat /\ n \in 0..32 /\ Bypass(x, b, n, y) /\ y.ctx = x.ctx
  BY <1>1 DEF BinsMove, Bypass
<1> HIDE DEF b, n
<1>3. GetBinsEP(s, d, n)[1] = b /\ Stands(s, P, W, t, GetBinsEP(s, d, n)[2], y)
  BY <1>2, StringRead
<1> QED BY <1>2, <1>3 DEF Gives, b, n

\* decodeRemAbsEP gives a remainder.
LEMMA RemGiven ==
  ASSUME NEW s, NEW P, NEW W, NEW t, Stream(s, P, W, t), NEW d, NEW x, Stands(s, P, W, t, d, x),
         NEW y \in Interval, In(t, y), NEW symbol, symbol.op = "rem", Moves(symbol, x, y)
  PROVE  /\ Gives(s, P, W, t, GetRemAbs(s, d, symbol.arg[1], symbol.arg[2], symbol.arg[3]), symbol, y)
         /\ y.ctx = x.ctx
<1>1. RemMove(symbol, x, y)
  BY DEF Moves, BinMove, EPMove, BinsMove, RemMove, TrmMove
<1>2. PICK r \in Remainders, z \in Interval :
        /\ symbol.arg = <<r[2], r[3], r[4]>> /\ symbol.val = r[1]
        /\ Bypass(x, RemAbs(r)[1][1], RemAbs(r)[1][2], z)
        /\ Bypass(z, RemAbs(r)[2][1], RemAbs(r)[2][2], y)
  BY <1>1 DEF RemMove
<1>3. RemBack(s, P, W, t, d, r[2], r[3], r[4], r[1], y)
  BY <1>2, RemRead
<1>4. symbol.arg[1] = r[2] /\ symbol.arg[2] = r[3] /\ symbol.arg[3] = r[4] /\ symbol.val = r[1]
  BY <1>2
<1>5. r[1] \in Nat
  <2>1. r \in Nat \X (0..28) \X (0..17) \X (15..32)
    BY CabacAssumption
  <2> QED BY <2>1
<1>6. y.ctx = x.ctx
  BY <1>2 DEF Bypass
<1> QED BY <1>3, <1>4, <1>5, <1>6 DEF Gives, RemBack

\* decodeBinTrm gives 0 for a terminating bin that does not close the sub-stream.
LEMMA TrmGiven ==
  ASSUME NEW s, NEW P, NEW W, NEW t, Stream(s, P, W, t), NEW d, NEW x, Stands(s, P, W, t, d, x),
         NEW y \in Interval, In(t, y), NEW symbol, symbol.op = "trm", Moves(symbol, x, y)
  PROVE  /\ Gives(s, P, W, t, GetBinTrm(s, d), symbol, y)
         /\ GetBinTrm(s, d)[1] = 0 /\ y.ctx = x.ctx
<1>1. TrmMove(symbol, x, y)
  BY DEF Moves, BinMove, EPMove, BinsMove, RemMove, TrmMove
<1>2. symbol.val = 0 /\ InCell(x, TrmCell(x.range, 0), y) /\ y.ctx = x.ctx
  BY <1>1 DEF TrmMove
<1>3. GetBinTrm(s, d)[1] = 0 /\ Stands(s, P, W, t, GetBinTrm(s, d)[2], y)
  BY <1>2, TrmRead
<1> QED BY <1>2, <1>3 DEF Gives

(* ------------------------------ the whole sub-stream ------------------------------ *)

Closing == Sym("trm", 0, 1)

Decoding(symbols, T, total, P, W, t, pad) ==
  /\ coded = Append(symbols, Closing)
  /\ Message(enc.out, symbols, T, total, P, W, t, pad)
  /\ Midway(enc.out, symbols, T, P, W, t, dec, decCtx, got)

Encoding ==
  /\ Wrote(enc, encCtx, coded)
  /\ got = <<>>
  /\ decCtx = [c \in Ctx |-> InitModel(c)]

Done ==
  /\ got \in Seq(Nat) /\ Len(got) = Len(coded)
  /\ \A i \in 1..Len(coded) : got[i] = coded[i].val
  /\ dec.idx = Len(enc.out) + 1
  /\ (enc.out[dec.idx - 1] * Pow2(8 + dec.bitsNeeded)) % 256 = 128

\* The strengthening for the decoder: while it reads, the number of the bytes is in the
\* interval of every prefix of the message, and its registers stand on the interval of
\* what it has read.
CodecInv ==
  /\ phase \in {"encode", "decode", "done"}
  /\ phase = "encode" => Encoding
  /\ phase = "decode" => \E symbols, T, total, P, W, t, pad : Decoding(symbols, T, total, P, W, t, pad)
  /\ phase = "done" => Done

\* The symbol that comes next: one of the message, or the one that closes it.
LEMMA DecodingNext ==
  ASSUME NEW symbols, NEW T, NEW total, NEW P, NEW W, NEW t, NEW pad,
         Decoding(symbols, T, total, P, W, t, pad)
  PROVE  /\ Len(got) \in Nat /\ Len(symbols) \in Nat /\ Len(got) <= Len(symbols)
         /\ Len(coded) = Len(symbols) + 1
         /\ Len(got) < Len(symbols) => coded[Len(got) + 1] = symbols[Len(got) + 1]
         /\ Len(got) = Len(symbols) => coded[Len(got) + 1] = Closing
<1>1. symbols \in Seq(Symbols) /\ got \in Seq(Nat) /\ Len(got) <= Len(symbols)
      /\ coded = Append(symbols, Closing)
  BY DEF Decoding, Message, Midway
<1>2. Len(got) \in Nat /\ Len(symbols) \in Nat
  BY <1>1
<1> DEFINE n == Len(got)
           L == Len(symbols)
<1>3. Len(coded) = L + 1 /\ (\A i \in 1..L : coded[i] = symbols[i]) /\ coded[L + 1] = Closing
  BY <1>1
<1> HIDE DEF n, L
<1>4. n \in Nat /\ L \in Nat /\ n <= L
  BY <1>1, <1>2 DEF n, L
<1>5. n < L => n + 1 \in 1..L
  BY <1>4
<1>6. n < L => coded[n + 1] = symbols[n + 1]
  BY <1>3, <1>5
<1> QED BY <1>3, <1>4, <1>6 DEF n, L

\* A reader that gives the next symbol goes on.
LEMMA DecodedOn ==
  ASSUME NEW symbols, NEW T, NEW total, NEW P, NEW W, NEW t, NEW pad,
         Decoding(symbols, T, total, P, W, t, pad), Len(got) < Len(symbols),
         NEW read, Gives(enc.out, P, W, t, read, symbols[Len(got) + 1], T[Len(got) + 1]),
         Decoded(read), decCtx' = T[Len(got) + 1].ctx
  PROVE  Decoding(symbols, T, total, P, W, t, pad)'
<1> DEFINE s == enc.out
<1>1. enc' = enc /\ coded' = coded /\ got' = Append(got, read[1]) /\ dec' = read[2]
  BY DEF Decoded
<1>2. symbols \in Seq(Symbols) /\ Midway(s, symbols, T, P, W, t, dec, decCtx, got)
  BY DEF Decoding, Message
<1>3. read[1] \in Nat /\ read[1] = symbols[Len(got) + 1].val
      /\ Stands(s, P, W, t, read[2], T[Len(got) + 1])
  BY DEF Gives
<1> HIDE DEF s
<1>4. Midway(s, symbols, T, P, W, t, read[2], decCtx', Append(got, read[1]))
  BY <1>2, <1>3, MidwayOn
<1> QED BY <1>1, <1>4 DEF Decoding, s

\* decodeBin keeps the decoder on the message.
LEMMA BinDecoded ==
  ASSUME CodecInv, DecodeBin
  PROVE  CodecInv'
<1>1. phase = "decode" /\ coded[Len(got) + 1].op = "bin" /\ phase' = phase
  BY DEF DecodeBin, Coming
<1>2. PICK symbols, T, total, P, W, t, pad : Decoding(symbols, T, total, P, W, t, pad)
  BY <1>1 DEF CodecInv
<1> DEFINE n == Len(got)
           x == T[n]
           y == T[n + 1]
           symbol == symbols[n + 1]
           s == enc.out
           c == coded[n + 1].arg
           read == GetBin(s, dec, decCtx[c])
<1>3. Decoded(read) /\ decCtx' = [decCtx EXCEPT ![c] = Update(@, c, read[1])]
  BY DEF DecodeBin, Arg
<1>4. n < Len(symbols) /\ coded[n + 1] = symbol
  BY <1>1, <1>2, DecodingNext DEF Closing, Sym
<1>5. symbol.op = "bin" /\ symbol.arg = c
  BY <1>1, <1>4
<1>6. Message(s, symbols, T, total, P, W, t, pad) /\ Midway(s, symbols, T, P, W, t, dec, decCtx, got)
  BY <1>2 DEF Decoding
<1>7. /\ Stream(s, P, W, t) /\ Stands(s, P, W, t, dec, x) /\ decCtx = x.ctx
      /\ y \in Interval /\ In(t, y) /\ Moves(symbol, x, y)
  BY <1>4, <1>6, MessageMoves
<1> HIDE DEF x, y, symbol, s, c
<1>8. /\ Gives(s, P, W, t, GetBin(s, dec, x.ctx[symbol.arg]), symbol, y)
      /\ y.ctx = [x.ctx EXCEPT ![symbol.arg] = Update(@, symbol.arg, symbol.val)]
  BY <1>5, <1>7, BinGiven
<1>9. Gives(s, P, W, t, read, symbol, y)
  BY <1>5, <1>7, <1>8
<1>10. decCtx' = y.ctx
  <2>1. read[1] = symbol.val
    BY <1>9 DEF Gives
  <2> HIDE DEF read
  <2> QED BY <1>3, <1>5, <1>7, <1>8, <2>1
<1> HIDE DEF read
<1>11. Decoding(symbols, T, total, P, W, t, pad)'
  BY <1>2, <1>3, <1>4, <1>9, <1>10, DecodedOn DEF symbol, y, s
<1>12. phase' = "decode"
  BY <1>1
<1> QED BY <1>11, <1>12 DEF CodecInv

\* decodeBinEP keeps it there.
LEMMA EPDecoded ==
  ASSUME CodecInv, DecodeBinEP
  PROVE  CodecInv'
<1>1. phase = "decode" /\ coded[Len(got) + 1].op = "ep" /\ phase' = phase /\ decCtx' = decCtx
  BY DEF DecodeBinEP, Coming
<1>2. PICK symbols, T, total, P, W, t, pad : Decoding(symbols, T, total, P, W, t, pad)
  BY <1>1 DEF CodecInv
<1> DEFINE n == Len(got)
           x == T[n]
           y == T[n + 1]
           symbol == symbols[n + 1]
           s == enc.out
           read == GetBinEP(s, dec)
<1>3. Decoded(read)
  BY DEF DecodeBinEP
<1>4. n < Len(symbols) /\ coded[n + 1] = symbol
  BY <1>1, <1>2, DecodingNext DEF Closing, Sym
<1>5. symbol.op = "ep"
  BY <1>1, <1>4
<1>6. Message(s, symbols, T, total, P, W, t, pad) /\ Midway(s, symbols, T, P, W, t, dec, decCtx, got)
  BY <1>2 DEF Decoding
<1>7. /\ Stream(s, P, W, t) /\ Stands(s, P, W, t, dec, x) /\ decCtx = x.ctx
      /\ y \in Interval /\ In(t, y) /\ Moves(symbol, x, y)
  BY <1>4, <1>6, MessageMoves
<1> HIDE DEF x, y, symbol, s
<1>8. Gives(s, P, W, t, read, symbol, y) /\ y.ctx = x.ctx
  BY <1>5, <1>7, EPGiven
<1> HIDE DEF read
<1>9. decCtx' = y.ctx
  BY <1>1, <1>7, <1>8
<1>10. Decoding(symbols, T, total, P, W, t, pad)'
  BY <1>2, <1>3, <1>4, <1>8, <1>9, DecodedOn DEF symbol, y, s
<1>11. phase' = "decode"
  BY <1>1
<1> QED BY <1>10, <1>11 DEF CodecInv

\* decodeBinsEP keeps it there.
LEMMA BinsDecoded ==
  ASSUME CodecInv, DecodeBinsEP
  PROVE  CodecInv'
<1>1. phase = "decode" /\ coded[Len(got) + 1].op = "eps" /\ phase' = phase /\ decCtx' = decCtx
  BY DEF DecodeBinsEP, Coming
<1>2. PICK symbols, T, total, P, W, t, pad : Decoding(symbols, T, total, P, W, t, pad)
  BY <1>1 DEF CodecInv
<1> DEFINE n == Len(got)
           x == T[n]
           y == T[n + 1]
           symbol == symbols[n + 1]
           s == enc.out
           read == GetBinsEP(s, dec, coded[n + 1].arg)
<1>3. Decoded(read)
  BY DEF DecodeBinsEP, Arg
<1>4. n < Len(symbols) /\ coded[n + 1] = symbol
  BY <1>1, <1>2, DecodingNext DEF Closing, Sym
<1>5. symbol.op = "eps" /\ read = GetBinsEP(s, dec, symbol.arg)
  BY <1>1, <1>4
<1>6. Message(s, symbols, T, total, P, W, t, pad) /\ Midway(s, symbols, T, P, W, t, dec, decCtx, got)
  BY <1>2 DEF Decoding
<1>7. /\ Stream(s, P, W, t) /\ Stands(s, P, W, t, dec, x) /\ decCtx = x.ctx
      /\ y \in Interval /\ In(t, y) /\ Moves(symbol, x, y)
  BY <1>4, <1>6, MessageMoves
<1> HIDE DEF x, y, symbol, s, read
<1>8. Gives(s, P, W, t, read, symbol, y) /\ y.ctx = x.ctx
  BY <1>5, <1>7, BinsGiven
<1>9. decCtx' = y.ctx
  BY <1>1, <1>7, <1>8
<1>10. Decoding(symbols, T, total, P, W, t, pad)'
  BY <1>2, <1>3, <1>4, <1>8, <1>9, DecodedOn DEF symbol, y, s
<1>11. phase' = "decode"
  BY <1>1
<1> QED BY <1>10, <1>11 DEF CodecInv

\* decodeRemAbsEP keeps it there.
LEMMA RemDecoded ==
  ASSUME CodecInv, DecodeRemAbsEP
  PROVE  CodecInv'
<1>1. phase = "decode" /\ coded[Len(got) + 1].op = "rem" /\ phase' = phase /\ decCtx' = decCtx
  BY DEF DecodeRemAbsEP, Coming
<1>2. PICK symbols, T, total, P, W, t, pad : Decoding(symbols, T, total, P, W, t, pad)
  BY <1>1 DEF CodecInv
<1> DEFINE n == Len(got)
           x == T[n]
           y == T[n + 1]
           symbol == symbols[n + 1]
           s == enc.out
           c == coded[n + 1].arg
           read == GetRemAbs(s, dec, c[1], c[2], c[3])
<1>3. Decoded(read)
  BY DEF DecodeRemAbsEP, Arg
<1>4. n < Len(symbols) /\ coded[n + 1] = symbol
  BY <1>1, <1>2, DecodingNext DEF Closing, Sym
<1>5. symbol.op = "rem" /\ read = GetRemAbs(s, dec, symbol.arg[1], symbol.arg[2], symbol.arg[3])
  BY <1>1, <1>4
<1>6. Message(s, symbols, T, total, P, W, t, pad) /\ Midway(s, symbols, T, P, W, t, dec, decCtx, got)
  BY <1>2 DEF Decoding
<1>7. /\ Stream(s, P, W, t) /\ Stands(s, P, W, t, dec, x) /\ decCtx = x.ctx
      /\ y \in Interval /\ In(t, y) /\ Moves(symbol, x, y)
  BY <1>4, <1>6, MessageMoves
<1> HIDE DEF x, y, symbol, s, read, c
<1>8. Gives(s, P, W, t, read, symbol, y) /\ y.ctx = x.ctx
  BY <1>5, <1>7, RemGiven
<1>9. decCtx' = y.ctx
  BY <1>1, <1>7, <1>8
<1>10. Decoding(symbols, T, total, P, W, t, pad)'
  BY <1>2, <1>3, <1>4, <1>8, <1>9, DecodedOn DEF symbol, y, s
<1>11. phase' = "decode"
  BY <1>1
<1> QED BY <1>10, <1>11 DEF CodecInv

\* decodeBinTrm keeps it there, or reads the bin that closes the sub-stream and ends.
LEMMA TrmDecoded ==
  ASSUME CodecInv, TerminatingBit
  PROVE  CodecInv'
<1>1. phase = "decode" /\ coded[Len(got) + 1].op = "trm" /\ decCtx' = decCtx
  BY DEF TerminatingBit, Coming
<1>2. PICK symbols, T, total, P, W, t, pad : Decoding(symbols, T, total, P, W, t, pad)
  BY <1>1 DEF CodecInv
<1> DEFINE n == Len(got)
           x == T[n]
           y == T[n + 1]
           symbol == symbols[n + 1]
           s == enc.out
           read == GetBinTrm(s, dec)
<1>3. Decoded(read) /\ phase' = IF read[1] = 1 THEN "done" ELSE "decode"
  BY DEF TerminatingBit
<1>4. /\ n \in Nat /\ Len(symbols) \in Nat /\ n <= Len(symbols) /\ Len(coded) = Len(symbols) + 1
      /\ n < Len(symbols) => coded[n + 1] = symbol
      /\ n = Len(symbols) => coded[n + 1] = Closing
  BY <1>2, DecodingNext
<1>5. Message(s, symbols, T, total, P, W, t, pad) /\ Midway(s, symbols, T, P, W, t, dec, decCtx, got)
  BY <1>2 DEF Decoding
<1>6. CASE n < Len(symbols)
  <2>1. /\ Stream(s, P, W, t) /\ Stands(s, P, W, t, dec, x) /\ decCtx = x.ctx
        /\ y \in Interval /\ In(t, y) /\ Moves(symbol, x, y)
    BY <1>5, <1>6, MessageMoves
  <2>2. symbol.op = "trm"
    BY <1>1, <1>4, <1>6
  <2> HIDE DEF x, y, symbol, s
  <2>3. Gives(s, P, W, t, read, symbol, y) /\ read[1] = 0 /\ y.ctx = x.ctx
    BY <2>1, <2>2, TrmGiven
  <2> HIDE DEF read
  <2>4. decCtx' = y.ctx /\ phase' = "decode"
    BY <1>1, <1>3, <2>1, <2>3
  <2>5. Decoding(symbols, T, total, P, W, t, pad)'
    BY <1>2, <1>3, <1>6, <2>3, <2>4, DecodedOn DEF symbol, y, s
  <2> QED BY <2>4, <2>5 DEF CodecInv
<1>7. CASE n = Len(symbols)
  <2>1. /\ Stream(s, P, W, t) /\ Stands(s, P, W, t, dec, x) /\ StopsIn(s, P, W, t, x, pad)
        /\ symbols \in Seq(Symbols) /\ got \in Seq(Nat)
        /\ \A i \in 1..n : got[i] = symbols[i].val
    BY <1>5, <1>7 DEF Message, Midway
  <2> HIDE DEF x, s
  <2>2. read = <<1, [dec EXCEPT !.range = dec.range - 2]>>
    BY <2>1, LastRead
  <2>3. dec.idx = Len(s) + 1 /\ (s[dec.idx - 1] * Pow2(8 + dec.bitsNeeded)) % 256 = 128
    BY <2>1, StopsAtEnd
  <2> HIDE DEF read
  <2>4. read[1] = 1 /\ read[2] = [dec EXCEPT !.range = dec.range - 2]
    BY <2>2
  <2>5. phase' = "done" /\ enc' = enc /\ coded' = coded /\ got' = Append(got, 1)
        /\ dec' = [dec EXCEPT !.range = dec.range - 2]
    BY <1>3, <2>4 DEF Decoded
  <2>6. dec'.idx = dec.idx /\ dec'.bitsNeeded = dec.bitsNeeded
    <3>1. dec \in DecoderType
      BY <2>1 DEF Stands
    <3> DEFINE r == dec.range - 2
    <3> HIDE DEF r
    <3>2. [dec EXCEPT !.range = r].idx = dec.idx /\ [dec EXCEPT !.range = r].bitsNeeded = dec.bitsNeeded
      BY <3>1 DEF DecoderType
    <3> QED BY <2>5, <3>2 DEF r
  <2>7. Len(got') = Len(coded) /\ got' \in Seq(Nat) /\ (\A i \in 1..n : got'[i] = got[i]) /\ got'[n + 1] = 1
    BY <1>4, <1>7, <2>1, <2>5
  <2>8. (\A i \in 1..n : coded[i] = symbols[i]) /\ coded[n + 1] = Closing
    BY <1>2, <1>7, <2>1 DEF Decoding
  <2>9. Closing.val = 1
    BY DEF Closing, Sym
  <2>10. ASSUME NEW i \in 1..Len(coded) PROVE got'[i] = coded[i].val
    <3>1. CASE i = n + 1
      BY <2>7, <2>8, <2>9, <3>1
    <3>2. CASE i # n + 1
      <4>1. i \in 1..n
        <5> DEFINE L == Len(symbols)
        <5>1. L \in Nat /\ n = L /\ i \in 1..L + 1
          BY <1>4, <1>7
        <5> HIDE DEF L, n
        <5> QED BY <3>2, <5>1
      <4> QED BY <2>1, <2>7, <2>8, <4>1
    <3> QED BY <3>1, <3>2
  <2>11. Done'
    BY <2>3, <2>5, <2>6, <2>7, <2>10 DEF Done, s
  <2> QED BY <2>5, <2>11 DEF CodecInv
<1> QED BY <1>4, <1>6, <1>7

\* One more symbol is written.
LEMMA EncodedOn ==
  ASSUME CodecInv, CodedTyped, NEW symbol \in Symbols, NEW e, NEW ctx,
         Encoded(symbol, e), encCtx' = ctx, Writes(enc, encCtx, symbol, e, ctx)
  PROVE  CodecInv'
<1>1. phase = "encode" /\ enc' = e /\ coded' = Append(coded, symbol)
      /\ phase' = phase /\ got' = got /\ decCtx' = decCtx
  BY DEF Encoded
<1>2. Wrote(enc, encCtx, coded) /\ got = <<>> /\ decCtx = [c \in Ctx |-> InitModel(c)]
  BY <1>1 DEF CodecInv, Encoding
<1>3. coded \in Seq(Symbols)
  BY DEF CodedTyped
<1>4. Wrote(e, ctx, Append(coded, symbol))
  BY <1>2, <1>3, SymbolWritten
<1>5. Encoding'
  BY <1>1, <1>2, <1>4 DEF Encoding
<1>6. phase' = "encode"
  BY <1>1
<1> QED BY <1>5, <1>6 DEF CodecInv

\* end_of_slice() hands the decoder a message, of which it has read nothing.
LEMMA SliceEnded ==
  ASSUME CodecInv, CodedTyped, IInv, EndOfSlice
  PROVE  CodecInv'
<1> DEFINE e == PutBinTrm(enc, 1)
           s == Finish(e)
<1>1. /\ phase = "encode" /\ phase' = "decode" /\ coded' = Append(coded, Closing)
      /\ enc' = [e EXCEPT !.out = s] /\ dec' = StartDecoder(enc'.out)
      /\ decCtx' = decCtx /\ got' = got
  BY DEF EndOfSlice, Closing
<1>2. Wrote(enc, encCtx, coded) /\ got = <<>> /\ decCtx = [c \in Ctx |-> InitModel(c)]
  BY <1>1 DEF CodecInv, Encoding
<1>3. coded \in Seq(Symbols)
  BY DEF CodedTyped
<1>4. e \in EncoderType
  <2>1. 1 \in 0..1
    OBVIOUS
  <2> QED BY <2>1, PutBinTrmFits DEF IInv
<1>5. PICK T, total, P, W, t, pad : Message(s, coded, T, total, P, W, t, pad)
  BY <1>2, <1>3, MessageSent
<1> HIDE DEF e, s
<1>6. enc'.out = s
  BY <1>1, <1>4 DEF EncoderType
<1>7. Stands(s, P, W, t, StartDecoder(s), T[0]) /\ T[0].ctx = [c \in Ctx |-> InitModel(c)]
  BY <1>5, MessageStart, Zenon
<1>8. Midway(s, coded, T, P, W, t, StartDecoder(s), decCtx, <<>>)
  <2>1. <<>> \in Seq(Nat) /\ Len(<<>>) = 0 /\ 0 <= Len(coded) /\ 1..0 = {}
    BY <1>3
  <2>2. \A i \in 1..Len(<<>>) : <<>>[i] = coded[i].val
    BY <2>1
  <2>3. Stands(s, P, W, t, StartDecoder(s), T[Len(<<>>)]) /\ decCtx = T[Len(<<>>)].ctx
    BY <1>2, <1>7, <2>1
  <2>4. Len(<<>>) <= Len(coded)
    BY <2>1
  <2> QED BY <2>1, <2>2, <2>3, <2>4, Zenon DEF Midway
<1>9. Midway(enc'.out, coded, T, P, W, t, dec', decCtx', got')
  BY <1>1, <1>2, <1>6, <1>8, Zenon
<1>10. PICK symbols : symbols = coded
  OBVIOUS
<1>11. Decoding(symbols, T, total, P, W, t, pad)'
  <2>1. coded' = Append(symbols, Closing) /\ Message(enc'.out, symbols, T, total, P, W, t, pad)
        /\ Midway(enc'.out, symbols, T, P, W, t, dec', decCtx', got')
    BY <1>1, <1>5, <1>6, <1>9, <1>10
  <2> QED BY <2>1 DEF Decoding
<1> QED BY <1>1, <1>11 DEF CodecInv

\* Nothing is written or read at first.
LEMMA InitCodec == Init => CodecInv
<1> SUFFICES ASSUME Init PROVE CodecInv
  OBVIOUS
<1>1. IInv
  BY InitIInv
<1>2. /\ phase = "encode" /\ enc = Started /\ encCtx = [c \in Ctx |-> InitModel(c)] /\ coded = <<>>
      /\ decCtx = [c \in Ctx |-> InitModel(c)] /\ got = <<>>
  BY DEF Init
<1>3. Wrote(Started, [c \in Ctx |-> InitModel(c)], <<>>)
  BY <1>1, <1>2, NothingWritten DEF IInv
<1>4. Encoding
  BY <1>2, <1>3 DEF Encoding
<1> QED BY <1>2, <1>4 DEF CodecInv

\* Every step of writer or reader keeps the strengthening.
LEMMA NextCodec == IInv /\ CodedTyped /\ CodecInv /\ [Next]_vars => CodecInv'
<1> SUFFICES ASSUME IInv, CodedTyped, CodecInv, [Next]_vars PROVE CodecInv'
  OBVIOUS
<1>0. encCtx \in [Ctx -> ModelType]
  BY DEF IInv
<1>1. ASSUME NEW c \in Ctx, NEW b \in 0..1, EncodeBin(c, b) PROVE CodecInv'
  <2>1. Encoded(Sym("bin", c, b), PutBin(enc, encCtx[c], b))
        /\ encCtx' = [encCtx EXCEPT ![c] = Update(@, c, b)] /\ Sym("bin", c, b) \in Symbols
    BY <1>1 DEF EncodeBin, Symbols
  <2>2. Writes(enc, encCtx, Sym("bin", c, b), PutBin(enc, encCtx[c], b), encCtx')
    BY <1>0, <2>1, BinWritten
  <2> QED BY <2>1, <2>2, EncodedOn
<1>2. ASSUME NEW b \in 0..1, EncodeBinEP(b) PROVE CodecInv'
  <2>1. Encoded(Sym("ep", 0, b), PutBinEP(enc, b)) /\ encCtx' = encCtx /\ Sym("ep", 0, b) \in Symbols
    BY <1>2 DEF EncodeBinEP, Symbols
  <2>2. Writes(enc, encCtx, Sym("ep", 0, b), PutBinEP(enc, b), encCtx)
    BY <1>0, EPWritten
  <2> QED BY <2>1, <2>2, EncodedOn
<1>3. ASSUME NEW s \in Strings, EncodeBinsEP(s) PROVE CodecInv'
  <2>1. Encoded(Sym("eps", s[2], s[1]), PutBinsEP(enc, s[1], s[2])) /\ encCtx' = encCtx
        /\ Sym("eps", s[2], s[1]) \in Symbols
    BY <1>3 DEF EncodeBinsEP, Symbols
  <2>2. s[1] \in Nat /\ s[2] \in 1..32 /\ s[1] < Pow2(s[2])
    <3>1. s \in Nat \X (1..32) /\ FitsIn(s)
      BY CabacAssumption
    <3> QED BY <3>1 DEF FitsIn
  <2>3. Writes(enc, encCtx, Sym("eps", s[2], s[1]), PutBinsEP(enc, s[1], s[2]), encCtx)
    BY <2>2, BinsWritten
  <2> QED BY <2>1, <2>3, EncodedOn
<1>4. ASSUME NEW r \in Remainders, EncodeRemAbsEP(r) PROVE CodecInv'
  <2>1. Encoded(Sym("rem", <<r[2], r[3], r[4]>>, r[1]), PutRemAbs(enc, r)) /\ encCtx' = encCtx
        /\ Sym("rem", <<r[2], r[3], r[4]>>, r[1]) \in Symbols
    BY <1>4 DEF EncodeRemAbsEP, Symbols
  <2>2. Writes(enc, encCtx, Sym("rem", <<r[2], r[3], r[4]>>, r[1]), PutRemAbs(enc, r), encCtx)
    BY RemWritten
  <2> QED BY <2>1, <2>2, EncodedOn
<1>5. CASE EncodeBinTrm
  <2>1. Encoded(Sym("trm", 0, 0), PutBinTrm(enc, 0)) /\ encCtx' = encCtx /\ Sym("trm", 0, 0) \in Symbols
    BY <1>5 DEF EncodeBinTrm, Symbols
  <2>2. Writes(enc, encCtx, Sym("trm", 0, 0), PutBinTrm(enc, 0), encCtx)
    BY <1>0, TrmWritten
  <2> QED BY <2>1, <2>2, EncodedOn
<1>6. CASE EndOfSlice
  BY <1>6, SliceEnded
<1>7. CASE DecodeBin
  BY <1>7, BinDecoded
<1>8. CASE DecodeBinEP
  BY <1>8, EPDecoded
<1>9. CASE DecodeBinsEP
  BY <1>9, BinsDecoded
<1>10. CASE DecodeRemAbsEP
  BY <1>10, RemDecoded
<1>11. CASE TerminatingBit
  BY <1>11, TrmDecoded
<1>12. CASE UNCHANGED vars
  BY <1>12 DEF CodecInv, Encoding, Decoding, Done, vars
<1> QED BY <1>1, <1>2, <1>3, <1>4, <1>5, <1>6, <1>7, <1>8, <1>9, <1>10, <1>11, <1>12 DEF Next

(* ------------------------------- inside the stream ------------------------------- *)

\* The registers of a decoder that stands on an interval.
LEMMA StandsInside ==
  ASSUME NEW s, NEW P, NEW W, NEW t, Stream(s, P, W, t), NEW d, NEW x, Stands(s, P, W, t, d, x)
  PROVE  d.idx <= Len(s) + 1 /\ d.value < d.range * Pow2(7)
<1>1. d \in DecoderType /\ x \in Interval /\ d.range = x.range /\ Holds(s, P, W, d, x.pos, x.wt) /\ In(t, x)
  BY DEF Stands
<1>2. d.value \in Nat /\ d.range \in Nat /\ d.idx \in Nat
  BY <1>1, DecoderFields
<1>3. Len(s) \in Nat /\ t \in Nat
  <2>1. s \in Seq(Byte) /\ Len(s) \in Nat
    BY DEF Stream
  <2>2. 0 \in 0..Len(s)
    BY <2>1
  <2> QED BY <2>1, <2>2, StreamBound
<1>4. d.idx <= Len(s) + 1
  <2> DEFINE i == d.idx
             K == Len(s)
  <2>1. i - 1 \in 2..K
    BY <1>1 DEF Holds
  <2>2. i \in Nat /\ K \in Nat
    BY <1>2, <1>3
  <2> HIDE DEF i, K
  <2>3. i <= K + 1
    BY ONLY <2>1, <2>2
  <2> QED BY <2>3 DEF i, K
<1>5. x.pos \in Nat /\ x.wt \in Nat \ {0} /\ x.range \in Nat
  <2>1. x.range \in Range9 /\ x.pos \in Nat /\ x.wt \in Nat \ {0}
    BY <1>1, IntervalTyped
  <2> QED BY <2>1 DEF Range9
<1> DEFINE pos == x.pos
           wt == x.wt
           k == x.range
<1>6. pos \in Nat /\ wt \in Nat \ {0} /\ k \in Nat /\ Holds(s, P, W, d, pos, wt)
  BY <1>1, <1>5
<1>7. t < pos + 128 * (k * wt)
  BY <1>1 DEF In, Top
<1> HIDE DEF pos, wt, k
<1>8. d.value >= 128 * k <=> pos + 128 * (k * wt) <= t
  BY <1>1, <1>6, HoldsCompares
<1>9. k * wt \in Nat
  BY <1>6
<1>10. ~(d.value >= 128 * k)
  BY <1>3, <1>7, <1>6, <1>8, <1>9
<1>11. d.range = k /\ Pow2(7) = 128
  BY <1>1, Powers DEF k
<1>12. d.value < d.range * Pow2(7)
  <2> DEFINE v == d.value
             w == Pow2(7)
  <2>1. v \in Nat /\ k \in Nat /\ ~(v >= 128 * k) /\ w = 128
    BY <1>2, <1>6, <1>10, <1>11
  <2> HIDE DEF v, w
  <2>2. v < k * w
    BY ONLY <2>1
  <2> QED BY <1>11, <2>2 DEF v, w
<1> QED BY <1>4, <1>12

\* The strengthening is enough for InsideStream.
LEMMA DecodingInside ==
  ASSUME CodecInv
  PROVE  InsideStream
<1>1. ASSUME phase = "decode"
      PROVE  dec.idx <= Len(enc.out) + 1 /\ dec.value < dec.range * Pow2(7)
  <2>1. PICK symbols, T, total, P, W, t, pad : Decoding(symbols, T, total, P, W, t, pad)
    BY <1>1 DEF CodecInv
  <2>2. Stream(enc.out, P, W, t) /\ Stands(enc.out, P, W, t, dec, T[Len(got)])
    BY <2>1 DEF Decoding, Message, Midway
  <2> DEFINE s == enc.out
             x == T[Len(got)]
  <2> HIDE DEF s, x
  <2>3. Stream(s, P, W, t) /\ Stands(s, P, W, t, dec, x)
    BY <2>2 DEF s, x
  <2>4. dec.idx <= Len(s) + 1 /\ dec.value < dec.range * Pow2(7)
    BY ONLY <2>3, StandsInside
  <2> QED BY <2>4 DEF s
<1>2. ASSUME phase = "done"
      PROVE  /\ dec.idx <= Len(enc.out) + 1
             /\ dec.idx = Len(enc.out) + 1
             /\ (enc.out[dec.idx - 1] * Pow2(8 + dec.bitsNeeded)) % 256 = 128
  <2>1. dec.idx = Len(enc.out) + 1 /\ (enc.out[dec.idx - 1] * Pow2(8 + dec.bitsNeeded)) % 256 = 128
    BY <1>2 DEF CodecInv, Done
  <2>2. Len(enc.out) + 1 <= Len(enc.out) + 1
    OBVIOUS
  <2> QED BY <2>1, <2>2
<1>3. phase \in {"encode", "decode", "done"}
  BY DEF CodecInv
<1> QED BY <1>1, <1>2, <1>3 DEF InsideStream

\* The invariant of writer and reader.
LEMMA CodecHolds == Spec => [](IInv /\ CodedTyped /\ CodecInv)
<1>1. Init => IInv /\ CodedTyped /\ CodecInv
  BY InitIInv, InitCodec DEF Init, CodedTyped
<1>2. IInv /\ CodedTyped /\ CodecInv /\ [Next]_vars => (IInv /\ CodedTyped /\ CodecInv)'
  BY NextIInv, CodedStep, NextCodec
<1> QED BY <1>1, <1>2, PTL DEF Spec

\* The decoder reads no byte beyond the sub-stream, its value stays below its range, and it
\* ends with the last byte read and the stop bit next: readByte and the CHECK of
\* BinDecoderBase::finish never fail on what BinEncoder wrote.
THEOREM InsideStreamHolds == Spec => []InsideStream
<1> QED BY CodecHolds, DecodingInside, PTL

(* ----------------------- the coder implements the channel ----------------------- *)

\* What BinChannel calls received.
Received == [i \in 1..Len(got) |-> [coded[i] EXCEPT !.val = got[i]]]

\* A symbol with its own value is itself.
LEMMA SymbolShape ==
  ASSUME NEW x \in Symbols
  PROVE  [x EXCEPT !.val = x.val] = x
<1>1. \E o, a, v : x = [op |-> o, arg |-> a, val |-> v]
  BY DEF Symbols, Sym
<1>2. PICK o, a, v : x = [op |-> o, arg |-> a, val |-> v]
  BY <1>1
<1> QED BY <1>2

\* The values decoded so far are those of the symbols.
LEMMA GotPrefix ==
  ASSUME CodecInv, CodedTyped
  PROVE  /\ got \in Seq(Nat) /\ Len(got) <= Len(coded)
         /\ \A i \in 1..Len(got) : got[i] = coded[i].val
<1>1. CASE phase = "encode"
  <2>1. got = <<>> /\ coded \in Seq(Symbols)
    BY <1>1 DEF CodecInv, Encoding, CodedTyped
  <2> QED BY <2>1
<1>2. CASE phase = "decode"
  <2>1. PICK symbols, T, total, P, W, t, pad : Decoding(symbols, T, total, P, W, t, pad)
    BY <1>2 DEF CodecInv
  <2>2. /\ coded = Append(symbols, Closing) /\ symbols \in Seq(Symbols)
        /\ got \in Seq(Nat) /\ Len(got) <= Len(symbols)
        /\ \A i \in 1..Len(got) : got[i] = symbols[i].val
    BY <2>1 DEF Decoding, Message, Midway
  <2> DEFINE n == Len(got)
             L == Len(symbols)
  <2>3. n \in Nat /\ L \in Nat /\ Len(coded) = L + 1 /\ \A i \in 1..L : coded[i] = symbols[i]
    BY <2>2
  <2>4. n <= L /\ \A i \in 1..n : got[i] = symbols[i].val
    BY <2>2
  <2> HIDE DEF n, L
  <2>5. n <= L + 1 /\ \A i \in 1..n : i \in 1..L
    BY <2>3, <2>4
  <2>6. \A i \in 1..n : got[i] = coded[i].val
    BY <2>3, <2>4, <2>5
  <2> QED BY <2>2, <2>3, <2>5, <2>6 DEF n
<1>3. CASE phase = "done"
  <2>1. got \in Seq(Nat) /\ Len(got) = Len(coded) /\ \A i \in 1..Len(coded) : got[i] = coded[i].val
    BY <1>3 DEF CodecInv, Done
  <2>2. Len(got) \in Nat
    BY <2>1
  <2> QED BY <2>1, <2>2
<1> QED BY <1>1, <1>2, <1>3 DEF CodecInv

\* They are the first symbols themselves.
ReceivedFirst ==
  /\ Len(got) \in Nat /\ Len(coded) \in Nat /\ Len(got) <= Len(coded)
  /\ Received \in Seq(Symbols) /\ Len(Received) = Len(got)
  /\ \A i \in 1..Len(got) : Received[i] = coded[i]

\* What is received are the first symbols sent.
LEMMA ReceivedPrefix == CodecInv /\ CodedTyped => ReceivedFirst
<1> SUFFICES ASSUME CodecInv, CodedTyped PROVE ReceivedFirst
  OBVIOUS
<1>1. got \in Seq(Nat) /\ Len(got) <= Len(coded) /\ \A i \in 1..Len(got) : got[i] = coded[i].val
  BY GotPrefix
<1>2. coded \in Seq(Symbols)
  BY DEF CodedTyped
<1> DEFINE n == Len(got)
           R == Received
<1>3. n \in Nat /\ Len(coded) \in Nat /\ n <= Len(coded) /\ \A i \in 1..n : i \in 1..Len(coded)
  BY <1>1, <1>2
<1>4. ASSUME NEW i \in 1..n PROVE R[i] = coded[i] /\ coded[i] \in Symbols
  <2>1. coded[i] \in Symbols
    BY <1>2, <1>3
  <2>2. got[i] = coded[i].val
    BY <1>1
  <2>3. [coded[i] EXCEPT !.val = coded[i].val] = coded[i]
    BY <2>1, SymbolShape
  <2>4. R[i] = [coded[i] EXCEPT !.val = got[i]]
    BY DEF Received
  <2> QED BY <2>1, <2>2, <2>3, <2>4
<1>5. R = [i \in 1..n |-> R[i]]
  BY DEF Received
<1> HIDE DEF R, n
<1>6. R \in Seq(Symbols) /\ Len(R) = n
  <2>1. \A i \in 1..n : R[i] \in Symbols
    BY <1>4
  <2>2. R \in [1..n -> Symbols]
    BY <1>5, <2>1
  <2> QED BY <1>3, <2>2
<1> QED BY <1>1, <1>3, <1>4, <1>6 DEF R, n, ReceivedFirst

\* So it is in the next state.
LEMMA ReceivedPrefixNext == (CodecInv /\ CodedTyped)' => ReceivedFirst'
<1> QED BY ReceivedPrefix, PTL

\* What a step of a decoder adds is the symbol that comes next.
LEMMA ReceivedGrows ==
  ASSUME CodecInv, CodedTyped, CodecInv', CodedTyped', coded' = coded,
         NEW v, got' = Append(got, v)
  PROVE  Len(Received) < Len(coded) /\ Received' = Append(Received, coded[Len(Received) + 1])
<1> DEFINE n == Len(got)
           R == Received
           Q == Received'
<1>1. n \in Nat /\ Len(coded) \in Nat /\ R \in Seq(Symbols) /\ Len(R) = n
      /\ \A i \in 1..n : R[i] = coded[i]
  BY ReceivedPrefix DEF ReceivedFirst
<1>2. Len(got') \in Nat /\ Len(got') <= Len(coded) /\ Q \in Seq(Symbols) /\ Len(Q) = Len(got')
      /\ \A i \in 1..Len(got') : Q[i] = coded[i]
  BY ReceivedPrefixNext DEF ReceivedFirst
<1>3. got \in Seq(Nat)
  BY GotPrefix
<1>4. Len(got') = n + 1
  BY <1>3
<1> HIDE DEF n, R, Q
<1>5. n < Len(coded) /\ n + 1 \in 1..Len(coded)
  BY <1>1, <1>2, <1>4
<1>6. coded \in Seq(Symbols)
  BY DEF CodedTyped
<1> DEFINE x == coded[n + 1]
           A == Append(R, x)
<1>7. x \in Symbols
  BY <1>5, <1>6
<1> HIDE DEF x
<1>8. A \in Seq(Symbols) /\ Len(A) = n + 1 /\ (\A i \in 1..n : A[i] = R[i]) /\ A[n + 1] = x
  BY <1>1, <1>7
<1> HIDE DEF A
<1>9. ASSUME NEW i \in 1..n + 1 PROVE Q[i] = A[i]
  <2>1. Q[i] = coded[i]
    BY <1>2, <1>4
  <2>2. CASE i = n + 1
    BY <1>8, <2>1, <2>2 DEF x
  <2>3. CASE i # n + 1
    <3>1. i \in 1..n
      BY <1>1, <2>3
    <3> QED BY <1>1, <1>8, <2>1, <3>1
  <2> QED BY <2>2, <2>3
<1>10. Q = A
  BY <1>1, <1>2, <1>4, <1>8, <1>9, SeqEqual
<1> QED BY <1>1, <1>5, <1>10 DEF R, Q, A, x

ChannelVars == <<coded, phase # "encode", Received>>
ChannelNext == Channel!Send \/ Channel!Close \/ Channel!Receive

\* A symbol is sent: nothing has been received, nor is by this step.
LEMMA SendStep ==
  ASSUME CodecInv, NEW symbol \in Symbols, NEW e, Encoded(symbol, e)
  PROVE  Channel!Send
<1>1. phase = "encode" /\ phase' = "encode" /\ coded' = Append(coded, symbol) /\ got' = got
  BY DEF Encoded
<1>2. got = <<>>
  BY <1>1 DEF CodecInv, Encoding
<1>3. Received = <<>> /\ Received' = <<>>
  BY <1>1, <1>2 DEF Received
<1> QED BY <1>1, <1>3 DEF Channel!Send, Received

\* end_of_slice() closes the channel.
LEMMA CloseStep ==
  ASSUME CodecInv, EndOfSlice
  PROVE  Channel!Close
<1>1. phase = "encode" /\ phase' = "decode" /\ coded' = Append(coded, Closing) /\ got' = got
  BY DEF EndOfSlice, Closing
<1>2. got = <<>> /\ Closing \in Symbols
  BY <1>1 DEF CodecInv, Encoding, Closing, Symbols
<1>3. Received = <<>> /\ Received' = <<>>
  BY <1>1, <1>2 DEF Received
<1> QED BY <1>1, <1>2, <1>3 DEF Channel!Close, Received

\* Every reader receives the next symbol.
LEMMA ReceiveStep ==
  ASSUME CodecInv, CodedTyped, CodecInv', CodedTyped', NEW read, Decoded(read),
         phase = "decode", phase' \in {"decode", "done"}
  PROVE  Channel!Receive
<1>1. coded' = coded /\ got' = Append(got, read[1])
  BY DEF Decoded
<1>2. Len(Received) < Len(coded) /\ Received' = Append(Received, coded[Len(Received) + 1])
  BY <1>1, ReceivedGrows
<1>3. phase # "encode" /\ phase' # "encode"
  OBVIOUS
<1> QED BY <1>1, <1>2, <1>3 DEF Channel!Receive, Received

\* Every step of the coder is a step of the channel, or none.
LEMMA ChannelStep ==
  IInv /\ CodedTyped /\ CodecInv /\ (IInv /\ CodedTyped /\ CodecInv)' /\ [Next]_vars
    => [ChannelNext]_ChannelVars
<1> SUFFICES ASSUME CodedTyped, CodecInv, CodedTyped', CodecInv', [Next]_vars
             PROVE  ChannelNext \/ UNCHANGED ChannelVars
  OBVIOUS
<1>1. ASSUME NEW c \in Ctx, NEW b \in 0..1, EncodeBin(c, b) PROVE ChannelNext
  <2>1. Encoded(Sym("bin", c, b), PutBin(enc, encCtx[c], b)) /\ Sym("bin", c, b) \in Symbols
    BY <1>1 DEF EncodeBin, Symbols
  <2> QED BY <2>1, SendStep DEF ChannelNext
<1>2. ASSUME NEW b \in 0..1, EncodeBinEP(b) PROVE ChannelNext
  <2>1. Encoded(Sym("ep", 0, b), PutBinEP(enc, b)) /\ Sym("ep", 0, b) \in Symbols
    BY <1>2 DEF EncodeBinEP, Symbols
  <2> QED BY <2>1, SendStep DEF ChannelNext
<1>3. ASSUME NEW s \in Strings, EncodeBinsEP(s) PROVE ChannelNext
  <2>1. Encoded(Sym("eps", s[2], s[1]), PutBinsEP(enc, s[1], s[2])) /\ Sym("eps", s[2], s[1]) \in Symbols
    BY <1>3 DEF EncodeBinsEP, Symbols
  <2> QED BY <2>1, SendStep DEF ChannelNext
<1>4. ASSUME NEW r \in Remainders, EncodeRemAbsEP(r) PROVE ChannelNext
  <2>1. Encoded(Sym("rem", <<r[2], r[3], r[4]>>, r[1]), PutRemAbs(enc, r))
        /\ Sym("rem", <<r[2], r[3], r[4]>>, r[1]) \in Symbols
    BY <1>4 DEF EncodeRemAbsEP, Symbols
  <2> QED BY <2>1, SendStep DEF ChannelNext
<1>5. CASE EncodeBinTrm
  <2>1. Encoded(Sym("trm", 0, 0), PutBinTrm(enc, 0)) /\ Sym("trm", 0, 0) \in Symbols
    BY <1>5 DEF EncodeBinTrm, Symbols
  <2> QED BY <2>1, SendStep DEF ChannelNext
<1>6. CASE EndOfSlice
  BY <1>6, CloseStep DEF ChannelNext
<1>7. ASSUME NEW read, Decoded(read), phase = "decode", phase' \in {"decode", "done"} PROVE ChannelNext
  BY <1>7, ReceiveStep DEF ChannelNext
<1>8. CASE DecodeBin
  <2>1. Decoded(GetBin(enc.out, dec, decCtx[Arg])) /\ phase = "decode" /\ phase' = phase
    BY <1>8 DEF DecodeBin, Coming
  <2> QED BY <1>7, <2>1
<1>9. CASE DecodeBinEP
  <2>1. Decoded(GetBinEP(enc.out, dec)) /\ phase = "decode" /\ phase' = phase
    BY <1>9 DEF DecodeBinEP, Coming
  <2> QED BY <1>7, <2>1
<1>10. CASE DecodeBinsEP
  <2>1. Decoded(GetBinsEP(enc.out, dec, Arg)) /\ phase = "decode" /\ phase' = phase
    BY <1>10 DEF DecodeBinsEP, Coming
  <2> QED BY <1>7, <2>1
<1>11. CASE DecodeRemAbsEP
  <2>1. Decoded(GetRemAbs(enc.out, dec, Arg[1], Arg[2], Arg[3])) /\ phase = "decode" /\ phase' = phase
    BY <1>11 DEF DecodeRemAbsEP, Coming
  <2> QED BY <1>7, <2>1
<1>12. CASE TerminatingBit
  <2>1. Decoded(GetBinTrm(enc.out, dec)) /\ phase = "decode" /\ phase' \in {"decode", "done"}
    BY <1>12 DEF TerminatingBit, Coming
  <2> QED BY <1>7, <2>1
<1>13. CASE UNCHANGED vars
  <2>1. coded' = coded /\ phase' = phase /\ got' = got
    BY <1>13 DEF vars
  <2>2. Received' = Received
    BY <2>1 DEF Received
  <2> QED BY <2>1, <2>2 DEF ChannelVars
<1> QED BY <1>1, <1>2, <1>3, <1>4, <1>5, <1>6, <1>8, <1>9, <1>10, <1>11, <1>12, <1>13 DEF Next

\* What TBinDecoder gives is what TBinEncoder was given: every value once, in order, and
\* only after the end of the sub-stream, for any contexts, strings and remainders and for
\* messages of any length.
THEOREM ReadsBackHolds == Spec => ReadsBack
<1>1. Init => Channel!Init
  <2> SUFFICES ASSUME Init PROVE Channel!Init
    OBVIOUS
  <2>1. coded = <<>> /\ got = <<>> /\ phase = "encode"
    BY DEF Init
  <2>2. Received = <<>>
    BY <2>1 DEF Received
  <2> QED BY <2>1, <2>2 DEF Channel!Init, Received
<1>2. IInv /\ CodedTyped /\ CodecInv /\ (IInv /\ CodedTyped /\ CodecInv)' /\ [Next]_vars
        => [Channel!Send \/ Channel!Close \/ Channel!Receive]_<<coded, phase # "encode",
             [i \in 1..Len(got) |-> [coded[i] EXCEPT !.val = got[i]]]>>
  BY ChannelStep DEF ChannelNext, ChannelVars, Received
<1> QED BY <1>1, <1>2, CodecHolds, PTL DEF Spec, ReadsBack, Channel!Spec
=============================================================================
