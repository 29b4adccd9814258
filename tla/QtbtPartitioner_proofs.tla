------------------------ MODULE QtbtPartitioner_proofs ------------------------
(* For any partitioning constraints and any CTU of a picture: the flags of a   *)
(* split decode to it, there is always something to do, a split that is left   *)
(* restores the state, and every sample is coded once.                         *)
EXTENDS QtbtPartitioner, SequenceTheorems, TLAPS

(* ------------------------------- the split flags ------------------------------- *)

Bit(b) == IF b THEN 1 ELSE 0

\* A flag: at most one bit.
LEMMA FlagIs ==
  ASSUME NEW c \in BOOLEAN, NEW b \in BOOLEAN
  PROVE  /\ Flag(c, b) \in Seq(Nat) /\ Flag(c, b) \o <<>> = Flag(c, b)
         /\ Len(Flag(c, b)) = Bit(c)
         /\ c => Flag(c, b)[1] = Bit(b)
BY DEF Flag, Bit

LEMMA Bits == \A b \in BOOLEAN : Bit(b) \in {0, 1} /\ (b <=> Bit(b) = 1)
BY DEF Bit

\* A flag, if any, before other flags.
LEMMA FlagBefore ==
  ASSUME NEW s \in Seq(Nat), NEW t \in Seq(Nat), Len(s) \in {0, 1}
  PROVE  /\ s \o t \in Seq(Nat) /\ Len(s \o t) = Len(s) + Len(t)
         /\ Len(s) = 1 => (s \o t)[1] = s[1]
         /\ \A i \in 1..Len(t) : (s \o t)[Len(s) + i] = t[i]
OBVIOUS

\* Four flags, of which each may be left out: where they are found.
LEMMA FourFlags ==
  ASSUME NEW s1 \in Seq(Nat), NEW s2 \in Seq(Nat), NEW s3 \in Seq(Nat), NEW s4 \in Seq(Nat),
         Len(s1) \in {0, 1}, Len(s2) \in {0, 1}, Len(s3) \in {0, 1}, Len(s4) \in {0, 1},
         NEW flags, flags = s1 \o (s2 \o (s3 \o s4))
  PROVE  /\ Len(flags) = Len(s1) + Len(s2) + Len(s3) + Len(s4)
         /\ Len(s1) = 1 => flags[1] = s1[1]
         /\ Len(s2) = 1 => flags[Len(s1) + Len(s2)] = s2[1]
         /\ Len(s3) = 1 => flags[Len(s1) + Len(s2) + Len(s3)] = s3[1]
         /\ Len(s4) = 1 => flags[Len(s1) + Len(s2) + Len(s3) + Len(s4)] = s4[1]
<1> DEFINE third == s3 \o s4
           second == s2 \o third
           d1 == Len(s1)  d2 == Len(s2)  d3 == Len(s3)  d4 == Len(s4)
<1>1. /\ third \in Seq(Nat) /\ Len(third) = d3 + d4
      /\ d3 = 1 => third[1] = s3[1]
      /\ \A i \in 1..d4 : third[d3 + i] = s4[i]
  BY FlagBefore
<1> HIDE DEF third
<1>2. /\ second \in Seq(Nat) /\ Len(second) = d2 + Len(third)
      /\ d2 = 1 => second[1] = s2[1]
      /\ \A i \in 1..Len(third) : second[d2 + i] = third[i]
  BY <1>1, FlagBefore
<1>2a. flags = s1 \o second
  BY DEF second, third
<1> HIDE DEF second
<1>3. /\ Len(flags) = d1 + Len(second)
      /\ d1 = 1 => flags[1] = s1[1]
      /\ \A i \in 1..Len(second) : flags[d1 + i] = second[i]
  <2>1. s1 \in Seq(Nat) /\ second \in Seq(Nat) /\ d1 \in {0, 1}
    BY <1>2
  <2>2. /\ Len(s1 \o second) = d1 + Len(second)
        /\ d1 = 1 => (s1 \o second)[1] = s1[1]
        /\ \A i \in 1..Len(second) : (s1 \o second)[d1 + i] = second[i]
    BY <2>1, FlagBefore
  <2> QED BY <2>2, <1>2a
<1>0. d1 \in {0, 1} /\ d2 \in {0, 1} /\ d3 \in {0, 1} /\ d4 \in {0, 1}
  OBVIOUS
<1> HIDE DEF d1, d2, d3, d4
<1>4. Len(second) = d2 + d3 + d4 /\ Len(third) = d3 + d4 /\ Len(flags) = d1 + d2 + d3 + d4
  BY <1>0, <1>1, <1>2, <1>3
<1>5. d2 = 1 => flags[d1 + d2] = s2[1]
  <2>1. d2 = 1 => 1 \in 1..Len(second)
    BY <1>0, <1>4
  <2> QED BY <2>1, <1>2, <1>3
<1>6. d3 = 1 => flags[d1 + d2 + d3] = s3[1]
  <2>1. d3 = 1 => /\ 1 \in 1..Len(third) /\ d2 + 1 \in 1..Len(second)
                  /\ d1 + (d2 + 1) = d1 + d2 + d3
    BY <1>0, <1>4
  <2>2. d3 = 1 => flags[d1 + (d2 + 1)] = second[d2 + 1]
    BY <2>1, <1>3
  <2>3. d3 = 1 => second[d2 + 1] = s3[1]
    BY <2>1, <1>1, <1>2
  <2> QED BY <2>1, <2>2, <2>3
<1>7. d4 = 1 => flags[d1 + d2 + d3 + d4] = s4[1]
  <2>1. d4 = 1 => /\ 1 \in 1..d4 /\ d3 + 1 \in 1..Len(third) /\ d2 + (d3 + 1) \in 1..Len(second)
                  /\ d1 + (d2 + (d3 + 1)) = d1 + d2 + d3 + d4
    BY <1>0, <1>4
  <2>2. d4 = 1 => flags[d1 + (d2 + (d3 + 1))] = second[d2 + (d3 + 1)]
    BY <2>1, <1>3
  <2>3. d4 = 1 => second[d2 + (d3 + 1)] = third[d3 + 1]
    BY <2>1, <1>2
  <2>4. d4 = 1 => third[d3 + 1] = s4[1]
    BY <2>1, <1>1
  <2> QED BY <2>1, <2>2, <2>3, <2>4
<1> QED BY <1>3, <1>4, <1>5, <1>6, <1>7 DEF d1, d2, d3, d4

\* Which of the flags are in the bitstream, for the writer and for the reader.
HasSplit == CanNo /\ Allowed # {}
HasQuad == "quad" \in Allowed /\ Allowed # {"quad"}
HasDirection == Allowed \cap Horizontal # {} /\ Allowed \cap Vertical # {}
Direction(k) == IF k \in Vertical THEN Vertical ELSE Horizontal
HasBinary(k) == Direction(k) \subseteq Allowed

LEMMA HasTyped ==
  /\ HasSplit \in BOOLEAN /\ HasQuad \in BOOLEAN /\ HasDirection \in BOOLEAN
  /\ \A k : HasBinary(k) \in BOOLEAN /\ (k \in Vertical) \in BOOLEAN /\ (k \in BtSplits) \in BOOLEAN
BY DEF HasSplit, HasQuad, HasDirection, HasBinary

LEMMA NoneDecodes ==
  ASSUME CanNo
  PROVE  ReadSplit(SplitFlags(None)) = <<None, Len(SplitFlags(None))>>
<1>1. SplitFlags(None) = Flag(HasSplit, FALSE)
  BY FlagIs, HasTyped DEF SplitFlags, HasSplit
<1>2. /\ Len(SplitFlags(None)) = Bit(HasSplit)
      /\ HasSplit => SplitFlags(None)[1] = 0
  BY <1>1, FlagIs, HasTyped DEF Bit
<1> DEFINE flags == SplitFlags(None)
<1> HIDE DEF flags
<1>3. CASE HasSplit
  BY <1>3, <1>2 DEF ReadSplit, HasSplit, Bit, flags
<1>4. CASE ~HasSplit
  BY <1>4, <1>2 DEF ReadSplit, HasSplit, Bit, flags
<1> QED BY <1>3, <1>4

LEMMA QuadDecodes ==
  ASSUME "quad" \in Allowed
  PROVE  ReadSplit(SplitFlags("quad")) = <<"quad", Len(SplitFlags("quad"))>>
<1> DEFINE flags == SplitFlags("quad")
           s1 == Flag(HasSplit, TRUE)
           s2 == Flag(HasQuad, TRUE)
<1>1. flags = s1 \o s2
  BY FlagIs, HasTyped DEF SplitFlags, HasSplit, HasQuad, None
<1>2. /\ s1 \in Seq(Nat) /\ Len(s1) = Bit(HasSplit) /\ (HasSplit => s1[1] = Bit(TRUE))
  BY FlagIs, HasTyped
<1>3. /\ s2 \in Seq(Nat) /\ Len(s2) = Bit(HasQuad) /\ (HasQuad => s2[1] = Bit(TRUE))
  BY FlagIs, HasTyped
<1>4. /\ Len(s1) \in {0, 1} /\ (HasSplit <=> Len(s1) = 1)
      /\ Len(s2) \in {0, 1} /\ (HasQuad <=> Len(s2) = 1)
      /\ Bit(TRUE) = 1
  BY <1>2, <1>3, Bits, HasTyped DEF Bit
<1> HIDE DEF s1, s2, flags
<1>5. /\ Len(flags) = Len(s1) + Len(s2)
      /\ Len(s1) = 1 => flags[1] = s1[1]
      /\ Len(s2) = 1 => flags[Len(s1) + Len(s2)] = s2[1]
  BY <1>1, <1>2, <1>3, <1>4
<1> DEFINE n1 == IF HasSplit THEN 1 ELSE 0
           n2 == n1 + (IF HasQuad THEN 1 ELSE 0)
<1>6. n1 = Len(s1) /\ n2 = Len(s1) + Len(s2)
  BY <1>4
<1>7. Allowed # {}
  OBVIOUS
<1>8. /\ HasSplit => flags[1] = 1
      /\ HasQuad => flags[n2] = 1
      /\ Len(flags) = n2
  BY <1>2, <1>3, <1>4, <1>5, <1>6
<1>9. ReadSplit(flags) = IF ~(IF HasSplit THEN flags[1] = 1 ELSE Allowed # {}) THEN <<None, n1>>
        ELSE IF (IF HasQuad THEN flags[n2] = 1 ELSE "quad" \in Allowed) THEN <<"quad", n2>>
        ELSE ReadSplit(flags)
  BY DEF ReadSplit, HasSplit, HasQuad
<1> HIDE DEF n1, n2
<1>10. ReadSplit(flags) = <<"quad", n2>>
  BY <1>7, <1>8, <1>9
<1> QED BY <1>8, <1>10 DEF flags

LEMMA MttDecodes ==
  ASSUME NEW k \in BtSplits \cup TtSplits, k \in Allowed
  PROVE  ReadSplit(SplitFlags(k)) = <<k, Len(SplitFlags(k))>>
<1> DEFINE flags == SplitFlags(k)
           ver == k \in Vertical
           bin == k \in BtSplits
           s1 == Flag(HasSplit, TRUE)
           s2 == Flag(HasQuad, FALSE)
           s3 == Flag(HasDirection, ver)
           s4 == Flag(HasBinary(k), bin)
           n1 == IF HasSplit THEN 1 ELSE 0
           n2 == n1 + (IF HasQuad THEN 1 ELSE 0)
           n3 == n2 + (IF HasDirection THEN 1 ELSE 0)
           n4 == n3 + (IF HasBinary(k) THEN 1 ELSE 0)
<1>0. k # None /\ k # "quad" /\ (k \in Vertical \/ k \in Horizontal) /\ ~(k \in Vertical /\ k \in Horizontal)
  BY DEF BtSplits, TtSplits, None, Vertical, Horizontal
<1>t. ver \in BOOLEAN /\ bin \in BOOLEAN
  BY HasTyped
<1>1. flags = s1 \o (s2 \o (s3 \o s4))
  BY <1>0 DEF SplitFlags, HasSplit, HasQuad, HasDirection, HasBinary, Direction
<1> HIDE DEF ver, bin
<1>2. /\ s1 \in Seq(Nat) /\ Len(s1) = Bit(HasSplit) /\ (HasSplit => s1[1] = Bit(TRUE))
      /\ s2 \in Seq(Nat) /\ Len(s2) = Bit(HasQuad) /\ (HasQuad => s2[1] = Bit(FALSE))
  BY FlagIs, HasTyped
<1>3. /\ s3 \in Seq(Nat) /\ Len(s3) = Bit(HasDirection) /\ (HasDirection => s3[1] = Bit(ver))
      /\ s4 \in Seq(Nat) /\ Len(s4) = Bit(HasBinary(k)) /\ (HasBinary(k) => s4[1] = Bit(bin))
  BY <1>t, FlagIs, HasTyped
<1> HIDE DEF s1, s2, s3, s4, flags
<1>4. /\ Len(s1) \in {0, 1} /\ (HasSplit <=> Len(s1) = 1)
      /\ Len(s2) \in {0, 1} /\ (HasQuad <=> Len(s2) = 1)
      /\ Len(s3) \in {0, 1} /\ (HasDirection <=> Len(s3) = 1)
      /\ Len(s4) \in {0, 1} /\ (HasBinary(k) <=> Len(s4) = 1)
      /\ Bit(TRUE) = 1 /\ Bit(FALSE) = 0
  <2>1. Bit(TRUE) = 1 /\ Bit(FALSE) = 0
    BY DEF Bit
  <2>2. /\ Len(s1) \in {0, 1} /\ (HasSplit <=> Len(s1) = 1)
        /\ Len(s2) \in {0, 1} /\ (HasQuad <=> Len(s2) = 1)
    BY <1>2, Bits, HasTyped
  <2>3. /\ Len(s3) \in {0, 1} /\ (HasDirection <=> Len(s3) = 1)
        /\ Len(s4) \in {0, 1} /\ (HasBinary(k) <=> Len(s4) = 1)
    BY <1>3, Bits, HasTyped
  <2> QED BY <2>1, <2>2, <2>3
<1>5. /\ n1 = Len(s1) /\ n2 = Len(s1) + Len(s2) /\ n3 = n2 + Len(s3) /\ n4 = n3 + Len(s4)
  BY <1>4
<1>5a. /\ Len(flags) = Len(s1) + Len(s2) + Len(s3) + Len(s4)
       /\ Len(s1) = 1 => flags[1] = s1[1]
       /\ Len(s2) = 1 => flags[Len(s1) + Len(s2)] = s2[1]
       /\ Len(s3) = 1 => flags[Len(s1) + Len(s2) + Len(s3)] = s3[1]
       /\ Len(s4) = 1 => flags[Len(s1) + Len(s2) + Len(s3) + Len(s4)] = s4[1]
  <2>1. /\ s1 \in Seq(Nat) /\ s2 \in Seq(Nat) /\ s3 \in Seq(Nat) /\ s4 \in Seq(Nat)
        /\ Len(s1) \in {0, 1} /\ Len(s2) \in {0, 1} /\ Len(s3) \in {0, 1} /\ Len(s4) \in {0, 1}
    BY <1>2, <1>3, <1>4
  <2> HIDE DEF n1, n2, n3, n4
  <2>2. Len(flags) = Len(s1) + Len(s2) + Len(s3) + Len(s4)
    BY ONLY <1>1, <2>1, FourFlags
  <2>3. Len(s1) = 1 => flags[1] = s1[1]
    BY ONLY <1>1, <2>1, FourFlags
  <2>4. Len(s2) = 1 => flags[Len(s1) + Len(s2)] = s2[1]
    BY ONLY <1>1, <2>1, FourFlags
  <2>5. Len(s3) = 1 => flags[Len(s1) + Len(s2) + Len(s3)] = s3[1]
    BY ONLY <1>1, <2>1, FourFlags, SMTT(60)
  <2>6. Len(s4) = 1 => flags[Len(s1) + Len(s2) + Len(s3) + Len(s4)] = s4[1]
    BY ONLY <1>1, <2>1, FourFlags, SMTT(60)
  <2> QED BY <2>2, <2>3, <2>4, <2>5, <2>6
<1>5b. n4 \in Nat
  BY <1>5, <1>4
<1> HIDE DEF n1, n2, n3, n4
<1>5c. /\ Len(flags) = n4 /\ n4 <= Len(flags)
       /\ HasSplit => flags[1] = 1
       /\ HasQuad => flags[n2] = 0
       /\ HasDirection => flags[n3] = Bit(ver)
       /\ HasBinary(k) => flags[n4] = Bit(bin)
  <2> DEFINE d1 == Len(s1)  d2 == Len(s2)  d3 == Len(s3)  d4 == Len(s4)  all == Len(flags)
             v3 == Bit(ver)  v4 == Bit(bin)
  <2>1. d1 \in {0, 1} /\ d2 \in {0, 1} /\ d3 \in {0, 1} /\ d4 \in {0, 1}
    BY <1>4
  <2>2. /\ HasSplit => s1[1] = 1 /\ d1 = 1
        /\ HasQuad => s2[1] = 0 /\ d2 = 1
        /\ HasDirection => s3[1] = v3 /\ d3 = 1
        /\ HasBinary(k) => s4[1] = v4 /\ d4 = 1
    <3>1. /\ HasSplit => s1[1] = 1
          /\ HasQuad => s2[1] = 0
      BY <1>2, <1>4
    <3>2. /\ HasDirection => s3[1] = v3
          /\ HasBinary(k) => s4[1] = v4
      BY <1>3
    <3> QED BY <3>1, <3>2, <1>4
  <2>3. /\ all = d1 + d2 + d3 + d4
        /\ d1 = 1 => flags[1] = s1[1]
        /\ d2 = 1 => flags[d1 + d2] = s2[1]
        /\ d3 = 1 => flags[d1 + d2 + d3] = s3[1]
        /\ d4 = 1 => flags[d1 + d2 + d3 + d4] = s4[1]
    BY <1>5a
  <2>4. n2 = d1 + d2 /\ n3 = d1 + d2 + d3 /\ n4 = d1 + d2 + d3 + d4
    BY <1>5
  <2> HIDE DEF d1, d2, d3, d4, all, v3, v4
  <2>5. all = n4 /\ n4 <= all
    BY ONLY <2>1, <2>3, <2>4
  <2>6. HasSplit => flags[1] = 1
    BY <2>2, <2>3
  <2>7. HasQuad => flags[n2] = 0
    BY <2>2, <2>3, <2>4
  <2>8. HasDirection => flags[n3] = v3
    BY <2>2, <2>3, <2>4
  <2>9. HasBinary(k) => flags[n4] = v4
    BY <2>2, <2>3, <2>4
  <2> QED BY <2>5, <2>6, <2>7, <2>8, <2>9 DEF all, v3, v4
<1>6. /\ HasDirection => (flags[n3] = 1 <=> ver)
      /\ HasBinary(k) => (flags[n4] = 1 <=> bin)
  BY <1>5c, <1>t, Bits
<1>7. Allowed # {} /\ Allowed # {"quad"}
  BY <1>0
<1>8. ~HasQuad => "quad" \notin Allowed
  BY <1>7 DEF HasQuad
<1>9. ver <=> IF HasDirection THEN flags[n3] = 1 ELSE Allowed \cap Vertical # {}
  <2>1. CASE HasDirection
    BY <2>1, <1>6
  <2>2. CASE ~HasDirection
    BY <2>2, <1>0 DEF HasDirection, ver
  <2> QED BY <2>1, <2>2
<1>10. bin <=> IF HasBinary(k) THEN n4 <= Len(flags) /\ flags[n4] = 1
               ELSE Direction(k) \cap BtSplits \cap Allowed # {}
  <2>1. CASE HasBinary(k)
    BY <2>1, <1>5c, <1>6
  <2>2. CASE ~HasBinary(k)
    <3>1. k \in Direction(k)
      BY <1>0 DEF Direction
    <3>2. Direction(k) = {"horz", "trih"} \/ Direction(k) = {"vert", "triv"}
      BY DEF Direction, Vertical, Horizontal
    <3> QED BY <3>1, <3>2, <2>2 DEF HasBinary, bin, BtSplits
  <2> QED BY <2>1, <2>2
<1>11. (CHOOSE j \in Direction(k) : j \in BtSplits <=> bin) = k
  <2>1. k \in Direction(k)
    BY <1>0 DEF Direction
  <2>2. \A j \in Direction(k) : (j \in BtSplits <=> k \in BtSplits) => j = k
    BY <1>0 DEF Direction, Vertical, Horizontal, BtSplits, TtSplits
  <2> QED BY <2>1, <2>2 DEF bin
<1> DEFINE isVer == IF HasDirection THEN flags[n3] = 1 ELSE Allowed \cap Vertical # {}
           is12 == IF HasBinary(k) THEN n4 <= Len(flags) /\ flags[n4] = 1
                   ELSE Direction(k) \cap BtSplits \cap Allowed # {}
           dir == IF isVer THEN Vertical ELSE Horizontal
           m4 == n3 + (IF dir \subseteq Allowed THEN 1 ELSE 0)
           is == IF dir \subseteq Allowed THEN m4 <= Len(flags) /\ flags[m4] = 1
                 ELSE dir \cap BtSplits \cap Allowed # {}
<1>12. dir = Direction(k)
  BY <1>9 DEF Direction, ver
<1>13. m4 = n4 /\ is = is12
  BY <1>12 DEF HasBinary, n4
<1>14. ReadSplit(flags) =
         IF ~(IF HasSplit THEN flags[1] = 1 ELSE Allowed # {}) THEN <<None, n1>>
         ELSE IF (IF HasQuad THEN flags[n2] = 1 ELSE "quad" \in Allowed) THEN <<"quad", n2>>
         ELSE <<CHOOSE j \in dir : j \in BtSplits <=> is, m4>>
  BY DEF ReadSplit, HasSplit, HasQuad, HasDirection, Flag12Read, n1, n2, n3
<1>15. is12 = bin
  BY <1>10, <1>t
<1> HIDE DEF dir, m4, is, isVer, is12
<1>16. ReadSplit(flags) = <<CHOOSE j \in dir : j \in BtSplits <=> is, m4>>
  BY <1>14, <1>5c, <1>7, <1>8
<1>17. ReadSplit(flags) = <<CHOOSE j \in Direction(k) : j \in BtSplits <=> bin, n4>>
  BY <1>16, <1>12, <1>13, <1>15
<1> QED BY <1>5c, <1>11, <1>17 DEF flags

\* CABACReader::split_cu_mode against CABACWriter::split_cu_mode, in every state,
\* reachable or not: which splits are allowed does not matter.
THEOREM FlagsDecodeHolds == Spec => []FlagsDecode
<1>1. FlagsDecode
  <2> SUFFICES ASSUME NEW k \in Allowed \cup (IF CanNo THEN {None} ELSE {})
               PROVE  ReadSplit(SplitFlags(k)) = <<k, Len(SplitFlags(k))>>
    BY DEF FlagsDecode
  <2>1. (k = None /\ CanNo) \/ k \in Allowed
    OBVIOUS
  <2>2. k \in Allowed => k \in BtSplits \cup TtSplits \/ k = "quad"
    BY DEF Allowed, Splits
  <2> QED BY <2>1, <2>2, NoneDecodes, QuadDecodes, MttDecodes
<1> QED BY <1>1, PTL

\* canSplit: at the border the quad split is the way out, elsewhere no split is.
THEOREM NeverStuckHolds == Spec => []NeverStuck
<1>1. NeverStuck
  <2> SUFFICES ASSUME Implicit # None
               PROVE  \E k \in Splits : CanSplit(k)
    BY DEF NeverStuck, CanNo
  <2>1. \A k \in {"horz", "vert"} : CanImplicit(k) => CanSplit(k)
    BY DEF CanSplit
  <2>2. ~CanImplicit("horz") /\ ~CanImplicit("vert") => CanSplit("quad")
    BY DEF CanSplit
  <2> QED BY <2>1, <2>2 DEF Splits, BtSplits
<1> QED BY <1>1, PTL

(* ------------------------------------ areas ------------------------------------ *)

Sizes == {1, 2, 4, 8, 16, 32, 64, 128}
AreaSet == [x : Nat, y : Nat, w : Sizes, h : Sizes]
CountSet == [depth : Int, qt : Int, bt : Int, mt : Int, subdiv : Int, implicitBt : Int]

\* What of s samples from x on lies in a picture of p samples.
Clip(x, s, p) == IF p <= x THEN 0 ELSE IF x + s <= p THEN s ELSE p - x
InPic(c, a) == Clip(a.x, a.w, c.picW) * Clip(a.y, a.h, c.picH)
Inside(c, a) == a.x + a.w <= c.picW /\ a.y + a.h <= c.picH

LEMMA ConfigTyped ==
  ASSUME NEW c \in Configs
  PROVE  /\ c.minBt \in Nat \ {0} /\ c.minTt \in Nat \ {0} /\ c.minQt \in Nat \ {0}
         /\ c.maxMtt \in Nat /\ c.maxBt \in Nat /\ c.maxTt \in Nat /\ c.qgSubdiv \in Nat
         /\ c.dual \in BOOLEAN /\ c.chroma \in BOOLEAN /\ (c.chroma => c.dual)
         /\ c.picW \in 1..128 /\ c.picW <= CtuSize /\ (\E i \in Nat : c.picW = 8 * i)
         /\ c.picH \in 1..128 /\ c.picH <= CtuSize /\ (\E i \in Nat : c.picH = 8 * i)
<1>1. /\ {c.minBt, c.minTt, c.minQt} \subseteq Nat \ {0}
      /\ {c.maxMtt, c.maxBt, c.maxTt, c.qgSubdiv} \subseteq Nat
      /\ c.dual \in BOOLEAN /\ c.chroma \in BOOLEAN /\ (c.chroma => c.dual)
  BY PartitionerAssumption
<1>2. CtuSize \in {32, 64, 128}
  BY PartitionerAssumption
<1>3. /\ c.picW \in 1..CtuSize /\ c.picW % 8 = 0
      /\ c.picH \in 1..CtuSize /\ c.picH % 8 = 0
  BY PartitionerAssumption
<1>4. /\ c.picW \in 1..128 /\ c.picW <= CtuSize /\ (\E i \in Nat : c.picW = 8 * i)
      /\ c.picH \in 1..128 /\ c.picH <= CtuSize /\ (\E i \in Nat : c.picH = 8 * i)
  BY <1>2, <1>3
<1> QED BY <1>1, <1>4

LEMMA AreaTyped ==
  ASSUME NEW a \in AreaSet
  PROVE  /\ a.x \in Nat /\ a.y \in Nat /\ a.w \in Sizes /\ a.h \in Sizes
         /\ a.w \in 1..128 /\ a.h \in 1..128
BY DEF AreaSet, Sizes

LEMMA CountTyped ==
  ASSUME NEW n \in CountSet
  PROVE  /\ n.depth \in Int /\ n.qt \in Int /\ n.bt \in Int /\ n.mt \in Int /\ n.subdiv \in Int
         /\ n.implicitBt \in Int
BY DEF CountSet

LEMMA ClipTyped ==
  ASSUME NEW x \in Nat, NEW s \in Nat, NEW p \in Nat
  PROVE  Clip(x, s, p) \in 0..s /\ (Clip(x, s, p) = s <=> x + s <= p \/ s = 0)
BY DEF Clip

LEMMA ProductNat ==
  ASSUME NEW i \in Nat, NEW j \in Nat
  PROVE  i * j \in Nat
OBVIOUS

LEMMA InPicNat ==
  ASSUME NEW c \in Configs, NEW a \in AreaSet
  PROVE  InPic(c, a) \in Nat
<1>1. /\ a.x \in Nat /\ a.y \in Nat /\ a.w \in Nat /\ a.h \in Nat
      /\ c.picW \in Nat /\ c.picH \in Nat
  BY ConfigTyped, AreaTyped
<1>2. Clip(a.x, a.w, c.picW) \in Nat /\ Clip(a.y, a.h, c.picH) \in Nat
  BY <1>1 DEF Clip
<1> QED BY <1>2, ProductNat DEF InPic

LEMMA InPictureIs ==
  ASSUME cfg \in Configs, NEW a \in AreaSet
  PROVE  InPicture(a) = InPic(cfg, a)
<1> DEFINE x == a.x  y == a.y  w == a.w  h == a.h  pw == cfg.picW  ph == cfg.picH
<1>1. x \in Nat /\ y \in Nat /\ w \in Nat \ {0} /\ h \in Nat \ {0} /\ pw \in Nat /\ ph \in Nat
  BY ConfigTyped, AreaTyped
<1> DEFINE lw == Low(x + w, pw) - x  lh == Low(y + h, ph) - y
           cw == Clip(x, w, pw)  ch == Clip(y, h, ph)
<1>2. InPicture(a) = (IF lw > 0 /\ lh > 0 THEN lw * lh ELSE 0) /\ InPic(cfg, a) = cw * ch
  BY DEF InPicture, InPic
<1> HIDE DEF x, y, w, h, pw, ph
<1>3. lw \in Int /\ (lw > 0 => cw = lw) /\ (~(lw > 0) => cw = 0) /\ cw \in Nat
  BY <1>1 DEF Low, Clip
<1>4. lh \in Int /\ (lh > 0 => ch = lh) /\ (~(lh > 0) => ch = 0) /\ ch \in Nat
  BY <1>1 DEF Low, Clip
<1> HIDE DEF lw, lh, cw, ch
<1> QED BY <1>2, <1>3, <1>4

\* A product of two numbers is its largest possible only when both are theirs.
LEMMA FullProduct ==
  ASSUME NEW w \in Nat, NEW h \in Nat, NEW i \in 0..w, NEW j \in 0..h
  PROVE  /\ i * j > 0 => i > 0 /\ j > 0
         /\ i * j > 0 => (i * j = w * h <=> i = w /\ j = h)
<1>1. i * j > 0 => i > 0 /\ j > 0
  BY SMT
<1>2. i > 0 /\ j > 0 /\ i < w => i * j < w * h
  <2> SUFFICES ASSUME i > 0, j > 0, i < w
               PROVE  i * j < w * h
    OBVIOUS
  <2>1. i * j < w * j
    BY SMT
  <2>2. w * j <= w * h
    BY SMT
  <2>3. i * j \in Nat /\ w * j \in Nat /\ w * h \in Nat
    BY ProductNat
  <2> QED BY <2>1, <2>2, <2>3
<1>3. i > 0 /\ j > 0 /\ j < h => i * j < w * h
  <2> SUFFICES ASSUME i > 0, j > 0, j < h
               PROVE  i * j < w * h
    OBVIOUS
  <2>1. i * j < i * h
    BY SMT
  <2>2. i * h <= w * h
    BY SMT
  <2>3. i * j \in Nat /\ i * h \in Nat /\ w * h \in Nat
    BY ProductNat
  <2> QED BY <2>1, <2>2, <2>3
<1>4. i * j \in Nat /\ w * h \in Nat
  BY ProductNat
<1> QED BY <1>1, <1>2, <1>3, <1>4

\* An area lies in the picture exactly when all its samples do.
LEMMA InsideIs ==
  ASSUME NEW c \in Configs, NEW a \in AreaSet, InPic(c, a) > 0
  PROVE  /\ a.x < c.picW /\ a.y < c.picH
         /\ Inside(c, a) <=> InPic(c, a) = a.w * a.h
<1> DEFINE i == Clip(a.x, a.w, c.picW)  j == Clip(a.y, a.h, c.picH)
<1>1. /\ a.x \in Nat /\ a.y \in Nat /\ a.w \in Nat \ {0} /\ a.h \in Nat \ {0}
      /\ c.picW \in Nat /\ c.picH \in Nat
  BY ConfigTyped, AreaTyped
<1>2. /\ i \in 0..a.w /\ (i = a.w <=> a.x + a.w <= c.picW) /\ (i > 0 => a.x < c.picW)
      /\ j \in 0..a.h /\ (j = a.h <=> a.y + a.h <= c.picH) /\ (j > 0 => a.y < c.picH)
  BY <1>1 DEF Clip
<1>3. i * j > 0 /\ InPic(c, a) = i * j
  BY DEF InPic
<1> HIDE DEF i, j
<1>4. i > 0 /\ j > 0 /\ (i * j = a.w * a.h <=> i = a.w /\ j = a.h)
  BY <1>1, <1>2, <1>3, FullProduct
<1> QED BY <1>2, <1>3, <1>4 DEF Inside

LEMMA Halves ==
  ASSUME NEW s \in Sizes
  PROVE  /\ s > 1 => /\ s \div 2 \in Sizes /\ s = s \div 2 + s \div 2
                     /\ (s > 8 => s \div 2 >= 8) /\ (s <= 8 => s \div 2 < 8)
         /\ s > 2 => /\ s \div 2 \in Sizes /\ s \div 4 \in Sizes
                     /\ s = s \div 4 + s \div 2 + s \div 4 /\ s \div 2 = s \div 4 + s \div 4
BY DEF Sizes

\* An area that a split divides without a remainder.
Even(a, k) ==
  /\ k \in {"quad", "horz"} => a.h > 1
  /\ k \in {"quad", "vert"} => a.w > 1
  /\ k = "trih" => a.h > 2
  /\ k = "triv" => a.w > 2

NParts(k) == IF k = "quad" THEN 4 ELSE IF k \in TtSplits THEN 3 ELSE 2

LEMMA QuadParts ==
  ASSUME NEW a \in AreaSet, Even(a, "quad")
  PROVE  LET w == a.w \div 2  h == a.h \div 2  ps == Parts(a, "quad")
         IN /\ ps \in Seq(AreaSet) /\ Len(ps) = 4
            /\ ps[1] = [x |-> a.x, y |-> a.y, w |-> w, h |-> h]
            /\ ps[2] = [x |-> a.x + w, y |-> a.y, w |-> w, h |-> h]
            /\ ps[3] = [x |-> a.x, y |-> a.y + h, w |-> w, h |-> h]
            /\ ps[4] = [x |-> a.x + w, y |-> a.y + h, w |-> w, h |-> h]
<1> DEFINE w == a.w \div 2  h == a.h \div 2  ps == Parts(a, "quad")
<1>1. w \in Sizes /\ h \in Sizes /\ w \in Nat /\ h \in Nat /\ a.x \in Nat /\ a.y \in Nat
  BY Halves, AreaTyped DEF Even, Sizes
<1>2. ps = [i \in 1..4 |-> [w |-> w, h |-> h, x |-> a.x + (IF i \in {2, 4} THEN w ELSE 0),
                            y |-> a.y + (IF i \in {3, 4} THEN h ELSE 0)]]
  BY DEF Parts
<1> HIDE DEF w, h, ps
<1>3. /\ ps[1] = [x |-> a.x, y |-> a.y, w |-> w, h |-> h]
      /\ ps[2] = [x |-> a.x + w, y |-> a.y, w |-> w, h |-> h]
      /\ ps[3] = [x |-> a.x, y |-> a.y + h, w |-> w, h |-> h]
      /\ ps[4] = [x |-> a.x + w, y |-> a.y + h, w |-> w, h |-> h]
  BY <1>1, <1>2
<1>4. \A i \in 1..4 : ps[i] \in AreaSet
  <2> TAKE i \in 1..4
  <2>1. i = 1 \/ i = 2 \/ i = 3 \/ i = 4
    OBVIOUS
  <2>2. a.x + w \in Nat /\ a.y + h \in Nat
    BY <1>1
  <2> QED BY <2>1, <2>2, <1>1, <1>3 DEF AreaSet
<1>5. ps \in Seq(AreaSet) /\ Len(ps) = 4
  <2>1. ps = [i \in 1..4 |-> ps[i]]
    BY <1>2
  <2> QED BY <2>1, <1>4
<1> QED BY <1>3, <1>5 DEF w, h, ps

LEMMA HorzParts ==
  ASSUME NEW a \in AreaSet, Even(a, "horz")
  PROVE  LET h == a.h \div 2  ps == Parts(a, "horz")
         IN /\ ps \in Seq(AreaSet) /\ Len(ps) = 2
            /\ ps[1] = [x |-> a.x, y |-> a.y, w |-> a.w, h |-> h]
            /\ ps[2] = [x |-> a.x, y |-> a.y + h, w |-> a.w, h |-> h]
<1> DEFINE h == a.h \div 2  ps == Parts(a, "horz")
           off == [i \in 1..2 |-> (i - 1) * h]
<1>1. h \in Sizes /\ h \in Nat /\ a.x \in Nat /\ a.y \in Nat /\ a.w \in Sizes
  BY Halves, AreaTyped DEF Even, Sizes
<1>2. ps = [i \in 1..2 |-> [a EXCEPT !.h = h, !.y = a.y + off[i]]]
  BY DEF Parts, AreaSet
<1> HIDE DEF h, ps
<1>3. off[1] = 0 /\ off[2] = h /\ a.y + 0 = a.y
  BY <1>1
<1> HIDE DEF off
<1>4. /\ ps[1] = [a EXCEPT !.h = h, !.y = a.y + off[1]]
      /\ ps[2] = [a EXCEPT !.h = h, !.y = a.y + off[2]]
  BY <1>2
<1>5. /\ ps[1] = [x |-> a.x, y |-> a.y, w |-> a.w, h |-> h]
      /\ ps[2] = [x |-> a.x, y |-> a.y + h, w |-> a.w, h |-> h]
  BY <1>3, <1>4 DEF AreaSet
<1>6. a.y + h \in Nat
  BY <1>1
<1>7. ps[1] \in AreaSet /\ ps[2] \in AreaSet
  BY <1>1, <1>5, <1>6 DEF AreaSet
<1>8. ps \in Seq(AreaSet) /\ Len(ps) = 2
  <2>1. ps = [i \in 1..2 |-> ps[i]]
    BY <1>2
  <2>2. \A i \in 1..2 : ps[i] \in AreaSet
    <3>1. \A i \in 1..2 : i = 1 \/ i = 2
      OBVIOUS
    <3> QED BY <3>1, <1>7
  <2> QED BY <2>1, <2>2
<1> QED BY <1>5, <1>8 DEF h, ps

LEMMA VertParts ==
  ASSUME NEW a \in AreaSet, Even(a, "vert")
  PROVE  LET w == a.w \div 2  ps == Parts(a, "vert")
         IN /\ ps \in Seq(AreaSet) /\ Len(ps) = 2
            /\ ps[1] = [x |-> a.x, y |-> a.y, w |-> w, h |-> a.h]
            /\ ps[2] = [x |-> a.x + w, y |-> a.y, w |-> w, h |-> a.h]
<1> DEFINE w == a.w \div 2  ps == Parts(a, "vert")
           off == [i \in 1..2 |-> (i - 1) * w]
<1>1. w \in Sizes /\ w \in Nat /\ a.x \in Nat /\ a.y \in Nat /\ a.h \in Sizes
  BY Halves, AreaTyped DEF Even, Sizes
<1>2. ps = [i \in 1..2 |-> [a EXCEPT !.w = w, !.x = a.x + off[i]]]
  BY DEF Parts, AreaSet
<1> HIDE DEF w, ps
<1>3. off[1] = 0 /\ off[2] = w /\ a.x + 0 = a.x
  BY <1>1
<1> HIDE DEF off
<1>4. /\ ps[1] = [a EXCEPT !.w = w, !.x = a.x + off[1]]
      /\ ps[2] = [a EXCEPT !.w = w, !.x = a.x + off[2]]
  BY <1>2
<1>5. /\ ps[1] = [x |-> a.x, y |-> a.y, w |-> w, h |-> a.h]
      /\ ps[2] = [x |-> a.x + w, y |-> a.y, w |-> w, h |-> a.h]
  BY <1>3, <1>4, ZenonT(30) DEF AreaSet
<1>6. a.x + w \in Nat
  BY <1>1
<1>7. ps[1] \in AreaSet /\ ps[2] \in AreaSet
  BY <1>1, <1>5, <1>6 DEF AreaSet
<1>8. ps \in Seq(AreaSet) /\ Len(ps) = 2
  <2>1. ps = [i \in 1..2 |-> ps[i]]
    BY <1>2
  <2>2. \A i \in 1..2 : ps[i] \in AreaSet
    <3>1. \A i \in 1..2 : i = 1 \/ i = 2
      OBVIOUS
    <3> QED BY <3>1, <1>7
  <2> QED BY <2>1, <2>2
<1> QED BY <1>5, <1>8 DEF w, ps

LEMMA TrihParts ==
  ASSUME NEW a \in AreaSet, Even(a, "trih")
  PROVE  LET q == a.h \div 4  h == a.h \div 2  ps == Parts(a, "trih")
         IN /\ ps \in Seq(AreaSet) /\ Len(ps) = 3
            /\ ps[1] = [x |-> a.x, y |-> a.y, w |-> a.w, h |-> q]
            /\ ps[2] = [x |-> a.x, y |-> a.y + q, w |-> a.w, h |-> h]
            /\ ps[3] = [x |-> a.x, y |-> a.y + (q + h), w |-> a.w, h |-> q]
<1> DEFINE q == a.h \div 4  h == a.h \div 2  ps == Parts(a, "trih")
           off == <<0, q, 3 * q>>
<1>1. /\ q \in Sizes /\ h \in Sizes /\ q \in Nat /\ h \in Nat
      /\ a.x \in Nat /\ a.y \in Nat /\ a.w \in Sizes /\ 3 * q = q + h
  BY Halves, AreaTyped DEF Even, Sizes
<1>2. ps = [i \in 1..3 |-> [a EXCEPT !.h = IF i = 2 THEN h ELSE q, !.y = a.y + off[i]]]
  BY DEF Parts, AreaSet
<1>3. off[1] = 0 /\ off[2] = q /\ off[3] = q + h
  BY <1>1
<1> HIDE DEF q, h, ps, off
<1>4. /\ ps[1] = [a EXCEPT !.h = q, !.y = a.y + off[1]]
      /\ ps[2] = [a EXCEPT !.h = h, !.y = a.y + off[2]]
      /\ ps[3] = [a EXCEPT !.h = q, !.y = a.y + off[3]]
  BY <1>2
<1>5. a.y + off[1] = a.y
  BY <1>1, <1>3
<1>6. /\ ps[1] = [x |-> a.x, y |-> a.y, w |-> a.w, h |-> q]
      /\ ps[2] = [x |-> a.x, y |-> a.y + q, w |-> a.w, h |-> h]
      /\ ps[3] = [x |-> a.x, y |-> a.y + (q + h), w |-> a.w, h |-> q]
  BY <1>3, <1>4, <1>5 DEF AreaSet
<1>7. a.y + q \in Nat /\ a.y + (q + h) \in Nat
  BY <1>1
<1>8. ps[1] \in AreaSet /\ ps[2] \in AreaSet /\ ps[3] \in AreaSet
  BY <1>1, <1>6, <1>7 DEF AreaSet
<1>9. ps \in Seq(AreaSet) /\ Len(ps) = 3
  <2>1. ps = [i \in 1..3 |-> ps[i]]
    BY <1>2
  <2>2. \A i \in 1..3 : ps[i] \in AreaSet
    <3>1. \A i \in 1..3 : i = 1 \/ i = 2 \/ i = 3
      OBVIOUS
    <3> QED BY <3>1, <1>8
  <2> QED BY <2>1, <2>2
<1> QED BY <1>6, <1>9 DEF q, h, ps

LEMMA TrivParts ==
  ASSUME NEW a \in AreaSet, Even(a, "triv")
  PROVE  LET q == a.w \div 4  w == a.w \div 2  ps == Parts(a, "triv")
         IN /\ ps \in Seq(AreaSet) /\ Len(ps) = 3
            /\ ps[1] = [x |-> a.x, y |-> a.y, w |-> q, h |-> a.h]
            /\ ps[2] = [x |-> a.x + q, y |-> a.y, w |-> w, h |-> a.h]
            /\ ps[3] = [x |-> a.x + (q + w), y |-> a.y, w |-> q, h |-> a.h]
<1> DEFINE q == a.w \div 4  w == a.w \div 2  ps == Parts(a, "triv")
           off == <<0, q, 3 * q>>
<1>1. /\ q \in Sizes /\ w \in Sizes /\ q \in Nat /\ w \in Nat
      /\ a.x \in Nat /\ a.y \in Nat /\ a.h \in Sizes /\ 3 * q = q + w
  BY Halves, AreaTyped DEF Even, Sizes
<1>2. ps = [i \in 1..3 |-> [a EXCEPT !.w = IF i = 2 THEN w ELSE q, !.x = a.x + off[i]]]
  BY DEF Parts, AreaSet
<1>3. off[1] = 0 /\ off[2] = q /\ off[3] = q + w
  BY <1>1
<1> HIDE DEF q, w, ps, off
<1>4. /\ ps[1] = [a EXCEPT !.w = q, !.x = a.x + off[1]]
      /\ ps[2] = [a EXCEPT !.w = w, !.x = a.x + off[2]]
      /\ ps[3] = [a EXCEPT !.w = q, !.x = a.x + off[3]]
  BY <1>2
<1>5. a.x + off[1] = a.x
  BY <1>1, <1>3
<1>6. /\ ps[1] = [x |-> a.x, y |-> a.y, w |-> q, h |-> a.h]
      /\ ps[2] = [x |-> a.x + q, y |-> a.y, w |-> w, h |-> a.h]
      /\ ps[3] = [x |-> a.x + (q + w), y |-> a.y, w |-> q, h |-> a.h]
  BY <1>3, <1>4, <1>5, ZenonT(30) DEF AreaSet
<1>7. a.x + q \in Nat /\ a.x + (q + w) \in Nat
  BY <1>1
<1>8. ps[1] \in AreaSet /\ ps[2] \in AreaSet /\ ps[3] \in AreaSet
  BY <1>1, <1>6, <1>7 DEF AreaSet
<1>9. ps \in Seq(AreaSet) /\ Len(ps) = 3
  <2>1. ps = [i \in 1..3 |-> ps[i]]
    BY <1>2
  <2>2. \A i \in 1..3 : ps[i] \in AreaSet
    <3>1. \A i \in 1..3 : i = 1 \/ i = 2 \/ i = 3
      OBVIOUS
    <3> QED BY <3>1, <1>8
  <2> QED BY <2>1, <2>2
<1> QED BY <1>6, <1>9 DEF q, w, ps

LEMMA PartsTyped ==
  ASSUME NEW a \in AreaSet, NEW k \in Splits, Even(a, k)
  PROVE  Parts(a, k) \in Seq(AreaSet) /\ Len(Parts(a, k)) = NParts(k)
<1>1. k \in {"quad", "horz", "vert", "trih", "triv"}
  BY DEF Splits, BtSplits, TtSplits
<1>2. k = "quad" => Parts(a, k) \in Seq(AreaSet) /\ Len(Parts(a, k)) = 4
  BY QuadParts
<1>3. k = "horz" => Parts(a, k) \in Seq(AreaSet) /\ Len(Parts(a, k)) = 2
  BY HorzParts
<1>4. k = "vert" => Parts(a, k) \in Seq(AreaSet) /\ Len(Parts(a, k)) = 2
  BY VertParts
<1>5. k = "trih" => Parts(a, k) \in Seq(AreaSet) /\ Len(Parts(a, k)) = 3
  BY TrihParts
<1>6. k = "triv" => Parts(a, k) \in Seq(AreaSet) /\ Len(Parts(a, k)) = 3
  BY TrivParts
<1> QED BY <1>1, <1>2, <1>3, <1>4, <1>5, <1>6 DEF NParts, TtSplits

(* ------------------------------- what is coded ------------------------------- *)

\* The samples of the picture in the parts before part i.
Before(c, ps, i) ==
  (IF i > 1 THEN InPic(c, ps[1]) ELSE 0) + (IF i > 2 THEN InPic(c, ps[2]) ELSE 0)
    + (IF i > 3 THEN InPic(c, ps[3]) ELSE 0)

LEMMA SizesNat == \A s \in Sizes : s \in Nat
BY DEF Sizes

LEMMA Distribute ==
  ASSUME NEW i \in Nat, NEW j \in Nat, NEW m \in Nat, NEW n \in Nat
  PROVE  /\ (i + j) * m = i * m + j * m
         /\ m * (i + j) = m * i + m * j
         /\ (i + j) * (m + n) = i * m + j * m + i * n + j * n
         /\ (i + j + n) * m = i * m + j * m + n * m
         /\ m * (i + j + n) = m * i + m * j + m * n
OBVIOUS

\* The parts of a split cover the area: as many samples of the picture.
LEMMA PartsCover ==
  ASSUME NEW c \in Configs, NEW a \in AreaSet, NEW k \in Splits, Even(a, k)
  PROVE  Before(c, Parts(a, k), NParts(k)) + InPic(c, Parts(a, k)[NParts(k)]) = InPic(c, a)
<1> DEFINE pw == c.picW  ph == c.picH  ps == Parts(a, k)
           w2 == a.w \div 2  h2 == a.h \div 2  w4 == a.w \div 4  h4 == a.h \div 4
           cw == Clip(a.x, a.w, pw)  ch == Clip(a.y, a.h, ph)
<1>1. pw \in Nat /\ ph \in Nat
  BY ConfigTyped
<1>2. a.x \in Nat /\ a.y \in Nat /\ a.w \in Sizes /\ a.h \in Sizes /\ a.w \in Nat /\ a.h \in Nat
  BY AreaTyped
<1>3. cw \in Nat /\ ch \in Nat /\ InPic(c, a) = cw * ch
  BY <1>1, <1>2 DEF Clip, InPic
<1> SUFFICES Before(c, ps, NParts(k)) + InPic(c, ps[NParts(k)]) = cw * ch
  BY <1>3
<1> HIDE DEF pw, ph, w2, h2, w4, h4, ps
<1>4. CASE k = "quad"
  <2> DEFINE w1 == Clip(a.x, w2, pw)  wr == Clip(a.x + w2, w2, pw)
             h1 == Clip(a.y, h2, ph)  hr == Clip(a.y + h2, h2, ph)
  <2>1. w2 \in Nat /\ h2 \in Nat /\ a.w = w2 + w2 /\ a.h = h2 + h2
    <3>1. a.w > 1 /\ a.h > 1
      BY <1>4 DEF Even
    <3> QED BY <3>1, <1>2, Halves, SizesNat DEF w2, h2
  <2>2. /\ ps[1] = [x |-> a.x, y |-> a.y, w |-> w2, h |-> h2]
        /\ ps[2] = [x |-> a.x + w2, y |-> a.y, w |-> w2, h |-> h2]
        /\ ps[3] = [x |-> a.x, y |-> a.y + h2, w |-> w2, h |-> h2]
        /\ ps[4] = [x |-> a.x + w2, y |-> a.y + h2, w |-> w2, h |-> h2]
    BY <1>4, QuadParts DEF ps, w2, h2
  <2>3. /\ InPic(c, ps[1]) = w1 * h1
        /\ InPic(c, ps[2]) = wr * h1
        /\ InPic(c, ps[3]) = w1 * hr
        /\ InPic(c, ps[4]) = wr * hr
    BY <2>2 DEF InPic, pw, ph
  <2>4. Before(c, ps, NParts(k)) + InPic(c, ps[NParts(k)]) = InPic(c, ps[1]) + InPic(c, ps[2]) + InPic(c, ps[3]) + InPic(c, ps[4])
    BY <1>4 DEF Before, NParts, TtSplits
  <2>5. w1 \in Nat /\ wr \in Nat /\ h1 \in Nat /\ hr \in Nat
    BY <1>1, <1>2, <2>1 DEF Clip
  <2>6. cw = w1 + wr /\ ch = h1 + hr
    BY <1>1, <1>2, <2>1 DEF Clip
  <2> HIDE DEF w1, wr, h1, hr, cw, ch
  <2>7. (w1 + wr) * (h1 + hr) = w1 * h1 + wr * h1 + w1 * hr + wr * hr
    BY <1>3, <2>5, Distribute
  <2>8. w1 * h1 \in Nat /\ wr * h1 \in Nat /\ w1 * hr \in Nat /\ wr * hr \in Nat
    BY <1>3, <2>5, ProductNat
  <2> QED BY <2>3, <2>4, <2>6, <2>7, <2>8
<1>5. CASE k = "horz"
  <2> DEFINE h1 == Clip(a.y, h2, ph)  hr == Clip(a.y + h2, h2, ph)
  <2>1. h2 \in Nat /\ a.h = h2 + h2
    <3>1. a.h > 1
      BY <1>5 DEF Even
    <3> QED BY <3>1, <1>2, Halves, SizesNat DEF h2
  <2>2. /\ ps[1] = [x |-> a.x, y |-> a.y, w |-> a.w, h |-> h2]
        /\ ps[2] = [x |-> a.x, y |-> a.y + h2, w |-> a.w, h |-> h2]
    BY <1>5, HorzParts DEF ps, h2
  <2>3. /\ InPic(c, ps[1]) = cw * h1
        /\ InPic(c, ps[2]) = cw * hr
    BY <2>2 DEF InPic, pw, ph
  <2>4. Before(c, ps, NParts(k)) + InPic(c, ps[NParts(k)]) = InPic(c, ps[1]) + 0 + 0 + InPic(c, ps[2])
    BY <1>5 DEF Before, NParts, TtSplits
  <2>5. h1 \in Nat /\ hr \in Nat
    BY <1>1, <1>2, <2>1 DEF Clip
  <2>6. ch = h1 + hr
    BY <1>1, <1>2, <2>1 DEF Clip
  <2> HIDE DEF h1, hr, cw, ch
  <2>7. cw * (h1 + hr) = cw * h1 + cw * hr
    BY <1>3, <2>5, Distribute
  <2>8. cw * h1 \in Nat /\ cw * hr \in Nat
    BY <1>3, <2>5, ProductNat
  <2> QED BY <2>3, <2>4, <2>6, <2>7, <2>8
<1>6. CASE k = "vert"
  <2> DEFINE w1 == Clip(a.x, w2, pw)  wr == Clip(a.x + w2, w2, pw)
  <2>1. w2 \in Nat /\ a.w = w2 + w2
    <3>1. a.w > 1
      BY <1>6 DEF Even
    <3> QED BY <3>1, <1>2, Halves, SizesNat DEF w2
  <2>2. /\ ps[1] = [x |-> a.x, y |-> a.y, w |-> w2, h |-> a.h]
        /\ ps[2] = [x |-> a.x + w2, y |-> a.y, w |-> w2, h |-> a.h]
    BY <1>6, VertParts DEF ps, w2
  <2>3. /\ InPic(c, ps[1]) = w1 * ch
        /\ InPic(c, ps[2]) = wr * ch
    BY <2>2 DEF InPic, pw, ph
  <2>4. Before(c, ps, NParts(k)) + InPic(c, ps[NParts(k)]) = InPic(c, ps[1]) + 0 + 0 + InPic(c, ps[2])
    BY <1>6 DEF Before, NParts, TtSplits
  <2>5. w1 \in Nat /\ wr \in Nat
    BY <1>1, <1>2, <2>1 DEF Clip
  <2>6. cw = w1 + wr
    BY <1>1, <1>2, <2>1 DEF Clip
  <2> HIDE DEF w1, wr, cw, ch
  <2>7. (w1 + wr) * ch = w1 * ch + wr * ch
    BY <1>3, <2>5, Distribute
  <2>8. w1 * ch \in Nat /\ wr * ch \in Nat
    BY <1>3, <2>5, ProductNat
  <2> QED BY <2>3, <2>4, <2>6, <2>7, <2>8
<1>7. CASE k = "trih"
  <2> DEFINE h1 == Clip(a.y, h4, ph)  hm == Clip(a.y + h4, h2, ph)
             hr == Clip(a.y + (h4 + h2), h4, ph)
  <2>1. h2 \in Nat /\ h4 \in Nat /\ a.h = h4 + h2 + h4
    <3>1. a.h > 2
      BY <1>7 DEF Even
    <3> QED BY <3>1, <1>2, Halves, SizesNat DEF h2, h4
  <2>2. /\ ps[1] = [x |-> a.x, y |-> a.y, w |-> a.w, h |-> h4]
        /\ ps[2] = [x |-> a.x, y |-> a.y + h4, w |-> a.w, h |-> h2]
        /\ ps[3] = [x |-> a.x, y |-> a.y + (h4 + h2), w |-> a.w, h |-> h4]
    BY <1>7, TrihParts DEF ps, h2, h4
  <2>3. /\ InPic(c, ps[1]) = cw * h1
        /\ InPic(c, ps[2]) = cw * hm
        /\ InPic(c, ps[3]) = cw * hr
    BY <2>2 DEF InPic, pw, ph
  <2>4. Before(c, ps, NParts(k)) + InPic(c, ps[NParts(k)]) = InPic(c, ps[1]) + InPic(c, ps[2]) + 0 + InPic(c, ps[3])
    BY <1>7 DEF Before, NParts, TtSplits
  <2>5. h1 \in Nat /\ hm \in Nat /\ hr \in Nat
    BY <1>1, <1>2, <2>1 DEF Clip
  <2>6. ch = h1 + hm + hr
    BY <1>1, <1>2, <2>1 DEF Clip
  <2> HIDE DEF h1, hm, hr, cw, ch
  <2>7. cw * (h1 + hm + hr) = cw * h1 + cw * hm + cw * hr
    BY <1>3, <2>5, Distribute
  <2>8. cw * h1 \in Nat /\ cw * hm \in Nat /\ cw * hr \in Nat
    BY <1>3, <2>5, ProductNat
  <2> QED BY <2>3, <2>4, <2>6, <2>7, <2>8
<1>8. CASE k = "triv"
  <2> DEFINE w1 == Clip(a.x, w4, pw)  wm == Clip(a.x + w4, w2, pw)
             wr == Clip(a.x + (w4 + w2), w4, pw)
  <2>1. w2 \in Nat /\ w4 \in Nat /\ a.w = w4 + w2 + w4
    <3>1. a.w > 2
      BY <1>8 DEF Even
    <3> QED BY <3>1, <1>2, Halves, SizesNat DEF w2, w4
  <2>2. /\ ps[1] = [x |-> a.x, y |-> a.y, w |-> w4, h |-> a.h]
        /\ ps[2] = [x |-> a.x + w4, y |-> a.y, w |-> w2, h |-> a.h]
        /\ ps[3] = [x |-> a.x + (w4 + w2), y |-> a.y, w |-> w4, h |-> a.h]
    BY <1>8, TrivParts DEF ps, w2, w4
  <2>3. /\ InPic(c, ps[1]) = w1 * ch
        /\ InPic(c, ps[2]) = wm * ch
        /\ InPic(c, ps[3]) = wr * ch
    BY <2>2 DEF InPic, pw, ph
  <2>4. Before(c, ps, NParts(k)) + InPic(c, ps[NParts(k)]) = InPic(c, ps[1]) + InPic(c, ps[2]) + 0 + InPic(c, ps[3])
    BY <1>8 DEF Before, NParts, TtSplits
  <2>5. w1 \in Nat /\ wm \in Nat /\ wr \in Nat
    BY <1>1, <1>2, <2>1 DEF Clip
  <2>6. cw = w1 + wm + wr
    BY <1>1, <1>2, <2>1 DEF Clip
  <2> HIDE DEF w1, wm, wr, cw, ch
  <2>7. (w1 + wm + wr) * ch = w1 * ch + wm * ch + wr * ch
    BY <1>3, <2>5, Distribute
  <2>8. w1 * ch \in Nat /\ wm * ch \in Nat /\ wr * ch \in Nat
    BY <1>3, <2>5, ProductNat
  <2> QED BY <2>3, <2>4, <2>6, <2>7, <2>8
<1>9. k \in {"quad", "horz", "vert", "trih", "triv"}
  BY DEF Splits, BtSplits, TtSplits
<1> QED BY <1>4, <1>5, <1>6, <1>7, <1>8, <1>9

(* ------------------------------ where an area lies ------------------------------ *)

\* Pictures end at a multiple of eight: an extent of at most eight samples never
\* crosses the border, and a larger one starts at a multiple of eight.
Grid(x, s, p) == IF s >= 8 THEN \E i \in Nat : x = 8 * i ELSE x + s <= p \/ p <= x
OnGrid(c, a) == Grid(a.x, a.w, c.picW) /\ Grid(a.y, a.h, c.picH)

LEMMA GridCross ==
  ASSUME NEW x \in Nat, NEW s \in Sizes, NEW p \in Nat, \E j \in Nat : p = 8 * j,
         Grid(x, s, p), x < p, p < x + s
  PROVE  s > 8
<1> SUFFICES ASSUME s <= 8
             PROVE  FALSE
  BY DEF Sizes
<1>1. s = 8
  BY DEF Grid, Sizes
<1>2. PICK i \in Nat : x = 8 * i
  BY <1>1 DEF Grid
<1>3. PICK j \in Nat : p = 8 * j
  OBVIOUS
<1> QED BY <1>1, <1>2, <1>3

LEMMA GridHalf ==
  ASSUME NEW x \in Nat, NEW s \in Sizes, NEW p \in Nat, \E j \in Nat : p = 8 * j,
         Grid(x, s, p), s > 1
  PROVE  Grid(x, s \div 2, p) /\ Grid(x + s \div 2, s \div 2, p)
<1> DEFINE t == s \div 2
<1>1. t \in Nat /\ s \in Nat /\ s = t + t
  BY Halves DEF Sizes
<1>2. CASE s > 8
  <2>1. PICK i \in Nat : x = 8 * i
    BY <1>2, <1>1 DEF Grid
  <2>2. PICK m \in {1, 2, 4, 8} : t = 8 * m
    BY <1>2 DEF Sizes
  <2>3. t >= 8 /\ i + m \in Nat /\ x + t = 8 * (i + m)
    BY <2>1, <2>2
  <2> HIDE DEF t
  <2>4. Grid(x, t, p) /\ Grid(x + t, t, p)
    BY <2>1, <2>3 DEF Grid
  <2> QED BY <2>4 DEF t
<1>3. CASE s <= 8
  <2>1. t < 8
    BY <1>3, Halves
  <2>2. x + s <= p \/ p <= x
    <3>1. CASE s = 8
      <4>1. PICK i \in Nat : x = 8 * i
        BY <3>1 DEF Grid
      <4>2. PICK j \in Nat : p = 8 * j
        OBVIOUS
      <4> QED BY <3>1, <4>1, <4>2
    <3>2. CASE s < 8
      BY <3>2, <1>1 DEF Grid
    <3> QED BY <3>1, <3>2, <1>3, <1>1
  <2> HIDE DEF t
  <2>3. Grid(x, t, p) /\ Grid(x + t, t, p)
    BY <1>1, <2>1, <2>2 DEF Grid
  <2> QED BY <2>3 DEF t
<1> QED BY <1>2, <1>3, <1>1

\* What the border adds to the depth: each implicit binary split halves the extent
\* that crosses it, and an extent of eight samples does not cross.
Shrunk(s, i) ==
  \/ i = 0 /\ s <= 64
  \/ i = 1 /\ s <= 32
  \/ i = 2 /\ s <= 16
  \/ i = 3 /\ s <= 8

Large(c, a) == c.dual /\ (a.w > 64 \/ a.h > 64)

\* An area below binary splits at the border only: a further one is allowed.
Chain(c, a, n) ==
  /\ OnGrid(c, a)
  /\ n.bt >= 1 /\ n.mt < c.maxMtt + n.implicitBt
  /\ a.w <= 64 /\ a.h <= 64 /\ a.w <= c.maxBt /\ a.h <= c.maxBt
  /\ c.minQt <= 8 => \/ a.x + a.w <= c.picW /\ Shrunk(a.h, n.implicitBt)
                     \/ a.y + a.h <= c.picH /\ Shrunk(a.w, n.implicitBt)

\* What is known of a part of split k, with the counters n.
Depths(c, n) ==
  /\ n.mt <= c.maxMtt + n.implicitBt
  /\ c.minQt <= 8 => n.implicitBt <= 3

OfQuad(c, a, n) ==
  /\ a.w = a.h /\ OnGrid(c, a)
  /\ n.mt = 0 /\ n.bt = 0 /\ n.implicitBt = 0

OfMtt(c, k, a, n) ==
  /\ ~Large(c, a)
  /\ \/ Inside(c, a)
     \/ k \in BtSplits /\ Chain(c, a, n)

Placed(c, k, a, n) ==
  /\ Depths(c, n)
  /\ k \in {"ctu", "quad"} => OfQuad(c, a, n)
  /\ k \notin {"ctu", "quad"} => OfMtt(c, k, a, n)

\* The counters below split k of an area with the counters m, at its part i.
Deeper(k, imp, i, m) ==
  [depth |-> m.depth + 1,
   subdiv |-> m.subdiv + (IF k \in BtSplits \/ (k \in TtSplits /\ i = 2) THEN 1 ELSE 2),
   qt |-> m.qt + (IF k = "quad" THEN 1 ELSE 0),
   mt |-> IF k = "quad" THEN 0 ELSE m.mt + 1,
   bt |-> IF k = "quad" THEN 0 ELSE m.bt + (IF k \in TtSplits /\ i # 2 THEN 2 ELSE 1),
   implicitBt |-> m.implicitBt + (IF k # "quad" /\ imp THEN 1 ELSE 0)]

LEMMA DeeperTyped ==
  ASSUME NEW k, NEW imp \in BOOLEAN, NEW i, NEW m \in CountSet
  PROVE  Deeper(k, imp, i, m) \in CountSet
BY DEF Deeper, CountSet

\* getImplicitSplit in words: what holds of the area for each result.
LEMMA ImplicitMeans ==
  ASSUME cfg \in Configs, Area \in AreaSet, count \in CountSet
  PROVE  /\ Implicit \in {None, "quad", "horz", "vert"}
         /\ Implicit = None <=> Inside(cfg, Area) /\ ~Large(cfg, Area)
         /\ Implicit = "horz" =>
              /\ ~Large(cfg, Area) /\ Area.y + Area.h > cfg.picH /\ Area.w <= 64
              /\ Area.w <= cfg.maxBt /\ Area.h <= cfg.maxBt
              /\ count.mt < cfg.maxMtt + count.implicitBt
              /\ Area.x + Area.w <= cfg.picW \/ ~(Area.w > cfg.minQt /\ Area.h > cfg.minQt /\ count.bt = 0)
         /\ Implicit = "vert" =>
              /\ ~Large(cfg, Area) /\ Area.x + Area.w > cfg.picW /\ Area.h <= 64
              /\ Area.w <= cfg.maxBt /\ Area.h <= cfg.maxBt
              /\ count.mt < cfg.maxMtt + count.implicitBt
              /\ \/ Area.y + Area.h <= cfg.picH
                 \/ ~(Area.w > cfg.minQt /\ Area.h > cfg.minQt /\ count.bt = 0)
         /\ Chain(cfg, Area, count) /\ ~Large(cfg, Area) => Implicit # "quad"
<1> DEFINE w == Area.w  h == Area.h  blIn == Area.y + h <= cfg.picH  trIn == Area.x + w <= cfg.picW
           btOk == w <= cfg.maxBt /\ h <= cfg.maxBt /\ count.mt < cfg.maxMtt + count.implicitBt
           qtOk == w > cfg.minQt /\ h > cfg.minQt /\ count.bt = 0
           large == cfg.dual /\ (w > 64 \/ h > 64)
<1>1. Implicit = IF large THEN "quad"
                 ELSE IF ~blIn /\ ~trIn /\ qtOk THEN "quad"
                 ELSE IF ~blIn /\ btOk /\ w <= 64 THEN "horz"
                 ELSE IF ~trIn /\ btOk /\ h <= 64 THEN "vert"
                 ELSE IF ~blIn \/ ~trIn THEN "quad"
                 ELSE None
  BY DEF Implicit, MaxTbSize
<1>2. /\ Area.x \in Nat /\ Area.y \in Nat /\ w \in Nat /\ h \in Nat
      /\ cfg.picW \in Nat /\ cfg.picH \in Nat /\ cfg.dual \in BOOLEAN
      /\ count.bt \in Int
  BY ConfigTyped, AreaTyped, CountTyped
<1>3. /\ ~blIn <=> Area.y + Area.h > cfg.picH
      /\ ~trIn <=> Area.x + Area.w > cfg.picW
  BY <1>2
<1>4. large <=> Large(cfg, Area)
  BY DEF Large
<1>5. blIn /\ trIn <=> Inside(cfg, Area)
  BY DEF Inside
<1>6. Chain(cfg, Area, count) => ~qtOk /\ btOk /\ w <= 64 /\ h <= 64
  BY <1>2 DEF Chain
<1> HIDE DEF large, blIn, trIn
<1>7. /\ Implicit \in {None, "quad", "horz", "vert"}
      /\ Implicit = None <=> blIn /\ trIn /\ ~large
      /\ Implicit = "horz" => ~large /\ ~blIn /\ w <= 64 /\ btOk /\ (trIn \/ ~qtOk)
      /\ Implicit = "vert" => ~large /\ ~trIn /\ h <= 64 /\ btOk /\ (blIn \/ ~qtOk)
      /\ ~qtOk /\ btOk /\ w <= 64 /\ h <= 64 /\ ~large => Implicit # "quad"
  <2> HIDE DEF btOk, qtOk
  <2>1. CASE large
    BY <2>1, <1>1 DEF None
  <2>2. CASE ~large /\ ~blIn /\ ~trIn /\ qtOk
    BY <2>2, <1>1 DEF None
  <2>3. CASE ~large /\ ~(~blIn /\ ~trIn /\ qtOk) /\ ~blIn /\ btOk /\ w <= 64
    <3>1. Implicit = "horz"
      BY <2>3, <1>1
    <3> QED BY <2>3, <3>1 DEF None
  <2>4. CASE ~large /\ ~(~blIn /\ ~trIn /\ qtOk) /\ ~(~blIn /\ btOk /\ w <= 64)
    <3>1. Implicit = IF ~trIn /\ btOk /\ h <= 64 THEN "vert" ELSE IF ~blIn \/ ~trIn THEN "quad" ELSE None
      BY <2>4, <1>1
    <3> QED BY <2>4, <3>1 DEF None
  <2> QED BY <2>1, <2>2, <2>3, <2>4
<1> QED BY <1>3, <1>4, <1>5, <1>6, <1>7 DEF trIn, blIn

\* An implicit vertical split is never too narrow for the chroma of its parts.
LEMMA ImplicitAllowed ==
  ASSUME cfg \in Configs, Area \in AreaSet, count \in CountSet, OnGrid(cfg, Area),
         Area.x < cfg.picW
  PROVE  /\ Implicit = "horz" => CanImplicit("horz")
         /\ Implicit = "vert" => CanImplicit("vert")
<1>1. Implicit = "vert" => Area.w > 8
  <2> SUFFICES ASSUME Implicit = "vert"
               PROVE  Area.w > 8
    OBVIOUS
  <2>1. cfg.picW < Area.x + Area.w
    BY ImplicitMeans, AreaTyped, ConfigTyped
  <2>2. /\ Area.x \in Nat /\ Area.w \in Sizes /\ cfg.picW \in Nat /\ (\E j \in Nat : cfg.picW = 8 * j)
        /\ Grid(Area.x, Area.w, cfg.picW)
    BY AreaTyped, ConfigTyped DEF OnGrid
  <2> QED BY <2>1, <2>2, GridCross
<1>2. Implicit = "vert" => ChromaW # 4
  BY <1>1, AreaTyped DEF ChromaW, Sizes
<1> QED BY <1>2 DEF CanImplicit

\* A quad split is never below another split than a quad split.
LEMMA QuadAbove ==
  ASSUME cfg \in Configs, Area \in AreaSet, count \in CountSet,
         Placed(cfg, LastSplit, Area, count), InPic(cfg, Area) > 0, CanSplit("quad")
  PROVE  LastSplit \in {"ctu", "quad"}
<1> SUFFICES ASSUME LastSplit \notin {"ctu", "quad"}
             PROVE  FALSE
  OBVIOUS
<1>1. ~QtAllowed
  BY DEF QtAllowed
<1>2. Implicit # None /\ ~CanImplicit("horz") /\ ~CanImplicit("vert")
  <2>1. ~CanImplicit("quad") /\ "quad" \notin BtSplits /\ "quad" \notin TtSplits
    BY DEF CanImplicit, BtSplits, TtSplits
  <2> QED BY <1>1, <2>1 DEF CanSplit
<1>3. ~Large(cfg, Area) /\ Chain(cfg, Area, count)
  BY <1>2, ImplicitMeans DEF Placed, OfMtt
<1>4. Implicit \in {"horz", "vert"}
  BY <1>2, <1>3, ImplicitMeans
<1>5. OnGrid(cfg, Area) /\ Area.x < cfg.picW
  BY <1>3, InsideIs DEF Chain
<1> QED BY <1>2, <1>4, <1>5, ImplicitAllowed

\* The parts of a quad split are square, on the grid, and free of other splits.
LEMMA QuadPlaces ==
  ASSUME cfg \in Configs, Area \in AreaSet, count \in CountSet,
         Placed(cfg, LastSplit, Area, count), InPic(cfg, Area) > 0, CanSplit("quad"),
         NEW imp \in BOOLEAN
  PROVE  /\ Even(Area, "quad") /\ count.mt = 0 /\ count.bt = 0
         /\ \A i \in 1..4 : Placed(cfg, "quad", Parts(Area, "quad")[i], Deeper("quad", imp, 1, count))
<1>1. LastSplit \in {"ctu", "quad"}
  BY QuadAbove
<1>2. OfQuad(cfg, Area, count)
  BY <1>1 DEF Placed
<1>3. /\ Area.x \in Nat /\ Area.y \in Nat /\ Area.w \in Sizes /\ Area.h \in Sizes /\ Area.w = Area.h
      /\ Grid(Area.x, Area.w, cfg.picW) /\ Grid(Area.y, Area.h, cfg.picH)
      /\ cfg.picW \in Nat /\ (\E j \in Nat : cfg.picW = 8 * j) /\ cfg.maxMtt \in Nat
      /\ cfg.picH \in Nat /\ (\E j \in Nat : cfg.picH = 8 * j) /\ cfg.minQt \in Nat \ {0}
  BY <1>2, AreaTyped, ConfigTyped DEF OfQuad, OnGrid
<1>4. Area.w > 1
  <2>1. CASE Implicit = None
    <3>1. QtAllowed
      <4>1. "quad" \notin BtSplits /\ "quad" \notin TtSplits
        BY DEF BtSplits, TtSplits
      <4> QED BY <2>1, <4>1 DEF CanSplit
    <3> QED BY <3>1, <1>3, SizesNat DEF QtAllowed
  <2>2. CASE Implicit # None
    <3>1. Large(cfg, Area) => Area.w > 1
      BY <1>3, SizesNat DEF Large
    <3>2. ~Inside(cfg, Area) => Area.w > 1
      <4>1. Area.x < cfg.picW /\ Area.y < cfg.picH
        BY InsideIs
      <4>2. ~Inside(cfg, Area) => cfg.picW < Area.x + Area.w \/ cfg.picH < Area.y + Area.h
        BY <1>3, SizesNat DEF Inside
      <4>3. ~Inside(cfg, Area) => Area.w > 8 \/ Area.h > 8
        BY <1>3, <4>1, <4>2, GridCross
      <4> QED BY <4>3, <1>3, SizesNat
    <3> QED BY <2>2, <3>1, <3>2, ImplicitMeans
  <2> QED BY <2>1, <2>2
<1>5. Even(Area, "quad")
  BY <1>3, <1>4 DEF Even
<1> DEFINE n == Deeper("quad", imp, 1, count)
           w == Area.w \div 2  h == Area.h \div 2  ps == Parts(Area, "quad")
<1>6. n.mt = 0 /\ n.bt = 0 /\ n.implicitBt = 0
  <2>1. count.implicitBt = 0
    BY <1>2 DEF OfQuad
  <2> QED BY <2>1 DEF Deeper
<1>7. Depths(cfg, n)
  BY <1>3, <1>6 DEF Depths
<1>8. /\ Grid(Area.x, w, cfg.picW) /\ Grid(Area.x + w, w, cfg.picW)
      /\ Grid(Area.y, h, cfg.picH) /\ Grid(Area.y + h, h, cfg.picH)
      /\ w = h
  BY <1>3, <1>4, GridHalf
<1> HIDE DEF n, w, h
<1>9. /\ ps[1] = [x |-> Area.x, y |-> Area.y, w |-> w, h |-> h]
      /\ ps[2] = [x |-> Area.x + w, y |-> Area.y, w |-> w, h |-> h]
      /\ ps[3] = [x |-> Area.x, y |-> Area.y + h, w |-> w, h |-> h]
      /\ ps[4] = [x |-> Area.x + w, y |-> Area.y + h, w |-> w, h |-> h]
  BY <1>5, QuadParts DEF w, h
<1> HIDE DEF ps
<1>10. \A i \in 1..4 : OfQuad(cfg, ps[i], n)
  <2> TAKE i \in 1..4
  <2>1. i = 1 \/ i = 2 \/ i = 3 \/ i = 4
    OBVIOUS
  <2>2. OnGrid(cfg, ps[1]) /\ OnGrid(cfg, ps[2]) /\ OnGrid(cfg, ps[3]) /\ OnGrid(cfg, ps[4])
    BY <1>8, <1>9 DEF OnGrid
  <2>3. ps[1].w = ps[1].h /\ ps[2].w = ps[2].h /\ ps[3].w = ps[3].h /\ ps[4].w = ps[4].h
    BY <1>8, <1>9
  <2> QED BY <2>1, <2>2, <2>3, <1>6 DEF OfQuad
<1>11. \A i \in 1..4 : Placed(cfg, "quad", ps[i], n)
  BY <1>7, <1>10 DEF Placed
<1> QED BY <1>2, <1>5, <1>11 DEF n, ps, OfQuad

LEMMA MttCounts ==
  ASSUME NEW k \in BtSplits \cup TtSplits, NEW imp \in BOOLEAN, NEW m \in CountSet, NEW i \in {1, 2, 3}
  PROVE  LET n == Deeper(k, imp, i, m)
         IN /\ n.mt = m.mt + 1
            /\ n.implicitBt = IF imp THEN m.implicitBt + 1 ELSE m.implicitBt
            /\ k \in BtSplits => n.bt = m.bt + 1
<1>1. k # "quad"
  BY DEF BtSplits, TtSplits
<1>2. m.implicitBt \in Int /\ (k \in BtSplits => k \notin TtSplits)
  BY CountTyped DEF BtSplits, TtSplits
<1> QED BY <1>1, <1>2 DEF Deeper

\* A split with a flag, of an area in the picture: its parts are in the picture.
LEMMA ExplicitPlaces ==
  ASSUME cfg \in Configs, Area \in AreaSet, count \in CountSet,
         Placed(cfg, LastSplit, Area, count), Implicit = None,
         NEW k \in BtSplits \cup TtSplits, CanSplit(k)
  PROVE  /\ Even(Area, k)
         /\ \A i \in 1..NParts(k) : Placed(cfg, k, Parts(Area, k)[i], Deeper(k, FALSE, 1, count))
<1>1. /\ Area.x \in Nat /\ Area.y \in Nat /\ Area.w \in Sizes /\ Area.h \in Sizes
      /\ Area.w \in Nat /\ Area.h \in Nat
      /\ cfg.picW \in Nat /\ cfg.picH \in Nat /\ cfg.minBt \in Nat \ {0} /\ cfg.minTt \in Nat \ {0}
      /\ cfg.maxMtt \in Nat /\ count.mt \in Int /\ count.implicitBt \in Int
  BY AreaTyped, ConfigTyped, CountTyped
<1>2. /\ Area.x + Area.w <= cfg.picW /\ Area.y + Area.h <= cfg.picH
      /\ ~(cfg.dual /\ (Area.w > 64 \/ Area.h > 64))
  BY ImplicitMeans DEF Inside, Large
<1>3. MttAllowed /\ (k \in BtSplits => BtFits(k)) /\ (k \in TtSplits => TtFits(k))
  <2>1. k # "quad" /\ ~(k \in BtSplits /\ k \in TtSplits)
    BY DEF BtSplits, TtSplits
  <2> QED BY <2>1 DEF CanSplit
<1>4. /\ k = "horz" => Area.h > 1
      /\ k = "vert" => Area.w > 1
      /\ k = "trih" => Area.h > 2
      /\ k = "triv" => Area.w > 2
  <2>1. k = "horz" => Area.h > cfg.minBt
    BY <1>3 DEF BtFits, BtSplits
  <2>2. k = "vert" => Area.w > cfg.minBt
    BY <1>3 DEF BtFits, BtSplits
  <2>3. k = "trih" => Area.h > 2 * cfg.minTt
    BY <1>3 DEF TtFits, TtSplits
  <2>4. k = "triv" => Area.w > 2 * cfg.minTt
    BY <1>3 DEF TtFits, TtSplits
  <2> QED BY <1>1, <2>1, <2>2, <2>3, <2>4
<1>5. k \in {"horz", "vert", "trih", "triv"}
  BY DEF BtSplits, TtSplits
<1>6. Even(Area, k)
  BY <1>4, <1>5 DEF Even
<1> DEFINE n == Deeper(k, FALSE, 1, count)  ps == Parts(Area, k)
<1>7. n.mt = count.mt + 1 /\ n.implicitBt = count.implicitBt
  BY MttCounts
<1> HIDE DEF n, ps
<1>8. Depths(cfg, n)
  <2>1. count.mt < cfg.maxMtt + count.implicitBt
    BY <1>3 DEF MttAllowed, MaxMttHere
  <2>2. cfg.minQt <= 8 => count.implicitBt <= 3
    BY DEF Placed, Depths
  <2> QED BY <1>1, <1>7, <2>1, <2>2 DEF Depths
<1> USE DEF ps
<1> DEFINE Within(a) == /\ a.x + a.w <= Area.x + Area.w /\ a.y + a.h <= Area.y + Area.h
                        /\ a.w <= Area.w /\ a.h <= Area.h
                        /\ a.x + a.w \in Nat /\ a.y + a.h \in Nat /\ a.w \in Nat /\ a.h \in Nat
<1>9. \A i \in 1..NParts(k) : Within(ps[i])
  <2> DEFINE w2 == Area.w \div 2  h2 == Area.h \div 2  w4 == Area.w \div 4  h4 == Area.h \div 4
  <2>1. CASE k = "horz"
    <3>1. h2 \in Nat /\ Area.h = h2 + h2
      BY <1>1, <1>4, <2>1, Halves, SizesNat
    <3>2. /\ ps[1] = [x |-> Area.x, y |-> Area.y, w |-> Area.w, h |-> h2]
          /\ ps[2] = [x |-> Area.x, y |-> Area.y + h2, w |-> Area.w, h |-> h2]
      BY <1>6, <2>1, HorzParts
    <3> HIDE DEF h2, ps
    <3>3. Within(ps[1]) /\ Within(ps[2])
      BY <1>1, <3>1, <3>2
    <3>4. \A i \in 1..NParts(k) : i = 1 \/ i = 2
      BY <2>1 DEF NParts, TtSplits
    <3> QED BY <3>3, <3>4
  <2>2. CASE k = "vert"
    <3>1. w2 \in Nat /\ Area.w = w2 + w2
      BY <1>1, <1>4, <2>2, Halves, SizesNat
    <3>2. /\ ps[1] = [x |-> Area.x, y |-> Area.y, w |-> w2, h |-> Area.h]
          /\ ps[2] = [x |-> Area.x + w2, y |-> Area.y, w |-> w2, h |-> Area.h]
      BY <1>6, <2>2, VertParts
    <3> HIDE DEF w2, ps
    <3>3. Within(ps[1]) /\ Within(ps[2])
      BY <1>1, <3>1, <3>2
    <3>4. \A i \in 1..NParts(k) : i = 1 \/ i = 2
      BY <2>2 DEF NParts, TtSplits
    <3> QED BY <3>3, <3>4
  <2>3. CASE k = "trih"
    <3>1. h2 \in Nat /\ h4 \in Nat /\ Area.h = h4 + h2 + h4
      BY <1>1, <1>4, <2>3, Halves, SizesNat
    <3>2. /\ ps[1] = [x |-> Area.x, y |-> Area.y, w |-> Area.w, h |-> h4]
          /\ ps[2] = [x |-> Area.x, y |-> Area.y + h4, w |-> Area.w, h |-> h2]
          /\ ps[3] = [x |-> Area.x, y |-> Area.y + (h4 + h2), w |-> Area.w, h |-> h4]
      BY <1>6, <2>3, TrihParts
    <3> HIDE DEF h2, h4, ps
    <3>3. Within(ps[1]) /\ Within(ps[2]) /\ Within(ps[3])
      BY <1>1, <3>1, <3>2
    <3>4. \A i \in 1..NParts(k) : i = 1 \/ i = 2 \/ i = 3
      BY <2>3 DEF NParts, TtSplits
    <3> QED BY <3>3, <3>4
  <2>4. CASE k = "triv"
    <3>1. w2 \in Nat /\ w4 \in Nat /\ Area.w = w4 + w2 + w4
      BY <1>1, <1>4, <2>4, Halves, SizesNat
    <3>2. /\ ps[1] = [x |-> Area.x, y |-> Area.y, w |-> w4, h |-> Area.h]
          /\ ps[2] = [x |-> Area.x + w4, y |-> Area.y, w |-> w2, h |-> Area.h]
          /\ ps[3] = [x |-> Area.x + (w4 + w2), y |-> Area.y, w |-> w4, h |-> Area.h]
      BY <1>6, <2>4, TrivParts
    <3> HIDE DEF w2, w4, ps
    <3>3. Within(ps[1]) /\ Within(ps[2]) /\ Within(ps[3])
      BY <1>1, <3>1, <3>2
    <3>4. \A i \in 1..NParts(k) : i = 1 \/ i = 2 \/ i = 3
      BY <2>4 DEF NParts, TtSplits
    <3> QED BY <3>3, <3>4
  <2> QED BY <1>5, <2>1, <2>2, <2>3, <2>4
<1> HIDE DEF ps
<1>10. \A i \in 1..NParts(k) : Placed(cfg, k, ps[i], n)
  <2> TAKE i \in 1..NParts(k)
  <2>1. Within(ps[i])
    BY <1>9
  <2>2. Inside(cfg, ps[i]) /\ ~Large(cfg, ps[i])
    BY <1>1, <1>2, <2>1 DEF Inside, Large
  <2> QED BY <1>5, <1>8, <2>2 DEF Placed, OfMtt
<1> QED BY <1>6, <1>10 DEF n, ps

LEMMA ShrunkHalf ==
  ASSUME NEW s \in Sizes, NEW i \in Int, Shrunk(s, i), s > 8
  PROVE  Shrunk(s \div 2, i + 1) /\ i + 1 <= 3
BY DEF Shrunk, Sizes

\* An area that is split at the border without a flag.
LEMMA AtBorder ==
  ASSUME cfg \in Configs, Area \in AreaSet, count \in CountSet,
         Placed(cfg, LastSplit, Area, count), Implicit \in BtSplits
  PROVE  /\ OnGrid(cfg, Area) /\ count.bt >= 0 /\ Area.w <= 64 /\ Area.h <= 64
         /\ LastSplit \in {"ctu", "quad"} => Area.w = Area.h /\ count.bt = 0 /\ count.implicitBt = 0
         /\ LastSplit \notin {"ctu", "quad"} => Chain(cfg, Area, count)
<1>1. Area.w \in Nat /\ Area.h \in Nat /\ count.bt \in Int /\ Implicit # None
  BY AreaTyped, CountTyped, SizesNat DEF BtSplits, None
<1>2. CASE LastSplit \in {"ctu", "quad"}
  <2>1. OfQuad(cfg, Area, count)
    BY <1>2 DEF Placed
  <2>2. Area.w <= 64 \/ Area.h <= 64
    BY ImplicitMeans DEF BtSplits
  <2> QED BY <1>1, <1>2, <2>1, <2>2 DEF OfQuad
<1>3. CASE LastSplit \notin {"ctu", "quad"}
  <2>1. ~Large(cfg, Area) /\ (Inside(cfg, Area) \/ Chain(cfg, Area, count))
    BY <1>3 DEF Placed, OfMtt
  <2>2. Chain(cfg, Area, count)
    BY <1>1, <2>1, ImplicitMeans
  <2> QED BY <1>1, <1>3, <2>2 DEF Chain
<1> QED BY <1>2, <1>3

LEMMA HorzPlaces ==
  ASSUME cfg \in Configs, Area \in AreaSet, count \in CountSet,
         Placed(cfg, LastSplit, Area, count), InPic(cfg, Area) > 0, Implicit = "horz"
  PROVE  /\ Even(Area, "horz")
         /\ \A i \in 1..2 : Placed(cfg, "horz", Parts(Area, "horz")[i], Deeper("horz", TRUE, 1, count))
<1> DEFINE n == Deeper("horz", TRUE, 1, count)  ps == Parts(Area, "horz")  h == Area.h \div 2
<1>1. /\ Area.x \in Nat /\ Area.y \in Nat /\ Area.w \in Sizes /\ Area.h \in Sizes
      /\ Area.w \in Nat /\ Area.h \in Nat
      /\ cfg.picW \in Nat /\ cfg.picH \in Nat /\ cfg.minQt \in Nat /\ cfg.maxBt \in Nat
      /\ cfg.maxMtt \in Nat /\ count.mt \in Int /\ count.implicitBt \in Int /\ count.bt \in Int
      /\ \E j \in Nat : cfg.picH = 8 * j
  BY AreaTyped, ConfigTyped, CountTyped, SizesNat
<1>2. /\ OnGrid(cfg, Area) /\ count.bt >= 0 /\ Area.w <= 64 /\ Area.h <= 64
      /\ LastSplit \in {"ctu", "quad"} => Area.w = Area.h /\ count.bt = 0 /\ count.implicitBt = 0
      /\ LastSplit \notin {"ctu", "quad"} => Chain(cfg, Area, count)
  BY AtBorder DEF BtSplits
<1>3. /\ Area.y + Area.h > cfg.picH /\ Area.w <= cfg.maxBt /\ Area.h <= cfg.maxBt
      /\ count.mt < cfg.maxMtt + count.implicitBt
      /\ \/ Area.x + Area.w <= cfg.picW
         \/ ~(Area.w > cfg.minQt /\ Area.h > cfg.minQt /\ count.bt = 0)
  BY ImplicitMeans
<1>4. Area.h > 8
  <2>1. Area.y < cfg.picH /\ cfg.picH < Area.y + Area.h /\ Grid(Area.y, Area.h, cfg.picH)
    BY <1>1, <1>2, <1>3, InsideIs DEF OnGrid
  <2> QED BY <1>1, <2>1, GridCross
<1>5. cfg.minQt <= 8 => Area.x + Area.w <= cfg.picW /\ Shrunk(Area.h, count.implicitBt)
  <2>1. CASE LastSplit \in {"ctu", "quad"}
    BY <2>1, <1>1, <1>2, <1>3, <1>4 DEF Shrunk
  <2>2. CASE LastSplit \notin {"ctu", "quad"}
    <3>1. ~(Area.y + Area.h <= cfg.picH)
      BY <1>1, <1>3
    <3> QED BY <2>2, <3>1, <1>2 DEF Chain
  <2> QED BY <2>1, <2>2
<1>6. Even(Area, "horz")
  BY <1>1, <1>4 DEF Even
<1>7. h \in Nat /\ h <= Area.h
  <2>1. Area.h > 1
    BY <1>1, <1>4
  <2>2. h \in Nat /\ Area.h = h + h
    BY <1>1, <2>1, Halves, SizesNat
  <2> HIDE DEF h
  <2> QED BY <2>2
<1>8. cfg.minQt <= 8 => Shrunk(h, count.implicitBt + 1) /\ count.implicitBt + 1 <= 3
  BY <1>1, <1>4, <1>5, ShrunkHalf
<1>9. Grid(Area.y, h, cfg.picH) /\ Grid(Area.y + h, h, cfg.picH)
  <2>1. Area.h > 1 /\ Grid(Area.y, Area.h, cfg.picH)
    BY <1>1, <1>2, <1>4 DEF OnGrid
  <2> QED BY <1>1, <2>1, GridHalf
<1>10. n.mt = count.mt + 1 /\ n.implicitBt = count.implicitBt + 1 /\ n.bt = count.bt + 1
  BY <1>1, MttCounts DEF BtSplits
<1>11. /\ ps[1] = [x |-> Area.x, y |-> Area.y, w |-> Area.w, h |-> h]
       /\ ps[2] = [x |-> Area.x, y |-> Area.y + h, w |-> Area.w, h |-> h]
  BY <1>6, HorzParts
<1> HIDE DEF n, ps, h
<1>12. Depths(cfg, n)
  BY <1>1, <1>3, <1>8, <1>10 DEF Depths
<1>13. n.bt >= 1 /\ n.mt < cfg.maxMtt + n.implicitBt
  BY <1>1, <1>2, <1>3, <1>10
<1>14. ASSUME NEW a, a = ps[1] \/ a = ps[2]
       PROVE  Placed(cfg, "horz", a, n)
  <2>1. a.x = Area.x /\ a.w = Area.w /\ a.h = h /\ Grid(a.y, a.h, cfg.picH)
    BY <1>9, <1>11, <1>14
  <2>2. OnGrid(cfg, a)
    BY <2>1, <1>2 DEF OnGrid
  <2>3. a.w <= 64 /\ a.h <= 64 /\ a.w <= cfg.maxBt /\ a.h <= cfg.maxBt
    BY <1>1, <1>2, <1>3, <1>7, <2>1
  <2>4. cfg.minQt <= 8 => a.x + a.w <= cfg.picW /\ Shrunk(a.h, n.implicitBt)
    BY <1>5, <1>8, <1>10, <2>1
  <2>5. Chain(cfg, a, n)
    BY <2>2, <2>3, <2>4, <1>13 DEF Chain
  <2>6. ~Large(cfg, a)
    BY <1>1, <1>7, <2>1, <2>3 DEF Large
  <2> QED BY <1>12, <2>5, <2>6 DEF Placed, OfMtt, BtSplits
<1>15. \A i \in 1..2 : i = 1 \/ i = 2
  OBVIOUS
<1>16. \A i \in 1..2 : Placed(cfg, "horz", ps[i], n)
  BY <1>14, <1>15
<1> QED BY <1>6, <1>16 DEF n, ps

LEMMA VertPlaces ==
  ASSUME cfg \in Configs, Area \in AreaSet, count \in CountSet,
         Placed(cfg, LastSplit, Area, count), InPic(cfg, Area) > 0, Implicit = "vert"
  PROVE  /\ Even(Area, "vert")
         /\ \A i \in 1..2 : Placed(cfg, "vert", Parts(Area, "vert")[i], Deeper("vert", TRUE, 1, count))
<1> DEFINE n == Deeper("vert", TRUE, 1, count)  ps == Parts(Area, "vert")  w == Area.w \div 2
<1>1. /\ Area.x \in Nat /\ Area.y \in Nat /\ Area.w \in Sizes /\ Area.h \in Sizes
      /\ Area.w \in Nat /\ Area.h \in Nat
      /\ cfg.picW \in Nat /\ cfg.picH \in Nat /\ cfg.minQt \in Nat /\ cfg.maxBt \in Nat
      /\ cfg.maxMtt \in Nat /\ count.mt \in Int /\ count.implicitBt \in Int /\ count.bt \in Int
      /\ \E j \in Nat : cfg.picW = 8 * j
  BY AreaTyped, ConfigTyped, CountTyped, SizesNat
<1>2. /\ OnGrid(cfg, Area) /\ count.bt >= 0 /\ Area.w <= 64 /\ Area.h <= 64
      /\ LastSplit \in {"ctu", "quad"} => Area.w = Area.h /\ count.bt = 0 /\ count.implicitBt = 0
      /\ LastSplit \notin {"ctu", "quad"} => Chain(cfg, Area, count)
  BY AtBorder DEF BtSplits
<1>3. /\ Area.x + Area.w > cfg.picW /\ Area.w <= cfg.maxBt /\ Area.h <= cfg.maxBt
      /\ count.mt < cfg.maxMtt + count.implicitBt
      /\ \/ Area.y + Area.h <= cfg.picH
         \/ ~(Area.w > cfg.minQt /\ Area.h > cfg.minQt /\ count.bt = 0)
  BY ImplicitMeans
<1>4. Area.w > 8
  <2>1. Area.x < cfg.picW /\ cfg.picW < Area.x + Area.w /\ Grid(Area.x, Area.w, cfg.picW)
    BY <1>1, <1>2, <1>3, InsideIs DEF OnGrid
  <2> QED BY <1>1, <2>1, GridCross
<1>5. cfg.minQt <= 8 => Area.y + Area.h <= cfg.picH /\ Shrunk(Area.w, count.implicitBt)
  <2>1. CASE LastSplit \in {"ctu", "quad"}
    BY <2>1, <1>1, <1>2, <1>3, <1>4 DEF Shrunk
  <2>2. CASE LastSplit \notin {"ctu", "quad"}
    <3>1. ~(Area.x + Area.w <= cfg.picW)
      BY <1>1, <1>3
    <3> QED BY <2>2, <3>1, <1>2 DEF Chain
  <2> QED BY <2>1, <2>2
<1>6. Even(Area, "vert")
  BY <1>1, <1>4 DEF Even
<1>7. w \in Nat /\ w <= Area.w
  <2>1. Area.w > 1
    BY <1>1, <1>4
  <2>2. w \in Nat /\ Area.w = w + w
    BY <1>1, <2>1, Halves, SizesNat
  <2> HIDE DEF w
  <2> QED BY <2>2
<1>8. cfg.minQt <= 8 => Shrunk(w, count.implicitBt + 1) /\ count.implicitBt + 1 <= 3
  BY <1>1, <1>4, <1>5, ShrunkHalf
<1>9. Grid(Area.x, w, cfg.picW) /\ Grid(Area.x + w, w, cfg.picW)
  <2>1. Area.w > 1 /\ Grid(Area.x, Area.w, cfg.picW)
    BY <1>1, <1>2, <1>4 DEF OnGrid
  <2> QED BY <1>1, <2>1, GridHalf
<1>10. n.mt = count.mt + 1 /\ n.implicitBt = count.implicitBt + 1 /\ n.bt = count.bt + 1
  BY <1>1, MttCounts DEF BtSplits
<1>11. /\ ps[1] = [x |-> Area.x, y |-> Area.y, w |-> w, h |-> Area.h]
       /\ ps[2] = [x |-> Area.x + w, y |-> Area.y, w |-> w, h |-> Area.h]
  BY <1>6, VertParts
<1> HIDE DEF n, ps, w
<1>12. Depths(cfg, n)
  BY <1>1, <1>3, <1>8, <1>10 DEF Depths
<1>13. n.bt >= 1 /\ n.mt < cfg.maxMtt + n.implicitBt
  BY <1>1, <1>2, <1>3, <1>10
<1>14. ASSUME NEW a, a = ps[1] \/ a = ps[2]
       PROVE  Placed(cfg, "vert", a, n)
  <2>1. a.y = Area.y /\ a.h = Area.h /\ a.w = w /\ Grid(a.x, a.w, cfg.picW)
    BY <1>9, <1>11, <1>14
  <2>2. OnGrid(cfg, a)
    BY <2>1, <1>2 DEF OnGrid
  <2>3. a.w <= 64 /\ a.h <= 64 /\ a.w <= cfg.maxBt /\ a.h <= cfg.maxBt
    BY <1>1, <1>2, <1>3, <1>7, <2>1
  <2>4. cfg.minQt <= 8 => a.y + a.h <= cfg.picH /\ Shrunk(a.w, n.implicitBt)
    BY <1>5, <1>8, <1>10, <2>1
  <2>5. Chain(cfg, a, n)
    BY <2>2, <2>3, <2>4, <1>13 DEF Chain
  <2>6. ~Large(cfg, a)
    BY <1>1, <1>7, <2>1, <2>3 DEF Large
  <2> QED BY <1>12, <2>5, <2>6 DEF Placed, OfMtt, BtSplits
<1>15. \A i \in 1..2 : i = 1 \/ i = 2
  OBVIOUS
<1>16. \A i \in 1..2 : Placed(cfg, "vert", ps[i], n)
  BY <1>14, <1>15
<1> QED BY <1>6, <1>16 DEF n, ps

\* Whatever split canSplit allows: what was known of the area is known of its parts.
LEMMA SplitPlaces ==
  ASSUME cfg \in Configs, Area \in AreaSet, count \in CountSet,
         Placed(cfg, LastSplit, Area, count), InPic(cfg, Area) > 0, NEW k \in Splits, CanSplit(k)
  PROVE  /\ Even(Area, k)
         /\ k = "quad" => count.mt = 0 /\ count.bt = 0
         /\ k # "quad" => (k = Implicit <=> Implicit # None)
         /\ \A i \in 1..NParts(k) :
              Placed(cfg, k, Parts(Area, k)[i], Deeper(k, Implicit # None, 1, count))
<1>0. (Implicit # None) \in BOOLEAN
  OBVIOUS
<1>1. CASE k = "quad"
  BY <1>0, <1>1, QuadPlaces DEF NParts
<1>2. CASE k # "quad" /\ Implicit = None
  <2>1. k \in BtSplits \cup TtSplits /\ k # None
    BY <1>2 DEF Splits, BtSplits, TtSplits, None
  <2>2. (Implicit # None) = FALSE
    BY <1>2
  <2> QED BY <1>2, <2>1, <2>2, ExplicitPlaces
<1>3. CASE k # "quad" /\ Implicit # None
  <2>1. CanImplicit(k)
    BY <1>3 DEF CanSplit
  <2>2. k = Implicit /\ k \in {"horz", "vert"}
    BY <2>1, <1>3 DEF CanImplicit, Splits, BtSplits, TtSplits
  <2>3. (Implicit # None) = TRUE
    BY <1>3
  <2>4. NParts(k) = 2
    BY <2>2 DEF NParts, TtSplits
  <2> QED BY <1>3, <2>2, <2>3, <2>4, HorzPlaces, VertPlaces
<1> QED BY <1>1, <1>2, <1>3

(* ----------------------------------- the stack ----------------------------------- *)

Pos == Nat \X Nat
Saves == CountSet \X Pos \X Nat
LevelSet ==
  [split : Splits \cup {"ctu"}, parts : Seq(AreaSet), idx : Nat, implicit : BOOLEAN,
   qg : BOOLEAN, saved : Saves \cup {<<>>}]

At(lvl) == lvl.parts[lvl.idx]

\* A level and its parent, with the counters n, the group q and the samples d coded
\* before its part: the split, the counters, the quantization group, the samples.
Divided(c, par, lvl, n) ==
  /\ lvl.split \in Splits /\ lvl.saved \in Saves
  /\ At(par) \in AreaSet /\ Even(At(par), lvl.split) /\ lvl.parts = Parts(At(par), lvl.split)
  /\ lvl.idx \in 1..NParts(lvl.split)
  /\ \A i \in 1..NParts(lvl.split) : Placed(c, lvl.split, lvl.parts[i], n)

Counted(par, lvl, n) ==
  /\ n = Deeper(lvl.split, par.implicit, lvl.idx, lvl.saved[1])
  /\ lvl.split = "quad" => lvl.saved[1].mt = 0 /\ lvl.saved[1].bt = 0

Grouped(par, lvl, q) ==
  IF lvl.qg THEN par.qg /\ q = PosOf(At(lvl)) ELSE q = lvl.saved[2]

Tallied(c, lvl, d) == d = lvl.saved[3] + Before(c, lvl.parts, lvl.idx)

Linked(c, par, lvl, n, q, d) ==
  Divided(c, par, lvl, n) /\ Counted(par, lvl, n) /\ Grouped(par, lvl, q) /\ Tallied(c, lvl, d)

Rooted(c, lvl, n, q, d) ==
  /\ lvl.split = "ctu" /\ lvl.parts = <<Ctu>> /\ lvl.idx = 1 /\ lvl.qg = TRUE
  /\ q = PosOf(Ctu) /\ d = 0 /\ Placed(c, "ctu", Ctu, n)

LevelOk(c, st, l, n, q, d) ==
  IF l = 1 THEN Rooted(c, st[l], n, q, d) ELSE Linked(c, st[l - 1], st[l], n, q, d)

\* A stack with the current values on top; below it those each level has saved.
Path(c, st, n, q, d) ==
  /\ st \in Seq(LevelSet) /\ Len(st) \in Nat \ {0}
  /\ n \in CountSet /\ q \in Pos /\ d \in Nat
  /\ LevelOk(c, st, Len(st), n, q, d)
  /\ \A l \in 1..(Len(st) - 1) :
       LevelOk(c, st, l, st[l + 1].saved[1], st[l + 1].saved[2], st[l + 1].saved[3])

LEMMA LevelTyped ==
  ASSUME NEW lvl \in LevelSet
  PROVE  /\ lvl.split \in Splits \cup {"ctu"} /\ lvl.parts \in Seq(AreaSet) /\ lvl.idx \in Nat
         /\ lvl.implicit \in BOOLEAN /\ lvl.qg \in BOOLEAN /\ lvl.saved \in Saves \cup {<<>>}
BY DEF LevelSet

LEMMA SavedTyped ==
  ASSUME NEW s \in Saves
  PROVE  s[1] \in CountSet /\ s[2] \in Pos /\ s[3] \in Nat
BY DEF Saves

LEMMA CtuTyped == Ctu \in AreaSet /\ Ctu.x = 0 /\ Ctu.y = 0 /\ Ctu.w = CtuSize /\ Ctu.h = CtuSize
BY PartitionerAssumption DEF Ctu, AreaSet, Sizes

LEMMA PosTyped ==
  ASSUME NEW a \in AreaSet
  PROVE  PosOf(a) \in Pos
BY AreaTyped DEF PosOf, Pos

LEMMA BeforeTyped ==
  ASSUME NEW c \in Configs, NEW ps \in Seq(AreaSet), NEW i \in 1..Len(ps), i <= 4
  PROVE  /\ Before(c, ps, i) \in Nat
         /\ i < 4 => Before(c, ps, i + 1) = Before(c, ps, i) + InPic(c, ps[i])
<1>1. \A j \in 1..i : InPic(c, ps[j]) \in Nat
  BY InPicNat
<1>2. Len(ps) \in Nat /\ i \in {1, 2, 3, 4}
  OBVIOUS
<1>3. CASE i = 1
  BY <1>1, <1>3 DEF Before
<1>4. CASE i = 2
  <2>1. InPic(c, ps[1]) \in Nat /\ InPic(c, ps[2]) \in Nat
    BY <1>1, <1>4
  <2> QED BY <2>1, <1>4 DEF Before
<1>5. CASE i = 3
  <2>1. InPic(c, ps[1]) \in Nat /\ InPic(c, ps[2]) \in Nat /\ InPic(c, ps[3]) \in Nat
    BY <1>1, <1>5
  <2> QED BY <2>1, <1>5 DEF Before
<1>6. CASE i = 4
  <2>1. InPic(c, ps[1]) \in Nat /\ InPic(c, ps[2]) \in Nat /\ InPic(c, ps[3]) \in Nat
    BY <1>1, <1>6
  <2> QED BY <2>1, <1>6 DEF Before
<1> QED BY <1>2, <1>3, <1>4, <1>5, <1>6

\* The area on top: where it lies, and what precedes it.
LEMMA TopTyped ==
  ASSUME NEW c \in Configs, NEW st, NEW n, NEW q, NEW d, Path(c, st, n, q, d)
  PROVE  LET top == st[Len(st)]
         IN /\ top \in LevelSet /\ At(top) \in AreaSet /\ Placed(c, top.split, At(top), n)
            /\ top.idx \in 1..Len(top.parts)
            /\ Len(st) = 1 => Rooted(c, top, n, q, d)
            /\ Len(st) # 1 => /\ Len(st) - 1 \in 1..(Len(st) - 1)
                              /\ Linked(c, st[Len(st) - 1], top, n, q, d)
                              /\ Len(top.parts) = NParts(top.split)
<1> DEFINE top == st[Len(st)]  L == Len(st)
<1>1. L \in Nat \ {0} /\ L \in 1..Len(st) /\ st \in Seq(LevelSet)
  BY DEF Path
<1>2. top \in LevelSet
  BY <1>1
<1>3. LevelOk(c, st, L, n, q, d)
  BY DEF Path
<1> HIDE DEF top, L
<1>4. CASE L = 1
  <2>1. Rooted(c, top, n, q, d)
    BY <1>3, <1>4 DEF LevelOk, top, L
  <2>2. top.split = "ctu" /\ top.parts = <<Ctu>> /\ top.idx = 1 /\ Placed(c, "ctu", Ctu, n)
    BY <2>1 DEF Rooted
  <2>3. Len(<<Ctu>>) = 1 /\ <<Ctu>>[1] = Ctu
    OBVIOUS
  <2>4. At(top) = Ctu
    BY <2>2, <2>3 DEF At
  <2> QED BY <1>2, <1>4, <2>1, <2>2, <2>3, <2>4, CtuTyped DEF top, L
<1>5. CASE L # 1
  <2>1. Linked(c, st[L - 1], top, n, q, d)
    BY <1>3, <1>5 DEF LevelOk, top, L
  <2>2. Divided(c, st[L - 1], top, n)
    BY <2>1 DEF Linked
  <2> DEFINE a == At(st[L - 1])  k == top.split
  <2>3. /\ a \in AreaSet /\ k \in Splits /\ Even(a, k) /\ top.parts = Parts(a, k)
        /\ top.idx \in 1..NParts(k)
        /\ \A i \in 1..NParts(k) : Placed(c, k, top.parts[i], n)
    BY <2>2 DEF Divided
  <2> HIDE DEF a, k
  <2>4. top.parts \in Seq(AreaSet) /\ Len(top.parts) = NParts(k)
    BY <2>3, PartsTyped
  <2>5. At(top) \in AreaSet /\ Placed(c, k, At(top), n)
    BY <2>3, <2>4 DEF At
  <2>6. L - 1 \in 1..(L - 1)
    BY <1>1, <1>5
  <2> QED BY <1>2, <1>5, <2>1, <2>3, <2>4, <2>5, <2>6 DEF top, L, k
<1> QED BY <1>4, <1>5

\* Whether the area of a level is split implicitly is no matter of the level itself.
LEMMA OtherImplicit ==
  ASSUME NEW c, NEW par, NEW lvl \in LevelSet, NEW n, NEW q, NEW d, NEW b
  PROVE  LET other == [lvl EXCEPT !.implicit = b]
         IN /\ Linked(c, par, lvl, n, q, d) => Linked(c, par, other, n, q, d)
            /\ Rooted(c, lvl, n, q, d) => Rooted(c, other, n, q, d)
            /\ other.saved = lvl.saved /\ At(other) = At(lvl) /\ other.qg = lvl.qg
            /\ other.implicit = b
            /\ b \in BOOLEAN => other \in LevelSet
<1> DEFINE other == [lvl EXCEPT !.implicit = b]
<1>1. /\ other.split = lvl.split /\ other.parts = lvl.parts /\ other.idx = lvl.idx
      /\ other.qg = lvl.qg /\ other.saved = lvl.saved /\ other.implicit = b
  BY DEF LevelSet
<1>2. b \in BOOLEAN => other \in LevelSet
  BY DEF LevelSet
<1> HIDE DEF other
<1>3. At(other) = At(lvl)
  BY <1>1 DEF At
<1>4. Linked(c, par, lvl, n, q, d) => Linked(c, par, other, n, q, d)
  BY <1>1, <1>3 DEF Linked, Divided, Counted, Grouped, Tallied
<1>5. Rooted(c, lvl, n, q, d) => Rooted(c, other, n, q, d)
  BY <1>1 DEF Rooted
<1> QED BY <1>1, <1>2, <1>3, <1>4, <1>5 DEF other

\* splitCurrArea: a level more.
LEMMA PathPush ==
  ASSUME NEW c \in Configs, NEW st, NEW n, NEW q, NEW d, Path(c, st, n, q, d),
         NEW b \in BOOLEAN, NEW lvl \in LevelSet, lvl.saved = <<n, q, d>>,
         NEW n2 \in CountSet, NEW q2 \in Pos, NEW d2 \in Nat,
         NEW top, top = [st[Len(st)] EXCEPT !.implicit = b],
         Linked(c, top, lvl, n2, q2, d2)
  PROVE  Path(c, Append([st EXCEPT ![Len(st)] = top], lvl), n2, q2, d2)
<1> DEFINE L == Len(st)  su == [st EXCEPT ![L] = top]  sv == Append(su, lvl)
<1>1. L \in Nat \ {0} /\ st \in Seq(LevelSet) /\ L = Len(st) /\ st[L] \in LevelSet
  BY TopTyped DEF Path
<1>2. /\ top \in LevelSet /\ top.saved = st[L].saved
      /\ \A par : Linked(c, par, st[L], n, q, d) => Linked(c, par, top, n, q, d)
      /\ Rooted(c, st[L], n, q, d) => Rooted(c, top, n, q, d)
  BY <1>1, OtherImplicit
<1>3. LevelOk(c, st, L, n, q, d)
  BY DEF Path
<1>4. \A l \in 1..(L - 1) : LevelOk(c, st, l, st[l + 1].saved[1], st[l + 1].saved[2], st[l + 1].saved[3])
  BY DEF Path
<1> HIDE DEF L
<1>5. su \in Seq(LevelSet) /\ Len(su) = L /\ su[L] = top /\ \A l \in 1..L : l # L => su[l] = st[l]
  BY <1>1, <1>2
<1> HIDE DEF su
<1>6. /\ sv \in Seq(LevelSet) /\ Len(sv) = L + 1 /\ sv[L + 1] = lvl
      /\ \A l \in 1..L : sv[l] = su[l]
  BY <1>1, <1>5
<1> HIDE DEF sv
<1>7. sv[L] = top /\ \A l \in 1..(L - 1) : sv[l] = st[l]
  BY <1>1, <1>5, <1>6
<1>8. LevelOk(c, sv, L + 1, n2, q2, d2)
  <2>1. L + 1 # 1 /\ (L + 1) - 1 = L
    BY <1>1
  <2> QED BY <2>1, <1>6, <1>7 DEF LevelOk
<1>9. ASSUME NEW l \in 1..L
      PROVE  LevelOk(c, sv, l, sv[l + 1].saved[1], sv[l + 1].saved[2], sv[l + 1].saved[3])
  <2>0. l = 1 \/ l - 1 \in 1..(L - 1)
    BY <1>1
  <2>1. CASE l = L
    <3>1. LevelOk(c, sv, L, n, q, d)
      BY <1>2, <1>3, <1>7, <2>0, <2>1 DEF LevelOk
    <3>2. sv[L + 1].saved = <<n, q, d>>
      BY <1>6
    <3> QED BY <2>1, <3>1, <3>2
  <2>2. CASE l # L
    <3>1. l \in 1..(L - 1) /\ (l + 1 = L \/ l + 1 \in 1..(L - 1))
      BY <2>2, <1>1
    <3>2. sv[l + 1].saved = st[l + 1].saved /\ sv[l] = st[l]
      BY <1>2, <1>7, <3>1
    <3>3. LevelOk(c, st, l, st[l + 1].saved[1], st[l + 1].saved[2], st[l + 1].saved[3])
      BY <1>4, <3>1
    <3>4. l # 1 => sv[l - 1] = st[l - 1]
      BY <1>7, <2>0
    <3> QED BY <3>2, <3>3, <3>4 DEF LevelOk
  <2> QED BY <2>1, <2>2
<1>10. Path(c, sv, n2, q2, d2)
  <2>1. Len(sv) \in Nat \ {0} /\ Len(sv) = L + 1 /\ Len(sv) - 1 = L
    BY <1>1, <1>6
  <2> QED BY <2>1, <1>6, <1>8, <1>9 DEF Path
<1> QED BY <1>10 DEF sv, su, L

\* nextPart: the top level moves on.
LEMMA PathNext ==
  ASSUME NEW c \in Configs, NEW st, NEW n, NEW q, NEW d, Path(c, st, n, q, d), Len(st) # 1,
         NEW n2 \in CountSet, NEW q2 \in Pos, NEW d2 \in Nat,
         NEW top \in LevelSet, top.saved = st[Len(st)].saved,
         Linked(c, st[Len(st) - 1], top, n2, q2, d2)
  PROVE  Path(c, [st EXCEPT ![Len(st)] = top], n2, q2, d2)
<1> DEFINE L == Len(st)  su == [st EXCEPT ![L] = top]
<1>1. L \in Nat \ {0, 1} /\ st \in Seq(LevelSet) /\ L = Len(st)
  BY DEF Path
<1>4. \A l \in 1..(L - 1) : LevelOk(c, st, l, st[l + 1].saved[1], st[l + 1].saved[2], st[l + 1].saved[3])
  BY DEF Path
<1> HIDE DEF L
<1>5. su \in Seq(LevelSet) /\ Len(su) = L /\ su[L] = top /\ \A l \in 1..L : l # L => su[l] = st[l]
  BY <1>1
<1>6. L - 1 \in 1..L /\ L - 1 # L /\ L # 1
  BY <1>1
<1> HIDE DEF su
<1>7. LevelOk(c, su, L, n2, q2, d2)
  BY <1>5, <1>6 DEF LevelOk, L
<1>8. ASSUME NEW l \in 1..(L - 1)
      PROVE  LevelOk(c, su, l, su[l + 1].saved[1], su[l + 1].saved[2], su[l + 1].saved[3])
  <2>1. /\ l \in 1..L /\ l # L /\ l + 1 \in 1..L
        /\ l # 1 => l - 1 \in 1..L /\ l - 1 # L
    BY <1>1
  <2>2. su[l + 1].saved = st[l + 1].saved
    BY <1>5, <2>1 DEF L
  <2>3. su[l] = st[l] /\ (l # 1 => su[l - 1] = st[l - 1])
    BY <1>5, <2>1
  <2>4. LevelOk(c, st, l, st[l + 1].saved[1], st[l + 1].saved[2], st[l + 1].saved[3])
    BY <1>4
  <2> QED BY <2>2, <2>3, <2>4 DEF LevelOk
<1>9. Path(c, su, n2, q2, d2)
  BY <1>1, <1>5, <1>7, <1>8 DEF Path
<1> QED BY <1>9 DEF su, L

\* exitCurrSplit: a level less, with what it had saved.
LEMMA PathPop ==
  ASSUME NEW c \in Configs, NEW st, NEW n, NEW q, NEW d, Path(c, st, n, q, d), Len(st) # 1
  PROVE  LET s == st[Len(st)].saved
         IN Path(c, SubSeq(st, 1, Len(st) - 1), s[1], s[2], s[3])
<1> DEFINE L == Len(st)  su == SubSeq(st, 1, L - 1)  s == st[L].saved
<1>1. L \in Nat \ {0, 1} /\ st \in Seq(LevelSet) /\ L = Len(st)
  BY DEF Path
<1>2. s \in Saves
  BY TopTyped DEF Linked, Divided
<1>3. s[1] \in CountSet /\ s[2] \in Pos /\ s[3] \in Nat
  BY <1>2, SavedTyped
<1>4. \A l \in 1..(L - 1) : LevelOk(c, st, l, st[l + 1].saved[1], st[l + 1].saved[2], st[l + 1].saved[3])
  BY DEF Path
<1> HIDE DEF L
<1>5. su \in Seq(LevelSet) /\ Len(su) = L - 1 /\ \A l \in 1..(L - 1) : su[l] = st[l]
  BY <1>1
<1> HIDE DEF su
<1>6. ASSUME NEW l \in 1..(L - 1)
      PROVE  LevelOk(c, su, l, st[l + 1].saved[1], st[l + 1].saved[2], st[l + 1].saved[3])
  <2>1. l # 1 => l - 1 \in 1..(L - 1)
    BY <1>1
  <2>2. su[l] = st[l] /\ (l # 1 => su[l - 1] = st[l - 1])
    BY <1>5, <2>1
  <2>3. LevelOk(c, st, l, st[l + 1].saved[1], st[l + 1].saved[2], st[l + 1].saved[3])
    BY <1>4
  <2> QED BY <2>2, <2>3 DEF LevelOk
<1>7. LevelOk(c, su, L - 1, s[1], s[2], s[3])
  <2>1. L - 1 \in 1..(L - 1) /\ (L - 1) + 1 = L
    BY <1>1
  <2> QED BY <1>6, <2>1
<1>8. ASSUME NEW l \in 1..((L - 1) - 1)
      PROVE  LevelOk(c, su, l, su[l + 1].saved[1], su[l + 1].saved[2], su[l + 1].saved[3])
  <2>1. l \in 1..(L - 1) /\ l + 1 \in 1..(L - 1)
    BY <1>1
  <2>2. su[l + 1] = st[l + 1]
    BY <1>5, <2>1
  <2> QED BY <1>6, <2>1, <2>2
<1>9. L - 1 \in Nat \ {0}
  BY <1>1
<1> HIDE DEF s
<1>10. Path(c, su, s[1], s[2], s[3])
  BY <1>3, <1>5, <1>7, <1>8, <1>9 DEF Path
<1> QED BY <1>10 DEF su, s, L

(* ------------------------------------ the steps ------------------------------------ *)

\* What is coded before the part on top.
CodedBefore == IF partDone THEN coded - InPic(cfg, Area) ELSE coded

\* The stack is a path of splits from the CTU to the current area; counters, group
\* and samples are those of the path, at every level of it.
Inv ==
  /\ cfg \in Configs /\ partDone \in BOOLEAN /\ coded \in Nat
  /\ Path(cfg, stack, count, qgPos, CodedBefore)

LEMMA InvTop ==
  ASSUME Inv
  PROVE  /\ cfg \in Configs /\ partDone \in BOOLEAN /\ coded \in Nat /\ count \in CountSet
         /\ qgPos \in Pos /\ CodedBefore \in Nat
         /\ stack \in Seq(LevelSet) /\ Len(stack) \in Nat \ {0} /\ Len(stack) \in 1..Len(stack)
         /\ Level \in LevelSet /\ Area \in AreaSet /\ Area = At(Level)
         /\ Placed(cfg, LastSplit, Area, count) /\ Level.idx \in 1..Len(Level.parts)
<1>1. /\ cfg \in Configs /\ partDone \in BOOLEAN /\ coded \in Nat
      /\ Path(cfg, stack, count, qgPos, CodedBefore)
  BY DEF Inv
<1>2. /\ count \in CountSet /\ qgPos \in Pos /\ CodedBefore \in Nat
      /\ stack \in Seq(LevelSet) /\ Len(stack) \in Nat \ {0}
  BY <1>1 DEF Path
<1>3. Area = At(Level)
  BY DEF Area, AreaAt, At, Level
<1>4. /\ Level \in LevelSet /\ At(Level) \in AreaSet /\ Placed(cfg, Level.split, At(Level), count)
      /\ Level.idx \in 1..Len(Level.parts)
  BY <1>1, TopTyped DEF Level
<1> QED BY <1>1, <1>2, <1>3, <1>4 DEF LastSplit

LEMMA InvInit ==
  ASSUME Init
  PROVE  Inv
<1> DEFINE lvl == [split |-> "ctu", parts |-> <<Ctu>>, idx |-> 1, implicit |-> FALSE,
                   qg |-> TRUE, saved |-> <<>>]
<1>1. cfg \in Configs /\ stack = <<lvl>> /\ count = Zero /\ qgPos = <<0, 0>> /\ partDone = FALSE
      /\ coded = 0
  BY DEF Init
<1>2. <<Ctu>> \in Seq(AreaSet)
  BY CtuTyped
<1>3. lvl \in LevelSet
  BY <1>2 DEF LevelSet
<1>4. Zero \in CountSet /\ qgPos \in Pos /\ CodedBefore = 0
  BY <1>1 DEF Zero, CountSet, Pos, CodedBefore
<1>5. Placed(cfg, "ctu", Ctu, Zero)
  <2>1. cfg.maxMtt \in Nat
    BY <1>1, ConfigTyped
  <2>2. Depths(cfg, Zero)
    BY <2>1 DEF Depths, Zero
  <2>3. CtuSize \in {32, 64, 128} /\ 0 \in Nat /\ 0 = 8 * 0
    BY PartitionerAssumption
  <2>4. OnGrid(cfg, Ctu)
    BY <2>3, CtuTyped DEF OnGrid, Grid
  <2>5. OfQuad(cfg, Ctu, Zero)
    BY <2>4, CtuTyped DEF OfQuad, Zero
  <2> QED BY <2>2, <2>5 DEF Placed
<1>6. Rooted(cfg, lvl, Zero, qgPos, 0)
  BY <1>1, <1>5, CtuTyped DEF Rooted, PosOf
<1> HIDE DEF lvl
<1>7. Len(stack) = 1 /\ stack[1] = lvl /\ stack \in Seq(LevelSet)
  BY <1>1, <1>3
<1>8. LevelOk(cfg, stack, 1, Zero, qgPos, 0)
  BY <1>6, <1>7 DEF LevelOk
<1>9. Path(cfg, stack, Zero, qgPos, 0)
  BY <1>4, <1>7, <1>8 DEF Path
<1> QED BY <1>1, <1>4, <1>9 DEF Inv

\* The counters of a split that has just been made.
LEMMA InvSplit ==
  ASSUME Inv, NEW k \in Splits, Split(k)
  PROVE  Inv'
<1> DEFINE b == (Implicit # None)  ps == Parts(Area, k)  top == [Level EXCEPT !.implicit = b]
           n == Deeper(k, b, 1, count)
           sub == count.subdiv + (IF k \in BtSplits THEN 1 ELSE 2)
           qg == Level.qg /\ sub <= cfg.qgSubdiv
           saved == <<count, qgPos, coded>>
           lvl == [split |-> k, parts |-> ps, idx |-> 1, implicit |-> FALSE,
                   qg |-> qg, saved |-> saved]
           q == IF qg THEN PosOf(ps[1]) ELSE qgPos
<1>1. /\ cfg \in Configs /\ coded \in Nat /\ count \in CountSet /\ qgPos \in Pos
      /\ Level \in LevelSet /\ Area \in AreaSet /\ Area = At(Level) /\ stack \in Seq(LevelSet)
      /\ Len(stack) \in 1..Len(stack) /\ Placed(cfg, LastSplit, Area, count)
  BY InvTop
<1>2. ~partDone /\ InPicture(Area) > 0 /\ CanSplit(k) /\ b \in BOOLEAN
  BY DEF Split
<1>3. Path(cfg, stack, count, qgPos, coded)
  BY <1>2 DEF Inv, CodedBefore
<1>4. /\ Even(Area, k)
      /\ k = "quad" => count.mt = 0 /\ count.bt = 0
      /\ k # "quad" => (k = Implicit <=> b)
      /\ \A i \in 1..NParts(k) : Placed(cfg, k, ps[i], n)
  BY <1>1, <1>2, InPictureIs, SplitPlaces
<1>5. ps \in Seq(AreaSet) /\ Len(ps) = NParts(k) /\ ps[1] \in AreaSet /\ 1 \in 1..NParts(k)
  <2>1. ps \in Seq(AreaSet) /\ Len(ps) = NParts(k)
    BY <1>1, <1>4, PartsTyped
  <2>2. 1 \in 1..NParts(k)
    BY DEF NParts
  <2> HIDE DEF ps
  <2> QED BY <2>1, <2>2
<1>6. top \in LevelSet /\ At(top) = Area /\ top.implicit = b /\ top.qg = Level.qg
  BY <1>1, <1>2, OtherImplicit
<1>7. count' = n
  BY <1>4 DEF Split, Deeper, BtSplits, TtSplits, Splits
<1>8. stack' = Append([stack EXCEPT ![Len(stack)] = top], lvl) /\ qgPos' = q
      /\ cfg' = cfg /\ partDone' = partDone /\ coded' = coded
  BY <1>1 DEF Split, Level
<1>9. qg \in BOOLEAN /\ n \in CountSet /\ q \in Pos /\ saved \in Saves
  <2>1. qg \in BOOLEAN
    OBVIOUS
  <2>2. n \in CountSet
    BY <1>1, <1>2, DeeperTyped
  <2>3. q \in Pos
    BY <1>1, <1>5, PosTyped
  <2>4. saved \in Saves
    BY <1>1 DEF Saves
  <2> QED BY <2>1, <2>2, <2>3, <2>4
<1> HIDE DEF b, ps, top, n, sub, saved
<1>10. lvl \in LevelSet
  BY <1>5, <1>9 DEF LevelSet
<1>11. Divided(cfg, top, lvl, n)
  BY <1>1, <1>4, <1>5, <1>6, <1>9 DEF Divided, ps
<1>12. saved[1] = count /\ saved[2] = qgPos /\ saved[3] = coded
  BY DEF saved
<1>13. Counted(top, lvl, n)
  BY <1>4, <1>6, <1>12 DEF Counted, n
<1>14. Grouped(top, lvl, q)
  BY <1>6, <1>12 DEF Grouped, At
<1>15. Tallied(cfg, lvl, coded)
  BY <1>1, <1>12 DEF Tallied, Before
<1>16. Linked(cfg, top, lvl, n, q, coded)
  BY <1>11, <1>13, <1>14, <1>15 DEF Linked
<1>17. lvl.saved = <<count, qgPos, coded>>
  BY DEF saved
<1>18. top = [stack[Len(stack)] EXCEPT !.implicit = b]
  BY DEF top, Level
<1> HIDE DEF lvl, q, qg
<1>19. Path(cfg, Append([stack EXCEPT ![Len(stack)] = top], lvl), n, q, coded)
  BY <1>1, <1>2, <1>3, <1>9, <1>10, <1>16, <1>17, <1>18, PathPush DEF b
<1>20. (CodedBefore)' = coded
  BY <1>2, <1>8 DEF CodedBefore
<1> QED BY <1>1, <1>2, <1>7, <1>8, <1>19, <1>20, InvTop DEF Inv

LEMMA InvCode ==
  ASSUME Inv, CodeCu
  PROVE  Inv'
<1>1. /\ cfg \in Configs /\ coded \in Nat /\ Area \in AreaSet /\ InPic(cfg, Area) \in Nat
      /\ InPicture(Area) = InPic(cfg, Area)
  BY InvTop, InPicNat, InPictureIs
<1>2. /\ partDone = FALSE /\ partDone' = TRUE /\ coded' = coded + InPic(cfg, Area)
      /\ cfg' = cfg /\ stack' = stack /\ count' = count /\ qgPos' = qgPos
  BY <1>1, InvTop DEF CodeCu
<1>3. (Area)' = Area
  BY <1>2 DEF Area, AreaAt
<1>4. (CodedBefore)' = coded /\ CodedBefore = coded
  <2>1. (CodedBefore)' = coded' - InPic(cfg, Area)
    BY <1>2, <1>3 DEF CodedBefore
  <2>2. CodedBefore = coded
    BY <1>2 DEF CodedBefore
  <2> QED BY <1>1, <1>2, <2>1, <2>2
<1>5. coded' \in Nat
  BY <1>1, <1>2
<1> QED BY <1>1, <1>2, <1>4, <1>5 DEF Inv

\* The depth of the middle part of a ternary split matters to no placement.
LEMMA PlacedAt ==
  ASSUME NEW c, NEW k \in Splits, NEW a, NEW imp, NEW i, NEW j, NEW m \in CountSet,
         Placed(c, k, a, Deeper(k, imp, i, m)),
         k \in TtSplits \/ Deeper(k, imp, i, m) = Deeper(k, imp, j, m)
  PROVE  Placed(c, k, a, Deeper(k, imp, j, m))
<1>1. CASE k \in TtSplits
  <2>1. k \notin {"ctu", "quad"} /\ k \notin BtSplits
    BY <1>1 DEF TtSplits, BtSplits
  <2>2. /\ Deeper(k, imp, j, m).mt = Deeper(k, imp, i, m).mt
        /\ Deeper(k, imp, j, m).implicitBt = Deeper(k, imp, i, m).implicitBt
    BY DEF Deeper
  <2> QED BY <2>1, <2>2 DEF Placed, Depths, OfMtt
<1>2. CASE Deeper(k, imp, i, m) = Deeper(k, imp, j, m)
  BY <1>2
<1> QED BY <1>1, <1>2

\* nextPart on a level and on the counters.
MovedTo(lvl, i) == [lvl EXCEPT !.idx = i, !.implicit = FALSE]
Shifted(n, d) == [n EXCEPT !.bt = @ + d, !.subdiv = @ + d]

\* nextPart on the counters: the middle part of a ternary split is less deep.
LEMMA DeeperMoves ==
  ASSUME NEW k \in Splits, NEW imp \in BOOLEAN, NEW idx \in Nat, NEW m \in CountSet,
         k \in TtSplits => idx \in {1, 2},
         NEW n, n = Deeper(k, imp, idx, m),
         NEW d, d = IF k \in TtSplits THEN IF idx + 1 = 2 THEN -1 ELSE 1 ELSE 0,
         NEW next, next = Shifted(n, d)
  PROVE  /\ next = Deeper(k, imp, idx + 1, m)
         /\ Deeper(k, imp, idx + 1, m) \in CountSet
<1>1. m.bt \in Int /\ m.subdiv \in Int
  BY CountTyped
<1> DEFINE o == Deeper(k, imp, idx + 1, m)
<1>2. n \in CountSet /\ o \in CountSet /\ d \in Int
  BY DeeperTyped
<1>3. /\ n.depth = o.depth /\ n.qt = o.qt /\ n.mt = o.mt /\ n.implicitBt = o.implicitBt
  BY DEF Deeper
<1>4. n.subdiv + d = o.subdiv /\ n.bt + d = o.bt
  <2>1. /\ n.subdiv = m.subdiv + (IF k \in BtSplits \/ (k \in TtSplits /\ idx = 2) THEN 1 ELSE 2)
        /\ n.bt = IF k = "quad" THEN 0 ELSE m.bt + (IF k \in TtSplits /\ idx # 2 THEN 2 ELSE 1)
        /\ o.subdiv = m.subdiv + (IF k \in BtSplits \/ (k \in TtSplits /\ idx + 1 = 2) THEN 1 ELSE 2)
        /\ o.bt = IF k = "quad" THEN 0 ELSE m.bt + (IF k \in TtSplits /\ idx + 1 # 2 THEN 2 ELSE 1)
    BY DEF Deeper
  <2>2. k \in TtSplits => k \notin BtSplits /\ k # "quad"
    BY DEF TtSplits, BtSplits
  <2> HIDE DEF o
  <2>3. CASE k \in TtSplits /\ idx = 1
    BY <1>1, <2>1, <2>2, <2>3
  <2>4. CASE k \in TtSplits /\ idx = 2
    BY <1>1, <2>1, <2>2, <2>4
  <2>5. CASE k \notin TtSplits
    BY <1>1, <2>1, <2>5
  <2> QED BY <2>3, <2>4, <2>5
<1> HIDE DEF o
<1>5. o = Shifted(n, d)
  BY <1>2, <1>3, <1>4 DEF CountSet, Shifted
<1> QED BY <1>2, <1>5 DEF o

LEMMA Moved ==
  ASSUME NEW lvl \in LevelSet, NEW i \in Nat,
         NEW top, top = MovedTo(lvl, i)
  PROVE  /\ top \in LevelSet /\ top.split = lvl.split /\ top.parts = lvl.parts /\ top.idx = i
         /\ top.qg = lvl.qg /\ top.saved = lvl.saved
BY DEF LevelSet, MovedTo

\* The level on top of another, in the words of the model.
LEMMA InvParent ==
  ASSUME Inv, Len(stack) # 1
  PROVE  /\ Linked(cfg, stack[Len(stack) - 1], Level, count, qgPos, CodedBefore)
         /\ Len(stack) - 1 \in 1..Len(stack) /\ stack[Len(stack) - 1] \in LevelSet
         /\ Len(Level.parts) = NParts(Level.split) /\ Level.split \in Splits
         /\ Level.saved \in Saves
<1>1. Path(cfg, stack, count, qgPos, CodedBefore) /\ cfg \in Configs
  BY DEF Inv
<1>2. /\ Linked(cfg, stack[Len(stack) - 1], Level, count, qgPos, CodedBefore)
      /\ Len(Level.parts) = NParts(Level.split)
  BY <1>1, TopTyped DEF Level
<1>3. Level.split \in Splits /\ Level.saved \in Saves
  BY <1>2 DEF Linked, Divided
<1> DEFINE L == Len(stack)
<1>4. L \in Nat \ {0} /\ L # 1 /\ stack \in Seq(LevelSet) /\ L = Len(stack)
  BY InvTop
<1> HIDE DEF L
<1>5. L - 1 \in 1..L /\ stack[L - 1] \in LevelSet
  BY <1>4
<1> QED BY <1>2, <1>3, <1>5 DEF L

LEMMA InvNext ==
  ASSUME Inv, NextPart
  PROVE  Inv'
<1> DEFINE L == Len(stack)  par == stack[L - 1]  k == Level.split  idx == Level.idx  i == idx + 1
           m == Level.saved[1]  imp == par.implicit
           top == MovedTo(Level, i)
           d == IF k \in TtSplits THEN IF i = 2 THEN -1 ELSE 1 ELSE 0
           n == Shifted(count, d)
           q == IF Level.qg THEN PosOf(Level.parts[i]) ELSE qgPos
<1>1. /\ cfg \in Configs /\ coded \in Nat /\ count \in CountSet /\ qgPos \in Pos
      /\ Level \in LevelSet /\ Area \in AreaSet /\ Area = At(Level) /\ stack \in Seq(LevelSet)
      /\ L \in Nat \ {0} /\ L \in 1..L /\ idx \in 1..Len(Level.parts) /\ CodedBefore \in Nat
  BY InvTop
<1>2. partDone = TRUE /\ idx < Len(Level.parts)
  BY InvTop DEF NextPart
<1>3. L # 1
  <2>1. ASSUME L = 1
        PROVE  Len(Level.parts) = 1
    <3>1. Rooted(cfg, Level, count, qgPos, CodedBefore)
      BY <1>1, <2>1, TopTyped DEF Inv, Level
    <3> QED BY <3>1 DEF Rooted
  <2>3. Len(Level.parts) \in Nat /\ idx \in Nat
    BY <1>1, LevelTyped
  <2> DEFINE np == Len(Level.parts)
  <2>4. np \in Nat /\ idx \in Nat /\ idx \in 1..np /\ idx < np
    BY <1>1, <1>2, <2>3
  <2> HIDE DEF idx, np
  <2>5. np # 1
    BY <2>4
  <2>2. Len(Level.parts) # 1
    BY <2>5 DEF np
  <2> QED BY <2>1, <2>2
<1>4. /\ Linked(cfg, par, Level, count, qgPos, CodedBefore) /\ par \in LevelSet
      /\ Len(Level.parts) = NParts(k) /\ k \in Splits /\ Level.saved \in Saves
  BY <1>3, InvParent
<1>5. m \in CountSet /\ imp \in BOOLEAN /\ Level.parts \in Seq(AreaSet) /\ i \in 1..NParts(k)
      /\ NParts(k) \in {2, 3, 4} /\ idx \in Nat /\ Level.qg \in BOOLEAN /\ Level.saved[3] \in Nat
  <2>1. m \in CountSet /\ Level.saved[3] \in Nat
    BY <1>4, SavedTyped
  <2>2. imp \in BOOLEAN /\ Level.parts \in Seq(AreaSet) /\ idx \in Nat /\ Level.qg \in BOOLEAN
    BY <1>1, <1>4, LevelTyped
  <2>3. NParts(k) \in {2, 3, 4}
    BY DEF NParts
  <2> QED BY <1>1, <1>2, <1>4, <2>1, <2>2, <2>3
<1>6. /\ top \in LevelSet /\ top.split = k /\ top.parts = Level.parts /\ top.idx = i
      /\ top.qg = Level.qg /\ top.saved = Level.saved
  <2>1. i \in Nat
    BY <1>5
  <2>2. top = MovedTo(Level, i)
    OBVIOUS
  <2>3. Level \in LevelSet
    BY <1>1
  <2> HIDE DEF top, i
  <2>4. /\ top \in LevelSet /\ top.split = Level.split /\ top.parts = Level.parts /\ top.idx = i
        /\ top.qg = Level.qg /\ top.saved = Level.saved
    BY ONLY <2>1, <2>2, <2>3, Moved
  <2> QED BY <2>4
<1>7. /\ count = Deeper(k, imp, idx, m)
      /\ k = "quad" => m.mt = 0 /\ m.bt = 0
  BY <1>4 DEF Linked, Counted
<1>8. n = Deeper(k, imp, i, m) /\ n \in CountSet
  <2>1. k \in TtSplits => idx \in {1, 2}
    <3>1. k \in TtSplits => NParts(k) = 3
      BY DEF TtSplits, NParts
    <3> HIDE DEF k, idx
    <3> QED BY <1>1, <1>2, <1>4, <1>5, <3>1 DEF k
  <2>2. d = (IF k \in TtSplits THEN IF idx + 1 = 2 THEN -1 ELSE 1 ELSE 0)
    OBVIOUS
  <2>3. n = Shifted(count, d)
    OBVIOUS
  <2> HIDE DEF n, d, k, imp, idx, m
  <2>4. k \in Splits
    BY <1>4 DEF k
  <2>5. imp \in BOOLEAN /\ idx \in Nat /\ m \in CountSet /\ count = Deeper(k, imp, idx, m)
    BY <1>5, <1>7
  <2>6. n = Deeper(k, imp, idx + 1, m) /\ n \in CountSet
    BY ONLY <2>1, <2>2, <2>3, <2>4, <2>5, DeeperMoves
  <2> QED BY <2>6
<1>9. count' = n /\ qgPos' = q /\ partDone' = FALSE /\ cfg' = cfg /\ coded' = coded
  BY DEF NextPart, Shifted
<1>10. stack' = [stack EXCEPT ![L] = top]
  <2>1. stack' = [stack EXCEPT ![L].idx = i, ![L].implicit = FALSE]
    BY DEF NextPart
  <2> QED BY <1>1, <2>1 DEF Level, MovedTo
<1>11. Divided(cfg, par, Level, count) /\ Grouped(par, Level, qgPos) /\ Tallied(cfg, Level, CodedBefore)
  BY <1>4 DEF Linked
<1> HIDE DEF top, n, par, L
<1>12. Divided(cfg, par, top, n)
  <2>1. \A j \in 1..NParts(k) : Placed(cfg, k, Level.parts[j], Deeper(k, imp, idx, m))
    BY <1>7, <1>11 DEF Divided
  <2>2. k \in TtSplits \/ Deeper(k, imp, idx, m) = Deeper(k, imp, i, m)
    BY DEF Deeper
  <2> HIDE DEF k, m, imp, idx, i
  <2>3. \A j \in 1..NParts(k) : Placed(cfg, k, Level.parts[j], Deeper(k, imp, i, m))
    BY <1>4, <1>5, <2>1, <2>2, PlacedAt
  <2> QED BY <1>5, <1>6, <1>8, <1>11, <2>3 DEF Divided, k
<1>13. Counted(par, top, n)
  BY <1>6, <1>7, <1>8 DEF Counted
<1>14. Grouped(par, top, q)
  BY <1>6, <1>11 DEF Grouped, At
<1>15. Tallied(cfg, top, coded)
  <2>1. CodedBefore = coded - InPic(cfg, Area) /\ InPic(cfg, Area) \in Nat
    BY <1>1, <1>2, InPicNat DEF CodedBefore
  <2>2. CodedBefore = Level.saved[3] + Before(cfg, Level.parts, idx)
    BY <1>11 DEF Tallied
  <2>3. /\ Before(cfg, Level.parts, idx) \in Nat
        /\ Before(cfg, Level.parts, i) = Before(cfg, Level.parts, idx) + InPic(cfg, Level.parts[idx])
    <3>1. idx \in 1..Len(Level.parts) /\ idx <= 4 /\ idx < 4
      BY <1>1, <1>2, <1>4, <1>5
    <3> QED BY <1>1, <1>5, <3>1, BeforeTyped
  <2>4. Level.parts[idx] = Area
    BY <1>1 DEF At
  <2> DEFINE s == Level.saved[3]  b == Before(cfg, Level.parts, idx)  t == Before(cfg, Level.parts, i)
             v == InPic(cfg, Area)
  <2>6. coded \in Nat /\ s \in Nat /\ b \in Nat /\ v \in Nat /\ coded - v = s + b /\ t = b + v
    BY <1>1, <1>5, <2>1, <2>2, <2>3, <2>4
  <2> HIDE DEF s, b, t, v
  <2>7. coded = s + t
    BY <2>6
  <2>5. coded = Level.saved[3] + Before(cfg, Level.parts, i)
    BY <2>7 DEF s, t
  <2> QED BY <1>6, <2>5 DEF Tallied
<1>16. Linked(cfg, par, top, n, q, coded)
  BY <1>12, <1>13, <1>14, <1>15 DEF Linked
<1>17. q \in Pos
  <2>1. Level.parts[i] \in AreaSet
    BY <1>4, <1>5
  <2> QED BY <1>1, <2>1, PosTyped
<1>18. Path(cfg, [stack EXCEPT ![L] = top], n, q, coded)
  <2> HIDE DEF q
  <2>1. Path(cfg, stack, count, qgPos, CodedBefore)
    BY DEF Inv
  <2>2. top.saved = stack[L].saved
    BY <1>6 DEF Level, L
  <2> QED BY <1>1, <1>3, <1>6, <1>8, <1>16, <1>17, <2>1, <2>2, PathNext DEF L, par
<1>19. (CodedBefore)' = coded
  BY <1>9 DEF CodedBefore
<1> QED BY <1>1, <1>9, <1>10, <1>18, <1>19 DEF Inv

\* exitCurrSplit on the counters: Deeper undone.
LEMMA ExitUndoes ==
  ASSUME Inv, Len(stack) # 1
  PROVE  ExitCounts = Level.saved[1]
<1> DEFINE par == stack[Len(stack) - 1]  k == Level.split  idx == Level.idx  m == Level.saved[1]
           imp == par.implicit
<1>1. /\ Linked(cfg, par, Level, count, qgPos, CodedBefore) /\ par \in LevelSet
      /\ Level.split \in Splits /\ Level.saved \in Saves /\ Level \in LevelSet
  BY InvParent, InvTop
<1>2. m \in CountSet /\ imp \in BOOLEAN /\ idx \in Nat /\ k \in Splits
  BY <1>1, SavedTyped, LevelTyped
<1>3. count = Deeper(k, imp, idx, m) /\ (k = "quad" => m.mt = 0 /\ m.bt = 0)
  BY <1>1 DEF Linked, Counted
<1>4. MiddlePart(Level) <=> k \in TtSplits /\ idx = 2
  BY DEF MiddlePart
<1> DEFINE o == ExitCounts  two == k = "quad" \/ (k \in TtSplits /\ ~(k \in TtSplits /\ idx = 2))
           side == k \in TtSplits /\ ~(k \in TtSplits /\ idx = 2)  deep == k # "quad" /\ imp
<1>5. /\ o.depth = count.depth - 1
      /\ o.subdiv = count.subdiv - 1 - (IF two THEN 1 ELSE 0)
      /\ o.qt = count.qt - (IF k = "quad" THEN 1 ELSE 0)
      /\ o.mt = IF k = "quad" THEN count.mt ELSE count.mt - 1
      /\ o.bt = IF k = "quad" THEN count.bt ELSE count.bt - 1 - (IF side THEN 1 ELSE 0)
      /\ o.implicitBt = count.implicitBt - (IF deep THEN 1 ELSE 0)
  BY <1>4 DEF ExitCounts
<1>6. /\ count.depth = m.depth + 1
      /\ count.subdiv = m.subdiv + (IF k \in BtSplits \/ (k \in TtSplits /\ idx = 2) THEN 1 ELSE 2)
      /\ count.qt = m.qt + (IF k = "quad" THEN 1 ELSE 0)
      /\ count.mt = IF k = "quad" THEN 0 ELSE m.mt + 1
      /\ count.bt = IF k = "quad" THEN 0 ELSE m.bt + (IF k \in TtSplits /\ idx # 2 THEN 2 ELSE 1)
      /\ count.implicitBt = m.implicitBt + (IF deep THEN 1 ELSE 0)
  BY <1>3 DEF Deeper
<1>7. DOMAIN o = DOMAIN m /\ o = [depth |-> o.depth, subdiv |-> o.subdiv, qt |-> o.qt, mt |-> o.mt,
                                  bt |-> o.bt, implicitBt |-> o.implicitBt]
  BY <1>2 DEF ExitCounts, CountSet
<1>8. /\ m.depth \in Int /\ m.subdiv \in Int /\ m.qt \in Int /\ m.mt \in Int /\ m.bt \in Int
      /\ m.implicitBt \in Int
      /\ m = [depth |-> m.depth, subdiv |-> m.subdiv, qt |-> m.qt, mt |-> m.mt,
              bt |-> m.bt, implicitBt |-> m.implicitBt]
  BY <1>2 DEF CountSet
<1>9. /\ k \in {"quad", "horz", "vert", "trih", "triv"}
      /\ k \in BtSplits <=> k \in {"horz", "vert"}
      /\ k \in TtSplits <=> k \in {"trih", "triv"}
  BY <1>2 DEF Splits, BtSplits, TtSplits
<1> HIDE DEF o, m, k, imp, idx, deep
<1>10. /\ o.depth = m.depth /\ o.subdiv = m.subdiv /\ o.qt = m.qt /\ o.mt = m.mt /\ o.bt = m.bt
       /\ o.implicitBt = m.implicitBt
  <2>1. CASE k = "quad"
    BY <2>1, <1>3, <1>5, <1>6, <1>8, <1>9
  <2>2. CASE k \in BtSplits
    BY <2>2, <1>5, <1>6, <1>8, <1>9
  <2>3. CASE k \in TtSplits /\ idx = 2
    BY <2>3, <1>5, <1>6, <1>8, <1>9
  <2>4. CASE k \in TtSplits /\ idx # 2
    BY <2>4, <1>5, <1>6, <1>8, <1>9
  <2> QED BY <1>9, <2>1, <2>2, <2>3, <2>4
<1>11. o = m
  BY <1>7, <1>8, <1>10
<1> QED BY <1>11 DEF o, m

\* exitCurrSplit on the quantization group: a split that opened one of its own goes
\* back to the one that its area opened.
LEMMA GroupUndone ==
  ASSUME Inv, Len(stack) # 1, NEW par, par = stack[Len(stack) - 1]
  PROVE  (IF par.qg THEN PosOf(par.parts[par.idx]) ELSE qgPos) = Level.saved[2]
<1> DEFINE L == Len(stack)  s == Level.saved
<1>1. L \in Nat \ {0} /\ L # 1 /\ L = Len(stack) /\ L - 1 \in 1..L /\ par \in LevelSet
  BY InvTop, InvParent
<1>2. Grouped(par, Level, qgPos)
  BY InvParent DEF Linked
<1>3. LevelOk(cfg, stack, L - 1, s[1], s[2], s[3])
  <2> HIDE DEF L
  <2>1. \A l \in 1..(L - 1) :
          LevelOk(cfg, stack, l, stack[l + 1].saved[1], stack[l + 1].saved[2], stack[l + 1].saved[3])
    BY DEF Inv, Path, L
  <2>2. L - 1 \in 1..(L - 1) /\ (L - 1) + 1 = L
    BY <1>1
  <2>3. stack[L].saved = s
    BY DEF Level, L
  <2> QED BY <2>1, <2>2, <2>3
<1>4. par.qg => s[2] = PosOf(At(par))
  <2>1. CASE L - 1 = 1
    <3>1. Rooted(cfg, par, s[1], s[2], s[3])
      BY <2>1, <1>3 DEF LevelOk
    <3>2. par.parts = <<Ctu>> /\ par.idx = 1 /\ s[2] = PosOf(Ctu)
      BY <3>1 DEF Rooted
    <3>3. <<Ctu>>[1] = Ctu
      OBVIOUS
    <3> QED BY <3>2, <3>3 DEF At
  <2>2. CASE L - 1 # 1
    <3>1. Linked(cfg, stack[(L - 1) - 1], par, s[1], s[2], s[3])
      BY <2>2, <1>3 DEF LevelOk
    <3> QED BY <3>1 DEF Linked, Grouped
  <2> QED BY <2>1, <2>2
<1>5. ~par.qg => qgPos = s[2]
  BY <1>2 DEF Grouped
<1> QED BY <1>4, <1>5 DEF At

\* A split that is left gives back what there was before it.
LEMMA ExitGivesBack ==
  ASSUME Inv, NEW done, Exit(done)
  PROVE  /\ Len(stack) # 1 /\ cfg' = cfg /\ partDone' = done
         /\ count' = Level.saved[1] /\ qgPos' = Level.saved[2]
         /\ stack' = SubSeq(stack, 1, Len(stack) - 1)
         /\ Path(cfg, stack', count', qgPos', Level.saved[3])
<1>1. Len(stack) # 1
  <2> DEFINE L == Len(stack)
  <2>1. L > 1 /\ L \in Nat
    BY InvTop DEF Exit
  <2> HIDE DEF L
  <2>2. L # 1
    BY <2>1
  <2> QED BY <2>2 DEF L
<1>2. /\ stack' = SubSeq(stack, 1, Len(stack) - 1) /\ cfg' = cfg /\ partDone' = done
      /\ count' = ExitCounts
  BY DEF Exit
<1> DEFINE par == stack[Len(stack) - 1]
<1>3. qgPos' = IF par.qg THEN PosOf(par.parts[par.idx]) ELSE qgPos
  BY DEF Exit
<1> HIDE DEF par
<1>4. count' = Level.saved[1] /\ qgPos' = Level.saved[2]
  BY <1>1, <1>2, <1>3, ExitUndoes, GroupUndone DEF par
<1>5. Path(cfg, stack, count, qgPos, CodedBefore) /\ cfg \in Configs
  BY DEF Inv
<1> DEFINE s == stack[Len(stack)].saved
<1>6. Path(cfg, SubSeq(stack, 1, Len(stack) - 1), s[1], s[2], s[3])
  BY <1>1, <1>5, PathPop
<1>7. s = Level.saved
  BY DEF Level
<1> QED BY <1>1, <1>2, <1>4, <1>6, <1>7

LEMMA InvFinish ==
  ASSUME Inv, Finish
  PROVE  Inv'
<1>1. /\ cfg \in Configs /\ coded \in Nat /\ Area \in AreaSet /\ CodedBefore \in Nat
      /\ Area = At(Level)
  BY InvTop
<1>2. partDone = TRUE /\ Level.idx = Len(Level.parts) /\ Exit(TRUE) /\ coded' = coded
  BY InvTop DEF Finish
<1>3. /\ Len(stack) # 1 /\ cfg' = cfg /\ partDone' = TRUE
      /\ stack' = SubSeq(stack, 1, Len(stack) - 1)
      /\ Path(cfg, stack', count', qgPos', Level.saved[3])
  BY <1>2, ExitGivesBack
<1> DEFINE par == stack[Len(stack) - 1]  k == Level.split  a == At(par)  s == Level.saved[3]
<1>4. /\ Divided(cfg, par, Level, count) /\ Tallied(cfg, Level, CodedBefore)
      /\ Len(Level.parts) = NParts(k)
  BY <1>3, InvParent DEF Linked
<1>5. /\ a \in AreaSet /\ Even(a, k) /\ k \in Splits /\ Level.parts = Parts(a, k)
      /\ Level.idx = NParts(k)
  BY <1>2, <1>4 DEF Divided
<1>6. (Area)' = a
  <2> DEFINE L == Len(stack)
  <2>1. L \in Nat \ {0} /\ L # 1 /\ L = Len(stack) /\ stack \in Seq(LevelSet)
    BY <1>3, InvTop
  <2>2. stack' = SubSeq(stack, 1, L - 1)
    BY <1>3
  <2> HIDE DEF L
  <2>3. Len(stack') = L - 1 /\ stack'[L - 1] = stack[L - 1]
    BY <2>1, <2>2
  <2>4. (Area)' = At(stack'[L - 1])
    BY <2>3 DEF Area, AreaAt, At
  <2> QED BY <2>3, <2>4 DEF L
<1>7. InPic(cfg, Area) + Before(cfg, Level.parts, Level.idx) = InPic(cfg, a)
  <2> HIDE DEF a, k
  <2> DEFINE b == Before(cfg, Parts(a, k), NParts(k))  v == InPic(cfg, Parts(a, k)[NParts(k)])
  <2>1. b + v = InPic(cfg, a)
    BY <1>1, <1>5, PartsCover
  <2>2. Area = Parts(a, k)[NParts(k)]
    BY <1>1, <1>5 DEF At
  <2>3. b = Before(cfg, Level.parts, Level.idx) /\ v = InPic(cfg, Area)
    BY <1>5, <2>2
  <2>4. v \in Nat
    BY <1>1, <2>3, InPicNat
  <2>5. b \in Nat
    <3>1. Level.parts \in Seq(AreaSet) /\ Level.idx \in 1..Len(Level.parts)
      BY InvTop, LevelTyped
    <3>2. Level.idx <= 4
      BY <1>5 DEF NParts
    <3>3. Before(cfg, Level.parts, Level.idx) \in Nat
      BY <1>1, <3>1, <3>2, BeforeTyped
    <3> QED BY <2>3, <3>3
  <2> HIDE DEF b, v
  <2>6. v + b = InPic(cfg, a)
    BY <2>1, <2>4, <2>5
  <2> QED BY <2>3, <2>6
<1>8. coded - InPic(cfg, a) = s
  <2> DEFINE b == Before(cfg, Level.parts, Level.idx)  v == InPic(cfg, Area)  t == InPic(cfg, a)
  <2>1. CodedBefore = coded - v /\ CodedBefore = s + b /\ v + b = t
    BY <1>2, <1>4, <1>7 DEF CodedBefore, Tallied
  <2>2. coded \in Nat /\ v \in Nat /\ t \in Nat /\ s \in Nat /\ b \in Nat
    <3>1. v \in Nat /\ t \in Nat
      BY <1>1, <1>5, InPicNat
    <3>2. s \in Nat
      BY <1>3, InvParent, SavedTyped
    <3>3. Level.parts \in Seq(AreaSet) /\ Level.idx \in 1..Len(Level.parts)
      BY InvTop, LevelTyped
    <3>4. Level.idx <= 4
      BY <1>5 DEF NParts
    <3>5. b \in Nat
      BY <1>1, <3>3, <3>4, BeforeTyped
    <3> QED BY <1>1, <3>1, <3>2, <3>5
  <2> HIDE DEF b, v, t, s
  <2>3. coded - t = s
    BY <2>1, <2>2
  <2> QED BY <2>3 DEF t
<1>9. (CodedBefore)' = s
  <2>1. (CodedBefore)' = coded - InPic(cfg, (Area)')
    BY <1>2, <1>3 DEF CodedBefore
  <2> QED BY <1>6, <1>8, <2>1
<1> QED BY <1>1, <1>2, <1>3, <1>9 DEF Inv

LEMMA InvAbandon ==
  ASSUME Inv, Abandon
  PROVE  Inv'
<1>1. Exit(FALSE) /\ coded' = Level.saved[3]
  BY DEF Abandon
<1>2. /\ Len(stack) # 1 /\ cfg' = cfg /\ partDone' = FALSE
      /\ Path(cfg, stack', count', qgPos', Level.saved[3])
  BY <1>1, ExitGivesBack
<1>3. Level.saved[3] \in Nat /\ cfg \in Configs
  BY <1>2, InvParent, InvTop, SavedTyped
<1>4. (CodedBefore)' = Level.saved[3]
  BY <1>1, <1>2 DEF CodedBefore
<1> QED BY <1>1, <1>2, <1>3, <1>4 DEF Inv

\* A stack of splits and the counters of the path: the counters, the group and the
\* samples coded are those of the path at every level, in every step of a search.
THEOREM PartitionerInvariant == Spec => []Inv
<1>1. Init => Inv
  BY InvInit
<1>2. Inv /\ [Next]_vars => Inv'
  <2> SUFFICES ASSUME Inv, [Next]_vars
               PROVE  Inv'
    OBVIOUS
  <2>1. CASE \E k \in Splits : Split(k)
    BY <2>1, InvSplit
  <2>2. CASE CodeCu
    BY <2>2, InvCode
  <2>3. CASE NextPart
    BY <2>3, InvNext
  <2>4. CASE Finish
    BY <2>4, InvFinish
  <2>5. CASE Abandon
    BY <2>5, InvAbandon
  <2>6. CASE UNCHANGED vars
    BY <2>6 DEF vars, Inv, CodedBefore, Area, AreaAt
  <2> QED BY <2>1, <2>2, <2>3, <2>4, <2>5, <2>6 DEF Next
<1> QED BY <1>1, <1>2, PTL DEF Spec

\* exitCurrSplit, at the end of a split or half way, gives back the counters and the
\* quantization group of before the split, for every CTU size and configuration.
THEOREM ExitRestoresHolds == Spec => ExitRestores
<1>1. Inv /\ [Next]_vars
        => [Len(stack') < Len(stack) => <<count', qgPos'>> = <<Level.saved[1], Level.saved[2]>>]_vars
  <2> SUFFICES ASSUME Inv, Next, Len(stack') < Len(stack)
               PROVE  <<count', qgPos'>> = <<Level.saved[1], Level.saved[2]>>
    OBVIOUS
  <2> DEFINE L == Len(stack)
  <2>0. L \in Nat \ {0} /\ L = Len(stack) /\ stack \in Seq(LevelSet)
    BY InvTop
  <2>1. CASE \E k \in Splits : Split(k)
    <3>1. PICK top, lvl : stack' = Append([stack EXCEPT ![Len(stack)] = top], lvl)
      <4>1. PICK k \in Splits : Split(k)
        BY <2>1
      <4>2. PICK lvl : stack' = Append([stack EXCEPT ![Len(stack)].implicit = (Implicit # None)], lvl)
        BY <4>1 DEF Split
      <4> QED BY <4>2
    <3> DEFINE su == [stack EXCEPT ![Len(stack)] = top]
    <3>2. \E A : su \in Seq(A) /\ lvl \in A /\ Len(su) = L
      <4>1. su \in Seq(LevelSet \cup {top, lvl}) /\ Len(su) = L
        <5> HIDE DEF L
        <5> QED BY <2>0
      <4> QED BY <4>1
    <3> HIDE DEF su, L
    <3>3. Len(Append(su, lvl)) = L + 1
      BY <3>2
    <3>4. Len(stack') = L + 1
      BY <3>1, <3>3 DEF su
    <3> QED BY <2>0, <3>4
  <2>2. CASE CodeCu
    <3>1. stack' = stack
      BY <2>2 DEF CodeCu
    <3> HIDE DEF L
    <3> QED BY <3>1, <2>0
  <2>3. CASE NextPart
    <3>1. PICK top : stack' = [stack EXCEPT ![Len(stack)] = top]
      BY <2>3 DEF NextPart
    <3>2. Len(stack') = L
      <4> HIDE DEF L
      <4> QED BY <3>1, <2>0
    <3> HIDE DEF L
    <3> QED BY <3>2, <2>0
  <2>4. CASE Finish
    BY <2>4, ExitGivesBack DEF Finish
  <2>5. CASE Abandon
    BY <2>5, ExitGivesBack DEF Abandon
  <2> QED BY <2>1, <2>2, <2>3, <2>4, <2>5 DEF Next
<1> QED BY <1>1, PartitionerInvariant, PTL DEF Spec, ExitRestores

\* When a CTU is done every sample of it in the picture has been coded once; an area
\* is coded without a further split only when it lies in the picture.
THEOREM CodedOnceHolds == Spec => []CodedOnce
<1>1. Inv => CodedOnce
  <2> SUFFICES ASSUME Inv
               PROVE  CodedOnce
    OBVIOUS
  <2>1. /\ cfg \in Configs /\ Area \in AreaSet /\ count \in CountSet /\ coded \in Nat
        /\ Placed(cfg, LastSplit, Area, count)
    BY InvTop
  <2>2. ASSUME Done
        PROVE  coded = cfg.picW * cfg.picH
    <3>1. Len(stack) = 1 /\ partDone
      BY <2>2 DEF Done
    <3>2. Rooted(cfg, Level, count, qgPos, CodedBefore)
      BY <3>1, TopTyped DEF Inv, Level
    <3>3. Area = Ctu
      <4>1. Level.parts = <<Ctu>> /\ Level.idx = 1
        BY <3>2 DEF Rooted
      <4>2. <<Ctu>>[1] = Ctu
        OBVIOUS
      <4> QED BY <4>1, <4>2, InvTop DEF At
    <3>4. coded - InPic(cfg, Ctu) = 0
      BY <3>1, <3>2, <3>3 DEF Rooted, CodedBefore
    <3>5. InPic(cfg, Ctu) \in Nat
      BY <2>1, CtuTyped, InPicNat
    <3>6. InPic(cfg, Ctu) = cfg.picW * cfg.picH
      <4>1. /\ cfg.picW \in Nat \ {0} /\ cfg.picW <= CtuSize
            /\ cfg.picH \in Nat \ {0} /\ cfg.picH <= CtuSize
        BY <2>1, ConfigTyped
      <4>2. CtuSize \in Nat
        BY PartitionerAssumption
      <4>3. Clip(0, CtuSize, cfg.picW) = cfg.picW /\ Clip(0, CtuSize, cfg.picH) = cfg.picH
        BY <4>1, <4>2 DEF Clip
      <4> QED BY <4>3, CtuTyped DEF InPic
    <3> DEFINE v == InPic(cfg, Ctu)
    <3> HIDE DEF v
    <3>7. coded = v
      BY <2>1, <3>4, <3>5 DEF v
    <3> QED BY <3>6, <3>7 DEF v
  <2>3. ASSUME ~partDone /\ InPicture(Area) > 0
        PROVE  CanNo <=> InPicture(Area) = Area.w * Area.h /\ ~(cfg.dual /\ Area.w > 64)
    <3>1. InPicture(Area) = InPic(cfg, Area)
      BY <2>1, InPictureIs
    <3>2. CanNo <=> Inside(cfg, Area) /\ ~Large(cfg, Area)
      BY <2>1, ImplicitMeans DEF CanNo
    <3>3. Inside(cfg, Area) <=> InPic(cfg, Area) = Area.w * Area.h
      BY <2>1, <2>3, <3>1, InsideIs
    <3>4. Large(cfg, Area) <=> cfg.dual /\ Area.w > 64
      <4>1. Area.w = Area.h \/ ~Large(cfg, Area)
        BY <2>1 DEF Placed, OfQuad, OfMtt
      <4> QED BY <4>1 DEF Large
    <3> QED BY <3>1, <3>2, <3>3, <3>4
  <2> QED BY <2>2, <2>3 DEF CodedOnce
<1> QED BY <1>1, PartitionerInvariant, PTL

\* With the depths of the encoder's default configuration, three explicit levels and a
\* smallest quad of at most eight samples, no path has more than six MTT splits: each
\* split at the border halves an extent that crosses it and has at most 64 samples.
THEOREM MttFitsHolds ==
  ASSUME \A c \in Configs : c.maxMtt <= 3 /\ c.minQt <= 8
  PROVE  Spec => []MttFits
<1>1. Inv => MttFits
  <2> SUFFICES ASSUME Inv
               PROVE  MttFits
    OBVIOUS
  <2>1. cfg \in Configs /\ count \in CountSet /\ Depths(cfg, count)
    BY InvTop DEF Placed
  <2>2. cfg.maxMtt \in Nat /\ cfg.maxMtt <= 3 /\ cfg.minQt <= 8
    BY <2>1, ConfigTyped
  <2>3. count.mt \in Int /\ count.implicitBt \in Int
    BY <2>1, CountTyped
  <2> QED BY <2>1, <2>2, <2>3 DEF Depths, MttFits
<1> QED BY <1>1, PartitionerInvariant, PTL
=============================================================================
