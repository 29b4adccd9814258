-------------------------------- MODULE Cabac --------------------------------
(* The arithmetic coder of the slice data: BinEncoderBase and TBinEncoder      *)
(* write one sub-stream, BinDecoderBase and TBinDecoder read it back with the  *)
(* same context models.  The registers have their real widths: low never       *)
(* reaches 2^30 (CarryFits), so the 32-bit shifts of the code lose nothing.    *)
EXTENDS Integers, Sequences

CONSTANTS Ctx,        \* the context models
          InitProb,   \* [Ctx -> 1..127]: the clipped initial state of each
          Window,     \* [Ctx -> 0..15]: log2 of its window size
          Strings,    \* the <<bins, numBins>> given to encodeBinsEP
          Remainders, \* the <<bins, rice, cutoff, range>> of encodeRemAbsEP
          MaxSymbols  \* bound: the symbols of a sub-stream

VARIABLES phase,   \* "encode", "decode", "done"
          enc,     \* the registers of the encoder and the bytes it has written
          encCtx,  \* the context models of the encoder
          coded,   \* ghost: the symbols encoded
          dec,     \* the registers of the decoder
          decCtx,  \* the context models of the decoder
          got      \* ghost: the values decoded

vars == <<phase, enc, encCtx, coded, dec, decCtx, got>>

Pow2(n) == 2^n

(* ------------------------------ context models ------------------------------ *)

Rate0(c) == 2 + (Window[c] \div 4)
Rate1(c) == 3 + Rate0(c) + (Window[c] % 4)

MaxProb == 32767             \* PROB_BITS
Masked0(x) == x - (x % 32)   \* & MASK_0
Masked1(x) == x - (x % 2)    \* & MASK_1

InitModel(c) == <<Masked0(InitProb[c] * 256), Masked1(InitProb[c] * 256)>>

Update(m, c, bin) ==
  <<m[1] - Masked0(m[1] \div Pow2(Rate0(c))) + bin * Masked0(MaxProb \div Pow2(Rate0(c))),
    m[2] - Masked1(m[2] \div Pow2(Rate1(c))) + bin * Masked1(MaxProb \div Pow2(Rate1(c)))>>

State(m) == (m[1] + m[2]) \div 256
Mps(m) == State(m) \div 128

Lps(m, range) ==
  LET q == IF Mps(m) = 1 THEN 255 - State(m) ELSE State(m)
  IN ((q \div 4) * (range \div 32)) \div 2 + 4

RenormTable == <<6, 5, 4, 4, 3, 3, 3, 3, 2, 2, 2, 2, 2, 2, 2, 2,
                 1, 1, 1, 1, 1, 1, 1, 1, 1, 1, 1, 1, 1, 1, 1, 1>>
RenormBits(lps) == RenormTable[lps \div 8 + 1]

(* --------------------------------- encoder --------------------------------- *)

Started == [low |-> 0, range |-> 510, bufferedByte |-> 255,
            numBufferedBytes |-> 0, bitsLeft |-> 23, out |-> <<>>]

WriteOutLosesCarry(e) == \* a slip: the carry is masked away with the lead byte
  LET lead == (e.low \div Pow2(24 - e.bitsLeft)) % 256
      kept == [e EXCEPT !.bitsLeft = @ + 8, !.low = @ % Pow2(24 - e.bitsLeft)]
  IN CASE lead = 255 -> [kept EXCEPT !.numBufferedBytes = @ + 1]
       [] lead # 255 /\ e.numBufferedBytes = 0 ->
            [kept EXCEPT !.numBufferedBytes = 1, !.bufferedByte = lead]
       [] OTHER ->
            [kept EXCEPT !.numBufferedBytes = 1, !.bufferedByte = lead,
               !.out = @ \o <<e.bufferedByte>> \o [i \in 1..e.numBufferedBytes - 1 |-> 255]]

\* A byte leaves the low register.  A byte 255 may still be reached by a carry
\* and is only counted; any other byte settles the bytes held back before it.
WriteOut(e) ==
  LET lead  == e.low \div Pow2(24 - e.bitsLeft)
      carry == lead \div 256
      kept  == [e EXCEPT !.bitsLeft = @ + 8, !.low = @ % Pow2(24 - e.bitsLeft)]
  IN CASE lead = 255 -> [kept EXCEPT !.numBufferedBytes = @ + 1]
       [] lead # 255 /\ e.numBufferedBytes = 0 ->
            [kept EXCEPT !.numBufferedBytes = 1, !.bufferedByte = lead]
       [] OTHER ->
            [kept EXCEPT !.numBufferedBytes = 1, !.bufferedByte = lead % 256,
               !.out = @ \o <<e.bufferedByte + carry>>
                         \o [i \in 1..e.numBufferedBytes - 1 |-> (255 + carry) % 256]]

\* The low register moves up by n bits and receives add; a byte goes out when
\* fewer than 12 bits are left.
Put(e, n, add, range) ==
  LET f == [e EXCEPT !.low = @ * Pow2(n) + add, !.range = range, !.bitsLeft = @ - n]
  IN IF f.bitsLeft < 12 THEN WriteOut(f) ELSE f

PutBinOldRange(e, m, bin) == \* a slip: the LPS path adds the range before the split
  LET lps == Lps(m, e.range)
      mpsRange == e.range - lps
      n == RenormBits(lps)
  IN CASE bin # Mps(m) -> Put(e, n, e.range * Pow2(n), lps * Pow2(n))
       [] bin = Mps(m) /\ mpsRange < 256 -> Put(e, 1, 0, 2 * mpsRange)
       [] OTHER -> [e EXCEPT !.range = mpsRange]

PutBin(e, m, bin) ==
  LET lps == Lps(m, e.range)
      mpsRange == e.range - lps
      n == RenormBits(lps)
  IN CASE bin # Mps(m) -> Put(e, n, mpsRange * Pow2(n), lps * Pow2(n))
       [] bin = Mps(m) /\ mpsRange < 256 -> Put(e, 1, 0, 2 * mpsRange)
       [] OTHER -> [e EXCEPT !.range = mpsRange]

PutBinEP(e, bin) == Put(e, 1, bin * e.range, e.range)

\* Bypass strings go out in chunks of eight bins, the last one of the rest; a
\* string has at most 32 bins, so four chunks.
ChunkBins(n, i) == IF 8 * i < n THEN 8 ELSE n - 8 * (i - 1)
Below(n, i) == IF 8 * i < n THEN n - 8 * i ELSE 0
Pattern(bins, n, i) == (bins \div Pow2(Below(n, i))) % Pow2(ChunkBins(n, i))

PutChunk(e, bins, n, i) ==
  IF 8 * (i - 1) >= n THEN e
  ELSE Put(e, ChunkBins(n, i), e.range * Pattern(bins, n, i), e.range)

PutBinsEP(e, bins, n) ==
  PutChunk(PutChunk(PutChunk(PutChunk(e, bins, n, 1), bins, n, 2), bins, n, 3), bins, n, 4)

PutBinTrm(e, bin) ==
  LET r == e.range - 2
  IN CASE bin = 1 -> Put(e, 7, r * Pow2(7), 2 * Pow2(7))
       [] bin = 0 /\ r >= 256 -> [e EXCEPT !.range = r]
       [] OTHER -> Put(e, 1, 0, 2 * r)

\* The Exp-Golomb prefix of a remainder beyond the cutoff.
PrefixLength(code, max) ==
  IF code >= Pow2(max) - 1 THEN max
  ELSE CHOOSE p \in 0..max : Pow2(p) - 1 <= code /\ code <= Pow2(p + 1) - 2

\* The two bypass strings of a remainder, each <<bins, numBins>>: a unary prefix
\* with its separator, and a suffix.
RemAbs(r) ==
  LET bins == r[1]  rice == r[2]  cutoff == r[3]  dynRange == r[4]
      unary == bins \div Pow2(rice)
      low   == bins % Pow2(rice)
      max   == 32 - cutoff - dynRange
      p     == PrefixLength(unary - cutoff, max)
  IN IF unary < cutoff
     THEN << <<Pow2(unary + 1) - 2, unary + 1>>, <<low, rice>> >>
     ELSE << <<Pow2(p + cutoff) - 1, p + cutoff>>,
             <<(unary - cutoff - (Pow2(p) - 1)) * Pow2(rice) + low,
               IF unary - cutoff >= Pow2(max) - 1 THEN dynRange ELSE p + rice + 1>> >>

PutRemAbs(e, r) ==
  LET s == RemAbs(r)
  IN PutBinsEP(PutBinsEP(e, s[1][1], s[1][2]), s[2][1], s[2][2])

EstRemAbsNoSeparator(r) == \* a slip: the separator bin is not charged
  LET unary == r[1] \div Pow2(r[2])
      max == 32 - r[3] - r[4]
      p == PrefixLength(unary - r[3], max)
  IN IF unary < r[3] THEN unary + 1 + r[2]
     ELSE r[3] + p + (IF unary - r[3] >= Pow2(max) - 1 THEN r[4] ELSE p + r[2])

\* The bins BitEstimatorBase charges for a remainder.
EstRemAbs(r) ==
  LET unary == r[1] \div Pow2(r[2])
      max == 32 - r[3] - r[4]
      p == PrefixLength(unary - r[3], max)
  IN IF unary < r[3] THEN unary + 1 + r[2]
     ELSE r[3] + p + (IF unary - r[3] >= Pow2(max) - 1 THEN r[4] ELSE p + r[2] + 1)

TailBytesNoStop(low, bitsLeft) == \* a slip: no stop bit
  LET n == 24 - bitsLeft
      pad == (8 - (n % 8)) % 8
      count == (n + pad) \div 8
  IN [i \in 1..count |-> (((low \div 256) * Pow2(pad)) \div 256^(count - i)) % 256]

\* The bits of the low register that are left, the stop bit and the alignment.
TailBytes(low, bitsLeft) ==
  LET n == 25 - bitsLeft
      pad == (8 - (n % 8)) % 8
      w == (2 * (low \div 256) + 1) * Pow2(pad)
      count == (n + pad) \div 8
  IN [i \in 1..count |-> (w \div 256^(count - i)) % 256]

\* finish(), then the stop bit and alignment of the sub-stream.
Finish(e) ==
  LET one == Pow2(32 - e.bitsLeft)
  IN IF e.low >= one
     THEN e.out \o <<e.bufferedByte + 1>> \o [i \in 1..e.numBufferedBytes - 1 |-> 0]
          \o TailBytes(e.low - one, e.bitsLeft)
     ELSE e.out \o (IF e.numBufferedBytes > 0 THEN <<e.bufferedByte>> ELSE <<>>)
          \o [i \in 1..e.numBufferedBytes - 1 |-> 255] \o TailBytes(e.low, e.bitsLeft)

(* --------------------------------- decoder --------------------------------- *)

\* readByte(): beyond the end of the stream the code throws; InsideStream says
\* that this does not happen.
ByteAt(s, i) == IF i \in DOMAIN s THEN s[i] ELSE 0

StartDecoder(s) ==
  [value |-> 256 * ByteAt(s, 1) + ByteAt(s, 2), range |-> 510, bitsNeeded |-> -8, idx |-> 3]

\* The value moves up by n bits and a byte is read when eight have gone.
Refill(s, d, n) ==
  LET need == d.bitsNeeded + n
      v == d.value * Pow2(n)
  IN IF need < 0 THEN [d EXCEPT !.value = v, !.bitsNeeded = need]
     ELSE [d EXCEPT !.value = v + ByteAt(s, d.idx) * Pow2(need), !.bitsNeeded = need - 8,
                    !.idx = @ + 1]

\* Every reader gives <<what it read, the decoder after it>>.
GetBin(s, d, m) ==
  LET lps == Lps(m, d.range)
      mpsRange == d.range - lps
      n == RenormBits(lps)
  IN CASE d.value < mpsRange * Pow2(7) /\ mpsRange < 256 ->
            <<Mps(m), Refill(s, [d EXCEPT !.range = 2 * mpsRange], 1)>>
       [] d.value < mpsRange * Pow2(7) /\ mpsRange >= 256 ->
            <<Mps(m), [d EXCEPT !.range = mpsRange]>>
       [] OTHER ->
            <<1 - Mps(m), Refill(s, [d EXCEPT !.range = lps * Pow2(n), !.value = @ - mpsRange * Pow2(7)], n)>>

GetBinEP(s, d) ==
  LET f == Refill(s, d, 1)
  IN IF f.value >= f.range * Pow2(7)
     THEN <<1, [f EXCEPT !.value = @ - f.range * Pow2(7)]>>
     ELSE <<0, f>>

\* One bin of a chunk of n: the value is compared with the range at its height.
TakeBin(a, range, n, i) ==
  LET w == range * Pow2(7 + n - i)
  IN IF a[2] >= w THEN <<2 * a[1] + 1, a[2] - w>> ELSE <<2 * a[1], a[2]>>

\* One chunk of a bypass string: the bins are compared one by one, the range 256
\* of the aligned mode takes them from the value.
GetChunk(s, d, n) ==
  LET f == Refill(s, d, n)
      take[i \in 0..n] == IF i = 0 THEN <<0, f.value>> ELSE TakeBin(take[i - 1], d.range, n, i)
  IN <<take[n][1], [f EXCEPT !.value = take[n][2]]>>

GetAlignedChunk(s, d, n) ==
  <<(d.value \div Pow2(15 - n)) % Pow2(n),
    LET f == Refill(s, [d EXCEPT !.value = 0], n)
    IN [f EXCEPT !.value = @ + ((d.value * Pow2(n)) % Pow2(15))]>>

\* Chunk i of a string of n bins, behind the chunks a[1] has been read from.
ReadChunk(s, a, n, i) ==
  LET k == ChunkBins(n, i)
      r == IF a[2].range = 256 THEN GetAlignedChunk(s, a[2], k) ELSE GetChunk(s, a[2], k)
  IN IF 8 * (i - 1) >= n THEN a ELSE <<a[1] * Pow2(k) + r[1], r[2]>>

GetBinsEP(s, d, n) ==
  ReadChunk(s, ReadChunk(s, ReadChunk(s, ReadChunk(s, <<0, d>>, n, 1), n, 2), n, 3), n, 4)

GetBinTrm(s, d) ==
  LET r == d.range - 2
  IN CASE d.value >= r * Pow2(7) -> <<1, [d EXCEPT !.range = r]>>
       [] d.value < r * Pow2(7) /\ r >= 256 -> <<0, [d EXCEPT !.range = r]>>
       [] OTHER -> <<0, Refill(s, [d EXCEPT !.range = 2 * r], 1)>>

\* One bin of the unary prefix of a remainder, while there was none of 0.
PrefixBin(s, a) ==
  LET b == GetBinEP(s, a.d)
  IN IF a.more THEN [ones |-> a.ones + b[1], more |-> b[1] = 1, d |-> b[2]] ELSE a

\* decodeRemAbsEP: the unary prefix bin by bin up to its maximum, then the rest.
GetRemAbs(s, d, rice, cutoff, dynRange) ==
  LET max == 32 - dynRange
      prefix[i \in 0..max] == IF i = 0 THEN [ones |-> 0, more |-> TRUE, d |-> d]
                              ELSE PrefixBin(s, prefix[i - 1])
      p == prefix[max].ones
      offset == (IF p < cutoff THEN p ELSE Pow2(p - cutoff) + cutoff - 1) * Pow2(rice)
      length == CASE p < cutoff -> rice
                  [] p >= cutoff /\ p = max -> dynRange
                  [] OTHER -> rice + p - cutoff
      rest == GetBinsEP(s, prefix[max].d, length)
  IN <<offset + rest[1], rest[2]>>

(* ------------------------------- the sub-stream ------------------------------- *)

\* A symbol: its kind, what writer and reader know of it, and its value.
Sym(op, arg, val) == [op |-> op, arg |-> arg, val |-> val]
Symbols ==
  {Sym("bin", c, b) : c \in Ctx, b \in 0..1}
    \cup {Sym("ep", 0, b) : b \in 0..1}
    \cup {Sym("eps", s[2], s[1]) : s \in Strings}
    \cup {Sym("rem", <<r[2], r[3], r[4]>>, r[1]) : r \in Remainders}
    \cup {Sym("trm", 0, b) : b \in 0..1}

\* rate1 is at most 9.  A bypass string has at most the bins of an unsigned, and its
\* value no more bits than it has bins: neither side masks it.  A coefficient has a
\* dynamic range of 15 to 22 bits and an absolute value up to that power of two, with 5
\* unary bins (COEF_REMAIN_BIN_REDUCTION); a vector's 17 bits, with none.  A Rice
\* parameter is a handful of bits (28 is a bound no code comes near).
FitsIn(s) == s[1] < Pow2(s[2])

ASSUME CabacAssumption ==
  /\ InitProb \in [Ctx -> 1..127]
  /\ Window \in [Ctx -> 0..15]
  /\ \A c \in Ctx : Rate1(c) <= 9
  /\ Strings \subseteq Nat \X (1..32) /\ \A s \in Strings : FitsIn(s)
  /\ \A r \in Remainders :
       /\ r \in Nat \X (0..28) \X (0..17) \X (15..32)
       /\ r[3] + r[4] <= 31 /\ r[1] <= Pow2(r[4])
  /\ MaxSymbols \in Nat

Init == /\ phase = "encode"
        /\ enc = Started
        /\ encCtx = [c \in Ctx |-> InitModel(c)]
        /\ coded = <<>>
        /\ dec = StartDecoder(<<>>)
        /\ decCtx = [c \in Ctx |-> InitModel(c)]
        /\ got = <<>>

Encoded(symbol, e) ==
  /\ phase = "encode"
  /\ Len(coded) < MaxSymbols
  /\ enc' = e
  /\ coded' = Append(coded, symbol)
  /\ UNCHANGED <<phase, dec, decCtx, got>>

EncodeBin(c, bin) ==
  /\ Encoded(Sym("bin", c, bin), PutBin(enc, encCtx[c], bin))
  /\ encCtx' = [encCtx EXCEPT ![c] = Update(@, c, bin)]

EncodeBinEP(bin) ==
  Encoded(Sym("ep", 0, bin), PutBinEP(enc, bin)) /\ UNCHANGED encCtx

EncodeBinsEP(s) ==
  Encoded(Sym("eps", s[2], s[1]), PutBinsEP(enc, s[1], s[2])) /\ UNCHANGED encCtx

EncodeRemAbsEP(r) ==
  Encoded(Sym("rem", <<r[2], r[3], r[4]>>, r[1]), PutRemAbs(enc, r)) /\ UNCHANGED encCtx

EncodeBinTrm ==
  Encoded(Sym("trm", 0, 0), PutBinTrm(enc, 0)) /\ UNCHANGED encCtx

\* end_of_slice(): the terminating bin closes the sub-stream; the decoder starts.
EndOfSlice ==
  /\ phase = "encode"
  /\ phase' = "decode"
  /\ coded' = Append(coded, Sym("trm", 0, 1))
  /\ enc' = LET e == PutBinTrm(enc, 1) IN [e EXCEPT !.out = Finish(e)]
  /\ dec' = StartDecoder(enc'.out)
  /\ UNCHANGED <<encCtx, decCtx, got>>

\* The reader knows the syntax, so the kind of the symbol that comes next.
Coming(op) == phase = "decode" /\ coded[Len(got) + 1].op = op
Arg == coded[Len(got) + 1].arg

Decoded(read) ==
  /\ got' = Append(got, read[1])
  /\ dec' = read[2]
  /\ UNCHANGED <<enc, encCtx, coded>>

DecodeBin ==
  /\ Coming("bin")
  /\ LET r == GetBin(enc.out, dec, decCtx[Arg])
     IN Decoded(r) /\ decCtx' = [decCtx EXCEPT ![Arg] = Update(@, Arg, r[1])]
  /\ UNCHANGED phase

DecodeBinEP == Coming("ep") /\ Decoded(GetBinEP(enc.out, dec)) /\ UNCHANGED <<phase, decCtx>>

DecodeBinsEP ==
  Coming("eps") /\ Decoded(GetBinsEP(enc.out, dec, Arg)) /\ UNCHANGED <<phase, decCtx>>

DecodeRemAbsEP ==
  /\ Coming("rem")
  /\ Decoded(GetRemAbs(enc.out, dec, Arg[1], Arg[2], Arg[3]))
  /\ UNCHANGED <<phase, decCtx>>

\* terminating_bit(): the reader stops at the first terminating bin it reads as 1.
TerminatingBit ==
  /\ Coming("trm")
  /\ LET r == GetBinTrm(enc.out, dec)
     IN Decoded(r) /\ phase' = IF r[1] = 1 THEN "done" ELSE "decode"
  /\ UNCHANGED decCtx

Next == \/ \E c \in Ctx, b \in 0..1 : EncodeBin(c, b)
        \/ \E b \in 0..1 : EncodeBinEP(b)
        \/ \E s \in Strings : EncodeBinsEP(s)
        \/ \E r \in Remainders : EncodeRemAbsEP(r)
        \/ EncodeBinTrm \/ EndOfSlice
        \/ DecodeBin \/ DecodeBinEP \/ DecodeBinsEP \/ DecodeRemAbsEP \/ TerminatingBit

Spec == Init /\ [][Next]_vars

(* -------------------------------- properties -------------------------------- *)

Byte == 0..255
Range9 == 256..510   \* a renormalised range
BitsLeft == 12..23
EncoderType ==
  [low : Nat, range : Range9, bufferedByte : Byte, numBufferedBytes : Nat,
   bitsLeft : BitsLeft, out : Seq(Byte)]
ModelType == (0..MaxProb) \X (0..MaxProb)

\* The interval of the encoder never reaches past the bytes that may still
\* change: one carry at most can come, and only into a byte held back below 255.
Absorbs(e) ==
  LET room == Pow2(32 - e.bitsLeft)
  IN IF e.numBufferedBytes = 0 \/ e.bufferedByte = 255
     THEN e.low + e.range <= room
     ELSE e.low + e.range <= 2 * room

\* A carry out of the low register (WriteOut, Finish) always finds a byte held
\* back that can absorb it, so no byte already written would need it and none
\* becomes 256 (m_bufferedByte + carry in BinEncoderBase::writeOut).
CarryFits == Absorbs(enc)

\* Every value decoded is the value encoded, in order and only after the end of
\* the sub-stream (the decoder of BinDecoder.cpp undoes BinEncoder.cpp).
Channel == INSTANCE BinChannel WITH
  Symbol <- Symbols, sent <- coded, closed <- phase # "encode",
  received <- [i \in 1..Len(got) |-> [coded[i] EXCEPT !.val = got[i]]]
ReadsBack == Channel!Spec

\* The decoder reads no byte beyond the sub-stream and ends with its last byte
\* read, on the stop bit (the two CHECKs of readByte and BinDecoderBase::finish).
InsideStream ==
  /\ phase # "encode" => dec.idx <= Len(enc.out) + 1
  /\ phase = "decode" => dec.value < dec.range * Pow2(7)
  /\ phase = "done" => /\ dec.idx = Len(enc.out) + 1
                       /\ (enc.out[dec.idx - 1] * Pow2(8 + dec.bitsNeeded)) % 256 = 128

\* The search charges a remainder as many bins as the encoder writes for it.
EstimateExact ==
  \A i \in 1..Len(coded) : coded[i].op = "rem" =>
    LET r == <<coded[i].val>> \o coded[i].arg
    IN EstRemAbs(r) = RemAbs(r)[1][2] + RemAbs(r)[2][2]
=============================================================================
