--------------------------- MODULE CabacZeroWords ---------------------------
(* The padding of one picture with cabac_zero_words (EncGOP.cpp): behind the   *)
(* last slice of each sub-picture, and once more behind the picture, as many   *)
(* as the picture's bins ask for, in the arithmetic of size_t.                 *)
EXTENDS Integers

CONSTANTS Scale,       \* vclByteScaleFactor_x3
          RawBits,     \* rawBits / 32
          SizeT,       \* bound: size_t counts modulo SizeT, 2^64 in the program
          SliceBins,   \* bound: the bins a slice may have
          SliceBytes,  \* bound: the bytes its NAL unit may have
          MaxBins,     \* bound: bins in the picture
          MaxBytes     \* bound: bytes in the picture

ASSUME ScaleAssumption == Scale \in {32, 36}
ASSUME PictureAssumption == /\ RawBits \in Nat /\ MaxBins \in Nat /\ MaxBytes \in Nat
                            /\ SliceBins \subseteq Nat /\ SliceBytes \subseteq Nat
ASSUME SizeTAssumption == SizeT \in Nat /\ SizeT > 6 * MaxBins + 100

VARIABLES on,      \* m_cabacZeroWordPaddingEnabled
          phase,   \* "slices", "done", or "failed": an exception nobody catches
          pic,     \* binCountsInNalUnits, numBytesInVclNalUnits
          sub,     \* the same of the sub-picture, subPicStats[subpicIdx]
          sum,     \* sumZeroWords
          padded,  \* the bytes of padding written
          call     \* the last call of cabac_zero_word_padding: what it was given and its result

paddingVars == <<on, phase, pic, sub, sum, padded, call>>

Nothing == [bins |-> 0, bytes |-> 0]
Plus(p, b, n) == [bins |-> p.bins + b, bytes |-> p.bytes + n]

Threshold(p) == (Scale * p.bytes) \div 3 + RawBits

\* targetNumBytesInVclNalUnits
Target(p) == ((p.bins - RawBits) * 3 + Scale - 1) \div Scale

\* A slip: the words already inserted are taken for bytes.
NeededWordsAsBytes(p, already) == (Target(p) - p.bytes - already) % SizeT

\* numberOfAdditionalBytesNeeded: the maximum of 0 and a size_t.
Needed(p, already) == (Target(p) - p.bytes - already * 3) % SizeT

\* numberOfAdditionalCabacZeroWords
ZeroWords(p, already) ==
  IF p.bins >= Threshold(p) /\ Target(p) > p.bytes
  THEN ((Needed(p, already) + 2) % SizeT) \div 3
  ELSE 0

\* The vector of the padding can be constructed.
Fits(words) == (words * 3) % SizeT < SizeT \div 2

\* A call: w words more are counted, and written if the padding is enabled.
Pad(p, already, w, after) ==
  /\ call' = [bins |-> p.bins, bytes |-> p.bytes, already |-> already, words |-> w]
  /\ phase' = IF on /\ ~Fits(w) THEN "failed" ELSE after
  /\ padded' = IF on /\ Fits(w) THEN padded + 3 * w ELSE padded

PaddingInit ==
  /\ on \in BOOLEAN
  /\ phase = "slices"
  /\ pic = Nothing /\ sub = Nothing
  /\ sum = 0 /\ padded = 0
  /\ call = [bins |-> 0, bytes |-> 0, already |-> 0, words |-> 0]

\* A slice of b bins in n bytes that is not the last one in its sub-picture.
EncodeSlice(b, n) ==
  /\ phase = "slices"
  /\ pic.bins + b <= MaxBins /\ pic.bytes + n <= MaxBytes
  /\ pic' = Plus(pic, b, n)
  /\ sub' = Plus(sub, b, n)
  /\ UNCHANGED <<on, phase, sum, padded, call>>

\* The last one.
EndSubpic(b, n) ==
  /\ phase = "slices"
  /\ pic.bins + b <= MaxBins /\ pic.bytes + n <= MaxBytes
  /\ pic' = Plus(pic, b, n)
  /\ sub' = Nothing
  /\ LET w == ZeroWords(Plus(sub, b, n), 0)
     IN Pad(Plus(sub, b, n), 0, w, "slices") /\ sum' = sum + w
  /\ UNCHANGED on

\* After the last sub-picture; the bytes counted are those without padding.
EndOfPicture ==
  /\ phase = "slices"
  /\ pic # Nothing /\ sub = Nothing
  /\ Pad(pic, sum, ZeroWords(pic, sum), "done")
  /\ UNCHANGED <<on, pic, sub, sum>>

PaddingNext ==
  \/ \E b \in SliceBins, n \in SliceBytes : EncodeSlice(b, n) \/ EndSubpic(b, n)
  \/ EndOfPicture

PaddingSpec == PaddingInit /\ [][PaddingNext]_paddingVars

(* --------------------------------- properties -------------------------------- *)

\* The requirement of section 7.4.3.10 that EncGOP.cpp quotes, for b bins in n bytes.
Conforms(b, n) == 3 * b <= Scale * n + 3 * RawBits

\* BinsBounded: a picture that ends has enough bytes for its bins, whatever its slices
\* and sub-pictures are; the words inserted behind sub-pictures count.
BinsBounded == phase = "done" /\ on => Conforms(pic.bins, pic.bytes + padded)

\* SubpicsBounded: behind its last slice so has each sub-picture, the words that were
\* inserted behind it included.
SubpicsBounded ==
  call.already = 0 /\ call.bytes > 0 => Conforms(call.bins, call.bytes + 3 * call.words)

\* AsRequired: of the words a call inserts none could be left out.
AsRequired ==
  call.words > 0 /\ Fits(call.words) =>
    ~Conforms(call.bins, call.bytes + 3 * (call.already + call.words - 1))
=============================================================================
