----------------------------- MODULE SliceData -----------------------------
(* The sub-streams of a slice (tiles or CTU rows) and the entry points in its  *)
(* header, over the NAL unit of NalUnit: the encoder appends the sub-streams   *)
(* to the slice header and sends their sizes with the emulation prevention     *)
(* bytes it expects; the decoder takes the bytes that were really skipped off  *)
(* again and cuts the payload.                                                 *)
EXTENDS NalUnit, FiniteSets

CONSTANT MaxParts  \* bound: slice header and sub-streams

\* The sizes of sub-streams are unsigned of 32 bits, sent in at most 31.
ASSUME PartsAssumption ==
  /\ MaxParts \in Nat \ {0, 1}
  /\ MaxBytes + 2 < 2^30

VARIABLES ends,  \* where the slice header and each sub-stream ends in rbsp
          e      \* the decoder: endOfSliceHeaderLocation, prevEntryPointOffset, the
                 \* sizes it found, the sub-streams it extracted

svars == <<vars, ends, e>>

Part(k) == SubSeq(rbsp, ends[k] + 1, ends[k + 1])  \* the k-th sub-stream
Streams == 1..(Len(ends) - 1)

(* ---------------------------------- encoder ---------------------------------- *)

\* The first two zero bytes from p on that have a byte behind them.
Pairs(s, p) == {q \in p..(Len(s) - 2) : s[q] = 0 /\ s[q + 1] = 0}
First(set) == CHOOSE q \in set : \A r1 \in set : q <= r1

\* A slip: the search goes on behind the third byte.
CountSkipsThird(s) ==
  LET count[p \in 1..(Len(s) + 1)] ==
        IF Pairs(s, p) = {} THEN 0
        ELSE LET third == First(Pairs(s, p)) + 2
             IN IF s[third] <= 3 THEN 1 + count[third + 1] ELSE count[third]
  IN count[1]

\* countStartCodeEmulations: two zero bytes and a byte up to 3, which may be the first
\* zero byte of the next such place.
CountStartCodeEmulations(s) ==
  LET count[p \in 1..Len(s)] ==
        IF Pairs(s, p) = {} THEN 0
        ELSE LET third == First(Pairs(s, p)) + 2
             IN count[third] + IF s[third] <= 3 THEN 1 ELSE 0
  IN count[1]

SubstreamSize(k) == Len(Part(k)) + CountStartCodeEmulations(Part(k))

\* codeTilesWPPEntryPoint: all but the last size, in as many bits as the largest needs.
OffsetBits ==
  CHOOSE n \in 1..31 : /\ \A k \in Streams : k < Len(ends) - 1 => SubstreamSize(k) < 2^n
                       /\ n > 1 => \E k \in Streams : k < Len(ends) - 1 /\ SubstreamSize(k) >= 2^(n - 1)

EntryPointOffset(k) == ((SubstreamSize(k) - 1) % 2^OffsetBits) + 1

(* ---------------------------------- decoder ---------------------------------- *)

Located == {r.locations[i] : i \in 1..Len(r.locations)}

\* The header end among the bytes of the NAL unit; the locations come in order.
HeaderEnd(at) ==
  LET end[i \in 0..Len(r.locations)] ==
        IF i = 0 THEN at
        ELSE IF r.locations[i] < end[i - 1] THEN end[i - 1] + 1 ELSE end[i - 1]
  IN end[Len(r.locations)]

\* A slip: the emulation prevention bytes are looked for in the whole slice before.
EmulationSinceHeader(from, to) == Cardinality({l \in Located : e.header <= l /\ l < e.header + to})

Emulation(from, to) ==
  Cardinality({l \in Located : e.header + from <= l /\ l < e.header + to})

\* extractSubstream, which fills up with zero bytes what the payload lacks.
ExtractSubstream(at, n) ==
  [i \in 1..n |-> IF at + i <= Len(r.payload) THEN r.payload[at + i] ELSE 0]

(* ------------------------------- specification ------------------------------- *)

SliceInit == /\ Init
             /\ ends = <<>>
             /\ e = [header |-> 0, prev |-> 0, sizes |-> <<>>, streams |-> <<>>]

\* The slice header and every sub-stream ends with its byte alignment, a one bit and
\* zero bits: the last byte is not 0.
EndPart ==
  /\ phase = "write"
  /\ Len(ends) < MaxParts
  /\ Len(rbsp) > IF ends = <<>> THEN 2 ELSE ends[Len(ends)]
  /\ rbsp[Len(rbsp)] # 0
  /\ ends' = Append(ends, Len(rbsp))
  /\ UNCHANGED <<vars, e>>

\* The NAL unit of a slice ends with its last sub-stream; any other has no parts.
EndUnit ==
  /\ EndNalUnit
  /\ ends # <<>> => Len(ends) > 1 /\ ends[Len(ends)] = Len(rbsp)
  /\ UNCHANGED <<ends, e>>

SliceByte(v) ==
  /\ WriteByte(v)
  /\ Len(ends) < MaxParts
  /\ UNCHANGED <<ends, e>>

NalStep == (PadZeroWord \/ Deliver \/ ReadByte \/ EndRead) /\ UNCHANGED <<ends, e>>

EndHeader ==
  /\ phase = "done"
  /\ ends # <<>> /\ e.header = 0
  /\ e' = [e EXCEPT !.header = HeaderEnd(ends[1])]
  /\ UNCHANGED <<vars, ends>>

ReadEntryPoint ==
  /\ phase = "done"
  /\ e.header > 0
  /\ Len(e.sizes) < Len(ends) - 2
  /\ LET k == Len(e.sizes) + 1
         cur == e.prev + EntryPointOffset(k)
     IN e' = [e EXCEPT !.sizes = Append(@, EntryPointOffset(k) - Emulation(e.prev, cur)),
                       !.prev = cur]
  /\ UNCHANGED <<vars, ends>>

\* decompressSlice: the sub-streams by their sizes, the last one is the rest.
ExtractSubstreams ==
  /\ phase = "done"
  /\ e.header > 0
  /\ Len(e.sizes) = Len(ends) - 2
  /\ e.streams = <<>>
  /\ LET at[k \in 0..Len(e.sizes)] == IF k = 0 THEN ends[1] ELSE at[k - 1] + e.sizes[k]
     IN e' = [e EXCEPT !.streams =
                [k \in Streams |-> IF k <= Len(e.sizes) THEN ExtractSubstream(at[k - 1], e.sizes[k])
                                   ELSE SubSeq(r.payload, at[k - 1] + 1, Len(r.payload))]]
  /\ UNCHANGED <<vars, ends>>

SliceNext == \/ \E v \in Bytes : SliceByte(v)
             \/ EndPart \/ EndUnit \/ NalStep
             \/ EndHeader \/ ReadEntryPoint \/ ExtractSubstreams

SliceSpec == SliceInit /\ [][SliceNext]_svars

(* --------------------------------- properties -------------------------------- *)

\* SubstreamsMatch: the decoder gives the arithmetic decoder of each tile or CTU row
\* exactly the bytes the encoder of that sub-stream wrote (EncSlice::encodeSlice,
\* DecSlice::decompressSlice), wherever emulation prevention bytes and zero words are.
SubstreamsMatch ==
  e.streams # <<>> => e.streams = [k \in Streams |-> Part(k)]

\* EntryPointsExact: the sizes the encoder predicts from each sub-stream alone lead to
\* where that sub-stream ends in the NAL unit, where all of it was escaped as one.
EntryPointsExact ==
  phase = "done" /\ e.header > 0 /\ Len(e.sizes) > 0 =>
    e.header + e.prev = place[ends[Len(e.sizes) + 1]]

=============================================================================
