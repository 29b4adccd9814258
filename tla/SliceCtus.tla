------------------------------ MODULE SliceCtus ------------------------------
(* The three passes over the CTUs of a picture's slices, tile by tile: the     *)
(* encoder's search (EncSlice::encodeCtus) decides, its writing pass           *)
(* (EncSlice::encodeSlice) codes what was decided, the decoder                 *)
(* (DecSlice::decompressSlice) reads it. Each has a predictor state of its own *)
(* that restarts at slices, tiles and, with wavefronts, CTU rows; nothing of   *)
(* it is in the bitstream, so the three have to restart alike.                 *)
(* Context models, palette predictor and motion candidates are modelled by     *)
(* what was coded into them since they were reset; the slices are such that    *)
(* use motion candidates (P, B or IBC).                                        *)
EXTENDS PictureLayout

CONSTANTS Layouts,     \* pictures with their tiles and slices
          Qps,         \* what the search chooses from for a CTU with a residual
          SliceQp,     \* of every slice of the picture
          MaxQp,       \* MAX_QP
          QpBdOffset,
          MaxCoded     \* bound: CTUs with a residual in a picture

QpRange == -QpBdOffset..MaxQp

ASSUME QpAssumption == /\ MaxQp \in Nat /\ QpBdOffset \in Nat
                       /\ SliceQp \in QpRange /\ Qps \subseteq QpRange

\* The tiles cover the picture; the slice maps are checked, and built of whole rows of tiles.
ASSUME LayoutAssumption ==
  \A p \in Layouts : /\ InTiles(p.colBd, p.w) /\ InTiles(p.rowBd, p.h)
                     /\ CheckSliceMap(p) /\ EveryCtuOnce(p) /\ WholeRows(p)

VARIABLES pic,      \* the layout
          coding,   \* wavefronts, entry points present
          at,       \* the pass, its slice, its place in the slice
          cu,       \* what the search decided for each CTU, and from which predictors
          est,      \* the search: its QP predictor, and cs.prevPLT and cs.motionLut
          estPlt,   \* m_palettePredictorSyncState of the search
          wr,       \* the writing pass: contexts, m_prevQP, its sync state, the sub-stream
          out,      \* the sub-streams of each slice
          dec,      \* the decoder: its state, and its place in the sub-streams
          got       \* what the decoder took each CTU for

vars == <<pic, coding, at, cu, est, estPlt, wr, out, dec, got>>

End == [ctu |-> "end"]  \* end_of_slice, tile or subset one bit and byte alignment

Slice == pic.slices[at.slice]
Ctu == Slice[at.idx]
Left(c) == CtuIsTileColBd(pic, c)
TileStart(c) == Left(c) /\ CtuIsTileRowBd(pic, c)
RowStart(c) == Left(c) /\ ~TileStart(c) /\ coding.wpp

\* getCURestricted and isSameSliceAndTile for the CTU above.
Above(c) == c - pic.w
AboveAvailable(c) == /\ c >= pic.w
                     /\ SliceOf(pic, Above(c)) = SliceOf(pic, c)
                     /\ TileIdx(pic, Above(c)) = TileIdx(pic, c)

\* Where all of a pass's state restarts, and where it then takes over the row above's.
Restart(c) == TileStart(c) \/ RowStart(c)
Sync(c) == RowStart(c) /\ AboveAvailable(c)

\* CU::predictQP at the origin of a CTU.
PredictQP(c, prev, qpOf) == IF Left(c) /\ AboveAvailable(c) THEN qpOf[Above(c)].qp ELSE prev

\* cu_qp_delta of the writer: the shorter way round the QP range.
QpDelta(pred, qp) ==
  LET half == (MaxQp + 1) \div 2 + QpBdOffset \div 2
  IN ((qp - pred + MaxQp + 1 + half + QpBdOffset) % (MaxQp + 1 + QpBdOffset)) - half

\* A slip: the reader does not come round.
ReceivedNoWrap(pred, delta) == pred + delta

\* cu_qp_delta of the reader.
ReceivedQp(pred, delta) ==
  IF delta = 0 THEN pred
  ELSE ((pred + delta + MaxQp + 1 + 2 * QpBdOffset) % (MaxQp + 1 + QpBdOffset)) - QpBdOffset

\* The next CTU of the pass, the next slice, the next pass.
After(pass) == CASE pass = "search" -> "write" [] pass = "write" -> "read" [] OTHER -> "done"
NextCtu ==
  IF at.idx < Len(Slice) THEN [at EXCEPT !.idx = @ + 1]
  ELSE IF at.slice < Len(pic.slices) THEN [at EXCEPT !.slice = @ + 1, !.idx = 1]
  ELSE [pass |-> After(at.pass), slice |-> 1, idx |-> 1]

(* ---------------------------------- the search ---------------------------------- *)

\* compressSlice and encodeCtus before a CTU. cs.prevPLT was reset for the picture
\* (initEncSlice), it is not for a slice.
EstBefore(c) ==
  [qp  |-> IF Restart(c) \/ at.idx = 1 THEN SliceQp ELSE est.qp,
   plt |-> IF Sync(c) THEN estPlt ELSE IF Restart(c) THEN <<>> ELSE est.plt,
   lut |-> IF Left(c) THEN <<>> ELSE est.lut]

\* The search gives a CTU with a residual any QP, another one the predicted QP.
Estimate(coded, qp) ==
  /\ at.pass = "search"
  /\ LET s    == EstBefore(Ctu)
         pred == PredictQP(Ctu, s.qp, cu)
         q    == IF coded THEN qp ELSE pred
     IN /\ cu' = [cu EXCEPT ![Ctu] = [coded |-> coded, qp |-> q, plt |-> s.plt, lut |-> s.lut]]
        /\ est' = [qp |-> q, plt |-> Append(s.plt, Ctu), lut |-> Append(s.lut, Ctu)]
        /\ estPlt' = IF Left(Ctu) /\ coding.wpp THEN est'.plt ELSE estPlt
  /\ at' = NextCtu
  /\ UNCHANGED <<pic, coding, wr, out, dec, got>>

(* --------------------------------- the writing pass ------------------------------ *)

\* A slip: the contexts of the row above are taken whatever slice it is in.
WriteContextsAnyAbove(c) ==
  IF RowStart(c) THEN wr.sync ELSE IF Restart(c) \/ at.idx = 1 THEN <<>> ELSE wr.ctx

\* encodeSlice before a CTU: the contexts; those of its first CTU are the slice's.
WriteContexts(c) ==
  IF Sync(c) THEN wr.sync ELSE IF Restart(c) \/ at.idx = 1 THEN <<>> ELSE wr.ctx

\* m_prevQP restarts with the slice only.
WriteBefore(c) ==
  [wr EXCEPT !.qp  = IF at.idx = 1 THEN SliceQp ELSE @,
             !.ctx = WriteContexts(c),
             !.sub = IF at.idx = 1 THEN 1 ELSE @]

\* cs.prevPLT, still the search's, left as it is for the first CTU of a slice.
WritePalette(c) ==
  IF Sync(c) THEN wr.plt ELSE IF at.idx > 1 /\ Restart(c) THEN <<>> ELSE est.plt

\* A slip: a sub-stream ends with a tile row, whatever tile comes next.
EndsWithTileRow ==
  \/ at.idx = Len(Slice)
  \/ /\ Left(Slice[at.idx + 1])
     /\ CtuX(pic, Slice[at.idx + 1]) = 0 \/ coding.wpp

\* The last CTU of the slice, of its tile, of its CTU row with wavefronts.
EndsSubstream ==
  \/ at.idx = Len(Slice)
  \/ LET next == Slice[at.idx + 1]
     IN TileIdx(pic, next) # TileIdx(pic, Ctu) \/ (coding.wpp /\ Left(next))

WriteCtu ==
  /\ at.pass = "write"
  /\ LET s    == WriteBefore(Ctu)
         pred == PredictQP(Ctu, s.qp, cu)
         dqp  == IF cu[Ctu].coded THEN QpDelta(pred, cu[Ctu].qp) ELSE 0
         ctx  == Append(s.ctx, [ctu |-> Ctu, coded |-> cu[Ctu].coded, dqp |-> dqp])
         item == [ctu |-> Ctu, coded |-> cu[Ctu].coded, dqp |-> dqp, ctx |-> s.ctx]
         kept == IF s.sub > Len(out[at.slice]) THEN Append(out[at.slice], <<>>) ELSE out[at.slice]
         sync == Left(Ctu) /\ coding.wpp
     IN /\ est' = [est EXCEPT !.plt = WritePalette(Ctu)]
        /\ wr' = [qp   |-> IF cu[Ctu].coded THEN cu[Ctu].qp ELSE pred,
                  ctx  |-> ctx,
                  sync |-> IF sync THEN ctx ELSE s.sync,
                  plt  |-> IF sync THEN est'.plt ELSE s.plt,
                  sub  |-> IF EndsSubstream THEN s.sub + 1 ELSE s.sub]
        /\ out' = [out EXCEPT ![at.slice] =
                     [kept EXCEPT ![s.sub] = @ \o IF EndsSubstream THEN <<item, End>> ELSE <<item>>]]
  /\ at' = NextCtu
  /\ UNCHANGED <<pic, coding, cu, estPlt, dec, got>>

(* ---------------------------------- the decoder ---------------------------------- *)

\* The payload cut at the entry points of the slice header, if it has any.
Received(s) ==
  IF NumEntryPoints(pic, s, coding.wpp, coding.sized) = 0 THEN <<FlattenSeq(out[s])>> ELSE out[s]

\* A slip: the palette predictor is kept across the tiles of a slice.
DecPaletteKept(c) == IF Sync(c) THEN dec.sync.plt ELSE IF at.idx = 1 THEN <<>> ELSE dec.plt

DecPalette(c) ==
  IF Sync(c) THEN dec.sync.plt ELSE IF Restart(c) \/ at.idx = 1 THEN <<>> ELSE dec.plt

DecContexts(c) ==
  IF Sync(c) THEN dec.sync.ctx ELSE IF Restart(c) \/ at.idx = 1 THEN <<>> ELSE dec.ctx

\* decompressSlice before a CTU.
DecBefore(c) ==
  [dec EXCEPT !.qp  = IF Restart(c) \/ at.idx = 1 THEN SliceQp ELSE @,
              !.ctx = DecContexts(c),
              !.plt = DecPalette(c),
              !.lut = IF Left(c) THEN <<>> ELSE @,
              !.sub = IF at.idx = 1 THEN 1 ELSE @,
              !.pos = IF at.idx = 1 THEN 0 ELSE @]

\* Where the decoder expects a terminating bit: the last CTU of the slice, and the last
\* column of a tile in its last row or, with wavefronts, in any.
ExpectsEnd == \/ at.idx = Len(Slice)
              \/ LastInRow(pic, Ctu) /\ (LastInCol(pic, Ctu) \/ coding.wpp)

\* What is n places on in the decoder's sub-stream.
Item(s, n) ==
  LET subs == Received(at.slice)
  IN IF s.sub <= Len(subs) /\ s.pos + n <= Len(subs[s.sub]) THEN subs[s.sub][s.pos + n]
     ELSE [ctu |-> "none"]

\* The CTU and the terminating bit behind it, where one is expected; the decoder gives
\* up where it is not found.
ReadCtu ==
  /\ at.pass = "read"
  /\ ~dec.failed
  /\ LET s    == DecBefore(Ctu)
         item == Item(s, 1)
         isCtu == item.ctu \in DOMAIN cu
         pred == PredictQP(Ctu, s.qp, got)
         q    == IF isCtu /\ item.coded THEN ReceivedQp(pred, item.dqp) ELSE pred
         ctx  == IF isCtu THEN Append(s.ctx, [ctu |-> Ctu, coded |-> item.coded, dqp |-> item.dqp])
                 ELSE s.ctx
         sync == Left(Ctu) /\ coding.wpp
         now  == [s EXCEPT !.qp = q, !.ctx = ctx, !.plt = Append(@, Ctu), !.lut = Append(@, Ctu)]
         next == ExpectsEnd /\ at.idx < Len(Slice) /\ coding.sized
     IN /\ dec' = [now EXCEPT !.sync = IF sync THEN [ctx |-> ctx, plt |-> now.plt] ELSE @,
                              !.sub = IF next THEN @ + 1 ELSE @,
                              !.pos = IF next THEN 0 ELSE IF ExpectsEnd THEN @ + 2 ELSE @ + 1,
                              !.failed = ~isCtu \/ (ExpectsEnd /\ Item(s, 2) # End)]
        /\ got' = [got EXCEPT ![Ctu] = [item |-> item, qp |-> q, ctx |-> s.ctx,
                                        plt |-> s.plt, lut |-> s.lut]]
  /\ at' = NextCtu
  /\ UNCHANGED <<pic, coding, cu, est, estPlt, wr, out>>

(* ------------------------------- specification ------------------------------- *)

NoCu == [qp |-> SliceQp]
Ctus(p) == 0..(p.w * p.h - 1)

Init ==
  /\ pic \in Layouts
  /\ coding \in [wpp : BOOLEAN, sized : BOOLEAN]
  /\ at = [pass |-> "search", slice |-> 1, idx |-> 1]
  /\ cu = [c \in Ctus(pic) |-> NoCu] /\ got = [c \in Ctus(pic) |-> NoCu]
  /\ est = [qp |-> SliceQp, plt |-> <<>>, lut |-> <<>>] /\ estPlt = <<>>
  /\ wr = [qp |-> SliceQp, ctx |-> <<>>, sync |-> <<>>, plt |-> <<>>, sub |-> 1]
  /\ out = [s \in 1..Len(pic.slices) |-> <<>>]
  /\ dec = [qp |-> SliceQp, ctx |-> <<>>, plt |-> <<>>, lut |-> <<>>, sub |-> 1, pos |-> 0,
            sync |-> [ctx |-> <<>>, plt |-> <<>>], failed |-> FALSE]

Coded(c) == cu[c] # NoCu /\ cu[c].coded

Next == \/ \E qp \in Qps : /\ Cardinality({c \in Ctus(pic) : Coded(c)}) < MaxCoded
                           /\ Estimate(TRUE, qp)
        \/ Estimate(FALSE, SliceQp)
        \/ WriteCtu
        \/ ReadCtu

Spec == Init /\ [][Next]_vars

(* --------------------------------- properties -------------------------------- *)

Read(c) == got[c] # NoCu

\* ContextsAgree: the decoder reads every CTU with context models that have been
\* through exactly what the writing pass had coded with them, over the restarts at
\* slices and tiles and the row above of wavefronts.
ContextsAgree ==
  \A c \in Ctus(pic) : Read(c) /\ ~dec.failed =>
    got[c].item.ctu = c /\ got[c].item.ctx = got[c].ctx

\* A slice that begins inside a tile finds the palette of the slice before it in the
\* search, and an empty one in the decoder.
KeepsOldPalette(c) ==
  ~TileStart(pic.slices[SliceOf(pic, c)][1]) /\ ~coding.wpp

\* PredictorsAgree: the palette and motion candidates the decoder has for a CTU are
\* those the search had when it chose the CTU's modes, which are sent as choices among
\* them (the palette of a slice inside a tile excepted).
PredictorsAgree ==
  \A c \in Ctus(pic) : Read(c) =>
    got[c].lut = cu[c].lut /\ (got[c].plt = cu[c].plt \/ KeepsOldPalette(c))

FirstTile(c) == TileIdx(pic, c) = TileIdx(pic, pic.slices[SliceOf(pic, c)][1])

\* QpReceived: a CTU is dequantized with the QP it was quantized with, whether that
\* was sent or predicted, from its row above or from the CTU before, in the first tile of
\* its slice: encodeSlice leaves m_prevQP as it is at the others.
QpReceived == \A c \in Ctus(pic) : Read(c) /\ FirstTile(c) => got[c].qp = cu[c].qp

Written(s) == at.pass \in {"read", "done"} \/ (at.pass = "write" /\ s < at.slice)
LastRead == IF at.pass = "done" THEN Len(pic.slices)
            ELSE IF at.pass = "read" /\ at.idx = 1 THEN at.slice - 1 ELSE 0

\* SubstreamsRead: as many sub-streams are written as the slice header has entry points
\* for and as bitstreams were allocated, every one ends where the decoder looks for its
\* end, and none of it is left over.
SubstreamsRead ==
  /\ ~dec.failed
  /\ \A s \in 1..Len(pic.slices) : Written(s) =>
       /\ Len(out[s]) - 1 = Cardinality(SubstreamStarts(pic, s, coding.wpp))
       /\ Len(out[s]) <= NumSubstreams(pic, coding.wpp)
       /\ coding.sized => Len(out[s]) - 1 = NumEntryPoints(pic, s, coding.wpp, coding.sized)
  /\ LastRead > 0 => /\ dec.sub = Len(Received(LastRead))
                     /\ dec.pos = Len(Received(LastRead)[dec.sub])
=============================================================================
