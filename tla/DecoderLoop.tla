----------------------------- MODULE DecoderLoop -----------------------------
(* The decoding loop, DecApp::decode, with the state of DecLib that it steers *)
(* by, the decoded picture buffer and the output of pictures.  One step is one *)
(* turn of the loop: isNewPicture looks ahead; a new picture ends the one that *)
(* is being decoded, otherwise one NAL unit is read and decoded.  The file is  *)
(* a sequence of NAL units here; AnnexB shows that the loop reads them in      *)
(* their order as long as LookAheadFresh holds.  One layer, frames, no -s.     *)
EXTENDS Integers, FiniteSets, FiniteSetsExt, SequencesExt

CONSTANTS Jobs  \* what is decoded: a bitstream, its sequence parameter set, the option -t

(* A NAL unit: its type; the picture it belongs to, numbered in decoding order; *)
(* for a slice its nut, the low bits of its POC, its temporal layer,            *)
(* picture_header_in_slice_header_flag, whether it starts at CTU 0, the POC     *)
(* distances in its lists, and refs, those of a P or B slice, each with the     *)
(* picture that it means.  That picture and the POC are for the properties.     *)
Types == {"AUD", "PS", "PH", "PREFIX", "SLICE", "SUFFIX", "EOS", "EOB"}
Nuts  == {"IDR", "CRA", "TRAIL", "RASL", "RADL"}

(* The limits: sps_max_num_reorder_pics and sps_max_dec_pic_buffering (with the *)
(* current picture) of each temporal layer from 0, the bits of the POC that are *)
(* sent, and MaxTemporalLayer, -1 for all layers.                               *)
ASSUME LoopAssumption ==
  \A j \in Jobs :
    /\ \A k \in 1..Len(j.units) : j.units[k].type \in Types /\ j.units[k].nut \in Nuts
    /\ Len(j.limits.reorder) = Len(j.limits.buffers) /\ j.limits.reorder # <<>>
    /\ j.limits.bits >= 4 /\ j.limits.target >= -1

VARIABLES stream, \* the bitstream
          limits, \* its limits
          next,   \* the NAL unit that is read next
          fresh,  \* a NAL unit was read since isNewPicture was called last
          d,      \* DecApp and DecLib, with the pictures that were finished
          dpb     \* m_cListPic, with the pictures that were put out

decoderVars == <<stream, limits, next, fresh, d, dpb>>

Infinity == 1000  \* MAX_INT, where a POC is compared with it

\* The limits are those of the highest layer that is decoded, as entry from 1.
HighestTid ==
  IF limits.target = -1 \/ limits.target >= Len(limits.reorder) THEN Len(limits.reorder)
  ELSE limits.target + 1

(* ------------------------------ picture output ------------------------------- *)

\* b.list is m_cListPic, b.shown the pictures written, b.last m_iPOCLastDisplay.
Waiting(b, k) == b.list[k].out /\ b.list[k].poc > b.last

Show(b, k) ==
  LET p == b.list[k]
  IN [b EXCEPT !.shown = Append(@, p.pic), !.last = p.poc,
               !.list[k].out = FALSE, !.list[k].rec = p.rec /\ p.ref]

\* A slip: the pictures are written as they stand in the list, whatever waits.
WriteOutputAtOnce(b) ==
  FoldLeft(LAMBDA c, k : IF Waiting(c, k) THEN Show(c, k) ELSE c, b, [k \in 1..Len(b.list) |-> k])

WriteOutput(b) ==
  LET indices == 1..Len(b.list)
      start == [b |-> b,
                waiting |-> Quantify(indices, LAMBDA k : Waiting(b, k)),
                fullness |-> Quantify(indices, LAMBDA k : Waiting(b, k) \/ b.list[k].ref)]
      Visit(s, k) ==
        IF Waiting(s.b, k) /\ (s.waiting > limits.reorder[HighestTid] \/ s.fullness > limits.buffers[HighestTid])
        THEN [b |-> Show(s.b, k), waiting |-> s.waiting - 1,
              fullness |-> s.fullness - IF s.b.list[k].ref THEN 0 ELSE 1]
        ELSE s
  IN FoldLeft(Visit, start, [k \in indices |-> k]).b

FlushOutput(b) ==
  IF b.list = <<>> THEN b
  ELSE [list |-> <<>>, last |-> -Infinity,
        shown |-> b.shown \o [k \in 1..Len(SelectSeq(b.list, LAMBDA p : p.out)) |->
                                SelectSeq(b.list, LAMBDA p : p.out)[k].pic]]

(* --------------------------- the picture buffer ------------------------------ *)

Picture(e, n) == [pic |-> n.pic, poc |-> e.poc, out |-> FALSE, ref |-> TRUE, rec |-> FALSE]

\* A slip: a buffer is taken though its picture was not written.
FreeIfNotReferenced(p) == ~p.rec \/ ~p.ref

\* A slip: a buffer is taken though its picture is referenced.
FreeIfNotNeeded(p) == ~p.out

Free(p) == ~p.out /\ (~p.rec \/ ~p.ref)

\* The marking by the reference picture lists of the new picture: an IDR picture keeps
\* none, and a picture of the same POC is passed over.
Marked(b, e, n) ==
  LET Kept(p) == p.poc = e.poc \/ (n.nut # "IDR" /\ e.poc - p.poc \in n.keep)
  IN [k \in 1..Len(b.list) |-> [b.list[k] EXCEPT !.ref = @ /\ Kept(b.list[k])]]

\* xGetNewPicBuffer, which looks for a buffer before the marking, and the entry of the
\* new picture in the list.
NewPicBuffer(b, e, n) ==
  LET free == {k \in 1..Len(b.list) : Free(b.list[k])}
  IN [b EXCEPT !.list =
        IF Len(b.list) < limits.buffers[n.tid + 1] \/ free = {}
        THEN Append(Marked(b, e, n), Picture(e, n))
        ELSE [Marked(b, e, n) EXCEPT ![Min(free)] = Picture(e, n)]]

DropPrior(b, poc) ==
  [b EXCEPT !.list = [k \in 1..Len(@) |-> IF @[k].poc = poc THEN @[k]
                                          ELSE [@[k] EXCEPT !.out = FALSE]]]

(* ----------------------------- DecLib::xDecodeSlice -------------------------- *)

IRAP(n) == n.nut \in {"IDR", "CRA"}

\* The POC nearest to the one of the last picture of layer 0 that has these low bits.
PocFrom(prev, lsb) ==
  LET max == 2 ^ limits.bits
      prevLsb == prev % max
  IN (prev - prevLsb) + lsb + CASE lsb < prevLsb /\ prevLsb - lsb >= max \div 2 -> max
                                [] lsb > prevLsb /\ lsb - prevLsb > max \div 2 -> -max
                                [] OTHER -> 0

\* A slip: the high bits are those of the last picture.
PocNoWrap(e, n) == [e EXCEPT !.poc = IF n.nut = "IDR" THEN n.lsb
                                     ELSE e.prevTid0 - (e.prevTid0 % 2 ^ limits.bits) + n.lsb]

Poc(e, n) == [e EXCEPT !.poc = IF n.nut = "IDR" THEN n.lsb ELSE PocFrom(e.prevTid0, n.lsb)]

\* xUpdatePreviousTid0POC.
UpdateTid0(e, n) ==
  IF n.tid = 0 /\ n.nut \notin {"RASL", "RADL"} THEN [e EXCEPT !.prevTid0 = e.poc] ELSE e

\* A CRA picture that starts a sequence loses the high bits of its POC.
ResetMsb(e, n) ==
  IF n.nut = "CRA" /\ e.lastNobr THEN UpdateTid0([e EXCEPT !.poc = @ % 2 ^ limits.bits], n) ELSE e

StartsSequence(e, n) == e.firstInSequence \/ n.nut = "IDR"

\* NoOutputBeforeRecoveryFlag and what is inferred from it, for a slice of an IRAP.
Recovery(e, n) ==
  IF ~IRAP(n) THEN e
  ELSE LET nobr == StartsSequence(e, n)
           prior == nobr /\ ~e.firstInBitstream
       IN [e EXCEPT !.lastNobr = IF n.nut = "CRA" THEN nobr ELSE @,
                    !.noPrior = prior,
                    !.noPriorPoc = IF prior THEN e.poc ELSE @]

\* The header of the picture is in m_picHeader, which m_pcPic shares.
Header(e, n) ==
  [e EXCEPT !.outFlag = ~(n.nut = "RASL" /\ e.lastNobr) /\ (@ \/ n.ph)]

RandomAccess(e, n) ==
  IF n.nut = "IDR" THEN [e EXCEPT !.pocRandomAccess = -Infinity]
  ELSE IF e.pocRandomAccess = Infinity /\ n.nut = "CRA" THEN [e EXCEPT !.pocRandomAccess = e.poc]
  ELSE e

SkipPicture(e, n) ==
  /\ n.nut # "IDR"
  /\ IF e.pocRandomAccess = Infinity THEN n.nut # "CRA"
     ELSE e.poc < e.pocRandomAccess /\ n.nut = "RASL"

\* A skipped RASL picture is counted in m_iPOCLastDisplay.
SkipOutput(b, e) ==
  IF e.pocRandomAccess = Infinity THEN b ELSE [b EXCEPT !.last = @ + 1]

\* A first slice while another picture is in progress is given up.
GivenUp(e, n) == n.first /\ ~e.firstInPicture /\ e.prevPoc >= e.pocRandomAccess

Checked(x, n) ==
  IF (x.e.firstInPicture \/ n.nut = "CRA") /\ x.e.noPrior
  THEN [e |-> [x.e EXCEPT !.noPrior = FALSE], b |-> DropPrior(x.b, x.e.noPriorPoc)]
  ELSE x

\* constructRefPicList writes to the picture of each entry, active or not, without a test
\* that there is one; active references that are lost (xCreateLostPicture) are left out.
ConstructRefPicList(x, n) ==
  [x EXCEPT !.e.crashed = @ \/ \E r \in n.refs :
                               \A k \in 1..Len(x.b.list) : x.b.list[k].poc # x.e.poc - r.delta]

\* The slice header, up to the test for a picture that is skipped.
SliceHeader(x, n) ==
  LET y == Checked([x EXCEPT !.e = Poc(@, n)], n)
  IN [y EXCEPT !.e = ResetMsb(Header(Recovery(UpdateTid0(@, n), n), n), n)]

DecodeSlice(x, n) ==
  LET e == [RandomAccess(x.e, n) EXCEPT !.prevPoc = x.e.poc]
  IN IF SkipPicture(x.e, n) THEN [e |-> RandomAccess(x.e, n), b |-> SkipOutput(x.b, x.e)]
     ELSE IF GivenUp(RandomAccess(x.e, n), n) THEN [e |-> e, b |-> x.b]
     ELSE ConstructRefPicList(
          [e |-> [e EXCEPT !.firstInSequence = FALSE,
                           !.firstInBitstream = FALSE, !.firstInPicture = FALSE,
                           !.pcPic = IF e.firstInPicture THEN n.pic ELSE @,
                           !.nut = IF e.firstInPicture THEN n.nut ELSE @,
                           !.slices = IF e.firstInPicture THEN <<n.pic>> ELSE Append(@, n.pic)],
           b |-> IF e.firstInPicture THEN NewPicBuffer(x.b, e, n) ELSE x.b], n)

Decode(x, n) ==
  CASE n.type = "SLICE" -> DecodeSlice(x, n)
    [] n.type = "PH"  -> [x EXCEPT !.e.outFlag = TRUE]
    [] n.type = "EOS" -> [x EXCEPT !.e.pocRandomAccess = Infinity, !.e.prevPoc = -Infinity]
    [] OTHER -> x

(* --------------------------- the turns of the loop --------------------------- *)

\* A slip: a slice tells a new picture whether its picture header is in it or not.
AtNewPictureAnySlice(k) ==
  \E j \in k..Len(stream) :
    /\ \A i \in k..(j - 1) : stream[i].type = "PREFIX"
    /\ stream[j].type \in {"AUD", "PS", "PH", "SLICE"}

\* A slip: a picture header unit is passed over like a prefix SEI message.
AtNewPictureNoPh(k) ==
  \E j \in k..Len(stream) :
    /\ \A i \in k..(j - 1) : stream[i].type \in {"PREFIX", "PH"}
    /\ stream[j].type \in {"AUD", "PS"} \/ (stream[j].type = "SLICE" /\ stream[j].ph)

\* isNewPicture: what comes next, behind the units that do not tell.
TellsNewPicture(units, k) ==
  \E j \in k..Len(units) :
    /\ \A i \in k..(j - 1) : units[i].type = "PREFIX"
    /\ units[j].type \in {"AUD", "PS", "PH"} \/ (units[j].type = "SLICE" /\ units[j].ph)

AtNewPicture(k) == TellsNewPicture(stream, k)

NewPicture == ~d.firstInPicture /\ AtNewPicture(next)

\* Slice::sortPicList: by POC, those of the same POC as they stand.
ByPoc(list) ==
  LET Before(j, k) == list[j].poc < list[k].poc \/ (list[j].poc = list[k].poc /\ j < k)
      Place(k) == Cardinality({j \in 1..Len(list) : Before(j, k)}) + 1
  IN [place \in 1..Len(list) |-> list[CHOOSE k \in 1..Len(list) : Place(k) = place]]

\* executeLoopFilters and finishPicture, of the picture in m_pcPic whichever it is.
FinishPicture(x) ==
  LET out == x.e.outFlag /\ ~(x.e.newClvs /\ x.e.nut = "RASL")
      list == [k \in 1..Len(x.b.list) |->
                 IF x.b.list[k].pic = x.e.pcPic
                 THEN [x.b.list[k] EXCEPT !.out = out, !.rec = TRUE] ELSE x.b.list[k]]
  IN [e |-> [x.e EXCEPT !.firstInPicture = TRUE, !.outFlag = TRUE, !.listed = TRUE,
                        !.ended = Append(@, [pic |-> x.e.pcPic, slices |-> x.e.slices])],
      b |-> [x.b EXCEPT !.list = ByPoc(list)]]

\* A slip: firstInPicture stays as it is before the first picture of a sequence.
EndPictureOnly(x, eos, eof) ==
  IF ~x.e.firstInSequence /\ ~x.e.skipped
  THEN [FinishPicture(x) EXCEPT !.e.loopFiltered = eos, !.e.firstInSequence = eos] ELSE x

\* The end of a turn that may end a picture: eos, the unit was an EOS; eof, the file ended.
EndPicture(x, eos, eof) ==
  IF ~x.e.firstInSequence /\ ~x.e.skipped
  THEN LET y == IF x.e.loopFiltered /\ eof THEN x ELSE FinishPicture(x)
       IN [y EXCEPT !.e.loopFiltered = eos, !.e.firstInSequence = eos]
  ELSE [x EXCEPT !.e.firstInPicture = @ \/ x.e.firstInSequence]

Output(x) == [x EXCEPT !.b = IF x.e.listed THEN WriteOutput(@) ELSE @]

State == [e |-> d, b |-> dpb]

Becomes(x) == d' = x.e /\ dpb' = x.b

\* A slip: the EOS of the picture unit is not forgotten at the next one.
TurnNewPictureKeepsEos ==
  /\ next <= Len(stream) /\ NewPicture /\ fresh /\ ~d.crashed
  /\ Becomes(Output(EndPicture(State, FALSE, FALSE)))
  /\ fresh' = FALSE
  /\ UNCHANGED <<stream, limits, next>>

\* bNewPicture: the picture ends, nothing is read.
TurnNewPicture ==
  /\ next <= Len(stream)
  /\ NewPicture
  /\ fresh /\ ~d.crashed
  /\ \E x \in {EndPicture(State, FALSE, FALSE)} :
       Becomes([Output(x) EXCEPT !.e.eosInPu = FALSE])
  /\ fresh' = FALSE
  /\ UNCHANGED <<stream, limits, next>>

\* What the loop does with the unit before and while it is decoded.
NewSequence(x, n) ==
  IF n.type = "SLICE" /\ x.e.firstInPicture
  THEN CASE n.nut = "IDR" ->
              [e |-> [x.e EXCEPT !.newClvs = TRUE],
               b |-> IF x.e.listed THEN FlushOutput(x.b) ELSE x.b]
         [] n.nut = "CRA" -> [x EXCEPT !.e.newClvs = x.e.eosInPu]
         [] OTHER -> x
  ELSE x

WantedUpTo(target, n) == target < 0 \/ n.tid <= target

Wanted(n) == WantedUpTo(limits.target, n)

Skip(x, n) == [x EXCEPT !.e.skipped = IF Wanted(n) THEN @ /\ n.type # "SLICE" ELSE TRUE]

MarkEos(x) == [x EXCEPT !.e.eosInPu = TRUE, !.e.newClvs = TRUE]

\* The check of DecApp throws at a unit that follows an EOS in its picture unit.
Refused(n) == d.eosInPu /\ n.type \notin {"EOS", "EOB"}

Eos == stream[next].type = "EOS"
Eof == next = Len(stream)

TurnRead ==
  /\ next <= Len(stream)
  /\ ~NewPicture
  /\ (fresh \/ d.firstInPicture) /\ ~d.crashed
  /\ ~Refused(stream[next])
  /\ \E n \in {stream[next]} :
     \E before \in {Skip(NewSequence(State, n), n)} :
     \E header \in {IF Wanted(n) /\ n.type = "SLICE" THEN SliceHeader(before, n) ELSE before} :
     \E received \in {IF Wanted(n) THEN Decode(header, n) ELSE header} :
     \E ended \in {IF Eos THEN EndPicture(MarkEos(received), TRUE, Eof)
                   ELSE IF Eof THEN EndPicture(received, FALSE, TRUE) ELSE received} :
     \E x \in {IF Eos \/ n.type = "SLICE" THEN Output(ended) ELSE ended} :
       Becomes(IF Eos /\ x.e.listed THEN [x EXCEPT !.e.firstInPicture = FALSE] ELSE x)
  /\ fresh' = TRUE
  /\ next' = next + 1
  /\ UNCHANGED <<stream, limits>>

\* Behind the loop everything that waits is written.
Finish ==
  /\ next = Len(stream) + 1 /\ ~d.crashed
  /\ dpb' = IF d.listed THEN FlushOutput(dpb) ELSE dpb
  /\ next' = next + 1
  /\ UNCHANGED <<stream, limits, fresh, d>>

DecoderStart ==
  /\ next = 1
  /\ fresh = FALSE
  /\ d = [firstInPicture |-> TRUE, firstInSequence |-> TRUE, firstInBitstream |-> TRUE,
          skipped |-> FALSE, eosInPu |-> FALSE, loopFiltered |-> FALSE, newClvs |-> TRUE,
          noPrior |-> FALSE, noPriorPoc |-> -1, lastNobr |-> FALSE, listed |-> FALSE,
          pocRandomAccess |-> Infinity, prevPoc |-> Infinity, prevTid0 |-> 0, poc |-> 0,
          outFlag |-> TRUE, crashed |-> FALSE,
          pcPic |-> 0, nut |-> "TRAIL", slices |-> <<>>, ended |-> <<>>]
  /\ dpb = [list |-> <<>>, last |-> -Infinity, shown |-> <<>>]

\* What the loop relies on, in a stream of which the units up to a layer are decoded: the
\* first picture is an IRAP picture; the units of a picture are of one layer, but for some
\* behind which isNewPicture can tell that a picture starts; an EOS or EOB ends a picture
\* unit that is decoded.  With -t an EOS behind a skipped picture is legal all the same.
Sequential(units, target) ==
  LET ends(k) == units[k].type \in {"EOS", "EOB"}
      slice(k) == units[k].type = "SLICE"
      wanted(k) == WantedUpTo(target, units[k])
  IN /\ Len(units) \in Nat
     /\ \A k \in 1..Len(units) :
          /\ ends(k) => wanted(k)
          /\ slice(k) /\ (\A j \in 1..(k - 1) : ~slice(j)) => wanted(k) /\ IRAP(units[k])
          /\ units[k].type = "EOS" => \E j \in 1..(k - 1) : slice(j) /\ \A i \in j..(k - 1) : wanted(i)
          /\ k > 1 /\ wanted(k - 1) /\ ~wanted(k) => TellsNewPicture(units, k)
          /\ k > 1 /\ ends(k - 1) => ends(k) \/ TellsNewPicture(units, k)

\* The slices of a picture are of one kind, layer and POC, and none but the first is marked
\* as the first; between two of them nothing tells a new picture or ends the sequence, and
\* between those of two pictures something does tell.
InPictures(units) ==
  LET told(j, k) == \E i \in (j + 1)..k : TellsNewPicture(units, i)
      parted(j, k) == \E i \in (j + 1)..k : units[i].type = "EOS"
  IN \A k \in 1..Len(units) :
       /\ units[k].pic \in Nat
       /\ \A j \in 1..(k - 1) :
            LET m == units[j]  n == units[k]
            IN m.type = "SLICE" /\ n.type = "SLICE" =>
                 \/ /\ m.pic = n.pic /\ ~told(j, k) /\ ~parted(j, k)
                    /\ m.nut = n.nut /\ m.tid = n.tid /\ m.lsb = n.lsb /\ ~n.first
                 \/ m.pic < n.pic /\ told(j, k)

ASSUME StreamAssumption ==
  \A j \in Jobs : Sequential(j.units, j.limits.target) /\ InPictures(j.units)

DecoderInit ==
  /\ \E j \in Jobs : stream = j.units /\ limits = j.limits
  /\ DecoderStart

DecoderNext == TurnNewPicture \/ TurnRead \/ Finish

DecoderSpec == DecoderInit /\ [][DecoderNext]_decoderVars

(* ----------------------------- what the stream says --------------------------- *)

Slices == {k \in 1..Len(stream) : stream[k].type = "SLICE"}

EosBetween(j, k) == \E i \in j..k : stream[i].type = "EOS"

\* The slices that start a coded video sequence: of an IDR picture, and of a CRA
\* picture that is the first or follows an EOS.
StartsCvs(k) ==
  LET n == stream[k]
      before == {j \in Slices : j < k /\ stream[j].pic # n.pic}
      restarts == before = {} \/ EosBetween(Max(before), k)
  IN n.first /\ (n.nut = "IDR" \/ (n.nut = "CRA" /\ restarts))

Cvs(pic) == Cardinality({k \in Slices : stream[k].pic <= pic /\ StartsCvs(k)})

SliceOf(pic) == stream[Min({k \in Slices : stream[k].pic = pic})]

\* The RASL pictures of a CRA picture that starts a sequence cannot be decoded.
Undecodable(k) ==
  LET iraps == {j \in Slices : j < k /\ stream[j].first /\ IRAP(stream[j])}
  IN stream[k].nut = "RASL" /\ StartsCvs(Max(iraps))

\* The pictures that the decoder is to decode.
Decodable ==
  {stream[k].pic : k \in {j \in Slices : /\ limits.target < 0 \/ stream[j].tid <= limits.target
                                         /\ ~Undecodable(j)}}

AtEnd == next = Len(stream) + 2

(* --------------------------------- properties -------------------------------- *)

\* The picture before RASL pictures that are skipped at the end of a sequence or of the
\* file is finished again, with the header of a RASL picture, which says that it is not
\* output.
FinishedAgain(p) ==
  \E k \in Slices :
    LET later == {j \in Slices : j > k}
    IN /\ stream[k].pic > p /\ Undecodable(k)
       /\ later = {} \/ EosBetween(k, Min(later))
       /\ {stream[j].pic : j \in {i \in Slices : stream[i].pic \in (p + 1)..stream[k].pic}} \cap Decodable = {}

\* FinishedWhole: pictures are finished in decoding order, each with all its slices decoded
\* and none of another picture: the look-ahead parts two pictures and never one, and a
\* picture is skipped as a whole, though each slice is judged anew.
FinishedWhole ==
  /\ \A i, j \in 1..Len(d.ended) : i < j => d.ended[i].pic <= d.ended[j].pic
  /\ \A i \in 1..Len(d.ended) :
       LET p == d.ended[i]
       IN p.slices = [k \in 1..Cardinality({j \in Slices : stream[j].pic = p.pic}) |-> p.pic]

\* FinishedOnce: finishPicture is called once for each picture that is to be decoded, and
\* for no other; FinishedAgain is the exception.
FinishedOnce ==
  /\ \A i, j \in 1..Len(d.ended) : i # j =>
       \/ d.ended[i].pic # d.ended[j].pic
       \/ FinishedAgain(d.ended[i].pic)
  /\ AtEnd => {d.ended[i].pic : i \in 1..Len(d.ended)} = Decodable

\* LookAheadFresh: the loop never looks ahead twice without reading a NAL unit in
\* between; isNewPicture puts the file back by the bytes the parser holds since.
LookAheadFresh == next <= Len(stream) /\ ~d.firstInPicture => fresh

\* NeverRefused: no unit of a legal stream runs into the check that nothing but an
\* EOS or EOB follows an EOS in its picture unit.
NeverRefused == next <= Len(stream) /\ ~NewPicture => ~Refused(stream[next])

InOrder(p, q) == Cvs(p) < Cvs(q) \/ (Cvs(p) = Cvs(q) /\ SliceOf(p).poc < SliceOf(q).poc)

\* The pictures of a sequence that starts with a CRA picture behind an EOS, with a POC that
\* an earlier sequence has reached: m_iPOCLastDisplay is that of the earlier sequence, so
\* they wait until the whole list is flushed.
Outlived(p) ==
  /\ stream[Max({k \in Slices : stream[k].pic <= p /\ StartsCvs(k)})].nut = "CRA"
  /\ \E k \in Slices : Cvs(stream[k].pic) < Cvs(p) /\ stream[k].poc >= SliceOf(p).poc

\* OutputInOrder: the pictures are written in output order, no picture twice: sequence by
\* sequence, and by POC in a sequence; Outlived are the exception.
OutputInOrder ==
  \A i, j \in 1..Len(dpb.shown) : i < j =>
    InOrder(dpb.shown[i], dpb.shown[j])
      \/ (dpb.shown[i] # dpb.shown[j] /\ Outlived(dpb.shown[j]))

\* The CRA pictures that start a sequence and whose POC has other high bits until they are
\* reset: m_lastPOCNoOutputPriorPics is taken before, so such a picture drops itself.
DropsItself(p) ==
  LET counted == {k \in Slices : /\ stream[k].pic < p /\ stream[k].tid = 0
                                 /\ stream[k].nut \notin {"RASL", "RADL"}}
      n == SliceOf(p)
  IN n.nut = "CRA" /\ counted # {} /\ PocFrom(stream[Max(counted)].poc, n.lsb) # n.lsb

\* NoneLost: when decode returns, every decoded picture has been written, unless a
\* CRA picture that starts a sequence came after it and dropped it; DropsItself and
\* FinishedAgain are the exceptions.
NoneLost ==
  AtEnd => \A p \in Decodable :
    \/ \E i \in 1..Len(dpb.shown) : dpb.shown[i] = p
    \/ \E k \in Slices : stream[k].pic > p /\ stream[k].nut = "CRA" /\ StartsCvs(k)
    \/ DropsItself(p) \/ FinishedAgain(p)

\* A picture of an earlier sequence that is still in the list under this POC.
Namesake(k) ==
  \E j \in 1..(k - 1) : /\ dpb.list[j].poc = dpb.list[k].poc
                        /\ Cvs(dpb.list[j].pic) < Cvs(dpb.list[k].pic)

\* A picture of a layer above -t, which is not decoded; no decoded picture uses it.
AboveTarget(r) == limits.target >= 0 /\ r.pic > 0 /\ SliceOf(r.pic).tid > limits.target

\* KeepsReferences: while a picture is decoded, every picture that an entry of its lists
\* means is in the buffer, reconstructed and marked as reference, and xGetRefPic finds it by
\* its POC: the POCs that are derived from their low bits agree, the marking dropped none,
\* and the buffer the picture got was none of theirs, though it was taken before the
\* marking.  AboveTarget is the exception, at which constructRefPicList fails.
KeepsReferences ==
  ~d.firstInPicture /\ ~d.firstInSequence =>
    \A cur \in {k \in 1..Len(dpb.list) : dpb.list[k].pic = d.pcPic} :
    \A r \in SliceOf(d.pcPic).refs :
      LET named == {k \in 1..Len(dpb.list) : dpb.list[k].poc = dpb.list[cur].poc - r.delta}
      IN \/ \E k \in named : /\ dpb.list[k].pic = r.pic /\ dpb.list[k].ref /\ dpb.list[k].rec
                             /\ k = Min(named) \/ Namesake(k)
         \/ AboveTarget(r)
=============================================================================
