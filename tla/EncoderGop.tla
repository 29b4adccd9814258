------------------------------ MODULE EncoderGop ------------------------------
(* The encoder around the coding of a picture: encmain's two loops, EncApp and  *)
(* EncLib with the queue of input pictures, and EncGOP with the POC, the NAL    *)
(* unit type, the reference picture lists and the marking of each picture.  A   *)
(* step reads one frame or codes one picture.  Frames, one layer, no composite  *)
(* reference, no DRAP, no GDR; an STSA picture counts as TRAIL.                 *)
EXTENDS ReferenceStructure

(* A configuration: the GOP, the intra period (-1: none), the refresh type (0   *)
(* none, 1 CRA, 2 IDR), FramesToBeEncoded, the frames the file has, and         *)
(* EfficientFieldIRAPEnabled.                                                   *)
CONSTANTS Configurations

IntraPeriodFits(c) ==
  /\ c.period = -1 <=> c.refresh = 0
  /\ c.period # -1 => c.period > 0 /\ c.period % Len(c.gop) = 0
  /\ c.refresh = 2 => c.period > Len(c.gop)

\* The entries of a GOP are its pictures, in coding order.  xCheckParameter relies on that:
\* it counts entries, and a POC that is missing would leave its frames uncoded.
Permutes(gop) ==
  /\ Len(gop) \in Nat \ {0}
  /\ \A i \in 1..Len(gop) : gop[i].poc \in 1..Len(gop)
  /\ \A poc \in 1..Len(gop) : \E i \in 1..Len(gop) : gop[i].poc = poc
  /\ \A i, j \in 1..Len(gop) : gop[i].poc = gop[j].poc => i = j

ASSUME ConfigurationAssumption ==
  \A c \in Configurations : /\ Accepts(c.gop) /\ IntraPeriodFits(c) /\ Permutes(c.gop)
                            /\ c.frames \in Nat \ {0} /\ c.file \in Nat /\ c.refresh \in 0..2
                            /\ \A k \in 1..Len(c.gop) : IsInjective(c.gop[k].l0) /\ IsInjective(c.gop[k].l1)

VARIABLES cfg,  \* the configuration, with what follows from it
          app,  \* encmain and EncApp: the phase, the frames, the reconstruction
          enc,  \* EncLib and EncGOP
          sent  \* the coded pictures, in coding order

encodeVars == <<cfg, app, enc, sent>>

GOPSize == Len(cfg.gop)

(* ----------------------------- the picture buffer ---------------------------- *)

NewPicture0(poc) ==
  [poc |-> poc, ref |-> TRUE, rec |-> FALSE, tid |-> 0, nut |-> "TRAIL", irapPoc |-> 0]

\* EncLib::xGetNewPicBuffer: a full list gives the first picture, of those sorted by POC,
\* that is not referenced.
GetNewPicBuffer(list, poc) ==
  LET free == {p \in list : ~p.ref}
      first == CHOOSE p \in free : \A q \in free : p.poc <= q.poc
  IN {NewPicture0(poc)} \cup
       IF Cardinality(list) >= GOPSize + cfg.maxDec + 2 /\ free # {} THEN list \ {first} ELSE list

At(list, poc) == {p \in list : p.poc = poc}

\* Every picture but those of the given POCs is no reference any more.
Drop(list, pocs) == {[p EXCEPT !.ref = @ /\ p.poc \in pocs] : p \in list}

(* ---------------------------- the type of a picture -------------------------- *)

IDR(nut) == nut \in {"IDR_N_LP", "IDR_W_RADL"}
Irap(nut) == IDR(nut) \/ nut = "CRA"

\* EncGOP::getNalUnitType, before m_iLastIDR takes the POC.
NalUnitType(e, poc) ==
  CASE poc = 0 -> "IDR_N_LP"
    [] poc # 0 /\ cfg.refresh # 0 /\ poc % cfg.period = 0 ->
         IF cfg.refresh = 1 THEN "CRA" ELSE "IDR_W_RADL"
    [] OTHER -> IF e.pocCRA > 0 /\ poc < e.pocCRA THEN "RASL"
                ELSE IF e.lastIDR > 0 /\ poc < e.lastIDR THEN "RADL" ELSE "TRAIL"

SliceType(e, poc, entry) ==
  IF e.last = 0 \/ poc = 0 \/ (cfg.period > 0 /\ poc % cfg.period = 0) THEN "I" ELSE entry.type

(* -------------------------- lists and marking of a picture ------------------- *)

\* Slice::decodingRefreshMarking: what an IRAP picture leaves is dropped at the first
\* picture behind it in output order.
RefreshMarking(e, n) ==
  LET ofIdr == cfg.early /\ IDR(e.irap.nut)
      irap == IF ofIdr THEN e.lastIDR ELSE e.pocCRA
      due == e.pending /\ n.poc > irap
      f == IF due THEN [e EXCEPT !.list = Drop(@, {n.poc, irap}), !.pending = FALSE] ELSE e
  IN IF IDR(n.nut) THEN [e EXCEPT !.list = Drop(@, {n.poc}), !.pending = cfg.early \/ @]
     ELSE IF n.nut = "CRA" THEN [f EXCEPT !.pending = TRUE, !.pocCRA = n.poc] ELSE f

\* A slip: a picture that is in the buffer is taken for a reference.
AvailableIfPresent(list, poc) == At(list, poc) # {}

Available(list, poc) == \E p \in At(list, poc) : p.ref

\* checkThatAllRefPicsAreAvailable returns the POC of the first picture that is missing;
\* 0 says that none is.
FirstMissing(list, poc, distances) ==
  LET missing == SelectSeq(distances, LAMBDA x : ~Available(list, poc - x))
  IN IF missing = <<>> THEN 0 ELSE poc - missing[1]

\* The available ones of a list, those of higher layers behind the others.
Offered(list, n, distances) ==
  LET Higher(x) == \E p \in At(list, n.poc - x) : p.tid > n.tid
      there == SelectSeq(distances, LAMBDA x : Available(list, n.poc - x))
  IN SelectSeq(there, LAMBDA x : ~Higher(x)) \o SelectSeq(there, LAMBDA x : Higher(x))

\* Up to need distances from the other list, of the sign of the first one if all are to be.
Fill(list, other, need) ==
  LET alike(x) == ~cfg.sameSign \/ (x < 0 <=> (list \o other)[1] < 0)
      fitting == SelectSeq(other, LAMBDA x : ~Contains(list, x) /\ alike(x))
  IN list \o SubSeq(fitting, 1, Min({need, Len(fitting)}))

\* xCreateExplicitReferencePictureSetFromReference: lists of what is available, each
\* filled up from the other; an IRAP picture has none.
ExplicitLists(list, n, e) ==
  LET own0 == IF Irap(n.nut) THEN <<>> ELSE Offered(list, n, e.l0)
      own1 == IF Irap(n.nut) THEN <<>> ELSE Offered(list, n, e.l1)
      l0 == Fill(own0, own1, e.a0 - Len(own0))
      a0 == Min({Len(l0), e.a0})
      l1 == Fill(own1, own0, a0 - Len(own1))
  IN [e EXCEPT !.l0 = l0, !.a0 = a0, !.l1 = l1,
               !.a1 = IF cfg.sameSign THEN Len(l1) ELSE Min({Len(l1), @})]

\* A slip: the lists of the GOP are taken whatever is available.
ListsAsConfigured(list, n, e) == e

Lists(list, n, e) ==
  IF ~IDR(n.nut) /\ (FirstMissing(list, n.poc, e.l0) # 0 \/ FirstMissing(list, n.poc, e.l1) # 0)
  THEN ExplicitLists(list, n, e) ELSE e

Pocs(n, distances) == {n.poc - distances[i] : i \in 1..Len(distances)}

\* Slice::checkLeadingPictureRestrictions: the checks of the NAL unit types, of the
\* pictures coded before this one, that throw when they fail.
RestrictionsHold(list, n) ==
  LET leading == n.nut \in {"RASL", "RADL"}
      others == {p \in list : p.rec /\ p.poc # n.poc}
  IN /\ ~Irap(n.nut) => (leading <=> n.irap.poc > n.poc)
     /\ n.nut = "RASL" => ~IDR(n.irap.nut)
     /\ n.nut = "RADL" => n.irap.nut # "IDR_N_LP"
     /\ Irap(n.nut) => \A p \in others : p.poc < n.poc
     /\ n.nut = "RADL" =>
          \A p \in others : n.irap.poc > p.irapPoc /\ n.irap.poc # p.poc => p.poc < n.poc
     /\ leading => \A p \in others : p.nut \notin {"RASL", "RADL"} /\ p.irapPoc = n.irap.poc
                                       => p.poc <= n.irap.poc
     /\ n.nut = "RASL" /\ n.irap.nut = "CRA" =>
          \A p \in others : /\ p.nut = "RADL" /\ p.irapPoc = n.irap.poc => p.poc > n.poc
                            /\ Irap(p.nut) /\ p.poc < n.irap.poc => n.poc > p.poc

(* ---------------------------- coding of one picture -------------------------- *)

\* What compressGOP knows of picture poc, number id of its GOP, when it starts.
NewSlice(e, poc, id) ==
  [poc |-> poc, nut |-> NalUnitType(e, poc), tid |-> cfg.gop[id].tid,
   type |-> SliceType(e, poc, cfg.gop[id]),
   rpl |-> ListIndex(cfg.gop, cfg.rpl, cfg.period, poc, id)]

\* The picture is a reference from now on.
Started(e, n) ==
  [e EXCEPT !.lastIDR = IF IDR(n.nut) THEN n.poc ELSE @,
            !.irap = IF cfg.early /\ Irap(n.nut) THEN [nut |-> n.nut, poc |-> n.poc] ELSE @,
            !.list = {IF p.poc # n.poc THEN p
                      ELSE [p EXCEPT !.ref = TRUE, !.tid = n.tid, !.nut = n.nut] : p \in @}]

\* The slice with its lists and the IRAP picture it is associated with.
WithLists(e, n) ==
  LET lists == Lists(e.list, n, cfg.rpl[n.rpl])
  IN [poc |-> n.poc, nut |-> n.nut, tid |-> n.tid, type |-> n.type,
      l0 |-> lists.l0, a0 |-> lists.a0, l1 |-> lists.l1, a1 |-> lists.a1,
      irap |-> IF Irap(n.nut) THEN [nut |-> n.nut, poc |-> n.poc] ELSE e.irap]

\* A slip: pictures are dropped at an IDR picture only.
KeptUpToIdr(list, n) == IF IDR(n.nut) THEN Drop(list, {n.poc}) ELSE list

\* applyReferencePictureListBasedMarking: what neither list holds is dropped.
KeptByLists(list, n) ==
  Drop(list, {n.poc} \cup IF IDR(n.nut) THEN {} ELSE Pocs(n, n.l0) \cup Pocs(n, n.l1))

\* constructRefPicList: the pictures that the lists point to, active or not.
Entries(n) == IF n.type = "I" THEN {} ELSE Pocs(n, n.l0) \cup Pocs(n, n.l1)

Active(n) ==
  CASE n.type = "I" -> {}
    [] n.type = "P" -> Pocs(n, SubSeq(n.l0, 1, n.a0))
    [] n.type = "B" -> Pocs(n, SubSeq(n.l0, 1, n.a0)) \cup Pocs(n, SubSeq(n.l1, 1, n.a1))

Coded(n, list) ==
  [poc |-> n.poc, nut |-> n.nut, tid |-> n.tid, entries |-> Entries(n),
   keep |-> Pocs(n, n.l0) \cup Pocs(n, n.l1),
   seen |-> {[ref |-> p.ref, rec |-> p.rec, above |-> p.tid > n.tid /\ p.poc \in Active(n)]
               : p \in {q \in list : q.poc \in Entries(n)}}]

Reconstructed(list, n) ==
  {IF p.poc = n.poc THEN [p EXCEPT !.rec = TRUE, !.irapPoc = n.irap.poc] ELSE p : p \in list}

(* ---------------------------------- the steps -------------------------------- *)

\* A slip: a GOP that is not full is waited for though the file has ended.
KeepDoingFullGops(e, eos) == e.rcvd = 0 \/ (e.last # 0 /\ e.rcvd # GOPSize)

\* The queue has no GOP yet; the first picture is a GOP.
KeepDoing(e, eos) == e.rcvd = 0 \/ (~eos /\ e.last # 0 /\ e.rcvd # GOPSize)

\* EncApp::encodePrep and EncLib::encodePrep: a frame is read and queued; a read that
\* fails flushes the queue.  The reading goes on until a GOP is there or the end.
EncodePrep ==
  /\ app.phase = "prep"
  /\ LET eof == app.rcvd >= cfg.file
         eos == eof \/ app.rcvd + 1 = cfg.frames
         e == IF eof THEN enc
              ELSE [enc EXCEPT !.list = GetNewPicBuffer(@, enc.last + 1),
                               !.last = @ + 1, !.rcvd = @ + 1]
     IN /\ enc' = IF KeepDoing(e, eos) THEN e ELSE [e EXCEPT !.id = 0]
        /\ app' = [app EXCEPT !.rcvd = IF eof THEN @ ELSE @ + 1,
                              !.frames = IF eof THEN app.rcvd ELSE @,
                              !.eos = eos,
                              !.ring = IF eof THEN @ ELSE Append(Tail(@), Head(@)),
                              !.phase = IF KeepDoing(e, eos) THEN "prep" ELSE "encode"]
  /\ UNCHANGED <<cfg, sent>>

\* A slip: every GOP is taken to be full.
CurrentPocOfFullGop == IF enc.last = 0 THEN 0 ELSE enc.last - GOPSize + cfg.gop[enc.id + 1].poc

CurrentPoc == IF enc.last = 0 THEN 0 ELSE enc.last - enc.rcvd + cfg.gop[enc.id + 1].poc

\* EncLib::encode and EncApp::encode behind compressGOP: the next picture of the GOP, or
\* the reconstruction is written and the next GOP is read.
Proceed(e, ring) ==
  IF e.id + 1 # GOPSize /\ e.last # 0
  THEN enc' = [e EXCEPT !.id = @ + 1] /\ app' = [app EXCEPT !.ring = ring]
  ELSE /\ enc' = [e EXCEPT !.id = @ + 1, !.rcvd = 0]
       /\ app' = [app EXCEPT !.ring = ring,
                             !.recon = @ \o SubSeq(ring, Len(ring) - e.rcvd + 1, Len(ring)),
                             !.phase = IF app.eos THEN "done" ELSE "prep"]

\* A picture of the last GOP that there is no frame for.
EncodeBeyondEnd ==
  /\ app.phase = "encode"
  /\ CurrentPoc >= app.frames
  /\ Proceed(enc, app.ring)
  /\ UNCHANGED <<cfg, sent>>

\* EncGOP::compressGOP of one picture.
EncodePicture ==
  /\ app.phase = "encode"
  /\ CurrentPoc < app.frames
  /\ \E new \in {NewSlice(enc, CurrentPoc, enc.id + 1)} :
     \E e \in {RefreshMarking(Started(enc, new), new)} :
     \E n \in {WithLists(e, new)} :
     \E list \in {KeptByLists(e.list, n)} :
     LET place == Len(app.ring) - (enc.rcvd - (IF enc.last = 0 THEN 1 ELSE cfg.gop[enc.id + 1].poc))
     IN IF RestrictionsHold(e.list, n) /\ Entries(n) \subseteq {p.poc : p \in list}
        THEN /\ sent' = Append(sent, Coded(n, list))
             /\ Proceed([e EXCEPT !.list = Reconstructed(list, n), !.irap = n.irap],
                        [app.ring EXCEPT ![place] = n.poc])
        ELSE app' = [app EXCEPT !.phase = "failed"] /\ UNCHANGED <<enc, sent>>
  /\ UNCHANGED cfg

\* The configuration with what EncAppCfg and xInitRPL derive from it.
Configured(c) ==
  LET rpl == Structure(c.gop).rpl
  IN [gop |-> c.gop, period |-> c.period, refresh |-> c.refresh, frames |-> c.frames,
      file |-> c.file, early |-> c.early, rpl |-> rpl, sameSign |-> SameSign(rpl),
      maxDec |-> MaxDecPicBuffering(c.gop, Layers(c.gop) - 1)]

EncodeInit ==
  /\ \E c \in Configurations : cfg = Configured(c)
  /\ app = [phase |-> "prep", rcvd |-> 0, frames |-> cfg.frames, eos |-> FALSE,
            ring |-> [k \in 1..(GOPSize + 1) |-> -1], recon |-> <<>>]
  /\ enc = [list |-> {}, last |-> -1, rcvd |-> 0, id |-> 0, lastIDR |-> 0, pocCRA |-> 0,
            pending |-> FALSE, irap |-> [nut |-> "IDR_N_LP", poc |-> 0]]
  /\ sent = <<>>

EncodeNext == EncodePrep \/ EncodeBeyondEnd \/ EncodePicture

(* --------------------------------- properties -------------------------------- *)

Encoded == app.phase = "done"

\* The frames that there are to encode.
Frames == Min({cfg.frames, cfg.file})

\* RefsCoded: every picture that an inter picture's lists point to is in the buffer, was
\* coded before it and is still marked as reference when it is coded, and none that is used
\* is of a higher temporal layer; the lists come from the GOP, from its start-up entries or
\* from what is available.
RefsCoded == \A k \in 1..Len(sent) : \A r \in sent[k].seen : r.ref /\ r.rec /\ ~r.above

\* CodedOnce: when the encoder is done, every frame has been coded once, in the order of
\* the GOP, and the reconstruction holds them all in output order.
FramesCodedOnce ==
  /\ \A j, k \in 1..Len(sent) : sent[j].poc = sent[k].poc => j = k
  /\ \A i \in 1..Len(app.recon) : app.recon[i] = i - 1
  /\ Encoded => {sent[k].poc : k \in 1..Len(sent)} = 0..(Frames - 1) /\ Len(app.recon) = Frames

\* NeverFails: no picture of a configuration that is accepted fails the checks of its NAL
\* unit type or points to a picture that is not there, which constructRefPicList does
\* not test.
NeverFails == app.phase # "failed"

\* BufferBounded: the list of pictures does not grow beyond the size at which it reuses
\* buffers: there is a picture to reuse whenever it is that long.
BufferBounded == Cardinality(enc.list) <= GOPSize + cfg.maxDec + 2

\* A file that ends where the queue is empty: the flush finds no picture, encodePrep asks
\* for more, and the loop that reads never ends.
EndsBetweenGops == cfg.file < cfg.frames /\ (cfg.file = 0 \/ (cfg.file - 1) % GOPSize = 0)

\* Ends: the encoder ends, unless the file ends between two GOPs before the last frame.
Ends == EndsBetweenGops \/ <>Encoded
=============================================================================
