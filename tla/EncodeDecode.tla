----------------------------- MODULE EncodeDecode -----------------------------
(* The encoder and the decoder one behind the other: what the encoder sends is *)
(* decoded, from its start or from any IRAP picture, whole or without its      *)
(* highest temporal layers.  The encoder writes the parameter sets again with  *)
(* each IRAP picture (RewriteParamSets) and the picture header in the slice    *)
(* header, one slice to a picture.                                             *)
EXTENDS EncoderGop, DecoderLoop

VARIABLES from  \* the picture sent at which the decoder starts; 0: it is not started

codecVars == <<encodeVars, decoderVars, from>>

BitsForPOC == 8  \* EncLib::xInitSPS

(* ------------------------------- the bitstream ------------------------------- *)

\* The pictures that the lists of picture k mean, as the decoder numbers them from
\* picture first on; 0 is a picture that it does not get.
Meant(k, first) ==
  {LET coded == {j \in first..(k - 1) : sent[j].poc = poc}
   IN [delta |-> sent[k].poc - poc, pic |-> IF coded = {} THEN 0 ELSE Max(coded) - first + 1]
     : poc \in sent[k].entries}

Unit(type, k, first) ==
  LET p == sent[k]
      slice == type = "SLICE"
  IN [type |-> type, nut |-> IF IDR(p.nut) THEN "IDR" ELSE p.nut, pic |-> k - first + 1,
      poc |-> p.poc, lsb |-> p.poc % 2 ^ BitsForPOC, tid |-> IF type = "PS" THEN 0 ELSE p.tid,
      ph |-> slice, first |-> slice,
      keep |-> IF slice THEN {p.poc - poc : poc \in p.keep} ELSE {},
      refs |-> IF slice THEN Meant(k, first) ELSE {}]

\* EncGOP::compressGOP: the parameter sets, the slice, the SEI message with the hash.
UnitsOf(k, first) ==
  (IF Irap(sent[k].nut) THEN <<Unit("PS", k, first)>> ELSE <<>>)
    \o <<Unit("SLICE", k, first), Unit("SUFFIX", k, first)>>

\* A slip: all layers are given the limits of the lowest.
LimitsOfLayer0(t) == [reorder |-> [i \in 1..Layers(cfg.gop) |-> MaxNumReorderPics(cfg.gop, 0)],
                      buffers |-> [i \in 1..Layers(cfg.gop) |-> MaxDecPicBuffering(cfg.gop, 0)],
                      bits |-> BitsForPOC, target |-> t]

\* The sequence parameter set, and the option -t.
Limits(t) ==
  [reorder |-> [i \in 1..Layers(cfg.gop) |-> MaxNumReorderPics(cfg.gop, i - 1)],
   buffers |-> [i \in 1..Layers(cfg.gop) |-> MaxDecPicBuffering(cfg.gop, i - 1)],
   bits |-> BitsForPOC, target |-> t]

(* ---------------------------------- the steps -------------------------------- *)

Encode == EncodeNext /\ UNCHANGED <<decoderVars, from>>

\* The decoder is started, on the bitstream from an IRAP picture on.
StartDecoder ==
  /\ app.phase = "done" /\ from = 0
  /\ \E k \in {i \in 1..Len(sent) : Irap(sent[i].nut)}, t \in -1..(Layers(cfg.gop) - 2) :
       /\ from' = k
       /\ stream' = FlattenSeq([i \in 1..(Len(sent) - k + 1) |-> UnitsOf(k + i - 1, k)])
       /\ limits' = Limits(t)
  /\ UNCHANGED <<encodeVars, next, fresh, d, dpb>>

Decoding == from > 0 /\ DecoderNext /\ UNCHANGED <<encodeVars, from>>

CodecInit ==
  /\ EncodeInit
  /\ DecoderStart /\ stream = <<>> /\ limits = Limits(-1)
  /\ from = 0

Done == from > 0 /\ AtEnd

\* Where the two programs may stop.
Over == Done \/ d.crashed \/ app.phase = "failed"

Stopped == Over /\ UNCHANGED codecVars

CodecNext == Encode \/ StartDecoder \/ Decoding \/ Stopped

\* The encoder runs as long as it can.  The decoder has no fairness: a step of it reads a
\* unit or is followed by one that does, so that it gets to its end if it is never stuck,
\* which is what the run's check for deadlock says.
CodecSpec == CodecInit /\ [][CodecNext]_codecVars /\ WF_codecVars(Encode)

(* --------------------------------- properties -------------------------------- *)

\* The frames that the decoder is to write: without the layers above -t and the RASL
\* pictures of the CRA picture at which it starts.
Expected ==
  {sent[k].poc : k \in {i \in from..Len(sent) :
     /\ limits.target < 0 \/ sent[i].tid <= limits.target
     /\ ~(sent[i].nut = "RASL" /\ sent[i].poc < sent[from].poc)}}

\* The first picture, when none but its RASL pictures follow (FinishedAgain).
Lost ==
  IF Expected = {sent[from].poc} /\ Last(sent).nut = "RASL"
     /\ (limits.target < 0 \/ Last(sent).tid <= limits.target)
  THEN Expected ELSE {}

Shown == [i \in 1..Len(dpb.shown) |-> sent[from + dpb.shown[i] - 1].poc]

\* Delivered: the decoder writes the frames in their order, none twice, and in the end all
\* that it was sent to write but Lost: the limits of the sequence parameter set, the POCs, the NAL
\* unit types and the lists of the encoder are what the output process needs.
Delivered ==
  from > 0 =>
    /\ \A i, j \in 1..Len(Shown) : i < j => Shown[i] < Shown[j]
    /\ AtEnd => ToSet(Shown) = Expected \ Lost

\* ReferencesArrive: KeepsReferences for what this encoder sends: the pictures that can be
\* decoded from an IRAP picture on point to none before it.
ReferencesArrive == from > 0 => KeepsReferences
=============================================================================
