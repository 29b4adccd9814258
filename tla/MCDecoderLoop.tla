---------------------------- MODULE MCDecoderLoop ----------------------------
(* Streams for DecoderLoop, built from pictures: nut, POC, temporal layer, the  *)
(* pictures kept as reference, and whether an EOS follows.                      *)
EXTENDS DecoderLoop

PocBits == 4

Pic(nut, poc, tid, keep, eos) ==
  [nut |-> nut, poc |-> poc, tid |-> tid, keep |-> keep, eos |-> eos]

NalUnit(type, p, k) ==
  [type |-> type, nut |-> p.nut, poc |-> p.poc, lsb |-> p.poc % 2 ^ PocBits, pic |-> k,
   keep |-> {}, refs |-> {}, tid |-> IF type \in {"PS", "EOS", "EOB"} THEN 0 ELSE p.tid,
   ph |-> FALSE, first |-> FALSE]

\* In the slices of picture k all entries are active.
Slice(ps, k, ph, first) ==
  [NalUnit("SLICE", ps[k], k) EXCEPT
     !.ph = ph, !.first = first,
     !.keep = {ps[k].poc - ps[j].poc : j \in ps[k].keep},
     !.refs = {[delta |-> ps[k].poc - ps[j].poc, pic |-> j] : j \in ps[k].keep}]

Units(types, p, k) == [i \in 1..Len(types) |-> NalUnit(types[i], p, k)]

(* A shape: the units before the slices, how many slices, the units after them; *)
(* the picture header is in the slice header unless there is a PH among them.   *)
Shape(before, slices, after) == [before |-> before, slices |-> slices, after |-> after]

InSlice == {Shape(<<>>, 1, <<>>), Shape(<<"PREFIX">>, 1, <<>>), Shape(<<"PS">>, 1, <<"SUFFIX">>),
            Shape(<<"AUD", "PREFIX">>, 1, <<"SUFFIX">>)}

InHeader == {Shape(<<"PH">>, 1, <<>>), Shape(<<"PH">>, 2, <<"SUFFIX">>),
             Shape(<<"AUD", "PS", "PREFIX", "PH", "PREFIX">>, 2, <<>>), Shape(<<"PREFIX", "PH">>, 2, <<>>)}

CodedUnits(ps, k, s) ==
  Units(s.before, ps[k], k)
    \o [i \in 1..s.slices |-> Slice(ps, k, s \in InSlice, i = 1)]
    \o Units(s.after, ps[k], k)
    \o IF ps[k].eos THEN <<NalUnit("EOS", ps[k], k)>> ELSE <<>>

\* A stream that ends with an EOS has an EOB behind it.
Stream(ps, shapes) ==
  FlattenSeq([k \in 1..Len(ps) |-> CodedUnits(ps, k, shapes[k])])
    \o IF Last(ps).eos THEN <<NalUnit("EOB", Last(ps), Len(ps))>> ELSE <<>>

Plain(ps) == Stream(ps, [k \in 1..Len(ps) |-> Shape(<<>>, 1, <<>>)])

(* -------------------------- the structure of streams -------------------------- *)

Patterns ==
  {<<Pic("IDR", 0, 0, {}, FALSE), Pic("TRAIL", 2, 0, {1}, FALSE), Pic("TRAIL", 1, 0, {1, 2}, FALSE)>>,
   <<Pic("IDR", 0, 0, {}, FALSE), Pic("TRAIL", 1, 0, {1}, FALSE), Pic("IDR", 0, 0, {}, FALSE)>>,
   <<Pic("IDR", 0, 0, {}, FALSE), Pic("IDR", 0, 0, {}, TRUE), Pic("IDR", 0, 0, {}, TRUE)>>,
   <<Pic("IDR", 0, 0, {}, TRUE), Pic("IDR", 0, 0, {}, FALSE), Pic("TRAIL", 1, 0, {2}, FALSE)>>,
   <<Pic("CRA", 4, 0, {}, FALSE), Pic("RASL", 3, 0, {1}, FALSE), Pic("TRAIL", 5, 0, {1}, FALSE)>>,
   <<Pic("IDR", 0, 0, {}, FALSE), Pic("CRA", 4, 0, {1}, FALSE), Pic("RASL", 3, 0, {1, 2}, FALSE)>>,
   <<Pic("IDR", 0, 0, {}, TRUE), Pic("CRA", 2, 0, {}, FALSE), Pic("TRAIL", 3, 0, {2}, FALSE)>>}

Structures ==
  UNION {{Stream(ps, <<a, b, c>>) : a \in S, b \in S, c \in S}
           : S \in {InSlice, InHeader}, ps \in Patterns}

(* ---------------------- sequences behind an end of sequence ------------------- *)

\* The CRA picture has other high bits, or the POC of a picture of the sequence before it.
Restarts ==
  {Plain(ps) : ps \in
    {<<Pic("IDR", 14, 0, {}, FALSE), Pic("TRAIL", 16, 0, {1}, TRUE), Pic("CRA", 2, 0, {}, FALSE),
       Pic("RASL", 1, 0, {3}, FALSE), Pic("TRAIL", 3, 0, {3}, FALSE)>>,
     <<Pic("IDR", 0, 0, {}, FALSE), Pic("TRAIL", 1, 0, {1}, TRUE), Pic("CRA", 1, 0, {}, FALSE),
       Pic("TRAIL", 2, 0, {3}, FALSE), Pic("TRAIL", 3, 0, {3, 4}, FALSE)>>,
     <<Pic("IDR", 14, 0, {}, TRUE), Pic("CRA", 2, 0, {}, FALSE), Pic("TRAIL", 3, 0, {2}, FALSE)>>,
     <<Pic("CRA", 2, 0, {}, FALSE), Pic("RASL", 1, 0, {1}, FALSE)>>,
     <<Pic("CRA", 2, 0, {}, FALSE), Pic("RASL", 1, 0, {1}, TRUE), Pic("IDR", 0, 0, {}, FALSE),
       Pic("TRAIL", 1, 0, {3}, FALSE)>>}}

(* ------------------------------ temporal layers ------------------------------- *)

LayerPatterns ==
  {<<Pic("IDR", 0, 0, {}, FALSE), Pic("TRAIL", 2, 0, {1}, FALSE), Pic("TRAIL", 1, 1, {1, 2}, FALSE)>>,
   <<Pic("IDR", 0, 0, {}, FALSE), Pic("TRAIL", 1, 1, {1}, FALSE), Pic("IDR", 0, 0, {}, FALSE)>>,
   <<Pic("IDR", 0, 0, {}, FALSE), Pic("TRAIL", 1, 1, {1}, FALSE), Pic("TRAIL", 2, 0, {1}, FALSE)>>,
   <<Pic("CRA", 2, 0, {}, FALSE), Pic("RASL", 1, 1, {1}, FALSE), Pic("TRAIL", 3, 0, {1}, FALSE)>>}

LayerStreams ==
  UNION {{Stream(ps, <<a, b, c>>) : a \in S, b \in S, c \in S}
           : S \in {InSlice, InHeader}, ps \in LayerPatterns}

=============================================================================
