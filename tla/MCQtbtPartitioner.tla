------------------------ MODULE MCQtbtPartitioner ------------------------
(* Instances of QtbtPartitioner for TLC: the default constraints of an inter *)
(* slice, of the luma and of the chroma tree of an intra slice.              *)
EXTENDS QtbtPartitioner

PicSizes == {<<128, 56>>, <<120, 88>>}

Make(p, maxBt, maxTt, dual, chroma, qg) ==
  [maxMtt |-> 3, minBt |-> 4, maxBt |-> maxBt, minTt |-> 4, maxTt |-> maxTt, minQt |-> 8,
   dual |-> dual, chroma |-> chroma, qgSubdiv |-> qg, picW |-> p[1], picH |-> p[2]]

InterConfigs == {Make(p, 128, 64, FALSE, FALSE, qg) : p \in PicSizes, qg \in {3}}
IntraConfigs ==
  {Make(p, 32, 32, TRUE, FALSE, 2) : p \in PicSizes} \cup {Make(p, 64, 32, TRUE, TRUE, 0) : p \in PicSizes}
SomeConfigs == InterConfigs \cup IntraConfigs
=============================================================================
