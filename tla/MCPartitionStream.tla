-------------------------- MODULE MCPartitionStream --------------------------
(* Small instances of PartitionStream for TLC. *)
EXTENDS PartitionStream

\* The writer and the reader decide the same number of records for each CTU:
\* every intra CTU is coded with a dual tree and has chroma.
AgreeingPlans ==
  {p \in AllPlans : (\E c \in 1..NumCtus : p.intra[c]) => p.dual /\ p.chroma}

\* An intra slice coded with a single tree, as DualITree 0 configures it.
SingleTreePlans ==
  {p \in AllPlans : p.chroma /\ ~p.dual /\ \A c \in 1..NumCtus : p.intra[c]}
=============================================================================
