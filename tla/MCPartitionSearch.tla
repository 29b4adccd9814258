-------------------------- MODULE MCPartitionSearch --------------------------
(* Small instances of PartitionSearch for TLC: one binary split, and the quad *)
(* split with two of its four parts.                                          *)
EXTENDS PartitionSearch

TwoKinds == {"bth", "qt"}
MCKinds == <<"bth", "qt">>
MCNumParts == [k \in TwoKinds |-> 2]
QtLast == {<<"bth", "qt">>}

\* One storing run, and one reading run for each tree.
AnyRun == {NoFile} \cup TreesOf[MaxDepth]

\* The costs of a whole CTU stay far below MAX_DOUBLE.
ASSUME Affordable == Budget([h \in 0..MaxDepth |-> <<4, 9, 19>>[h + 1]])
=============================================================================
