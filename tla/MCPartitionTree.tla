--------------------------- MODULE MCPartitionTree ---------------------------
(* A small instance of PartitionTree for TLC; ids of nodes come from tries.  *)
EXTENDS PartitionMatrix
=============================================================================
