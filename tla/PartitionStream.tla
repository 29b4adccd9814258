--------------------------- MODULE PartitionStream ---------------------------
(***************************************************************************)
(* The .dat partition file of the patch: one encoder run (WritePartition)  *)
(* stores the partition of every CTU, a later run (ReadPartition) replays  *)
(* it.  The writer is EncSlice::encodeCtus (EncSlice.cpp) calling          *)
(* PartitionManager::store_ctu; the reader is EncCu::compressCtu calling   *)
(* PartitionManager::load_ctu.  Nothing in the file says which CTU or      *)
(* which channel a record belongs to: the two runs agree only because both *)
(* walk the CTUs in the same order and decide the same number of records   *)
(* for each.  The file is flushed after every value, so a run that dies    *)
(* leaves any prefix of it behind, and std::ifstream leaves the zeros of   *)
(* calloc in place of what it cannot read.                                 *)
(*                                                                         *)
(* A matrix of m_cur_val values is a function of NumCells cells, a motion  *)
(* hint (pocRef and mvUni) is one value.                                   *)
(***************************************************************************)
EXTENDS Naturals, Sequences

CONSTANTS NumCtus,     \* CTUs coded by the run
          NumCells,    \* samples of a CTU, one stored value each
          CellValues,  \* values of a cell: 0 is "not split"
          Motions,     \* motion hints: 0 is what a failed read gives
          Plans        \* configurations of the two runs, a subset of AllPlans

\* dual: SPS dual tree (!pcv->ISingleTree); chroma: chroma format is not 4:0:0;
\* intra[c]: CTU c lies in an intra slice.
AllPlans == [dual : BOOLEAN, chroma : BOOLEAN, intra : [1..NumCtus -> BOOLEAN]]

ASSUME StreamAssumption ==
  /\ NumCtus \in Nat \ {0}
  /\ NumCells \in Nat \ {0}
  /\ CellValues \subseteq Nat /\ 0 \in CellValues
  /\ Motions \subseteq Nat /\ 0 \in Motions
  /\ Plans \subseteq AllPlans

VARIABLES plan,    \* the configuration, the same for both runs
          file,    \* the values in the file after its header
          stored,  \* ghost: the records handed to store_ctu, in order
          nextCtu, \* the CTU the writer compresses next
          nextRec, \* the record the writer is writing
          nextFld, \* the value of it that it writes next
          running, \* TRUE while the writing run is alive
          pos,     \* the reader's file position
          curCtu,  \* the CTU the reader compresses
          curChan, \* the channel of it that is loaded next
          loaded   \* ghost: the records load_ctu returned, in order

wvars == <<stored, nextCtu, nextRec, nextFld>>
rvars == <<pos, curCtu, curChan, loaded>>
vars  == <<plan, file, running, wvars, rvars>>

Channels == {"luma", "chroma"}

\* "at" is a ghost: the file position of the first value of the record.
Record == [ctu : 1..NumCtus, chan : Channels, inter : {0, 1},
           cells : [1..NumCells -> CellValues], motion : Motions, at : Nat \ {0}]

\* isInter, the matrix, the node count, and the motion hint of an inter CTU.
RecLen(inter) == NumCells + 2 + inter

Field(rec, i) ==
  IF i = 1 THEN rec.inter
  ELSE IF i <= NumCells + 1 THEN rec.cells[i - 1]
  ELSE IF i = NumCells + 2 THEN 1        \* the node count, read and dropped
  ELSE rec.motion

-----------------------------------------------------------------------------
Init == /\ plan \in Plans
        /\ file = <<>> /\ stored = <<>>
        /\ nextCtu = 1 /\ nextRec = 1 /\ nextFld = 1
        /\ running = TRUE
        /\ pos = 1 /\ curCtu = 1 /\ curChan = "luma" /\ loaded = <<>>

IsInter(c) == IF plan.intra[c] THEN 0 ELSE 1

\* An inter CTU has a luma tree and a motion hint; an intra CTU a luma and a
\* chroma tree, both stored whatever the tree type of the slice.
Compress ==
  /\ running
  /\ nextCtu <= NumCtus
  /\ nextRec = Len(stored) + 1
  /\ \E luma, chroma \in [1..NumCells -> CellValues], mv \in Motions :
       LET lumaRec   == [ctu |-> nextCtu, chan |-> "luma",
                         inter |-> IsInter(nextCtu), cells |-> luma,
                         motion |-> IF plan.intra[nextCtu] THEN 0 ELSE mv,
                         at |-> Len(file) + 1]
           chromaRec == [ctu |-> nextCtu, chan |-> "chroma", inter |-> 0,
                         cells |-> chroma, motion |-> 0,
                         at |-> Len(file) + 1 + RecLen(0)]
       IN stored' = IF plan.intra[nextCtu]
                      THEN Append(Append(stored, lumaRec), chromaRec)
                      ELSE Append(stored, lumaRec)
  /\ nextCtu' = nextCtu + 1
  /\ UNCHANGED <<plan, file, running, nextRec, nextFld, rvars>>

\* One PartitionManager::write: the value and a flush.
WriteField ==
  /\ running
  /\ nextRec <= Len(stored)
  /\ LET rec == stored[nextRec]
     IN /\ file' = Append(file, Field(rec, nextFld))
        /\ IF nextFld < RecLen(rec.inter)
             THEN nextFld' = nextFld + 1 /\ nextRec' = nextRec
             ELSE nextFld' = 1 /\ nextRec' = nextRec + 1
  /\ UNCHANGED <<plan, running, stored, nextCtu, rvars>>

\* The writing run ends, normally or not.
Stop ==
  /\ running
  /\ running' = FALSE
  /\ UNCHANGED <<plan, file, wvars, rvars>>

-----------------------------------------------------------------------------
\* A slip: the read buffer is not cleared before a read.
ReadAtStale(i) ==
  IF i <= Len(file) THEN file[i] ELSE IF file = <<>> THEN 0 ELSE file[Len(file)]

ReadAt(i) == IF i <= Len(file) THEN file[i] ELSE 0

\* A slip: the reader forgets that only intra slices have a dual tree.
LoadsChromaAlways(c) == plan.dual /\ plan.chroma

LoadsChroma(c) == plan.intra[c] /\ plan.dual /\ plan.chroma

\* PartitionManager::load_ctu for the channel compressCtu is about to compress.
LoadCtu ==
  /\ ~running
  /\ curCtu <= NumCtus
  /\ LET inter == IF ReadAt(pos) = 0 THEN 0 ELSE 1
     IN /\ loaded' = Append(loaded,
                      [ctu |-> curCtu, chan |-> curChan, inter |-> inter,
                       cells |-> [i \in 1..NumCells |-> ReadAt(pos + i)],
                       motion |-> IF inter = 1 THEN ReadAt(pos + NumCells + 2) ELSE 0,
                       at |-> pos])
        /\ pos' = pos + RecLen(inter)
  /\ IF curChan = "luma" /\ LoadsChroma(curCtu)
       THEN curChan' = "chroma" /\ curCtu' = curCtu
       ELSE curChan' = "luma" /\ curCtu' = curCtu + 1
  /\ UNCHANGED <<plan, file, running, wvars>>

Next == Compress \/ WriteField \/ Stop \/ LoadCtu

Spec == Init /\ [][Next]_vars

-----------------------------------------------------------------------------
\* The state of both runs is well formed.
TypeOK ==
  /\ plan \in Plans
  /\ file \in Seq(Nat)
  /\ stored \in Seq(Record)
  /\ nextCtu \in 1..NumCtus + 1
  /\ nextRec \in 1..Len(stored) + 1
  /\ nextFld \in 1..NumCells + 3
  /\ running \in BOOLEAN
  /\ pos \in Nat \ {0}
  /\ curCtu \in 1..NumCtus + 1
  /\ curChan \in Channels
  /\ loaded \in Seq([ctu : 1..NumCtus, chan : Channels, inter : {0, 1},
                     cells : [1..NumCells -> Nat], motion : Nat, at : Nat \ {0}])

\* A record the writer finished is loaded for the CTU and the channel it was
\* stored for, with the values it was stored with: load_ctu re-injects the
\* partition store_ctu saved, wherever the writing run stopped.
LoadedIsStored ==
  \A k \in 1..Len(loaded) : k < nextRec => loaded[k] = stored[k]

\* The record the writer was in when it died is loaded as its written values
\* followed by zeros, and every record after it as an unsplit CTU without
\* motion: a truncated file never gives a later CTU values of another one.
TornTail ==
  \A k \in 1..Len(loaded) :
     /\ k = nextRec /\ nextFld > 1 =>
          \A i \in 1..NumCells :
             loaded[k].cells[i] = IF i + 1 < nextFld THEN stored[k].cells[i] ELSE 0
     /\ k > nextRec =>
          loaded[k].inter = 0 /\ \A i \in 1..NumCells : loaded[k].cells[i] = 0
=============================================================================
