---------------------------- MODULE Partition_proofs --------------------------
(***************************************************************************)
(* The partition file: a replaying run loads, for every CTU, the partition *)
(* stored for it, for any number of CTUs, any matrix size and any point at *)
(* which the writing run stops, as long as the two runs decide the same    *)
(* number of records per CTU.                                              *)
(*                                                                         *)
(* The partition tree: for every CTU and minimal size, MTT depth and       *)
(* number and order of the splits explored, no node is lost or owned       *)
(* twice, and wherever transfer_leaves hangs one its depths and value are  *)
(* those of its path.  The invariant is that the open trees are trees      *)
(* whose nodes get smaller downwards, with quad splits first, and that     *)
(* each frame of xCompressCU has its place in them.                        *)
(***************************************************************************)
EXTENDS PartitionStream, PartitionTree, SequenceTheorems, WellFoundedInduction, TLAPS

(* ------------------------------ the partition file --------------------------- *)

\* The condition under which the writer (chroma record iff intra) and the
\* reader (chroma record iff intra, dual tree and not 4:0:0) agree.
Agreement ==
  \A p \in Plans : \A c \in 1..NumCtus : p.intra[c] => p.dual /\ p.chroma

\* The channel and the CTU of the record after (c, ch).
AfterCtu(c, ch)  == IF ch = "luma" /\ plan.intra[c] THEN c ELSE c + 1
AfterChan(c, ch) == IF ch = "luma" /\ plan.intra[c] THEN "chroma" ELSE "luma"

RecordOK(r) ==
  /\ r.inter = IsInter(r.ctu)
  /\ r.inter = 0 => r.motion = 0

\* The records lie in the file one after the other, in the reader's order.
Chained ==
  /\ Len(stored) > 0 =>
       stored[1].at = 1 /\ stored[1].ctu = 1 /\ stored[1].chan = "luma"
  /\ \A k \in 1..Len(stored) :
       /\ RecordOK(stored[k])
       /\ k < Len(stored) =>
            /\ stored[k+1].at = stored[k].at + RecLen(stored[k].inter)
            /\ stored[k+1].ctu = AfterCtu(stored[k].ctu, stored[k].chan)
            /\ stored[k+1].chan = AfterChan(stored[k].ctu, stored[k].chan)
  /\ Len(stored) > 0 =>
       /\ nextCtu = AfterCtu(stored[Len(stored)].ctu, stored[Len(stored)].chan)
       /\ "luma" = AfterChan(stored[Len(stored)].ctu, stored[Len(stored)].chan)
  /\ Len(stored) = 0 => nextCtu = 1

\* No two records share a value of the file.
Disjoint ==
  \A j, k \in 1..Len(stored) :
    j < k => stored[j].at + RecLen(stored[j].inter) <= stored[k].at

\* Where the writer is in the file.
WriterAt ==
  /\ nextRec <= Len(stored) =>
       /\ Len(file) + 1 = stored[nextRec].at + nextFld - 1
       /\ nextFld <= RecLen(stored[nextRec].inter)
  /\ nextRec = Len(stored) + 1 =>
       /\ nextFld = 1
       /\ Len(stored) = 0 => Len(file) = 0
       /\ Len(stored) > 0 =>
            Len(file) + 1 = stored[Len(stored)].at + RecLen(stored[Len(stored)].inter)

\* What is in the file is what store_ctu wrote.
Written ==
  \A k \in 1..Len(stored) :
    /\ \A i \in 1..RecLen(stored[k].inter) :
         stored[k].at + i - 1 <= Len(file) =>
           file[stored[k].at + i - 1] = Field(stored[k], i)
    /\ k < nextRec => stored[k].at + RecLen(stored[k].inter) <= Len(file) + 1

\* Where the reader is.
ReaderAt ==
  /\ running => loaded = <<>> /\ pos = 1 /\ curCtu = 1 /\ curChan = "luma"
  /\ LET n == Len(loaded) + 1
     IN n <= Len(stored) /\ n <= nextRec =>
          pos = stored[n].at /\ curCtu = stored[n].ctu /\ curChan = stored[n].chan

\* The inductive strengthening of LoadedIsStored.
IInv == TypeOK /\ Chained /\ Disjoint /\ WriterAt /\ Written /\ ReaderAt /\ LoadedIsStored
-----------------------------------------------------------------------------
\* The values written are naturals.
LEMMA FieldType ==
  ASSUME NEW r \in Record, NEW i \in 1..RecLen(r.inter)
  PROVE  Field(r, i) \in Nat
<1>1. /\ r.inter \in {0, 1} /\ r.cells \in [1..NumCells -> CellValues] /\ r.motion \in Motions
      /\ NumCells \in Nat /\ CellValues \subseteq Nat /\ Motions \subseteq Nat
  BY StreamAssumption DEF Record
<1>2. CASE i # 1 /\ i <= NumCells + 1
  <2>1. i - 1 \in 1..NumCells
    BY <1>1, <1>2 DEF RecLen
  <2> QED BY <1>1, <1>2, <2>1 DEF Field
<1>3. CASE i = 1
  <2>1. Field(r, i) = r.inter
    BY <1>3 DEF Field
  <2> QED BY <2>1, <1>1
<1>4. CASE i # 1 /\ ~(i <= NumCells + 1)
  <2>1. Field(r, i) = 1 \/ Field(r, i) = r.motion
    BY <1>4 DEF Field
  <2>2. r.motion \in Nat
    BY <1>1
  <2> QED BY <2>1, <2>2
<1> QED BY <1>2, <1>3, <1>4

\* The invariant holds before the first CTU.
LEMMA InitIInv == Init => IInv
  BY StreamAssumption
  DEF RecLen, Init, IInv, TypeOK, Chained, Disjoint, WriterAt, Written, ReaderAt, LoadedIsStored, Channels

\* Compressing a CTU appends its records behind the complete ones.
LEMMA CompressIInv ==
  ASSUME IInv, Compress PROVE IInv'
<1> USE StreamAssumption DEF Channels
<1>0. /\ plan \in AllPlans /\ nextCtu \in 1..NumCtus /\ plan.intra[nextCtu] \in BOOLEAN
      /\ IsInter(nextCtu) \in {0, 1}
      /\ plan.intra[nextCtu] => IsInter(nextCtu) = 0
  BY DEF IInv, TypeOK, Compress, AllPlans, IsInter
<1>1. PICK luma \in [1..NumCells -> CellValues], chroma \in [1..NumCells -> CellValues],
           mv \in Motions :
        LET lumaRec   == [ctu |-> nextCtu, chan |-> "luma",
                          inter |-> IsInter(nextCtu), cells |-> luma,
                          motion |-> IF plan.intra[nextCtu] THEN 0 ELSE mv,
                          at |-> Len(file) + 1]
            chromaRec == [ctu |-> nextCtu, chan |-> "chroma", inter |-> 0,
                          cells |-> chroma, motion |-> 0,
                          at |-> Len(file) + 1 + RecLen(0)]
        IN stored' = IF plan.intra[nextCtu]
                       THEN Append(Append(stored, lumaRec), chromaRec)
                       ELSE Append(stored, lumaRec)
  BY DEF Compress
<1> DEFINE lumaRec   == [ctu |-> nextCtu, chan |-> "luma",
                         inter |-> IsInter(nextCtu), cells |-> luma,
                         motion |-> IF plan.intra[nextCtu] THEN 0 ELSE mv,
                         at |-> Len(file) + 1]
           chromaRec == [ctu |-> nextCtu, chan |-> "chroma", inter |-> 0,
                         cells |-> chroma, motion |-> 0,
                         at |-> Len(file) + 1 + RecLen(0)]
<1>2. lumaRec \in Record /\ chromaRec \in Record
  <2>0. Len(file) \in Nat
    BY DEF IInv, TypeOK
  <2>1. Len(file) + 1 \in Nat \ {0} /\ Len(file) + 1 + RecLen(0) \in Nat \ {0}
    BY <2>0 DEF RecLen
  <2>2. (IF plan.intra[nextCtu] THEN 0 ELSE mv) \in Motions /\ 0 \in Motions
    OBVIOUS
  <2> DEFINE m == IF plan.intra[nextCtu] THEN 0 ELSE mv
  <2>3. lumaRec \in Record
    <3>1. m \in Motions
      BY <2>2
    <3>2. lumaRec = [ctu |-> nextCtu, chan |-> "luma", inter |-> IsInter(nextCtu),
                     cells |-> luma, motion |-> m, at |-> Len(file) + 1]
      OBVIOUS
    <3> HIDE DEF m, lumaRec
    <3> QED BY <1>0, <2>1, <3>1, <3>2 DEF Record
  <2>4. chromaRec \in Record
    BY <1>0, <2>1, <2>2 DEF Record
  <2> QED BY <2>3, <2>4
<1>3. stored \in Seq(Record) /\ file \in Seq(Nat) /\ Len(file) \in Nat /\ Len(stored) \in Nat
  BY DEF IInv, TypeOK
<1>4. /\ stored' \in Seq(Record)
      /\ Len(stored') = Len(stored) + (IF plan.intra[nextCtu] THEN 2 ELSE 1)
      /\ \A k \in 1..Len(stored) : stored'[k] = stored[k]
      /\ stored'[Len(stored) + 1] = lumaRec
      /\ plan.intra[nextCtu] => stored'[Len(stored) + 2] = chromaRec
  BY <1>1, <1>2, <1>3, <1>0
<1> HIDE DEF lumaRec, chromaRec
<1>5. UNCHANGED <<plan, file, running, nextRec, nextFld, pos, curCtu, curChan, loaded>>
      /\ nextCtu' = nextCtu + 1 /\ nextRec = Len(stored) + 1 /\ running
  BY DEF Compress, rvars
<1>6. TypeOK'
  BY <1>0, <1>3, <1>4, <1>5 DEF IInv, TypeOK
<1>7. /\ lumaRec.at = Len(file) + 1 /\ lumaRec.ctu = nextCtu /\ lumaRec.chan = "luma"
      /\ RecordOK(lumaRec) /\ lumaRec.inter = IsInter(nextCtu) /\ lumaRec.inter \in {0, 1}
      /\ chromaRec.at = Len(file) + 1 + RecLen(0) /\ chromaRec.ctu = nextCtu
      /\ chromaRec.chan = "chroma" /\ chromaRec.inter = 0 /\ chromaRec.motion = 0
  BY <1>0 DEF lumaRec, chromaRec, RecordOK, IsInter
<1>8. Chained'
  <2>1. \A k \in 1..Len(stored') : RecordOK(stored'[k])
    <3> TAKE k \in 1..Len(stored')
    <3>1. CASE k \in 1..Len(stored)
      BY <3>1, <1>4 DEF IInv, Chained
    <3>2. CASE k = Len(stored) + 1
      BY <3>2, <1>4, <1>7
    <3>3. CASE plan.intra[nextCtu] /\ k = Len(stored) + 2
      BY <3>3, <1>0, <1>4, <1>7 DEF RecordOK, IsInter
    <3> QED BY <3>1, <3>2, <3>3, <1>3, <1>4
  <2>2. Len(stored') > 0 => stored'[1].at = 1 /\ stored'[1].ctu = 1 /\ stored'[1].chan = "luma"
    <3>1. CASE Len(stored) = 0
      BY <3>1, <1>4, <1>5, <1>7 DEF IInv, Chained, WriterAt
    <3>2. CASE Len(stored) > 0
      <4>1. 1 \in 1..Len(stored)
        BY <3>2, <1>3
      <4> QED BY <4>1, <3>2, <1>4 DEF IInv, Chained
    <3> QED BY <3>1, <3>2, <1>3
  <2>3. ASSUME NEW k \in 1..Len(stored'), k < Len(stored')
        PROVE  /\ stored'[k+1].at = stored'[k].at + RecLen(stored'[k].inter)
               /\ stored'[k+1].ctu = AfterCtu(stored'[k].ctu, stored'[k].chan)
               /\ stored'[k+1].chan = AfterChan(stored'[k].ctu, stored'[k].chan)
    <3>1. CASE k < Len(stored)
      <4>1. k \in 1..Len(stored) /\ k + 1 \in 1..Len(stored)
        BY <3>1, <1>3
      <4> QED BY <4>1, <3>1, <1>4 DEF IInv, Chained
    <3>2. CASE k = Len(stored)
      <4>1. k \in 1..Len(stored)
        BY <3>2, <1>3, <2>3
      <4>2. stored'[k] = stored[k] /\ stored'[k+1] = lumaRec
        BY <4>1, <3>2, <1>4
      <4> QED BY <4>1, <4>2, <3>2, <1>3, <1>5, <1>7 DEF IInv, Chained, WriterAt
    <3>3. CASE k = Len(stored) + 1
      <4>1. plan.intra[nextCtu] /\ stored'[k] = lumaRec /\ stored'[k+1] = chromaRec
        BY <3>3, <2>3, <1>3, <1>4
      <4> QED BY <4>1, <1>0, <1>7 DEF AfterCtu, AfterChan
    <3> QED BY <3>1, <3>2, <3>3, <1>3, <1>4, <2>3
  <2>4. /\ nextCtu' = AfterCtu(stored'[Len(stored')].ctu, stored'[Len(stored')].chan)
        /\ "luma" = AfterChan(stored'[Len(stored')].ctu, stored'[Len(stored')].chan)
    BY <1>0, <1>3, <1>4, <1>5, <1>7 DEF AfterCtu, AfterChan
  <2>5. Len(stored') # 0
    BY <1>3, <1>4
  <2> QED BY <2>1, <2>2, <2>3, <2>4, <2>5, <1>5 DEF Chained, AfterCtu, AfterChan, RecLen, RecordOK, IsInter
<1>9. WriterAt'
  <2>1. nextRec <= Len(stored') /\ nextRec = Len(stored) + 1 /\ stored'[nextRec] = lumaRec
    BY <1>3, <1>4, <1>5
  <2>2. nextFld = 1
    BY <1>3, <1>5 DEF IInv, WriterAt
  <2>3. RecLen(lumaRec.inter) \in Nat /\ RecLen(lumaRec.inter) >= 1
    BY <1>0, <1>7 DEF RecLen
  <2> QED BY <2>1, <2>2, <2>3, <1>3, <1>5, <1>7 DEF WriterAt, RecLen
<1>10. Written'
  <2> SUFFICES ASSUME NEW k \in 1..Len(stored')
               PROVE  /\ \A i \in 1..RecLen(stored'[k].inter) :
                           stored'[k].at + i - 1 <= Len(file) =>
                             file[stored'[k].at + i - 1] = Field(stored'[k], i)
                      /\ k < nextRec => stored'[k].at + RecLen(stored'[k].inter) <= Len(file) + 1
    BY <1>5 DEF Written
  <2>1. CASE k \in 1..Len(stored)
    BY <2>1, <1>4, <1>5 DEF IInv, Written
  <2>2. CASE k > Len(stored)
    <3>0. /\ k = Len(stored) + 1 \/ (plan.intra[nextCtu] /\ k = Len(stored) + 2)
          /\ Len(file) + 1 + RecLen(0) > Len(file)
          /\ Len(file) + 1 + RecLen(0) \in Nat
      BY <2>2, <1>3, <1>4 DEF RecLen
    <3>1. stored'[k].at > Len(file) /\ stored'[k].at \in Nat
      BY <3>0, <1>3, <1>4, <1>7
    <3>2. k \in Nat /\ nextRec \in Nat /\ k >= nextRec /\ Len(file) \in Nat
      BY <1>3, <1>5, <2>2
    <3>3. ASSUME NEW i \in 1..RecLen(stored'[k].inter)
          PROVE  ~(stored'[k].at + i - 1 <= Len(file))
      BY <3>1, <3>2
    <3> QED BY <3>2, <3>3
  <2> QED BY <2>1, <2>2, <1>3, <1>4
<1>11. ReaderAt' /\ LoadedIsStored'
  <2>1. loaded' = <<>> /\ pos' = 1 /\ curCtu' = 1 /\ curChan' = "luma" /\ Len(loaded') = 0
    BY <1>5 DEF IInv, ReaderAt
  <2>2. stored'[1].at = 1 /\ stored'[1].ctu = 1 /\ stored'[1].chan = "luma"
    BY <1>8, <1>3, <1>4 DEF Chained
  <2> QED BY <2>1, <2>2 DEF ReaderAt, LoadedIsStored
<1>12. Disjoint'
  <2> SUFFICES ASSUME NEW j \in 1..Len(stored'), NEW k \in 1..Len(stored'), j < k
               PROVE  stored'[j].at + RecLen(stored'[j].inter) <= stored'[k].at
    BY DEF Disjoint, RecLen
  <2>1. CASE j \in 1..Len(stored) /\ k \in 1..Len(stored)
    BY <2>1, <1>4 DEF IInv, Disjoint
  <2>2. CASE j \in 1..Len(stored) /\ k > Len(stored)
    <3>1. stored[j].at + RecLen(stored[j].inter) <= Len(file) + 1
      <4>1. j < nextRec
        BY <2>2, <1>5, <1>3
      <4> QED BY <4>1, <2>2 DEF IInv, Written
    <3>2. stored'[k].at = Len(file) + 1 \/ stored'[k].at = Len(file) + 1 + RecLen(0)
      <4>1. k = Len(stored) + 1 \/ (plan.intra[nextCtu] /\ k = Len(stored) + 2)
        BY <2>2, <1>3, <1>4
      <4> QED BY <4>1, <1>4, <1>7
    <3>3. stored[j] \in Record /\ stored'[j] = stored[j]
      BY <2>2, <1>3, <1>4
    <3>4. stored[j].at + RecLen(stored[j].inter) \in Nat
      BY <3>3 DEF Record, RecLen
    <3> QED BY <3>1, <3>2, <3>3, <3>4, <1>3 DEF RecLen
  <2>3. CASE j > Len(stored)
    <3>1. /\ plan.intra[nextCtu] /\ stored'[j] = lumaRec /\ stored'[k] = chromaRec
      <4>1. j = Len(stored) + 1 /\ k = Len(stored) + 2 /\ plan.intra[nextCtu]
        BY <2>3, <1>0, <1>3, <1>4
      <4> QED BY <4>1, <1>4
    <3> QED BY <3>1, <1>0, <1>3, <1>7 DEF RecLen
  <2> QED BY <2>1, <2>2, <2>3, <1>3
<1> QED BY <1>6, <1>8, <1>9, <1>10, <1>11, <1>12 DEF IInv

\* Writing one value keeps the file a prefix of the stored records.
LEMMA WriteFieldIInv ==
  ASSUME IInv, WriteField PROVE IInv'
<1> USE StreamAssumption DEF Channels
<1> DEFINE rec == stored[nextRec]
<1>1. /\ running /\ nextRec \in 1..Len(stored) /\ rec \in Record
      /\ rec.inter \in {0, 1} /\ RecLen(rec.inter) \in Nat /\ rec.at \in Nat \ {0}
      /\ nextFld \in 1..RecLen(rec.inter)
      /\ Len(file) + 1 = rec.at + nextFld - 1
  <2>1. nextRec \in 1..Len(stored) /\ rec \in Record /\ running
    BY DEF IInv, TypeOK, WriteField
  <2>2. /\ rec.inter \in {0, 1} /\ RecLen(rec.inter) \in Nat /\ rec.at \in Nat \ {0}
    BY <2>1 DEF Record, RecLen
  <2>3. /\ nextFld \in Nat \ {0} /\ nextFld <= RecLen(rec.inter)
        /\ Len(file) + 1 = rec.at + nextFld - 1
    BY <2>1 DEF IInv, TypeOK, WriterAt
  <2> QED BY <2>1, <2>2, <2>3
<1>2. /\ stored \in Seq(Record) /\ file \in Seq(Nat)
      /\ Len(file) \in Nat /\ Len(stored) \in Nat
  BY DEF IInv, TypeOK
<1>3. Field(rec, nextFld) \in Nat
  BY <1>1, FieldType
<1>4. /\ file' \in Seq(Nat)
      /\ Len(file') = Len(file) + 1
      /\ \A p \in 1..Len(file) : file'[p] = file[p]
      /\ file'[Len(file) + 1] = Field(rec, nextFld)
  BY <1>2, <1>3 DEF WriteField
<1>5. /\ UNCHANGED <<plan, running, stored, nextCtu, pos, curCtu, curChan, loaded>>
      /\ \/ /\ nextFld < RecLen(rec.inter)
            /\ nextFld' = nextFld + 1 /\ nextRec' = nextRec
         \/ /\ nextFld = RecLen(rec.inter)
            /\ nextFld' = 1 /\ nextRec' = nextRec + 1
  BY <1>1 DEF WriteField, rvars
<1> HIDE DEF rec
<1>14. Len(file') = Len(file) + 1 /\ Len(file) \in Nat /\ nextFld \in Nat /\ rec.at \in Nat
      /\ Len(file) + 1 = rec.at + nextFld - 1 /\ rec.inter \in {0, 1}
  BY <1>1, <1>2, <1>4
<1>6. TypeOK'
  <2>1. nextFld' \in 1..NumCells + 3 /\ nextRec' \in 1..Len(stored) + 1
    <3>1. RecLen(rec.inter) <= NumCells + 3
      BY <1>1 DEF RecLen
    <3> QED BY <3>1, <1>1, <1>2, <1>5, SMTT(20)
  <2> QED BY <2>1, <1>4, <1>5 DEF IInv, TypeOK
<1>7. Chained'
  BY <1>5 DEF IInv, Chained, AfterCtu, AfterChan, RecLen, RecordOK, IsInter
<1>8. \A k \in 1..Len(stored) :
        /\ stored[k].at \in Nat \ {0} /\ stored[k].inter \in {0, 1}
        /\ RecLen(stored[k].inter) \in Nat /\ RecLen(stored[k].inter) >= 1
  <2> TAKE k \in 1..Len(stored)
  <2>1. stored[k] \in Record
    BY <1>2
  <2> QED BY <2>1 DEF Record, RecLen
<1>9. nextRec < Len(stored) =>
        stored[nextRec + 1].at = rec.at + RecLen(rec.inter)
  BY <1>1, <1>2 DEF IInv, Chained, rec
<1>10. WriterAt'
  <2>1. CASE nextRec' = nextRec
    <3>1. nextFld < RecLen(rec.inter) /\ nextFld' = nextFld + 1
      BY <2>1, <1>1, <1>5
    <3>2. Len(file') + 1 = rec.at + nextFld' - 1 /\ nextFld' <= RecLen(rec.inter)
      BY <3>1, <1>14 DEF RecLen
    <3>3. nextRec # Len(stored) + 1
      BY <1>1, <1>2
    <3> QED BY <2>1, <3>2, <3>3, <1>5 DEF WriterAt, RecLen, rec
  <2>2. CASE nextRec' = nextRec + 1 /\ nextRec < Len(stored)
    <3>1. nextRec + 1 \in 1..Len(stored)
      BY <2>2, <1>1, <1>2
    <3>2. /\ nextFld' = 1 /\ nextFld = RecLen(rec.inter)
          /\ nextRec' <= Len(stored) /\ nextRec' # Len(stored) + 1
      BY <2>2, <1>1, <1>2, <1>5
    <3>3. Len(file') + 1 = stored[nextRec + 1].at
      BY <3>2, <2>2, <1>14, <1>9 DEF RecLen
    <3>4. 1 <= RecLen(stored[nextRec + 1].inter) /\ stored[nextRec + 1].at \in Nat
      BY <3>1, <1>8
    <3> QED BY <2>2, <3>2, <3>3, <3>4, <1>5 DEF WriterAt, RecLen
  <2>3. CASE nextRec' = nextRec + 1 /\ nextRec = Len(stored)
    <3>1. nextFld = RecLen(rec.inter) /\ nextFld' = 1
      BY <2>3, <1>1, <1>5
    <3>2. Len(file') + 1 = rec.at + RecLen(rec.inter)
      BY <3>1, <1>14 DEF RecLen
    <3>3. ~(nextRec' <= Len(stored)) /\ Len(stored) > 0
      BY <2>3, <1>1, <1>2
    <3> QED BY <2>3, <3>1, <3>2, <3>3, <1>5 DEF WriterAt, RecLen, rec
  <2> QED BY <2>1, <2>2, <2>3, <1>1, <1>2, <1>5
<1>11. Written'
  <2> SUFFICES ASSUME NEW k \in 1..Len(stored)
               PROVE  /\ \A i \in 1..RecLen(stored[k].inter) :
                           stored[k].at + i - 1 <= Len(file') =>
                             file'[stored[k].at + i - 1] = Field(stored[k], i)
                      /\ k < nextRec' => stored[k].at + RecLen(stored[k].inter) <= Len(file') + 1
    BY <1>5 DEF Written, RecLen, Field
  <2>1. /\ stored[k].at \in Nat \ {0} /\ stored[k].inter \in {0, 1}
        /\ RecLen(stored[k].inter) \in Nat /\ k \in Nat
    BY <1>8
  <2>2. /\ \A i \in 1..RecLen(stored[k].inter) :
             stored[k].at + i - 1 <= Len(file) =>
               file[stored[k].at + i - 1] = Field(stored[k], i)
        /\ k < nextRec => stored[k].at + RecLen(stored[k].inter) <= Len(file) + 1
    BY DEF IInv, Written
  <2>3. ASSUME NEW i \in 1..RecLen(stored[k].inter), stored[k].at + i - 1 <= Len(file')
        PROVE  file'[stored[k].at + i - 1] = Field(stored[k], i)
    <3>1. CASE stored[k].at + i - 1 <= Len(file)
      <4>1. stored[k].at + i - 1 \in 1..Len(file)
        BY <3>1, <2>1, <1>2
      <4> QED BY <4>1, <3>1, <2>2, <1>4
    <3>2. CASE stored[k].at + i - 1 = Len(file) + 1
      <4>1. ~(k < nextRec)
        BY <3>2, <2>1, <2>2, <1>2
      <4>2. CASE k = nextRec
        <5>1. i = nextFld
          BY <4>2, <3>2, <2>1, <1>1, <1>2 DEF rec
        <5> QED BY <5>1, <4>2, <3>2, <1>4 DEF rec
      <4>3. CASE k > nextRec
        <5>1. rec.at + RecLen(rec.inter) <= stored[k].at
          BY <4>3, <1>1 DEF IInv, Disjoint, rec
        <5> QED BY <5>1, <3>2, <2>1, <1>1, <1>2, SMTT(20)
      <4> QED BY <4>1, <4>2, <4>3, <2>1, <1>1
    <3> QED BY <3>1, <3>2, <2>1, <2>3, <1>2, <1>4, SMTT(20)
  <2>4. ASSUME k < nextRec'
        PROVE  stored[k].at + RecLen(stored[k].inter) <= Len(file') + 1
    <3>1. CASE k < nextRec
      BY <3>1, <2>1, <2>2, <1>2, <1>4
    <3>2. CASE k = nextRec
      <4>1. nextFld = RecLen(rec.inter)
        BY <3>2, <2>4, <1>1, <1>5
      <4> QED BY <4>1, <3>2, <1>1, <1>2, <1>4 DEF rec
    <3> QED BY <3>1, <3>2, <2>1, <2>4, <1>1, <1>5
  <2> QED BY <2>3, <2>4
<1>12. Disjoint'
  BY <1>5 DEF IInv, Disjoint, RecLen
<1>13. ReaderAt' /\ LoadedIsStored'
  <2>1. Len(loaded) = 0 /\ loaded = <<>> /\ pos = 1 /\ curCtu = 1 /\ curChan = "luma"
    BY <1>1 DEF IInv, ReaderAt
  <2>2. stored[1].at = 1 /\ stored[1].ctu = 1 /\ stored[1].chan = "luma"
    BY <1>1, <1>2 DEF IInv, Chained
  <2> QED BY <2>1, <2>2, <1>5 DEF ReaderAt, LoadedIsStored
<1> QED BY <1>6, <1>7, <1>10, <1>11, <1>12, <1>13 DEF IInv

\* The end of the writing run leaves the file as it is.
LEMMA StopIInv ==
  ASSUME IInv, Stop PROVE IInv'
<1>1. /\ UNCHANGED <<plan, file, stored, nextCtu, nextRec, nextFld, pos, curCtu, curChan, loaded>>
      /\ running' \in BOOLEAN /\ ~running'
  BY DEF Stop, wvars, rvars
<1>2. TypeOK /\ Chained /\ Disjoint /\ WriterAt /\ Written /\ ReaderAt /\ LoadedIsStored
  BY DEF IInv
<1>3. TypeOK'
  BY <1>1, <1>2 DEF TypeOK
<1>4. Chained'
  BY <1>1, <1>2 DEF Chained, AfterCtu, AfterChan, RecordOK, IsInter
<1>5. Disjoint'
  BY <1>1, <1>2 DEF Disjoint
<1>6. WriterAt'
  BY <1>1, <1>2 DEF WriterAt
<1>7. Written'
  BY <1>1, <1>2 DEF Written
<1>8. ReaderAt'
  BY <1>1, <1>2 DEF ReaderAt
<1>9. LoadedIsStored'
  BY <1>1, <1>2 DEF LoadedIsStored
<1> QED BY <1>3, <1>4, <1>5, <1>6, <1>7, <1>8, <1>9 DEF IInv

\* Loading a CTU returns the record stored for it, if the writer finished it.
LEMMA LoadCtuIInv ==
  ASSUME Agreement, IInv, LoadCtu PROVE IInv'
<1> USE StreamAssumption DEF Channels
<1> DEFINE n   == Len(loaded) + 1
           b   == IF ReadAt(pos) = 0 THEN 0 ELSE 1
           new == [ctu |-> curCtu, chan |-> curChan, inter |-> b,
                   cells |-> [i \in 1..NumCells |-> ReadAt(pos + i)],
                   motion |-> IF b = 1 THEN ReadAt(pos + NumCells + 2) ELSE 0,
                   at |-> pos]
           Read == [ctu : 1..NumCtus, chan : Channels, inter : {0, 1},
                    cells : [1..NumCells -> Nat], motion : Nat, at : Nat \ {0}]
<1>1. /\ UNCHANGED <<plan, file, running, stored, nextCtu, nextRec, nextFld>>
      /\ loaded' = Append(loaded, new) /\ pos' = pos + RecLen(b)
      /\ ~running /\ curCtu <= NumCtus
  BY DEF LoadCtu, wvars
<1>2. /\ loaded \in Seq(Read) /\ file \in Seq(Nat) /\ stored \in Seq(Record)
      /\ pos \in Nat \ {0} /\ curCtu \in 1..NumCtus /\ curChan \in Channels
      /\ nextRec \in 1..Len(stored) + 1 /\ Len(stored) \in Nat
  BY <1>1 DEF IInv, TypeOK
<1>3. \A p \in Nat \ {0} : ReadAt(p) \in Nat
  BY <1>2 DEF ReadAt
<1>4. b \in {0, 1} /\ pos' \in Nat \ {0}
  BY <1>1, <1>2 DEF RecLen
<1>5. new \in Read
  <2>1. [i \in 1..NumCells |-> ReadAt(pos + i)] \in [1..NumCells -> Nat]
    <3>1. \A i \in 1..NumCells : pos + i \in Nat \ {0}
      BY <1>2
    <3> QED BY <3>1, <1>3
  <2>2. ReadAt(pos + NumCells + 2) \in Nat
    BY <1>2, <1>3
  <2> DEFINE m == IF b = 1 THEN ReadAt(pos + NumCells + 2) ELSE 0
             c == [i \in 1..NumCells |-> ReadAt(pos + i)]
  <2>3. m \in Nat /\ c \in [1..NumCells -> Nat]
    BY <2>1, <2>2
  <2>4. new = [ctu |-> curCtu, chan |-> curChan, inter |-> b, cells |-> c,
               motion |-> m, at |-> pos]
    OBVIOUS
  <2> HIDE DEF m, c, b
  <2>5. [ctu |-> curCtu, chan |-> curChan, inter |-> b, cells |-> c,
         motion |-> m, at |-> pos] \in Read
    BY <2>3, <1>2, <1>4
  <2> QED BY <2>4, <2>5
<1> HIDE DEF new, Read, b
<1>6. /\ loaded' \in Seq(Read) /\ Len(loaded') = n /\ n \in Nat \ {0}
      /\ \A k \in 1..Len(loaded) : loaded'[k] = loaded[k]
      /\ loaded'[n] = new
  BY <1>1, <1>2, <1>5
<1>7. /\ curCtu' \in 1..NumCtus + 1 /\ curChan' \in Channels
      /\ curCtu' = AfterCtu(curCtu, curChan) /\ curChan' = AfterChan(curCtu, curChan)
  <2>1. plan.intra[curCtu] => LoadsChroma(curCtu)
    BY <1>2 DEF Agreement, LoadsChroma, IInv, TypeOK
  <2> QED BY <2>1, <1>2 DEF LoadCtu, LoadsChroma, AfterCtu, AfterChan
<1>8. TypeOK'
  BY <1>1, <1>2, <1>4, <1>6, <1>7 DEF IInv, TypeOK, Read
<1>9. Chained' /\ Disjoint' /\ WriterAt' /\ Written'
  <2>1. Chained'
    BY <1>1 DEF IInv, Chained, AfterCtu, AfterChan, RecordOK, IsInter, RecLen
  <2>2. Disjoint' /\ WriterAt'
    BY <1>1 DEF IInv, Disjoint, WriterAt, RecLen
  <2>3. Written'
    BY <1>1 DEF IInv, Written
  <2> QED BY <2>1, <2>2, <2>3
<1>10. ASSUME n < nextRec PROVE new = stored[n]
  <2> DEFINE r == stored[n]
  <2>1. /\ n \in 1..Len(stored) /\ r \in Record /\ r.inter \in {0, 1}
        /\ r.at \in Nat \ {0} /\ r.cells \in [1..NumCells -> CellValues]
        /\ r.motion \in Motions
    <3>1. n \in 1..Len(stored) /\ r \in Record
      BY <1>2, <1>6, <1>10
    <3> QED BY <3>1 DEF Record
  <2>2. pos = r.at /\ curCtu = r.ctu /\ curChan = r.chan
    BY <2>1, <1>10, <1>2, <1>6 DEF IInv, ReaderAt
  <2>3. \A i \in 1..RecLen(r.inter) : ReadAt(r.at + i - 1) = Field(r, i)
    <3> TAKE i \in 1..RecLen(r.inter)
    <3>1. r.at + RecLen(r.inter) <= Len(file) + 1
      BY <2>1, <1>10 DEF IInv, Written
    <3>2. r.at + i - 1 <= Len(file)
      <4>1. Len(file) \in Nat /\ i \in Nat /\ i <= RecLen(r.inter) /\ r.at \in Nat
        BY <1>2, <2>1 DEF RecLen
      <4> QED BY <4>1, <3>1, <2>1 DEF RecLen
    <3> QED BY <3>2, <2>1 DEF IInv, Written, ReadAt
  <2> HIDE DEF r
  <2>4. ReadAt(pos) = r.inter
    <3>1. 1 \in 1..RecLen(r.inter) /\ r.at + 1 - 1 = r.at
      BY <2>1 DEF RecLen
    <3>2. ReadAt(r.at + 1 - 1) = Field(r, 1)
      BY <3>1, <2>3
    <3> QED BY <3>1, <3>2, <2>2 DEF Field
  <2>5. b = r.inter
    BY <2>1, <2>4 DEF b
  <2>6. \A i \in 1..NumCells : ReadAt(pos + i) = r.cells[i]
    <3> TAKE i \in 1..NumCells
    <3>1. i + 1 \in 1..RecLen(r.inter) /\ r.at + (i + 1) - 1 = r.at + i
      BY <2>1 DEF RecLen
    <3>2. ReadAt(r.at + (i + 1) - 1) = Field(r, i + 1)
      BY <3>1, <2>3
    <3>3. Field(r, i + 1) = r.cells[i]
      BY DEF Field
    <3> QED BY <3>1, <3>2, <3>3, <2>2
  <2>7. [i \in 1..NumCells |-> ReadAt(pos + i)] = r.cells
    BY <2>1, <2>6
  <2>8. CASE r.inter = 1
    <3>1. /\ NumCells + 3 \in 1..RecLen(r.inter)
          /\ r.at + (NumCells + 3) - 1 = pos + NumCells + 2
      BY <2>1, <2>2, <2>8 DEF RecLen
    <3>2. ReadAt(r.at + (NumCells + 3) - 1) = Field(r, NumCells + 3)
      BY <3>1, <2>3
    <3>3. Field(r, NumCells + 3) = r.motion
      BY DEF Field
    <3>4. (IF b = 1 THEN ReadAt(pos + NumCells + 2) ELSE 0) = r.motion
      BY <3>1, <3>2, <3>3, <2>5, <2>8
    <3> QED BY <3>4, <2>1, <2>2, <2>5, <2>7 DEF new, r, Record
  <2>9. CASE r.inter = 0
    <3>1. r.motion = 0
      BY <2>1, <2>9 DEF IInv, Chained, RecordOK, r
    <3>2. (IF b = 1 THEN ReadAt(pos + NumCells + 2) ELSE 0) = r.motion
      BY <3>1, <2>5, <2>9
    <3> QED BY <3>2, <2>1, <2>2, <2>5, <2>7 DEF new, r, Record
  <2> QED BY <2>1, <2>8, <2>9
<1>11. LoadedIsStored'
  <2> SUFFICES ASSUME NEW k \in 1..Len(loaded'), k < nextRec PROVE loaded'[k] = stored[k]
    BY <1>1 DEF LoadedIsStored
  <2>1. CASE k = n
    BY <2>1, <1>6, <1>10
  <2>2. CASE k \in 1..Len(loaded)
    BY <2>2, <1>6 DEF IInv, LoadedIsStored
  <2> QED BY <2>1, <2>2, <1>6, <1>2
<1>12. ReaderAt'
  <2> SUFFICES ASSUME n + 1 <= Len(stored), n + 1 <= nextRec
               PROVE  /\ pos' = stored[n+1].at /\ curCtu' = stored[n+1].ctu
                      /\ curChan' = stored[n+1].chan
    BY <1>1, <1>6 DEF ReaderAt
  <2>1. n < nextRec /\ n \in 1..Len(stored) /\ n < Len(stored)
    BY <1>2, <1>6
  <2>2. new = stored[n]
    BY <2>1, <1>10
  <2>3. stored[n].at = pos /\ stored[n].inter = b /\ stored[n].ctu = curCtu /\ stored[n].chan = curChan
    BY <2>2 DEF new
  <2> QED BY <2>1, <2>3, <1>1, <1>7 DEF IInv, Chained
<1> QED BY <1>8, <1>9, <1>11, <1>12 DEF IInv

\* Every state of the two runs satisfies the strengthened invariant.
THEOREM StreamInvariant == ASSUME Agreement PROVE Spec => []IInv
<1>1. IInv /\ [Next]_vars => IInv'
  <2> SUFFICES ASSUME IInv, [Next]_vars PROVE IInv'
    OBVIOUS
  <2>1. CASE UNCHANGED vars
    BY <2>1 DEF vars, wvars, rvars, IInv, TypeOK, Chained, Disjoint, WriterAt, Written,
                ReaderAt, LoadedIsStored, AfterCtu, AfterChan, RecordOK, IsInter, RecLen, Field
  <2> QED BY <2>1, CompressIInv, WriteFieldIInv, StopIInv, LoadCtuIInv DEF Next
<1> QED BY <1>1, InitIInv, PTL DEF Spec

\* The positions and CTU numbers of writer and reader stay in range, and every
\* record of the file is a record (EncSlice::encodeSlice, PartitionManager).
THEOREM StreamTypeOK == ASSUME Agreement PROVE Spec => []TypeOK
  BY StreamInvariant, PTL DEF IInv

\* Whatever the sizes and wherever the writing run stops, the partition loaded
\* for a CTU and a channel is the one stored for them.
THEOREM LoadedIsStoredHolds == ASSUME Agreement PROVE Spec => []LoadedIsStored
  BY StreamInvariant, PTL DEF IInv

\* A reader that is behind the record the writer was in is behind the end of the file.
PastEnd ==
  Len(loaded) + 1 > nextRec \/ Len(loaded) + 1 > Len(stored) => pos > Len(file)

\* No record is loaded while the writing run is alive, so what is written while it is
\* cannot be a tail of something loaded.
LEMMA WritingTornTail ==
  ASSUME IInv, PastEnd, running,
         Compress \/ WriteField \/ Stop
  PROVE  PastEnd' /\ TornTail'
<1>1. /\ loaded = <<>> /\ loaded' = <<>> /\ pos = 1 /\ pos' = 1 /\ Len(loaded) = 0
      /\ file \in Seq(Nat) /\ stored \in Seq(Record) /\ nextRec \in 1..Len(stored) + 1
  BY DEF IInv, TypeOK, ReaderAt, Compress, WriteField, Stop, rvars
<1>2. IInv'
  BY CompressIInv, WriteFieldIInv, StopIInv
<1>3. /\ file' \in Seq(Nat) /\ stored' \in Seq(Record) /\ nextRec' \in 1..Len(stored') + 1
      /\ nextRec' = Len(stored') + 1 /\ Len(stored') = 0 => Len(file') = 0
  BY <1>2 DEF IInv, TypeOK, WriterAt
<1>4. PastEnd'
  BY <1>1, <1>3 DEF PastEnd
<1> QED BY <1>1, <1>4 DEF TornTail

\* One load more: behind the end of the file all that is read is zero, and in the torn
\* record all that the writer had not reached.
LEMMA LoadCtuTornTail ==
  ASSUME IInv, PastEnd, TornTail, LoadCtu
  PROVE  PastEnd' /\ TornTail'
<1> USE StreamAssumption
<1> DEFINE n == Len(loaded) + 1
           b == IF ReadAt(pos) = 0 THEN 0 ELSE 1
<1>1. /\ UNCHANGED <<plan, file, running, stored, nextCtu, nextRec, nextFld>>
      /\ pos' = pos + RecLen(b)
      /\ Len(loaded') = n /\ n \in Nat \ {0}
      /\ \A k \in 1..Len(loaded) : loaded'[k] = loaded[k]
      /\ loaded'[n].inter = b
      /\ \A i \in 1..NumCells : loaded'[n].cells[i] = ReadAt(pos + i)
  <2>1. loaded \in Seq([ctu : 1..NumCtus, chan : Channels, inter : {0, 1},
                        cells : [1..NumCells -> Nat], motion : Nat, at : Nat \ {0}])
    BY DEF IInv, TypeOK
  <2> DEFINE new == [ctu |-> curCtu, chan |-> curChan, inter |-> b,
                     cells |-> [i \in 1..NumCells |-> ReadAt(pos + i)],
                     motion |-> IF b = 1 THEN ReadAt(pos + NumCells + 2) ELSE 0,
                     at |-> pos]
  <2>2. /\ loaded' = Append(loaded, new) /\ new.inter = b
        /\ new.cells = [i \in 1..NumCells |-> ReadAt(pos + i)]
    BY DEF LoadCtu
  <2> HIDE DEF new
  <2>3. Len(loaded') = n /\ loaded'[n] = new /\ \A k \in 1..Len(loaded) : loaded'[k] = loaded[k]
    BY <2>1, <2>2
  <2> QED BY <2>1, <2>2, <2>3 DEF LoadCtu, wvars
<1>2. /\ file \in Seq(Nat) /\ Len(file) \in Nat /\ stored \in Seq(Record) /\ Len(stored) \in Nat
      /\ pos \in Nat \ {0} /\ nextRec \in 1..Len(stored) + 1 /\ nextFld \in Nat \ {0}
      /\ b \in {0, 1} /\ RecLen(b) \in Nat \ {0} /\ NumCells \in Nat
  BY DEF IInv, TypeOK, RecLen
<1> HIDE DEF b
<1>0. n > nextRec \/ n > Len(stored) => pos > Len(file)
  BY DEF PastEnd
<1>00. n <= Len(stored) /\ n <= nextRec => pos = stored[n].at
  BY DEF IInv, ReaderAt
<1>01. n = Len(loaded) + 1 /\ Len(loaded) \in Nat
  BY DEF IInv, TypeOK
<1> HIDE DEF n
<1>3. \A p \in Nat : p > Len(file) => ReadAt(p) = 0
  BY <1>2 DEF ReadAt
<1>4. ASSUME n <= Len(stored), n <= nextRec
      PROVE  /\ pos = stored[n].at /\ stored[n].inter \in {0, 1}
             /\ stored[n].cells \in [1..NumCells -> CellValues]
             /\ RecLen(stored[n].inter) = NumCells + 2 + stored[n].inter
             /\ \A i \in 1..RecLen(stored[n].inter) :
                  pos + i - 1 <= Len(file) => ReadAt(pos + i - 1) = Field(stored[n], i)
  <2>1. n \in 1..Len(stored) /\ stored[n] \in Record
    BY <1>1, <1>2, <1>4
  <2>2. pos = stored[n].at /\ stored[n].inter \in {0, 1}
        /\ stored[n].cells \in [1..NumCells -> CellValues]
    BY <2>1, <1>00, <1>4 DEF Record
  <2>3. \A i \in 1..RecLen(stored[n].inter) :
          pos + i - 1 <= Len(file) => file[pos + i - 1] = Field(stored[n], i)
    BY <2>1, <2>2 DEF IInv, Written
  <2> QED BY <2>2, <2>3, <1>2 DEF RecLen, ReadAt
\* The torn record: the writer stands inside it or at its start.
<1>5. ASSUME n = nextRec, n <= Len(stored)
      PROVE  Len(file) + 2 = pos + nextFld /\ nextFld <= RecLen(stored[n].inter)
  <2>1. n <= nextRec /\ nextRec <= Len(stored)
    BY <1>5, <1>2
  <2>2. /\ Len(file) + 1 = stored[n].at + nextFld - 1
        /\ nextFld <= RecLen(stored[n].inter)
    BY <2>1, <1>5 DEF IInv, WriterAt
  <2>3. pos = stored[n].at
    BY <2>1, <1>5, <1>00, <1>01
  <2> QED BY <2>1, <2>2, <2>3, <1>2, <1>5, SMTT(20)
<1>6. PastEnd'
  <2> SUFFICES ASSUME n + 1 > nextRec \/ n + 1 > Len(stored) PROVE pos' > Len(file)
    BY <1>1 DEF PastEnd
  <2>1. CASE n > nextRec \/ n > Len(stored)
    <3>1. pos > Len(file)
      BY <2>1, <1>0
    <3> QED BY <3>1, <1>1, <1>2
  <2>2. CASE n = nextRec /\ n <= Len(stored)
    <3>1. CASE nextFld = 1
      BY <3>1, <2>2, <1>1, <1>2, <1>5
    <3>2. CASE nextFld > 1
      <4>1. ReadAt(pos) = stored[n].inter
        <5>1. ReadAt(pos + 1 - 1) = Field(stored[n], 1)
          <6> DEFINE L == Len(file)
                     r == RecLen(stored[n].inter)
          <6>2. n <= nextRec /\ n <= Len(stored)
            BY <2>2, <1>2, <1>01
          <6>3. nextFld \in Nat /\ L \in Nat /\ pos \in Nat /\ L + 2 = pos + nextFld /\ nextFld <= r
            BY <2>2, <1>2, <1>5
          <6>4. stored[n].inter \in {0, 1} /\ r = NumCells + 2 + stored[n].inter
            BY <6>2, <1>4
          <6>5. r \in Nat /\ r >= 1
            BY <6>4, <1>2
          <6> HIDE DEF L, r
          <6>6. 1 \in 1..r /\ pos + 1 - 1 <= L
            BY ONLY <3>2, <6>3, <6>5
          <6>1. n <= nextRec /\ 1 \in 1..RecLen(stored[n].inter) /\ pos + 1 - 1 <= Len(file)
            BY <6>2, <6>6 DEF L, r
          <6> QED BY <6>1, <2>2, <1>4
        <5> QED BY <5>1, <1>2 DEF Field
      <4>2. b = stored[n].inter
        BY <4>1, <2>2, <1>2, <1>4 DEF b
      <4> QED BY <4>2, <2>2, <1>1, <1>2, <1>5
    <3> QED BY <3>1, <3>2, <1>2
  \* The reader is in step with a writer that finished: the last record ends the file.
  <2>3. CASE n < nextRec /\ n = Len(stored)
    <3>1. nextRec = Len(stored) + 1 /\ Len(stored) > 0
      BY <2>3, <1>1, <1>2
    <3>2. Len(file) + 1 = pos + RecLen(stored[n].inter) /\ n <= nextRec
      BY <3>1, <2>3, <1>2, <1>4 DEF IInv, WriterAt
    <3>3. ReadAt(pos) = stored[n].inter
      <4>1. pos + 1 - 1 <= Len(file) /\ 1 \in 1..RecLen(stored[n].inter)
        <5> DEFINE L == Len(file)
                   r == RecLen(stored[n].inter)
        <5>1. n <= nextRec /\ n <= Len(stored)
          BY <3>2, <2>3, <1>2, <1>4, <1>01
        <5>2. stored[n].inter \in {0, 1} /\ r = NumCells + 2 + stored[n].inter
          BY <5>1, <1>4
        <5>3. r \in Nat /\ r >= 1
          BY <5>2, <1>2
        <5>4. L \in Nat /\ pos \in Nat /\ L + 1 = pos + r
          BY <1>2, <3>2
        <5> HIDE DEF L, r
        <5>5. pos + 1 - 1 <= L /\ 1 \in 1..r
          BY ONLY <5>3, <5>4
        <5> QED BY <5>5 DEF L, r
      <4>2. ReadAt(pos + 1 - 1) = Field(stored[n], 1)
        BY <4>1, <3>2, <2>3, <1>4
      <4> QED BY <4>2, <1>2 DEF Field
    <3>4. b = stored[n].inter
      BY <3>2, <3>3, <2>3, <1>4 DEF b
    <3> QED BY <3>2, <3>4, <1>1, <1>2
  <2> QED BY <2>1, <2>2, <2>3, <1>1, <1>2
<1>7. TornTail'
  <2>1. ASSUME n = nextRec, nextFld > 1, NEW i \in 1..NumCells
        PROVE  ReadAt(pos + i) = IF i + 1 < nextFld THEN stored[n].cells[i] ELSE 0
    <3>1. n <= Len(stored)
      BY <2>1, <1>2 DEF IInv, WriterAt
    <3> DEFINE L == Len(file)
               r == RecLen(stored[n].inter)
    <3>4. L \in Nat /\ r \in Nat /\ pos \in Nat /\ nextFld \in Nat /\ n <= nextRec
      BY <3>1, <2>1, <1>2, <1>4
    <3>5. L + 2 = pos + nextFld /\ nextFld <= r
      BY <3>1, <2>1, <1>5
    <3> HIDE DEF L, r
    <3>2. CASE i + 1 < nextFld
      <4>0. i + 1 \in 1..r /\ pos + (i + 1) - 1 <= L /\ pos + (i + 1) - 1 = pos + i
        BY ONLY <3>2, <3>4, <3>5, i \in Nat \ {0}
      <4>1. i + 1 \in 1..RecLen(stored[n].inter) /\ pos + (i + 1) - 1 <= Len(file)
            /\ pos + (i + 1) - 1 = pos + i
        BY <4>0 DEF L, r
      <4>2. ReadAt(pos + (i + 1) - 1) = Field(stored[n], i + 1)
        <5>1. \A j \in 1..RecLen(stored[n].inter) :
                pos + j - 1 <= Len(file) => ReadAt(pos + j - 1) = Field(stored[n], j)
          <6>1. n <= nextRec
            BY <2>1, <1>2
          <6> QED BY <6>1, <3>1, <1>4
        <5> QED BY <4>1, <5>1
      <4>3. Field(stored[n], i + 1) = stored[n].cells[i]
        <5>1. i + 1 # 1 /\ i + 1 <= NumCells + 1 /\ (i + 1) - 1 = i
          BY <1>2
        <5> QED BY ONLY <5>1 DEF Field
      <4> QED BY <3>2, <4>1, <4>2, <4>3
    <3>3. CASE ~(i + 1 < nextFld)
      <4>1. pos + i > L /\ pos + i \in Nat
        BY ONLY <3>3, <3>4, <3>5, i \in Nat \ {0}
      <4>2. ReadAt(pos + i) = 0
        BY <4>1, <1>3 DEF L
      <4> QED BY <3>3, <4>2
    <3> QED BY <3>2, <3>3
  <2>2. ASSUME n > nextRec
        PROVE  b = 0 /\ \A i \in 1..NumCells : ReadAt(pos + i) = 0
    <3>1. pos > Len(file)
      BY <2>2, <1>0
    <3> QED BY <3>1, <1>2, <1>3 DEF b
  <2> SUFFICES ASSUME NEW k \in 1..n
               PROVE  /\ k = nextRec /\ nextFld > 1 =>
                           \A i \in 1..NumCells :
                              loaded'[k].cells[i] = IF i + 1 < nextFld THEN stored[k].cells[i] ELSE 0
                      /\ k > nextRec =>
                           loaded'[k].inter = 0 /\ \A i \in 1..NumCells : loaded'[k].cells[i] = 0
    BY <1>1 DEF TornTail
  <2>3. CASE k = n
    BY <2>1, <2>2, <2>3, <1>1
  <2>4. CASE k # n
    <3>1. k \in 1..Len(loaded) /\ loaded'[k] = loaded[k]
      BY <2>4, <1>1, <1>01
    <3> QED BY <3>1 DEF TornTail
  <2> QED BY <2>3, <2>4
<1> QED BY <1>6, <1>7

\* A run that dies leaves the CTUs it had not finished without a partition of any other:
\* the record it was in is loaded as far as it was written, the rest as unsplit CTUs.
THEOREM TornTailHolds == ASSUME Agreement PROVE Spec => []TornTail
<1>1. Init => PastEnd /\ TornTail
  BY DEF Init, PastEnd, TornTail
<1>2. IInv /\ PastEnd /\ TornTail /\ [Next]_vars => PastEnd' /\ TornTail'
  <2> SUFFICES ASSUME IInv, PastEnd, TornTail, [Next]_vars PROVE PastEnd' /\ TornTail'
    OBVIOUS
  <2>1. CASE UNCHANGED vars
    BY <2>1 DEF vars, wvars, rvars, PastEnd, TornTail
  <2>2. CASE Compress \/ WriteField \/ Stop
    BY <2>2, WritingTornTail DEF Compress, WriteField, Stop
  <2> QED BY <2>1, <2>2, LoadCtuTornTail DEF Next
<1> QED BY <1>1, <1>2, StreamInvariant, PTL DEF Spec

-----------------------------------------------------------------------------
(* --------------------- the partition tree: its invariant --------------------- *)

NodeFields == {"w", "h", "root", "leaves", "bin", "tern", "qd", "bd", "td", "val"}

Size(n) == n.w + n.h

IsNode(n) ==
  /\ DOMAIN n = NodeFields
  /\ n.w \in Nat \ {0} /\ n.h \in Nat \ {0} /\ Size(n) <= MaxDepth
  /\ n.leaves \in Seq(Nat) /\ IsInjective(n.leaves)
  /\ n.bin \in BOOLEAN /\ n.tern \in BOOLEAN /\ ~(n.bin /\ n.tern)
  /\ n.qd \in Nat /\ n.bd \in Nat /\ n.td \in Nat

IsHeap(hp) ==
  /\ hp = [n \in DOMAIN hp |-> hp[n]] /\ DOMAIN hp \subseteq Nat \ {0}
  /\ \A n \in DOMAIN hp : IsNode(hp[n])

\* Trees below these roots: each other node hangs under one node, which is larger.
Forest(hp, roots) ==
  /\ roots \subseteq DOMAIN hp
  /\ \A n \in roots : hp[n].root = Null
  /\ \A n \in DOMAIN hp \ roots : hp[n].root \in DOMAIN hp /\ n \in LeavesOf(hp, hp[n].root)
  /\ \A p \in DOMAIN hp : \A n \in LeavesOf(hp, p) :
       n \in DOMAIN hp \ roots /\ hp[n].root = p /\ Size(hp[n]) < Size(hp[p])

IsQuad(n) == ~n.bin /\ ~n.tern

DepthsFit(p, c) ==
  /\ c.bd = p.bd + (IF c.bin THEN 1 ELSE 0)
  /\ c.td = p.td + (IF c.tern THEN 1 ELSE 0)
  /\ c.qd = p.qd + (IF ~c.bin /\ ~c.tern THEN 1 ELSE 0)

ValueFits(p, c) == c.val = Step(p.val, p.h, c)

Depths(hp, roots) == \A n \in DOMAIN hp \ roots : DepthsFit(hp[hp[n].root], hp[n])
Values(hp, roots) == \A n \in DOMAIN hp \ roots : ValueFits(hp[hp[n].root], hp[n])

\* Quad splits come first: above a part of one there are no others.
QuadsFirst(hp, roots) ==
  \A n \in DOMAIN hp \ roots :
    IsQuad(hp[n]) => /\ hp[n].bd = 0 /\ hp[n].td = 0
                     /\ hp[n].root \in roots \/ IsQuad(hp[hp[n].root])

RootsPlain(hp, roots) == \A n \in roots : hp[n].bd = 0 /\ hp[n].td = 0 /\ hp[n].val = 0

TreesFit(hp, roots) ==
  /\ IsHeap(hp) /\ Forest(hp, roots)
  /\ Depths(hp, roots) /\ Values(hp, roots) /\ QuadsFirst(hp, roots) /\ RootsPlain(hp, roots)

FrameFields == {"dst", "qt", "mtt", "temps", "kind", "idx"}

\* The temporary tree of kind k: a copy of the node, split that way.
TempFits(hp, f, k) ==
  LET t == f.temps[k]
  IN /\ hp[t].w = hp[f.dst].w /\ hp[t].h = hp[f.dst].h
     /\ \A n \in LeavesOf(hp, t) : hp[n].bin = Bin(k) /\ hp[n].tern = Tern(k)
     /\ k = "qt" => f.mtt = 0

\* A node that xCompressCU is in has no leaves yet.
FrameFits(hp, f) ==
  /\ DOMAIN f = FrameFields /\ f.mtt \in Nat /\ DOMAIN f.temps \subseteq Kinds
  /\ f.dst \in DOMAIN hp /\ hp[f.dst].leaves = <<>>
  /\ f.mtt = 0 => hp[f.dst].bd = 0 /\ hp[f.dst].td = 0
  /\ \A k \in DOMAIN f.temps : f.temps[k] \in DOMAIN hp \ {CtuRoot} /\ TempFits(hp, f, k)

\* It is the leaf that its caller has come to; those behind have none either.
CallFits(hp, f, dst) ==
  LET sub == hp[f.temps[f.kind]].leaves
  IN /\ f.kind \in DOMAIN f.temps /\ f.idx \in 1..Len(sub)
     /\ dst = sub[f.idx]
     /\ \A i \in (f.idx + 1)..Len(sub) : hp[sub[i]].leaves = <<>>

StackFits(hp, fs) ==
  /\ \E S : fs \in Seq(S)
  /\ \A d \in 1..Len(fs) : FrameFits(hp, fs[d])
  /\ \A d \in 1..(Len(fs) - 1) : CallFits(hp, fs[d], fs[d + 1].dst)
  /\ Len(fs) > 0 => fs[1].dst = CtuRoot
  /\ \A d, e \in 1..Len(fs) : \A k \in DOMAIN fs[d].temps, l \in DOMAIN fs[e].temps :
       fs[d].temps[k] = fs[e].temps[l] => d = e /\ k = l

TreeInv ==
  /\ TreesFit(node, Roots) /\ StackFits(node, frames)
  /\ tries \in Nat /\ \A n \in DOMAIN node : n < 5 * tries + 2

(* --------------------------------- induction --------------------------------- *)

\* A set of numbers that has one has a least one.
LEMMA LeastNumber ==
  ASSUME NEW T, T \subseteq Nat, T # {}
  PROVE  \E least \in T : \A n \in T : least <= n
<1> DEFINE less == OpToRel(<, Nat)
<1>1. IsWellFoundedOn(less, Nat)
  BY NatLessThanWellFounded, Zenon
<1>2. \A x, y \in Nat : <<y, x>> \in less <=> y < x
  BY DEF OpToRel
<1> HIDE DEF less
<1>3. PICK least \in T : \A y \in T : ~ (<<y, least>> \in less)
  BY <1>1, WFMin
<1>4. ASSUME NEW n \in T PROVE least <= n
  <2>1. least \in Nat /\ n \in Nat /\ ~ (<<n, least>> \in less)
    BY <1>3
  <2>2. ~(n < least)
    BY <2>1, <1>2
  <2> QED BY <2>1, <2>2
<1> QED BY <1>4

\* A set that holds 0 and every successor of its numbers holds them all.
LEMMA SetInduction ==
  ASSUME NEW S, 0 \in S, \A n \in Nat : n \in S => n + 1 \in S
  PROVE  Nat \subseteq S
<1> SUFFICES ASSUME NEW k \in Nat, k \notin S PROVE FALSE
  OBVIOUS
<1> DEFINE T == Nat \ S
<1>1. PICK least \in T : \A n \in T : least <= n
  <2>1. T \subseteq Nat /\ T # {}
    OBVIOUS
  <2> HIDE DEF T
  <2> QED BY <2>1, LeastNumber
<1>2. least \in Nat /\ least # 0
  OBVIOUS
<1>3. least - 1 \in Nat /\ least - 1 \notin T
  BY <1>1, <1>2
<1>4. least - 1 \in S
  BY <1>3
<1> QED BY <1>2, <1>3, <1>4

(* ------------------------------ going down a tree ---------------------------- *)

FirstDown(hp, n) == [heap |-> hp, last |-> {n}, seen |-> {n}]

\* f[k] is how far a recursion is after k generations.
Descent(what, hp, n, max, f) ==
  f = [k \in 0..max |-> IF k = 0 THEN FirstDown(hp, n) ELSE OneDown(what, f[k - 1])]

\* It goes down one generation after the other.
LEMMA DescentSteps ==
  ASSUME NEW what, NEW hp, NEW n, NEW max \in Nat, NEW f, Descent(what, hp, n, max, f)
  PROVE  f[0] = FirstDown(hp, n) /\ \A k \in 1..max : f[k] = OneDown(what, f[k - 1])
<1>1. f = [k \in 0..max |-> IF k = 0 THEN FirstDown(hp, n) ELSE OneDown(what, f[k - 1])]
  BY DEF Descent
<1>2. 0 \in 0..max /\ \A k \in 1..max : k \in 0..max /\ k # 0
  OBVIOUS
<1> QED BY <1>1, <1>2, Zenon

\* There is such a recursion, however far it goes.
LEMMA DescentExists ==
  ASSUME NEW what, NEW hp, NEW n
  PROVE  \A max \in Nat : \E f : Descent(what, hp, n, max, f)
<1> DEFINE S == {max \in Nat : \E f : Descent(what, hp, n, max, f)}
<1>1. 0 \in S
  <2> DEFINE f == [k \in 0..0 |-> FirstDown(hp, n)]
  <2>1. f = [k \in 0..0 |-> IF k = 0 THEN FirstDown(hp, n) ELSE OneDown(what, f[k - 1])]
    OBVIOUS
  <2> HIDE DEF f
  <2> QED BY <2>1 DEF Descent
<1>2. ASSUME NEW max \in Nat, max \in S PROVE max + 1 \in S
  <2>1. PICK f : Descent(what, hp, n, max, f)
    BY <1>2
  <2>2. f[0] = FirstDown(hp, n) /\ \A k \in 1..max : f[k] = OneDown(what, f[k - 1])
    BY <2>1, DescentSteps
  <2> DEFINE G(k) == IF k = max + 1 THEN OneDown(what, f[max]) ELSE f[k]
             g == [k \in 0..max + 1 |-> G(k)]
             h == [k \in 0..max + 1 |-> IF k = 0 THEN FirstDown(hp, n) ELSE OneDown(what, g[k - 1])]
  <2>3. ASSUME NEW k \in 0..max + 1 PROVE g[k] = h[k]
    <3>1. CASE k = 0
      <4>1. k # max + 1
        BY <3>1
      <4> QED BY <2>2, <3>1, <4>1
    <3>2. CASE k # 0 /\ k # max + 1
      <4>1. k \in 1..max /\ k - 1 \in 0..max + 1 /\ k - 1 # max + 1
        BY <3>2
      <4>2. g[k] = f[k] /\ g[k - 1] = f[k - 1]
        BY <3>2, <4>1
      <4>3. h[k] = OneDown(what, g[k - 1])
        BY <3>2
      <4> HIDE DEF g, h
      <4> QED BY <2>2, <4>1, <4>2, <4>3
    <3>3. CASE k = max + 1
      <4>1. k - 1 = max /\ max \in 0..max + 1 /\ max # max + 1 /\ k # 0
        BY <3>3
      <4>2. g[k] = OneDown(what, f[max]) /\ g[max] = f[max]
        BY <3>3, <4>1
      <4>3. h[k] = OneDown(what, g[k - 1])
        BY <4>1
      <4> HIDE DEF g, h
      <4> QED BY <4>1, <4>2, <4>3
    <3> QED BY <3>1, <3>2, <3>3
  <2>4. g = [k \in 0..max + 1 |-> g[k]] /\ h = [k \in 0..max + 1 |-> h[k]]
    OBVIOUS
  <2>5. g = h
    <3> HIDE DEF g, h
    <3> QED BY <2>3, <2>4
  <2>6. h = [k \in 0..max + 1 |-> IF k = 0 THEN FirstDown(hp, n) ELSE OneDown(what, g[k - 1])]
    OBVIOUS
  <2> HIDE DEF g, h
  <2>7. Descent(what, hp, n, max + 1, g)
    BY <2>5, <2>6 DEF Descent
  <2> QED BY <2>7
<1>3. Nat \subseteq S
  <2> HIDE DEF S
  <2> QED BY <1>1, <1>2, SetInduction
<1> QED BY <1>3

\* A bound on how deep a tree is.
LEMMA DepthNat == MaxDepth \in Nat /\ MaxDepth >= 2
BY TreeAssumption DEF MaxDepth

\* What Descend returns is where it has come to after MaxDepth generations.
LEMMA DescendIs ==
  ASSUME NEW what, NEW hp, NEW n
  PROVE  \E f : /\ f[0] = FirstDown(hp, n)
                /\ \A k \in 1..MaxDepth : f[k] = OneDown(what, f[k - 1])
                /\ Descend(what, hp, n) = f[MaxDepth]
<1> DEFINE f == CHOOSE f : Descent(what, hp, n, MaxDepth, f)
<1>1. Descend(what, hp, n) = f[MaxDepth]
  BY DEF Descend, Descent, FirstDown
<1>2. Descent(what, hp, n, MaxDepth, f)
  BY DepthNat, DescentExists
<1> HIDE DEF f
<1> QED BY <1>1, <1>2, DepthNat, DescentSteps

\* The heaps differ in depths and values only.
Alike(hp, hq) ==
  /\ DOMAIN hq = DOMAIN hp
  /\ \A m \in DOMAIN hp : /\ hq[m].w = hp[m].w /\ hq[m].h = hp[m].h
                          /\ hq[m].root = hp[m].root /\ hq[m].leaves = hp[m].leaves
                          /\ hq[m].bin = hp[m].bin /\ hq[m].tern = hp[m].tern

\* They have the same trees.
LEMMA AlikeForest ==
  ASSUME NEW hp, NEW hq, NEW roots, Alike(hp, hq)
  PROVE  /\ \A m : LeavesOf(hq, m) = LeavesOf(hp, m)
         /\ \A nodes : LeavesOfAll(hq, nodes) = LeavesOfAll(hp, nodes)
         /\ Forest(hp, roots) => Forest(hq, roots)
<1>1. \A m : LeavesOf(hq, m) = LeavesOf(hp, m)
  BY DEF Alike, LeavesOf
<1>2. \A nodes : LeavesOfAll(hq, nodes) = LeavesOfAll(hp, nodes)
  BY <1>1 DEF LeavesOfAll
<1>3. Forest(hp, roots) => Forest(hq, roots)
  BY <1>1 DEF Alike, Forest, Size
<1> QED BY <1>1, <1>2, <1>3

\* What rebuild_depths makes of a node is one.
LEMMA WithDepthsIsNode ==
  ASSUME NEW p, NEW c, IsNode(p), IsNode(c)
  PROVE  LET n == WithDepths(p, c)
         IN /\ IsNode(n) /\ n.val = c.val /\ n.w = c.w /\ n.h = c.h /\ n.root = c.root
            /\ n.leaves = c.leaves /\ n.bin = c.bin /\ n.tern = c.tern
            /\ c.bin => n.bd = p.bd + 1 /\ n.td = p.td /\ n.qd = p.qd
            /\ ~c.bin /\ c.tern => n.bd = p.bd /\ n.td = p.td + 1 /\ n.qd = p.qd
            /\ IsQuad(c) => n.bd = c.bd /\ n.td = c.td /\ n.qd = p.qd + 1
<1> DEFINE n == WithDepths(p, c)
<1>1. CASE c.bin
  <2>1. n = [c EXCEPT !.bd = p.bd + 1, !.td = p.td, !.qd = p.qd]
    BY <1>1 DEF WithDepths
  <2> HIDE DEF n
  <2>2. DOMAIN n = NodeFields
    BY <2>1 DEF IsNode
  <2>3. n.bd = p.bd + 1 /\ n.td = p.td /\ n.qd = p.qd
    BY <2>1 DEF IsNode, NodeFields
  <2>4. n.val = c.val /\ n.w = c.w /\ n.h = c.h /\ n.root = c.root /\ n.leaves = c.leaves
    BY <2>1 DEF IsNode, NodeFields
  <2>5. n.bin = c.bin /\ n.tern = c.tern
    BY <2>1 DEF IsNode, NodeFields
  <2>6. IsNode(n)
    <3>1. n.qd \in Nat /\ n.bd \in Nat /\ n.td \in Nat
      BY <2>3 DEF IsNode
    <3>2. Size(n) = Size(c)
      BY <2>4 DEF Size
    <3> QED BY <2>2, <2>4, <2>5, <3>1, <3>2 DEF IsNode
  <2> QED BY <1>1, <2>3, <2>4, <2>5, <2>6 DEF n, IsQuad
<1>2. CASE ~c.bin /\ c.tern
  <2>1. n = [c EXCEPT !.td = p.td + 1, !.bd = p.bd, !.qd = p.qd]
    BY <1>2 DEF WithDepths
  <2> HIDE DEF n
  <2>2. DOMAIN n = NodeFields
    BY <2>1 DEF IsNode
  <2>3. n.bd = p.bd /\ n.td = p.td + 1 /\ n.qd = p.qd
    BY <2>1 DEF IsNode, NodeFields
  <2>4. n.val = c.val /\ n.w = c.w /\ n.h = c.h /\ n.root = c.root /\ n.leaves = c.leaves
    BY <2>1 DEF IsNode, NodeFields
  <2>5. n.bin = c.bin /\ n.tern = c.tern
    BY <2>1 DEF IsNode, NodeFields
  <2>6. IsNode(n)
    <3>1. n.qd \in Nat /\ n.bd \in Nat /\ n.td \in Nat
      BY <2>3 DEF IsNode
    <3>2. Size(n) = Size(c)
      BY <2>4 DEF Size
    <3> QED BY <2>2, <2>4, <2>5, <3>1, <3>2 DEF IsNode
  <2> QED BY <1>2, <2>3, <2>4, <2>5, <2>6 DEF n, IsQuad
<1>3. CASE ~c.bin /\ ~c.tern
  <2>1. n = [c EXCEPT !.qd = p.qd + 1]
    BY <1>3 DEF WithDepths
  <2> QED BY <1>3, <2>1 DEF IsNode, NodeFields, Size, IsQuad
<1> QED BY <1>1, <1>2, <1>3

\* So is a node with another value.
LEMMA WithValueIsNode ==
  ASSUME NEW c, NEW v, IsNode(c)
  PROVE  LET n == [c EXCEPT !.val = v]
         IN /\ IsNode(n) /\ n.val = v /\ n.w = c.w /\ n.h = c.h /\ n.root = c.root
            /\ n.leaves = c.leaves /\ n.bin = c.bin /\ n.tern = c.tern
            /\ n.bd = c.bd /\ n.td = c.td /\ n.qd = c.qd
BY DEF IsNode, NodeFields, Size

Tasks == {"nothing", "depths", "values"}

\* What is done to a node on the way down.
Visited(what, hp, m) ==
  CASE what = "depths" -> WithDepths(hp[hp[m].root], hp[m])
    [] what = "values" -> [hp[m] EXCEPT !.val = CurVal(hp, m)]
    [] OTHER -> hp[m]

\* One generation further the trees are the same.
LEMMA OneDownKeeps ==
  ASSUME NEW what \in Tasks, NEW hp, NEW roots, Forest(hp, roots),
         NEW s, IsHeap(s.heap), Alike(hp, s.heap), s.last \subseteq DOMAIN hp
  PROVE  LET t == OneDown(what, s)
         IN /\ IsHeap(t.heap) /\ Alike(hp, t.heap)
            /\ t.last = LeavesOfAll(hp, s.last) /\ t.last \subseteq DOMAIN hp
            /\ t.seen = s.seen \cup t.last
            /\ \A m \in DOMAIN hp : t.heap[m] = IF m \in t.last THEN Visited(what, s.heap, m) ELSE s.heap[m]
<1> DEFINE t == OneDown(what, s)
           V(m) == Visited(what, s.heap, m)
           next == LeavesOfAll(s.heap, s.last)
<1>1. /\ t.heap = [m \in DOMAIN s.heap |-> IF m \in next THEN V(m) ELSE s.heap[m]]
      /\ t.last = next /\ t.seen = s.seen \cup next
  BY DEF OneDown, Visited
<1>2. next = LeavesOfAll(hp, s.last) /\ Forest(s.heap, roots)
  BY AlikeForest
<1>3. next \subseteq DOMAIN hp
  <2> SUFFICES ASSUME NEW m \in next PROVE m \in DOMAIN hp
    OBVIOUS
  <2>1. PICK p \in s.last : m \in LeavesOf(hp, p)
    BY <1>2 DEF LeavesOfAll
  <2> QED BY <2>1 DEF Forest
<1>4. ASSUME NEW m \in next
      PROVE  /\ IsNode(V(m))
             /\ V(m).w = s.heap[m].w /\ V(m).h = s.heap[m].h /\ V(m).root = s.heap[m].root
             /\ V(m).leaves = s.heap[m].leaves /\ V(m).bin = s.heap[m].bin /\ V(m).tern = s.heap[m].tern
  <2>1. DOMAIN s.heap = DOMAIN hp /\ m \in DOMAIN hp /\ IsNode(s.heap[m])
    BY <1>3 DEF Alike, IsHeap
  <2>2. s.heap[m].root \in DOMAIN s.heap
    <3>1. PICK p \in s.last : m \in LeavesOf(s.heap, p)
      BY DEF LeavesOfAll
    <3> QED BY <1>2, <2>1, <3>1 DEF Forest
  <2>3. IsNode(s.heap[s.heap[m].root])
    BY <2>2 DEF IsHeap
  <2>4. CASE what = "depths"
    <3>1. V(m) = WithDepths(s.heap[s.heap[m].root], s.heap[m])
      BY <2>4 DEF Visited
    <3> HIDE DEF V
    <3> QED BY <2>1, <2>3, <3>1, WithDepthsIsNode
  <2>5. CASE what = "values"
    <3>1. V(m) = [s.heap[m] EXCEPT !.val = CurVal(s.heap, m)]
      BY <2>5 DEF Visited
    <3> HIDE DEF V
    <3> QED BY <2>1, <3>1, WithValueIsNode
  <2>6. CASE what = "nothing"
    <3>1. V(m) = s.heap[m]
      BY <2>6 DEF Visited
    <3> QED BY <2>1, <3>1
  <2> QED BY <2>4, <2>5, <2>6 DEF Tasks
<1> HIDE DEF t, V, next
<1>5. DOMAIN s.heap = DOMAIN hp
  BY DEF Alike
<1>6. \A m \in DOMAIN hp : t.heap[m] = IF m \in next THEN V(m) ELSE s.heap[m]
  BY <1>1, <1>5
<1>7. IsHeap(t.heap)
  <2>1. DOMAIN t.heap = DOMAIN hp /\ t.heap = [m \in DOMAIN t.heap |-> t.heap[m]]
    BY <1>1, <1>5
  <2>2. DOMAIN hp \subseteq Nat \ {0} /\ \A m \in DOMAIN hp : IsNode(s.heap[m])
    BY <1>5 DEF IsHeap
  <2> QED BY <1>4, <1>6, <2>1, <2>2 DEF IsHeap
<1>8. Alike(hp, t.heap)
  <2>1. DOMAIN t.heap = DOMAIN hp
    BY <1>1, <1>5
  <2> QED BY <1>4, <1>6, <2>1 DEF Alike
<1> QED BY <1>1, <1>2, <1>3, <1>6, <1>7, <1>8 DEF t, V

(* ----------------------------- the levels of a tree -------------------------- *)

Levels(hp, n, lv) ==
  lv[0] = {n} /\ \A k \in 1..MaxDepth : lv[k] = LeavesOfAll(hp, lv[k - 1])

Members(lv) == UNION {lv[k] : k \in 0..MaxDepth}

\* Below the first level each node has its parent one level above.
LEMMA LevelParent ==
  ASSUME NEW hp, NEW roots, Forest(hp, roots), NEW n \in DOMAIN hp, NEW lv, Levels(hp, n, lv),
         NEW k \in 1..MaxDepth, lv[k - 1] \subseteq DOMAIN hp, NEW m \in lv[k]
  PROVE  m \in DOMAIN hp \ roots /\ hp[m].root \in lv[k - 1] /\ Size(hp[m]) < Size(hp[hp[m].root])
<1>1. PICK p \in lv[k - 1] : m \in LeavesOf(hp, p)
  BY DEF Levels, LeavesOfAll
<1>2. p \in DOMAIN hp
  BY <1>1
<1> QED BY <1>1, <1>2 DEF Forest

\* The nodes get smaller from level to level.
LEMMA LevelsShrink ==
  ASSUME NEW hp, NEW roots, IsHeap(hp), Forest(hp, roots), NEW n \in DOMAIN hp,
         NEW lv, Levels(hp, n, lv)
  PROVE  /\ \A k \in 0..MaxDepth : \A m \in lv[k] : m \in DOMAIN hp /\ Size(hp[m]) + k <= Size(hp[n])
         /\ lv[MaxDepth] = {}
<1> DEFINE Small(k) == \A m \in lv[k] : m \in DOMAIN hp /\ Size(hp[m]) + k <= Size(hp[n])
           S == {k \in Nat : k <= MaxDepth => Small(k)}
<1>0. \A m \in DOMAIN hp : Size(hp[m]) \in Nat /\ Size(hp[m]) >= 2 /\ Size(hp[m]) <= MaxDepth
  BY DEF IsHeap, IsNode, Size
<1>1. 0 \in S
  <2>1. lv[0] = {n}
    BY DEF Levels
  <2> QED BY <1>0, <2>1
<1>2. ASSUME NEW k \in Nat, k \in S PROVE k + 1 \in S
  <2> SUFFICES ASSUME k + 1 <= MaxDepth, NEW m \in lv[k + 1]
               PROVE  m \in DOMAIN hp /\ Size(hp[m]) + (k + 1) <= Size(hp[n])
    OBVIOUS
  <2>1. k + 1 \in 1..MaxDepth /\ (k + 1) - 1 = k /\ k <= MaxDepth
    BY DepthNat
  <2>2. Small(k)
    BY <1>2, <2>1
  <2>3. lv[k] \subseteq DOMAIN hp
    BY <2>2
  <2> DEFINE j == k + 1
  <2> HIDE DEF S, Small, j
  <2>4. m \in DOMAIN hp \ roots /\ hp[m].root \in lv[k] /\ Size(hp[m]) < Size(hp[hp[m].root])
    <3>1. j \in 1..MaxDepth /\ j - 1 = k /\ m \in lv[j]
      BY <2>1 DEF j
    <3> QED BY <2>3, <3>1, LevelParent
  <2>5. hp[m].root \in DOMAIN hp /\ Size(hp[hp[m].root]) + k <= Size(hp[n])
    BY <2>2, <2>4 DEF Small
  <2> QED BY <1>0, <2>4, <2>5
<1> HIDE DEF S, Small
<1>3. Nat \subseteq S
  BY <1>1, <1>2, SetInduction
<1>4. ASSUME NEW k \in 0..MaxDepth PROVE Small(k)
  <2>1. k \in S /\ k <= MaxDepth
    BY <1>3, DepthNat
  <2> QED BY <2>1 DEF S
<1>5. lv[MaxDepth] = {}
  <2> SUFFICES ASSUME NEW m \in lv[MaxDepth] PROVE FALSE
    OBVIOUS
  <2>1. MaxDepth \in 0..MaxDepth /\ MaxDepth \in Nat
    BY DepthNat
  <2>2. m \in DOMAIN hp /\ Size(hp[m]) + MaxDepth <= Size(hp[n])
    BY <1>4, <2>1 DEF Small
  <2> QED BY <1>0, <2>1, <2>2
<1> QED BY <1>4, <1>5 DEF Small

\* No node is on two of them.
LEMMA LevelsDisjoint ==
  ASSUME NEW hp, NEW roots, IsHeap(hp), Forest(hp, roots), NEW n \in DOMAIN hp,
         NEW lv, Levels(hp, n, lv)
  PROVE  \A j, k \in 0..MaxDepth : j < k => lv[j] \cap lv[k] = {}
<1> DEFINE Apart(j) == \A k \in 0..MaxDepth : j < k => lv[j] \cap lv[k] = {}
           S == {j \in Nat : j <= MaxDepth => Apart(j)}
<1>0. /\ \A k \in 0..MaxDepth : lv[k] \subseteq DOMAIN hp
      /\ \A k \in 0..MaxDepth : \A m \in lv[k] : Size(hp[m]) + k <= Size(hp[n])
      /\ Size(hp[n]) \in Nat /\ MaxDepth \in Nat
  <2>1. \A k \in 0..MaxDepth :
          lv[k] \subseteq DOMAIN hp /\ \A m \in lv[k] : Size(hp[m]) + k <= Size(hp[n])
    BY LevelsShrink
  <2>2. hp[n].w \in Nat /\ hp[n].h \in Nat
    BY DEF IsHeap, IsNode
  <2> QED BY <2>1, <2>2, DepthNat DEF Size
<1>1. 0 \in S
  <2> SUFFICES ASSUME NEW k \in 0..MaxDepth, 0 < k, NEW m \in lv[k], m = n PROVE FALSE
    BY DEF Levels
  <2> QED BY <1>0
<1>2. ASSUME NEW j \in Nat, j \in S PROVE j + 1 \in S
  <2> SUFFICES ASSUME j + 1 <= MaxDepth, NEW k \in 0..MaxDepth, j + 1 < k,
                      NEW m \in lv[j + 1], m \in lv[k]
               PROVE  FALSE
    OBVIOUS
  <2> DEFINE i == j + 1
  <2>1. /\ i \in 1..MaxDepth /\ i - 1 = j /\ j \in 0..MaxDepth /\ j <= MaxDepth /\ m \in lv[i]
        /\ k \in 1..MaxDepth /\ k - 1 \in 0..MaxDepth /\ j < k - 1
    BY <1>0
  <2>2. Apart(j)
    BY <1>2, <2>1
  <2> HIDE DEF i, S
  <2>3. hp[m].root \in lv[j]
    BY <1>0, <2>1, LevelParent
  <2>4. hp[m].root \in lv[k - 1]
    BY <1>0, <2>1, LevelParent
  <2> QED BY <2>1, <2>2, <2>3, <2>4
<1> HIDE DEF S, Apart
<1>3. Nat \subseteq S
  BY <1>1, <1>2, SetInduction
<1>4. ASSUME NEW j \in 0..MaxDepth PROVE Apart(j)
  <2>1. j \in S /\ j <= MaxDepth
    BY <1>0, <1>3
  <2> QED BY <2>1 DEF S
<1> QED BY <1>4 DEF Apart

\* Together they are the tree: with each node its leaves and, but for the top, its parent.
LEMMA MembersAre ==
  ASSUME NEW hp, NEW roots, IsHeap(hp), Forest(hp, roots), NEW n \in DOMAIN hp,
         NEW lv, Levels(hp, n, lv)
  PROVE  /\ n \in Members(lv) /\ Members(lv) \subseteq DOMAIN hp
         /\ \A m \in Members(lv) : LeavesOf(hp, m) \subseteq Members(lv)
         /\ \A m \in Members(lv) : m # n => m \notin roots /\ hp[m].root \in Members(lv)
<1>0. MaxDepth \in Nat /\ 0 \in 0..MaxDepth /\ \A k \in 0..MaxDepth : lv[k] \subseteq DOMAIN hp
  BY LevelsShrink, DepthNat
<1>1. n \in Members(lv)
  BY <1>0 DEF Members, Levels
<1>2. Members(lv) \subseteq DOMAIN hp
  BY <1>0 DEF Members
<1>3. ASSUME NEW m \in Members(lv), NEW c \in LeavesOf(hp, m) PROVE c \in Members(lv)
  <2>1. PICK k \in 0..MaxDepth : m \in lv[k]
    BY DEF Members
  <2>2. k # MaxDepth
    BY <2>1, LevelsShrink
  <2>3. k + 1 \in 1..MaxDepth /\ k + 1 \in 0..MaxDepth /\ (k + 1) - 1 = k
    BY <1>0, <2>2
  <2>4. lv[k + 1] = LeavesOfAll(hp, lv[k])
    BY <2>3 DEF Levels
  <2>5. c \in lv[k + 1]
    BY <2>1, <2>4 DEF LeavesOfAll
  <2> QED BY <2>3, <2>5 DEF Members
<1>4. ASSUME NEW m \in Members(lv), m # n PROVE m \notin roots /\ hp[m].root \in Members(lv)
  <2>1. PICK k \in 0..MaxDepth : m \in lv[k]
    BY DEF Members
  <2>2. k # 0
    BY <1>4, <2>1 DEF Levels
  <2>3. k \in 1..MaxDepth /\ k - 1 \in 0..MaxDepth
    BY <1>0, <2>2
  <2>4. m \notin roots /\ hp[m].root \in lv[k - 1]
    BY <1>0, <2>1, <2>3, LevelParent
  <2> QED BY <2>3, <2>4 DEF Members
<1> QED BY <1>1, <1>2, <1>3, <1>4

LevelsOf(f) == [k \in 0..MaxDepth |-> f[k].last]

\* A recursion that goes down from n.
Descends(what, hp, n, f) ==
  f[0] = FirstDown(hp, n) /\ \A k \in 1..MaxDepth : f[k] = OneDown(what, f[k - 1])

\* It comes to one level after the other, and changes the nodes there.
LEMMA DescentKeeps ==
  ASSUME NEW what \in Tasks, NEW hp, NEW roots, IsHeap(hp), Forest(hp, roots), NEW n \in DOMAIN hp,
         NEW f, Descends(what, hp, n, f)
  PROVE  /\ Levels(hp, n, LevelsOf(f))
         /\ \A k \in 0..MaxDepth : IsHeap(f[k].heap) /\ Alike(hp, f[k].heap)
         /\ \A k \in 1..MaxDepth :
              /\ f[k].seen = f[k - 1].seen \cup f[k].last
              /\ \A m \in DOMAIN hp :
                   f[k].heap[m] = IF m \in f[k].last THEN Visited(what, f[k - 1].heap, m)
                                  ELSE f[k - 1].heap[m]
<1> DEFINE Fine(k) == IsHeap(f[k].heap) /\ Alike(hp, f[k].heap) /\ f[k].last \subseteq DOMAIN hp
           S == {k \in Nat : k <= MaxDepth => Fine(k)}
<1>0. MaxDepth \in Nat /\ 0 \in 0..MaxDepth
  BY DepthNat
<1>1. 0 \in S
  <2>1. f[0].heap = hp /\ f[0].last = {n}
    BY DEF Descends, FirstDown
  <2>2. Alike(hp, hp)
    BY DEF Alike
  <2> QED BY <2>1, <2>2
<1>2. ASSUME NEW k \in 1..MaxDepth, Fine(k - 1)
      PROVE  /\ Fine(k) /\ f[k].last = LeavesOfAll(hp, f[k - 1].last)
             /\ f[k].seen = f[k - 1].seen \cup f[k].last
             /\ \A m \in DOMAIN hp :
                  f[k].heap[m] = IF m \in f[k].last THEN Visited(what, f[k - 1].heap, m)
                                 ELSE f[k - 1].heap[m]
  <2>1. f[k] = OneDown(what, f[k - 1])
    BY DEF Descends
  <2> DEFINE s == f[k - 1]
  <2>2. IsHeap(s.heap) /\ Alike(hp, s.heap) /\ s.last \subseteq DOMAIN hp
    BY <1>2
  <2> HIDE DEF s
  <2> DEFINE t == OneDown(what, s)
  <2>3. /\ IsHeap(t.heap) /\ Alike(hp, t.heap)
        /\ t.last = LeavesOfAll(hp, s.last) /\ t.last \subseteq DOMAIN hp
        /\ t.seen = s.seen \cup t.last
        /\ \A m \in DOMAIN hp : t.heap[m] = IF m \in t.last THEN Visited(what, s.heap, m) ELSE s.heap[m]
    BY <2>2, OneDownKeeps
  <2>4. f[k] = t
    BY <2>1 DEF s
  <2> HIDE DEF t
  <2> QED BY <2>3, <2>4 DEF s
<1>3. ASSUME NEW k \in Nat, k \in S PROVE k + 1 \in S
  <2> SUFFICES ASSUME k + 1 <= MaxDepth PROVE Fine(k + 1)
    OBVIOUS
  <2>1. k + 1 \in 1..MaxDepth /\ (k + 1) - 1 = k /\ k <= MaxDepth
    BY <1>0
  <2>2. Fine(k)
    BY <1>3, <2>1
  <2> DEFINE j == k + 1
  <2> HIDE DEF Fine, S, j
  <2>3. j \in 1..MaxDepth /\ Fine(j - 1)
    BY <2>1, <2>2 DEF j
  <2>4. Fine(j)
    BY <1>2, <2>3
  <2> QED BY <2>4 DEF j
<1> HIDE DEF S, Fine
<1>4. Nat \subseteq S
  BY <1>1, <1>3, SetInduction
<1>5. ASSUME NEW k \in 0..MaxDepth PROVE Fine(k)
  <2>1. k \in S /\ k <= MaxDepth
    BY <1>0, <1>4
  <2> QED BY <2>1 DEF S
<1>6. \A k \in 1..MaxDepth : k - 1 \in 0..MaxDepth /\ k \in 0..MaxDepth
  BY <1>0
<1>7. Levels(hp, n, LevelsOf(f))
  <2>1. LevelsOf(f)[0] = {n}
    BY <1>0 DEF LevelsOf, Descends, FirstDown
  <2>2. \A k \in 1..MaxDepth : LevelsOf(f)[k] = LeavesOfAll(hp, LevelsOf(f)[k - 1])
    BY <1>2, <1>5, <1>6 DEF LevelsOf
  <2> QED BY <2>1, <2>2 DEF Levels
<1> QED BY <1>2, <1>5, <1>6, <1>7 DEF Fine

\* What it has seen in the end is the tree.
LEMMA BelowIs ==
  ASSUME NEW what \in Tasks, NEW hp, NEW roots, IsHeap(hp), Forest(hp, roots), NEW n \in DOMAIN hp,
         NEW f, Descends(what, hp, n, f)
  PROVE  f[MaxDepth].seen = Members(LevelsOf(f))
<1> DEFINE lv == LevelsOf(f)
           UpTo(k) == UNION {lv[j] : j \in 0..k}
           S == {k \in Nat : k <= MaxDepth => f[k].seen = UpTo(k)}
<1>0. MaxDepth \in Nat /\ 0 \in 0..MaxDepth
  BY DepthNat
<1>1. 0 \in S
  <2>1. UpTo(0) = lv[0]
    OBVIOUS
  <2>2. lv[0] = {n} /\ f[0].seen = {n}
    BY <1>0 DEF LevelsOf, Descends, FirstDown
  <2> QED BY <2>1, <2>2
<1>2. ASSUME NEW k \in Nat, k \in S PROVE k + 1 \in S
  <2> SUFFICES ASSUME k + 1 <= MaxDepth PROVE f[k + 1].seen = UpTo(k + 1)
    OBVIOUS
  <2>1. k + 1 \in 1..MaxDepth /\ (k + 1) - 1 = k /\ k <= MaxDepth /\ k + 1 \in 0..MaxDepth
    BY <1>0
  <2>2. f[k].seen = UpTo(k)
    BY <1>2, <2>1
  <2>3. f[k + 1].seen = f[k].seen \cup f[k + 1].last
    <3> DEFINE j == k + 1
    <3> HIDE DEF j
    <3>1. j \in 1..MaxDepth /\ j - 1 = k
      BY <2>1 DEF j
    <3>2. f[j].seen = f[j - 1].seen \cup f[j].last
      BY <3>1, DescentKeeps
    <3> QED BY <3>1, <3>2 DEF j
  <2>4. lv[k + 1] = f[k + 1].last
    BY <2>1 DEF LevelsOf
  <2>5. UpTo(k + 1) = UpTo(k) \cup lv[k + 1]
    <3> HIDE DEF lv
    <3>1. \A j \in 0..k + 1 : j \in 0..k \/ j = k + 1
      OBVIOUS
    <3>2. \A j \in 0..k : j \in 0..k + 1
      OBVIOUS
    <3>3. k + 1 \in 0..k + 1
      OBVIOUS
    <3> QED BY <3>1, <3>2, <3>3
  <2> QED BY <2>2, <2>3, <2>4, <2>5
<1> HIDE DEF S, UpTo
<1>3. Nat \subseteq S
  BY <1>1, <1>2, SetInduction
<1> QED BY <1>0, <1>3 DEF S, UpTo, Members

\* A node keeps what it has from one level to another if it is on none behind the first.
LEMMA Untouched ==
  ASSUME NEW what \in Tasks, NEW hp, NEW roots, IsHeap(hp), Forest(hp, roots), NEW n \in DOMAIN hp,
         NEW f, Descends(what, hp, n, f), NEW m \in DOMAIN hp, NEW i \in 0..MaxDepth
  PROVE  \A j \in i..MaxDepth :
           (\A k \in (i + 1)..j : m \notin f[k].last) => f[j].heap[m] = f[i].heap[m]
<1> DEFINE Same(j) == (\A k \in (i + 1)..j : m \notin f[k].last) => f[j].heap[m] = f[i].heap[m]
           S == {d \in Nat : i + d <= MaxDepth => Same(i + d)}
<1>0. MaxDepth \in Nat
  BY DepthNat
<1>1. 0 \in S
  <2>1. i + 0 = i
    OBVIOUS
  <2> QED BY <2>1
<1>2. ASSUME NEW d \in Nat, d \in S PROVE d + 1 \in S
  <2> DEFINE j == i + (d + 1)
  <2> SUFFICES ASSUME j <= MaxDepth, \A k \in (i + 1)..j : m \notin f[k].last
               PROVE  f[j].heap[m] = f[i].heap[m]
    OBVIOUS
  <2>1. j \in 1..MaxDepth /\ j - 1 = i + d /\ i + d <= MaxDepth /\ j \in (i + 1)..j
    BY <1>0
  <2>2. \A k \in (i + 1)..(i + d) : k \in (i + 1)..j
    OBVIOUS
  <2>3. f[i + d].heap[m] = f[i].heap[m]
    BY <1>2, <2>1, <2>2
  <2> HIDE DEF j, S
  <2>4. f[j].heap[m] = f[j - 1].heap[m]
    BY <2>1, DescentKeeps
  <2> QED BY <2>1, <2>3, <2>4
<1> HIDE DEF S, Same
<1>3. Nat \subseteq S
  BY <1>1, <1>2, SetInduction
<1>4. ASSUME NEW j \in i..MaxDepth PROVE Same(j)
  <2>1. j - i \in Nat /\ i + (j - i) = j /\ j <= MaxDepth
    BY <1>0
  <2>2. j - i \in S
    BY <1>3, <2>1
  <2> QED BY <2>1, <2>2 DEF S
<1> QED BY <1>4 DEF Same

(* ---------------------------- what is below a node --------------------------- *)

\* M is the tree below n.
InTree(hp, roots, n, M) ==
  /\ n \in M /\ M \subseteq DOMAIN hp
  /\ \A m \in M : LeavesOf(hp, m) \subseteq M /\ Size(hp[m]) <= Size(hp[n])
  /\ \A m \in M : m # n => m \notin roots /\ hp[m].root \in M

\* The levels make up that tree.
LEMMA LevelsInTree ==
  ASSUME NEW hp, NEW roots, IsHeap(hp), Forest(hp, roots), NEW n \in DOMAIN hp,
         NEW lv, Levels(hp, n, lv)
  PROVE  InTree(hp, roots, n, Members(lv))
<1>1. ASSUME NEW m \in Members(lv) PROVE Size(hp[m]) <= Size(hp[n])
  <2>1. PICK k \in 0..MaxDepth : m \in lv[k]
    BY DEF Members
  <2>2. m \in DOMAIN hp /\ Size(hp[m]) + k <= Size(hp[n]) /\ k \in Nat
    BY <2>1, LevelsShrink
  <2> QED BY <2>2 DEF IsHeap, IsNode, Size
<1> QED BY <1>1, MembersAre DEF InTree

\* Of some nodes one is the largest.
LEMMA Largest ==
  ASSUME NEW hp, IsHeap(hp), NEW T, T \subseteq DOMAIN hp, T # {}
  PROVE  \E x \in T : \A y \in T : Size(hp[y]) <= Size(hp[x])
<1> DEFINE Room == {MaxDepth - Size(hp[y]) : y \in T}
<1>1. \A y \in T : Size(hp[y]) \in Nat /\ Size(hp[y]) <= MaxDepth
  BY DEF IsHeap, IsNode, Size
<1>2. PICK least \in Room : \A r \in Room : least <= r
  <2>1. Room \subseteq Nat /\ Room # {}
    BY <1>1, DepthNat
  <2> HIDE DEF Room
  <2> QED BY <2>1, LeastNumber
<1>3. PICK x \in T : least = MaxDepth - Size(hp[x])
  BY <1>2
<1>4. ASSUME NEW y \in T PROVE Size(hp[y]) <= Size(hp[x])
  <2>1. MaxDepth - Size(hp[x]) <= MaxDepth - Size(hp[y])
    BY <1>2, <1>3
  <2> QED BY <1>1, <2>1, DepthNat
<1> QED BY <1>4

\* A node below another hangs under one that is larger.
LEMMA Upwards ==
  ASSUME NEW hp, NEW roots, IsHeap(hp), Forest(hp, roots), NEW m \in DOMAIN hp \ roots
  PROVE  /\ hp[m].root \in DOMAIN hp /\ m \in LeavesOf(hp, hp[m].root)
         /\ Size(hp[m]) < Size(hp[hp[m].root])
         /\ Size(hp[m]) \in Nat /\ Size(hp[hp[m].root]) \in Nat
<1>1. hp[m].root \in DOMAIN hp /\ m \in LeavesOf(hp, hp[m].root)
  BY DEF Forest
<1>2. Size(hp[m]) < Size(hp[hp[m].root])
  BY <1>1 DEF Forest
<1> QED BY <1>1, <1>2, SMTT(20) DEF IsHeap, IsNode, Size

\* There is one tree below a node.
LEMMA OneTree ==
  ASSUME NEW hp, NEW roots, IsHeap(hp), Forest(hp, roots), NEW n \in DOMAIN hp,
         NEW M, InTree(hp, roots, n, M), NEW N, InTree(hp, roots, n, N)
  PROVE  M \subseteq N
<1> SUFFICES ASSUME M \ N # {} PROVE FALSE
  OBVIOUS
<1>1. PICK x \in M \ N : \A y \in M \ N : Size(hp[y]) <= Size(hp[x])
  <2> DEFINE T == M \ N
  <2>1. T \subseteq DOMAIN hp /\ T # {}
    BY DEF InTree
  <2> HIDE DEF T
  <2>2. \E x \in T : \A y \in T : Size(hp[y]) <= Size(hp[x])
    BY <2>1, Largest
  <2> QED BY <2>2 DEF T
<1>2. x # n /\ x \in DOMAIN hp /\ x \notin roots /\ hp[x].root \in M
  BY DEF InTree
<1>3. /\ x \in LeavesOf(hp, hp[x].root) /\ Size(hp[x]) < Size(hp[hp[x].root])
      /\ Size(hp[x]) \in Nat /\ Size(hp[hp[x].root]) \in Nat
  BY <1>2, Upwards
<1>4. hp[x].root \in N
  BY <1>1, <1>2, <1>3
<1>5. x \in N
  BY <1>3, <1>4 DEF InTree
<1> QED BY <1>5

\* Below gives it.
LEMMA BelowTree ==
  ASSUME NEW hp, NEW roots, IsHeap(hp), Forest(hp, roots), NEW n \in DOMAIN hp
  PROVE  InTree(hp, roots, n, Below(hp, n))
<1>1. PICK f : Descends("nothing", hp, n, f) /\ Descend("nothing", hp, n) = f[MaxDepth]
  BY DescendIs DEF Descends
<1>2. "nothing" \in Tasks
  BY DEF Tasks
<1>3. Levels(hp, n, LevelsOf(f)) /\ f[MaxDepth].seen = Members(LevelsOf(f))
  BY <1>1, <1>2, DescentKeeps, BelowIs
<1>4. Below(hp, n) = Members(LevelsOf(f))
  BY <1>1, <1>3 DEF Below
<1> QED BY <1>3, <1>4, LevelsInTree

\* The trees below the roots hold every node.
LEMMA RootsCover ==
  ASSUME NEW hp, NEW roots, IsHeap(hp), Forest(hp, roots)
  PROVE  UNION {Below(hp, t) : t \in roots} = DOMAIN hp
<1> DEFINE All == UNION {Below(hp, t) : t \in roots}
<1>1. ASSUME NEW t \in roots
      PROVE  t \in Below(hp, t) /\ Below(hp, t) \subseteq DOMAIN hp
             /\ \A m \in Below(hp, t) : LeavesOf(hp, m) \subseteq Below(hp, t)
  <2>1. t \in DOMAIN hp
    BY DEF Forest
  <2> QED BY <2>1, BelowTree DEF InTree
<1>2. All \subseteq DOMAIN hp
  BY <1>1
<1>3. ASSUME DOMAIN hp \ All # {} PROVE FALSE
  <2>1. PICK x \in DOMAIN hp \ All : \A y \in DOMAIN hp \ All : Size(hp[y]) <= Size(hp[x])
    <3> DEFINE T == DOMAIN hp \ All
    <3>1. T \subseteq DOMAIN hp /\ T # {}
      BY <1>3
    <3> HIDE DEF T
    <3>2. \E x \in T : \A y \in T : Size(hp[y]) <= Size(hp[x])
      BY <3>1, Largest
    <3> QED BY <3>2 DEF T
  <2>2. x \notin roots
    BY <1>1
  <2> HIDE DEF All
  <2>3. /\ hp[x].root \in DOMAIN hp /\ x \in LeavesOf(hp, hp[x].root)
        /\ Size(hp[x]) < Size(hp[hp[x].root])
        /\ Size(hp[x]) \in Nat /\ Size(hp[hp[x].root]) \in Nat
    BY <2>2, Upwards
  <2>4. hp[x].root \in All
    BY <2>1, <2>3
  <2>5. PICK t \in roots : hp[x].root \in Below(hp, t)
    BY <2>4 DEF All
  <2>6. x \in All
    BY <1>1, <2>3, <2>5 DEF All
  <2> QED BY <2>6
<1> QED BY <1>2, <1>3

\* What a rebuilding makes of a node whose parent is p.
Renewed(what, p, c) ==
  CASE what = "depths" -> WithDepths(p, c)
    [] what = "values" -> [c EXCEPT !.val = Step(p.val, p.h, c)]
    [] OTHER -> c

\* Going down from n rebuilds each node below it from its rebuilt parent, and no other.
LEMMA DescendRenews ==
  ASSUME NEW what \in Tasks, NEW hp, NEW roots, IsHeap(hp), Forest(hp, roots), NEW n \in DOMAIN hp
  PROVE  LET g == Descend(what, hp, n).heap
         IN /\ IsHeap(g) /\ Alike(hp, g)
            /\ \E M : /\ InTree(hp, roots, n, M)
                      /\ \A m \in DOMAIN hp :
                           g[m] = IF m \in M \ {n} THEN Renewed(what, g[hp[m].root], hp[m]) ELSE hp[m]
<1> DEFINE g == Descend(what, hp, n).heap
<1>1. PICK f : Descends(what, hp, n, f) /\ Descend(what, hp, n) = f[MaxDepth]
  BY DescendIs DEF Descends
<1> DEFINE lv == LevelsOf(f)
<1>2. g = f[MaxDepth].heap
  BY <1>1
<1> HIDE DEF g
<1>3. Levels(hp, n, lv)
  BY <1>1, DescentKeeps
<1>4. MaxDepth \in Nat /\ MaxDepth \in 0..MaxDepth /\ 0 \in 0..MaxDepth
  BY DepthNat
<1>5. IsHeap(g) /\ Alike(hp, g)
  BY <1>1, <1>2, <1>4, DescentKeeps
<1>6. \A k \in 0..MaxDepth : lv[k] = f[k].last
  BY DEF LevelsOf
<1>7. f[0].heap = hp /\ lv[0] = {n}
  BY <1>1, <1>3 DEF Levels, Descends, FirstDown
<1>8. \A j, k \in 0..MaxDepth : j < k => lv[j] \cap lv[k] = {}
  BY <1>3, LevelsDisjoint
<1> HIDE DEF lv
<1>9. ASSUME NEW m \in DOMAIN hp, m \notin Members(lv) \/ m = n PROVE g[m] = hp[m]
  <2>1. \A k \in (0 + 1)..MaxDepth : m \notin f[k].last
    <3> SUFFICES ASSUME NEW k \in 1..MaxDepth, m \in f[k].last PROVE FALSE
      OBVIOUS
    <3>1. k \in 0..MaxDepth /\ 0 < k
      BY <1>4
    <3>2. m \in lv[k]
      BY <1>6, <3>1
    <3>3. CASE m = n
      BY <1>4, <1>7, <1>8, <3>1, <3>2, <3>3
    <3>4. CASE m \notin Members(lv)
      BY <3>1, <3>2, <3>4 DEF Members
    <3> QED BY <1>9, <3>3, <3>4
  <2>2. f[MaxDepth].heap[m] = f[0].heap[m]
    BY <1>1, <1>4, <2>1, Untouched
  <2> QED BY <1>2, <1>7, <2>2
<1>10. ASSUME NEW m \in Members(lv), m # n
       PROVE  g[m] = Renewed(what, g[hp[m].root], hp[m])
  <2>1. PICK k \in 0..MaxDepth : m \in lv[k]
    BY DEF Members
  <2>2. k # 0
    BY <1>7, <1>10, <2>1
  <2>3. k \in 1..MaxDepth /\ k - 1 \in 0..MaxDepth /\ (k - 1) + 1 = k /\ k \in Nat
    BY <1>4, <2>2
  <2>4. \A j \in 0..MaxDepth : lv[j] \subseteq DOMAIN hp
    BY <1>3, LevelsShrink
  <2>5. m \in DOMAIN hp \ roots /\ hp[m].root \in lv[k - 1] /\ hp[m].root \in DOMAIN hp
    BY <1>3, <2>1, <2>3, <2>4, LevelParent
  <2> DEFINE p == hp[m].root
             h == f[k - 1].heap
  <2>6. h[m] = hp[m]
    <3>1. \A j \in (0 + 1)..(k - 1) : m \notin f[j].last
      <4> SUFFICES ASSUME NEW j \in 1..(k - 1), m \in f[j].last PROVE FALSE
        OBVIOUS
      <4>1. j \in 0..MaxDepth /\ j < k
        BY <1>4, <2>3
      <4> QED BY <1>6, <1>8, <2>1, <4>1
    <3>2. f[k - 1].heap[m] = f[0].heap[m]
      BY <1>1, <1>4, <2>3, <2>5, <3>1, Untouched
    <3> QED BY <1>7, <3>2
  <2>7. h[p] = g[p]
    <3>1. \A j \in ((k - 1) + 1)..MaxDepth : p \notin f[j].last
      <4> SUFFICES ASSUME NEW j \in k..MaxDepth, p \in f[j].last PROVE FALSE
        BY <2>3
      <4>1. j \in 0..MaxDepth /\ k - 1 < j
        BY <1>4, <2>3
      <4> QED BY <1>6, <1>8, <2>3, <2>5, <4>1
    <3>2. MaxDepth \in (k - 1)..MaxDepth
      BY <1>4, <2>3
    <3>3. f[MaxDepth].heap[p] = f[k - 1].heap[p]
      BY <1>1, <2>3, <2>5, <3>1, <3>2, Untouched
    <3> QED BY <1>2, <3>3
  <2>8. g[m] = f[k].heap[m]
    <3>1. \A j \in (k + 1)..MaxDepth : m \notin f[j].last
      <4> SUFFICES ASSUME NEW j \in (k + 1)..MaxDepth, m \in f[j].last PROVE FALSE
        OBVIOUS
      <4>1. j \in 0..MaxDepth /\ k < j
        BY <2>3
      <4> QED BY <1>6, <1>8, <2>1, <4>1
    <3>2. MaxDepth \in k..MaxDepth
      BY <1>4
    <3> QED BY <1>1, <1>2, <2>5, <3>1, <3>2, Untouched
  <2>9. f[k].heap[m] = Visited(what, h, m)
    BY <1>1, <1>6, <2>1, <2>3, <2>5, DescentKeeps
  <2>10. p # Null
    BY <2>5 DEF IsHeap, Null
  <2> HIDE DEF h
  <2>11. h[m].root = p
    BY <2>6
  <2> HIDE DEF p
  <2>12. CurVal(h, m) = Step(g[p].val, g[p].h, hp[m])
    BY <2>6, <2>7, <2>10, <2>11 DEF CurVal
  <2>13. Visited(what, h, m) = Renewed(what, g[p], hp[m])
    BY <2>6, <2>7, <2>11, <2>12 DEF Visited, Renewed
  <2> QED BY <2>8, <2>9, <2>13 DEF p
<1>11. InTree(hp, roots, n, Members(lv))
  BY <1>3, LevelsInTree
<1>12. \A m \in DOMAIN hp :
         g[m] = IF m \in Members(lv) \ {n} THEN Renewed(what, g[hp[m].root], hp[m]) ELSE hp[m]
  BY <1>9, <1>10
<1> QED BY <1>5, <1>11, <1>12 DEF g

(* ------------------------------ transfer_leaves ------------------------------ *)

\* src is a temporary tree explored for dst, which has no leaves of its own.
Explores(hp, roots, src, dst) ==
  /\ src \in roots /\ dst \in DOMAIN hp /\ src # dst
  /\ hp[dst].leaves = <<>> /\ hp[src].w = hp[dst].w /\ hp[src].h = hp[dst].h
  /\ \A n \in LeavesOf(hp, src) : IsQuad(hp[n]) => hp[dst].bd = 0 /\ hp[dst].td = 0

\* Nodes that differ only in where they hang.
SameNumbers(c, d) ==
  /\ d.w = c.w /\ d.h = c.h /\ d.bin = c.bin /\ d.tern = c.tern
  /\ d.qd = c.qd /\ d.bd = c.bd /\ d.td = c.td /\ d.val = c.val

\* A node with other leaves is one.
LEMMA WithLeavesIsNode ==
  ASSUME NEW c, IsNode(c), NEW s, s \in Seq(Nat), IsInjective(s)
  PROVE  LET n == [c EXCEPT !.leaves = s]
         IN IsNode(n) /\ SameNumbers(c, n) /\ n.root = c.root /\ n.leaves = s
BY DEF IsNode, NodeFields, Size, SameNumbers

\* So is one below another parent.
LEMMA WithRootIsNode ==
  ASSUME NEW c, IsNode(c), NEW p
  PROVE  LET n == [c EXCEPT !.root = p]
         IN IsNode(n) /\ SameNumbers(c, n) /\ n.root = p /\ n.leaves = c.leaves
BY DEF IsNode, NodeFields, Size, SameNumbers

\* The leaves of a temporary tree hang under the node it was explored for; the trees stay trees.
LEMMA RehangFits ==
  ASSUME NEW hp, NEW roots, IsHeap(hp), Forest(hp, roots), NEW src, NEW dst,
         Explores(hp, roots, src, dst)
  PROVE  LET hq == Rehang(hp, src, dst)
             moved == LeavesOf(hp, src)
         IN /\ IsHeap(hq) /\ Forest(hq, roots) /\ DOMAIN hq = DOMAIN hp
            /\ \A m \in DOMAIN hp :
                 /\ SameNumbers(hp[m], hq[m])
                 /\ hq[m].root = IF m \in moved THEN dst ELSE hp[m].root
                 /\ hq[m].leaves = IF m = dst THEN hp[src].leaves
                                   ELSE IF m = src THEN <<>> ELSE hp[m].leaves
            /\ dst \notin moved /\ LeavesOf(hp, dst) = {}
<1> DEFINE hq == Rehang(hp, src, dst)
           moved == LeavesOf(hp, src)
<1>1. \A m \in DOMAIN hp : /\ IsNode(hp[m]) /\ Size(hp[m]) \in Nat
                           /\ hp[m].leaves \in Seq(Nat) /\ IsInjective(hp[m].leaves)
  BY DEF IsHeap, IsNode, Size
<1>2. src \in DOMAIN hp /\ dst \in DOMAIN hp /\ src # dst /\ src \in roots
  BY DEF Explores, Forest
<1>3. Size(hp[src]) = Size(hp[dst])
  BY DEF Explores, Size
<1>4. dst \notin moved /\ src \notin moved /\ moved \subseteq DOMAIN hp
  BY <1>1, <1>2, <1>3 DEF Forest
<1>5. DOMAIN hq = DOMAIN hp
  BY DEF Rehang
<1>6. <<>> \in Seq(Nat) /\ IsInjective(<<>>)
  BY DEF IsInjective
<1>7. ASSUME NEW m \in DOMAIN hp
      PROVE  /\ IsNode(hq[m]) /\ SameNumbers(hp[m], hq[m])
             /\ hq[m].root = IF m \in moved THEN dst ELSE hp[m].root
             /\ hq[m].leaves = IF m = dst THEN hp[src].leaves
                               ELSE IF m = src THEN <<>> ELSE hp[m].leaves
  <2> DEFINE Gets(s) == [hp[m] EXCEPT !.leaves = s]
             Moves == [hp[m] EXCEPT !.root = dst]
  <2>0. hq[m] = CASE m = dst -> Gets(hp[src].leaves) [] m = src -> Gets(<<>>)
                  [] m \in moved -> Moves [] OTHER -> hp[m]
    BY DEF Rehang
  <2>1. CASE m = dst
    <3>1. hq[m] = [hp[m] EXCEPT !.leaves = hp[src].leaves]
      <4> HIDE DEF hq, moved, Gets, Moves
      <4>1. hq[m] = Gets(hp[src].leaves)
        BY <1>2, <1>4, <2>0, <2>1
      <4> QED BY <4>1 DEF Gets
    <3> HIDE DEF hq, moved
    <3> QED BY <1>1, <1>2, <1>4, <2>1, <3>1, WithLeavesIsNode
  <2>2. CASE m = src
    <3>1. hq[m] = [hp[m] EXCEPT !.leaves = <<>>]
      <4> HIDE DEF hq, moved, Gets, Moves
      <4>1. hq[m] = Gets(<<>>)
        BY <1>2, <1>4, <2>0, <2>2
      <4> QED BY <4>1 DEF Gets
    <3> HIDE DEF hq, moved
    <3> DEFINE e == <<>>
    <3>2. e \in Seq(Nat) /\ IsInjective(e) /\ hq[m] = [hp[m] EXCEPT !.leaves = e]
      BY <1>6, <3>1
    <3> HIDE DEF e
    <3>3. IsNode(hq[m]) /\ SameNumbers(hp[m], hq[m]) /\ hq[m].root = hp[m].root /\ hq[m].leaves = e
      BY <1>1, <3>2, WithLeavesIsNode
    <3> QED BY <1>2, <1>4, <2>2, <3>3 DEF e
  <2>3. CASE m \in moved
    <3>1. hq[m] = [hp[m] EXCEPT !.root = dst]
      <4> HIDE DEF hq, moved, Gets
      <4> QED BY <1>4, <2>0, <2>3
    <3> HIDE DEF hq, moved
    <3> QED BY <1>1, <1>4, <2>3, <3>1, WithRootIsNode, SMTT(20)
  <2>4. CASE m # dst /\ m # src /\ m \notin moved
    <3>1. hq[m] = hp[m]
      <4> HIDE DEF hq, moved, Gets, Moves
      <4> QED BY <2>0, <2>4
    <3> HIDE DEF hq, moved
    <3> QED BY <1>1, <2>4, <3>1 DEF SameNumbers
  <2> QED BY <2>1, <2>2, <2>3, <2>4
<1>8. IsHeap(hq)
  <2>1. hq = [m \in DOMAIN hq |-> hq[m]]
    BY DEF Rehang
  <2> HIDE DEF hq
  <2> QED BY <1>5, <1>7, <2>1 DEF IsHeap
<1> HIDE DEF hq
<1>9. LeavesOf(hp, dst) = {}
  BY DEF Explores, LeavesOf, Range
<1>10. /\ LeavesOf(hq, dst) = moved /\ LeavesOf(hq, src) = {}
       /\ \A m : m # dst /\ m # src => LeavesOf(hq, m) = LeavesOf(hp, m)
  <2>1. LeavesOf(hq, dst) = moved
    BY <1>2, <1>5, <1>7 DEF LeavesOf
  <2>2. LeavesOf(hq, src) = {}
    BY <1>2, <1>5, <1>7 DEF LeavesOf, Range
  <2>3. \A m : m # dst /\ m # src => LeavesOf(hq, m) = LeavesOf(hp, m)
    BY <1>5, <1>7 DEF LeavesOf
  <2> QED BY <2>1, <2>2, <2>3
<1>11. \A m \in DOMAIN hp : Size(hq[m]) = Size(hp[m])
  BY <1>7 DEF Size, SameNumbers
<1>12. Forest(hq, roots)
  <2>1. roots \subseteq DOMAIN hq
    BY <1>5 DEF Forest
  <2>2. ASSUME NEW n \in roots PROVE hq[n].root = Null
    <3>1. n \in DOMAIN hp /\ n \notin moved /\ hp[n].root = Null
      BY <1>2 DEF Forest
    <3> QED BY <1>7, <3>1
  <2>3. ASSUME NEW n \in DOMAIN hq \ roots
        PROVE  hq[n].root \in DOMAIN hq /\ n \in LeavesOf(hq, hq[n].root)
    <3>1. CASE n \in moved
      BY <1>2, <1>4, <1>5, <1>7, <1>10, <3>1
    <3>2. CASE n \notin moved
      <4>1. n \in DOMAIN hp \ roots /\ hq[n].root = hp[n].root
        BY <1>5, <1>7, <3>2
      <4>2. hp[n].root \in DOMAIN hp /\ n \in LeavesOf(hp, hp[n].root)
        BY <4>1 DEF Forest
      <4>3. hp[n].root # src /\ hp[n].root # dst
        BY <1>9, <3>2, <4>2
      <4> QED BY <1>5, <1>10, <4>1, <4>2, <4>3
    <3> QED BY <3>1, <3>2
  <2>4. ASSUME NEW p \in DOMAIN hq, NEW n \in LeavesOf(hq, p)
        PROVE  n \in DOMAIN hq \ roots /\ hq[n].root = p /\ Size(hq[n]) < Size(hq[p])
    <3>1. CASE p = dst
      <4>1. n \in moved
        BY <1>10, <3>1
      <4>2. n \in DOMAIN hp \ roots /\ Size(hp[n]) < Size(hp[src])
        BY <1>2, <4>1 DEF Forest
      <4> QED BY <1>2, <1>3, <1>5, <1>7, <1>11, <3>1, <4>1, <4>2
    <3>2. CASE p # dst
      <4>1. p # src /\ n \in LeavesOf(hp, p)
        BY <1>10, <3>2
      <4>2. n \in DOMAIN hp \ roots /\ hp[n].root = p /\ Size(hp[n]) < Size(hp[p])
        BY <1>5, <4>1 DEF Forest
      <4>3. n \notin moved
        BY <1>2, <4>1, <4>2 DEF Forest
      <4> QED BY <1>5, <1>7, <1>11, <4>2, <4>3
    <3> QED BY <3>1, <3>2
  <2> QED BY <2>1, <2>2, <2>3, <2>4 DEF Forest
<1> QED BY <1>4, <1>5, <1>7, <1>8, <1>9, <1>12 DEF hq

\* What then hangs below that node was below the temporary root.
LEMMA RehungBelow ==
  ASSUME NEW hp, NEW roots, IsHeap(hp), Forest(hp, roots), NEW src, NEW dst,
         Explores(hp, roots, src, dst),
         NEW N, InTree(hp, roots, src, N), NEW M, InTree(Rehang(hp, src, dst), roots, dst, M)
  PROVE  M \ {dst} \subseteq N
<1> DEFINE hq == Rehang(hp, src, dst)
           moved == LeavesOf(hp, src)
<1>1. /\ IsHeap(hq) /\ Forest(hq, roots) /\ DOMAIN hq = DOMAIN hp
      /\ \A m \in DOMAIN hp :
           /\ SameNumbers(hp[m], hq[m])
           /\ hq[m].root = IF m \in moved THEN dst ELSE hp[m].root
           /\ hq[m].leaves = IF m = dst THEN hp[src].leaves
                             ELSE IF m = src THEN <<>> ELSE hp[m].leaves
      /\ dst \notin moved /\ LeavesOf(hp, dst) = {}
  BY RehangFits
<1>2. InTree(hq, roots, dst, M)
  OBVIOUS
<1> HIDE DEF hq, moved
<1> SUFFICES ASSUME (M \ {dst}) \ N # {} PROVE FALSE
  OBVIOUS
<1>3. PICK x \in (M \ {dst}) \ N : \A y \in (M \ {dst}) \ N : Size(hq[y]) <= Size(hq[x])
  <2> DEFINE T == (M \ {dst}) \ N
  <2>1. T \subseteq DOMAIN hq /\ T # {}
    BY <1>2 DEF InTree
  <2> HIDE DEF T
  <2>2. \E x \in T : \A y \in T : Size(hq[y]) <= Size(hq[x])
    BY <1>1, <2>1, Largest
  <2> QED BY <2>2 DEF T
<1> DEFINE p == hq[x].root
<1>4. x \in DOMAIN hq \ roots /\ p \in M
  BY <1>2, <1>3 DEF InTree
<1>5. p \in DOMAIN hq /\ x \in LeavesOf(hq, p) /\ Size(hq[x]) < Size(hq[p])
      /\ Size(hq[x]) \in Nat /\ Size(hq[p]) \in Nat
  BY <1>1, <1>4, Upwards
<1>6. x \notin moved
  BY <1>3 DEF InTree, moved
<1>7. p # dst /\ p = hp[x].root
  <2>1. p = hp[x].root /\ x \in DOMAIN hp \ roots
    BY <1>1, <1>4, <1>6
  <2>2. x \in LeavesOf(hp, p)
    BY <2>1 DEF Forest
  <2> QED BY <1>1, <2>1, <2>2
<1>8. p \in N
  BY <1>3, <1>4, <1>5, <1>7
<1>9. x \in LeavesOf(hp, p)
  BY <1>1, <1>4, <1>7 DEF Forest
<1>10. x \in N
  BY <1>8, <1>9 DEF InTree
<1> QED BY <1>3, <1>10

\* A node that is not below n, or n itself, has its parent outside the tree below n.
LEMMA ParentOutside ==
  ASSUME NEW hp, NEW roots, IsHeap(hp), Forest(hp, roots), NEW n \in DOMAIN hp,
         NEW M, InTree(hp, roots, n, M), NEW m \in DOMAIN hp \ roots, m \notin M \ {n}
  PROVE  hp[m].root \in DOMAIN hp \ M
<1>1. /\ hp[m].root \in DOMAIN hp /\ m \in LeavesOf(hp, hp[m].root)
      /\ Size(hp[m]) < Size(hp[hp[m].root])
      /\ Size(hp[m]) \in Nat /\ Size(hp[hp[m].root]) \in Nat
  BY Upwards
<1>2. CASE m = n
  BY <1>1, <1>2 DEF InTree
<1>3. CASE m \notin M
  BY <1>1, <1>3 DEF InTree
<1> QED BY <1>2, <1>3

\* rebuild_depths makes the depths fit again; values and everything outside are as before.
LEMMA RebuildDepthsFits ==
  ASSUME NEW hp, NEW roots, TreesFit(hp, roots), NEW src, NEW dst, Explores(hp, roots, src, dst)
  PROVE  LET hq == Rehang(hp, src, dst)
             g  == RebuildDepths(hq, dst)
         IN /\ IsHeap(g) /\ Forest(g, roots) /\ Alike(hq, g)
            /\ Depths(g, roots) /\ QuadsFirst(g, roots) /\ RootsPlain(g, roots)
            /\ \E M : /\ InTree(hq, roots, dst, M)
                      /\ \A m \in DOMAIN hp : /\ m \notin M \ {dst} => g[m] = hq[m]
                                              /\ g[m].val = hp[m].val
<1> DEFINE hq == Rehang(hp, src, dst)
           g  == RebuildDepths(hq, dst)
           moved == LeavesOf(hp, src)
<1>0. IsHeap(hp) /\ Forest(hp, roots) /\ Depths(hp, roots) /\ QuadsFirst(hp, roots) /\ RootsPlain(hp, roots)
  BY DEF TreesFit
<1>1. /\ IsHeap(hq) /\ Forest(hq, roots) /\ DOMAIN hq = DOMAIN hp
      /\ \A m \in DOMAIN hp :
           /\ SameNumbers(hp[m], hq[m])
           /\ hq[m].root = IF m \in moved THEN dst ELSE hp[m].root
      /\ dst \notin moved /\ LeavesOf(hp, dst) = {}
  BY <1>0, RehangFits
<1>2. dst \in DOMAIN hp /\ src \in DOMAIN hp /\ src \in roots
  BY <1>0 DEF Explores, Forest
<1> HIDE DEF hq
<1>3. PICK M : /\ IsHeap(g) /\ Alike(hq, g) /\ InTree(hq, roots, dst, M)
               /\ \A m \in DOMAIN hp :
                    g[m] = IF m \in M \ {dst} THEN WithDepths(g[hq[m].root], hq[m]) ELSE hq[m]
  <2>1. "depths" \in Tasks
    BY DEF Tasks
  <2> DEFINE d == Descend("depths", hq, dst).heap
  <2>2. IsHeap(d) /\ Alike(hq, d)
    BY <1>1, <1>2, <2>1, DescendRenews
  <2>3. PICK M : /\ InTree(hq, roots, dst, M)
                 /\ \A m \in DOMAIN hq :
                      d[m] = IF m \in M \ {dst} THEN Renewed("depths", d[hq[m].root], hq[m]) ELSE hq[m]
    BY <1>1, <1>2, <2>1, DescendRenews
  <2>4. \A p, c : Renewed("depths", p, c) = WithDepths(p, c)
    BY DEF Renewed
  <2>5. g = d
    BY DEF RebuildDepths
  <2> HIDE DEF d, g
  <2> QED BY <1>1, <2>2, <2>3, <2>4, <2>5
<1> HIDE DEF g
<1>4. Forest(g, roots)
  BY <1>1, <1>3, AlikeForest
<1>5. ASSUME NEW m \in M \ {dst}
      PROVE  /\ m \in DOMAIN hp \ roots /\ hq[m].root \in M /\ hq[m].root \in DOMAIN hp
             /\ g[m].root = hq[m].root /\ g[m].val = hp[m].val
             /\ g[m].bin = hp[m].bin /\ g[m].tern = hp[m].tern
             /\ LET p == g[hq[m].root]
                IN /\ hp[m].bin => g[m].bd = p.bd + 1 /\ g[m].td = p.td /\ g[m].qd = p.qd
                   /\ ~hp[m].bin /\ hp[m].tern => g[m].bd = p.bd /\ g[m].td = p.td + 1 /\ g[m].qd = p.qd
                   /\ IsQuad(hp[m]) => g[m].bd = hp[m].bd /\ g[m].td = hp[m].td /\ g[m].qd = p.qd + 1
  <2>1. m \in DOMAIN hp \ roots /\ hq[m].root \in M /\ hq[m].root \in DOMAIN hp
    BY <1>1, <1>3 DEF InTree
  <2>2. IsNode(g[hq[m].root]) /\ IsNode(hq[m])
    BY <1>1, <1>3, <2>1 DEF IsHeap, Alike
  <2>3. g[m] = WithDepths(g[hq[m].root], hq[m])
    BY <1>3, <2>1
  <2>4. SameNumbers(hp[m], hq[m])
    BY <1>1, <2>1
  <2> DEFINE p == g[hq[m].root]
             c == hq[m]
             n == WithDepths(p, c)
  <2>5. /\ n.val = c.val /\ n.root = c.root /\ n.bin = c.bin /\ n.tern = c.tern
        /\ c.bin => n.bd = p.bd + 1 /\ n.td = p.td /\ n.qd = p.qd
        /\ ~c.bin /\ c.tern => n.bd = p.bd /\ n.td = p.td + 1 /\ n.qd = p.qd
        /\ IsQuad(c) => n.bd = c.bd /\ n.td = c.td /\ n.qd = p.qd + 1
    <3> HIDE DEF p, c
    <3>1. IsNode(p) /\ IsNode(c)
      BY <2>2 DEF p, c
    <3> QED BY <3>1, WithDepthsIsNode
  <2>6. g[m] = n
    BY <2>3
  <2> HIDE DEF n
  <2> QED BY <2>1, <2>4, <2>5, <2>6 DEF SameNumbers, IsQuad
<1>6. ASSUME NEW m \in DOMAIN hp, m \notin M \ {dst} PROVE g[m] = hq[m] /\ SameNumbers(hp[m], g[m])
  BY <1>1, <1>3, <1>6
<1>7. ASSUME NEW n \in DOMAIN hp \ roots, n \notin M \ {dst}
      PROVE  /\ n \notin moved /\ hq[n].root = hp[n].root /\ hp[n].root \in DOMAIN hp
             /\ hp[n].root \notin M /\ g[n].root = hp[n].root
  <2>1. hq[n].root \in DOMAIN hq \ M
    BY <1>1, <1>2, <1>3, <1>7, ParentOutside
  <2>2. dst \in M
    BY <1>3 DEF InTree
  <2>3. n \notin moved /\ hq[n].root = hp[n].root
    BY <1>1, <2>1, <2>2
  <2> QED BY <1>1, <1>6, <1>7, <2>1, <2>3
\* The node the leaves moved to has only quad splits above it if one of them is quad.
<1>8. ASSUME NEW n \in moved, IsQuad(hp[n])
      PROVE  hp[dst].bd = 0 /\ hp[dst].td = 0 /\ (dst \in roots \/ IsQuad(hp[dst]))
  <2>1. hp[dst].bd = 0 /\ hp[dst].td = 0
    BY <1>8 DEF Explores
  <2>2. ASSUME dst \notin roots PROVE IsQuad(hp[dst])
    <3>1. DepthsFit(hp[hp[dst].root], hp[dst]) /\ hp[dst].root \in DOMAIN hp
      BY <1>0, <1>2, <2>2 DEF Depths, Forest
    <3>2. IsNode(hp[hp[dst].root]) /\ IsNode(hp[dst])
      BY <1>0, <1>2, <3>1 DEF IsHeap
    <3> QED BY <2>1, <3>1, <3>2 DEF IsNode, DepthsFit, IsQuad
  <2> QED BY <2>1, <2>2
\* What stands above a quad part after the move.
<1>9. ASSUME NEW n \in DOMAIN hp \ roots, IsQuad(hp[n])
      PROVE  LET p == hq[n].root
             IN /\ hp[n].bd = 0 /\ hp[n].td = 0 /\ p \in DOMAIN hp
                /\ p \in roots \/ IsQuad(hp[p])
                /\ p = dst \/ p = hp[n].root
                /\ hp[p].bd = 0 /\ hp[p].td = 0
  <2>1. hp[n].bd = 0 /\ hp[n].td = 0 /\ (hp[n].root \in roots \/ IsQuad(hp[hp[n].root]))
    BY <1>0, <1>9 DEF QuadsFirst
  <2>2. CASE n \in moved
    BY <1>1, <1>2, <1>8, <1>9, <2>1, <2>2
  <2>3. CASE n \notin moved
    <3>1. hq[n].root = hp[n].root /\ hp[n].root \in DOMAIN hp
      BY <1>0, <1>1, <2>3 DEF Forest
    <3>2. CASE hp[n].root \in roots
      BY <1>0, <2>1, <3>1, <3>2 DEF RootsPlain
    <3>3. CASE hp[n].root \notin roots
      BY <1>0, <2>1, <3>1, <3>3 DEF QuadsFirst
    <3> QED BY <3>2, <3>3, <2>1, <3>1
  <2> QED BY <2>2, <2>3
\* Quad parts have no binary and ternary depth, rebuilt or not.
<1>10. ASSUME NEW n \in DOMAIN hp, IsQuad(hp[n]) \/ n = dst \/ n \in roots,
              hp[n].bd = 0, hp[n].td = 0
       PROVE  g[n].bd = 0 /\ g[n].td = 0
  <2>1. CASE n \in M \ {dst}
    BY <1>5, <1>10, <2>1
  <2>2. CASE n \notin M \ {dst}
    BY <1>6, <1>10, <2>2 DEF SameNumbers
  <2> QED BY <2>1, <2>2
<1>11. \A n \in DOMAIN hp : g[n].bin = hp[n].bin /\ g[n].tern = hp[n].tern /\ g[n].root = hq[n].root
  BY <1>5, <1>6 DEF SameNumbers
<1>12. DOMAIN g = DOMAIN hp
  BY <1>1, <1>3 DEF Alike
<1>13. QuadsFirst(g, roots)
  <2> SUFFICES ASSUME NEW n \in DOMAIN hp \ roots, IsQuad(g[n])
               PROVE  /\ g[n].bd = 0 /\ g[n].td = 0
                      /\ g[n].root \in roots \/ IsQuad(g[g[n].root])
    BY <1>12 DEF QuadsFirst
  <2>1. IsQuad(hp[n])
    BY <1>11 DEF IsQuad
  <2>2. g[n].bd = 0 /\ g[n].td = 0
    BY <1>9, <1>10, <2>1
  <2>3. g[n].root = hq[n].root
    BY <1>11
  <2>4. hq[n].root \in DOMAIN hp /\ (hq[n].root \in roots \/ IsQuad(hp[hq[n].root]))
    BY <1>9, <2>1
  <2> QED BY <1>11, <2>2, <2>3, <2>4 DEF IsQuad
<1>14. RootsPlain(g, roots)
  <2> SUFFICES ASSUME NEW n \in roots PROVE g[n].bd = 0 /\ g[n].td = 0 /\ g[n].val = 0
    BY DEF RootsPlain
  <2>1. n \in DOMAIN hp /\ n \notin M \ {dst}
    BY <1>0, <1>5 DEF Forest
  <2> QED BY <1>0, <1>6, <2>1 DEF RootsPlain, SameNumbers
<1>15. Depths(g, roots)
  <2> SUFFICES ASSUME NEW n \in DOMAIN hp \ roots PROVE DepthsFit(g[g[n].root], g[n])
    BY <1>12 DEF Depths
  <2>1. CASE n \notin M \ {dst}
    <3>1. g[n].root = hp[n].root /\ hp[n].root \in DOMAIN hp /\ hp[n].root \notin M
      BY <1>7, <2>1
    <3>2. SameNumbers(hp[n], g[n]) /\ SameNumbers(hp[hp[n].root], g[hp[n].root])
      BY <1>6, <2>1, <3>1
    <3>3. DepthsFit(hp[hp[n].root], hp[n])
      BY <1>0 DEF Depths
    <3> QED BY <3>1, <3>2, <3>3 DEF DepthsFit, SameNumbers
  <2>2. CASE n \in M \ {dst}
    <3> DEFINE p == hq[n].root
    <3>1. p \in DOMAIN hp /\ g[n].root = p /\ g[n].bin = hp[n].bin /\ g[n].tern = hp[n].tern
      BY <1>5, <2>2
    <3>2. IsNode(hp[n]) /\ IsNode(g[p]) /\ IsNode(g[n])
      BY <1>0, <1>3, <1>12, <3>1 DEF IsHeap
    <3>3. CASE hp[n].bin
      <4>1. g[n].bd = g[p].bd + 1 /\ g[n].td = g[p].td /\ g[n].qd = g[p].qd
        BY <1>5, <2>2, <3>3
      <4>2. ~hp[n].tern /\ g[p].bd \in Nat /\ g[p].td \in Nat /\ g[p].qd \in Nat
        BY <3>2, <3>3 DEF IsNode
      <4> HIDE DEF p
      <4> QED BY <3>1, <3>3, <4>1, <4>2 DEF DepthsFit
    <3>4. CASE ~hp[n].bin /\ hp[n].tern
      <4>1. g[n].bd = g[p].bd /\ g[n].td = g[p].td + 1 /\ g[n].qd = g[p].qd
        BY <1>5, <2>2, <3>4
      <4>2. g[p].bd \in Nat /\ g[p].td \in Nat /\ g[p].qd \in Nat
        BY <3>2 DEF IsNode
      <4> HIDE DEF p
      <4> QED BY <3>1, <3>4, <4>1, <4>2 DEF DepthsFit
    <3>5. CASE IsQuad(hp[n])
      <4>1. g[n].bd = hp[n].bd /\ g[n].td = hp[n].td /\ g[n].qd = g[p].qd + 1
        BY <1>5, <2>2, <3>5
      <4>2. /\ hp[n].bd = 0 /\ hp[n].td = 0 /\ hp[p].bd = 0 /\ hp[p].td = 0
            /\ p \in roots \/ IsQuad(hp[p])
        BY <1>9, <3>5
      <4>3. g[p].bd = 0 /\ g[p].td = 0
        BY <1>10, <3>1, <4>2
      <4> HIDE DEF p
      <4> QED BY <3>1, <3>2, <3>5, <4>1, <4>2, <4>3 DEF DepthsFit, IsNode, IsQuad
    <3> QED BY <3>3, <3>4, <3>5 DEF IsQuad
  <2> QED BY <2>1, <2>2
<1>16. \A m \in DOMAIN hp : (m \notin M \ {dst} => g[m] = hq[m]) /\ g[m].val = hp[m].val
  BY <1>5, <1>6 DEF SameNumbers
<1> QED BY <1>3, <1>4, <1>13, <1>14, <1>15, <1>16 DEF g, hq

\* Heaps with the same trees have the same nodes below one.
LEMMA AlikeInTree ==
  ASSUME NEW hp, NEW hq, Alike(hp, hq), NEW roots, NEW n \in DOMAIN hp, NEW M, InTree(hp, roots, n, M)
  PROVE  InTree(hq, roots, n, M)
<1>1. \A m : LeavesOf(hq, m) = LeavesOf(hp, m)
  BY AlikeForest
<1>2. DOMAIN hq = DOMAIN hp /\ \A m \in DOMAIN hp : hq[m].root = hp[m].root /\ Size(hq[m]) = Size(hp[m])
  BY DEF Alike, Size
<1> QED BY <1>1, <1>2 DEF InTree

\* rebuild_values makes the values of a heap fit whose depths do, if those outside do.
LEMMA RebuildValuesFits ==
  ASSUME NEW hp, NEW roots, IsHeap(hp), Forest(hp, roots),
         Depths(hp, roots), QuadsFirst(hp, roots), RootsPlain(hp, roots),
         NEW dst \in DOMAIN hp, NEW M, InTree(hp, roots, dst, M),
         \A n \in DOMAIN hp \ roots : n \notin M \ {dst} => ValueFits(hp[hp[n].root], hp[n])
  PROVE  LET g == RebuildValues(hp, dst)
         IN /\ TreesFit(g, roots) /\ Alike(hp, g)
            /\ \A m \in DOMAIN hp : g[m].bd = hp[m].bd /\ g[m].td = hp[m].td
<1> DEFINE v == [hp EXCEPT ![dst].val = CurVal(hp, dst)]
           g == RebuildValues(hp, dst)
<1>1. CurVal(hp, dst) = hp[dst].val
  <2>1. CASE dst \in roots
    <3>1. hp[dst].root = Null /\ hp[dst].val = 0
      BY <2>1 DEF Forest, RootsPlain
    <3> QED BY <3>1 DEF CurVal
  <2>2. CASE dst \notin roots
    <3>1. hp[dst].root \in DOMAIN hp /\ ValueFits(hp[hp[dst].root], hp[dst])
      BY <2>2 DEF Forest
    <3>2. hp[dst].root # Null
      BY <3>1 DEF IsHeap, Null
    <3> QED BY <3>1, <3>2 DEF CurVal, ValueFits
  <2> QED BY <2>1, <2>2
\* The first node already has its value.
<1>2. /\ DOMAIN v = DOMAIN hp /\ v = [m \in DOMAIN v |-> v[m]]
      /\ \A m \in DOMAIN hp : IsNode(v[m]) /\ SameNumbers(hp[m], v[m])
                              /\ v[m].root = hp[m].root /\ v[m].leaves = hp[m].leaves
  <2>1. DOMAIN v = DOMAIN hp /\ v = [m \in DOMAIN v |-> v[m]]
    OBVIOUS
  <2>2. ASSUME NEW m \in DOMAIN hp
        PROVE  IsNode(v[m]) /\ SameNumbers(hp[m], v[m])
               /\ v[m].root = hp[m].root /\ v[m].leaves = hp[m].leaves
    <3>1. IsNode(hp[m])
      BY DEF IsHeap
    <3>2. CASE m # dst
      BY <3>1, <3>2 DEF SameNumbers
    <3>3. CASE m = dst
      <4>1. v[m] = [hp[m] EXCEPT !.val = CurVal(hp, dst)]
        BY <3>3
      <4> HIDE DEF v
      <4> QED BY <1>1, <3>1, <3>3, <4>1, WithValueIsNode DEF SameNumbers
    <3> QED BY <3>2, <3>3
  <2> QED BY <2>1, <2>2
<1> HIDE DEF v
<1>3. IsHeap(v) /\ Alike(hp, v)
  BY <1>2 DEF IsHeap, Alike, SameNumbers
<1>4. Forest(v, roots) /\ InTree(v, roots, dst, M)
  BY <1>3, AlikeForest, AlikeInTree
<1>5. /\ IsHeap(g) /\ Alike(v, g)
      /\ \A m \in DOMAIN hp :
           g[m] = IF m \in M \ {dst}
                  THEN [v[m] EXCEPT !.val = Step(g[v[m].root].val, g[v[m].root].h, v[m])] ELSE v[m]
  <2>1. "values" \in Tasks
    BY DEF Tasks
  <2> DEFINE d == Descend("values", v, dst).heap
  <2>2. IsHeap(d) /\ Alike(v, d)
    BY <1>2, <1>3, <1>4, <2>1, DescendRenews
  <2>3. PICK N : /\ InTree(v, roots, dst, N)
                 /\ \A m \in DOMAIN v :
                      d[m] = IF m \in N \ {dst} THEN Renewed("values", d[v[m].root], v[m]) ELSE v[m]
    BY <1>2, <1>3, <1>4, <2>1, DescendRenews
  <2>4. M = N
    BY <1>2, <1>3, <1>4, <2>3, OneTree
  <2>5. \A p, c : Renewed("values", p, c) = [c EXCEPT !.val = Step(p.val, p.h, c)]
    BY DEF Renewed
  <2>6. g = d
    BY DEF RebuildValues, v
  <2> HIDE DEF d, g
  <2> QED BY <1>2, <2>2, <2>3, <2>4, <2>5, <2>6
<1> HIDE DEF g
<1>6. DOMAIN g = DOMAIN hp /\ Alike(hp, g)
  BY <1>2, <1>3, <1>5 DEF Alike
<1>7. Forest(g, roots)
  BY <1>6, AlikeForest
<1>8. ASSUME NEW m \in DOMAIN hp
      PROVE  /\ g[m].w = hp[m].w /\ g[m].h = hp[m].h /\ g[m].root = hp[m].root
             /\ g[m].bin = hp[m].bin /\ g[m].tern = hp[m].tern
             /\ g[m].qd = hp[m].qd /\ g[m].bd = hp[m].bd /\ g[m].td = hp[m].td
             /\ IF m \in M \ {dst} THEN g[m].val = Step(g[hp[m].root].val, g[hp[m].root].h, hp[m])
                ELSE g[m].val = hp[m].val
  <2>1. IsNode(v[m]) /\ SameNumbers(hp[m], v[m]) /\ v[m].root = hp[m].root
    BY <1>2
  <2>2. CASE m \notin M \ {dst}
    <3>1. g[m] = v[m]
      BY <1>5, <2>2
    <3> QED BY <2>1, <2>2, <3>1 DEF SameNumbers
  <2>3. CASE m \in M \ {dst}
    <3> DEFINE x == Step(g[v[m].root].val, g[v[m].root].h, v[m])
    <3>1. g[m] = [v[m] EXCEPT !.val = x]
      BY <1>5, <2>3
    <3>2. x = Step(g[hp[m].root].val, g[hp[m].root].h, hp[m])
      BY <2>1 DEF Step, SameNumbers
    <3> HIDE DEF x
    <3>3. /\ g[m].val = x /\ g[m].w = v[m].w /\ g[m].h = v[m].h /\ g[m].root = v[m].root
          /\ g[m].bin = v[m].bin /\ g[m].tern = v[m].tern
          /\ g[m].bd = v[m].bd /\ g[m].td = v[m].td /\ g[m].qd = v[m].qd
      BY <2>1, <3>1, WithValueIsNode
    <3> QED BY <2>1, <2>3, <3>2, <3>3 DEF SameNumbers
  <2> QED BY <2>2, <2>3
<1>9. \A n \in DOMAIN hp \ roots : hp[n].root \in DOMAIN hp
  BY DEF Forest
<1>10. roots \subseteq DOMAIN hp /\ \A n \in roots : n \notin M \ {dst}
  BY DEF Forest, InTree
<1>11. Depths(g, roots)
  <2> SUFFICES ASSUME NEW n \in DOMAIN hp \ roots PROVE DepthsFit(g[g[n].root], g[n])
    BY <1>6 DEF Depths
  <2>1. DepthsFit(hp[hp[n].root], hp[n])
    BY DEF Depths
  <2> QED BY <1>8, <1>9, <2>1 DEF DepthsFit
<1>12. QuadsFirst(g, roots)
  <2> SUFFICES ASSUME NEW n \in DOMAIN hp \ roots, IsQuad(g[n])
               PROVE  /\ g[n].bd = 0 /\ g[n].td = 0
                      /\ g[n].root \in roots \/ IsQuad(g[g[n].root])
    BY <1>6 DEF QuadsFirst
  <2>1. IsQuad(hp[n])
    BY <1>8 DEF IsQuad
  <2>2. hp[n].bd = 0 /\ hp[n].td = 0 /\ (hp[n].root \in roots \/ IsQuad(hp[hp[n].root]))
    BY <2>1 DEF QuadsFirst
  <2> QED BY <1>8, <1>9, <2>2 DEF IsQuad
<1>13. RootsPlain(g, roots)
  <2> SUFFICES ASSUME NEW n \in roots PROVE g[n].bd = 0 /\ g[n].td = 0 /\ g[n].val = 0
    BY DEF RootsPlain
  <2> QED BY <1>8, <1>10 DEF RootsPlain
<1>14. Values(g, roots)
  <2> SUFFICES ASSUME NEW n \in DOMAIN hp \ roots PROVE ValueFits(g[g[n].root], g[n])
    BY <1>6 DEF Values
  <2> DEFINE p == hp[n].root
  <2>1. p \in DOMAIN hp /\ g[n].root = p
    BY <1>8, <1>9
  <2>2. \A a, b : Step(a, b, g[n]) = Step(a, b, hp[n])
    BY <1>8 DEF Step
  <2>3. CASE n \in M \ {dst}
    BY <1>8, <2>1, <2>2, <2>3 DEF ValueFits
  <2>4. CASE n \notin M \ {dst}
    <3>1. p \notin M \ {dst}
      BY <2>4, ParentOutside
    <3>2. ValueFits(hp[p], hp[n])
      BY <2>4
    <3>3. g[n].val = hp[n].val /\ g[p].val = hp[p].val /\ g[p].h = hp[p].h
      BY <1>8, <2>1, <2>4, <3>1
    <3> QED BY <2>1, <2>2, <3>2, <3>3 DEF ValueFits
  <2> QED BY <2>3, <2>4
<1> QED BY <1>5, <1>6, <1>7, <1>8, <1>11, <1>12, <1>13, <1>14 DEF g, TreesFit

\* transfer_leaves leaves fitting trees, with the leaves of one at another node.
LEMMA TransferFits ==
  ASSUME NEW hp, NEW roots, TreesFit(hp, roots), NEW src, NEW dst, Explores(hp, roots, src, dst)
  PROVE  LET g == Transfer(hp, src, dst)
         IN /\ TreesFit(g, roots) /\ DOMAIN g = DOMAIN hp
            /\ \A m \in DOMAIN hp :
                 /\ g[m].w = hp[m].w /\ g[m].h = hp[m].h
                 /\ g[m].bin = hp[m].bin /\ g[m].tern = hp[m].tern
                 /\ g[m].leaves = IF m = dst THEN hp[src].leaves
                                  ELSE IF m = src THEN <<>> ELSE hp[m].leaves
                 /\ m \notin Below(hp, src) => g[m].bd = hp[m].bd /\ g[m].td = hp[m].td
<1> DEFINE hq == Rehang(hp, src, dst)
           r == RebuildDepths(hq, dst)
           g == RebuildValues(r, dst)
           moved == LeavesOf(hp, src)
<1>0. IsHeap(hp) /\ Forest(hp, roots) /\ Values(hp, roots)
  BY DEF TreesFit
<1>1. /\ IsHeap(hq) /\ Forest(hq, roots) /\ DOMAIN hq = DOMAIN hp
      /\ \A m \in DOMAIN hp :
           /\ SameNumbers(hp[m], hq[m])
           /\ hq[m].root = IF m \in moved THEN dst ELSE hp[m].root
           /\ hq[m].leaves = IF m = dst THEN hp[src].leaves
                             ELSE IF m = src THEN <<>> ELSE hp[m].leaves
  BY <1>0, RehangFits
<1>2. /\ IsHeap(r) /\ Forest(r, roots) /\ Alike(hq, r)
      /\ Depths(r, roots) /\ QuadsFirst(r, roots) /\ RootsPlain(r, roots)
  BY RebuildDepthsFits
<1>3. PICK M : /\ InTree(hq, roots, dst, M)
               /\ \A m \in DOMAIN hp : /\ m \notin M \ {dst} => r[m] = hq[m]
                                       /\ r[m].val = hp[m].val
  BY RebuildDepthsFits
<1>4. dst \in DOMAIN hp /\ src \in DOMAIN hp
  BY <1>0 DEF Explores, Forest
<1>5. M \ {dst} \subseteq Below(hp, src)
  <2>1. InTree(hp, roots, src, Below(hp, src))
    BY <1>0, <1>4, BelowTree
  <2> QED BY <1>0, <1>3, <2>1, RehungBelow
<1>6. Transfer(hp, src, dst) = g
  BY DEF Transfer
<1> HIDE DEF hq, r, moved
<1>7. DOMAIN r = DOMAIN hp /\ \A m \in DOMAIN hp : r[m].root = hq[m].root /\ r[m].leaves = hq[m].leaves
                                                  /\ r[m].w = hq[m].w /\ r[m].h = hq[m].h
                                                  /\ r[m].bin = hq[m].bin /\ r[m].tern = hq[m].tern
  BY <1>1, <1>2 DEF Alike
<1>8. InTree(r, roots, dst, M)
  BY <1>1, <1>2, <1>3, <1>4, AlikeInTree
<1>9. ASSUME NEW n \in DOMAIN r \ roots, n \notin M \ {dst} PROVE ValueFits(r[r[n].root], r[n])
  <2>1. hq[n].root \in DOMAIN hq \ M
    BY <1>1, <1>3, <1>4, <1>7, <1>9, ParentOutside
  <2>2. dst \in M
    BY <1>3 DEF InTree
  <2> DEFINE p == hp[n].root
  <2>3. r[n].root = p /\ p \in DOMAIN hp /\ p \notin M
    BY <1>1, <1>7, <1>9, <2>1, <2>2
  <2>4. r[n] = hq[n] /\ r[p] = hq[p] /\ SameNumbers(hp[n], hq[n]) /\ SameNumbers(hp[p], hq[p])
    BY <1>1, <1>3, <1>7, <1>9, <2>3
  <2>5. ValueFits(hp[p], hp[n])
    BY <1>0, <1>7, <1>9 DEF Values
  <2> HIDE DEF p
  <2> QED BY <2>3, <2>4, <2>5 DEF ValueFits, Step, SameNumbers
<1>10. /\ TreesFit(g, roots) /\ Alike(r, g)
       /\ \A m \in DOMAIN r : g[m].bd = r[m].bd /\ g[m].td = r[m].td
  BY <1>2, <1>4, <1>7, <1>8, <1>9, RebuildValuesFits
<1> HIDE DEF g
<1>11. DOMAIN g = DOMAIN hp
  BY <1>7, <1>10 DEF Alike
<1>12. ASSUME NEW m \in DOMAIN hp
       PROVE  /\ g[m].w = hp[m].w /\ g[m].h = hp[m].h
              /\ g[m].bin = hp[m].bin /\ g[m].tern = hp[m].tern
              /\ g[m].leaves = IF m = dst THEN hp[src].leaves
                               ELSE IF m = src THEN <<>> ELSE hp[m].leaves
              /\ m \notin Below(hp, src) => g[m].bd = hp[m].bd /\ g[m].td = hp[m].td
  <2>1. SameNumbers(hp[m], hq[m])
    BY <1>1
  <2>2. g[m].w = hp[m].w /\ g[m].h = hp[m].h /\ g[m].bin = hp[m].bin /\ g[m].tern = hp[m].tern
    BY <1>7, <1>10, <2>1 DEF Alike, SameNumbers
  <2>3. g[m].leaves = hq[m].leaves
    BY <1>7, <1>10 DEF Alike
  <2>4. ASSUME m \notin Below(hp, src) PROVE g[m].bd = hp[m].bd /\ g[m].td = hp[m].td
    <3>1. r[m] = hq[m]
      BY <1>3, <1>5, <2>4
    <3> QED BY <1>7, <1>10, <2>1, <3>1 DEF SameNumbers
  <2> QED BY <1>1, <2>2, <2>3, <2>4
<1> QED BY <1>6, <1>10, <1>11, <1>12

(* ------------------------- deleting and splitting trees ---------------------- *)

\* What is left when whole trees are destroyed are the other trees, as they were.
LEMMA DeleteFits ==
  ASSUME NEW hp, NEW roots, TreesFit(hp, roots), NEW gone, gone \subseteq roots
  PROVE  LET g == Delete(hp, gone)
         IN /\ TreesFit(g, roots \ gone) /\ DOMAIN g \subseteq DOMAIN hp
            /\ \A m \in DOMAIN g : g[m] = hp[m]
<1> DEFINE g == Delete(hp, gone)
           lost == UNION {Below(hp, t) : t \in gone}
<1>0. /\ IsHeap(hp) /\ Forest(hp, roots) /\ Depths(hp, roots) /\ Values(hp, roots)
      /\ QuadsFirst(hp, roots) /\ RootsPlain(hp, roots)
  BY DEF TreesFit
<1>1. DOMAIN g = DOMAIN hp \ lost /\ g = [m \in DOMAIN g |-> g[m]] /\ \A m \in DOMAIN g : g[m] = hp[m]
  BY DEF Delete
<1>2. ASSUME NEW t \in gone PROVE InTree(hp, roots, t, Below(hp, t))
  <2>1. t \in DOMAIN hp
    BY <1>0 DEF Forest
  <2> QED BY <1>0, <2>1, BelowTree
<1>3. gone \subseteq lost
  BY <1>2 DEF InTree
<1>4. ASSUME NEW n \in roots, n \in lost PROVE n \in gone
  <2>1. PICK t \in gone : n \in Below(hp, t)
    BY <1>4
  <2> QED BY <1>2, <2>1 DEF InTree
\* A node and its parent are lost together.
<1>5. ASSUME NEW n \in DOMAIN hp \ roots PROVE n \in lost <=> hp[n].root \in lost
  <2>1. hp[n].root \in DOMAIN hp /\ n \in LeavesOf(hp, hp[n].root)
    BY <1>0 DEF Forest
  <2>2. ASSUME NEW t \in gone PROVE n \in Below(hp, t) <=> hp[n].root \in Below(hp, t)
    <3>1. n # t
      OBVIOUS
    <3> QED BY <1>2, <2>1, <3>1 DEF InTree
  <2> QED BY <2>2
<1> HIDE DEF g, lost
<1>6. ASSUME NEW n \in DOMAIN g \ (roots \ gone)
      PROVE  n \in DOMAIN hp \ roots /\ hp[n].root \in DOMAIN g
  <2>1. n \in DOMAIN hp \ roots
    BY <1>1, <1>3
  <2>2. hp[n].root \in DOMAIN hp
    BY <1>0, <2>1 DEF Forest
  <2> QED BY <1>1, <1>5, <2>1, <2>2
<1>7. IsHeap(g)
  <2>1. DOMAIN g \subseteq Nat \ {0} /\ \A n \in DOMAIN g : IsNode(hp[n])
    BY <1>0, <1>1 DEF IsHeap
  <2> QED BY <1>1, <2>1 DEF IsHeap
<1>8. \A m \in DOMAIN g : LeavesOf(g, m) = LeavesOf(hp, m)
  BY <1>1 DEF LeavesOf
<1>9. Forest(g, roots \ gone)
  <2>1. roots \ gone \subseteq DOMAIN g
    BY <1>0, <1>1, <1>4 DEF Forest
  <2>2. \A n \in roots \ gone : g[n].root = Null
    BY <1>0, <1>1, <2>1 DEF Forest
  <2>3. ASSUME NEW n \in DOMAIN g \ (roots \ gone)
        PROVE  g[n].root \in DOMAIN g /\ n \in LeavesOf(g, g[n].root)
    <3>1. n \in LeavesOf(hp, hp[n].root)
      BY <1>0, <1>6 DEF Forest
    <3> QED BY <1>1, <1>6, <1>8, <3>1
  <2>4. ASSUME NEW p \in DOMAIN g, NEW n \in LeavesOf(g, p)
        PROVE  n \in DOMAIN g \ (roots \ gone) /\ g[n].root = p /\ Size(g[n]) < Size(g[p])
    <3>1. n \in DOMAIN hp \ roots /\ hp[n].root = p /\ Size(hp[n]) < Size(hp[p])
      BY <1>0, <1>1, <1>8 DEF Forest
    <3>2. n \in DOMAIN g
      BY <1>1, <1>5, <3>1
    <3> QED BY <1>1, <3>1, <3>2
  <2> QED BY <2>1, <2>2, <2>3, <2>4 DEF Forest
<1>10. Depths(g, roots \ gone)
  BY <1>0, <1>1, <1>6 DEF Depths
<1>11. Values(g, roots \ gone)
  BY <1>0, <1>1, <1>6 DEF Values
<1>12. QuadsFirst(g, roots \ gone)
  <2> SUFFICES ASSUME NEW n \in DOMAIN g \ (roots \ gone), IsQuad(g[n])
               PROVE  /\ g[n].bd = 0 /\ g[n].td = 0
                      /\ g[n].root \in roots \ gone \/ IsQuad(g[g[n].root])
    BY DEF QuadsFirst
  <2>1. hp[n].bd = 0 /\ hp[n].td = 0 /\ (hp[n].root \in roots \/ IsQuad(hp[hp[n].root]))
    BY <1>0, <1>1, <1>6 DEF QuadsFirst
  <2>2. hp[n].root \notin gone
    BY <1>1, <1>3, <1>6
  <2> QED BY <1>1, <1>6, <2>1, <2>2
<1>13. RootsPlain(g, roots \ gone)
  BY <1>0, <1>1, <1>9 DEF RootsPlain, Forest
<1> QED BY <1>1, <1>7, <1>9, <1>10, <1>11, <1>12, <1>13 DEF g, TreesFit

\* A split makes between two and four parts, each smaller than the whole.
LEMMA SizesAre ==
  ASSUME NEW w \in Nat \ {0}, NEW h \in Nat \ {0}, NEW k \in Kinds
  PROVE  LET sz == Sizes(w, h, k)
         IN /\ Len(sz) \in 2..4 /\ DOMAIN sz = 1..Len(sz)
            /\ \A i \in 1..Len(sz) : /\ sz[i][1] \in Nat /\ sz[i][2] \in Nat
                                     /\ sz[i][1] + sz[i][2] < w + h
                                     /\ sz[i] \in Range(sz)
<1>2. w \div 2 \in Nat /\ h \div 2 \in Nat /\ w \div 4 \in Nat /\ h \div 4 \in Nat
      /\ w \div 2 < w /\ h \div 2 < h /\ w \div 4 < w /\ h \div 4 < h
  OBVIOUS
<1>3. CASE k = "qt"
  <2>1. Sizes(w, h, k) = [i \in 1..4 |-> <<w \div 2, h \div 2>>]
    BY <1>3 DEF Sizes
  <2> QED BY <1>2, <2>1 DEF Range
<1>4. CASE k = "bth"
  <2>1. Sizes(w, h, k) = [i \in 1..2 |-> <<w, h \div 2>>]
    BY <1>4 DEF Sizes
  <2> QED BY <1>2, <2>1 DEF Range
<1>5. CASE k = "btv"
  <2>1. Sizes(w, h, k) = [i \in 1..2 |-> <<w \div 2, h>>]
    BY <1>5 DEF Sizes
  <2> QED BY <1>2, <2>1 DEF Range
<1>6. CASE k = "tth"
  <2>1. Sizes(w, h, k) = [i \in 1..3 |-> <<w, IF i = 2 THEN h \div 2 ELSE h \div 4>>]
    BY <1>6 DEF Sizes
  <2> QED BY <1>2, <2>1 DEF Range
<1>7. CASE k = "ttv"
  <2>1. Sizes(w, h, k) = [i \in 1..3 |-> <<IF i = 2 THEN w \div 2 ELSE w \div 4, h>>]
    BY <1>7 DEF Sizes
  <2> QED BY <1>2, <2>1 DEF Range
<1> QED BY <1>3, <1>4, <1>5, <1>6, <1>7 DEF Kinds

\* The parts that split() makes of a new temporary tree t for dst.
Parts(hp, dst, t, k) ==
  LET d == hp[dst]
  IN SplitNode(With(hp, t, NodeOf(d.w, d.h, Null, d.bin, d.tern, 0, 0, 0, 0)),
               t, k, [i \in 1..4 |-> t + i])

\* Splitting a new temporary tree adds fitting nodes and changes no other.
LEMMA SplitFits ==
  ASSUME NEW hp, NEW roots, TreesFit(hp, roots), NEW dst \in DOMAIN hp, NEW k \in Kinds,
         NEW t \in Nat \ {0}, \A n \in DOMAIN hp : n < t,
         \A size \in Range(Sizes(hp[dst].w, hp[dst].h, k)) : size[1] >= 1 /\ size[2] >= 1
  PROVE  LET g == Parts(hp, dst, t, k)
         IN /\ TreesFit(g, roots \cup {t})
            /\ \A m \in DOMAIN hp : m \in DOMAIN g /\ g[m] = hp[m]
            /\ t \in DOMAIN g \ DOMAIN hp /\ g[t].w = hp[dst].w /\ g[t].h = hp[dst].h
            /\ Len(g[t].leaves) \in 2..4
            /\ \A n \in LeavesOf(g, t) : n \in DOMAIN g \ DOMAIN hp /\ n # t /\ g[n].leaves = <<>>
                                         /\ g[n].bin = Bin(k) /\ g[n].tern = Tern(k)
            /\ \A n \in DOMAIN g : n < t + 5
<1> DEFINE d == hp[dst]
           root == NodeOf(d.w, d.h, Null, d.bin, d.tern, 0, 0, 0, 0)
           hr == With(hp, t, root)
           sz == Sizes(d.w, d.h, k)
           len == Len(sz)
           ids == [i \in 1..4 |-> t + i]
           g == Parts(hp, dst, t, k)
           blank(i) == NodeOf(sz[i][1], sz[i][2], t, Bin(k), Tern(k), 0 + (IF k = "qt" THEN 1 ELSE 0),
                              0 + (IF Bin(k) THEN 1 ELSE 0), 0 + (IF Tern(k) THEN 1 ELSE 0), 0)
           leaf(i) == [blank(i) EXCEPT !.val = Step(0, d.h, blank(i))]
<1>0. /\ IsHeap(hp) /\ Forest(hp, roots) /\ Depths(hp, roots) /\ Values(hp, roots)
      /\ QuadsFirst(hp, roots) /\ RootsPlain(hp, roots)
  BY DEF TreesFit
<1>1. IsNode(d) /\ d.w \in Nat \ {0} /\ d.h \in Nat \ {0} /\ Size(d) = d.w + d.h /\ Size(d) <= MaxDepth
  BY <1>0 DEF IsHeap, IsNode, Size
<1>2. /\ len \in 2..4 /\ DOMAIN sz = 1..len
      /\ \A i \in 1..len : /\ sz[i][1] \in Nat \ {0} /\ sz[i][2] \in Nat \ {0}
                           /\ sz[i][1] + sz[i][2] < d.w + d.h
  <2> HIDE DEF d
  <2>1. /\ len \in 2..4 /\ DOMAIN sz = 1..len
        /\ \A i \in 1..len : /\ sz[i][1] \in Nat /\ sz[i][2] \in Nat
                             /\ sz[i][1] + sz[i][2] < d.w + d.h
                             /\ sz[i] \in Range(sz)
    BY <1>1, SizesAre
  <2>2. \A size \in Range(sz) : size[1] >= 1 /\ size[2] >= 1
    BY DEF d
  <2> HIDE DEF sz
  <2> QED BY <2>1, <2>2
<1> HIDE DEF sz
<1>3. /\ DOMAIN root = NodeFields /\ root.w = d.w /\ root.h = d.h /\ root.root = Null
      /\ root.leaves = <<>> /\ root.bin = d.bin /\ root.tern = d.tern
      /\ root.qd = 0 /\ root.bd = 0 /\ root.td = 0 /\ root.val = 0
  BY DEF NodeOf, NodeFields
<1>4. ASSUME NEW i \in 1..len
      PROVE  /\ DOMAIN leaf(i) = NodeFields /\ leaf(i).w = sz[i][1] /\ leaf(i).h = sz[i][2]
             /\ leaf(i).root = t /\ leaf(i).leaves = <<>> /\ leaf(i).bin = Bin(k) /\ leaf(i).tern = Tern(k)
             /\ leaf(i).qd = (IF k = "qt" THEN 1 ELSE 0) /\ leaf(i).bd = (IF Bin(k) THEN 1 ELSE 0)
             /\ leaf(i).td = (IF Tern(k) THEN 1 ELSE 0) /\ leaf(i).val = Step(0, d.h, leaf(i))
  <2>1. /\ DOMAIN blank(i) = NodeFields /\ blank(i).w = sz[i][1] /\ blank(i).h = sz[i][2]
        /\ blank(i).root = t /\ blank(i).leaves = <<>> /\ blank(i).bin = Bin(k) /\ blank(i).tern = Tern(k)
        /\ blank(i).qd = (IF k = "qt" THEN 1 ELSE 0) /\ blank(i).bd = (IF Bin(k) THEN 1 ELSE 0)
        /\ blank(i).td = (IF Tern(k) THEN 1 ELSE 0)
    BY DEF NodeOf, NodeFields
  <2> DEFINE x == Step(0, d.h, blank(i))
             l == [blank(i) EXCEPT !.val = x]
  <2>2. leaf(i) = l
    OBVIOUS
  <2> HIDE DEF blank, x, leaf, d
  <2>3. /\ DOMAIN l = NodeFields /\ l.w = sz[i][1] /\ l.h = sz[i][2]
        /\ l.root = t /\ l.leaves = <<>> /\ l.bin = Bin(k) /\ l.tern = Tern(k)
        /\ l.qd = (IF k = "qt" THEN 1 ELSE 0) /\ l.bd = (IF Bin(k) THEN 1 ELSE 0)
        /\ l.td = (IF Tern(k) THEN 1 ELSE 0) /\ l.val = x
    BY <2>1 DEF NodeFields
  <2> HIDE DEF l
  <2>4. Step(0, d.h, blank(i)) = Step(0, d.h, l)
    BY <2>1, <2>3 DEF Step
  <2> QED BY <2>2, <2>3, <2>4 DEF x
<1>5. t \notin DOMAIN hp /\ \A i \in 1..len : i \in 1..4 /\ ids[i] = t + i
  <2>1. t \notin DOMAIN hp
    <3> SUFFICES ASSUME t \in DOMAIN hp PROVE FALSE
      OBVIOUS
    <3>1. t < t
      OBVIOUS
    <3> QED BY <3>1
  <2>2. ASSUME NEW i \in 1..len PROVE i \in 1..4 /\ ids[i] = t + i
    <3> HIDE DEF len
    <3>1. len \in Nat /\ len <= 4
      BY <1>2
    <3> QED BY <3>1
  <2> QED BY <2>1, <2>2
<1>6. DOMAIN hr = DOMAIN hp \cup {t} /\ hr[t] = root /\ \A m \in DOMAIN hp : hr[m] = hp[m]
  BY <1>5 DEF With
<1> DEFINE new == {ids[i] : i \in 1..len}
           G(m) == IF m = t THEN [hr[t] EXCEPT !.leaves = [i \in 1..len |-> ids[i]]]
                   ELSE IF m \in DOMAIN hr THEN hr[m] ELSE leaf(CHOOSE i \in 1..len : ids[i] = m)
<1>7. g = [m \in DOMAIN hr \cup new |-> G(m)]
  <2> DEFINE sy == Sizes(hr[t].w, hr[t].h, k)
             y(i) == NodeOf(sy[i][1], sy[i][2], t, Bin(k), Tern(k),
                            hr[t].qd + (IF k = "qt" THEN 1 ELSE 0),
                            hr[t].bd + (IF Bin(k) THEN 1 ELSE 0),
                            hr[t].td + (IF Tern(k) THEN 1 ELSE 0), 0)
             z(i) == [y(i) EXCEPT !.val = Step(hr[t].val, hr[t].h, y(i))]
             H(m) == IF m = t THEN [hr[t] EXCEPT !.leaves = [i \in 1..Len(sy) |-> ids[i]]]
                     ELSE IF m \in DOMAIN hr THEN hr[m] ELSE z(CHOOSE i \in 1..Len(sy) : ids[i] = m)
  <2>1. SplitNode(hr, t, k, ids) = [m \in DOMAIN hr \cup {ids[i] : i \in 1..Len(sy)} |-> H(m)]
    BY DEF SplitNode
  <2>2. /\ hr[t].w = d.w /\ hr[t].h = d.h /\ hr[t].qd = 0 /\ hr[t].bd = 0 /\ hr[t].td = 0
        /\ hr[t].val = 0
    BY <1>3, <1>6
  <2>3. sy = sz
    BY <2>2 DEF sz
  <2>4. g = SplitNode(hr, t, k, ids)
    BY DEF Parts
  <2> HIDE DEF hr, sy, ids, g, d
  <2>5. \A i : z(i) = leaf(i)
    BY <2>2, <2>3
  <2> HIDE DEF z, leaf
  <2>6. \A m : H(m) = G(m)
    BY <2>3, <2>5
  <2> HIDE DEF H, G
  <2> QED BY <2>1, <2>3, <2>4, <2>6
<1> HIDE DEF hr, root, leaf
<1>8. ASSUME NEW i \in 1..len
      PROVE  t + i \in DOMAIN g /\ t + i \notin DOMAIN hp /\ g[t + i] = leaf(i) /\ t + i < t + 5 /\ t + i # t
  <2>0. i \in 1..4
    BY <1>5
  <2>1. t + i \notin DOMAIN hp /\ t + i # t /\ t + i < t + 5
    BY <2>0
  <2>2. (CHOOSE j \in 1..len : ids[j] = t + i) = i
    <3>1. \A j \in 1..len : ids[j] = t + i <=> j = i
      BY <1>2, <1>5
    <3> HIDE DEF ids
    <3> QED BY <3>1
  <2>3. t + i \in DOMAIN g /\ g[t + i] = G(t + i)
    BY <1>5, <1>7
  <2>4. G(t + i) = leaf(CHOOSE j \in 1..len : ids[j] = t + i)
    BY <1>6, <2>1
  <2> HIDE DEF G, g, ids
  <2> QED BY <2>1, <2>2, <2>3, <2>4
<1>9. DOMAIN g = DOMAIN hp \cup {t} \cup {t + i : i \in 1..len}
  <2>1. new = {t + i : i \in 1..len}
    BY <1>5
  <2> HIDE DEF new, G, g
  <2> QED BY <1>6, <1>7, <2>1
<1>10. ASSUME NEW m \in DOMAIN hp PROVE m \in DOMAIN g /\ g[m] = hp[m]
  <2>1. m # t /\ m \in DOMAIN hr /\ G(m) = hr[m]
    BY <1>5, <1>6
  <2> HIDE DEF G, g, new
  <2> QED BY <1>6, <1>7, <2>1
<1> DEFINE sub == [i \in 1..len |-> t + i]
<1>11. sub \in Seq(Nat) /\ IsInjective(sub) /\ Len(sub) = len /\ Range(sub) = {t + i : i \in 1..len}
  <2>1. len \in Nat
    BY <1>2
  <2> HIDE DEF len
  <2> QED BY <2>1 DEF IsInjective, Range
<1>12. /\ IsNode(g[t]) /\ SameNumbers(root, g[t]) /\ g[t].root = Null /\ g[t].leaves = sub
  <2>1. g[t] = [root EXCEPT !.leaves = sub]
    <3>1. sub = [i \in 1..len |-> ids[i]]
      BY <1>5
    <3>2. G(t) = [root EXCEPT !.leaves = [i \in 1..len |-> ids[i]]]
      BY <1>6
    <3> HIDE DEF G, g, new, sub, ids
    <3> QED BY <1>6, <1>7, <3>1, <3>2
  <2>2. IsNode(root)
    <3>1. <<>> \in Seq(Nat) /\ IsInjective(<<>>)
      BY DEF IsInjective
    <3>2. Size(root) = Size(d)
      BY <1>3 DEF Size
    <3> DEFINE e == <<>>
    <3>3. e \in Seq(Nat) /\ IsInjective(e) /\ root.leaves = e
      BY <1>3, <3>1
    <3> HIDE DEF e, d
    <3> QED BY <1>1, <1>3, <3>2, <3>3 DEF IsNode
  <2> HIDE DEF sub, g
  <2> QED BY <1>3, <1>11, <2>1, <2>2, WithLeavesIsNode
<1> HIDE DEF g, sub, new, G, ids
<1>13. ASSUME NEW i \in 1..len PROVE IsNode(leaf(i)) /\ Size(leaf(i)) < Size(d)
  <2>1. Size(leaf(i)) = sz[i][1] + sz[i][2]
    BY <1>4 DEF Size
  <2> DEFINE e == <<>>
  <2>2. e \in Seq(Nat) /\ IsInjective(e) /\ leaf(i).leaves = e
    BY <1>4 DEF IsInjective
  <2>3. Bin(k) \in BOOLEAN /\ Tern(k) \in BOOLEAN /\ ~(Bin(k) /\ Tern(k))
    BY DEF Bin, Tern
  <2>4. leaf(i).qd \in Nat /\ leaf(i).bd \in Nat /\ leaf(i).td \in Nat
    BY <1>4
  <2>5. leaf(i).w \in Nat \ {0} /\ leaf(i).h \in Nat \ {0}
    BY <1>2, <1>4
  <2>6. Size(leaf(i)) < Size(d) /\ Size(leaf(i)) <= MaxDepth
    BY <1>1, <1>2, <2>1, DepthNat
  <2> HIDE DEF e, d
  <2> QED BY <1>4, <2>2, <2>3, <2>4, <2>5, <2>6 DEF IsNode
<1>14. Size(g[t]) = Size(d)
  BY <1>3, <1>12 DEF SameNumbers, Size
<1>15. IsHeap(g)
  <2>1. g = [m \in DOMAIN g |-> g[m]]
    BY <1>7
  <2>2. DOMAIN g \subseteq Nat \ {0}
    BY <1>0, <1>2, <1>9 DEF IsHeap
  <2>3. ASSUME NEW m \in DOMAIN g PROVE IsNode(g[m])
    BY <1>0, <1>8, <1>9, <1>10, <1>12, <1>13 DEF IsHeap
  <2> QED BY <2>1, <2>2, <2>3 DEF IsHeap
<1>16. /\ \A m \in DOMAIN hp : LeavesOf(g, m) = LeavesOf(hp, m)
       /\ LeavesOf(g, t) = {t + i : i \in 1..len}
       /\ \A i \in 1..len : LeavesOf(g, t + i) = {}
  <2>1. \A m \in DOMAIN hp : LeavesOf(g, m) = LeavesOf(hp, m)
    BY <1>10 DEF LeavesOf
  <2>2. LeavesOf(g, t) = {t + i : i \in 1..len}
    BY <1>9, <1>11, <1>12 DEF LeavesOf
  <2>3. \A i \in 1..len : LeavesOf(g, t + i) = {}
    BY <1>4, <1>8 DEF LeavesOf, Range
  <2> QED BY <2>1, <2>2, <2>3
<1>17. ASSUME NEW n \in DOMAIN g \ (roots \cup {t})
       PROVE  \/ n \in DOMAIN hp \ roots /\ g[n] = hp[n]
                 /\ hp[n].root \in DOMAIN hp /\ g[hp[n].root] = hp[hp[n].root]
              \/ \E i \in 1..len : n = t + i
  BY <1>0, <1>9, <1>10 DEF Forest
<1>18. roots \subseteq DOMAIN hp
  BY <1>0 DEF Forest
<1>19. Forest(g, roots \cup {t})
  <2>1. roots \cup {t} \subseteq DOMAIN g
    BY <1>9, <1>18
  <2>2. \A n \in roots \cup {t} : g[n].root = Null
    BY <1>0, <1>10, <1>12, <1>18 DEF Forest
  <2>3. ASSUME NEW n \in DOMAIN g \ (roots \cup {t})
        PROVE  g[n].root \in DOMAIN g /\ n \in LeavesOf(g, g[n].root)
    <3>1. CASE n \in DOMAIN hp \ roots
      <4>1. hp[n].root \in DOMAIN hp /\ n \in LeavesOf(hp, hp[n].root)
        BY <1>0, <3>1 DEF Forest
      <4> QED BY <1>9, <1>10, <1>16, <3>1, <4>1
    <3>2. ASSUME NEW i \in 1..len, n = t + i PROVE g[n].root \in DOMAIN g /\ n \in LeavesOf(g, g[n].root)
      BY <1>4, <1>8, <1>9, <1>16, <3>2
    <3> QED BY <1>17, <3>1, <3>2
  <2>4. ASSUME NEW p \in DOMAIN g, NEW n \in LeavesOf(g, p)
        PROVE  n \in DOMAIN g \ (roots \cup {t}) /\ g[n].root = p /\ Size(g[n]) < Size(g[p])
    <3>1. CASE p \in DOMAIN hp
      <4>1. n \in DOMAIN hp \ roots /\ hp[n].root = p /\ Size(hp[n]) < Size(hp[p])
        BY <1>0, <1>16, <3>1 DEF Forest
      <4> QED BY <1>5, <1>10, <3>1, <4>1
    <3>2. CASE p = t
      <4>1. PICK i \in 1..len : n = t + i
        BY <1>16, <3>2
      <4> QED BY <1>4, <1>8, <1>13, <1>14, <1>18, <3>2, <4>1
    <3>3. CASE \E i \in 1..len : p = t + i
      BY <1>16, <3>3
    <3> QED BY <1>9, <3>1, <3>2, <3>3
  <2> QED BY <2>1, <2>2, <2>3, <2>4 DEF Forest
<1>20. ASSUME NEW i \in 1..len
       PROVE  /\ g[t + i].root = t /\ DepthsFit(g[t], g[t + i]) /\ ValueFits(g[t], g[t + i])
              /\ IsQuad(g[t + i]) => g[t + i].bd = 0 /\ g[t + i].td = 0
  <2>1. g[t + i] = leaf(i)
    BY <1>8
  <2>2. g[t].qd = 0 /\ g[t].bd = 0 /\ g[t].td = 0 /\ g[t].val = 0 /\ g[t].h = d.h
    BY <1>3, <1>12 DEF SameNumbers
  <2>3. (k = "qt") <=> (~Bin(k) /\ ~Tern(k))
    BY DEF Bin, Tern, Kinds
  <2>4. DepthsFit(g[t], leaf(i))
    <3> HIDE DEF d
    <3> QED BY <1>4, <2>2, <2>3 DEF DepthsFit
  <2>5. ValueFits(g[t], leaf(i))
    BY <1>4, <2>2 DEF ValueFits
  <2> QED BY <1>4, <2>1, <2>4, <2>5 DEF IsQuad
<1>21. Depths(g, roots \cup {t})
  BY <1>0, <1>17, <1>20 DEF Depths
<1>22. Values(g, roots \cup {t})
  BY <1>0, <1>17, <1>20 DEF Values
<1>23. QuadsFirst(g, roots \cup {t})
  <2> SUFFICES ASSUME NEW n \in DOMAIN g \ (roots \cup {t}), IsQuad(g[n])
               PROVE  /\ g[n].bd = 0 /\ g[n].td = 0
                      /\ g[n].root \in roots \cup {t} \/ IsQuad(g[g[n].root])
    BY DEF QuadsFirst
  <2>1. CASE n \in DOMAIN hp \ roots
    BY <1>0, <1>10, <2>1 DEF QuadsFirst, Forest
  <2>2. CASE \E i \in 1..len : n = t + i
    BY <1>20, <2>2
  <2> QED BY <1>17, <2>1, <2>2
<1>24. RootsPlain(g, roots \cup {t})
  <2>1. g[t].bd = 0 /\ g[t].td = 0 /\ g[t].val = 0
    BY <1>3, <1>12 DEF SameNumbers
  <2> QED BY <1>0, <1>10, <1>18, <2>1 DEF RootsPlain
<1>25. t \in DOMAIN g \ DOMAIN hp /\ g[t].w = hp[dst].w /\ g[t].h = hp[dst].h
  BY <1>3, <1>5, <1>9, <1>12 DEF SameNumbers
<1>26. Len(g[t].leaves) \in 2..4
  BY <1>2, <1>11, <1>12
<1>27. \A n \in LeavesOf(g, t) : n \in DOMAIN g \ DOMAIN hp /\ n # t /\ g[n].leaves = <<>>
                                 /\ g[n].bin = Bin(k) /\ g[n].tern = Tern(k)
  BY <1>4, <1>8, <1>16
<1>28. \A n \in DOMAIN g : n < t + 5
  <2>1. \A n \in DOMAIN hp : n \in Nat /\ n < t
    BY <1>0 DEF IsHeap
  <2> QED BY <1>8, <1>9, <2>1
<1> QED BY <1>10, <1>15, <1>19, <1>21, <1>22, <1>23, <1>24, <1>25, <1>26, <1>27, <1>28 DEF TreesFit, g

(* ---------------------------------- the stack -------------------------------- *)

RootsOf(fs) == {CtuRoot} \cup UNION {Range(fs[d].temps) : d \in 1..Len(fs)}

\* The innermost frame changes, but not its node.
LEMMA ReplaceTop ==
  ASSUME NEW hp, NEW fs, StackFits(hp, fs), Len(fs) > 0,
         NEW q, FrameFits(hp, q), q.dst = fs[Len(fs)].dst,
         \A k, l \in DOMAIN q.temps : q.temps[k] = q.temps[l] => k = l,
         \A d \in 1..(Len(fs) - 1) : \A k \in DOMAIN fs[d].temps, l \in DOMAIN q.temps :
           fs[d].temps[k] # q.temps[l]
  PROVE  LET gs == [fs EXCEPT ![Len(fs)] = q]
         IN /\ StackFits(hp, gs) /\ Len(gs) = Len(fs) /\ gs[Len(fs)] = q
            /\ \A d \in 1..(Len(fs) - 1) : gs[d] = fs[d]
<1> DEFINE L == Len(fs)
           gs == [fs EXCEPT ![L] = q]
<1>1. PICK S : fs \in Seq(S)
  BY DEF StackFits
<1>2. L \in Nat \ {0} /\ L \in 1..L
  BY <1>1
<1>3. gs \in Seq(S \cup {q}) /\ Len(gs) = L /\ gs[L] = q /\ \A d \in 1..(L - 1) : gs[d] = fs[d] /\ d \in 1..L
  BY <1>1, <1>2
<1>4. /\ \A d \in 1..L : FrameFits(hp, fs[d])
      /\ \A d \in 1..(L - 1) : CallFits(hp, fs[d], fs[d + 1].dst)
      /\ fs[1].dst = CtuRoot
      /\ \A d, e \in 1..L : \A k \in DOMAIN fs[d].temps, l \in DOMAIN fs[e].temps :
           fs[d].temps[k] = fs[e].temps[l] => d = e /\ k = l
  BY <1>2 DEF StackFits
<1> HIDE DEF gs, L
<1>5. ASSUME NEW d \in 1..L PROVE d = L \/ d \in 1..(L - 1)
  BY <1>2
<1>6. \A d \in 1..L : FrameFits(hp, gs[d]) /\ gs[d].dst = fs[d].dst
  BY <1>3, <1>4, <1>5 DEF L
<1>7. \A d \in 1..(L - 1) : CallFits(hp, gs[d], gs[d + 1].dst)
  <2> TAKE d \in 1..(L - 1)
  <2>1. d + 1 \in 1..L
    BY <1>2
  <2> QED BY <1>3, <1>4, <1>6, <2>1
<1>8. gs[1].dst = CtuRoot
  <2>1. 1 \in 1..L
    BY <1>2
  <2> QED BY <1>4, <1>6, <2>1
<1>9. ASSUME NEW d \in 1..L, NEW e \in 1..L, NEW k \in DOMAIN gs[d].temps, NEW l \in DOMAIN gs[e].temps,
             gs[d].temps[k] = gs[e].temps[l]
      PROVE  d = e /\ k = l
  <2>1. CASE d = L /\ e = L
    BY <1>3, <1>9, <2>1
  <2>2. CASE d = L /\ e \in 1..(L - 1)
    BY <1>3, <1>9, <2>2 DEF L
  <2>3. CASE d \in 1..(L - 1) /\ e = L
    BY <1>3, <1>9, <2>3 DEF L
  <2>4. CASE d \in 1..(L - 1) /\ e \in 1..(L - 1)
    <3>1. gs[d] = fs[d] /\ gs[e] = fs[e]
      BY <1>3, <2>4
    <3>2. k \in DOMAIN fs[d].temps /\ l \in DOMAIN fs[e].temps /\ fs[d].temps[k] = fs[e].temps[l]
      BY <1>9, <3>1
    <3> QED BY <1>4, <3>2
  <2> QED BY <1>5, <2>1, <2>2, <2>3, <2>4
<1>10. StackFits(hp, gs)
  BY <1>3, <1>6, <1>7, <1>8, <1>9 DEF StackFits
<1> QED BY <1>3, <1>10, Zenon DEF gs, L

\* The frame that a leaf of the split in progress gets fits.
LEMMA EnterFits ==
  ASSUME NEW hp, NEW roots, TreesFit(hp, roots), NEW f, FrameFits(hp, f), f.kind \in DOMAIN f.temps,
         NEW i \in 1..Len(hp[f.temps[f.kind]].leaves), hp[hp[f.temps[f.kind]].leaves[i]].leaves = <<>>
  PROVE  LET e == Enter(f, i, hp)
         IN FrameFits(hp, e) /\ e.dst = hp[f.temps[f.kind]].leaves[i] /\ e.temps = <<>>
<1> DEFINE t == f.temps[f.kind]
           n == hp[t].leaves[i]
           m == f.mtt + (IF f.kind = "qt" THEN 0 ELSE 1)
           e == Enter(f, i, hp)
<1>0. IsHeap(hp) /\ Forest(hp, roots) /\ QuadsFirst(hp, roots)
  BY DEF TreesFit
<1>1. t \in DOMAIN hp /\ TempFits(hp, f, f.kind) /\ f.mtt \in Nat
  BY DEF FrameFits
<1>2. n \in LeavesOf(hp, t)
  <2>1. hp[t].leaves \in Seq(Nat)
    BY <1>0, <1>1 DEF IsHeap, IsNode
  <2> QED BY <1>1, <2>1 DEF LeavesOf, Range
<1>3. n \in DOMAIN hp \ roots
  BY <1>0, <1>1, <1>2 DEF Forest
<1>4. DOMAIN e = FrameFields /\ e.dst = n /\ e.mtt = m /\ e.temps = <<>>
  BY DEF Enter, Frame, FrameFields
<1>5. ASSUME m = 0 PROVE hp[n].bd = 0 /\ hp[n].td = 0
  <2>1. f.kind = "qt"
    BY <1>1, <1>5
  <2>2. ~hp[n].bin /\ ~hp[n].tern
    BY <1>1, <1>2, <2>1 DEF TempFits, Bin, Tern
  <2> QED BY <1>0, <1>3, <2>2 DEF QuadsFirst, IsQuad
<1>6. m \in Nat /\ hp[n].leaves = <<>>
  BY <1>1
<1>7. DOMAIN e.temps = {}
  BY <1>4
<1> HIDE DEF e, n, m
<1>8. FrameFits(hp, e)
  BY <1>3, <1>4, <1>5, <1>6, <1>7 DEF FrameFits
<1> QED BY <1>4, <1>8 DEF e, n

\* xCompressCU is called for the leaf the innermost frame has come to.
LEMMA PushTop ==
  ASSUME NEW hp, NEW roots, TreesFit(hp, roots), NEW fs, StackFits(hp, fs), Len(fs) > 0,
         NEW f, f = fs[Len(fs)], NEW e, e = Enter(f, f.idx, hp),
         CallFits(hp, f, e.dst), hp[e.dst].leaves = <<>>
  PROVE  /\ StackFits(hp, Append(fs, e))
         /\ RootsOf(Append(fs, e)) = RootsOf(fs)
<1> DEFINE L == Len(fs)
           gs == Append(fs, e)
<1>1. PICK S : fs \in Seq(S)
  BY DEF StackFits
<1>2. L \in Nat \ {0} /\ L \in 1..L
  BY <1>1
<1>3. /\ gs \in Seq(S \cup {e}) /\ Len(gs) = L + 1 /\ gs[L + 1] = e
      /\ \A d \in 1..L : gs[d] = fs[d]
  BY <1>1, <1>2
<1>4. /\ \A d \in 1..L : FrameFits(hp, fs[d])
      /\ \A d \in 1..(L - 1) : CallFits(hp, fs[d], fs[d + 1].dst)
      /\ fs[1].dst = CtuRoot
      /\ \A d, c \in 1..L : \A k \in DOMAIN fs[d].temps, l \in DOMAIN fs[c].temps :
           fs[d].temps[k] = fs[c].temps[l] => d = c /\ k = l
  BY <1>2 DEF StackFits
<1>5. FrameFits(hp, e) /\ DOMAIN e.temps = {} /\ Range(e.temps) = {}
  <2>1. FrameFits(hp, f)
    BY <1>2, <1>4
  <2>2. f.kind \in DOMAIN f.temps /\ f.idx \in 1..Len(hp[f.temps[f.kind]].leaves)
        /\ hp[hp[f.temps[f.kind]].leaves[f.idx]].leaves = <<>>
    BY Zenon DEF CallFits
  <2>3. FrameFits(hp, e) /\ e.temps = <<>>
    BY <2>1, <2>2, EnterFits, Zenon
  <2> QED BY <2>3 DEF Range
<1>6. L + 1 \in 1..(L + 1) /\ \A d \in 1..(L + 1) : d = L + 1 \/ d \in 1..L
  BY <1>2
<1> HIDE DEF gs
<1>7. \A d \in 1..(L + 1) : FrameFits(hp, gs[d])
  BY <1>3, <1>4, <1>5, <1>6
<1>8. \A d \in 1..L : CallFits(hp, gs[d], gs[d + 1].dst)
  <2> TAKE d \in 1..L
  <2>1. CASE d = L
    BY <1>2, <1>3, <2>1
  <2>2. CASE d # L
    <3>1. d \in 1..(L - 1) /\ d + 1 \in 1..L
      BY <1>2, <2>2
    <3> QED BY <1>3, <1>4, <3>1
  <2> QED BY <2>1, <2>2
<1>9. gs[1].dst = CtuRoot
  <2>1. 1 \in 1..L
    BY <1>2
  <2> QED BY <1>3, <1>4, <2>1
<1>10. \A d, c \in 1..(L + 1) : \A k \in DOMAIN gs[d].temps, l \in DOMAIN gs[c].temps :
         gs[d].temps[k] = gs[c].temps[l] => d = c /\ k = l
  BY <1>3, <1>4, <1>5, <1>6
<1>11. StackFits(hp, gs)
  <2>1. (L + 1) - 1 = L
    BY <1>2
  <2> QED BY <1>3, <1>7, <1>8, <1>9, <1>10, <2>1 DEF StackFits
<1>12. RootsOf(gs) = RootsOf(fs)
  <2>1. UNION {Range(gs[d].temps) : d \in 1..(L + 1)} = UNION {Range(fs[d].temps) : d \in 1..L}
    <3>1. \A d \in 1..L : d \in 1..(L + 1)
      BY <1>2
    <3> QED BY <1>3, <1>5, <1>6, <3>1
  <2> QED BY <1>3, <2>1 DEF RootsOf
<1> QED BY <1>11, <1>12 DEF gs

\* The open trees when the innermost frame gets another temporary tree.
LEMMA ReplaceRoots ==
  ASSUME NEW fs, NEW S, fs \in Seq(S), Len(fs) > 0, NEW q, NEW X,
         Range(q.temps) = Range(fs[Len(fs)].temps) \cup X
  PROVE  RootsOf([fs EXCEPT ![Len(fs)] = q]) = RootsOf(fs) \cup X
<1> DEFINE L == Len(fs)
           gs == [fs EXCEPT ![L] = q]
<1>1. L \in 1..L /\ Len(gs) = L /\ gs[L] = q /\ \A d \in 1..L : d # L => gs[d] = fs[d]
  OBVIOUS
<1> HIDE DEF gs, L
<1>2. UNION {Range(gs[d].temps) : d \in 1..L} = (UNION {Range(fs[d].temps) : d \in 1..L}) \cup X
  <2>1. \A d \in 1..L : Range(gs[d].temps) = IF d = L THEN Range(fs[L].temps) \cup X ELSE Range(fs[d].temps)
    BY <1>1 DEF L
  <2> QED BY <1>1, <2>1
<1> QED BY <1>1, <1>2, Zenon DEF RootsOf, gs, L

\* A frame fits in another heap that has its node and its temporary trees.
LEMMA FrameKept ==
  ASSUME NEW hp, NEW g, NEW f, FrameFits(hp, f),
         f.dst \in DOMAIN g, g[f.dst].leaves = <<>>,
         g[f.dst].bd = hp[f.dst].bd, g[f.dst].td = hp[f.dst].td,
         g[f.dst].w = hp[f.dst].w, g[f.dst].h = hp[f.dst].h,
         \A k \in DOMAIN f.temps :
           LET t == f.temps[k]
           IN /\ t \in DOMAIN g /\ g[t].w = hp[t].w /\ g[t].h = hp[t].h
              /\ g[t].leaves = hp[t].leaves
              /\ \A n \in LeavesOf(hp, t) : g[n].bin = hp[n].bin /\ g[n].tern = hp[n].tern
  PROVE  FrameFits(g, f)
<1>1. ASSUME NEW k \in DOMAIN f.temps PROVE f.temps[k] \in DOMAIN g \ {CtuRoot} /\ TempFits(g, f, k)
  <2> DEFINE t == f.temps[k]
  <2>1. t \in DOMAIN hp \ {CtuRoot} /\ TempFits(hp, f, k)
    BY DEF FrameFits
  <2>2. t \in DOMAIN g /\ g[t].w = hp[t].w /\ g[t].h = hp[t].h /\ g[t].leaves = hp[t].leaves
    OBVIOUS
  <2>3. LeavesOf(g, t) = LeavesOf(hp, t)
    BY <2>1, <2>2 DEF LeavesOf
  <2>4. \A n \in LeavesOf(hp, t) : g[n].bin = hp[n].bin /\ g[n].tern = hp[n].tern
    OBVIOUS
  <2> QED BY <2>1, <2>2, <2>3, <2>4 DEF TempFits
<1> QED BY <1>1 DEF FrameFits

\* A call fits in another heap that has the temporary tree and its leaves.
LEMMA CallKept ==
  ASSUME NEW hp, NEW g, NEW f, NEW dst, CallFits(hp, f, dst),
         g[f.temps[f.kind]].leaves = hp[f.temps[f.kind]].leaves,
         \A i \in (f.idx + 1)..Len(hp[f.temps[f.kind]].leaves) :
           LET n == hp[f.temps[f.kind]].leaves[i] IN g[n].leaves = hp[n].leaves
  PROVE  CallFits(g, f, dst)
BY Zenon DEF CallFits

\* So the whole stack fits when nodes are only added.
LEMMA MoreNodes ==
  ASSUME NEW hp, NEW g, NEW roots, IsHeap(hp), Forest(hp, roots), NEW fs, StackFits(hp, fs),
         \A m \in DOMAIN hp : m \in DOMAIN g /\ g[m] = hp[m]
  PROVE  StackFits(g, fs)
<1>1. ASSUME NEW d \in 1..Len(fs) PROVE FrameFits(g, fs[d])
  <2> DEFINE f == fs[d]
  <2>1. FrameFits(hp, f)
    BY DEF StackFits
  <2> HIDE DEF f
  <2>2. f.dst \in DOMAIN hp /\ hp[f.dst].leaves = <<>>
    BY <2>1 DEF FrameFits
  <2>3. ASSUME NEW k \in DOMAIN f.temps
        PROVE  LET t == f.temps[k]
               IN /\ t \in DOMAIN g /\ g[t].w = hp[t].w /\ g[t].h = hp[t].h
                  /\ g[t].leaves = hp[t].leaves
                  /\ \A n \in LeavesOf(hp, t) : g[n].bin = hp[n].bin /\ g[n].tern = hp[n].tern
    <3>1. f.temps[k] \in DOMAIN hp
      BY <2>1 DEF FrameFits
    <3>2. \A n \in LeavesOf(hp, f.temps[k]) : n \in DOMAIN hp
      BY <3>1 DEF Forest
    <3> QED BY <3>1, <3>2
  <2>4. FrameFits(g, f)
    BY <2>1, <2>2, <2>3, FrameKept
  <2> QED BY <2>4 DEF f
<1>2. ASSUME NEW d \in 1..(Len(fs) - 1) PROVE CallFits(g, fs[d], fs[d + 1].dst)
  <2> DEFINE f == fs[d]
             t == f.temps[f.kind]
             to == fs[d + 1].dst
  <2>0. \E S : fs \in Seq(S)
    BY DEF StackFits
  <2>1. FrameFits(hp, f) /\ CallFits(hp, f, to)
    <3>1. d \in 1..Len(fs)
      BY <2>0
    <3> QED BY <3>1 DEF StackFits
  <2> HIDE DEF f, to
  <2>2. t \in DOMAIN hp /\ f.idx \in 1..Len(hp[t].leaves)
    BY <2>1 DEF FrameFits, CallFits
  <2>3. hp[t].leaves \in Seq(Nat)
    BY <2>2 DEF IsHeap, IsNode
  <2>4. \A i \in (f.idx + 1)..Len(hp[t].leaves) : hp[t].leaves[i] \in LeavesOf(hp, t)
    BY <2>2, <2>3, SMTT(20) DEF LeavesOf, Range
  <2>5. \A n \in LeavesOf(hp, t) : n \in DOMAIN hp
    BY <2>2 DEF Forest
  <2>6. CallFits(g, f, to)
    BY <2>1, <2>2, <2>4, <2>5, CallKept, Zenon
  <2> QED BY <2>6 DEF f, to
<1> QED BY <1>1, <1>2 DEF StackFits

\* Exploring a split keeps the invariant.
LEMMA TrySplitKeeps ==
  ASSUME TreeInv, NEW k \in Kinds, TrySplit(k)
  PROVE  TreeInv'
<1> DEFINE L == Len(frames)
           f == frames[L]
           d == node[f.dst]
           t == 5 * tries + 2
           hp == Parts(node, f.dst, t, k)
           q == [f EXCEPT !.temps = With(f.temps, k, t), !.kind = k, !.idx = 1]
           fs == [frames EXCEPT ![L] = q]
           e == Enter(q, 1, hp)
<1>1. PICK S : frames \in Seq(S)
  BY DEF TreeInv, StackFits
<1>2. /\ L \in Nat \ {0} /\ L \in 1..L /\ tries \in Nat
      /\ TreesFit(node, Roots) /\ IsHeap(node) /\ Forest(node, Roots) /\ StackFits(node, frames)
  <2>1. frames # <<>> /\ tries \in Nat
    BY DEF TrySplit, TreeInv
  <2> QED BY <1>1, <2>1 DEF TreeInv, TreesFit
<1>3. FrameFits(node, f) /\ f.dst \in DOMAIN node
  BY <1>2 DEF StackFits, FrameFits
<1>4. k \notin DOMAIN f.temps /\ CanSplit(f, k)
  BY DEF TrySplit, Top
<1>5. node' = hp /\ frames' = Append(fs, e) /\ tries' = tries + 1
  BY DEF TrySplit, Top, Parts
<1>6. /\ TreesFit(hp, Roots \cup {t})
      /\ \A m \in DOMAIN node : m \in DOMAIN hp /\ hp[m] = node[m]
      /\ t \in DOMAIN hp \ DOMAIN node /\ hp[t].w = d.w /\ hp[t].h = d.h
      /\ Len(hp[t].leaves) \in 2..4
      /\ \A n \in LeavesOf(hp, t) : n \in DOMAIN hp \ DOMAIN node /\ n # t /\ hp[n].leaves = <<>>
                                    /\ hp[n].bin = Bin(k) /\ hp[n].tern = Tern(k)
      /\ \A n \in DOMAIN hp : n < t + 5
  <2>1. \A n \in DOMAIN node : n < t
    BY DEF TreeInv
  <2>2. t \in Nat \ {0}
    BY <1>2
  <2>3. \A size \in Range(Sizes(d.w, d.h, k)) : size[1] >= 1 /\ size[2] >= 1
    <3>1. \A size \in Range(Sizes(d.w, d.h, k)) : size[1] >= MinSize /\ size[2] >= MinSize
      BY <1>4 DEF CanSplit
    <3>2. d.w \in Nat \ {0} /\ d.h \in Nat \ {0}
      BY <1>2, <1>3 DEF IsHeap, IsNode
    <3>3. LET sz == Sizes(d.w, d.h, k) IN DOMAIN sz = 1..Len(sz) /\ \A i \in 1..Len(sz) : sz[i][1] \in Nat /\ sz[i][2] \in Nat
      <4> HIDE DEF d
      <4> QED BY <3>2, SizesAre
    <3>4. MinSize \in Nat /\ MinSize >= 1
      BY TreeAssumption
    <3> HIDE DEF d
    <3> QED BY <3>1, <3>3, <3>4 DEF Range
  <2> HIDE DEF t, f
  <2> QED BY <1>2, <1>3, <2>1, <2>2, <2>3, SplitFits
<1> HIDE DEF hp, t
<1>7. /\ DOMAIN q = FrameFields /\ q.dst = f.dst /\ q.mtt = f.mtt /\ q.kind = k /\ q.idx = 1
      /\ q.temps = With(f.temps, k, t)
  BY <1>3 DEF FrameFits, FrameFields
<1>8. /\ DOMAIN q.temps = DOMAIN f.temps \cup {k} /\ q.temps[k] = t
      /\ \A l \in DOMAIN f.temps : q.temps[l] = f.temps[l] /\ l # k
      /\ Range(q.temps) = Range(f.temps) \cup {t}
  <2> HIDE DEF q, f
  <2>1. /\ DOMAIN q.temps = DOMAIN f.temps \cup {k} /\ q.temps[k] = t
        /\ \A l \in DOMAIN f.temps : q.temps[l] = f.temps[l] /\ l # k
    BY <1>4, <1>7 DEF With
  <2> QED BY <2>1 DEF Range
<1>9. StackFits(hp, frames)
  BY <1>2, <1>6, MoreNodes
<1>10. FrameFits(hp, f)
  BY <1>2, <1>9 DEF StackFits
<1> HIDE DEF q
<1>11. FrameFits(hp, q)
  <2>1. k = "qt" => f.mtt = 0
    BY <1>4 DEF CanSplit
  <2>2. ASSUME NEW l \in DOMAIN q.temps
        PROVE  q.temps[l] \in DOMAIN hp \ {CtuRoot} /\ TempFits(hp, q, l)
    <3>1. CASE l = k
      <4>1. CtuRoot \in DOMAIN node
        BY <1>2 DEF Forest, Roots
      <4>2. t \in DOMAIN hp \ {CtuRoot}
        BY <1>6, <4>1
      <4>3. hp[t].w = hp[f.dst].w /\ hp[t].h = hp[f.dst].h
        BY <1>3, <1>6
      <4> HIDE DEF f, d
      <4> QED BY <1>6, <1>7, <1>8, <2>1, <3>1, <4>2, <4>3 DEF TempFits
    <3>2. CASE l # k
      <4> HIDE DEF f
      <4>1. l \in DOMAIN f.temps /\ q.temps[l] = f.temps[l]
        BY <1>8, <3>2
      <4> QED BY <1>7, <1>10, <4>1 DEF FrameFits, TempFits
    <3> QED BY <3>1, <3>2
  <2> HIDE DEF f
  <2> QED BY <1>7, <1>8, <1>10, <2>2 DEF FrameFits
<1>12. ASSUME NEW c \in 1..L, NEW l \in DOMAIN frames[c].temps PROVE frames[c].temps[l] \in DOMAIN node
  <2>1. FrameFits(node, frames[c])
    BY <1>2 DEF StackFits
  <2> QED BY <2>1 DEF FrameFits
<1>13. \A l, m \in DOMAIN q.temps : q.temps[l] = q.temps[m] => l = m
  <2>1. \A l, m \in DOMAIN f.temps : f.temps[l] = f.temps[m] => l = m
    BY <1>2 DEF StackFits
  <2>2. \A l \in DOMAIN f.temps : f.temps[l] # t
    BY <1>2, <1>6, <1>12
  <2> HIDE DEF f
  <2> QED BY <1>8, <2>1, <2>2
<1>14. \A c \in 1..(L - 1) : \A l \in DOMAIN frames[c].temps, m \in DOMAIN q.temps :
         frames[c].temps[l] # q.temps[m]
  <2> TAKE c \in 1..(L - 1)
  <2> TAKE l \in DOMAIN frames[c].temps, m \in DOMAIN q.temps
  <2>1. c \in 1..L /\ c # L
    BY <1>2
  <2>2. CASE m = k
    BY <1>6, <1>8, <1>12, <2>1, <2>2
  <2>3. CASE m # k
    <3>1. m \in DOMAIN f.temps /\ q.temps[m] = f.temps[m]
      BY <1>8, <2>3
    <3> QED BY <1>2, <2>1, <3>1 DEF StackFits
  <2> QED BY <2>2, <2>3
<1>15. /\ StackFits(hp, fs) /\ Len(fs) = L /\ fs[L] = q
  <2>1. Len(frames) > 0 /\ q.dst = frames[Len(frames)].dst
    BY <1>2, <1>7
  <2> QED BY <1>9, <1>11, <1>13, <1>14, <2>1, ReplaceTop
<1>16. RootsOf(fs) = Roots \cup {t}
  <2>1. Roots = RootsOf(frames)
    BY DEF Roots, RootsOf
  <2>2. Len(frames) > 0
    BY <1>2
  <2> QED BY <1>1, <1>8, <2>1, <2>2, ReplaceRoots
<1>17. CallFits(hp, q, e.dst) /\ hp[e.dst].leaves = <<>>
  <2>1. q.temps[q.kind] = t /\ q.kind \in DOMAIN q.temps
    BY <1>7, <1>8
  <2> DEFINE sub == hp[t].leaves
  <2>2. e.dst = sub[1]
    BY <2>1 DEF Enter, Frame
  <2>3. sub \in Seq(Nat) /\ 1 \in 1..Len(sub) /\ \A i \in 1..Len(sub) : sub[i] \in LeavesOf(hp, t)
    <3>1. sub \in Seq(Nat) /\ Len(sub) \in 2..4 /\ t \in DOMAIN hp
      BY <1>6 DEF TreesFit, IsHeap, IsNode
    <3>2. LeavesOf(hp, t) = Range(sub)
      BY <3>1 DEF LeavesOf
    <3> HIDE DEF sub
    <3> QED BY <3>1, <3>2, SMTT(20) DEF Range
  <2>4. \A i \in 1..Len(sub) : hp[sub[i]].leaves = <<>>
    BY <1>6, <2>3
  <2> HIDE DEF e, sub
  <2>5. \A i \in (1 + 1)..Len(sub) : i \in 1..Len(sub)
    OBVIOUS
  <2> QED BY <1>7, <2>1, <2>2, <2>3, <2>4, <2>5 DEF CallFits, sub
<1>18. StackFits(hp, Append(fs, e)) /\ RootsOf(Append(fs, e)) = RootsOf(fs)
  <2>1. Len(fs) > 0 /\ q = fs[Len(fs)] /\ e = Enter(q, q.idx, hp)
    BY <1>2, <1>7, <1>15
  <2> HIDE DEF e, fs
  <2> QED BY <1>6, <1>15, <1>17, <2>1, PushTop
<1>19. Roots' = Roots \cup {t}
  <2>1. Roots' = RootsOf(frames')
    BY DEF Roots, RootsOf
  <2> QED BY <1>5, <1>16, <1>18, <2>1
<1>20. \A n \in DOMAIN hp : n < 5 * (tries + 1) + 2
  <2>1. t + 5 = 5 * (tries + 1) + 2
    BY <1>2 DEF t
  <2> QED BY <1>6, <2>1
<1> HIDE DEF fs, e
<1>21. TreesFit(node, Roots)'
  <2>1. TreesFit(hp, Roots')
    BY <1>6, <1>19
  <2> QED BY <1>5, <2>1
<1>22. StackFits(node, frames)'
  BY <1>5, <1>18
<1> QED BY <1>2, <1>5, <1>20, <1>21, <1>22 DEF TreeInv

\* Which trees are open, and where the nodes are that xCompressCU is in.
LEMMA OpenNodes ==
  ASSUME TreeInv
  PROVE  /\ CtuRoot \in Roots /\ Roots = RootsOf(frames)
         /\ \A d \in 1..Len(frames) : \A k \in DOMAIN frames[d].temps :
              frames[d].temps[k] \in Roots \ {CtuRoot}
         /\ \A d \in 2..Len(frames) :
              LET p == frames[d - 1]
              IN /\ p.kind \in DOMAIN p.temps /\ p.idx \in 1..Len(node[p.temps[p.kind]].leaves)
                 /\ frames[d].dst = node[p.temps[p.kind]].leaves[p.idx]
                 /\ frames[d].dst \in DOMAIN node \ Roots
                 /\ node[frames[d].dst].root = p.temps[p.kind]
                 /\ frames[d].dst \in LeavesOf(node, p.temps[p.kind])
<1>1. CtuRoot \in Roots /\ Roots = RootsOf(frames)
  BY DEF Roots, RootsOf
<1>2. ASSUME NEW d \in 1..Len(frames), NEW k \in DOMAIN frames[d].temps
      PROVE  frames[d].temps[k] \in Roots \ {CtuRoot}
  <2>1. FrameFits(node, frames[d])
    BY DEF TreeInv, StackFits
  <2>2. frames[d].temps[k] \in Range(frames[d].temps)
    BY DEF Range
  <2> QED BY <2>1, <2>2 DEF FrameFits, Roots
<1>3. ASSUME NEW d \in 2..Len(frames)
      PROVE  LET p == frames[d - 1]
             IN /\ p.kind \in DOMAIN p.temps /\ p.idx \in 1..Len(node[p.temps[p.kind]].leaves)
                /\ frames[d].dst = node[p.temps[p.kind]].leaves[p.idx]
                /\ frames[d].dst \in DOMAIN node \ Roots
                /\ node[frames[d].dst].root = p.temps[p.kind]
                /\ frames[d].dst \in LeavesOf(node, p.temps[p.kind])
  <2> DEFINE p == frames[d - 1]
             t == p.temps[p.kind]
  <2>1. Len(frames) \in Nat
    BY DEF TreeInv, StackFits
  <2>2. d - 1 \in 1..(Len(frames) - 1) /\ d - 1 \in 1..Len(frames) /\ (d - 1) + 1 = d
    BY <2>1
  <2>3. CallFits(node, p, frames[d].dst) /\ FrameFits(node, p)
    BY <2>2 DEF TreeInv, StackFits
  <2>4. p.kind \in DOMAIN p.temps /\ p.idx \in 1..Len(node[t].leaves)
        /\ frames[d].dst = node[t].leaves[p.idx] /\ t \in DOMAIN node
    BY <2>3, Zenon DEF CallFits, FrameFits
  <2>5. IsHeap(node) /\ Forest(node, Roots)
    BY DEF TreeInv, TreesFit
  <2>6. frames[d].dst \in LeavesOf(node, t)
    <3>1. node[t].leaves \in Seq(Nat)
      BY <2>4, <2>5 DEF IsHeap, IsNode
    <3> HIDE DEF t
    <3> QED BY <2>4, <3>1 DEF LeavesOf, Range
  <2> HIDE DEF p, t
  <2>7. frames[d].dst \in DOMAIN node \ Roots /\ node[frames[d].dst].root = t
    BY <2>4, <2>5, <2>6 DEF Forest
  <2> QED BY <2>4, <2>6, <2>7 DEF p, t
<1> QED BY <1>1, <1>2, <1>3

\* When xCompressCU ends one of the temporary trees, or none, has given its leaves to the
\* node; what hangs elsewhere is as it was.
LEMMA WinnerFits ==
  ASSUME TreeInv, Len(frames) > 0, NEW f, f = frames[Len(frames)],
         NEW k \in DOMAIN f.temps \cup {"none"}
  PROVE  LET g == IF k = "none" THEN node ELSE Transfer(node, f.temps[k], f.dst)
         IN /\ TreesFit(g, Roots) /\ DOMAIN g = DOMAIN node
            /\ \A m \in DOMAIN node :
                 /\ g[m].w = node[m].w /\ g[m].h = node[m].h
                 /\ g[m].bin = node[m].bin /\ g[m].tern = node[m].tern
                 /\ m # f.dst /\ m \notin Range(f.temps) => g[m].leaves = node[m].leaves
                 /\ \/ m \in Roots \ Range(f.temps)
                    \/ m \notin Roots /\ node[m].root \in Roots \ Range(f.temps)
                    => g[m].bd = node[m].bd /\ g[m].td = node[m].td
<1> DEFINE src == f.temps[k]
           g == IF k = "none" THEN node ELSE Transfer(node, src, f.dst)
<1>0. TreesFit(node, Roots) /\ IsHeap(node) /\ Forest(node, Roots) /\ \E S : frames \in Seq(S)
  BY DEF TreeInv, TreesFit, StackFits
<1>1. CASE k = "none"
  BY <1>0, <1>1
<1>2. CASE k # "none"
  <2>1. k \in DOMAIN f.temps /\ src \in Range(f.temps)
    BY <1>2 DEF Range
  <2>2. Len(frames) \in 1..Len(frames) /\ Len(frames) \in Nat
    BY <1>0
  <2>3. FrameFits(node, f)
    BY <2>2 DEF TreeInv, StackFits
  <2>4. src \in Roots \ {CtuRoot}
    BY <2>1, <2>2, OpenNodes
  <2>5. src # f.dst
    <3>1. CASE Len(frames) = 1
      <4>1. f.dst = CtuRoot
        BY <3>1 DEF TreeInv, StackFits
      <4> QED BY <2>4, <4>1
    <3>2. CASE Len(frames) # 1
      <4> DEFINE L == Len(frames)
      <4>1. L \in Nat /\ L > 0 /\ L # 1
        BY <2>2, <3>2
      <4>2. L \in 2..L
        <5> HIDE DEF L
        <5> QED BY <4>1
      <4> QED BY <2>4, <4>2, OpenNodes
    <3> QED BY <3>1, <3>2
  <2>6. /\ f.dst \in DOMAIN node /\ node[f.dst].leaves = <<>>
        /\ node[src].w = node[f.dst].w /\ node[src].h = node[f.dst].h
        /\ \A n \in LeavesOf(node, src) : node[n].bin = Bin(k) /\ node[n].tern = Tern(k)
        /\ k = "qt" => f.mtt = 0
        /\ f.mtt = 0 => node[f.dst].bd = 0 /\ node[f.dst].td = 0
        /\ k \in Kinds
    BY <2>1, <2>3 DEF FrameFits, TempFits
  <2>7. ~Bin(k) /\ ~Tern(k) => k = "qt"
    BY <2>6 DEF Bin, Tern, Kinds
  <2> HIDE DEF src
  <2>8. Explores(node, Roots, src, f.dst)
    BY <2>4, <2>5, <2>6, <2>7 DEF Explores, IsQuad
  <2> DEFINE w == Transfer(node, src, f.dst)
  <2>9. /\ TreesFit(w, Roots) /\ DOMAIN w = DOMAIN node
        /\ \A m \in DOMAIN node :
             /\ w[m].w = node[m].w /\ w[m].h = node[m].h
             /\ w[m].bin = node[m].bin /\ w[m].tern = node[m].tern
             /\ w[m].leaves = IF m = f.dst THEN node[src].leaves
                              ELSE IF m = src THEN <<>> ELSE node[m].leaves
             /\ m \notin Below(node, src) => w[m].bd = node[m].bd /\ w[m].td = node[m].td
    BY <1>0, <2>8, TransferFits
  <2>10. src \in DOMAIN node
    BY <1>0, <2>4 DEF Forest
  <2>11. InTree(node, Roots, src, Below(node, src))
    BY <1>0, <2>10, BelowTree
  <2>12. ASSUME NEW m \in DOMAIN node,
                \/ m \in Roots \ Range(f.temps)
                \/ m \notin Roots /\ node[m].root \in Roots \ Range(f.temps)
         PROVE  m \notin Below(node, src)
    <3>1. m # src
      BY <2>1, <2>4, <2>12
    <3>2. ASSUME m \in Below(node, src) PROVE FALSE
      <4>1. m \notin Roots /\ node[m].root \in Below(node, src) /\ node[m].root # src
        BY <2>1, <2>11, <2>12, <3>1, <3>2 DEF InTree
      <4>2. node[m].root \notin Roots
        BY <2>11, <4>1 DEF InTree
      <4> QED BY <2>12, <4>1, <4>2
    <3> QED BY <3>2
  <2>13. g = w
    BY <1>2
  <2> HIDE DEF w, g
  <2>14. \A m \in DOMAIN node : m # f.dst /\ m \notin Range(f.temps) => w[m].leaves = node[m].leaves
    BY <2>1, <2>9
  <2>15. ASSUME NEW m \in DOMAIN node,
                \/ m \in Roots \ Range(f.temps)
                \/ m \notin Roots /\ node[m].root \in Roots \ Range(f.temps)
         PROVE  w[m].bd = node[m].bd /\ w[m].td = node[m].td
    BY <2>9, <2>12, <2>15
  <2>16. /\ TreesFit(g, Roots) /\ DOMAIN g = DOMAIN node
         /\ \A m \in DOMAIN node :
              /\ g[m].w = node[m].w /\ g[m].h = node[m].h
              /\ g[m].bin = node[m].bin /\ g[m].tern = node[m].tern
              /\ m # f.dst /\ m \notin Range(f.temps) => g[m].leaves = node[m].leaves
              /\ \/ m \in Roots \ Range(f.temps)
                 \/ m \notin Roots /\ node[m].root \in Roots \ Range(f.temps)
                 => g[m].bd = node[m].bd /\ g[m].td = node[m].td
    BY <2>9, <2>13, <2>14, <2>15
  <2> QED BY <2>16 DEF g, src
<1> QED BY <1>1, <1>2

\* The heap that is left when the trees of f are destroyed.
Left(f, k) ==
  Delete(IF k = "none" THEN node ELSE Transfer(node, f.temps[k], f.dst), Range(f.temps))

\* The frames outside f fit it; p, the innermost of them, is in a split whose leaves are there.
CallersFit(h, f, p) ==
  LET t == p.temps[p.kind]
  IN /\ TreesFit(h, Roots \ Range(f.temps)) /\ DOMAIN h \subseteq DOMAIN node
     /\ StackFits(h, Front(frames)) /\ RootsOf(Front(frames)) = Roots \ Range(f.temps)
     /\ p.kind \in DOMAIN p.temps /\ p.idx \in 1..Len(node[t].leaves) /\ t \in DOMAIN h
     /\ h[t].leaves = node[t].leaves
     /\ \A i \in (p.idx + 1)..Len(node[t].leaves) : h[node[t].leaves[i]].leaves = <<>>

\* Then the innermost frame goes; the others fit that heap.
LEMMA PopTop ==
  ASSUME TreeInv, Len(frames) > 1, NEW f, f = frames[Len(frames)],
         NEW k \in DOMAIN f.temps \cup {"none"},
         NEW p, p = frames[Len(frames) - 1]
  PROVE  CallersFit(Left(f, k), f, p)
<1> DEFINE L == Len(frames)
           gone == Range(f.temps)
           g == IF k = "none" THEN node ELSE Transfer(node, f.temps[k], f.dst)
           h == Left(f, k)
           outer == Front(frames)
           t == p.temps[p.kind]
<1>0. /\ IsHeap(node) /\ Forest(node, Roots) /\ StackFits(node, frames)
  BY DEF TreeInv, TreesFit
<1>1. PICK S : frames \in Seq(S)
  BY <1>0 DEF StackFits
<1>2. L \in Nat /\ L >= 2 /\ L \in 1..L /\ L \in 2..L /\ L - 1 \in 1..L
  BY <1>1
<1>3. outer \in Seq(S) /\ Len(outer) = L - 1 /\ \A d \in 1..(L - 1) : outer[d] = frames[d] /\ d \in 1..L
  BY <1>1, <1>2 DEF Front
<1>4. /\ TreesFit(g, Roots) /\ DOMAIN g = DOMAIN node
      /\ \A m \in DOMAIN node :
           /\ g[m].w = node[m].w /\ g[m].h = node[m].h
           /\ g[m].bin = node[m].bin /\ g[m].tern = node[m].tern
           /\ m # f.dst /\ m \notin gone => g[m].leaves = node[m].leaves
           /\ \/ m \in Roots \ gone
              \/ m \notin Roots /\ node[m].root \in Roots \ gone
              => g[m].bd = node[m].bd /\ g[m].td = node[m].td
  <2>1. Len(frames) > 0
    BY <1>2
  <2> HIDE DEF L
  <2> QED BY <2>1, WinnerFits
<1>5. gone \subseteq Roots \ {CtuRoot}
  BY <1>2, OpenNodes DEF Range
<1> HIDE DEF g, h, outer
<1>6. TreesFit(h, Roots \ gone) /\ DOMAIN h \subseteq DOMAIN node /\ \A m \in DOMAIN h : h[m] = g[m]
  <2>1. gone \subseteq Roots
    BY <1>5
  <2>2. TreesFit(g, Roots)
    BY <1>4
  <2> DEFINE d == Delete(g, gone)
  <2> HIDE DEF gone
  <2>3. TreesFit(d, Roots \ gone) /\ DOMAIN d \subseteq DOMAIN g /\ \A m \in DOMAIN d : d[m] = g[m]
    BY <2>1, <2>2, DeleteFits, Zenon
  <2>4. h = d
    BY DEF h, Left, g, gone
  <2> HIDE DEF d
  <2> QED BY <1>4, <2>3, <2>4
<1>7. ASSUME NEW d \in 1..(L - 1), NEW l \in DOMAIN frames[d].temps
      PROVE  frames[d].temps[l] \in Roots \ gone /\ frames[d].temps[l] # CtuRoot
  <2>1. d \in 1..L /\ d # L
    BY <1>2
  <2>2. frames[d].temps[l] \notin gone
    BY <1>0, <1>2, <2>1 DEF StackFits, Range
  <2> QED BY <2>1, <2>2, OpenNodes
<1>8. f.dst \in DOMAIN node \ Roots /\ node[f.dst].root = t /\ p.kind \in DOMAIN p.temps
      /\ p.idx \in 1..Len(node[t].leaves) /\ f.dst = node[t].leaves[p.idx]
  BY <1>2, OpenNodes
<1> HIDE DEF gone
\* The open trees that stay keep their leaves.
<1>9. ASSUME NEW u \in Roots \ gone
      PROVE  /\ u \in DOMAIN h /\ u \in DOMAIN node /\ u # f.dst
             /\ h[u].leaves = node[u].leaves /\ h[u].w = node[u].w /\ h[u].h = node[u].h
             /\ LeavesOf(node, u) \subseteq DOMAIN h /\ LeavesOf(node, u) \cap Roots = {}
             /\ \A n \in LeavesOf(node, u) :
                  /\ n \in DOMAIN node /\ node[n].root = u
                  /\ h[n].bin = node[n].bin /\ h[n].tern = node[n].tern
                  /\ h[n].w = node[n].w /\ h[n].h = node[n].h
                  /\ h[n].bd = node[n].bd /\ h[n].td = node[n].td
                  /\ n # f.dst => h[n].leaves = node[n].leaves
  <2>1. u \in DOMAIN h /\ u \in DOMAIN node /\ u # f.dst
    BY <1>6, <1>8, Zenon DEF TreesFit, Forest
  <2>2. h[u].leaves = node[u].leaves /\ h[u].w = node[u].w /\ h[u].h = node[u].h
    BY <1>4, <1>6, <2>1
  <2>3. LeavesOf(h, u) = LeavesOf(node, u)
    BY <2>1, <2>2 DEF LeavesOf
  <2>4. LeavesOf(node, u) \subseteq DOMAIN h
    BY <1>6, <2>1, <2>3 DEF TreesFit, Forest
  <2>5. ASSUME NEW n \in LeavesOf(node, u)
        PROVE  n \in DOMAIN node /\ node[n].root = u /\ n \notin Roots /\ n \notin gone /\ h[n] = g[n]
    BY <1>0, <1>5, <1>6, <2>1, <2>4 DEF Forest
  <2>6. ASSUME NEW n \in LeavesOf(node, u)
        PROVE  /\ h[n].bin = node[n].bin /\ h[n].tern = node[n].tern
               /\ h[n].w = node[n].w /\ h[n].h = node[n].h
               /\ n # f.dst => h[n].leaves = node[n].leaves
    BY <1>4, <2>5
  <2>7. ASSUME NEW n \in LeavesOf(node, u) PROVE h[n].bd = node[n].bd /\ h[n].td = node[n].td
    BY <1>4, <2>5
  <2> QED BY <2>1, <2>2, <2>4, <2>5, <2>6, <2>7
<1>10. ASSUME NEW d \in 1..(L - 1)
       PROVE  LET n == frames[d].dst
              IN /\ n \in DOMAIN h /\ n # f.dst /\ h[n].leaves = <<>>
                 /\ h[n].bd = node[n].bd /\ h[n].td = node[n].td /\ h[n].w = node[n].w /\ h[n].h = node[n].h
  <2>1. FrameFits(node, frames[d]) /\ d \in 1..L
    BY <1>0, <1>3 DEF StackFits
  <2>2. CASE d = 1
    <3>1. frames[d].dst = CtuRoot /\ CtuRoot \in Roots \ gone /\ node[CtuRoot].leaves = <<>>
      BY <1>0, <1>2, <1>5, <2>1, <2>2, OpenNodes DEF StackFits, FrameFits
    <3>2. CtuRoot \in DOMAIN h /\ CtuRoot # f.dst /\ h[CtuRoot].leaves = <<>>
          /\ h[CtuRoot].w = node[CtuRoot].w /\ h[CtuRoot].h = node[CtuRoot].h
      BY <1>9, <3>1
    <3>3. h[CtuRoot].bd = node[CtuRoot].bd /\ h[CtuRoot].td = node[CtuRoot].td
      BY <1>4, <1>6, <1>9, <3>1
    <3> QED BY <3>1, <3>2, <3>3
  <2>3. CASE d # 1
    <3> DEFINE c == frames[d - 1]
               u == c.temps[c.kind]
               n == frames[d].dst
    <3>1. d \in 2..L /\ d - 1 \in 1..(L - 1) /\ d - 1 # L - 1 /\ d - 1 \in 1..L /\ L - 1 \in 1..L
      BY <1>2, <2>3
    <3>2. n \in LeavesOf(node, u) /\ c.kind \in DOMAIN c.temps /\ node[n].root = u
      BY <3>1, OpenNodes
    <3>3. u \in Roots \ gone
      BY <1>7, <3>1, <3>2
    <3>4. u # t
      <4>1. \A a, b \in 1..L : \A x \in DOMAIN frames[a].temps, y \in DOMAIN frames[b].temps :
              frames[a].temps[x] = frames[b].temps[y] => a = b
        BY <1>0 DEF StackFits
      <4> QED BY <1>8, <3>1, <3>2, <4>1, Zenon
    <3>5. n # f.dst
      BY <1>8, <3>2, <3>4, Zenon
    <3>6. node[n].leaves = <<>>
      BY <2>1 DEF FrameFits
    <3> HIDE DEF n, u, c
    <3>7. n \in DOMAIN h /\ h[n].leaves = <<>> /\ h[n].bd = node[n].bd /\ h[n].td = node[n].td
          /\ h[n].w = node[n].w /\ h[n].h = node[n].h
      BY <1>9, <3>2, <3>3, <3>5, <3>6
    <3> QED BY <3>5, <3>7 DEF n
  <2> QED BY <2>2, <2>3
<1>11. ASSUME NEW d \in 1..(L - 1) PROVE FrameFits(h, frames[d])
  <2> DEFINE c == frames[d]
  <2>1. FrameFits(node, c)
    BY <1>0, <1>3 DEF StackFits
  <2>2. ASSUME NEW l \in DOMAIN c.temps
        PROVE  LET u == c.temps[l]
               IN /\ u \in DOMAIN h /\ h[u].w = node[u].w /\ h[u].h = node[u].h
                  /\ h[u].leaves = node[u].leaves
                  /\ \A n \in LeavesOf(node, u) : h[n].bin = node[n].bin /\ h[n].tern = node[n].tern
    <3>1. c.temps[l] \in Roots \ gone
      BY <1>7
    <3> HIDE DEF c
    <3> QED BY <1>9, <3>1
  <2>3. c.dst \in DOMAIN h /\ h[c.dst].leaves = <<>> /\ h[c.dst].bd = node[c.dst].bd
        /\ h[c.dst].td = node[c.dst].td /\ h[c.dst].w = node[c.dst].w /\ h[c.dst].h = node[c.dst].h
    BY <1>10
  <2> HIDE DEF c
  <2>4. FrameFits(h, c)
    BY <2>1, <2>2, <2>3, FrameKept
  <2> QED BY <2>4 DEF c
\* The leaves that a caller has still to come to are untouched.
<1> DEFINE Open(d) == frames[d].temps[frames[d].kind]
<1>12. ASSUME NEW d \in 1..(L - 1), NEW u, u = Open(d),
              NEW i \in (frames[d].idx + 1)..Len(node[u].leaves)
       PROVE  /\ node[u].leaves[i] \in LeavesOf(node, u) /\ node[u].leaves[i] # f.dst
              /\ node[node[u].leaves[i]].leaves = <<>> /\ u \in Roots \ gone
  <2> DEFINE c == frames[d]
             sub == node[u].leaves
  <2>1. CallFits(node, c, frames[d + 1].dst)
    BY <1>0 DEF StackFits
  <2>2. c.kind \in DOMAIN c.temps /\ c.idx \in 1..Len(sub) /\ node[sub[i]].leaves = <<>>
    BY <2>1, <1>12, Zenon DEF CallFits
  <2>3. u \in Roots \ gone
    BY <1>7, <1>12, <2>2
  <2>4. sub \in Seq(Nat) /\ IsInjective(sub) /\ u \in DOMAIN node
    BY <1>0, <1>9, <2>3 DEF IsHeap, IsNode
  <2>5. LeavesOf(node, u) = Range(sub)
    BY <2>4 DEF LeavesOf
  <2>6. i \in 1..Len(sub) /\ i # c.idx
    BY <2>2, <2>4
  <2>7. sub[i] \in LeavesOf(node, u)
    <3> HIDE DEF sub, c
    <3> QED BY <2>4, <2>5, <2>6 DEF Range
  <2>8. sub[i] # f.dst
    <3>1. CASE d = L - 1
      <4>1. u = t /\ f.dst = sub[c.idx]
        BY <1>8, <1>12, <3>1, Zenon
      <4> HIDE DEF sub, c
      <4> QED BY <2>2, <2>4, <2>6, <4>1 DEF IsInjective
    <3>2. CASE d # L - 1
      <4>1. d \in 1..L /\ L - 1 \in 1..L
        BY <1>2
      <4>2. \A a, b \in 1..L : \A x \in DOMAIN frames[a].temps, y \in DOMAIN frames[b].temps :
              frames[a].temps[x] = frames[b].temps[y] => a = b
        BY <1>0 DEF StackFits
      <4>3. u # t
        BY <1>8, <1>12, <2>2, <3>2, <4>1, <4>2, Zenon
      <4>4. node[sub[i]].root = u
        BY <1>9, <2>3, <2>7
      <4> HIDE DEF sub, c
      <4> QED BY <1>8, <4>3, <4>4, Zenon
    <3> QED BY <3>1, <3>2
  <2> QED BY <2>2, <2>3, <2>7, <2>8
<1>13. ASSUME NEW d \in 1..(L - 2) PROVE CallFits(h, frames[d], frames[d + 1].dst)
  <2> DEFINE c == frames[d]
             u == c.temps[c.kind]
             to == frames[d + 1].dst
  <2>1. d \in 1..(L - 1)
    BY <1>2
  <2>2. CallFits(node, c, to)
    BY <1>0, <2>1 DEF StackFits
  <2>3. u \in Roots \ gone
    BY <1>7, <2>1, <2>2, Zenon DEF CallFits
  <2>4. \A i \in (c.idx + 1)..Len(node[u].leaves) :
          LET n == node[u].leaves[i] IN h[n].leaves = node[n].leaves
    <3> TAKE i \in (c.idx + 1)..Len(node[u].leaves)
    <3> DEFINE n == node[u].leaves[i]
    <3>1. n \in LeavesOf(node, u) /\ n # f.dst
      BY <1>12, <2>1
    <3> HIDE DEF n, u
    <3>2. h[n].leaves = node[n].leaves
      BY <1>9, <2>3, <3>1
    <3> QED BY <3>2 DEF n
  <2>5. h[u].leaves = node[u].leaves
    BY <1>9, <2>3
  <2> HIDE DEF c, to
  <2>6. CallFits(h, c, to)
    BY <2>2, <2>4, <2>5, CallKept, Zenon
  <2> QED BY <2>6 DEF c, to
<1>14. StackFits(h, outer)
  <2>1. \A d \in 1..(L - 1) : FrameFits(h, outer[d])
    BY <1>3, <1>11
  <2>2. \A d \in 1..(L - 2) : CallFits(h, outer[d], outer[d + 1].dst)
    <3> TAKE d \in 1..(L - 2)
    <3>1. d \in 1..(L - 1) /\ d + 1 \in 1..(L - 1)
      BY <1>2
    <3> QED BY <1>3, <1>13, <3>1
  <2>3. outer[1].dst = CtuRoot
    <3>1. 1 \in 1..(L - 1)
      BY <1>2
    <3> QED BY <1>0, <1>2, <1>3, <3>1 DEF StackFits
  <2>4. \A d, e \in 1..(L - 1) : \A x \in DOMAIN outer[d].temps, y \in DOMAIN outer[e].temps :
          outer[d].temps[x] = outer[e].temps[y] => d = e /\ x = y
    BY <1>0, <1>3 DEF StackFits
  <2>5. (L - 1) - 1 = L - 2
    BY <1>2
  <2> QED BY <1>3, <2>1, <2>2, <2>3, <2>4, <2>5 DEF StackFits
<1>15. RootsOf(outer) = Roots \ gone
  <2>1. RootsOf(outer) = {CtuRoot} \cup UNION {Range(frames[d].temps) : d \in 1..(L - 1)}
    BY <1>3 DEF RootsOf
  <2>2. Roots = {CtuRoot} \cup UNION {Range(frames[d].temps) : d \in 1..L}
    BY DEF Roots
  <2>3. \A d \in 1..(L - 1) : Range(frames[d].temps) \cap gone = {}
    BY <1>7 DEF Range
  <2>4. \A d \in 1..L : d \in 1..(L - 1) \/ d = L
    BY <1>2
  <2>5. Range(frames[L].temps) = gone /\ CtuRoot \notin gone
    BY <1>5 DEF gone
  <2> QED BY <1>3, <2>1, <2>2, <2>3, <2>4, <2>5
<1>16. t \in Roots \ gone
  <2>1. L - 1 \in 1..(L - 1)
    BY <1>2
  <2> QED BY <1>7, <1>8, <2>1, Zenon
<1>17. \A i \in (p.idx + 1)..Len(node[t].leaves) : h[node[t].leaves[i]].leaves = <<>>
  <2>1. L - 1 \in 1..(L - 1)
    BY <1>2
  <2> DEFINE e == L - 1
  <2>2. p = frames[e]
    OBVIOUS
  <2>3. e \in 1..(L - 1) /\ t = Open(e)
    BY <2>1
  <2> HIDE DEF e, t, Open
  <2> TAKE i \in (p.idx + 1)..Len(node[t].leaves)
  <2>4. i \in (frames[e].idx + 1)..Len(node[t].leaves)
    BY ONLY <2>2, Zenon
  <2> DEFINE n == node[t].leaves[i]
  <2>5. n \in LeavesOf(node, t) /\ n # f.dst /\ node[n].leaves = <<>>
    BY ONLY <1>12, <2>3, <2>4, Zenon
  <2> HIDE DEF n
  <2>6. h[n].leaves = node[n].leaves
    BY <1>9, <1>16, <2>5
  <2> QED BY <2>5, <2>6 DEF n
<1> QED BY <1>6, <1>8, <1>9, <1>14, <1>15, <1>16, <1>17, Zenon DEF h, gone, outer, CallersFit

\* The caller's frame notes which leaf of the split it has come to, or that it has left it.
LEMMA MarkTop ==
  ASSUME NEW hp, NEW fs, StackFits(hp, fs), Len(fs) > 0, NEW q, DOMAIN q = FrameFields,
         q.dst = fs[Len(fs)].dst, q.mtt = fs[Len(fs)].mtt, q.temps = fs[Len(fs)].temps
  PROVE  LET gs == [fs EXCEPT ![Len(fs)] = q]
         IN StackFits(hp, gs) /\ Len(gs) = Len(fs) /\ gs[Len(fs)] = q /\ RootsOf(gs) = RootsOf(fs)
<1> DEFINE L == Len(fs)
           p == fs[L]
<1>1. PICK S : fs \in Seq(S)
  BY DEF StackFits
<1>2. L \in 1..L /\ \A d \in 1..(L - 1) : d \in 1..L /\ d # L
  BY <1>1
<1>3. FrameFits(hp, p)
  BY <1>2 DEF StackFits
<1>4. FrameFits(hp, q)
  BY <1>3 DEF FrameFits, TempFits
<1>5. \A d, e \in 1..L : \A k \in DOMAIN fs[d].temps, l \in DOMAIN fs[e].temps :
        fs[d].temps[k] = fs[e].temps[l] => d = e /\ k = l
  BY DEF StackFits
<1>6. \A k, l \in DOMAIN q.temps : q.temps[k] = q.temps[l] => k = l
  BY <1>2, <1>5
<1>7. \A d \in 1..(Len(fs) - 1) : \A k \in DOMAIN fs[d].temps, l \in DOMAIN q.temps :
        fs[d].temps[k] # q.temps[l]
  BY <1>2, <1>5
<1> DEFINE gs == [fs EXCEPT ![Len(fs)] = q]
<1>8. StackFits(hp, gs) /\ Len(gs) = Len(fs) /\ gs[Len(fs)] = q
  BY <1>4, <1>6, <1>7, ReplaceTop
<1>9. RootsOf(gs) = RootsOf(fs) \cup {}
  <2>1. Range(q.temps) = Range(fs[Len(fs)].temps) \cup {}
    OBVIOUS
  <2> QED BY <1>1, <2>1, ReplaceRoots
<1> QED BY <1>8, <1>9

\* The end of xCompressCU keeps the invariant.
LEMMA ReturnKeeps ==
  ASSUME TreeInv, Return
  PROVE  TreeInv'
<1> DEFINE L == Len(frames)
           f == frames[L]
           gone == Range(f.temps)
<1>0. /\ TreesFit(node, Roots) /\ StackFits(node, frames) /\ tries \in Nat
      /\ \A n \in DOMAIN node : n < 5 * tries + 2
  BY DEF TreeInv
<1>1. PICK S : frames \in Seq(S)
  BY <1>0 DEF StackFits
<1>2. L \in Nat /\ L > 0 /\ L \in 1..L
  BY <1>1 DEF Return
<1>3. PICK k \in DOMAIN f.temps \cup {"none"} :
        node' = Delete(IF k = "none" THEN node ELSE Transfer(node, f.temps[k], f.dst), gone)
  BY DEF Return, Top
<1>4. tries' = tries
  BY DEF Return
\* It is enough that the stack and the trees that stay open fit the heap that is left.
<1>5. ASSUME Roots' = Roots \ gone, TreesFit(node', Roots \ gone), DOMAIN node' \subseteq DOMAIN node,
             StackFits(node', frames')
      PROVE  TreeInv'
  <2>1. TreesFit(node, Roots)'
    BY <1>5
  <2>2. StackFits(node, frames)'
    BY <1>5
  <2>3. (tries \in Nat /\ \A n \in DOMAIN node : n < 5 * tries + 2)'
    BY <1>0, <1>4, <1>5
  <2> QED BY <2>1, <2>2, <2>3 DEF TreeInv
<1>6. CASE L = 1
  <2> DEFINE g == IF k = "none" THEN node ELSE Transfer(node, f.temps[k], f.dst)
             h == Delete(g, gone)
  <2>1. TreesFit(g, Roots) /\ DOMAIN g = DOMAIN node
    <3>1. Len(frames) > 0
      BY <1>2
    <3> HIDE DEF L
    <3> QED BY <3>1, WinnerFits DEF L
  <2>2. gone \subseteq Roots \ {CtuRoot} /\ CtuRoot \in Roots
    BY <1>2, OpenNodes DEF Range
  <2> HIDE DEF g, gone
  <2>3. TreesFit(h, Roots \ gone) /\ DOMAIN h \subseteq DOMAIN node
    BY <2>1, <2>2, DeleteFits
  <2>4. node' = h
    BY <1>3 DEF g
  <2>5. frames' = <<>>
    BY <1>6 DEF Return
  <2>6. Roots' = Roots \ gone
    <3>1. Roots' = {CtuRoot}
      BY <2>5 DEF Roots
    <3>2. Roots = {CtuRoot} \cup gone
      BY <1>6 DEF Roots, gone
    <3> QED BY <2>2, <3>1, <3>2
  <2>7. StackFits(h, <<>>)
    <3>1. <<>> \in Seq({}) /\ Len(<<>>) = 0
      OBVIOUS
    <3> DEFINE no == <<>>
    <3>2. no \in Seq({}) /\ Len(no) = 0
      BY <3>1
    <3> HIDE DEF no
    <3>3. StackFits(h, no)
      BY <3>2 DEF StackFits
    <3> QED BY <3>3 DEF no
  <2> HIDE DEF h
  <2> QED BY <1>5, <2>3, <2>4, <2>5, <2>6, <2>7
<1>7. CASE L # 1
  <2> DEFINE p == frames[L - 1]
             t == p.temps[p.kind]
             h == Left(f, k)
             outer == Front(frames)
             sub == node[t].leaves
  <2>0. L > 1 /\ L - 1 \in 1..(L - 1)
    <3> HIDE DEF L
    <3> QED BY <1>2, <1>7
  <2>1. /\ TreesFit(h, Roots \ gone) /\ DOMAIN h \subseteq DOMAIN node
        /\ StackFits(h, outer) /\ RootsOf(outer) = Roots \ gone
        /\ p.kind \in DOMAIN p.temps /\ p.idx \in 1..Len(sub) /\ t \in DOMAIN h
        /\ h[t].leaves = sub
        /\ \A i \in (p.idx + 1)..Len(sub) : h[sub[i]].leaves = <<>>
    <3>1. Len(frames) > 1 /\ f = frames[Len(frames)] /\ p = frames[Len(frames) - 1]
      BY <2>0
    <3> HIDE DEF f, p
    <3>2. CallersFit(Left(f, k), f, p)
      BY <3>1, PopTop
    <3> QED BY <3>2, Zenon DEF CallersFit
  <2>2. node' = h
    BY <1>3 DEF Left
  <2> HIDE DEF h
  <2>3. outer \in Seq(S) /\ Len(outer) = L - 1 /\ L - 1 \in 1..(L - 1) /\ outer[L - 1] = p /\ Last(outer) = p
    <3>1. outer \in Seq(S) /\ Len(outer) = L - 1 /\ \A d \in 1..(L - 1) : outer[d] = frames[d]
      BY <1>1, <2>0 DEF Front
    <3> HIDE DEF outer
    <3> QED BY <2>0, <3>1 DEF Last
  <2>4. Resume(outer)
    <3> HIDE DEF outer
    <3> QED BY <1>7 DEF Return, outer
  <2> HIDE DEF outer
  <2>5. FrameFits(h, p) /\ DOMAIN p = FrameFields
    BY <2>1, <2>3, Zenon DEF StackFits, FrameFits
  <2>6. ASSUME Roots' = RootsOf(outer), StackFits(h, frames') PROVE TreeInv'
    BY <1>5, <2>1, <2>2, <2>6, Zenon
  <2>7. ASSUME NEW i \in (p.idx + 1)..Len(sub),
               frames' = Append([outer EXCEPT ![Len(outer)].idx = i], Enter(p, i, node))
        PROVE  TreeInv'
    <3> DEFINE q == [p EXCEPT !.idx = i]
               fs == [outer EXCEPT ![Len(outer)] = q]
               e == Enter(p, i, node)
    <3>1. /\ DOMAIN q = FrameFields /\ q.dst = p.dst /\ q.qt = p.qt /\ q.mtt = p.mtt
          /\ q.temps = p.temps /\ q.kind = p.kind /\ q.idx = i
      <4> HIDE DEF p
      <4> QED BY <2>5 DEF FrameFields
    <3>2. [outer EXCEPT ![Len(outer)].idx = i] = fs
      BY <2>3
    <3> HIDE DEF q
    <3>3. StackFits(h, fs) /\ Len(fs) = Len(outer) /\ fs[Len(outer)] = q /\ RootsOf(fs) = RootsOf(outer)
      <4>1. Len(outer) > 0 /\ p = outer[Len(outer)]
        BY <2>3
      <4> HIDE DEF p
      <4>2. q.dst = outer[Len(outer)].dst /\ q.mtt = outer[Len(outer)].mtt /\ q.temps = outer[Len(outer)].temps
        BY <3>1, <4>1
      <4>3. StackFits(h, outer)
        BY <2>1
      <4> QED BY <3>1, <4>1, <4>2, <4>3, MarkTop
    <3> HIDE DEF fs
    <3>4. i \in 1..Len(sub) /\ \A j \in (i + 1)..Len(sub) : j \in (p.idx + 1)..Len(sub)
      <4>1. p.idx \in Nat /\ Len(sub) \in Int
        <5>1. sub \in Seq(Nat)
          BY <2>1, Zenon DEF TreesFit, IsHeap, IsNode
        <5> HIDE DEF sub, p
        <5> QED BY <2>1, <5>1
      <4> HIDE DEF p, sub
      <4> QED BY <2>1, <4>1
    <3>5. e.dst = sub[i]
      BY DEF Enter, Frame
    <3>6. e = Enter(q, q.idx, h)
      <4> HIDE DEF p
      <4> QED BY <2>1, <3>1 DEF Enter
    <3> HIDE DEF e
    <3>7. CallFits(h, q, e.dst) /\ h[e.dst].leaves = <<>>
      <4>1. h[q.temps[q.kind]].leaves = sub /\ q.kind \in DOMAIN q.temps /\ q.idx = i
        BY <2>1, <3>1, Zenon
      <4>2. \A j \in (p.idx + 1)..Len(sub) : h[sub[j]].leaves = <<>>
        BY <2>1, Zenon
      <4>3. \A j \in (i + 1)..Len(sub) : h[sub[j]].leaves = <<>>
        BY <3>4, <4>2, Zenon
      <4> HIDE DEF p, sub
      <4> QED BY <2>7, <3>4, <3>5, <4>1, <4>2, <4>3 DEF CallFits
    <3>8. StackFits(h, Append(fs, e)) /\ RootsOf(Append(fs, e)) = RootsOf(fs)
      <4>1. Len(fs) > 0 /\ q = fs[Len(fs)]
        BY <2>3, <3>3
      <4>2. TreesFit(h, Roots \ gone)
        BY <2>1, Zenon
      <4> HIDE DEF gone, f, L
      <4> QED BY <3>3, <3>6, <3>7, <4>1, <4>2, PushTop
    <3>9. frames' = Append(fs, e)
      BY <2>7, <3>2 DEF e
    <3>10. Roots' = RootsOf(frames')
      BY DEF Roots, RootsOf
    <3> QED BY <2>6, <3>3, <3>8, <3>9, <3>10
  <2>8. ASSUME frames' = [outer EXCEPT ![Len(outer)].kind = "none", ![Len(outer)].idx = 0]
        PROVE  TreeInv'
    <3> DEFINE q == [p EXCEPT !.kind = "none", !.idx = 0]
               fs == [outer EXCEPT ![Len(outer)] = q]
    <3>1. DOMAIN q = FrameFields /\ q.dst = p.dst /\ q.mtt = p.mtt /\ q.temps = p.temps
      <4> HIDE DEF p
      <4> QED BY <2>5 DEF FrameFields
    <3>2. frames' = fs
      BY <2>3, <2>8
    <3> HIDE DEF q
    <3>3. StackFits(h, fs) /\ RootsOf(fs) = RootsOf(outer)
      <4>1. Len(outer) > 0 /\ p = outer[Len(outer)]
        BY <2>3
      <4> HIDE DEF p
      <4>2. q.dst = outer[Len(outer)].dst /\ q.mtt = outer[Len(outer)].mtt /\ q.temps = outer[Len(outer)].temps
        BY <3>1, <4>1
      <4>3. StackFits(h, outer)
        BY <2>1
      <4> QED BY <3>1, <4>1, <4>2, <4>3, MarkTop
    <3> HIDE DEF fs
    <3>4. Roots' = RootsOf(frames')
      BY DEF Roots, RootsOf
    <3> QED BY <2>6, <3>2, <3>3, <3>4
  <2> QED BY <2>3, <2>4, <2>7, <2>8 DEF Resume
<1> QED BY <1>6, <1>7

(* ------------------------------- the theorems -------------------------------- *)

\* A CTU starts as one node, with xCompressCU in it.
LEMMA TreeInitFits == TreeInit => TreeInv
<1> SUFFICES ASSUME TreeInit PROVE TreeInv
  OBVIOUS
<1> DEFINE n == NodeOf(CtuSize, CtuSize, Null, FALSE, FALSE, 0, 0, 0, 0)
           f == Frame(CtuRoot, 0, 0)
<1>1. node = [m \in {CtuRoot} |-> n] /\ frames = <<f>> /\ tries = 0
  BY DEF TreeInit
<1>2. DOMAIN node = {CtuRoot} /\ node[CtuRoot] = n
  BY <1>1
<1>3. /\ DOMAIN n = NodeFields /\ n.w = CtuSize /\ n.h = CtuSize /\ n.root = Null /\ n.leaves = <<>>
      /\ n.bin = FALSE /\ n.tern = FALSE /\ n.qd = 0 /\ n.bd = 0 /\ n.td = 0 /\ n.val = 0
  BY DEF NodeOf, NodeFields
<1>4. /\ DOMAIN f = FrameFields /\ f.dst = CtuRoot /\ f.mtt = 0 /\ f.temps = <<>>
      /\ DOMAIN f.temps = {} /\ Range(f.temps) = {}
  BY DEF Frame, FrameFields, Range
<1> HIDE DEF n, f
<1>5. Len(frames) = 1 /\ frames[1] = f /\ frames \in Seq({f})
  BY <1>1
<1>6. Roots = {CtuRoot}
  BY <1>4, <1>5 DEF Roots
<1>7. IsHeap(node)
  <2>1. CtuSize \in Nat \ {0}
    BY TreeAssumption
  <2> DEFINE e == <<>>
  <2>2. e \in Seq(Nat) /\ IsInjective(e) /\ n.leaves = e
    BY <1>3 DEF IsInjective
  <2> HIDE DEF e
  <2>3. Size(n) <= MaxDepth
    <3>1. Size(n) = CtuSize + CtuSize
      BY <1>3 DEF Size
    <3> QED BY <2>1, <3>1 DEF MaxDepth
  <2>4. IsNode(n)
    <3>1. n.bin \in BOOLEAN /\ n.tern \in BOOLEAN /\ ~(n.bin /\ n.tern)
      BY <1>3
    <3>2. DOMAIN n = NodeFields /\ n.w \in Nat \ {0} /\ n.h \in Nat \ {0}
      BY <1>3, <2>1
    <3>3. n.qd \in Nat /\ n.bd \in Nat /\ n.td \in Nat
      BY <1>3
    <3>4. n.leaves \in Seq(Nat) /\ IsInjective(n.leaves)
      BY <2>2
    <3> QED BY <2>3, <3>1, <3>2, <3>3, <3>4 DEF IsNode
  <2>5. CtuRoot \in Nat \ {0} /\ node = [m \in DOMAIN node |-> node[m]]
    BY <1>1 DEF CtuRoot
  <2> QED BY <1>2, <2>4, <2>5 DEF IsHeap
<1>8. LeavesOf(node, CtuRoot) = {}
  BY <1>2, <1>3 DEF LeavesOf, Range
<1>9. TreesFit(node, Roots)
  BY <1>2, <1>3, <1>6, <1>7, <1>8
     DEF TreesFit, Forest, Depths, Values, QuadsFirst, RootsPlain
<1>10. FrameFits(node, f)
  BY <1>2, <1>3, <1>4 DEF FrameFits
<1>11. StackFits(node, frames)
  <2>1. \A d \in 1..1 : d = 1
    OBVIOUS
  <2> QED BY <1>4, <1>5, <1>10, <2>1 DEF StackFits
<1> QED BY <1>1, <1>2, <1>9, <1>11 DEF TreeInv, CtuRoot

\* Every step keeps the invariant.
LEMMA TreeNextKeeps == TreeInv /\ [TreeNext]_treeVars => TreeInv'
<1> SUFFICES ASSUME TreeInv, [TreeNext]_treeVars PROVE TreeInv'
  OBVIOUS
<1>1. CASE \E k \in Kinds : TrySplit(k)
  BY <1>1, TrySplitKeeps
<1>2. CASE Return
  BY <1>2, ReturnKeeps
<1>3. CASE UNCHANGED treeVars
  <2>1. node' = node /\ frames' = frames /\ tries' = tries
    BY <1>3 DEF treeVars
  <2>2. Roots' = Roots
    BY <2>1 DEF Roots
  <2> QED BY <2>1, <2>2 DEF TreeInv
<1> QED BY <1>1, <1>2, <1>3 DEF TreeNext

\* The open trees are trees and fit, with every frame of xCompressCU, whatever splits are tried
\* and whichever wins.
THEOREM TreeInvariant == TreeSpec => []TreeInv
<1> QED BY TreeInitFits, TreeNextKeeps, PTL DEF TreeSpec

\* No node is lost and none is owned twice: ~PartitionTree frees each exactly once.
THEOREM OwnedHolds == TreeSpec => []Owned
<1>1. TreeInv => Owned
  <2> SUFFICES ASSUME TreeInv PROVE Owned
    OBVIOUS
  <2>1. IsHeap(node) /\ Forest(node, Roots)
    BY DEF TreeInv, TreesFit
  <2>2. UNION {Below(node, t) : t \in Roots} = DOMAIN node
    BY <2>1, RootsCover
  <2>3. ASSUME NEW n \in DOMAIN node
        PROVE  /\ IsInjective(node[n].leaves)
               /\ IF n \in Roots THEN node[n].root = Null
                  ELSE /\ node[n].root \in DOMAIN node
                       /\ {p \in DOMAIN node : n \in LeavesOf(node, p)} = {node[n].root}
    <3>1. IsInjective(node[n].leaves)
      BY <2>1 DEF IsHeap, IsNode
    <3>2. CASE n \in Roots
      BY <2>1, <3>1, <3>2 DEF Forest
    <3>3. CASE n \notin Roots
      <4>1. node[n].root \in DOMAIN node /\ n \in LeavesOf(node, node[n].root)
        BY <2>1, <3>3 DEF Forest
      <4>2. \A p \in DOMAIN node : n \in LeavesOf(node, p) => p = node[n].root
        BY <2>1 DEF Forest
      <4> QED BY <3>1, <3>3, <4>1, <4>2
    <3> QED BY <3>2, <3>3
  <2> QED BY <2>2, <2>3 DEF Owned
<1> QED BY <1>1, TreeInvariant, PTL

\* The depths and the value of every node are those of its path, wherever a transfer hung it.
THEOREM RebuiltHolds == TreeSpec => []Rebuilt
<1>1. TreeInv => Rebuilt
  BY DEF TreeInv, TreesFit, Depths, Values, DepthsFit, ValueFits, Rebuilt
<1> QED BY <1>1, TreeInvariant, PTL

=============================================================================
