-------------------------- MODULE QtbtPartitioner --------------------------
(***************************************************************************)
(* QTBTPartitioner (CommonLib/UnitPartitioner.cpp): the stack of splits    *)
(* that leads to the area being coded in a CTU, with its depth counters.   *)
(* The encoder's search, the CABAC writer and the CABAC reader all drive   *)
(* it the same way: splitCurrArea, the parts one after the other with      *)
(* nextPart, exitCurrSplit; the search also leaves a split half way        *)
(* (xCheckModeSplit).  Writer and reader stay in step only while the       *)
(* counters are exactly those of the path, since canSplit decides from     *)
(* them which flags are in the bitstream.                                  *)
(*                                                                         *)
(* Sizes are luma samples.  modeType and TREE_C only remove alternatives   *)
(* and are left out; transform partitions are not modelled.                *)
(***************************************************************************)
EXTENDS Integers, Sequences, FiniteSets, FiniteSetsExt

CONSTANTS CtuSize,   \* width and height of a CTU
          Configs    \* partitioning constraints and picture areas: a set of records

MaxTbSize == 64         \* MAX_TB_SIZEY
MinDualTreeChromaWidth == 4
MinDualTreeChromaSize == 16

\* maxMtt: getMaxBtDepth; chroma: the chroma tree of a dual tree (4:2:0);
\* qgSubdiv: getCuQpDeltaSubdiv; picW, picH: the part of the CTU in the picture.
\* EncAppCfg.cpp allows these CTU sizes only, and pictures that are a multiple of
\* eight samples wide and high.
ASSUME PartitionerAssumption ==
  /\ CtuSize \in {32, 64, 128}
  /\ \A c \in Configs :
       /\ {c.minBt, c.minTt, c.minQt} \subseteq Nat \ {0}
       /\ {c.maxMtt, c.maxBt, c.maxTt, c.qgSubdiv} \subseteq Nat
       /\ c.dual \in BOOLEAN /\ c.chroma \in BOOLEAN /\ (c.chroma => c.dual)
       /\ {c.picW, c.picH} \subseteq {n \in 1..CtuSize : n % 8 = 0}

VARIABLES cfg,
          stack,      \* m_partStack, the innermost level last
          count,      \* the depth counters
          qgPos,      \* currQgPos
          partDone,   \* the current part has been coded (or lies outside)
          coded       \* ghost: samples of the picture coded so far

vars == <<cfg, stack, count, qgPos, partDone, coded>>

None == "none"
BtSplits == {"horz", "vert"}
TtSplits == {"trih", "triv"}
Splits == BtSplits \cup TtSplits \cup {"quad"}

Level == stack[Len(stack)]
AreaAt(d) == stack[d].parts[stack[d].idx]
Area == AreaAt(Len(stack))
LastSplit == Level.split

\* The samples of an area that lie in the picture.
Low(a, b) == IF a < b THEN a ELSE b
InPicture(a) ==
  LET w == Low(a.x + a.w, cfg.picW) - a.x  h == Low(a.y + a.h, cfg.picH) - a.y
  IN IF w > 0 /\ h > 0 THEN w * h ELSE 0

-----------------------------------------------------------------------------
\* getCUSubPartitions
Parts(a, k) ==
  CASE k = "quad" -> [i \in 1..4 |-> [w |-> a.w \div 2, h |-> a.h \div 2,
                                       x |-> a.x + (IF i \in {2, 4} THEN a.w \div 2 ELSE 0),
                                       y |-> a.y + (IF i \in {3, 4} THEN a.h \div 2 ELSE 0)]]
    [] k = "horz" -> [i \in 1..2 |-> [a EXCEPT !.h = @ \div 2, !.y = @ + (i - 1) * (a.h \div 2)]]
    [] k = "vert" -> [i \in 1..2 |-> [a EXCEPT !.w = @ \div 2, !.x = @ + (i - 1) * (a.w \div 2)]]
    [] k = "trih" -> [i \in 1..3 |->
                        [a EXCEPT !.h = IF i = 2 THEN @ \div 2 ELSE @ \div 4,
                                  !.y = @ + <<0, a.h \div 4, 3 * (a.h \div 4)>>[i]]]
    [] k = "triv" -> [i \in 1..3 |->
                        [a EXCEPT !.w = IF i = 2 THEN @ \div 2 ELSE @ \div 4,
                                  !.x = @ + <<0, a.w \div 4, 3 * (a.w \div 4)>>[i]]]

\* A slip: only the lower border of the picture is looked at.
ImplicitLowerBorder ==
  IF cfg.dual /\ (Area.w > 64 \/ Area.h > 64) THEN "quad"
  ELSE IF Area.y + Area.h <= cfg.picH THEN None
  ELSE IF Area.w <= MaxTbSize /\ Area.w <= cfg.maxBt THEN "horz" ELSE "quad"

\* getImplicitSplit: an area that crosses the border of the picture is split
\* without a flag.
Implicit ==
  LET a     == Area
      blIn  == a.y + a.h <= cfg.picH
      trIn  == a.x + a.w <= cfg.picW
      btOk  == a.w <= cfg.maxBt /\ a.h <= cfg.maxBt /\ count.mt < cfg.maxMtt + count.implicitBt
      qtOk  == a.w > cfg.minQt /\ a.h > cfg.minQt /\ count.bt = 0
  IN IF cfg.dual /\ (a.w > 64 \/ a.h > 64) THEN "quad"
     ELSE IF ~blIn /\ ~trIn /\ qtOk THEN "quad"
     ELSE IF ~blIn /\ btOk /\ a.w <= MaxTbSize THEN "horz"
     ELSE IF ~trIn /\ btOk /\ a.h <= MaxTbSize THEN "vert"
     ELSE IF ~blIn \/ ~trIn THEN "quad"
     ELSE None

MaxMttHere == cfg.maxMtt + count.implicitBt

\* canSplit for an area without implicit split.
ChromaW == Area.w \div 2
ChromaH == Area.h \div 2
ChromaOver(n) == cfg.chroma => ChromaW * ChromaH > n

QtAllowed ==
  /\ LastSplit \in {"ctu", "quad"}
  /\ Area.w > cfg.minQt
  /\ cfg.chroma => ChromaW > MinDualTreeChromaWidth

\* A slip: one level more than the depth allows.
MttAllowedOneMore == count.mt <= MaxMttHere /\ (Area.w > cfg.minBt \/ Area.h > cfg.minBt)

MttAllowed ==
  /\ count.mt < MaxMttHere
  /\ ~(/\ Area.w <= cfg.minBt /\ Area.h <= cfg.minBt
       /\ Area.w <= cfg.minTt /\ Area.h <= cfg.minTt)
  /\ ~(/\ Area.w > cfg.maxBt \/ Area.h > cfg.maxBt
       /\ Area.w > cfg.maxTt \/ Area.h > cfg.maxTt)

BtFits(k) ==
  /\ Area.w <= cfg.maxBt /\ Area.h <= cfg.maxBt
  /\ ~(LastSplit = (IF k = "horz" THEN "trih" ELSE "triv") /\ Level.idx = 2)
  /\ ChromaOver(MinDualTreeChromaSize)
  /\ CASE k = "horz" -> Area.h > cfg.minBt /\ ~(Area.w > MaxTbSize /\ Area.h <= MaxTbSize)
       [] k = "vert" -> /\ Area.w > cfg.minBt /\ ~(Area.w <= MaxTbSize /\ Area.h > MaxTbSize)
                        /\ cfg.chroma => ChromaW # 4

TtFits(k) ==
  /\ Area.w <= cfg.maxTt /\ Area.h <= cfg.maxTt
  /\ Area.w <= MaxTbSize /\ Area.h <= MaxTbSize
  /\ ChromaOver(2 * MinDualTreeChromaSize)
  /\ CASE k = "trih" -> Area.h > 2 * cfg.minTt
       [] k = "triv" -> Area.w > 2 * cfg.minTt /\ (cfg.chroma => ChromaW # 8)

CanImplicit(k) ==
  CASE k = "horz" -> Implicit = "horz"
    [] k = "vert" -> Implicit = "vert" /\ (cfg.chroma => ChromaW # 4)
    [] OTHER -> FALSE

\* A slip: at the border only the binary splits are allowed.
CanSplitBorderBinary(k) ==
  IF Implicit # None THEN CanImplicit(k)
  ELSE \/ k = "quad" /\ QtAllowed
       \/ k \in BtSplits /\ MttAllowed /\ BtFits(k)

\* At the border a quad split is the way out when nothing else is allowed.
CanSplit(k) ==
  IF Implicit # None
    THEN \/ CanImplicit(k)
         \/ k = "quad" /\ (QtAllowed \/ (~CanImplicit("horz") /\ ~CanImplicit("vert")))
    ELSE \/ k = "quad" /\ QtAllowed
         \/ k \in BtSplits /\ MttAllowed /\ BtFits(k)
         \/ k \in TtSplits /\ MttAllowed /\ TtFits(k)

CanNo == Implicit = None

Allowed == {k \in Splits : CanSplit(k)}
Horizontal == {"horz", "trih"}
Vertical == {"vert", "triv"}

Flag(coded1, b) == IF coded1 THEN <<IF b THEN 1 ELSE 0>> ELSE <<>>

\* CABACWriter::split_cu_mode: a flag is in the bitstream only where both its
\* values are possible.
SplitFlags(k) ==
  Flag(CanNo /\ Allowed # {}, k # None)
  \o IF k = None THEN <<>>
     ELSE Flag("quad" \in Allowed /\ Allowed # {"quad"}, k = "quad")
       \o IF k = "quad" THEN <<>>
          ELSE Flag(Allowed \cap Horizontal # {} /\ Allowed \cap Vertical # {}, k \in Vertical)
            \o Flag((IF k \in Vertical THEN Vertical ELSE Horizontal) \subseteq Allowed,
                    k \in BtSplits)

\* A slip: the reader expects the last flag whenever a binary split is allowed.
Flag12ReadAlways(dir) == dir \cap BtSplits \cap Allowed # {}

Flag12Read(dir) == dir \subseteq Allowed

\* CABACReader::split_cu_mode: the split and the number of flags it took.
ReadSplit(flags) ==
  LET f1 == CanNo /\ Allowed # {}
      n1 == IF f1 THEN 1 ELSE 0
      isSplit == IF f1 THEN flags[1] = 1 ELSE Allowed # {}
      f2 == "quad" \in Allowed /\ Allowed # {"quad"}
      n2 == n1 + (IF f2 THEN 1 ELSE 0)
      isQt == IF f2 THEN flags[n2] = 1 ELSE "quad" \in Allowed
      f3 == Allowed \cap Horizontal # {} /\ Allowed \cap Vertical # {}
      n3 == n2 + (IF f3 THEN 1 ELSE 0)
      isVer == IF f3 THEN flags[n3] = 1 ELSE Allowed \cap Vertical # {}
      dir == IF isVer THEN Vertical ELSE Horizontal
      f4 == Flag12Read(dir)
      n4 == n3 + (IF f4 THEN 1 ELSE 0)
      is12 == IF f4 THEN n4 <= Len(flags) /\ flags[n4] = 1 ELSE dir \cap BtSplits \cap Allowed # {}
  IN IF ~isSplit THEN <<None, n1>>
     ELSE IF isQt THEN <<"quad", n2>>
     ELSE <<CHOOSE k \in dir : k \in BtSplits <=> is12, n4>>

-----------------------------------------------------------------------------
Ctu == [x |-> 0, y |-> 0, w |-> CtuSize, h |-> CtuSize]
Zero == [depth |-> 0, qt |-> 0, bt |-> 0, mt |-> 0, subdiv |-> 0, implicitBt |-> 0]

\* initCtu
Init ==
  /\ cfg \in Configs
  /\ stack = <<[split |-> "ctu", parts |-> <<Ctu>>, idx |-> 1, implicit |-> FALSE,
                qg |-> TRUE, saved |-> <<>>]>>
  /\ count = Zero
  /\ qgPos = <<0, 0>>
  /\ partDone = FALSE
  /\ coded = 0

PosOf(a) == <<a.x, a.y>>

\* splitCurrArea; "saved" is a ghost: what the counters were before.
Split(k) ==
  /\ ~partDone /\ InPicture(Area) > 0
  /\ CanSplit(k)
  /\ LET imp == k = Implicit
         sub == count.subdiv + (IF k \in BtSplits THEN 1 ELSE 2)
         qg  == Level.qg /\ sub <= cfg.qgSubdiv
         ps  == Parts(Area, k)
     IN /\ stack' = Append([stack EXCEPT ![Len(stack)].implicit = (Implicit # None)],
                           [split |-> k, parts |-> ps, idx |-> 1, implicit |-> FALSE,
                            qg |-> qg, saved |-> <<count, qgPos, coded>>])
        /\ count' = [depth |-> count.depth + 1, subdiv |-> sub,
                     qt |-> count.qt + (IF k = "quad" THEN 1 ELSE 0),
                     mt |-> IF k = "quad" THEN 0 ELSE count.mt + 1,
                     bt |-> IF k = "quad" THEN 0
                            ELSE count.bt + (IF k \in TtSplits THEN 2 ELSE 1),
                     implicitBt |-> count.implicitBt + (IF k # "quad" /\ imp THEN 1 ELSE 0)]
        /\ qgPos' = IF qg THEN PosOf(ps[1]) ELSE qgPos
  /\ UNCHANGED <<cfg, partDone, coded>>

\* A CU is coded, or the part lies outside the picture.
CodeCu ==
  /\ ~partDone
  /\ CanNo \/ InPicture(Area) = 0
  /\ partDone' = TRUE
  /\ coded' = coded + InPicture(Area)
  /\ UNCHANGED <<cfg, stack, count, qgPos>>

\* nextPart; the middle part of a ternary split is one level less deep.
NextPart ==
  /\ partDone /\ Level.idx < Len(Level.parts)
  /\ LET i == Level.idx + 1
         d == IF Level.split \in TtSplits THEN IF i = 2 THEN -1 ELSE 1 ELSE 0
     IN /\ stack' = [stack EXCEPT ![Len(stack)].idx = i, ![Len(stack)].implicit = FALSE]
        /\ count' = [count EXCEPT !.bt = @ + d, !.subdiv = @ + d]
        /\ qgPos' = IF Level.qg THEN PosOf(Level.parts[i]) ELSE qgPos
  /\ partDone' = FALSE
  /\ UNCHANGED <<cfg, coded>>

\* A slip: exitCurrSplit takes every ternary part for a side part.
MiddlePartNever(lvl) == FALSE

\* exitCurrSplit has to know that it leaves from the middle part.
MiddlePart(lvl) == lvl.split \in TtSplits /\ lvl.idx = 2

\* exitCurrSplit
ExitCounts ==
  LET k == Level.split
      parent == stack[Len(stack) - 1]
      mid == MiddlePart(Level)
  IN [depth |-> count.depth - 1,
      subdiv |-> count.subdiv - 1
                   - (IF k = "quad" \/ (k \in TtSplits /\ ~mid) THEN 1 ELSE 0),
      qt |-> count.qt - (IF k = "quad" THEN 1 ELSE 0),
      mt |-> IF k = "quad" THEN count.mt ELSE count.mt - 1,
      bt |-> IF k = "quad" THEN count.bt
             ELSE count.bt - 1 - (IF k \in TtSplits /\ ~mid THEN 1 ELSE 0),
      implicitBt |-> count.implicitBt - (IF k # "quad" /\ parent.implicit THEN 1 ELSE 0)]

Exit(done) ==
  /\ Len(stack) > 1
  /\ stack' = SubSeq(stack, 1, Len(stack) - 1)
  /\ count' = ExitCounts
  /\ LET parent == stack[Len(stack) - 1]
     IN qgPos' = IF parent.qg THEN PosOf(parent.parts[parent.idx]) ELSE qgPos
  /\ partDone' = done
  /\ cfg' = cfg

\* All parts are coded: the split area is.
Finish ==
  /\ partDone /\ Level.idx = Len(Level.parts)
  /\ Exit(TRUE)
  /\ coded' = coded

\* The search gives the split up before its end and forgets what it coded.
Abandon ==
  /\ ~(partDone /\ Level.idx = Len(Level.parts))
  /\ Exit(FALSE)
  /\ coded' = Level.saved[3]

Next ==
  \/ \E k \in Splits : Split(k)
  \/ CodeCu \/ NextPart \/ Finish \/ Abandon

Spec == Init /\ [][Next]_vars

-----------------------------------------------------------------------------
Done == Len(stack) = 1 /\ partDone

\* However a split is left, at its end or half way, exitCurrSplit gives back the
\* counters and the quantization group of before it: the next alternative of the
\* search is tried in the same state as the first.
ExitRestores ==
  [][Len(stack') < Len(stack) => <<count', qgPos'>> = <<Level.saved[1], Level.saved[2]>>]_vars

\* Every sample of the picture in the CTU is coded exactly once, and by a CU that
\* lies in the picture.
CodedOnce ==
  /\ Done => coded = cfg.picW * cfg.picH
  /\ ~partDone /\ InPicture(Area) > 0 =>
       (CanNo <=> InPicture(Area) = Area.w * Area.h /\ ~(cfg.dual /\ Area.w > 64))

\* The reader recovers from the flags of the writer the split it chose, and reads
\* no more flags than were written, whichever of them were left out.
FlagsDecode ==
  ~partDone /\ InPicture(Area) > 0 =>
    \A k \in Allowed \cup (IF CanNo THEN {None} ELSE {}) :
      ReadSplit(SplitFlags(k)) = <<k, Len(SplitFlags(k))>>

\* There is always something to do with an area of the picture.
NeverStuck == ~partDone /\ InPicture(Area) > 0 => CanNo \/ \E k \in Splits : CanSplit(k)

\* The patch stores the MTT splits of a path in six groups of three bits
\* (encmain.cpp): three explicit ones and those at the border fit.
MttFits == count.mt <= 6

=============================================================================
