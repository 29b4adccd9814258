--------------------------- MODULE PartitionSearch ---------------------------
(***************************************************************************)
(* The rate-distortion search of a CTU and the partition tree the patch    *)
(* keeps beside it.  EncCu::xCompressCU recurses over the splits of a CU   *)
(* through EncCu::xCheckModeSplit.  Two answers grow in parallel:          *)
(*   - the coded one, bestCS: a candidate replaces it when it is strictly  *)
(*     cheaper (EncModeCtrlMTnoRQT::useModeResult);                        *)
(*   - the stored one, the PartitionTree node: each split is explored in a *)
(*     temporary tree with a cost of its own, and at the end of the CU the *)
(*     cheapest temporary tree gives its leaves to the node.               *)
(* A reading run walks a loaded tree with a cursor and tests, in each CU,  *)
(* only what the node under the cursor says, if its mode control lets it;  *)
(* the colour transform makes it test intra modes whatever the node says.  *)
(*                                                                         *)
(* A tree is [kind, subs]; an unsplit CU is Leaf.  A cost is a natural     *)
(* number below Max, which is MAX_DOUBLE.  Areas are left out: every part  *)
(* lies in the picture, and costDbOffset is 0 (EncDbOpt off).              *)
(***************************************************************************)
EXTENDS Naturals, Sequences

CONSTANTS Kinds,      \* split kinds, in the order the stored tree prefers them
          Orders,     \* the orders EncModeCtrl may test them in: quad split first or last
          NumParts,   \* parts of each kind
          Costs,      \* costs of coding a CU without split
          SplitCost,  \* cost of the split flags
          MaxDepth,   \* splits nested in one another
          Rounds,     \* numbers of rounds of a split: {1}, or {1, 2} in a local dual tree
          ColorTransform,  \* getUseColorTrans() && !isDualITree()
          Runs        \* what a run loads: a tree, or NoFile when it stores one

Max == 1000000

KindSet == {Kinds[i] : i \in 1..Len(Kinds)}

ASSUME SearchAssumption ==
  /\ "none" \notin KindSet
  /\ NumParts \in [KindSet -> Nat \ {0}]
  /\ Orders \subseteq Seq(KindSet)
  /\ \A ks \in Orders : /\ \A i, j \in 1..Len(ks) : ks[i] = ks[j] => i = j
                        /\ \A k \in KindSet : \E i \in 1..Len(ks) : ks[i] = k
  /\ Costs \subseteq 0..(Max - 1)
  /\ SplitCost \in Nat
  /\ MaxDepth \in Nat
  /\ Rounds \subseteq {1, 2}
  /\ ColorTransform \in BOOLEAN

VARIABLES stack,   \* the frames of xCompressCU, the innermost last
          ret,     \* what the last xCompressCU that returned leaves behind
          loaded,  \* the loaded tree of a reading run, NoFile in a storing run
          cursor,  \* m_cur_tree: the path from the root of loaded, reading runs only
          tied,    \* ghost: two candidates of a CU had the same cost
          refused, \* ghost: a reading run refused a loaded split, or had no mode for a leaf
          overruled  \* ghost: a mode without split succeeded in a CU that the loaded tree splits

vars == <<stack, ret, loaded, cursor, tied, refused, overruled>>

Leaf == [kind |-> "none", subs |-> <<>>]
Tree(k, subs) == [kind |-> k, subs |-> subs]
Nothing == [cost |-> Max, coded |-> Leaf, stored |-> Leaf]

NoFile == Tree("no file", <<>>)

\* The trees with at most h nested splits: what a storing run can write.
Grown(trees) ==
  {Leaf} \cup UNION {{Tree(k, s) : s \in [1..NumParts[k] -> trees]} : k \in KindSet}
TreesOf[h \in 0..MaxDepth] == IF h = 0 THEN {Leaf} ELSE Grown(TreesOf[h - 1])

\* A CU with at most h nested splits costs at most bound[h], which stays below Max.
Budget(bound) ==
  /\ bound \in [0..MaxDepth -> 0..(Max - 1)]
  /\ \A h \in 0..MaxDepth : \A c \in Costs : c <= bound[h]
  /\ \A h \in 1..MaxDepth : \A k \in KindSet : NumParts[k] * bound[h - 1] + SplitCost <= bound[h]

Reading == loaded # NoFile
Writing == ~Reading

Top == stack[Len(stack)]
SetTop(f) == [stack EXCEPT ![Len(stack)] = f]

\* The node of loaded under the cursor.
NodeAt(path) ==
  LET at[i \in 0..Len(path)] == IF i = 0 THEN loaded ELSE at[i - 1].subs[path[i]]
  IN at[Len(path)]

-----------------------------------------------------------------------------
\* shall_we_split: of the splits in their order ks, a reading run tests only the one
\* under the cursor, and no mode without split unless the node there is a leaf.
Testable(path, ks) ==
  IF Writing THEN ks
  ELSE IF NodeAt(path).kind \in KindSet THEN <<NodeAt(path).kind>> ELSE <<>>

\* What the modes without split may cost, Max when none is allowed or succeeds.  A
\* reading run tests them at the leaves of the loaded tree only, but for ETM_INTRA
\* with the colour transform, which does not look at the node.
NoSplitCosts(path) ==
  IF Writing \/ ColorTransform \/ NodeAt(path).kind = "none" THEN Costs \cup {Max} ELSE {Max}

\* A reading run has no mode for a leaf of the loaded tree.
NoMode(path, f) == Reading /\ NodeAt(path).kind = "none" /\ f.best = Max

\* It has found one where the loaded tree splits.
Overrules(path, f) == Reading /\ NodeAt(path).kind # "none" /\ f.best # Max

\* xCompressCU up to the first split: the modes without split are tested first;
\* the temporary trees take the cost bestCS has on entry, MAX_DOUBLE.
NewFrames(depth, path) ==
  {[depth |-> depth, best |-> c, coded |-> Leaf,
    todo |-> IF depth = MaxDepth THEN <<>> ELSE Testable(path, ks),
    kind |-> "none", round |-> 0, rounds |-> 0,
    idx |-> 0, acc |-> 0, parts |-> <<>>,
    temp |-> [k \in KindSet |-> [cost |-> Max, subs |-> <<>>]]] :
      c \in NoSplitCosts(path), ks \in Orders}

Init ==
  /\ loaded \in Runs
  /\ cursor = <<>>
  /\ stack \in {<<f>> : f \in NewFrames(0, <<>>)}
  /\ ret = Nothing
  /\ tied = FALSE
  /\ refused = NoMode(<<>>, stack[1])
  /\ overruled = Overrules(<<>>, stack[1])

CursorUp == IF Reading THEN SubSeq(cursor, 1, Len(cursor) - 1) ELSE cursor

\* A slip: every part is searched with the first leaf of the node.
CursorDownFirst(i) == IF Reading THEN Append(cursor, 1) ELSE cursor

CursorDown(i) == IF Reading THEN Append(cursor, i) ELSE cursor

\* xCompressCU of part i of the split in progress in frame f.
EnterPart(f, i) ==
  /\ cursor' = CursorDown(i)
  /\ \E g \in NewFrames(f.depth + 1, CursorDown(i)) :
       /\ stack' = Append(SetTop([f EXCEPT !.idx = i]), g)
       /\ refused' = (refused \/ NoMode(CursorDown(i), g))
       /\ overruled' = (overruled \/ Overrules(CursorDown(i), g))
  /\ ret' = Nothing

\* A round of a split: splitCurrArea, a fresh set of leaves in the temporary
\* tree (those of an earlier round are dropped), the first part.
BeginRound(f) ==
  EnterPart([f EXCEPT !.acc = 0, !.parts = <<>>,
                      !.temp[f.kind].subs = [i \in 1..NumParts[f.kind] |-> Leaf]], 1)

\* A split is left out: EncModeCtrl::tryMode refuses it, or xCheckModeSplit estimates
\* that it costs more than bestCS.  A reading run has no other split to test.
SkipSplit ==
  /\ Top.kind = "none" /\ Top.todo # <<>>
  /\ stack' = SetTop([Top EXCEPT !.todo = Tail(@)])
  /\ refused' = (refused \/ Reading)
  /\ UNCHANGED <<ret, loaded, cursor, tied, overruled>>

StartSplit ==
  /\ Top.kind = "none" /\ Top.todo # <<>>
  /\ \E n \in Rounds :
       BeginRound([Top EXCEPT !.todo = Tail(@), !.kind = Head(Top.todo),
                              !.round = 1, !.rounds = n])
  /\ UNCHANGED <<loaded, tied>>

\* The end of a round: the second one begins, unless skipInterPass is set.
RoundOver(f) ==
  \/ /\ f.round < f.rounds
     /\ BeginRound([f EXCEPT !.round = 2])
     /\ UNCHANGED <<loaded, tied>>
  \/ /\ stack' = SetTop([f EXCEPT !.kind = "none"])
     /\ ret' = Nothing
     /\ UNCHANGED <<loaded, cursor, refused, overruled>>

\* What xCheckModeSplit does with a part whose xCompressCU has returned.
GotPart == /\ Top.kind # "none" /\ Top.idx > 0 /\ ret # Nothing

WithPart == [Top EXCEPT !.temp[Top.kind].subs[Top.idx] = ret.stored]

\* bestSubCS has no result: the split is given up before set_rd_cost.
PartFails == ret.cost = Max

\* The sum of the parts already exceeds bestCS.  This ends a split in a region of an
\* inter slice that is constrained to intra modes: the second round is one, and the
\* first may be part of one.
TooDear == Top.acc + ret.cost > Top.best
GoesOn == ~PartFails /\ (TooDear => Top.round = 1)

AbandonSplit ==
  /\ GotPart
  /\ PartFails \/ TooDear
  /\ RoundOver([WithPart EXCEPT !.idx = 0])
  /\ tied' = tied

NextPart ==
  /\ GotPart
  /\ GoesOn
  /\ Top.idx < NumParts[Top.kind]
  /\ EnterPart([WithPart EXCEPT !.acc = @ + ret.cost, !.parts = Append(@, ret.coded)],
               Top.idx + 1)
  /\ UNCHANGED <<loaded, tied>>

\* useModeResult
Cheaper(cost, best) == cost < best

\* The last part: the temporary tree takes the cost of the split, then
\* xCheckBestMode compares it with bestCS.
EndSplit ==
  /\ GotPart
  /\ GoesOn
  /\ Top.idx = NumParts[Top.kind]
  /\ LET k    == Top.kind
         cost == Top.acc + ret.cost + SplitCost
         f    == [WithPart EXCEPT !.idx = 0, !.temp[k].cost = cost]
         tree == Tree(k, Append(Top.parts, ret.coded))
     IN /\ RoundOver(IF Cheaper(cost, Top.best)
                       THEN [f EXCEPT !.best = cost, !.coded = tree]
                       ELSE f)
        /\ tied' = (tied \/ cost = Top.best)

\* The minimum of bestCS and of the temporary trees, and the first tree in
\* the order of Kinds that has it: its leaves go to the node.
MinCost(f) ==
  LET candidates == {f.best} \cup {f.temp[k].cost : k \in KindSet}
  IN CHOOSE c \in candidates : \A d \in candidates : c <= d

\* A slip: the cheapest temporary tree is taken even when not splitting is cheaper.
SelectedAmongSplits(f) ==
  {i \in 1..Len(Kinds) : /\ f.temp[Kinds[i]].cost # Max
                         /\ \A k \in KindSet : f.temp[Kinds[i]].cost <= f.temp[k].cost}

Selected(f) ==
  {i \in 1..Len(Kinds) : /\ f.temp[Kinds[i]].cost = MinCost(f)
                         /\ f.temp[Kinds[i]].cost # Max}

StoredTree(f) ==
  IF Reading \/ Selected(f) = {} THEN Leaf
  ELSE LET k == Kinds[CHOOSE i \in Selected(f) : \A j \in Selected(f) : i <= j]
       IN Tree(k, f.temp[k].subs)

\* xCompressCU returns to xCheckModeSplit, which moves the cursor back to the root.
ReturnCu ==
  /\ Len(stack) > 1
  /\ Top.kind = "none" /\ Top.todo = <<>>
  /\ ret' = [cost |-> Top.best, coded |-> Top.coded, stored |-> StoredTree(Top), done |-> TRUE]
  /\ stack' = SubSeq(stack, 1, Len(stack) - 1)
  /\ cursor' = CursorUp
  /\ UNCHANGED <<loaded, tied, refused, overruled>>

Next ==
  \/ SkipSplit \/ StartSplit
  \/ AbandonSplit \/ NextPart \/ EndSplit
  \/ ReturnCu

Spec == Init /\ [][Next]_vars

-----------------------------------------------------------------------------
Done == Len(stack) = 1 /\ Top.kind = "none" /\ Top.todo = <<>>

\* The tree written to the .dat file is the partition the CTU is coded with,
\* as PartitionParam.h says a reading run re-injects it: xCompressCU keeps the
\* two answers apart, and nothing but equal costs may separate them.
StoredIsCoded == Writing /\ Done /\ ~tied => StoredTree(Top) = Top.coded

\* A reading run re-injects the loaded partition, as PartitionParam.h says: a CTU that
\* is coded is coded as the loaded tree splits it, whatever the mode control refuses on
\* the way, and only a refusal can leave the CTU without a coding ("No possible
\* encoding found" at the end of compressCtu).  Excepted is a CTU in which the colour
\* transform had intra modes tested, with success, where the loaded tree splits.
ReplayFollows ==
  Reading /\ Done /\ ~overruled => /\ Top.best # Max => Top.coded = loaded
                                   /\ ~refused => Top.best # Max

=============================================================================
