---------------------------- MODULE PartitionTree ----------------------------
(***************************************************************************)
(* The PartitionTree nodes a storing run builds for a CTU, as a heap.      *)
(* EncCu::xCompressCU explores each split of a node in a temporary tree    *)
(* whose root has no parent, so the leaves are numbered and valued from    *)
(* that root; when the split wins, transfer_leaves hangs them under the    *)
(* real node and rebuilds depths, then values, of everything below.  The   *)
(* losing temporary trees are destroyed with their leaves.                 *)
(*                                                                         *)
(* The recursions of the code go down a tree by generations here: a node   *)
(* is deleted, or rebuilt from its parent, with those as far below.        *)
(* Which split wins is left open here: PartitionSearch is about that.      *)
(***************************************************************************)
EXTENDS Integers, FiniteSets, SequencesExt

CONSTANTS CtuSize,      \* width and height of a CTU
          MinSize,      \* smallest width or height of a node
          MaxMttDepth,  \* nested binary and ternary splits
          MttDataSize,  \* bits of a value that hold them, three for each (encmain.cpp: 6*3)
          MaxTries      \* splits explored in one CTU (bounds the state space)

ASSUME TreeAssumption ==
  /\ {CtuSize, MinSize, MaxMttDepth, MttDataSize, MaxTries} \subseteq Nat \ {0}
  /\ 3 * MaxMttDepth <= MttDataSize

VARIABLES node,    \* the live nodes: id -> node
          frames,  \* the nodes xCompressCU is in, the innermost last
          tries    \* splits explored so far

treeVars == <<node, frames, tries>>

Null == 0
CtuRoot == 1
Kinds == {"qt", "bth", "btv", "tth", "ttv"}

NodeOf(w, h, root, bin, tern, qd, bd, td, val) ==
  [w |-> w, h |-> h, root |-> root, leaves |-> <<>>, bin |-> bin, tern |-> tern,
   qd |-> qd, bd |-> bd, td |-> td, val |-> val]

\* get_cur_val of a node below a parent of value v and height ph: one more in the
\* quad-tree field, or the split mode at the place of the MTT depth.
Step(v, ph, n) ==
  v + (IF ~n.bin /\ ~n.tern THEN 1
       ELSE IF n.bin THEN IF ph > n.h THEN 1 ELSE 3
       ELSE IF ph > n.h THEN 5 ELSE 7)
      * 2^(IF n.bin \/ n.tern THEN MttDataSize - 3 * (n.bd + n.td) ELSE MttDataSize)

CurVal(hp, n) == IF hp[n].root = Null THEN 0
                 ELSE Step(hp[hp[n].root].val, hp[hp[n].root].h, hp[n])

-----------------------------------------------------------------------------
\* split(): the sizes of the parts, and the leaves the constructor makes.
Sizes(w, h, k) ==
  CASE k = "qt"  -> [i \in 1..4 |-> <<w \div 2, h \div 2>>]
    [] k = "bth" -> [i \in 1..2 |-> <<w, h \div 2>>]
    [] k = "btv" -> [i \in 1..2 |-> <<w \div 2, h>>]
    [] k = "tth" -> [i \in 1..3 |-> <<w, IF i = 2 THEN h \div 2 ELSE h \div 4>>]
    [] k = "ttv" -> [i \in 1..3 |-> <<IF i = 2 THEN w \div 2 ELSE w \div 4, h>>]

Bin(k)  == k \in {"bth", "btv"}
Tern(k) == k \in {"tth", "ttv"}

With(f, x, v) == [y \in DOMAIN f \cup {x} |-> IF y = x THEN v ELSE f[y]]

\* The depths the constructor counts on the way up to the root: the new leaf
\* itself, then its parents below the root.
SplitNode(hp, n, k, ids) ==
  LET sz  == Sizes(hp[n].w, hp[n].h, k)
      leaf(i) ==
        LET x == NodeOf(sz[i][1], sz[i][2], n, Bin(k), Tern(k),
                        hp[n].qd + (IF k = "qt" THEN 1 ELSE 0),
                        hp[n].bd + (IF Bin(k) THEN 1 ELSE 0),
                        hp[n].td + (IF Tern(k) THEN 1 ELSE 0), 0)
        IN [x EXCEPT !.val = Step(hp[n].val, hp[n].h, x)]
  IN [m \in DOMAIN hp \cup {ids[i] : i \in 1..Len(sz)} |->
        IF m = n THEN [hp[n] EXCEPT !.leaves = [i \in 1..Len(sz) |-> ids[i]]]
        ELSE IF m \in DOMAIN hp THEN hp[m]
        ELSE leaf(CHOOSE i \in 1..Len(sz) : ids[i] = m)]

LeavesOf(hp, n) == IF n \in DOMAIN hp THEN Range(hp[n].leaves) ELSE {}

LeavesOfAll(hp, nodes) == UNION {LeavesOf(hp, n) : n \in nodes}

\* Parts are smaller than what is split, so no tree is deeper.
MaxDepth == 2 * CtuSize

\* rebuild_depths of a leaf c of p; the quad branch leaves the binary and ternary depths
\* alone.
WithDepths(p, c) ==
  CASE c.bin -> [c EXCEPT !.bd = p.bd + 1, !.td = p.td, !.qd = p.qd]
    [] ~c.bin /\ c.tern -> [c EXCEPT !.td = p.td + 1, !.bd = p.bd, !.qd = p.qd]
    [] OTHER -> [c EXCEPT !.qd = p.qd + 1]

\* From the last generation of a tree to the next one, with what is done to its nodes; one
\* that is not in the heap is a dangling pointer.
OneDown(what, s) ==
  LET next == LeavesOfAll(s.heap, s.last)
      Visited(m) == CASE what = "depths" -> WithDepths(s.heap[s.heap[m].root], s.heap[m])
                      [] what = "values" -> [s.heap[m] EXCEPT !.val = CurVal(s.heap, m)]
                      [] OTHER -> s.heap[m]
  IN [heap |-> [m \in DOMAIN s.heap |-> IF m \in next THEN Visited(m) ELSE s.heap[m]],
      last |-> next, seen |-> s.seen \cup next]

Descend(what, hp, n) ==
  LET down[k \in 0..MaxDepth] ==
        IF k = 0 THEN [heap |-> hp, last |-> {n}, seen |-> {n}] ELSE OneDown(what, down[k - 1])
  IN down[MaxDepth]

Below(hp, n) == Descend("nothing", hp, n).seen

\* ~PartitionTree, of each of some trees.
Delete(hp, trees) == [m \in DOMAIN hp \ UNION {Below(hp, t) : t \in trees} |-> hp[m]]

RebuildDepths(hp, n) == Descend("depths", hp, n).heap

RebuildValues(hp, n) == Descend("values", [hp EXCEPT ![n].val = CurVal(hp, n)], n).heap

\* A slip: the source keeps its pointers to the leaves it gave away.
RehangShared(hp, src, dst) ==
  [m \in DOMAIN hp |-> IF m = dst THEN [hp[m] EXCEPT !.leaves = hp[src].leaves]
                       ELSE IF m \in LeavesOf(hp, src)
                         THEN [hp[m] EXCEPT !.root = dst] ELSE hp[m]]

\* The leaves change parents; the source keeps none.
Rehang(hp, src, dst) ==
  LET moved == LeavesOf(hp, src)
  IN [m \in DOMAIN hp |-> CASE m = dst -> [hp[m] EXCEPT !.leaves = hp[src].leaves]
                            [] m = src -> [hp[m] EXCEPT !.leaves = <<>>]
                            [] m \in moved -> [hp[m] EXCEPT !.root = dst]
                            [] OTHER -> hp[m]]

\* A slip: values are rebuilt before the depths they depend on.
TransferValuesFirst(hp, src, dst) ==
  RebuildDepths(RebuildValues(Rehang(hp, src, dst), dst), dst)

\* transfer_leaves
Transfer(hp, src, dst) ==
  RebuildValues(RebuildDepths(Rehang(hp, src, dst), dst), dst)

-----------------------------------------------------------------------------
\* A frame: the node, the depths of the partitioner there, the temporary tree
\* of each split explored, the split in progress and its leaf.
Frame(n, qt, mtt) ==
  [dst |-> n, qt |-> qt, mtt |-> mtt, temps |-> <<>>, kind |-> "none", idx |-> 0]

TreeInit ==
  /\ node = [n \in {CtuRoot} |-> NodeOf(CtuSize, CtuSize, Null, FALSE, FALSE, 0, 0, 0, 0)]
  /\ frames = <<Frame(CtuRoot, 0, 0)>>
  /\ tries = 0

Top == frames[Len(frames)]

\* The partitioner refuses parts below the minimum, a quad split below an MTT
\* split and too deep an MTT split.
CanSplit(f, k) ==
  /\ \A size \in Range(Sizes(node[f.dst].w, node[f.dst].h, k)) : size[1] >= MinSize /\ size[2] >= MinSize
  /\ IF k = "qt" THEN f.mtt = 0 ELSE f.mtt < MaxMttDepth

\* The frame of leaf i of the split in progress in f.
Enter(f, i, hp) ==
  Frame(hp[f.temps[f.kind]].leaves[i],
        f.qt + (IF f.kind = "qt" THEN 1 ELSE 0), f.mtt + (IF f.kind = "qt" THEN 0 ELSE 1))

\* xCheckModeSplit: a temporary tree is split and its first leaf compressed.  Each tree
\* once; the second round of a local dual tree, which splits it again and loses the leaves
\* of the first, is left out.
TrySplit(k) ==
  /\ frames # <<>>
  /\ k \notin DOMAIN Top.temps
  /\ CanSplit(Top, k)
  /\ tries < MaxTries
  /\ LET t  == 5 * tries + 2   \* an id no node has
         d  == node[Top.dst]
         hp == SplitNode(With(node, t, NodeOf(d.w, d.h, Null, d.bin, d.tern, 0, 0, 0, 0)),
                         t, k, [i \in 1..4 |-> t + i])
         f  == [Top EXCEPT !.temps = With(@, k, t), !.kind = k, !.idx = 1]
     IN /\ node' = hp
        /\ frames' = Append([frames EXCEPT ![Len(frames)] = f], Enter(f, 1, hp))
  /\ tries' = tries + 1

\* Back in the caller, which goes to a later leaf (parts outside the picture are passed
\* over) or leaves the split, at its end or because it has become too dear.
Resume(outer) ==
  LET p == Last(outer)
      sub == node[p.temps[p.kind]].leaves
  IN \/ \E i \in (p.idx + 1)..Len(sub) :
          frames' = Append([outer EXCEPT ![Len(outer)].idx = i], Enter(p, i, node))
     \/ frames' = [outer EXCEPT ![Len(outer)].kind = "none", ![Len(outer)].idx = 0]

\* The end of xCompressCU: one of the temporary trees, or none, gives its leaves to
\* the node, and all of them are destroyed.
Return ==
  /\ frames # <<>>
  /\ \E k \in DOMAIN Top.temps \cup {"none"} :
       node' = Delete(IF k = "none" THEN node ELSE Transfer(node, Top.temps[k], Top.dst), Range(Top.temps))
  /\ IF Len(frames) = 1 THEN frames' = <<>> ELSE Resume(Front(frames))
  /\ tries' = tries

TreeNext == (\E k \in Kinds : TrySplit(k)) \/ Return

TreeSpec == TreeInit /\ [][TreeNext]_treeVars

-----------------------------------------------------------------------------
Roots == {CtuRoot} \cup UNION {Range(frames[d].temps) : d \in 1..Len(frames)}

\* No dangling and no lost node: every node is reached from the CTU tree or an
\* open temporary tree, from one parent only, which it points back to.  The
\* destructor would otherwise free a leaf twice, or never.
Owned ==
  /\ UNION {Below(node, t) : t \in Roots} = DOMAIN node
  /\ \A n \in DOMAIN node :
       /\ IsInjective(node[n].leaves)
       /\ IF n \in Roots THEN node[n].root = Null
          ELSE /\ node[n].root \in DOMAIN node
               /\ {p \in DOMAIN node : n \in LeavesOf(node, p)} = {node[n].root}

\* Wherever a node hangs, its depths and value are those of its path from the
\* root of its tree, as if it had been made there: rebuild_depths and
\* rebuild_values reach everything a transfer moves.
Rebuilt ==
  \A n \in DOMAIN node \ Roots :
    LET p == node[node[n].root] c == node[n]
    IN /\ c.bd = p.bd + (IF c.bin THEN 1 ELSE 0)
       /\ c.td = p.td + (IF c.tern THEN 1 ELSE 0)
       /\ c.qd = p.qd + (IF ~c.bin /\ ~c.tern THEN 1 ELSE 0)
       /\ c.val = Step(p.val, p.h, c)
=============================================================================
