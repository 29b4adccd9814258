--------------------------- MODULE PartitionMatrix ---------------------------
(* A finished tree as a matrix: at the end of a CTU array_store lays the values *)
(* out, one for each sample, and load_ctu of a reading run has to find the same *)
(* tree in them (split_from_depth).                                             *)
EXTENDS PartitionTree

\* The value of each sample of the CTU: that of the leaf that covers it.
RECURSIVE ValueAt(_, _, _)
ValueAt(n, x, y) ==
  LET sub == node[n].leaves
      dx(i) == IF node[sub[i]].w = node[n].w THEN 0
               ELSE IF Len(sub) = 4 THEN IF i \in {2, 4} THEN node[n].w \div 2 ELSE 0
               ELSE IF Len(sub) = 3 THEN <<0, node[n].w \div 4, 3 * (node[n].w \div 4)>>[i]
               ELSE (i - 1) * (node[n].w \div 2)
      dy(i) == IF node[sub[i]].h = node[n].h THEN 0
               ELSE IF Len(sub) = 4 THEN IF i \in {3, 4} THEN node[n].h \div 2 ELSE 0
               ELSE IF Len(sub) = 3 THEN <<0, node[n].h \div 4, 3 * (node[n].h \div 4)>>[i]
               ELSE (i - 1) * (node[n].h \div 2)
      i == CHOOSE j \in 1..Len(sub) :
             /\ x >= dx(j) /\ x < dx(j) + node[sub[j]].w
             /\ y >= dy(j) /\ y < dy(j) + node[sub[j]].h
  IN IF sub = <<>> THEN node[n].val ELSE ValueAt(sub[i], x - dx(i), y - dy(i))

ArrayStore == [x \in 0..(CtuSize - 1), y \in 0..(CtuSize - 1) |-> ValueAt(CtuRoot, x, y)]

\* A slip: the three groups are not reversed, so the last split is read first.
GroupLastFirst(v, k) ==
  IF 3 * k > MttDataSize THEN 0 ELSE (v \div 2^(3 * (k - 1))) % 8

\* Group k of three bits of a value, 0 past the last one.
Group(v, k) == IF 3 * k > MttDataSize THEN 0 ELSE (v \div 2^(MttDataSize - 3 * k)) % 8

\* The kind of a group: bit 2 tells a ternary split, bit 1 a vertical one.
KindOf(g) == IF g < 4 THEN IF g < 2 THEN "bth" ELSE "btv"
             ELSE IF g < 6 THEN "tth" ELSE "ttv"

Tree(k, subs) == [kind |-> k, subs |-> subs]

\* split_from_depth of the block at x, y after q quad and m MTT splits.  Only the
\* first sample of a block decides; below an MTT split the quad depth is not read again.
RECURSIVE Load(_, _, _, _, _, _, _)
Load(mat, x, y, w, h, q, m) ==
  LET v  == mat[x, y]
      k  == IF m = 0 /\ v \div 2^MttDataSize > q THEN "qt"
            ELSE IF \A j \in (m + 1)..(MttDataSize \div 3) : Group(v, j) = 0 THEN "none"
            ELSE KindOf(Group(v, m + 1))
      sz == Sizes(w, h, k)
      at(i) == CASE k = "qt" -> <<x + (IF i \in {2, 4} THEN w \div 2 ELSE 0),
                                  y + (IF i \in {3, 4} THEN h \div 2 ELSE 0)>>
                 [] k = "bth" -> <<x, y + (i - 1) * (h \div 2)>>
                 [] k = "btv" -> <<x + (i - 1) * (w \div 2), y>>
                 [] k = "tth" -> <<x, y + <<0, h \div 4, 3 * (h \div 4)>>[i]>>
                 [] k = "ttv" -> <<x + <<0, w \div 4, 3 * (w \div 4)>>[i], y>>
  IN IF k = "none" THEN Tree("none", <<>>)
     ELSE Tree(k, [i \in 1..Len(sz) |->
                     Load(mat, at(i)[1], at(i)[2], sz[i][1], sz[i][2],
                          IF k = "qt" THEN q + 1 ELSE q, IF k = "qt" THEN m ELSE m + 1)])

\* shall_we_split: the kind of a node is told from its first leaf.
SplitOf(n) ==
  IF node[n].leaves = <<>> THEN "none"
  ELSE LET c == node[node[n].leaves[1]]
       IN IF ~c.bin /\ ~c.tern THEN "qt"
          ELSE IF c.w = node[n].w THEN IF c.bin THEN "bth" ELSE "tth"
          ELSE IF c.bin THEN "btv" ELSE "ttv"

RECURSIVE Shape(_)
Shape(n) == Tree(SplitOf(n), [i \in 1..Len(node[n].leaves) |-> Shape(node[n].leaves[i])])

\* A reading run loads, from the matrix of the finished CTU, the tree that was
\* stored: store_ctu and load_ctu are inverse on every tree the search can build.
RoundTrip ==
  frames = <<>> => Load(ArrayStore, 0, 0, CtuSize, CtuSize, 0, 0) = Shape(CtuRoot)
=============================================================================
