---------------------------- MODULE PictureLayout ----------------------------
(* How the picture parameter set divides a picture into tiles and slices of   *)
(* CTUs (PPS::initTiles, initRectSliceMap, initRasterSliceMap in Slice.cpp).  *)
(* A layout is a record: w and h in CTUs, the tile boundaries colBd and rowBd *)
(* (colBd[i] is where column i begins, from 0; the last entry is the picture's *)
(* border) and the slices, each the sequence of its CTU addresses.            *)
EXTENDS Integers, Sequences, SequencesExt

\* Explicit sizes first, which have to fit (CHECKed); the last of them is repeated as
\* long as the picture lasts.
UniformSizes(explicit, total) ==
  LET size == explicit[Len(explicit)]
      rest == total - FoldLeft(+, 0, explicit)
      n    == (rest + size - 1) \div size
  IN explicit \o [i \in 1..n |-> IF i < n THEN size ELSE rest - (n - 1) * size]

Boundaries(sizes) ==
  LET bd[i \in 0..Len(sizes)] == IF i = 0 THEN 0 ELSE bd[i - 1] + sizes[i] IN bd

Last0(bd) == CHOOSE n \in DOMAIN bd : n + 1 \notin DOMAIN bd
NumCols(p) == Last0(p.colBd)
NumRows(p) == Last0(p.rowBd)

\* m_ctuToTileCol and m_ctuToTileRow.
CtuToTile(bd, x) == CHOOSE i \in 0..(Last0(bd) - 1) : bd[i] <= x /\ x < bd[i + 1]

\* Each of the n columns (rows) of CTUs is in one of the tiles'.
InTiles(bd, n) == /\ Last0(bd) \in Nat
                  /\ \A x \in 0..(n - 1) : \E i \in 0..(Last0(bd) - 1) : bd[i] <= x /\ x < bd[i + 1]

CtuX(p, c) == c % p.w
CtuY(p, c) == c \div p.w
CtuIsTileColBd(p, c) == CtuX(p, c) = p.colBd[CtuToTile(p.colBd, CtuX(p, c))]
CtuIsTileRowBd(p, c) == CtuY(p, c) = p.rowBd[CtuToTile(p.rowBd, CtuY(p, c))]
TileIdx(p, c) == CtuToTile(p.rowBd, CtuY(p, c)) * NumCols(p) + CtuToTile(p.colBd, CtuX(p, c))

(* ----------------------------------- slices ----------------------------------- *)

\* addCtusToSlice: a rectangle of CTUs in raster order.
AddCtus(p, x0, x1, y0, y1) ==
  [n \in 1..((x1 - x0) * (y1 - y0)) |->
     (y0 + ((n - 1) \div (x1 - x0))) * p.w + x0 + ((n - 1) % (x1 - x0))]

TileCtus(p, tx, ty) == AddCtus(p, p.colBd[tx], p.colBd[tx + 1], p.rowBd[ty], p.rowBd[ty + 1])

\* The tiles of a rectangle, row by row.
TilesCtus(p, tx, ty, wide, high) ==
  FlattenSeq([n \in 1..(wide * high) |-> TileCtus(p, tx + ((n - 1) % wide), ty + ((n - 1) \div wide))])

\* A raster-scan slice is a run of tiles: the next numTiles[s] ones.
InitRasterSliceMap(p, numTiles) ==
  LET first == Boundaries(numTiles)
  IN [s \in 1..Len(numTiles) |->
        FlattenSeq([i \in 1..numTiles[s] |-> TileCtus(p, (first[s - 1] + i - 1) % NumCols(p),
                                                         (first[s - 1] + i - 1) \div NumCols(p))])]

\* A rectangular slice [tile, wide, high, perTile, rows]: complete tiles, or one of
\* perTile slices of a tile, whose heights in CTU rows are sent for all but the last. The
\* members of a tile take the tile of the first of them; the last slice of the
\* picture that begins a tile takes whatever is left.
InitRectSliceMap(p, rect) ==
  LET n       == Len(rect)
      tx(s)   == rect[s].tile % NumCols(p)
      ty(s)   == rect[s].tile \div NumCols(p)
      wide(s) == IF s = n THEN NumCols(p) - tx(s) ELSE rect[s].wide
      high(s) == IF s = n THEN NumRows(p) - ty(s) ELSE rect[s].high
      per(s)  == IF s = n \/ wide(s) > 1 \/ high(s) > 1 THEN 1 ELSE rect[s].perTile
      lead[s \in 1..n] ==
        IF s > 1 /\ s < lead[s - 1] + per(lead[s - 1]) THEN lead[s - 1] ELSE s
      top[s \in 1..n] ==
        IF lead[s] = s THEN p.rowBd[ty(s)] ELSE top[s - 1] + rect[s - 1].rows
      bottom(s) ==
        IF s + 1 = lead[s] + per(lead[s]) THEN p.rowBd[ty(lead[s]) + 1] ELSE top[s] + rect[s].rows
  IN [s \in 1..n |->
        IF wide(lead[s]) > 1 \/ high(lead[s]) > 1
        THEN TilesCtus(p, tx(s), ty(s), wide(s), high(s))
        ELSE AddCtus(p, p.colBd[tx(lead[s])], p.colBd[tx(lead[s]) + 1], top[s], bottom(s))]

\* One slice per subpicture [x, y, w, h]: some CTU rows of a tile, or complete tiles.
SubPicSliceMap(p, subpics) ==
  [s \in 1..Len(subpics) |->
     LET sp   == subpics[s]
         col  == CtuToTile(p.colBd, sp.x)
         row  == CtuToTile(p.rowBd, sp.y)
         wide == CtuToTile(p.colBd, sp.x + sp.w - 1) + 1 - col
         high == CtuToTile(p.rowBd, sp.y + sp.h - 1) + 1 - row
     IN IF high = 1 /\ sp.h < p.rowBd[row + 1] - p.rowBd[row]
        THEN AddCtus(p, sp.x, sp.x + sp.w, sp.y, sp.y + sp.h)
        ELSE TilesCtus(p, col, row, wide, high)]

\* checkSliceMap: every CTU is in one slice, once.
CheckSliceMap(p) ==
  LET all == FlattenSeq(p.slices)
  IN /\ Len(all) = p.w * p.h
     /\ {all[i] : i \in 1..Len(all)} = 0..(p.w * p.h - 1)

SliceOf(p, c) == CHOOSE s \in 1..Len(p.slices) : \E i \in 1..Len(p.slices[s]) : p.slices[s][i] = c

\* The same, by the places of the CTUs in the slices.
EveryCtuOnce(p) ==
  /\ p.w \in Nat /\ p.h \in Nat /\ p.slices \in Seq(Seq(0..(p.w * p.h - 1)))
  /\ \A c \in 0..(p.w * p.h - 1) :
       \E s \in 1..Len(p.slices) : \E i \in 1..Len(p.slices[s]) : p.slices[s][i] = c
  /\ \A s, t \in 1..Len(p.slices) : \A i \in 1..Len(p.slices[s]), j \in 1..Len(p.slices[t]) :
       p.slices[s][i] = p.slices[t][j] => s = t /\ i = j

\* The tile changes from CTU c to CTU d or, with wavefronts, the CTU row.
Changes(p, wpp, c, d) == \/ CtuToTile(p.rowBd, CtuY(p, c)) # CtuToTile(p.rowBd, CtuY(p, d))
                         \/ CtuToTile(p.colBd, CtuX(p, c)) # CtuToTile(p.colBd, CtuX(p, d))
                         \/ wpp /\ CtuY(p, c) # CtuY(p, d)

LastInTile(bd, x) == x + 1 = bd[CtuToTile(bd, x) + 1]
LastInRow(p, c) == LastInTile(p.colBd, CtuX(p, c))
LastInCol(p, c) == LastInTile(p.rowBd, CtuY(p, c))

\* In a slice a CTU is followed by the one to its right, behind a row of the tile by the
\* next row of it, behind the tile by another.
GoesOn(p, slice, i) ==
  LET c == slice[i]
      d == slice[i + 1]
  IN \/ /\ ~LastInRow(p, c) /\ ~Changes(p, TRUE, c, d)
        /\ ~CtuIsTileColBd(p, d)
     \/ /\ LastInRow(p, c) /\ ~LastInCol(p, c)
        /\ ~Changes(p, FALSE, c, d) /\ CtuY(p, c) # CtuY(p, d)
        /\ CtuIsTileColBd(p, d) /\ ~CtuIsTileRowBd(p, d)
        /\ \E j \in 1..i : slice[j] = d - p.w /\ TileIdx(p, slice[j]) = TileIdx(p, d)
     \/ /\ LastInRow(p, c) /\ LastInCol(p, c)
        /\ CtuIsTileColBd(p, d) /\ CtuIsTileRowBd(p, d)
        /\ \A j \in 1..i : TileIdx(p, slice[j]) # TileIdx(p, d)

\* What the slice maps have in common, being made of rectangles of whole rows of a tile.
WholeRows(p) ==
  /\ p.slices # <<>>
  /\ \A s \in 1..Len(p.slices) :
       LET slice == p.slices[s]
       IN /\ slice # <<>> /\ CtuIsTileColBd(p, slice[1])
          /\ \A i \in 1..(Len(slice) - 1) : GoesOn(p, slice, i)
          /\ \A i, j \in 1..Len(slice) : slice[j] = slice[i] - p.w => j < i

(* --------------------------------- sub-streams --------------------------------- *)

\* The CTUs of a slice but its first that begin a tile or, with wavefronts, a CTU row.
SubstreamStarts(p, s, wpp) ==
  {i \in 2..Len(p.slices[s]) : /\ CtuIsTileColBd(p, p.slices[s][i])
                               /\ CtuIsTileRowBd(p, p.slices[s][i]) \/ wpp}

\* setNumEntryPoints counts these places.
NumEntryPoints(p, s, wpp, present) ==
  IF ~present THEN 0
  ELSE Cardinality({i \in 1..(Len(p.slices[s]) - 1) :
                      Changes(p, wpp, p.slices[s][i], p.slices[s][i + 1])})

\* The output bitstreams compressGOP allocates for a picture.
NumSubstreams(p, wpp) ==
  LET used == (IF wpp THEN p.h ELSE NumRows(p)) * NumCols(p)
  IN IF used > Len(p.slices) THEN used ELSE Len(p.slices)
=============================================================================
