---------------------------- MODULE MCSliceCtus ----------------------------
EXTENDS SliceCtus

\* the ends of the range: a delta from one to the other goes round
SomeQps == {-12, 20, 63}

\* A picture of w times h CTUs with explicit tile sizes and no slices yet.
Tiled(w, h, cols, rows) ==
  [w |-> w, h |-> h, colBd |-> Boundaries(UniformSizes(cols, w)),
   rowBd |-> Boundaries(UniformSizes(rows, h)), slices |-> <<>>]

WithSlices(p, slices) == [p EXCEPT !.slices = slices]

One == Tiled(2, 3, <<2>>, <<3>>)      \* one tile
Four == Tiled(3, 2, <<2>>, <<1>>)     \* four, the last column narrower
Columns == Tiled(2, 3, <<1>>, <<3>>)  \* two of one CTU each row

Rows(n) == [tile |-> 0, wide |-> 1, high |-> 1, perTile |-> 2, rows |-> n]
Whole(t, wide, high) == [tile |-> t, wide |-> wide, high |-> high, perTile |-> 1, rows |-> 0]

\* One slice; two in a tile; a raster-scan slice of three tiles, and one; a rectangle of
\* two tiles beside another; two slices in a tile, and one in the other; subpictures.
SomeLayouts ==
  {p \in {WithSlices(One, InitRasterSliceMap(One, <<1>>)),
          WithSlices(One, InitRectSliceMap(One, <<Rows(1), Rows(2)>>)),
          WithSlices(Four, InitRasterSliceMap(Four, <<3, 1>>)),
          WithSlices(Four, InitRectSliceMap(Four, <<Whole(0, 1, 2), Whole(1, 1, 2)>>)),
          WithSlices(Columns, InitRectSliceMap(Columns, <<Rows(2), Rows(1), Whole(1, 1, 1)>>)),
          WithSlices(Columns, SubPicSliceMap(Columns, <<[x |-> 0, y |-> 0, w |-> 1, h |-> 1],
                                                        [x |-> 0, y |-> 1, w |-> 1, h |-> 2],
                                                        [x |-> 1, y |-> 0, w |-> 1, h |-> 3]>>))} :
     CheckSliceMap(p)}
=============================================================================
