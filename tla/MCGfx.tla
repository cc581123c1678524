------------------------------- MODULE MCGfx -------------------------------
(***************************************************************************)
(* Small PDU alphabets for GfxPromise.                                     *)
(***************************************************************************)
EXTENDS GfxPromise

MCRect(l, t, r, b) == [left |-> l, top |-> t, right |-> r, bottom |-> b]
MCTile(kind, x, c) == [kind |-> kind, x |-> x, y |-> 0, color |-> c]
MCRegion(tiles) ==
  [tiles |-> tiles, rects |-> <<[x |-> 0, y |-> 0, w |-> 2, h |-> 1]>>]

(* Copies: on a surface of two rows, where a row copied too long would      *)
(* show, and on one of three columns, where a copy may overlap its source;  *)
(* a rect of one row, one of two, one that is off the first surface and one *)
(* that is inverted; two destinations of which the first may be the source. *)
CopySizes == {<<2, 2>>, <<3, 1>>}
CopyRects == {MCRect(0, 0, 2, 1), MCRect(1, 0, 2, 2), MCRect(2, 0, 3, 1),
              MCRect(1, 0, 0, 1)}
CopyRectLists == {<<MCRect(0, 0, 2, 1), MCRect(1, 0, 0, 1)>>}
CopyPoints == {<<<<1, 0>>, <<0, 0>>>>}

(* Tiles: two tile columns, every kind of block, alone and after another    *)
(* block of the same region; relative to the second rect, the second column *)
(* is off the surface.                                                      *)
TileSizes == {<<2, 1>>, <<1, 1>>}
TileRects == {MCRect(0, 0, 1, 1), MCRect(1, 0, 2, 1)}
TileRegions(c) ==
  {MCRegion(<<MCTile(k, x, c)>>) : k \in {"first", "diff"}, x \in {0, 1}}
    \cup {MCRegion(<<MCTile("upgrade", 0, c)>>),
          MCRegion(<<MCTile("bad", 0, c), MCTile("first", 0, c)>>),
          MCRegion(<<MCTile("cut", 0, c), MCTile("first", 1, c)>>),
          MCRegion(<<MCTile("first", 0, Black), MCTile("diff", 0, c)>>)}

CONSTANTS red, nothing, s1, s2
TwoSurfaces == {s1, s2}
SurfaceSymmetry == Permutations(TwoSurfaces)
TwoColors == {Black, red}
RedRegions == TileRegions(red)
NoSet == {}
OneDesktop == {<<2, 2>>}
OneOrigin == {<<0, 0>>}
=============================================================================
