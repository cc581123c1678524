---------------------------- MODULE MCClearCodec ----------------------------
(***************************************************************************)
(* Small streams for ClearCodec: black and red, tiles of two pixels in     *)
(* either direction.                                                       *)
(***************************************************************************)
EXTENDS ClearCodec

Red == <<0, 0, 255>>

Header(reset, glyph, hit, w, h) ==
  [reset |-> reset, glyph |-> glyph, hit |-> hit, w |-> w, h |-> h]
SmallHeaders ==
  {Header(TRUE, NoGlyph, FALSE, 2, 1), Header(FALSE, 1, FALSE, 1, 2),
   Header(FALSE, 1, TRUE, 2, 1)}
SmallShortVBars == {[offset |-> 0, pixels |-> <<Black, Black>>],
                    [offset |-> 1, pixels |-> <<Black>>]}

(* The second run is too long for the tile and for one byte.                *)
ResidualRuns == {<<[color |-> Black, run |-> 1], [color |-> Red, run |-> 300]>>}

Band(x0, x1, y0, y1) ==
  [x_start |-> x0, x_end |-> x1, y_start |-> y0, y_end |-> y1, background |-> Red]
SmallBands == {Band(0, 1, 0, 0), Band(0, 0, 0, 1), Band(0, 0, 0, 0)}

(* A palette of two colours and a suite of both; half of it is off the tile *)
(* or all of it.                                                            *)
TwoColours ==
  [codec |-> "rlex", x |-> 0, y |-> 1, w |-> 1, h |-> 2,
   palette |-> <<Red, Black>>, suites |-> <<[run |-> 0, start |-> 0, stop |-> 1]>>,
   data |-> <<2, Red, Black, 3, 0>>, want |-> <<Red, Black>>]

(* Nine rows of one colour, the luma plane run-length encoded, the chroma   *)
(* planes as they are, of half the precision.                               *)
Planes ==
  [codec |-> "nscodec", x |-> 0, y |-> 0, w |-> 1, h |-> 9,
   planes |-> <<<<80, 80, 3, 80, 80, 80, 80>>, [k \in 1 .. 9 |-> 10],
                [k \in 1 .. 9 |-> 20], <<>>>>,
   loss |-> 2, subsampling |-> FALSE, want |-> [k \in 1 .. 9 |-> <<20, 120, 60>>]]

SmallSubcodecs == {TwoColours, Planes}

OldServer ==
  {[seq |-> 0, glyphs |-> <<<<Red, Red>>>>, vbars |-> [i \in VBarIndex |-> <<Red>>],
    shorts |-> [i \in ShortVBarIndex |-> <<Red>>],
    vbar_cursor |-> 1, short_vbar_cursor |-> 0]}
=============================================================================
