------------------------------ MODULE Surface ------------------------------
(***************************************************************************)
(* The pixel storage of one graphics surface (client/src/surface.rs) and   *)
(* the write primitives every graphics operation is built from.  A surface *)
(* stores its pixels in one row-major array; a pixel is a colour, the      *)
(* first of which, Black, is what zeroed memory shows.  Rectangles are     *)
(* clipped to the surface, never refused: a write reports how many of the  *)
(* requested pixels it wrote, and the caller decides what that means.      *)
(*                                                                         *)
(* The module has no state.  GfxState keeps the surfaces.                  *)
(***************************************************************************)
EXTENDS Integers, FiniteSets

CONSTANTS
  Colors,   \* the colours a pixel can have
  Black     \* the colour of zeroed memory

ASSUME ColorsAssumption == Black \in Colors

-----------------------------------------------------------------------------
(* An image: a surface, a cached rectangle or a buffer of decoded pixels.  *)
Image(w, h, color(_)) ==
  [width |-> w, height |-> h, pixels |-> [i \in 0 .. w * h - 1 |-> color(i)]]

IsImage(img) ==
  /\ img.width \in Nat
  /\ img.height \in Nat
  /\ img.pixels \in [0 .. img.width * img.height - 1 -> Colors]

(* A mutant of NewSurface: one row is allocated. *)
NewSurfaceOneRow(w, h) ==
  [width |-> w, height |-> h, pixels |-> [i \in 0 .. w - 1 |-> Black]]

(* Surface::new zeroes the pixels. *)
NewSurface(w, h) == Image(w, h, LAMBDA i : Black)

(* A decoded bitmap whose pixels all have one colour. *)
Solid(w, h, c) == Image(w, h, LAMBDA i : c)

-----------------------------------------------------------------------------
(* How much of the run of n cells from a lies below limit: the cells a loop *)
(* over 0..n visits before it breaks at the surface's edge.                 *)
Clip(a, n, limit) ==
  IF a >= limit THEN 0 ELSE IF a + n > limit THEN limit - a ELSE n

(* WriteOutcome: the pixels asked for and the pixels written. *)
Outcome(img, x, y, w, h) ==
  [requested |-> w * h,
   written   |-> Clip(x, w, img.width) * Clip(y, h, img.height)]

Complete(outcome) == outcome.written = outcome.requested

(* Surface::fill_rect: row by row, each broken off at the right edge, until *)
(* the bottom edge.  The array index of column px of row py is py*width+px. *)
FillRect(img, x, y, w, h, c) ==
  LET touched == { (y + row) * img.width + (x + col) :
                     row \in 0 .. Clip(y, h, img.height) - 1,
                     col \in 0 .. Clip(x, w, img.width) - 1 }
      color(i) == IF i \in touched THEN c ELSE img.pixels[i]
  IN  Image(img.width, img.height, color)

(* Surface::extract_rect: a tightly packed copy.  Each row is one copy of   *)
(* row_cols consecutive array cells; what lies outside stays zero.          *)
ExtractRect(img, x, y, w, h) ==
  LET row_cols == Clip(x, w, img.width)
      rows     == Clip(y, h, img.height)
      cell(k)  == LET row == k \div w
                      col == k % w
                  IN  IF row < rows /\ col < row_cols
                      THEN img.pixels[(y + row) * img.width + x + col]
                      ELSE Black
  IN  Image(w, h, cell)

(* Surface::blit_rect: src is w*h packed pixels.  Cell (col, row) of src    *)
(* goes to array index (y+row)*width + x+col of the surface.                *)
BlitRect(img, x, y, src) ==
  LET cols == Clip(x, src.width, img.width)
      rows == Clip(y, src.height, img.height)
      row(i) == (i \div img.width) - y
      col(i) == (i % img.width) - x
      color(i) == IF row(i) \in 0 .. rows - 1 /\ col(i) \in 0 .. cols - 1
                  THEN src.pixels[row(i) * src.width + col(i)]
                  ELSE img.pixels[i]
  IN  Image(img.width, img.height, color)

-----------------------------------------------------------------------------
(* RectU16 (client/src/gfx.rs): right and bottom are exclusive, and a rect  *)
(* whose edges are swapped has no size.                                     *)
Inverted(r) == r.right < r.left \/ r.bottom < r.top
RectWidth(r) == r.right - r.left
RectHeight(r) == r.bottom - r.top

=============================================================================
