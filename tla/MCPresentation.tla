--------------------------- MODULE MCPresentation ---------------------------
(***************************************************************************)
(* A small server for Presentation: surfaces of one pixel, side by side    *)
(* when there are two, filled as a whole.  One of the two output origins   *)
(* is outside the window, so that the framebuffer grows.                   *)
(***************************************************************************)
EXTENDS Presentation

CONSTANTS red, s1, s2
OneSurface == {s1}
TwoSurfaces == {s1, s2}
SurfaceSymmetry == Permutations(TwoSurfaces)
NoSet == {}
TwoColors == {Black, red}
OnePixel == {<<1, 1>>}
Whole == {<<[left |-> 0, top |-> 0, right |-> 1, bottom |-> 1]>>}
LeftOrigin == {<<0, 0>>}
SpreadOrigins == {<<0, 1>>, <<1, 0>>}
OneByOne == {<<1, 1>>}
SmallWindow == <<1, 1>>
TallWindow == <<1, 2>>
=============================================================================
