-------------------------- MODULE PresentedPixels --------------------------
(***************************************************************************)
(* What the user sees.  Presentation with history variables that follow    *)
(* the pixels of the published snapshots past the mailbox: what would be   *)
(* on the screen if no snapshot had ever been overwritten in the slot.     *)
(* Pixels are named by their window coordinates here, so that the          *)
(* framebuffer's arrays, strides and growth are not taken for granted.     *)
(***************************************************************************)
EXTENDS Presentation

VARIABLES
  every,     \* window pixel -> colour, every published snapshot drawn
  lossless   \* each overwritten snapshot lay within the one that replaced it

pixelVars == <<vars, every, lossless>>

-----------------------------------------------------------------------------
WindowPixels == (0 .. Window[1] - 1) \X (0 .. Window[2] - 1)

InTile(p, t) ==
  /\ p[1] \in t.origin[1] .. t.origin[1] + t.image.width - 1
  /\ p[2] \in t.origin[2] .. t.origin[2] + t.image.height - 1

Covered(tiles) == {p \in WindowPixels : \E k \in DOMAIN tiles : InTile(p, tiles[k])}

(* The later tile is on top. *)
Overlay(picture, tiles) ==
  [p \in WindowPixels |->
     IF p \notin Covered(tiles) THEN picture[p]
     ELSE LET on == {k \in DOMAIN tiles : InTile(p, tiles[k])}
              t  == tiles[CHOOSE k \in on : \A j \in on : j <= k]
          IN  t.image.pixels[(p[2] - t.origin[2]) * t.image.width
                               + p[1] - t.origin[1]]]

OnScreen == [p \in WindowPixels |-> screen.pixels[p[2] * Window[1] + p[1]]]

-----------------------------------------------------------------------------
PixelInit ==
  /\ PresentationInit
  /\ every = [p \in WindowPixels |-> Black]
  /\ lossless = TRUE

Published == published' # published

PixelNext ==
  /\ PresentationNext
  /\ every' = IF Published THEN Overlay(every, PresentTiles) ELSE every
  /\ lossless' = (lossless /\ (Published =>
                                 Covered(slot) \subseteq Covered(PresentTiles)))

PixelSpec == PixelInit /\ [][PixelNext]_pixelVars

-----------------------------------------------------------------------------
Settled == slot = <<>> /\ shown = drawn

(* When the mailbox is empty and what was drawn last has been presented,    *)
(* the window shows every published snapshot, each tile of it at its        *)
(* origin, provided that no overwritten snapshot reached further than its   *)
(* successor (window.rs:110-199, session.rs:487-490).  A failed             *)
(* presentation or a grown framebuffer does no lasting harm.                *)
NothingLostWhileCovered == lossless /\ Settled => OnScreen = every

(* "Superseding an unconsumed full snapshot loses nothing"                  *)
(* (window.rs:303-305).                                                     *)
SupersedingLosesNothing == Settled => OnScreen = every

=============================================================================
