------------------------------ MODULE MCPixels ------------------------------
(***************************************************************************)
(* The small server of MCPresentation, for PresentedPixels.                *)
(***************************************************************************)
EXTENDS PresentedPixels, MCPresentation
=============================================================================
