------------------------------ MODULE MCRouter ------------------------------
(***************************************************************************)
(* Small servers for ChannelRouter.                                        *)
(***************************************************************************)
EXTENDS ChannelRouter
CONSTANTS gfx, disp, c1, c2
OtherName == {disp}
TwoIds == {c1, c2}
=============================================================================
