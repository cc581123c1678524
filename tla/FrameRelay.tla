----------------------------- MODULE FrameRelay -----------------------------
(***************************************************************************)
(* What the user is promised of the frames: the screen only ever moves     *)
(* forward, to a frame that was published; it may pass frames over, but    *)
(* while the window is open every published frame is eventually on the     *)
(* screen or has been passed over for a later one, unless the window       *)
(* system refuses it.                                                      *)
(***************************************************************************)
EXTENDS Naturals

VARIABLES
  newest,   \* number of the frame published last, 0 for none
  shown,    \* number of the frame on the screen, 0 for none
  broken,   \* the window system refused the frame, and no other was tried
  open      \* the window is there

relayVars == <<newest, shown, broken, open>>

Init == newest = 0 /\ shown = 0 /\ broken = FALSE /\ open = TRUE

Publish == newest' = newest + 1 /\ UNCHANGED <<shown, broken, open>>

Show ==
  /\ open
  /\ \E n \in shown + 1 .. newest : shown' = n
  /\ broken' = FALSE
  /\ UNCHANGED <<newest, open>>

Refuse == open /\ broken' = TRUE /\ UNCHANGED <<newest, shown, open>>

Retry == open /\ broken' = FALSE /\ UNCHANGED <<newest, shown, open>>

Close == open /\ open' = FALSE /\ UNCHANGED <<newest, shown, broken>>

Next == Publish \/ Show \/ Refuse \/ Retry \/ Close

Safe == Init /\ [][Next]_relayVars

Spec == Safe /\ WF_relayVars(~broken /\ Show)

=============================================================================
