---------------------------- MODULE GraphicsPipe ----------------------------
(***************************************************************************)
(* What the layers under the graphics loop promise it: a reliable pipe.    *)
(* Messages come out in the order they were put in, each of them once and  *)
(* whole, and every one comes out in the end.                              *)
(***************************************************************************)
EXTENDS Sequences, Naturals

CONSTANT Message

VARIABLES
  sent,      \* messages put in
  received   \* messages taken out

pipeVars == <<sent, received>>

Init == sent = <<>> /\ received = <<>>

Put ==
  /\ \E m \in Message : sent' = Append(sent, m)
  /\ UNCHANGED received

Take ==
  /\ Len(received) < Len(sent)
  /\ received' = Append(received, sent[Len(received) + 1])
  /\ UNCHANGED sent

Next == Put \/ Take

Spec == Init /\ [][Next]_pipeVars /\ WF_pipeVars(Take)
=============================================================================
