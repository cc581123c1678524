------------------------ MODULE Presentation_proofs ------------------------
(***************************************************************************)
(* The hand-over of frames is correct whatever the surfaces, the messages  *)
(* and the window, and so is every pixel of what the window shows in the   *)
(* end.  Liveness stays with TLC.                                          *)
(***************************************************************************)
EXTENDS PresentedPixels, GfxState_proofs

-----------------------------------------------------------------------------
(* The inductive invariant.  An acknowledgement carries its position in     *)
(* the sequence because the totals of the waiting END_FRAMEs are            *)
(* consecutive and end with frames_decoded (ActionsAreLatestFrames).        *)
AckInv ==
  /\ acks \in Seq(Nat)
  /\ \A k \in DOMAIN acks : acks[k] = k
  /\ pc \in {"acknowledge", "present"} => actions # <<>>
  /\ pc # "ended" => Len(acks) + Len(Waiting) = frames_decoded

(* A message received after the window was closed is the last one, because  *)
(* only a pass through the loop head leads to another.                      *)
CloseInv ==
  /\ late \in 0 .. 1
  /\ ~ closed => late = 0
  /\ late = 1 => pc # "receive"

MailboxInv ==
  /\ {published, queued, drawn, shown} \subseteq Nat
  /\ LatestWins

PresentationInv == GfxInv /\ AckInv /\ CloseInv /\ MailboxInv

-----------------------------------------------------------------------------
LEMMA PresentationInitInv == PresentationInit => PresentationInv
PROOF
<1> SUFFICES ASSUME PresentationInit PROVE PresentationInv
  OBVIOUS
<1>1. GfxInv
  BY GfxInit DEF PresentationInit
<1>2. AckInv
  BY DEF PresentationInit, Init, AckInv, Waiting
<1>3. CloseInv /\ MailboxInv
  BY DEF PresentationInit, CloseInv, MailboxInv, LatestWins
<1> QED BY <1>1, <1>2, <1>3 DEF PresentationInv

(* Everything but ApplyPdu and Present leaves the graphics state alone.     *)
LEMMA PresentationGfxInv ==
  ASSUME PresentationInv, [PresentationNext]_vars
  PROVE  GfxInv'
PROOF
<1>1. CASE ApplyPdu
  BY <1>1, GfxApply DEF ApplyPdu, PresentationInv
<1>2. CASE Present
  <2>1. /\ UNCHANGED <<output_map, frames_decoded, surfaces, tile_baseline>>
        /\ actions' = Tail(actions)
    BY <1>2 DEF Present
  <2>2. /\ actions \in Seq(Nat) /\ actions # <<>>
        /\ frames_decoded \in Nat
    BY <1>2 DEF Present, PresentationInv, AckInv, GfxInv
  <2>3. /\ Tail(actions) \in Seq(Nat)
        /\ Len(Tail(actions)) = Len(actions) - 1
        /\ \A k \in 1 .. Len(actions) - 1 : Tail(actions)[k] = actions[k + 1]
    BY <2>2
  <2>4. \A k \in 1 .. Len(actions) : actions[k] = frames_decoded - Len(actions) + k
    BY <2>2 DEF PresentationInv, GfxInv, ActionsAreLatestFrames
  <2>5. ActionsAreLatestFrames'
    BY <2>1, <2>2, <2>3, <2>4 DEF ActionsAreLatestFrames
  <2>6. MappedOnce' /\ BaselinesCurrent'
    BY <2>1 DEF PresentationInv, GfxInv, MappedOnce, BaselinesCurrent, Live
  <2> QED BY <2>1, <2>2, <2>3, <2>5, <2>6 DEF PresentationInv, GfxInv
<1>3. CASE UNCHANGED gfxVars
  BY <1>3 DEF gfxVars, PresentationInv, GfxInv, MappedOnce, BaselinesCurrent,
              Live, ActionsAreLatestFrames
<1>4. ApplyPdu \/ Present \/ UNCHANGED gfxVars
  BY DEF PresentationNext, SessionNext, WindowNext, CheckClosed, Receive, Fail,
         NextAction, Acknowledge, Poll, Redraw, RedrawFailed, CloseRequested,
         Shutdown, Exit, vars
<1> QED BY <1>1, <1>2, <1>3, <1>4

LEMMA PresentationAckInv ==
  ASSUME PresentationInv, [PresentationNext]_vars
  PROVE  AckInv'
PROOF
<1>0. /\ acks \in Seq(Nat) /\ actions \in Seq(Nat) /\ frames_decoded \in Nat
      /\ AckInv /\ ActionsAreLatestFrames
  BY DEF PresentationInv, AckInv, GfxInv
<1>1. CASE ApplyPdu
  <2>1. /\ pc = "apply" /\ UNCHANGED <<pc, acks>>
        /\ Len(acks) + Len(actions) = frames_decoded
    BY <1>1, <1>0 DEF ApplyPdu, AckInv, Waiting
  <2>2. CASE UNCHANGED <<frames_decoded, actions>>
    BY <2>1, <2>2, <1>0 DEF AckInv, Waiting
  <2>3. CASE /\ frames_decoded' = frames_decoded + 1
             /\ actions' = Append(actions, frames_decoded + 1)
    <3>1. Len(actions') = Len(actions) + 1 /\ Len(actions) \in Nat /\ Len(acks) \in Nat
      BY <2>3, <1>0
    <3> QED BY <3>1, <2>1, <2>3, <1>0 DEF AckInv, Waiting
  <2> QED BY <2>2, <2>3, <1>1, ApplyFrames DEF ApplyPdu
<1>2. CASE NextAction
  <2>1. /\ pc \in {"apply", "act"}
        /\ pc' = IF actions = <<>> THEN "check" ELSE "acknowledge"
        /\ UNCHANGED <<acks, actions, frames_decoded>>
    BY <1>2 DEF NextAction, gfxVars
  <2> QED BY <2>1, <1>0 DEF AckInv, Waiting
<1>3. CASE Acknowledge
  <2>1. /\ pc = "acknowledge" /\ pc' = "present"
        /\ acks' = Append(acks, Head(actions))
        /\ UNCHANGED <<actions, frames_decoded>>
    BY <1>3 DEF Acknowledge, gfxVars
  <2>2. /\ actions # <<>> /\ Len(actions) \in Nat \ {0} /\ Len(acks) \in Nat
        /\ Len(acks) + Len(actions) = frames_decoded
    BY <2>1, <1>0 DEF AckInv, Waiting
  <2>3. Head(actions) = Len(acks) + 1
    <3>1. Head(actions) = actions[1]
      BY <2>2, <1>0
    <3>2. actions[1] = frames_decoded - Len(actions) + 1
      BY <2>2, <1>0 DEF ActionsAreLatestFrames
    <3> QED BY <3>1, <3>2, <2>2
  <2>4. /\ acks' \in Seq(Nat) /\ Len(acks') = Len(acks) + 1
        /\ DOMAIN acks' = 1 .. Len(acks) + 1
        /\ \A k \in 1 .. Len(acks) : acks'[k] = acks[k]
        /\ acks'[Len(acks) + 1] = Len(acks) + 1
    BY <2>1, <2>2, <2>3, <1>0
  <2>5. \A k \in DOMAIN acks' : acks'[k] = k
    <3>1. ASSUME NEW k \in 1 .. Len(acks) + 1 PROVE acks'[k] = k
      <4>1. CASE k \in 1 .. Len(acks)
        BY <4>1, <2>4, <1>0 DEF AckInv
      <4>2. CASE k = Len(acks) + 1
        BY <4>2, <2>4
      <4> QED BY <4>1, <4>2, <2>2
    <3> QED BY <3>1, <2>4
  <2>6. Waiting' = Tail(actions) /\ Len(Tail(actions)) = Len(actions) - 1
    BY <2>1, <2>2, <1>0 DEF Waiting
  <2>7. Len(acks') + Len(Waiting') = frames_decoded'
    BY <2>1, <2>2, <2>4, <2>6
  <2> QED BY <2>1, <2>2, <2>4, <2>5, <2>7 DEF AckInv
<1>4. CASE Present
  <2>1. /\ pc = "present" /\ pc' = "act"
        /\ actions' = Tail(actions)
        /\ UNCHANGED <<acks, frames_decoded>>
    BY <1>4 DEF Present
  <2>2. Waiting' = Waiting
    BY <2>1 DEF Waiting
  <2> QED BY <2>1, <2>2, <1>0 DEF AckInv
<1>5. CASE pc' \in {"receive", "apply", "check", "ended"} /\ pc \in {"check", "receive"} /\ UNCHANGED <<acks, gfxVars>>
  BY <1>5, <1>0 DEF AckInv, Waiting, gfxVars
<1>6. CASE pc' = "ended" /\ UNCHANGED <<acks, gfxVars>>
  BY <1>6, <1>0 DEF AckInv, gfxVars
<1>7. CASE UNCHANGED <<pc, acks, gfxVars>>
  BY <1>7, <1>0 DEF AckInv, Waiting, gfxVars
<1>8. \/ ApplyPdu \/ NextAction \/ Acknowledge \/ Present
      \/ pc' \in {"receive", "apply", "check", "ended"} /\ pc \in {"check", "receive"} /\ UNCHANGED <<acks, gfxVars>>
      \/ pc' = "ended" /\ UNCHANGED <<acks, gfxVars>>
      \/ UNCHANGED <<pc, acks, gfxVars>>
  BY DEF PresentationNext, SessionNext, WindowNext, CheckClosed, Receive, Fail,
         Poll, Redraw, RedrawFailed, CloseRequested, Shutdown, Exit, vars,
         sessionVars
<1> QED BY <1>1, <1>2, <1>3, <1>4, <1>5, <1>6, <1>7, <1>8

LEMMA PresentationCloseInv ==
  ASSUME PresentationInv, [PresentationNext]_vars
  PROVE  CloseInv'
PROOF
<1>0. CloseInv
  BY DEF PresentationInv
<1>1. CASE CheckClosed
  BY <1>0, <1>1 DEF CheckClosed, CloseInv, historyVars, mailboxVars
<1>2. CASE Receive
  BY <1>0, <1>2 DEF Receive, CloseInv, mailboxVars
<1>3. CASE Shutdown
  BY <1>0, <1>3 DEF Shutdown, CloseInv, historyVars, sessionVars
<1>4. CASE UNCHANGED <<late, closed>> /\ (pc' = pc \/ pc' # "receive")
  BY <1>0, <1>4 DEF CloseInv
<1>5. \/ CheckClosed \/ Receive \/ Shutdown
      \/ UNCHANGED <<late, closed>> /\ (pc' = pc \/ pc' # "receive")
  BY DEF PresentationNext, SessionNext, WindowNext, Fail, ApplyPdu, NextAction,
         Acknowledge, Present, Poll, Redraw, RedrawFailed, CloseRequested,
         Exit, vars, sessionVars, mailboxVars, historyVars
<1> QED BY <1>1, <1>2, <1>3, <1>4, <1>5

LEMMA PresentationMailboxInv ==
  ASSUME PresentationInv, [PresentationNext]_vars
  PROVE  MailboxInv'
PROOF
<1>0. /\ MailboxInv
      /\ {published, queued, drawn, shown} \subseteq Nat
  BY DEF PresentationInv, MailboxInv
<1>1. CASE Present
  <2>1. CASE PresentTiles # <<>>
    BY <1>0, <1>1, <2>1 DEF Present, Publish, MailboxInv, LatestWins, windowVars
  <2>2. CASE PresentTiles = <<>>
    BY <1>0, <1>1, <2>2 DEF Present, MailboxInv, LatestWins, windowVars
  <2> QED BY <2>1, <2>2
<1>2. CASE Poll
  BY <1>0, <1>2 DEF Poll, MailboxInv, LatestWins
<1>3. CASE Redraw
  BY <1>0, <1>3 DEF Redraw, MailboxInv, LatestWins, mailboxVars
<1>4. CASE RedrawFailed
  BY <1>0, <1>4 DEF RedrawFailed, MailboxInv, LatestWins, mailboxVars, historyVars
<1>5. CASE UNCHANGED <<slot, published, queued, drawn, shown, failed, redraw>>
  BY <1>0, <1>5 DEF MailboxInv, LatestWins
<1>6. \/ Present \/ Poll \/ Redraw \/ RedrawFailed
      \/ UNCHANGED <<slot, published, queued, drawn, shown, failed, redraw>>
  BY DEF PresentationNext, SessionNext, WindowNext, CheckClosed, Receive, Fail,
         ApplyPdu, NextAction, Acknowledge, CloseRequested, Shutdown, Exit,
         vars, mailboxVars, windowVars, historyVars
<1> QED BY <1>1, <1>2, <1>3, <1>4, <1>5, <1>6

LEMMA PresentationInvariant == PresentationSafe => []PresentationInv
PROOF
<1>1. PresentationInv /\ [PresentationNext]_vars => PresentationInv'
  BY PresentationGfxInv, PresentationAckInv, PresentationCloseInv,
     PresentationMailboxInv DEF PresentationInv
<1> QED BY <1>1, PresentationInitInv, PTL DEF PresentationSafe

-----------------------------------------------------------------------------
(* Every END_FRAME is acknowledged once, in order, with its own total,      *)
(* whatever else its message held (session.rs:478-486).                     *)
THEOREM FramesAcknowledgedInOrder == PresentationSafe => []AcknowledgedInOrder
PROOF
<1>1. PresentationInv => AcknowledgedInOrder
  <2> SUFFICES ASSUME PresentationInv PROVE AcknowledgedInOrder
    OBVIOUS
  <2>1. /\ acks \in Seq(Nat) /\ actions \in Seq(Nat) /\ frames_decoded \in Nat
        /\ \A k \in 1 .. Len(acks) : acks[k] = k
        /\ \A k \in 1 .. Len(actions) :
             actions[k] = frames_decoded - Len(actions) + k
    BY DEF PresentationInv, AckInv, GfxInv, ActionsAreLatestFrames
  <2>2. acks = [k \in 1 .. Len(acks) |-> k]
    BY <2>1
  <2>3. ASSUME pc # "ended"
        PROVE  acks \o Waiting = [k \in 1 .. frames_decoded |-> k]
    <3>1. Len(acks) + Len(Waiting) = frames_decoded
      BY <2>3 DEF PresentationInv, AckInv
    <3>2. /\ Waiting \in Seq(Nat)
          /\ \A k \in 1 .. Len(Waiting) :
               Waiting[k] = frames_decoded - Len(Waiting) + k
      <4>1. CASE pc = "present"
        <5>1. actions # <<>> /\ Waiting = Tail(actions)
          BY <4>1 DEF PresentationInv, AckInv, Waiting
        <5>2. /\ Tail(actions) \in Seq(Nat)
              /\ Len(actions) \in Nat
              /\ Len(Tail(actions)) = Len(actions) - 1
              /\ \A k \in 1 .. Len(actions) - 1 : Tail(actions)[k] = actions[k + 1]
          BY <2>1, <5>1
        <5> QED BY <2>1, <5>1, <5>2
      <4>2. CASE pc # "present"
        BY <2>1, <4>2 DEF Waiting
      <4> QED BY <4>1, <4>2
    <3>3. /\ Len(acks) \in Nat /\ Len(Waiting) \in Nat
          /\ acks \o Waiting \in Seq(Nat)
          /\ Len(acks \o Waiting) = frames_decoded
          /\ \A k \in 1 .. Len(acks) + Len(Waiting) :
               (acks \o Waiting)[k] = IF k <= Len(acks) THEN acks[k]
                                      ELSE Waiting[k - Len(acks)]
      BY <2>1, <3>1, <3>2
    <3>4. \A k \in 1 .. frames_decoded : (acks \o Waiting)[k] = k
      <4>1. ASSUME NEW k \in 1 .. frames_decoded
            PROVE  (acks \o Waiting)[k] = k
        <5>1. CASE k <= Len(acks)
          BY <5>1, <2>1, <3>1, <3>3
        <5>2. CASE k > Len(acks)
          <6>1. k - Len(acks) \in 1 .. Len(Waiting)
            BY <5>2, <2>1, <3>1, <3>3
          <6>2. (acks \o Waiting)[k] = Waiting[k - Len(acks)]
            BY <5>2, <2>1, <3>1, <3>3
          <6>3. Waiting[k - Len(acks)]
                  = frames_decoded - Len(Waiting) + (k - Len(acks))
            BY <6>1, <3>2
          <6>4. frames_decoded = Len(acks) + Len(Waiting)
            BY <3>1
          <6> HIDE DEF Waiting
          <6> QED BY <6>2, <6>3, <6>4, <3>3
        <5> QED BY <5>1, <5>2, <2>1, <3>3
      <4> QED BY <4>1
    <3> DEFINE w == acks \o Waiting
    <3>5. w \in Seq(Nat) /\ Len(w) = frames_decoded /\ \A k \in 1 .. frames_decoded : w[k] = k
      BY <3>3, <3>4
    <3> HIDE DEF w
    <3>6. w = [k \in 1 .. frames_decoded |-> k]
      BY <3>5
    <3> QED BY <3>6 DEF w
  <2> QED BY <2>2, <2>3 DEF AcknowledgedInOrder
<1> QED BY <1>1, PresentationInvariant, PTL

(* The mailbox never keeps an older snapshot in place of a newer one, and   *)
(* nothing the window has drawn goes without a redraw (window.rs:10-45).    *)
THEOREM MailboxLatestWins == PresentationSafe => []LatestWins
PROOF
  BY PresentationInvariant, PTL DEF PresentationInv, MailboxInv

(* At most one message is received once the window is closed                *)
(* (session.rs:464-468).                                                    *)
THEOREM SessionStopsAfterClose == PresentationSafe => []StopsAfterClose
PROOF
<1>1. PresentationInv => StopsAfterClose
  BY DEF PresentationInv, CloseInv, StopsAfterClose
<1> QED BY <1>1, PresentationInvariant, PTL

(* The two threads implement the safety part of FrameRelay: every step      *)
(* publishes the next frame, moves the screen forward to a published one,   *)
(* closes the window, or is none of the relay's concern.                    *)
THEOREM PresentationImplementsRelay == PresentationSafe => RelaySafe
PROOF
<1>1. PresentationInit => Relay!Init
  BY DEF PresentationInit, Relay!Init
<1>2. PresentationInv /\ [PresentationNext]_vars => [Relay!Next]_(Relay!relayVars)
  <2> SUFFICES ASSUME PresentationInv, [PresentationNext]_vars
               PROVE  [Relay!Next]_(Relay!relayVars)
    OBVIOUS
  <2>1. CASE Present
    BY <2>1 DEF Present, Publish, Relay!Next, Relay!Publish, Relay!relayVars
  <2>2. CASE Redraw
    <3>1. /\ ui = "running" /\ shown' = drawn
          /\ failed' = FALSE /\ UNCHANGED <<published, ui>>
      BY <2>2 DEF Redraw
    <3>2. {published, drawn, shown} \subseteq Nat /\ shown <= drawn /\ drawn <= published
      BY DEF PresentationInv, MailboxInv, LatestWins
    <3>3. CASE drawn = shown
      BY <3>1, <3>3 DEF Relay!Next, Relay!Retry
    <3>4. CASE drawn # shown
      <4>1. drawn \in shown + 1 .. published
        BY <3>2, <3>4
      <4>2. Relay!Show
        BY <3>1, <4>1 DEF Relay!Show
      <4> QED BY <4>2 DEF Relay!Next
    <3> QED BY <3>3, <3>4
  <2>3. CASE CloseRequested
    BY <2>3 DEF CloseRequested, historyVars, Relay!Next, Relay!Close
  <2>4. CASE Poll
    BY <2>4 DEF Poll, Relay!Next, Relay!Retry
  <2>5. CASE RedrawFailed
    BY <2>5 DEF RedrawFailed, Relay!Next, Relay!Refuse
  <2>6. CASE UNCHANGED <<published, shown, failed>> /\ (ui = "running") = (ui' = "running")
    BY <2>6 DEF Relay!relayVars
  <2>7. \/ Present \/ Redraw \/ CloseRequested \/ Poll \/ RedrawFailed
        \/ UNCHANGED <<published, shown, failed>> /\ (ui = "running") = (ui' = "running")
    BY DEF PresentationNext, SessionNext, WindowNext, CheckClosed, Receive,
           Fail, ApplyPdu, NextAction, Acknowledge, Shutdown, Exit, vars, historyVars
  <2> QED BY <2>1, <2>2, <2>3, <2>4, <2>5, <2>6, <2>7
<1> QED BY <1>1, <1>2, PresentationInvariant, PTL
        DEF PresentationSafe, RelaySafe, Relay!Safe

-----------------------------------------------------------------------------
(* Images of any size, and the tiles of a snapshot.                         *)
Pictures == UNION {ImagesOf(p[1], p[2]) : p \in Points}

PictureTiles == [origin : Points, image : Pictures]

LEMMA PictureShape ==
  ASSUME NEW img \in Pictures
  PROVE  /\ img.width \in Nat /\ img.height \in Nat
         /\ img \in ImagesOf(img.width, img.height)
PROOF
<1>1. PICK p \in Points : img \in ImagesOf(p[1], p[2])
  BY DEF Pictures
<1>2. p[1] \in Nat /\ p[2] \in Nat
  BY DEF Points
<1>3. img.width = p[1] /\ img.height = p[2]
  BY <1>1 DEF ImagesOf
<1> QED BY <1>1, <1>2, <1>3

LEMMA ShapedPicture ==
  ASSUME NEW w \in Nat, NEW h \in Nat, NEW img \in ImagesOf(w, h)
  PROVE  img \in Pictures /\ img.width = w /\ img.height = h
PROOF
<1>1. <<w, h>> \in Points /\ <<w, h>>[1] = w /\ <<w, h>>[2] = h
  BY DEF Points
<1>2. ImagesOf(<<w, h>>[1], <<w, h>>[2]) \in {ImagesOf(p[1], p[2]) : p \in Points}
  BY <1>1
<1>3. img \in Pictures
  BY <1>1, <1>2 DEF Pictures
<1>4. img.width = w /\ img.height = h
  BY DEF ImagesOf
<1> QED BY <1>3, <1>4

LEMMA SomePicture ==
  ASSUME NEW img
  PROVE  SomeImage(img) <=> img \in Pictures
PROOF
<1>1. ASSUME SomeImage(img) PROVE img \in Pictures
  <2>1. PICK w \in Nat, h \in Nat : img \in ImagesOf(w, h)
    BY <1>1 DEF SomeImage
  <2> QED BY <2>1, ShapedPicture
<1>2. ASSUME img \in Pictures PROVE SomeImage(img)
  BY <1>2, PictureShape DEF SomeImage
<1> QED BY <1>1, <1>2

-----------------------------------------------------------------------------
(* The framebuffer is never smaller than the window.  What the user may     *)
(* see of it is its part of the window's size.                              *)
Framebuffers ==
  {fb \in Pictures : fb.width >= Window[1] /\ fb.height >= Window[2]}

View(fb) == [p \in WindowPixels |-> At(fb, p[1], p[2])]

LEMMA WindowSize == Window[1] \in Nat /\ Window[2] \in Nat
PROOF
  BY PresentationAssumption DEF Points

(* Growing keeps every old pixel in its place. *)
LEMMA GrowKeeps ==
  ASSUME NEW fb \in Framebuffers, NEW w \in Nat, NEW h \in Nat
  PROVE  /\ Grow(fb, w, h) \in Framebuffers
         /\ Grow(fb, w, h).width >= fb.width
         /\ Grow(fb, w, h).height >= fb.height
         /\ \A x \in 0 .. fb.width - 1, y \in 0 .. fb.height - 1 :
              At(Grow(fb, w, h), x, y) = At(fb, x, y)
PROOF
<1> DEFINE gw == Larger(w, fb.width)
           gh == Larger(h, fb.height)
           new == NewSurface(gw, gh)
           grown == BlitRect(new, 0, 0, fb)
<1>1. /\ fb \in Pictures /\ fb.width \in Nat /\ fb.height \in Nat
      /\ fb \in ImagesOf(fb.width, fb.height)
      /\ fb.width >= Window[1] /\ fb.height >= Window[2]
  BY PictureShape DEF Framebuffers
<1>2. /\ gw \in Nat /\ gh \in Nat /\ gw >= fb.width /\ gh >= fb.height
  BY <1>1 DEF Larger
<1>3. Grow(fb, w, h) = IF w <= fb.width /\ h <= fb.height THEN fb ELSE grown
  BY DEF Grow
<1> HIDE DEF gw, gh
<1>4. new \in ImagesOf(gw, gh)
  BY <1>2, NewImages, ColorsAssumption
<1> HIDE DEF new
<1>5. grown \in ImagesOf(gw, gh)
  BY <1>1, <1>2, <1>4, BlitRectImage
<1>6. ASSUME NEW x \in 0 .. fb.width - 1, NEW y \in 0 .. fb.height - 1
      PROVE  At(grown, x, y) = At(fb, x, y)
  <2>1. x \in 0 .. gw - 1 /\ y \in 0 .. gh - 1
    BY <1>1, <1>2
  <2>2. \A z \in Nat : z = 0 => At(BlitRect(new, z, z, fb), x, y) = At(fb, x, y)
    <3>1. ASSUME NEW z \in Nat, z = 0
          PROVE  At(BlitRect(new, z, z, fb), x, y) = At(fb, x, y)
      <4>1. /\ x \in z .. z + fb.width - 1 /\ y \in z .. z + fb.height - 1
            /\ x - z = x /\ y - z = y
        BY <3>1, <1>1
      <4>2. \A sw, sh \in Nat : fb \in ImagesOf(sw, sh) =>
              At(BlitRect(new, z, z, fb), x, y)
                = IF x \in z .. z + sw - 1 /\ y \in z .. z + sh - 1
                  THEN At(fb, x - z, y - z) ELSE At(new, x, y)
        BY <1>2, <1>4, <2>1, BlitRectAt
      <4>3. At(BlitRect(new, z, z, fb), x, y)
              = IF x \in z .. z + fb.width - 1 /\ y \in z .. z + fb.height - 1
                THEN At(fb, x - z, y - z) ELSE At(new, x, y)
        BY <4>2, <1>1
      <4> QED BY <4>1, <4>3
    <3> QED BY <3>1
  <2> QED BY <2>2
<1> HIDE DEF grown
<1>7. grown \in Framebuffers /\ grown.width = gw /\ grown.height = gh
  <2>1. grown \in Pictures /\ grown.width = gw /\ grown.height = gh
    BY <1>2, <1>5, ShapedPicture
  <2>2. gw >= Window[1] /\ gh >= Window[2]
    BY <1>1, <1>2, WindowSize
  <2> QED BY <2>1, <2>2 DEF Framebuffers
<1>8. CASE w <= fb.width /\ h <= fb.height
  BY <1>1, <1>3, <1>8
<1>9. CASE ~ (w <= fb.width /\ h <= fb.height)
  <2>1. Grow(fb, w, h) = grown
    BY <1>3, <1>9
  <2> QED BY <2>1, <1>2, <1>6, <1>7
<1> QED BY <1>8, <1>9

LEMMA BlitTileAt ==
  ASSUME NEW fb \in Framebuffers, NEW t \in PictureTiles
  PROVE  /\ BlitTile(fb, t) \in Framebuffers
         /\ \A p \in WindowPixels :
              At(BlitTile(fb, t), p[1], p[2])
                = IF InTile(p, t)
                  THEN At(t.image, p[1] - t.origin[1], p[2] - t.origin[2])
                  ELSE At(fb, p[1], p[2])
PROOF
<1> DEFINE x == t.origin[1]
           y == t.origin[2]
           src == t.image
           big == Grow(fb, x + src.width, y + src.height)
           result == BlitRect(big, x, y, src)
<1>1. /\ t.origin \in Points /\ t.image \in Pictures
  BY DEF PictureTiles
<1>2. x \in Nat /\ y \in Nat
  BY <1>1 DEF Points
<1>3. /\ src.width \in Nat /\ src.height \in Nat
      /\ src \in ImagesOf(src.width, src.height)
  BY <1>1, PictureShape
<1>4. BlitTile(fb, t) = result
  BY DEF BlitTile
<1>5. \A p \in WindowPixels : InTile(p, t) <=> /\ p[1] \in x .. x + src.width - 1
                                              /\ p[2] \in y .. y + src.height - 1
  BY DEF InTile
<1> HIDE DEF x, y, src
<1>6. /\ big \in Framebuffers
      /\ \A a \in 0 .. fb.width - 1, b \in 0 .. fb.height - 1 :
           At(big, a, b) = At(fb, a, b)
  <2>1. x + src.width \in Nat /\ y + src.height \in Nat
    BY <1>2, <1>3
  <2> QED BY <2>1, GrowKeeps
<1> HIDE DEF big
<1>7. /\ big.width \in Nat /\ big.height \in Nat
      /\ big \in ImagesOf(big.width, big.height)
      /\ big.width >= Window[1] /\ big.height >= Window[2]
  BY <1>6, PictureShape DEF Framebuffers
<1>8. result \in ImagesOf(big.width, big.height)
  BY <1>2, <1>3, <1>7, BlitRectImage
<1>9. result \in Framebuffers
  <2> HIDE DEF result
  <2>1. result \in Pictures /\ result.width = big.width /\ result.height = big.height
    BY <1>7, <1>8, ShapedPicture
  <2> QED BY <2>1, <1>7 DEF Framebuffers
<1>10. ASSUME NEW p \in WindowPixels
       PROVE  At(result, p[1], p[2])
                = IF InTile(p, t) THEN At(src, p[1] - x, p[2] - y)
                  ELSE At(fb, p[1], p[2])
  <2>1. /\ p[1] \in 0 .. Window[1] - 1 /\ p[2] \in 0 .. Window[2] - 1
    BY DEF WindowPixels
  <2>2. fb.width \in Nat /\ fb.height \in Nat /\ fb.width >= Window[1] /\ fb.height >= Window[2]
    BY PictureShape DEF Framebuffers
  <2>3. /\ p[1] \in 0 .. big.width - 1 /\ p[2] \in 0 .. big.height - 1
        /\ p[1] \in 0 .. fb.width - 1 /\ p[2] \in 0 .. fb.height - 1
    BY <2>1, <2>2, <1>7, WindowSize
  <2>4. \A w, h, sw, sh \in Nat :
          big \in ImagesOf(w, h) /\ src \in ImagesOf(sw, sh) =>
            \A a \in 0 .. w - 1, b \in 0 .. h - 1 :
              At(result, a, b)
                = IF a \in x .. x + sw - 1 /\ b \in y .. y + sh - 1
                  THEN At(src, a - x, b - y)
                  ELSE At(big, a, b)
    BY <1>2, BlitRectAt
  <2>5. At(big, p[1], p[2]) = At(fb, p[1], p[2])
    BY <1>6, <2>3
  <2> DEFINE bw == big.width
             bh == big.height
             sw == src.width
             sh == src.height
  <2>6. /\ bw \in Nat /\ bh \in Nat /\ sw \in Nat /\ sh \in Nat
        /\ big \in ImagesOf(bw, bh) /\ src \in ImagesOf(sw, sh)
        /\ p[1] \in 0 .. bw - 1 /\ p[2] \in 0 .. bh - 1
        /\ InTile(p, t) <=> p[1] \in x .. x + sw - 1 /\ p[2] \in y .. y + sh - 1
    BY <1>3, <1>5, <1>7, <2>3
  <2> HIDE DEF result, bw, bh, sw, sh
  <2>7. At(result, p[1], p[2])
          = IF p[1] \in x .. x + sw - 1 /\ p[2] \in y .. y + sh - 1
            THEN At(src, p[1] - x, p[2] - y)
            ELSE At(big, p[1], p[2])
    BY <2>4, <2>6, <1>2
  <2> QED BY <2>5, <2>6, <2>7, <1>2
<1> QED BY <1>4, <1>9, <1>10 DEF x, y, src

(* Redrawing copies out the part of the framebuffer the user may see.       *)
LEMMA ShownPart ==
  ASSUME NEW fb \in Framebuffers, NEW p \in WindowPixels
  PROVE  At(ExtractRect(fb, 0, 0, Window[1], Window[2]), p[1], p[2])
           = At(fb, p[1], p[2])
PROOF
<1> DEFINE w == fb.width
           h == fb.height
<1>1. /\ w \in Nat /\ h \in Nat /\ fb \in ImagesOf(w, h)
      /\ w >= Window[1] /\ h >= Window[2]
  BY PictureShape DEF Framebuffers
<1>2. /\ p[1] \in 0 .. Window[1] - 1 /\ p[2] \in 0 .. Window[2] - 1
  BY DEF WindowPixels
<1> HIDE DEF w, h
<1>3. ASSUME NEW rw \in Nat, NEW rh \in Nat, NEW x \in 0 .. rw - 1, NEW y \in 0 .. rh - 1,
             NEW z \in Nat, z = 0, w >= rw, h >= rh
      PROVE  At(ExtractRect(fb, z, z, rw, rh), x, y) = At(fb, x, y)
  <2> DEFINE copy == ExtractRect(fb, z, z, rw, rh)
  <2>1. copy \in ImagesOf(rw, rh) /\ IsCopy(copy, fb, z, z)
    BY <1>1, ExtractRectImage
  <2> HIDE DEF copy
  <2>2. copy.width = rw /\ copy.height = rh
    BY <2>1 DEF ImagesOf
  <2>3. At(copy, x, y)
          = IF z + x < w /\ z + y < h THEN At(fb, z + x, z + y) ELSE Black
    BY <2>1, <2>2 DEF IsCopy, w, h
  <2>4. z + x = x /\ z + y = y /\ x < w /\ y < h
    BY <1>1, <1>3
  <2> QED BY <2>3, <2>4 DEF copy
<1> QED BY <1>1, <1>2, <1>3, WindowSize

-----------------------------------------------------------------------------
(* blit_bgrx, tile after tile: the framebuffers the loop goes through.      *)
TileBlits(fb, tiles, f) ==
  /\ f[0] = fb
  /\ \A k \in 1 .. Len(tiles) : f[k] = BlitTile(f[k - 1], tiles[k])

LEMMA BlitTilesLoop ==
  ASSUME NEW fb \in Framebuffers, NEW tiles \in Seq(PictureTiles)
  PROVE  \E f \in [0 .. Len(tiles) -> Framebuffers] :
           TileBlits(fb, tiles, f) /\ BlitTiles(fb, tiles) = f[Len(tiles)]
PROOF
<1> DEFINE S == Framebuffers
           n == Len(tiles)
           step(i, k) == BlitTile(i, tiles[k])
           F == [p \in S \X (1 .. n) |-> step(p[1], p[2])]
           Eq(f) == f = [k \in 0 .. n |-> IF k = 0 THEN fb
                                         ELSE step(f[k - 1], k)]
           after == CHOOSE f : Eq(f)
<1>0. n \in Nat
  OBVIOUS
<1>1. BlitTiles(fb, tiles) = after[n]
  BY DEF BlitTiles, Loop
<1>2. \A i \in S, k \in 1 .. n : step(i, k) \in S
  <2>1. \A k \in 1 .. n : tiles[k] \in PictureTiles
    OBVIOUS
  <2> QED BY <2>1, BlitTileAt
<1> HIDE DEF S, step
<1>3. F \in [S \X (1 .. n) -> S]
  BY <1>2
<1>4. PICK f : Results(f, F, S, fb, n)
  <2>1. fb \in S
    BY DEF S
  <2> HIDE DEF F, n
  <2> QED BY <1>0, <1>3, <2>1, LoopFunction
<1>5. Eq(f)
  <2>1. /\ f[0] = fb
        /\ f \in [0 .. n -> S]
        /\ \A k \in 1 .. n : f[k] = F[<<f[k - 1], k>>]
    BY <1>4 DEF Results
  <2>2. \A k \in 1 .. n : k - 1 \in 0 .. n
    OBVIOUS
  <2>3. \A k \in 1 .. n : f[k] = step(f[k - 1], k)
    <3>1. \A k \in 1 .. n : f[k - 1] \in S
      <4> HIDE DEF n
      <4> QED BY <2>1, <2>2
    <3> QED BY <2>1, <3>1
  <2> HIDE DEF n
  <2> QED BY <2>1, <2>3
<1>6. Eq(after)
  <2> HIDE DEF Eq
  <2> QED BY <1>5
<1> HIDE DEF after
<1>7. \A k \in 0 .. n : after[k] \in S
  <2> DEFINE P == {k \in 0 .. n : after[k] \in S}
  <2>1. 0 \in P
    BY <1>6 DEF S
  <2>2. ASSUME NEW k \in 1 .. n, k - 1 \in P PROVE k \in P
    BY <1>6, <2>2, <1>2
  <2> HIDE DEF P
  <2>3. \A k \in 0 .. n : k \in P
    BY <1>0, <2>1, <2>2, UpTo
  <2> QED BY <2>3 DEF P
<1>8. after \in [0 .. n -> S]
  BY <1>6, <1>7
<1>9. TileBlits(fb, tiles, after)
  <2>1. after[0] = fb /\ \A k \in 1 .. n : after[k] = step(after[k - 1], k)
    BY <1>6
  <2> HIDE DEF after
  <2> QED BY <2>1 DEF TileBlits, step
<1> QED BY <1>1, <1>8, <1>9 DEF S

(* What the user may see of the framebuffer once a snapshot is drawn is the *)
(* snapshot over what he saw before, each tile at its origin.               *)
LEMMA BlitTilesOverlay ==
  ASSUME NEW fb \in Framebuffers, NEW tiles \in Seq(PictureTiles)
  PROVE  /\ BlitTiles(fb, tiles) \in Framebuffers
         /\ View(BlitTiles(fb, tiles)) = Overlay(View(fb), tiles)
PROOF
<1> DEFINE n == Len(tiles)
<1>0. /\ n \in Nat /\ DOMAIN tiles = 1 .. n
      /\ \A k \in 1 .. n : tiles[k] \in PictureTiles
  OBVIOUS
<1>1. PICK f \in [0 .. n -> Framebuffers] :
        TileBlits(fb, tiles, f) /\ BlitTiles(fb, tiles) = f[n]
  BY BlitTilesLoop
<1>2. f[0] = fb /\ \A k \in 1 .. n : f[k] = BlitTile(f[k - 1], tiles[k])
  BY <1>1 DEF TileBlits
<1> HIDE DEF n
<1>3. \A k \in 0 .. n : f[k] \in Framebuffers
  BY <1>1
<1>4. ASSUME NEW p \in WindowPixels
      PROVE  View(f[n])[p] = Overlay(View(fb), tiles)[p]
  <2> DEFINE on == {k \in DOMAIN tiles : InTile(p, tiles[k])}
             v == [k \in 0 .. n |-> At(f[k], p[1], p[2])]
             col == [k \in 1 .. n |-> At(tiles[k].image, p[1] - tiles[k].origin[1],
                                         p[2] - tiles[k].origin[2])]
             top == CHOOSE k \in on : \A j \in on : j <= k
  <2>1. on \in SUBSET (1 .. n)
    BY <1>0
  <2>2. ASSUME NEW k \in 1 .. n
        PROVE  v[k] = IF k \in on THEN col[k] ELSE v[k - 1]
    <3>1. k - 1 \in 0 .. n /\ k \in 0 .. n /\ k \in DOMAIN tiles
      BY <1>0
    <3>2. f[k - 1] \in Framebuffers /\ tiles[k] \in PictureTiles
      BY <3>1, <1>0, <1>3
    <3>3. At(BlitTile(f[k - 1], tiles[k]), p[1], p[2])
            = IF InTile(p, tiles[k])
              THEN At(tiles[k].image, p[1] - tiles[k].origin[1],
                      p[2] - tiles[k].origin[2])
              ELSE At(f[k - 1], p[1], p[2])
      BY <3>2, BlitTileAt
    <3>4. f[k] = BlitTile(f[k - 1], tiles[k])
      BY <1>2
    <3> QED BY <3>1, <3>3, <3>4
  <2>3. v[0] = View(fb)[p] /\ v[n] = View(f[n])[p]
    BY <1>0, <1>2 DEF View
  <2>4. p \in Covered(tiles) <=> on # {}
    BY DEF Covered
  <2>8. ASSUME on # {}
        PROVE  top \in on /\ \A j \in on : j <= top
    <3> DEFINE T == {n - k : k \in on}
    <3>1. T \subseteq Nat /\ T # {}
      BY <2>1, <2>8, <1>0
    <3>2. PICK m \in T : \A i \in T : m <= i
      <4> HIDE DEF T
      <4> QED BY <3>1, NatMinimum
    <3>3. PICK k \in on : m = n - k
      OBVIOUS
    <3>4. \A j \in on : j <= k
      <4>1. \A j \in on : n - j \in T
        OBVIOUS
      <4>2. \A j \in on : m <= n - j
        <5> HIDE DEF T, on
        <5> QED BY <3>2, <4>1
      <4>3. \A j \in on : j \in Nat
        BY <2>1
      <4> HIDE DEF T, on
      <4> QED BY <3>3, <4>2, <4>3, <1>0
    <3> HIDE DEF on
    <3> QED BY <3>4
  <2>5. ASSUME on # {}
        PROVE  Overlay(View(fb), tiles)[p] = col[top]
    <3>1. Overlay(View(fb), tiles)[p]
            = tiles[top].image.pixels[(p[2] - tiles[top].origin[2]) * tiles[top].image.width
                                        + p[1] - tiles[top].origin[1]]
      BY <2>4, <2>5 DEF Overlay
    <3>2. top \in 1 .. n
      <4> HIDE DEF on, top
      <4> QED BY <2>1, <2>5, <2>8
    <3>3. /\ tiles[top].origin[1] \in Nat /\ tiles[top].origin[2] \in Nat
          /\ tiles[top].image.width \in Nat
      <4> HIDE DEF top
      <4>1. tiles[top].origin \in Points /\ tiles[top].image \in Pictures
        BY <1>0, <3>2 DEF PictureTiles
      <4> QED BY <4>1, PictureShape DEF Points
    <3>4. p[1] \in Nat /\ p[2] \in Nat
      BY WindowSize DEF WindowPixels
    <3> HIDE DEF top
    <3>5. (p[2] - tiles[top].origin[2]) * tiles[top].image.width + p[1] - tiles[top].origin[1]
            = (p[2] - tiles[top].origin[2]) * tiles[top].image.width + (p[1] - tiles[top].origin[1])
      <4>1. (p[2] - tiles[top].origin[2]) * tiles[top].image.width \in Int
        BY <3>3, <3>4, Z3
      <4> QED BY <4>1, <3>3, <3>4
    <3>6. col[top] = At(tiles[top].image, p[1] - tiles[top].origin[1],
                        p[2] - tiles[top].origin[2])
      BY <3>2
    <3> HIDE DEF col
    <3> QED BY <3>1, <3>5, <3>6 DEF At
  <2>6. ASSUME on = {}
        PROVE  Overlay(View(fb), tiles)[p] = View(fb)[p]
    BY <2>4, <2>6 DEF Overlay
  <2> HIDE DEF on, v, col
  <2> HIDE DEF top
  <2>7. v[n] = IF on = {} THEN v[0] ELSE col[top]
    <3>1. LastOf(n, v, col, on)
      BY <1>0, <2>1, <2>2, LastWins
    <3> QED BY <2>8, <3>1 DEF LastOf
  <2> QED BY <2>3, <2>5, <2>6, <2>7
<1>5. View(f[n]) = Overlay(View(fb), tiles)
  BY <1>4 DEF View, Overlay
<1>6. f[n] \in Framebuffers
  BY <1>0, <1>3
<1> QED BY <1>1, <1>5, <1>6

-----------------------------------------------------------------------------
(* A snapshot: a tile for each mapped surface that exists.                  *)
LEMMA SnapshotTiles ==
  ASSUME GfxInv, GfxTypes
  PROVE  PresentTiles \in Seq(PictureTiles)
PROOF
<1> DEFINE keep == {k \in DOMAIN output_map : Live(output_map[k].id)}
           chosen == Kept(output_map, keep)
<1>1. output_map \in Seq(Mappings)
  BY DEF GfxInv
<1>2. keep \subseteq DOMAIN output_map /\ \A k \in keep : Live(output_map[k].id)
  OBVIOUS
<1>3. PresentTiles
        = IF ~ saw_content THEN <<>>
          ELSE [k \in DOMAIN chosen |-> [origin |-> chosen[k].origin,
                                         image |-> surfaces[chosen[k].id]]]
  BY DEF PresentTiles
<1> HIDE DEF keep, chosen
<1>4. chosen \in Seq(Mappings)
  BY <1>1, <1>2, KeptProperties DEF chosen
<1>5. PICK i \in [DOMAIN chosen -> keep] :
        \A j, k \in DOMAIN chosen : /\ chosen[k] = output_map[i[k]]
                                    /\ i[j] = i[k] => j = k
  BY <1>1, <1>2, KeptProperties DEF chosen
<1>6. \A k \in DOMAIN chosen : Live(chosen[k].id)
  BY <1>2, <1>5
<1>7. Len(chosen) \in Nat /\ DOMAIN chosen = 1 .. Len(chosen)
      /\ \A k \in DOMAIN chosen : chosen[k] \in Mappings
  BY <1>4
<1>8. ASSUME NEW k \in DOMAIN chosen
      PROVE  [origin |-> chosen[k].origin, image |-> surfaces[chosen[k].id]]
               \in PictureTiles
  <2>1. chosen[k].origin \in Points
    BY <1>7, PduAssumption DEF Mappings
  <2>2. SomeImage(surfaces[chosen[k].id])
    BY <1>6 DEF GfxTypes, AllImages, Live
  <2>3. surfaces[chosen[k].id] \in Pictures
    BY <2>2, SomePicture
  <2> QED BY <2>1, <2>3 DEF PictureTiles
<1>9. ASSUME saw_content PROVE PresentTiles \in Seq(PictureTiles)
  <2> DEFINE tile(k) == [origin |-> chosen[k].origin, image |-> surfaces[chosen[k].id]]
  <2>1. PresentTiles = [k \in 1 .. Len(chosen) |-> tile(k)]
    BY <1>3, <1>7, <1>9
  <2>2. \A k \in 1 .. Len(chosen) : tile(k) \in PictureTiles
    BY <1>7, <1>8
  <2> HIDE DEF tile
  <2> QED BY <2>1, <2>2, <1>7
<1>10. ASSUME ~ saw_content PROVE PresentTiles \in Seq(PictureTiles)
  BY <1>3, <1>10
<1> QED BY <1>9, <1>10

(* The types.  The framebuffer grows and never shrinks; the image on the    *)
(* screen always has the size of the window.                                *)
WindowInv ==
  /\ framebuffer \in Framebuffers
  /\ screen \in ImagesOf(Window[1], Window[2])
  /\ slot \in Seq(PictureTiles)
  /\ pc \in {"check", "receive", "apply", "acknowledge", "present", "act",
             "ended"}
  /\ left \in 0 .. MaxPdus
  /\ ui \in {"running", "exiting", "stopped"}
  /\ {closed, redraw, failed} \subseteq BOOLEAN
  /\ Len(acks) <= frames_decoded

TypesInv == PresentationInv /\ GfxTypes /\ WindowInv

LEMMA TypesInitInv == PresentationInit => TypesInv
PROOF
<1> SUFFICES ASSUME PresentationInit PROVE TypesInv
  OBVIOUS
<1>1. PresentationInv
  BY PresentationInitInv
<1>2. GfxTypes
  BY GfxTypesInit DEF PresentationInit
<1>3. framebuffer \in Framebuffers /\ screen \in ImagesOf(Window[1], Window[2])
  <2> DEFINE new == NewSurface(Window[1], Window[2])
  <2>1. framebuffer = new /\ screen = new
    BY DEF PresentationInit
  <2>2. new \in ImagesOf(Window[1], Window[2])
    BY WindowSize, NewImages, ColorsAssumption
  <2> HIDE DEF new
  <2>3. new \in Pictures /\ new.width = Window[1] /\ new.height = Window[2]
    BY <2>2, WindowSize, ShapedPicture
  <2> QED BY <2>1, <2>2, <2>3, WindowSize DEF Framebuffers
<1>4. left \in 0 .. MaxPdus /\ Len(acks) <= frames_decoded
  BY PresentationAssumption DEF PresentationInit, Init
<1>5. slot \in Seq(PictureTiles)
  BY DEF PresentationInit
<1>6. /\ pc = "check" /\ ui = "running"
      /\ {closed, redraw, failed} \subseteq BOOLEAN
  BY DEF PresentationInit
<1>7. WindowInv
  BY <1>3, <1>4, <1>5, <1>6 DEF WindowInv
<1> QED BY <1>1, <1>2, <1>7 DEF TypesInv

LEMMA PresentationNextInv ==
  ASSUME PresentationInv, [PresentationNext]_vars
  PROVE  PresentationInv'
PROOF
  BY PresentationGfxInv, PresentationAckInv, PresentationCloseInv,
     PresentationMailboxInv DEF PresentationInv

LEMMA PresentationGfxTypes ==
  ASSUME TypesInv, [PresentationNext]_vars
  PROVE  GfxTypes'
PROOF
<1>1. CASE ApplyPdu
  BY <1>1, GfxTypesApply DEF ApplyPdu, TypesInv, PresentationInv
<1>2. CASE Present
  <2>1. /\ UNCHANGED <<surfaces, cache, desktop, tile_baseline, frames_decoded,
                       saw_content, reported, skipped>>
        /\ actions' = Tail(actions)
    BY <1>2 DEF Present
  <2>2. actions \in Seq(Nat) /\ actions # <<>> /\ Len(actions) <= frames_decoded
        /\ frames_decoded \in Nat
    BY <1>2 DEF Present, TypesInv, PresentationInv, AckInv, GfxInv, GfxTypes
  <2>3. Len(actions') <= frames_decoded'
    BY <2>1, <2>2
  <2> QED BY <2>1, <2>3 DEF TypesInv, GfxTypes, AllImages
<1>3. CASE UNCHANGED gfxVars
  BY <1>3 DEF gfxVars, TypesInv, GfxTypes, AllImages
<1>4. ApplyPdu \/ Present \/ UNCHANGED gfxVars
  BY DEF PresentationNext, SessionNext, WindowNext, CheckClosed, Receive, Fail,
         NextAction, Acknowledge, Poll, Redraw, RedrawFailed, CloseRequested,
         Shutdown, Exit, vars
<1> QED BY <1>1, <1>2, <1>3, <1>4

LEMMA PresentationWindowInv ==
  ASSUME TypesInv, [PresentationNext]_vars
  PROVE  WindowInv'
PROOF
<1>0. WindowInv /\ PresentationInv /\ GfxInv /\ GfxTypes /\ PresentationInv'
  BY PresentationNextInv DEF TypesInv, PresentationInv
<1>1. /\ framebuffer' \in Framebuffers
      /\ screen' \in ImagesOf(Window[1], Window[2])
      /\ slot' \in Seq(PictureTiles)
  <2>1. CASE Present
    <3>1. UNCHANGED <<framebuffer, screen>>
          /\ (slot' = PresentTiles \/ slot' = slot)
      BY <2>1 DEF Present, Publish, windowVars
    <3> QED BY <3>1, <1>0, SnapshotTiles DEF WindowInv
  <2>2. CASE Poll
    <3>1. framebuffer' = BlitTiles(framebuffer, slot) /\ screen' = screen
          /\ slot' = <<>>
      BY <2>2 DEF Poll
    <3> QED BY <3>1, <1>0, BlitTilesOverlay DEF WindowInv
  <2>3. CASE Redraw
    <3>1. /\ screen' = ExtractRect(framebuffer, 0, 0, Window[1], Window[2])
          /\ UNCHANGED <<framebuffer, slot>>
      BY <2>3 DEF Redraw, mailboxVars
    <3>2. /\ framebuffer.width \in Nat /\ framebuffer.height \in Nat
          /\ framebuffer \in ImagesOf(framebuffer.width, framebuffer.height)
      BY <1>0, PictureShape DEF WindowInv, Framebuffers
    <3>3. screen' \in ImagesOf(Window[1], Window[2])
      BY <3>1, <3>2, WindowSize, ExtractRectImage
    <3> QED BY <3>1, <3>3, <1>0 DEF WindowInv
  <2>4. CASE UNCHANGED <<framebuffer, screen, slot>>
    BY <2>4, <1>0 DEF WindowInv
  <2>5. Present \/ Poll \/ Redraw \/ UNCHANGED <<framebuffer, screen, slot>>
    BY DEF PresentationNext, SessionNext, WindowNext, CheckClosed, Receive,
           Fail, ApplyPdu, NextAction, Acknowledge, RedrawFailed,
           CloseRequested, Shutdown, Exit, vars, mailboxVars, windowVars
  <2> QED BY <2>1, <2>2, <2>3, <2>4, <2>5
<1>2. pc' \in {"check", "receive", "apply", "acknowledge", "present", "act",
               "ended"}
  BY <1>0 DEF WindowInv, PresentationNext, SessionNext, WindowNext, CheckClosed,
         Receive, Fail, ApplyPdu, NextAction, Acknowledge, Present, Poll,
         Redraw, RedrawFailed, CloseRequested, Shutdown, Exit, vars, sessionVars
<1>3. left' \in 0 .. MaxPdus
  <2>1. left' = left \/ left' = MaxPdus \/ (left > 0 /\ left' = left - 1)
    BY DEF PresentationNext, SessionNext, WindowNext, CheckClosed,
         Receive, Fail, ApplyPdu, NextAction, Acknowledge, Present, Poll,
         Redraw, RedrawFailed, CloseRequested, Shutdown, Exit, vars, sessionVars
  <2>2. left \in 0 .. MaxPdus /\ MaxPdus \in Nat
    BY <1>0, PresentationAssumption DEF WindowInv
  <2> QED BY <2>1, <2>2
<1>4. /\ ui' \in {"running", "exiting", "stopped"}
      /\ {closed', redraw', failed'} \subseteq BOOLEAN
  BY <1>0 DEF WindowInv, PresentationNext, SessionNext, WindowNext, CheckClosed,
         Receive, Fail, ApplyPdu, NextAction, Acknowledge, Present, Poll,
         Redraw, RedrawFailed, CloseRequested, Shutdown, Exit, vars, sessionVars,
         mailboxVars, windowVars, historyVars
<1>5. Len(acks') <= frames_decoded'
  <2>1. CASE pc' # "ended"
    <3>1. Len(acks') + Len(Waiting') = frames_decoded'
      BY <2>1, <1>0 DEF PresentationInv, AckInv
    <3>2. acks' \in Seq(Nat) /\ actions' \in Seq(Nat) /\ frames_decoded' \in Nat
      BY <1>0 DEF PresentationInv, AckInv, GfxInv
    <3>3. Waiting' \in Seq(Nat)
      <4>1. CASE pc' = "present"
        <5>1. actions' # <<>> /\ Waiting' = Tail(actions')
          BY <4>1, <1>0 DEF PresentationInv, AckInv, Waiting
        <5> QED BY <5>1, <3>2
      <4>2. CASE pc' # "present"
        BY <4>2, <3>2 DEF Waiting
      <4> QED BY <4>1, <4>2
    <3>4. Len(acks') \in Nat /\ Len(Waiting') \in Nat
      BY <3>2, <3>3
    <3> QED BY <3>1, <3>2, <3>4
  <2>2. CASE pc' = "ended"
    <3>1. UNCHANGED <<acks, frames_decoded>>
      BY <2>2 DEF PresentationNext, SessionNext, WindowNext, CheckClosed,
         Receive, Fail, ApplyPdu, NextAction, Acknowledge, Present, Poll,
         Redraw, RedrawFailed, CloseRequested, Shutdown, Exit, vars, sessionVars,
         gfxVars
    <3> QED BY <3>1, <1>0 DEF WindowInv
  <2> QED BY <2>1, <2>2
<1> QED BY <1>1, <1>2, <1>3, <1>4, <1>5 DEF WindowInv

LEMMA TypesNextInv ==
  ASSUME TypesInv, [PresentationNext]_vars
  PROVE  TypesInv'
PROOF
<1>1. PresentationInv'
  BY PresentationNextInv DEF TypesInv
<1> QED BY <1>1, PresentationGfxTypes, PresentationWindowInv DEF TypesInv

(* Whatever tiles arrive and wherever they are mapped, the framebuffer and  *)
(* the screen stay images, and the other variables keep their types         *)
(* (window.rs:110-199).                                                     *)
THEOREM PresentationTypes == PresentationSafe => []PresentationTypeOK
PROOF
<1>1. TypesInv => PresentationTypeOK
  <2> SUFFICES ASSUME TypesInv PROVE PresentationTypeOK
    OBVIOUS
  <2>1. TypeOK
    BY TypesOK DEF TypesInv, PresentationInv
  <2>2. IsImage(framebuffer) /\ IsImage(screen)
    <3>1. ASSUME NEW w \in Nat, NEW h \in Nat, NEW img \in ImagesOf(w, h)
          PROVE  IsImage(img)
      BY DEF IsImage, ImagesOf
    <3>2. /\ framebuffer.width \in Nat /\ framebuffer.height \in Nat
          /\ framebuffer \in ImagesOf(framebuffer.width, framebuffer.height)
      BY PictureShape DEF TypesInv, WindowInv, Framebuffers
    <3>3. screen \in ImagesOf(Window[1], Window[2])
      BY DEF TypesInv, WindowInv
    <3> QED BY <3>1, <3>2, <3>3, WindowSize
  <2>3. acks \in Seq(1 .. MaxFrames)
    <3>1. /\ acks \in Seq(Nat) /\ \A k \in 1 .. Len(acks) : acks[k] = k
          /\ Len(acks) <= frames_decoded /\ frames_decoded \in 0 .. MaxFrames
      BY DEF TypesInv, WindowInv, PresentationInv, AckInv, GfxTypes
    <3> DEFINE T == 1 .. MaxFrames
    <3>2. \A k \in 1 .. Len(acks) : acks[k] \in T
      BY <3>1, GfxAssumption
    <3> HIDE DEF T
    <3>3. acks \in Seq(T)
      BY <3>1, <3>2
    <3> QED BY <3>3 DEF T
  <2>4. {published, queued, drawn, shown, late} \subseteq Nat
    BY DEF TypesInv, PresentationInv, MailboxInv, CloseInv
  <2> QED BY <2>1, <2>2, <2>3, <2>4 DEF TypesInv, WindowInv, PresentationTypeOK
<1> QED BY <1>1, TypesInitInv, TypesNextInv, PTL DEF PresentationSafe

-----------------------------------------------------------------------------
(* What the user sees.  The snapshot in the slot, drawn over what is in the *)
(* framebuffer, is what every snapshot drawn one after the other would have *)
(* left, because an overwritten one lies within its successor; and what has *)
(* been presented is what has been drawn.                                   *)
PixelInv ==
  /\ TypesInv
  /\ lossless => every = Overlay(View(framebuffer), slot)
  /\ shown = drawn => OnScreen = View(framebuffer)

LEMMA OverlayNothing ==
  ASSUME NEW fb
  PROVE  Overlay(View(fb), <<>>) = View(fb)
PROOF
<1>1. Covered(<<>>) = {}
  BY DEF Covered
<1> QED BY <1>1 DEF Overlay, View

(* A picture drawn over disappears under one that reaches as far.           *)
LEMMA OverlayTwice ==
  ASSUME NEW picture, NEW a, NEW b, Covered(a) \subseteq Covered(b)
  PROVE  Overlay(Overlay(picture, a), b) = Overlay(picture, b)
PROOF
<1> DEFINE under == Overlay(picture, a)
<1>1. \A p \in WindowPixels : p \notin Covered(b) => under[p] = picture[p]
  BY DEF Overlay
<1> HIDE DEF under
<1>2. Overlay(under, b) = Overlay(picture, b)
  BY <1>1 DEF Overlay
<1> QED BY <1>2 DEF under

LEMMA PixelInitInv == PixelInit => PixelInv
PROOF
<1> SUFFICES ASSUME PixelInit PROVE PixelInv
  OBVIOUS
<1>1. TypesInv
  BY TypesInitInv DEF PixelInit
<1> DEFINE new == NewSurface(Window[1], Window[2])
<1>2. framebuffer = new /\ screen = new /\ slot = <<>>
  BY DEF PixelInit, PresentationInit
<1>3. \A p \in WindowPixels : At(new, p[1], p[2]) = Black
  <2>1. ASSUME NEW x \in 0 .. Window[1] - 1, NEW y \in 0 .. Window[2] - 1
        PROVE  At(new, x, y) = Black
    <3>1. y * Window[1] + x \in 0 .. Window[1] * Window[2] - 1
      BY IndexInside, WindowSize
    <3> QED BY <3>1 DEF At, NewSurface, Image
  <2> QED BY <2>1 DEF WindowPixels
<1>4. new.width = Window[1]
  BY DEF NewSurface, Image
<1> HIDE DEF new
<1>5. every = View(framebuffer)
  BY <1>2, <1>3 DEF PixelInit, View
<1>6. OnScreen = View(framebuffer)
  BY <1>2, <1>4 DEF OnScreen, View, At
<1> QED BY <1>1, <1>2, <1>5, <1>6, OverlayNothing DEF PixelInv

LEMMA PixelNextInv == PixelInv /\ [PixelNext]_pixelVars => PixelInv'
PROOF
<1> SUFFICES ASSUME PixelInv, [PixelNext]_pixelVars PROVE PixelInv'
  OBVIOUS
<1>0. /\ [PresentationNext]_vars
      /\ TypesInv /\ LatestWins /\ WindowInv
      /\ {published, queued, drawn, shown} \subseteq Nat
  BY DEF PixelInv, PixelNext, pixelVars, TypesInv, PresentationInv, MailboxInv
<1>1. TypesInv'
  BY <1>0, TypesNextInv
<1>2. ASSUME published' = published
      PROVE  every' = every /\ (lossless' => lossless)
  <2>1. CASE PixelNext
    BY <1>2, <2>1, Zenon DEF PixelNext, Published
  <2>2. CASE UNCHANGED pixelVars
    BY <2>2 DEF pixelVars
  <2> QED BY <2>1, <2>2
<1>3. CASE UNCHANGED <<framebuffer, screen, slot, shown, drawn, published>>
  BY <1>1, <1>2, <1>3 DEF PixelInv, OnScreen
<1>4. CASE Present
  <2>1. UNCHANGED <<framebuffer, screen, shown, drawn>>
    BY <1>4 DEF Present, windowVars
  <2>2. shown' = drawn' => OnScreen' = View(framebuffer')
    BY <2>1 DEF PixelInv, OnScreen
  <2>3. CASE PresentTiles = <<>>
    <3>1. UNCHANGED <<slot, published>>
      BY <1>4, <2>3 DEF Present
    <3> QED BY <1>3, <2>1, <3>1
  <2>4. CASE PresentTiles # <<>>
    <3>1. slot' = PresentTiles /\ published' = published + 1
      BY <1>4, <2>4 DEF Present, Publish
    <3>2. Published /\ PixelNext
      BY <3>1, <1>0 DEF Published, pixelVars, vars, historyVars
    <3>3. /\ every' = Overlay(every, PresentTiles)
          /\ lossless' => lossless /\ Covered(slot) \subseteq Covered(PresentTiles)
      BY <3>2 DEF PixelNext
    <3>4. ASSUME lossless'
          PROVE  every' = Overlay(View(framebuffer'), slot')
      <4>1. every = Overlay(View(framebuffer), slot)
        BY <3>3, <3>4 DEF PixelInv
      <4>2. Overlay(Overlay(View(framebuffer), slot), PresentTiles)
              = Overlay(View(framebuffer), PresentTiles)
        BY <3>3, <3>4, OverlayTwice
      <4> QED BY <2>1, <3>1, <3>3, <4>1, <4>2
    <3> QED BY <1>1, <2>2, <3>4 DEF PixelInv
  <2> QED BY <2>3, <2>4
<1>5. CASE Poll
  <2>1. /\ slot # <<>> /\ slot' = <<>>
        /\ framebuffer' = BlitTiles(framebuffer, slot)
        /\ drawn' = queued
        /\ UNCHANGED <<shown, published>>
    BY <1>5 DEF Poll
  <2>2. View(framebuffer') = Overlay(View(framebuffer), slot)
    BY <2>1, <1>0, BlitTilesOverlay DEF WindowInv
  <2>3. shown' # drawn'
    BY <2>1, <1>0 DEF LatestWins
  <2>4. lossless' => every' = Overlay(View(framebuffer'), slot')
    <3>1. Overlay(View(framebuffer'), <<>>) = View(framebuffer')
      BY OverlayNothing
    <3> QED BY <2>1, <2>2, <3>1, <1>2 DEF PixelInv
  <2> QED BY <1>1, <2>3, <2>4 DEF PixelInv
<1>6. CASE Redraw
  <2>1. /\ screen' = ExtractRect(framebuffer, 0, 0, Window[1], Window[2])
        /\ UNCHANGED <<framebuffer, slot, published>>
    BY <1>6 DEF Redraw, mailboxVars
  <2>2. lossless' => every' = Overlay(View(framebuffer'), slot')
    BY <2>1, <1>2 DEF PixelInv
  <2>3. OnScreen' = View(framebuffer')
    <3> DEFINE copy == ExtractRect(framebuffer, 0, 0, Window[1], Window[2])
    <3>3. \A p \in WindowPixels : At(copy, p[1], p[2]) = At(framebuffer, p[1], p[2])
      BY <1>0, ShownPart DEF WindowInv
    <3>4. copy.width = Window[1] /\ screen' = copy
      BY <2>1 DEF ExtractRect, Image
    <3> HIDE DEF copy
    <3>5. OnScreen' = [p \in WindowPixels |-> At(copy, p[1], p[2])]
      BY <3>4 DEF OnScreen, At
    <3>6. View(framebuffer') = View(framebuffer)
      BY <2>1
    <3> QED BY <3>3, <3>5, <3>6 DEF View
  <2> QED BY <1>1, <2>2, <2>3 DEF PixelInv
<1>7. \/ Present \/ Poll \/ Redraw
      \/ UNCHANGED <<framebuffer, screen, slot, shown, drawn, published>>
  BY <1>0 DEF PresentationNext, SessionNext, WindowNext, CheckClosed,
         Receive, Fail, ApplyPdu, NextAction, Acknowledge, RedrawFailed,
         CloseRequested, Shutdown, Exit, vars, mailboxVars, windowVars,
         historyVars
<1> QED BY <1>3, <1>4, <1>5, <1>6, <1>7

(* However session and window interleave, whatever is mapped where and      *)
(* however often the framebuffer grows: once the mailbox is empty and the   *)
(* last drawing is presented, every pixel of the window shows what drawing  *)
(* every published snapshot would have left there, as long as no            *)
(* overwritten snapshot reached further than its successor                  *)
(* (window.rs:110-199, session.rs:487-490).                                 *)
THEOREM NothingIsLost == PixelSpec => []NothingLostWhileCovered
PROOF
<1>1. PixelInv => NothingLostWhileCovered
  <2> SUFFICES ASSUME PixelInv, lossless, Settled PROVE OnScreen = every
    BY DEF NothingLostWhileCovered
  <2>1. slot = <<>> /\ shown = drawn
    BY DEF Settled
  <2> QED BY <2>1, OverlayNothing DEF PixelInv
<1> QED BY <1>1, PixelInitInv, PixelNextInv, PTL DEF PixelSpec

=============================================================================
