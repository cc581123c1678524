---------------------------- MODULE Presentation ----------------------------
(***************************************************************************)
(* From a graphics message to the screen.  Two threads run here: the       *)
(* session thread (the graphics loop of run_session in                     *)
(* client/src/session.rs, calling GfxState) and the user interface thread  *)
(* (client/src/window.rs).  They share the FrameMailbox: a slot for one    *)
(* snapshot, which a later one overwrites, and a closed flag.              *)
(*                                                                         *)
(* A message is as many PDUs as the server chooses, up to MaxPdus; they    *)
(* are chosen as they are applied.  The image on the screen is an image of *)
(* the window's size; the framebuffer starts at that size and grows.       *)
(***************************************************************************)
EXTENDS GfxState

CONSTANTS
  Window,   \* <<width, height>> of the window
  MaxPdus   \* bound on the PDUs of one message

ASSUME PresentationAssumption == MaxPdus \in Nat /\ Window \in Points

VARIABLES
  pc,           \* where the session thread is
  left,         \* PDUs the current message may still hold
  acks,         \* total_frames_decoded of every FRAME_ACKNOWLEDGE sent
  slot,         \* FrameMailbox: a sequence of tiles, empty for None
  closed,       \* FrameMailbox: the closed flag
  ui,           \* "running", "exiting" or "stopped"
  framebuffer,  \* the shadow framebuffer, an image
  redraw,       \* a redraw has been requested
  screen,       \* the image presented last
  \* history
  published,    \* snapshots published so far; the number of the last one
  queued,       \* number of the snapshot in the slot, 0 for None
  drawn,        \* number of the snapshot in the framebuffer
  shown,        \* number of the snapshot on the screen
  failed,       \* presenting failed, and nothing was drawn or shown since
  late          \* messages received since closed was set

sessionVars == <<pc, left, acks>>
mailboxVars == <<slot, closed>>
windowVars == <<framebuffer, redraw, screen>>
historyVars == <<published, queued, drawn, shown, failed, late>>
vars == <<gfxVars, sessionVars, mailboxVars, ui, windowVars, historyVars>>

-----------------------------------------------------------------------------
(* The session thread *)

(* A mutant of CheckClosed: the flag is not read. *)
CheckNothing ==
  /\ pc = "check"
  /\ pc' = "receive"
  /\ UNCHANGED <<gfxVars, left, acks, mailboxVars, ui, windowVars,
                 historyVars>>

(* The loop head: the one place where the closed flag is read. *)
CheckClosed ==
  /\ pc = "check"
  /\ pc' = IF closed THEN "ended" ELSE "receive"
  /\ UNCHANGED <<gfxVars, left, acks, mailboxVars, ui, windowVars,
                 historyVars>>

(* A message arrives, decompresses and splits into PDUs. *)
Receive ==
  /\ pc = "receive"
  /\ pc' = "apply"
  /\ left' = MaxPdus
  /\ late' = IF closed THEN late + 1 ELSE late
  /\ UNCHANGED <<gfxVars, acks, mailboxVars, ui, windowVars,
                 published, queued, drawn, shown, failed>>

(* The connection fails, the message does not decompress or its framing is  *)
(* broken, or an acknowledgement cannot be sent: the session ends.          *)
Fail ==
  /\ pc \in {"receive", "acknowledge"}
  /\ pc' = "ended"
  /\ UNCHANGED <<gfxVars, left, acks, mailboxVars, ui, windowVars,
                 historyVars>>

(* apply_message: PDU after PDU, collecting the actions. *)
ApplyPdu ==
  /\ pc = "apply"
  /\ left > 0
  /\ Apply
  /\ left' = left - 1
  /\ UNCHANGED <<pc, acks, mailboxVars, ui, windowVars, historyVars>>

(* The message is through: its actions are carried out, or the loop starts  *)
(* over when there are none (left).                                         *)
NextAction ==
  /\ pc \in {"apply", "act"}
  /\ pc' = IF actions = <<>> THEN "check" ELSE "acknowledge"
  /\ UNCHANGED <<gfxVars, left, acks, mailboxVars, ui, windowVars,
                 historyVars>>

(* Mutants of Acknowledge: with the total of the whole message, and with    *)
(* the total before the frame.                                              *)
AcknowledgeTotal ==
  /\ pc = "acknowledge"
  /\ acks' = Append(acks, frames_decoded)
  /\ pc' = "present"
  /\ UNCHANGED <<gfxVars, left, mailboxVars, ui, windowVars, historyVars>>

AcknowledgePrevious ==
  /\ pc = "acknowledge"
  /\ acks' = Append(acks, Head(actions) - 1)
  /\ pc' = "present"
  /\ UNCHANGED <<gfxVars, left, mailboxVars, ui, windowVars, historyVars>>

(* GfxAction::EndFrame: first the frame is acknowledged ... *)
Acknowledge ==
  /\ pc = "acknowledge"
  /\ acks' = Append(acks, Head(actions))
  /\ pc' = "present"
  /\ UNCHANGED <<gfxVars, left, mailboxVars, ui, windowVars, historyVars>>

(* A mutant of Publish: a full slot keeps its snapshot, as sync_channel(1)  *)
(* with try_send did.                                                       *)
PublishIfEmpty(tiles) ==
  /\ slot' = IF slot = <<>> THEN tiles ELSE slot
  /\ queued' = IF slot = <<>> THEN published + 1 ELSE queued
  /\ published' = published + 1

(* FrameMailbox::publish *)
Publish(tiles) ==
  /\ slot' = tiles
  /\ queued' = published + 1
  /\ published' = published + 1

(* ... then the surfaces, as they are now, are published. *)
Present ==
  /\ pc = "present"
  /\ actions' = Tail(actions)
  /\ pc' = "act"
  /\ IF PresentTiles # <<>>
     THEN Publish(PresentTiles)
     ELSE UNCHANGED <<slot, queued, published>>
  /\ UNCHANGED <<surfaces, cache, output_map, desktop, tile_baseline,
                 frames_decoded, saw_content, reported, skipped, left, acks,
                 closed, ui, windowVars, drawn, shown, failed, late>>

-----------------------------------------------------------------------------
(* The user interface thread *)

(* A mutant of Grow: the pixels are resized like a vector, and the rows     *)
(* shift.                                                                   *)
GrowFlat(fb, w, h) ==
  IF w <= fb.width /\ h <= fb.height
  THEN fb
  ELSE [NewSurface(Larger(w, fb.width), Larger(h, fb.height)) EXCEPT
          !.pixels = [i \in DOMAIN @ |->
                        IF i \in DOMAIN fb.pixels THEN fb.pixels[i] ELSE @[i]]]

(* ensure_framebuffer: the old content stays at its coordinates. *)
Grow(fb, w, h) ==
  IF w <= fb.width /\ h <= fb.height
  THEN fb
  ELSE BlitRect(NewSurface(Larger(w, fb.width), Larger(h, fb.height)),
                0, 0, fb)

(* blit_bgrx *)
BlitTile(fb, t) ==
  BlitRect(Grow(fb, t.origin[1] + t.image.width, t.origin[2] + t.image.height),
           t.origin[1], t.origin[2], t.image)

BlitTiles(fb, tiles) ==
  Loop(LAMBDA i, k : BlitTile(i, tiles[k]), fb, Len(tiles))

(* A mutant of Poll: the event loop sleeps until a redraw is due.           *)
PollOnRedraw ==
  /\ ui = "running"
  /\ redraw
  /\ slot # <<>>
  /\ framebuffer' = BlitTiles(framebuffer, slot)
  /\ redraw' = TRUE
  /\ drawn' = queued
  /\ slot' = <<>>
  /\ queued' = 0
  /\ failed' = FALSE
  /\ UNCHANGED <<gfxVars, sessionVars, closed, ui, screen, published, shown,
                 late>>

(* about_to_wait: take the newest snapshot and blit every tile of it. *)
Poll ==
  /\ ui = "running"
  /\ slot # <<>>
  /\ framebuffer' = BlitTiles(framebuffer, slot)
  /\ redraw' = TRUE
  /\ drawn' = queued
  /\ slot' = <<>>
  /\ queued' = 0
  /\ failed' = FALSE
  /\ UNCHANGED <<gfxVars, sessionVars, closed, ui, screen, published, shown,
                 late>>

(* RedrawRequested, whether blit_bgrx asked for it or the window system     *)
(* wants the window repainted: the whole framebuffer is copied out.         *)
Redraw ==
  /\ ui = "running"
  /\ redraw' = FALSE
  /\ screen' = ExtractRect(framebuffer, 0, 0, Window[1], Window[2])
  /\ shown' = drawn
  /\ failed' = FALSE
  /\ UNCHANGED <<gfxVars, sessionVars, mailboxVars, ui, framebuffer,
                 published, queued, drawn, late>>

(* present failed: the error is logged and the request is gone. *)
RedrawFailed ==
  /\ ui = "running"
  /\ redraw
  /\ redraw' = FALSE
  /\ failed' = TRUE
  /\ UNCHANGED <<gfxVars, sessionVars, mailboxVars, ui, framebuffer, screen,
                 published, queued, drawn, shown, late>>

(* CloseRequested ends the event loop; run then shuts the driver down. *)
CloseRequested ==
  /\ ui = "running"
  /\ ui' = "exiting"
  /\ UNCHANGED <<gfxVars, sessionVars, mailboxVars, windowVars, historyVars>>

Shutdown ==
  /\ ui = "exiting"
  /\ ui' = "stopped"
  /\ closed' = TRUE
  /\ UNCHANGED <<gfxVars, sessionVars, slot, windowVars, historyVars>>

(* main returns, and the session thread ends with the process. *)
Exit ==
  /\ ui = "stopped"
  /\ pc # "ended"
  /\ pc' = "ended"
  /\ UNCHANGED <<gfxVars, left, acks, mailboxVars, ui, windowVars,
                 historyVars>>

-----------------------------------------------------------------------------
PresentationInit ==
  /\ Init
  /\ pc = "check" /\ left = 0 /\ acks = <<>>
  /\ slot = <<>> /\ closed = FALSE
  /\ ui = "running"
  /\ framebuffer = NewSurface(Window[1], Window[2])
  /\ redraw = FALSE
  /\ screen = NewSurface(Window[1], Window[2])
  /\ published = 0 /\ queued = 0 /\ drawn = 0 /\ shown = 0
  /\ failed = FALSE /\ late = 0

SessionNext ==
  \/ CheckClosed \/ Receive \/ Fail \/ ApplyPdu
  \/ NextAction \/ Acknowledge \/ Present

WindowNext ==
  Poll \/ Redraw \/ RedrawFailed \/ CloseRequested \/ Shutdown

PresentationNext == SessionNext \/ WindowNext \/ Exit

PresentationSafe == PresentationInit /\ [][PresentationNext]_vars

(* winit wakes the event loop every 16 ms and delivers the redraws that     *)
(* were requested.  The server owes nothing: no session step is fair.       *)
PresentationSpec ==
  PresentationSafe /\ WF_vars(Poll) /\ WF_vars(redraw /\ Redraw)

-----------------------------------------------------------------------------
(* Type invariant. *)
PresentationTypeOK ==
  /\ TypeOK
  /\ pc \in {"check", "receive", "apply", "acknowledge", "present", "act",
             "ended"}
  /\ left \in 0 .. MaxPdus
  /\ acks \in Seq(1 .. MaxFrames)
  /\ ui \in {"running", "exiting", "stopped"}
  /\ {closed, redraw, failed} \subseteq BOOLEAN
  /\ IsImage(framebuffer) /\ IsImage(screen)
  /\ {published, queued, drawn, shown, late} \subseteq Nat

(* The END_FRAMEs of the current message that wait for their                *)
(* acknowledgement.                                                         *)
Waiting == IF pc = "present" THEN Tail(actions) ELSE actions

(* Whatever the order of messages and failures, the server sees every       *)
(* END_FRAME acknowledged exactly once and in order, with the number of     *)
(* frames decoded up to that very frame, although a message is applied as a *)
(* whole before the first of its frames is acknowledged (session.rs:478-486,*)
(* gfxstate.rs:251-258).                                                    *)
AcknowledgedInOrder ==
  /\ acks = [k \in 1 .. Len(acks) |-> k]
  /\ pc # "ended" =>
       acks \o Waiting = [k \in 1 .. frames_decoded |-> k]

(* The mailbox is latest-wins (window.rs:10-22): an unconsumed snapshot is  *)
(* the newest one, an empty slot means the newest one is drawn, and unless  *)
(* a redraw is owed or the last one failed, what is drawn is on the screen. *)
LatestWins ==
  /\ slot # <<>> => queued = published /\ drawn < published
  /\ slot = <<>> => queued = 0 /\ drawn = published
  /\ shown <= drawn
  /\ shown = drawn \/ redraw \/ failed

(* "So the session can stop decoding rather than continue burning CPU on    *)
(* frames nobody will ever see" (window.rs:209-211): once the window is     *)
(* gone, at most one more message is received.                              *)
StopsAfterClose == late <= 1

(* Frames reach the screen as FrameRelay promises, liveness included, for   *)
(* as long as the window is there and presenting does not fail.             *)
Relay == INSTANCE FrameRelay WITH
           newest <- published, shown <- shown, broken <- failed,
           open <- (ui = "running")
RelaySafe == Relay!Safe
RelaySpec == Relay!Spec

=============================================================================
