--------------------------- MODULE ChannelRouter ----------------------------
(***************************************************************************)
(* One connection, one reader, two conversations.  After the channels are  *)
(* joined, run_session (client/src/session.rs) reads MCS messages one at a *)
(* time from three loops of ChannelRouter: recv_io while the connection is *)
(* being finalized, open_dvc_channel until the graphics channel is there,  *)
(* recv_dvc_data from then on.  The I/O channel and the dynamic channels   *)
(* arrive interleaved, in every loop.                                      *)
(*                                                                         *)
(* The server is not part of the code: it keeps to the order of the I/O    *)
(* conversation, but asks for dynamic channels whenever it likes.  Its     *)
(* messages are written to wire, the client's to up.                       *)
(***************************************************************************)
EXTENDS Dvc, SequencesExt

CONSTANTS
  Gfx,           \* the name of the graphics channel
  OtherNames,    \* names of other channels the server offers
  Ids,           \* dynamic channel ids
  NoId,          \* stands for no id
  PendingLimit,  \* length of pending_dvc_data that is not purged: 64
  MaxWire,       \* bound on the messages under way to the client
  MaxMessages,   \* bound on the graphics messages sent on one channel
  MaxOffers,     \* bound on the CREATE requests
  MaxStray,      \* bound on the messages for channels that were declined
  MaxNoise       \* bound on the I/O messages outside the fixed order

ASSUME RouterAssumption ==
  /\ NoId \notin Ids
  /\ Gfx \notin OtherNames
  /\ {PendingLimit, MaxWire, MaxMessages, MaxOffers, MaxStray, MaxNoise}
       \subseteq Nat

VARIABLES
  \* the connection
  wire,       \* MCS messages under way to the client
  up,         \* messages under way to the server
  \* the server
  io,         \* how far its I/O conversation is
  rest,       \* the second chunk of a message whose first is on the wire
  channel,    \* what the server knows of each id
  fragment,   \* of each id, the cells still to be sent of a message
  caps,       \* it has sent the dynamic channel capabilities
  stray,      \* messages sent on declined channels
  noise,      \* I/O messages sent outside the fixed order
  \* the client
  pc,         \* which read of run_session it is in
  demux,      \* ChannelDemux
  dvc,        \* DvcManager
  pending,    \* pending_dvc_data
  skipped,    \* io_messages_skipped
  chan,       \* gfx_channel_id
  \* history
  sent,       \* of each id, the messages whose last fragment was sent
  offers,     \* the CREATE requests, in the order they were sent
  answers,    \* the responses to them, in the order they were written
  heeded,     \* I/O messages that recv_io has returned
  ioSent,     \* I/O messages sent
  received    \* the messages recv_dvc_data has returned

connection == <<wire, up>>
ioVars == <<io, noise, ioSent>>
channelVars == <<channel, fragment, caps, stray, sent, offers>>
serverVars == <<ioVars, rest, channelVars>>
routerVars == <<demux, dvc, pending, answers>>
clientVars == <<pc, routerVars, skipped, chan, heeded, received>>
vars == <<connection, serverVars, clientVars>>

Names == OtherNames \cup {Gfx}

(* The reads of the handshake, which are calls of recv_io. *)
Finalizing == {"license", "demand", "finalize"}

-----------------------------------------------------------------------------
(* The server *)

Io(body) == [channel |-> "io", body |-> body]
Chunk(first, last, pieces) ==
  [channel |-> "drdynvc", first |-> first, last |-> last, pieces |-> pieces]
UserChannel == [channel |-> "user"]

Room == Len(wire) < MaxWire

SendIo(body) ==
  /\ Room
  /\ wire' = Append(wire, Io(body))
  /\ ioSent' = ioSent + 1
  /\ UNCHANGED <<up, rest, channelVars, clientVars>>

(* The licensing answer, then Demand Active. *)
NextInOrder ==
  /\ io \in {"license", "demand"}
  /\ \/ SendIo(io)
     \/ io = "license" /\ SendIo("licensing")
  /\ io' = IF io = "license" THEN "demand" ELSE "confirm"
  /\ UNCHANGED noise

(* Finalization, which the client's Confirm Active and Font List unlock.    *)
FontMap ==
  /\ io = "finalize"
  /\ SendIo("fontMap")
  /\ io' = "active"
  /\ UNCHANGED noise

IoNoise ==
  /\ io \in {"finalize", "active"}
  /\ noise < MaxNoise
  /\ \E body \in {"synchronize", "noError", "error"} : SendIo(body)
  /\ noise' = noise + 1
  /\ UNCHANGED io

UserNoise ==
  /\ noise < MaxNoise
  /\ Room
  /\ wire' = Append(wire, UserChannel)
  /\ noise' = noise + 1
  /\ UNCHANGED <<up, io, ioSent, rest, channelVars, clientVars>>

(* A message of the static channel is sent in one chunk, or in two between  *)
(* which nothing else is sent on that channel.                              *)
SendPdu(pdu) ==
  /\ rest = <<>>
  /\ Room
  /\ \/ /\ wire' = Append(wire, Chunk(TRUE, TRUE, PiecesOf(pdu, 1)))
        /\ UNCHANGED rest
     \/ LET pieces == PiecesOf(pdu, 2)
        IN  /\ wire' = Append(wire, Chunk(TRUE, FALSE, <<pieces[1]>>))
            /\ rest' = <<Chunk(FALSE, TRUE, <<pieces[2]>>)>>
  /\ UNCHANGED <<up, ioVars, clientVars>>

SendRest ==
  /\ rest # <<>>
  /\ Room
  /\ wire' = Append(wire, Head(rest))
  /\ rest' = <<>>
  /\ UNCHANGED <<up, ioVars, channelVars, clientVars>>

SendCapabilities ==
  /\ ~ caps
  /\ SendPdu(CapabilityPdu)
  /\ caps' = TRUE
  /\ UNCHANGED <<channel, fragment, stray, sent, offers>>

(* The server need not have negotiated capabilities.  It may offer a name   *)
(* again, and an id again once it is free, but not one on which it has sent *)
(* data in spite of an answer that declined it.                             *)
Offer(id, name) ==
  /\ channel[id] = "free" \/ (channel[id] = "declined" /\ stray = 0)
  /\ Len(offers) < MaxOffers
  /\ SendPdu(CreatePdu(id, name))
  /\ channel' = [channel EXCEPT ![id] = "offered"]
  /\ offers' = Append(offers, [id |-> id, name |-> name])
  /\ UNCHANGED <<fragment, caps, stray, sent>>

(* A message is two cells, sent as one DATA, as one DATA_FIRST that holds   *)
(* all of it, or as a DATA_FIRST and a DATA with one cell each.             *)
SendMessage(id) ==
  LET n == Len(sent[id]) + 1
      cells == <<<<id, n, 1>>, <<id, n, 2>>>>
  IN  /\ channel[id] = "open"
      /\ fragment[id] = <<>>
      /\ n <= MaxMessages
      /\ \/ /\ \/ SendPdu(DataPdu(id, cells))
               \/ SendPdu(DataFirstPdu(id, 2, cells))
            /\ sent' = [sent EXCEPT ![id] = Append(@, cells)]
            /\ UNCHANGED fragment
         \/ /\ SendPdu(DataFirstPdu(id, 2, <<cells[1]>>))
            /\ fragment' = [fragment EXCEPT ![id] = <<cells[2]>>]
            /\ UNCHANGED sent
      /\ UNCHANGED <<channel, caps, stray, offers>>

SendFragment(id) ==
  /\ fragment[id] # <<>>
  /\ SendPdu(DataPdu(id, fragment[id]))
  /\ fragment' = [fragment EXCEPT ![id] = <<>>]
  /\ sent' = [sent EXCEPT ![id] =
                Append(@, <<<<id, Len(@) + 1, 1>>>> \o fragment[id])]
  /\ UNCHANGED <<channel, caps, stray, offers>>

(* Data on a channel the client has declined, whose id never was that of    *)
(* the graphics channel: nothing tells the two apart.                       *)
SendStray(id) ==
  /\ channel[id] = "declined"
  /\ \A k \in DOMAIN answers : answers[k].id = id => ~answers[k].accept
  /\ stray < MaxStray
  /\ SendPdu(DataPdu(id, <<>>))
  /\ stray' = stray + 1
  /\ UNCHANGED <<channel, fragment, caps, sent, offers>>

CloseChannel(id) ==
  /\ channel[id] = "open"
  /\ SendPdu(ClosePdu(id))
  /\ channel' = [channel EXCEPT ![id] = "free"]
  /\ fragment' = [fragment EXCEPT ![id] = <<>>]
  /\ UNCHANGED <<caps, stray, sent, offers>>

(* The server reads what the client has written.  Of the client's messages  *)
(* only the answers to its requests and the Font List move it.              *)
ReadUp ==
  /\ up # <<>>
  /\ up' = Tail(up)
  /\ channel' = IF Head(up).kind = "create"
                THEN [channel EXCEPT ![Head(up).id] =
                        IF Head(up).accept THEN "open" ELSE "declined"]
                ELSE channel
  /\ io' = IF Head(up).kind = "fontList" THEN "finalize" ELSE io
  /\ UNCHANGED <<wire, noise, ioSent, rest, fragment, caps, stray, sent,
                 offers, clientVars>>

ServerNext ==
  \/ NextInOrder \/ FontMap \/ IoNoise \/ UserNoise
  \/ SendRest \/ SendCapabilities
  \/ \E id \in Ids :
       \/ \E name \in Names : Offer(id, name)
       \/ SendMessage(id) \/ SendFragment(id) \/ SendStray(id)
       \/ CloseChannel(id)
  \/ ReadUp

-----------------------------------------------------------------------------
(* The client *)

FontList == [kind |-> "fontList"]
CapsAdvertise == [kind |-> "capsAdvertise"]

(* The calls that read a message, each in its loop.  recv_dvc_data reads    *)
(* only when nothing is queued for its channel.                             *)
Reading ==
  /\ wire # <<>>
  /\ pc \in Finalizing \cup {"open", "graphics"}
  /\ pc = "graphics" => \A k \in DOMAIN pending : pending[k].id # chan

Nth(S, k) == CHOOSE i \in S : Cardinality({j \in S : j <= i}) = k

(* A mutant of Purged: the queue is never cut down. *)
Unpurged == pending

(* The queue as recv_dvc_data leaves it before it reads: too long a queue   *)
(* is cut down to its own messages.                                         *)
Purged ==
  IF pc = "graphics" /\ Len(pending) > PendingLimit
  THEN LET own == {k \in DOMAIN pending : pending[k].id = chan}
       IN  [k \in 1 .. Cardinality(own) |-> pending[Nth(own, k)]]
  ELSE pending

(* A message on the static channel: handle_drdynvc_chunk.  more is written  *)
(* to the server after what the manager writes.                             *)
Reaction ==
  LET fed == Feed(demux, Head(wire))
  IN  IF fed.message = <<>> THEN Quiet(dvc)
      ELSE HandleMessage(dvc, Head(fed.message))

(* A response is the last thing that handling a message writes. *)
Answers(written) == written # <<>> /\ Last(written).kind = "create"

HandleChunk(more) ==
  /\ wire' = Tail(wire)
  /\ demux' = Feed(demux, Head(wire)).buffer
  /\ dvc' = Reaction.dvc
  /\ up' = up \o Reaction.written \o more
  /\ pending' = Purged \o Reaction.data
  /\ answers' = IF Answers(Reaction.written)
                THEN Append(answers, Last(Reaction.written)) ELSE answers
  /\ UNCHANGED <<serverVars, skipped, heeded, received>>

ReadsChunk == Reading /\ Head(wire).channel = "drdynvc"
ReadsIo == Reading /\ Head(wire).channel = "io"

(* In recv_io: what the message opens is not looked at. *)
ChunkWhileFinalizing ==
  /\ pc \in Finalizing
  /\ ReadsChunk
  /\ HandleChunk(<<>>)
  /\ UNCHANGED <<pc, chan>>

(* In open_dvc_channel: the ChannelOpened event of the graphics channel     *)
(* ends the wait, and the capabilities are advertised on it.                *)
ChunkWhileOpening ==
  /\ pc = "open"
  /\ ReadsChunk
  /\ IF \E k \in DOMAIN Reaction.opened : Reaction.opened[k].name = Gfx
     THEN /\ HandleChunk(<<CapsAdvertise>>)
          /\ chan' = Reaction.opened[1].id
          /\ pc' = "graphics"
     ELSE HandleChunk(<<>>) /\ UNCHANGED <<pc, chan>>

ChunkWhileDrawing ==
  /\ pc = "graphics"
  /\ ReadsChunk
  /\ HandleChunk(<<>>)
  /\ UNCHANGED <<pc, chan>>

(* recv_io returns: the handshake takes the message for the one it awaits,  *)
(* and gives up when it is another.                                         *)
ReturnIo(next, reply) ==
  /\ wire' = Tail(wire)
  /\ heeded' = heeded + 1
  /\ pc' = next
  /\ up' = up \o reply
  /\ UNCHANGED <<serverVars, routerVars, skipped, chan, received>>

License ==
  /\ pc = "license"
  /\ ReadsIo
  /\ ReturnIo(IF Head(wire).body = "license" THEN "demand" ELSE "failed", <<>>)

DemandActive ==
  /\ pc = "demand"
  /\ ReadsIo
  /\ IF Head(wire).body = "demand"
     THEN ReturnIo("finalize", <<FontList>>)
     ELSE ReturnIo("failed", <<>>)

(* A mutant of Finalization: what comes between two chunks is dropped. *)
FinalizationOutsideMessage ==
  /\ pc = "finalize"
  /\ ReadsIo
  /\ ReturnIo(IF demux # <<>> THEN "finalize" ELSE
                IF Head(wire).body = "fontMap" THEN "active"
                ELSE IF Head(wire).body = "error" THEN "failed"
                ELSE "finalize", <<>>)

(* The finalization loop ends with the Font Map, fails on an error and      *)
(* passes over everything else.                                             *)
Finalization ==
  /\ pc = "finalize"
  /\ ReadsIo
  /\ ReturnIo(IF Head(wire).body = "fontMap" THEN "active"
              ELSE IF Head(wire).body = "error" THEN "failed"
              ELSE "finalize", <<>>)

(* open_dvc_channel registers the name and looks whether it is open. *)
OpenDvcChannel ==
  /\ pc = "active"
  /\ dvc' = WantChannel(dvc, Gfx)
  /\ IF IsOpen(dvc, Gfx)
     THEN /\ chan' = dvc.open[Gfx]
          /\ up' = Append(up, CapsAdvertise)
          /\ pc' = "graphics"
     ELSE pc' = "open" /\ UNCHANGED <<chan, up>>
  /\ UNCHANGED <<wire, serverVars, demux, pending, answers, skipped, heeded,
                 received>>

(* A mutant of SkipIo: only the graphics loop counts. *)
SkipIoUncounted ==
  /\ pc \notin Finalizing
  /\ ReadsIo
  /\ wire' = Tail(wire)
  /\ pending' = Purged
  /\ skipped' = IF pc = "graphics" THEN skipped + 1 ELSE skipped
  /\ UNCHANGED <<up, serverVars, pc, demux, dvc, answers, chan, heeded,
                 received>>

(* note_skipped_io, in the loops after the handshake. *)
SkipIo ==
  /\ pc \notin Finalizing
  /\ ReadsIo
  /\ wire' = Tail(wire)
  /\ pending' = Purged
  /\ skipped' = skipped + 1
  /\ UNCHANGED <<up, serverVars, pc, demux, dvc, answers, chan, heeded,
                 received>>

(* A message of neither channel is dropped, in every loop. *)
DropUnknown ==
  /\ Reading
  /\ Head(wire).channel = "user"
  /\ wire' = Tail(wire)
  /\ pending' = Purged
  /\ UNCHANGED <<up, serverVars, pc, demux, dvc, answers, skipped, chan,
                 heeded, received>>

(* recv_dvc_data returns the first message queued for its channel. *)
TakePending ==
  /\ pc = "graphics"
  /\ \E k \in DOMAIN pending :
       /\ pending[k].id = chan
       /\ \A j \in 1 .. k - 1 : pending[j].id # chan
       /\ received' = Append(received, pending[k].cells)
       /\ pending' = RemoveAt(pending, k)
  /\ UNCHANGED <<connection, serverVars, pc, demux, dvc, answers, skipped,
                 chan, heeded>>

ClientNext ==
  \/ ChunkWhileFinalizing \/ ChunkWhileOpening \/ ChunkWhileDrawing
  \/ License \/ DemandActive \/ Finalization
  \/ OpenDvcChannel \/ SkipIo \/ DropUnknown \/ TakePending

Init ==
  /\ wire = <<>> /\ up = <<>>
  /\ io = "license" /\ noise = 0 /\ ioSent = 0
  /\ rest = <<>>
  /\ channel = [id \in Ids |-> "free"]
  /\ fragment = [id \in Ids |-> <<>>]
  /\ sent = [id \in Ids |-> <<>>]
  /\ caps = FALSE /\ stray = 0 /\ offers = <<>>
  /\ pc = "license"
  /\ demux = <<>> /\ dvc = NewManager /\ pending = <<>> /\ answers = <<>>
  /\ skipped = 0 /\ chan = NoId /\ heeded = 0 /\ received = <<>>

Next == ServerNext \/ ClientNext

Spec == Init /\ [][Next]_vars

(* The client reads as long as there is something to read, and the server   *)
(* finishes the message it has begun.  Nothing else is promised of it.      *)
FairSpec == Spec /\ WF_vars(ClientNext) /\ WF_vars(SendRest)

-----------------------------------------------------------------------------
(* Properties *)

(* Whatever is interleaved with it and however it is chunked and            *)
(* fragmented, the graphics loop gets the messages of its channel in order, *)
(* each whole and once, and every one in the end: recv_dvc_data on top of   *)
(* handle_drdynvc_chunk, handle_message and feed is a reliable pipe.        *)
Pipe == INSTANCE GraphicsPipe
  WITH Message <- {<<<<id, n, 1>>, <<id, n, 2>>>> : id \in Ids,
                                                    n \in 1 .. MaxMessages},
       sent <- IF chan = NoId THEN <<>> ELSE sent[chan]
GraphicsPiped == Pipe!Spec

(* The k-th response is the one to the k-th request, and it accepts exactly *)
(* the graphics channel, once run_session wants it: handle_message answers  *)
(* in every loop, also while another conversation is being held.            *)
OffersAnswered ==
  [][\A k \in Len(answers) + 1 .. Len(answers') :
       /\ k <= Len(offers)
       /\ answers'[k].id = offers[k].id
       /\ answers'[k].accept <=>
            (offers[k].name = Gfx /\ pc \in {"open", "graphics"})]_vars

(* Every request is answered in the end, unless the session has ended. *)
EveryOfferAnswered ==
  \A k \in 1 .. MaxOffers :
    Len(offers) >= k ~> Len(answers) >= k \/ pc = "failed"

(* The Font Map is not lost among the dynamic-channel messages: once it is  *)
(* sent, the handshake ends.                                                *)
FinalizationEnds == io = "active" ~> pc \notin Finalizing

(* Every message on the I/O channel is returned to the handshake or         *)
(* counted as skipped; the only loop that returns them is recv_io.          *)
IoAccountedFor ==
  ioSent = heeded + skipped
             + Cardinality({k \in DOMAIN wire : wire[k].channel = "io"})

(* When recv_dvc_data has read, at most one message more is queued than the *)
(* purge leaves alone, however many came for channels nobody opened.        *)
PendingBounded ==
  [][pc = "graphics" /\ Len(wire') < Len(wire)
       => Len(pending') <= PendingLimit + 1]_vars

(* What the comment on recv_io says of dynamic-channel traffic that comes   *)
(* between its messages, "processing (and queuing)" it, is not so of the    *)
(* request for the graphics channel: it is declined for good.               *)
GraphicsNotDeclined ==
  \A k \in DOMAIN answers : offers[k].name = Gfx => answers[k].accept
=============================================================================
