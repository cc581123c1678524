-------------------------------- MODULE Dvc ---------------------------------
(***************************************************************************)
(* The two layers under a dynamic channel: ChannelDemux, which puts the    *)
(* chunks of one static-channel message together again                     *)
(* (client/src/vchannel.rs), and DvcManager, which answers the server's    *)
(* channel requests and puts the fragments of one dynamic-channel message  *)
(* together (client/src/dvc.rs).  Both are driven by one message at a time *)
(* and keep no thread of their own, so they are operators here: what a     *)
(* message makes of the manager, what is written back, what it yields.     *)
(*                                                                         *)
(* A DVC PDU is a record; the bytes of a static-channel message are the    *)
(* pieces <<pdu, i, n>> of the PDU it carries, a chunk some of them.       *)
(***************************************************************************)
EXTENDS Naturals, Sequences, Functions

(* HashMap::insert and HashMap::remove. *)
Put(f, k, v) == [x \in DOMAIN f \cup {k} |-> IF x = k THEN v ELSE f[x]]
Without(f, k) == [x \in DOMAIN f \ {k} |-> f[x]]

(* What the server asks and the client answers. *)
CapabilityPdu == [cmd |-> "capability"]
CreatePdu(id, name) == [cmd |-> "create", id |-> id, name |-> name]
DataPdu(id, chunk) == [cmd |-> "data", id |-> id, chunk |-> chunk]
DataFirstPdu(id, total, chunk) ==
  [cmd |-> "first", id |-> id, total |-> total, chunk |-> chunk]
ClosePdu(id) == [cmd |-> "close", id |-> id]
CapabilityResponse == [kind |-> "capability"]
CreateResponse(id, accept) == [kind |-> "create", id |-> id, accept |-> accept]

-----------------------------------------------------------------------------
(* ChannelDemux *)

PiecesOf(pdu, n) == [i \in 1 .. n |-> <<pdu, i, n>>]

(* The PDU that a reassembled message reads as.  Pieces that are not one    *)
(* whole PDU read as a command nobody knows.                                *)
Parsed(pieces) ==
  IF pieces = PiecesOf(pieces[1][1], pieces[1][3])
  THEN pieces[1][1]
  ELSE [cmd |-> "unknown"]

(* A mutant of Feed: the buffer outlives its message, FIRST is not read. *)
FeedUncleared(buffer, chunk) ==
  LET joined == buffer \o chunk.pieces
  IN  IF chunk.last
      THEN [buffer |-> joined, message |-> <<Parsed(joined)>>]
      ELSE [buffer |-> joined, message |-> <<>>]

(* A chunk that is FIRST starts the buffer anew, one that is LAST empties   *)
(* it and yields the message; message is empty for None.                    *)
Feed(buffer, chunk) ==
  LET joined == (IF chunk.first THEN <<>> ELSE buffer) \o chunk.pieces
  IN  IF chunk.last
      THEN [buffer |-> <<>>, message |-> <<Parsed(joined)>>]
      ELSE [buffer |-> joined, message |-> <<>>]

-----------------------------------------------------------------------------
(* DvcManager.  open maps names to ids, partial maps the ids of channels    *)
(* with a message under way to its length and what has arrived of it.       *)

Manager(caps_negotiated, wanted, open, partial) ==
  [caps_negotiated |-> caps_negotiated, wanted |-> wanted,
   open |-> open, partial |-> partial]

NewManager == Manager(FALSE, {}, <<>>, <<>>)

WantChannel(dvc, name) ==
  Manager(dvc.caps_negotiated, dvc.wanted \cup {name}, dvc.open, dvc.partial)

IsOpen(dvc, name) == name \in DOMAIN dvc.open

WithOpen(dvc, open) ==
  Manager(dvc.caps_negotiated, dvc.wanted, open, dvc.partial)
WithPartial(dvc, partial) ==
  Manager(dvc.caps_negotiated, dvc.wanted, dvc.open, partial)

(* What handling a message comes to: the manager after it, the PDUs written *)
(* to the server, the Data events and the ChannelOpened events.             *)
Outcome(dvc, written, data, opened) ==
  [dvc |-> dvc, written |-> written, data |-> data, opened |-> opened]

Quiet(dvc) == Outcome(dvc, <<>>, <<>>, <<>>)

Yield(dvc, id, cells) ==
  Outcome(dvc, <<>>, <<[id |-> id, cells |-> cells]>>, <<>>)

Negotiated(dvc) == Manager(TRUE, dvc.wanted, dvc.open, dvc.partial)

Capability(dvc) ==
  Outcome(Negotiated(dvc), <<CapabilityResponse>>, <<>>, <<>>)

(* A request that comes before the capabilities is preceded by the answer   *)
(* to them.                                                                 *)
Answer(dvc, m, accept) ==
  LET response == CreateResponse(m.id, accept)
      written == IF dvc.caps_negotiated THEN <<response>>
                 ELSE <<CapabilityResponse, response>>
      opened == Put(dvc.open, m.name, m.id)
  IN  IF accept
      THEN Outcome(WithOpen(Negotiated(dvc), opened), written, <<>>,
                   <<[name |-> m.name, id |-> m.id]>>)
      ELSE Outcome(Negotiated(dvc), written, <<>>, <<>>)

(* Mutants of Create: a request for a channel that is open already is       *)
(* passed over, or declined.                                                *)
CreateOrIgnore(dvc, m) ==
  IF IsOpen(dvc, m.name) THEN Quiet(dvc) ELSE Answer(dvc, m, m.name \in dvc.wanted)

CreateOnce(dvc, m) ==
  Answer(dvc, m, m.name \in dvc.wanted /\ ~ IsOpen(dvc, m.name))

Create(dvc, m) == Answer(dvc, m, m.name \in dvc.wanted)

DataFirst(dvc, m) ==
  IF Len(m.chunk) >= m.total
  THEN Yield(dvc, m.id, SubSeq(m.chunk, 1, m.total))
  ELSE Quiet(WithPartial(dvc, Put(dvc.partial, m.id,
                                  [total |-> m.total, cells |-> m.chunk])))

Data(dvc, m) ==
  IF m.id \notin DOMAIN dvc.partial
  THEN Yield(dvc, m.id, m.chunk)
  ELSE LET total == dvc.partial[m.id].total
           cells == dvc.partial[m.id].cells \o m.chunk
       IN  IF Len(cells) >= total
           THEN Yield(WithPartial(dvc, Without(dvc.partial, m.id)),
                      m.id, cells)
           ELSE Quiet(WithPartial(dvc, Put(dvc.partial, m.id,
                                       [total |-> total, cells |-> cells])))

(* The channels that stay open when the one with this id is closed. *)
OpenBut(dvc, id) ==
  Restrict(dvc.open, {name \in DOMAIN dvc.open : dvc.open[name] # id})

(* A mutant of Close: the message under way is not given up. *)
CloseKeepingPartial(dvc, m) == Quiet(WithOpen(dvc, OpenBut(dvc, m.id)))

Close(dvc, m) ==
  Quiet(WithPartial(WithOpen(dvc, OpenBut(dvc, m.id)),
                    Without(dvc.partial, m.id)))

HandleMessage(dvc, m) ==
  IF m.cmd = "capability"  THEN Capability(dvc)
  ELSE IF m.cmd = "create" THEN Create(dvc, m)
  ELSE IF m.cmd = "data"   THEN Data(dvc, m)
  ELSE IF m.cmd = "first"  THEN DataFirst(dvc, m)
  ELSE IF m.cmd = "close"  THEN Close(dvc, m)
  ELSE Quiet(dvc)
=============================================================================
