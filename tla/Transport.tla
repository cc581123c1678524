----------------------------- MODULE Transport ------------------------------
(***************************************************************************)
(* The byte stream of a connection, from the first read of the handshake   *)
(* on (run_session in client/src/session.rs).  It carries JSON objects     *)
(* without a length first (read_json_pdu in client/src/rds_aad.rs), then   *)
(* TPKT packets (read_tpkt_x224 in client/src/mcs.rs); each reader leaves  *)
(* what follows its message to the next.  Bytes arrive in pieces, and a    *)
(* read that finds none for a while times out: DuplexStream                *)
(* (client/src/input.rs) then sends the user's input and reads again.      *)
(*                                                                         *)
(* A byte is a string of one character.                                    *)
(***************************************************************************)
EXTENDS Naturals, SequencesExt, FiniteSetsExt

CONSTANTS
  Objects,      \* the JSON objects the server may send, as bytes
  Bodies,       \* the TPKT bodies it may send, as bytes
  Padding,      \* what may follow a JSON object: NUL bytes, or nothing
  MaxInput,     \* bound on the input events
  MaxActive     \* bound on the packets sent once the handshake is over

VARIABLES
  network,      \* bytes under way to the client
  outstanding,  \* messages the server has sent and the client not yet read
  served,       \* answers of the handshake the server has given
  active,       \* packets sent after the handshake
  step,         \* position of the client in the handshake
  failed,       \* the session has ended with an error
  got,          \* bytes of the message being read
  json,         \* read_json_pdu: depth, in_string and escaped
  last,         \* the message read last
  uplink,       \* everything the client has written
  inputs,       \* input_rx: events not yet taken
  typed         \* number of events so far

serverVars == <<served, active>>
readVars == <<got, json>>
vars == <<network, outstanding, serverVars, step, failed, readVars, last,
          uplink, inputs, typed>>

-----------------------------------------------------------------------------
(* The server's JSON.  A byte is hidden when a backslash that is not hidden *)
(* itself comes before it; the quotes that are not hidden begin and end the *)
(* strings, and only braces outside of them count.                          *)

Hides(object, hidden) ==
  \A n \in 1 .. Len(object) + 1 :
    n \in hidden <=> n > 1 /\ object[n - 1] = "\\" /\ n - 1 \notin hidden

Quotes(object, hidden, n) ==
  {k \in 1 .. n : object[k] = "\"" /\ k \notin hidden}

Inside(object, hidden, n) == Cardinality(Quotes(object, hidden, n - 1)) % 2 = 1

Braces(object, hidden, byte, n) ==
  {k \in 1 .. n : object[k] = byte /\ ~ Inside(object, hidden, k)}

(* Its braces open with the first byte and close with the last.             *)
Closes(object, hidden) ==
  /\ Hides(object, hidden)
  /\ \A n \in 1 .. Len(object) :
       LET opened == Cardinality(Braces(object, hidden, "{", n))
           closed == Cardinality(Braces(object, hidden, "}", n))
       IN  /\ object[n] = "\\" => Inside(object, hidden, n)
           /\ closed <= opened
           /\ opened = closed <=> n = Len(object)

Balanced(object) ==
  /\ object # <<>>
  /\ object[1] = "{"
  /\ \E hidden \in SUBSET (1 .. Len(object) + 1) : Closes(object, hidden)

(* The server frames its messages well: an object is balanced, a body has   *)
(* an X.224 header and fits into the lengths below, a padding is NULs.      *)
ASSUME TransportAssumption ==
  /\ \A s \in Objects : s \in Seq(STRING) /\ Balanced(s)
  /\ \A s \in Bodies : s \in Seq(STRING) /\ s[1] = "h" /\ 1 <= Len(s) /\ Len(s) <= 5
  /\ \A s \in Padding : s \in Seq({"0"})
  /\ {MaxInput, MaxActive} \subseteq Nat

-----------------------------------------------------------------------------
(* How read_json_pdu counts the braces. *)

JsonStart == [depth |-> 0, in_string |-> FALSE, escaped |-> FALSE]

(* A mutant of After: braces count in strings too. *)
AfterAnywhere(state, byte) ==
  [state EXCEPT !.depth = CASE byte = "{" -> @ + 1
                            [] byte = "}" -> @ - 1
                            [] OTHER      -> @]

(* How a byte of the object moves the brace count: nothing in a string      *)
(* counts, and a backslash hides the quote that would end it.               *)
After(state, byte) ==
  IF state.in_string
  THEN [depth     |-> state.depth,
        in_string |-> state.escaped \/ byte # "\"",
        escaped   |-> ~ state.escaped /\ byte = "\\"]
  ELSE [depth     |-> IF byte = "{" THEN state.depth + 1
                      ELSE IF byte = "}" THEN state.depth - 1
                      ELSE state.depth,
        in_string |-> byte = "\"",
        escaped   |-> state.escaped]

-----------------------------------------------------------------------------
(* The handshake: what is written before each read, and what the read is.   *)
(* The finalization loop reads until the Font Map, which comes after three  *)
(* messages it passes over.                                                 *)

Asks(send, expect) == [send |-> send, expect |-> expect]

Script == <<
  Asks(<<>>,                                      "json"),  \* Server Nonce
  Asks(<<"authenticationRequest">>,               "json"),
  Asks(<<"connectInitial">>,                      "tpkt"),
  Asks(<<"erectDomain", "attachUser">>,           "tpkt"),
  Asks(<<"joinUser">>,                            "tpkt"),
  Asks(<<"joinIo">>,                              "tpkt"),
  Asks(<<"joinDrdynvc">>,                         "tpkt"),
  Asks(<<"clientInfo">>,                          "tpkt"),  \* License
  Asks(<<>>,                                      "tpkt"),  \* Demand Active
  Asks(<<"confirmActive", "synchronize", "cooperate", "requestControl",
         "fontList">>,                            "tpkt"),  \* Synchronize
  Asks(<<>>,                                      "tpkt"),  \* Cooperate
  Asks(<<>>,                                      "tpkt"),  \* Granted Control
  Asks(<<>>,                                      "tpkt"),  \* Font Map
  Asks(<<"mouseBurst">>,                          "tpkt") >>

Active == Len(Script)

Message(kind) == [kind |-> kind, event |-> 0]
Input(n) == [kind |-> "input", event |-> n]

Messages(kinds) == [k \in DOMAIN kinds |-> Message(kinds[k])]

-----------------------------------------------------------------------------
(* The server *)

Digits == <<"1", "2", "3", "4", "5", "6", "7", "8", "9">>

(* A TPKT header: version, a reserved byte, the length of the whole. *)
Packet(body) == <<"v", "0", "0", Digits[Len(body) + 4]>> \o body

Write(message, padding) ==
  /\ network' = network \o message \o padding
  /\ outstanding' = Append(outstanding, message)
  /\ UNCHANGED <<step, failed, readVars, last, uplink, inputs, typed>>

Asked(n) ==
  \A k \in DOMAIN Script[n].send :
    Message(Script[n].send[k]) \in Range(uplink)

Reply ==
  /\ served < Active - 1
  /\ Asked(served + 1)
  /\ IF Script[served + 1].expect = "json"
     THEN \E object \in Objects, padding \in Padding : Write(object, padding)
     ELSE \E body \in Bodies : Write(Packet(body), <<>>)
  /\ served' = served + 1
  /\ UNCHANGED active

Send ==
  /\ served = Active - 1
  /\ active < MaxActive
  /\ \E body \in Bodies : Write(Packet(body), <<>>)
  /\ active' = active + 1
  /\ UNCHANGED served

-----------------------------------------------------------------------------
(* The client *)

(* A mutant of Complete: the state of the braces is not started anew. *)
CompleteKeepingState(message) ==
  /\ last' = message
  /\ outstanding' = Tail(outstanding)
  /\ got' = <<>>
  /\ json' = json
  /\ step' = IF step < Active THEN step + 1 ELSE step
  /\ uplink' = IF step < Active
               THEN uplink \o Messages(Script[step + 1].send) ELSE uplink
  /\ UNCHANGED failed

(* A message has been read.  Either the handshake goes on, writing what     *)
(* comes before the next read, or the message is a refusal.                 *)
Complete(message) ==
  /\ last' = message
  /\ outstanding' = Tail(outstanding)
  /\ got' = <<>>
  /\ json' = JsonStart
  /\ \/ /\ step < Active
        /\ step' = step + 1
        /\ uplink' = uplink \o Messages(Script[step + 1].send)
        /\ UNCHANGED failed
     \/ step = Active /\ UNCHANGED <<step, uplink, failed>>
     \/ failed' = TRUE /\ UNCHANGED <<step, uplink>>

Continue(bytes, state) ==
  /\ got' = bytes
  /\ json' = state
  /\ UNCHANGED <<outstanding, step, failed, last, uplink>>

Fail ==
  /\ failed' = TRUE
  /\ UNCHANGED <<outstanding, step, readVars, last, uplink>>

Filler == {"0", " "}

(* A mutant of ReadJsonByte: the filler after the object is consumed too. *)
ReadJsonByteAndFiller(byte) ==
  LET state == After(json, byte)
  IN  CASE got = <<>> /\ byte \in Filler -> Continue(<<>>, json)
        [] got # <<>> /\ json.depth = 0 -> Complete(got)
        [] OTHER -> Continue(Append(got, byte), state)

(* read_json_pdu: one byte at a time, filler only before the object. *)
ReadJsonByte(byte) ==
  LET state == After(json, byte)
  IN  CASE got = <<>> /\ byte \in Filler -> Continue(<<>>, json)
        [] got = <<>> /\ byte \notin Filler \cup {"{"} -> Fail
        [] OTHER -> IF state.depth = 0
                    THEN Complete(Append(got, byte))
                    ELSE Continue(Append(got, byte), state)

ReadJson ==
  /\ Script[step].expect = "json"
  /\ network # <<>>
  /\ ReadJsonByte(Head(network))
  /\ network' = Tail(network)

(* read_tpkt_x224: the length of the packet whose header is there. *)
TotalLen(header) == CHOOSE n \in DOMAIN Digits : Digits[n] = header[4]

(* What read_exact still asks for: the version byte alone, then the rest of *)
(* the header, then the body.                                               *)
Wanted ==
  IF got = <<>> THEN 1
  ELSE IF Len(got) < 4 THEN 4 - Len(got) ELSE TotalLen(got) - Len(got)

(* A mutant of ReadTpkt: the NUL behind a JSON object is not skipped. *)
ReadTpktUnpadded ==
  /\ Script[step].expect = "tpkt"
  /\ \E n \in 1 .. Min({Wanted, Len(network)}) :
       LET bytes == got \o SubSeq(network, 1, n)
       IN  /\ network' = SubSeq(network, n + 1, Len(network))
           /\ CASE Len(bytes) = 4 /\ bytes[1] # "v" -> Fail
                [] Len(bytes) > 4 /\ Len(bytes) = TotalLen(bytes) ->
                     IF bytes[5] = "h" THEN Complete(bytes) ELSE Fail
                [] OTHER -> Continue(bytes, json)

(* The bytes that have come may be fewer than are wanted. *)
ReadTpkt ==
  /\ Script[step].expect = "tpkt"
  /\ \E n \in 1 .. Min({Wanted, Len(network)}) :
       LET bytes == got \o SubSeq(network, 1, n)
       IN  /\ network' = SubSeq(network, n + 1, Len(network))
           /\ CASE bytes = <<"0">> -> Continue(<<>>, json)
                [] Len(bytes) = 4 /\ bytes[1] # "v" -> Fail
                [] Len(bytes) > 4 /\ Len(bytes) = TotalLen(bytes) ->
                     IF bytes[5] = "h" THEN Complete(bytes) ELSE Fail
                [] OTHER -> Continue(bytes, json)

Read ==
  /\ ~ failed
  /\ ReadJson \/ ReadTpkt
  /\ UNCHANGED <<serverVars, inputs, typed>>

(* Mutants of Timeout: one event is sent and the others are dropped; input  *)
(* is sent in batches of two.                                               *)
TimeoutFirst ==
  /\ ~ failed
  /\ inputs # <<>>
  /\ uplink' = Append(uplink, Input(inputs[1]))
  /\ inputs' = <<>>
  /\ UNCHANGED <<network, outstanding, serverVars, step, failed, readVars,
                 last, typed>>

TimeoutBatch ==
  /\ ~ failed
  /\ Len(inputs) > 1
  /\ uplink' = uplink \o [k \in 1 .. 2 |-> Input(inputs[k])]
  /\ inputs' = SubSeq(inputs, 3, Len(inputs))
  /\ UNCHANGED <<network, outstanding, serverVars, step, failed, readVars,
                 last, typed>>

(* The read times out: flush_pending_input takes all there is.  The bytes   *)
(* under way may just be late.                                              *)
Timeout ==
  /\ ~ failed
  /\ inputs # <<>>
  /\ uplink' = uplink \o [k \in DOMAIN inputs |-> Input(inputs[k])]
  /\ inputs' = <<>>
  /\ UNCHANGED <<network, outstanding, serverVars, step, failed, readVars,
                 last, typed>>

(* The window's thread. *)
Type ==
  /\ typed < MaxInput
  /\ typed' = typed + 1
  /\ inputs' = Append(inputs, typed + 1)
  /\ UNCHANGED <<network, outstanding, serverVars, step, failed, readVars,
                 last, uplink>>

Init ==
  /\ network = <<>> /\ outstanding = <<>>
  /\ served = 0 /\ active = 0
  /\ step = 1 /\ failed = FALSE
  /\ got = <<>> /\ json = JsonStart /\ last = <<>>
  /\ uplink = <<>> /\ inputs = <<>> /\ typed = 0

Next == Reply \/ Send \/ Read \/ Timeout \/ Type

Spec == Init /\ [][Next]_vars

(* A read that finds nothing for READ_TIMEOUT returns; while bytes keep     *)
(* coming none may ever time out, so that only a quiet server is counted    *)
(* on.  The server answers what it is asked.                                *)
FairSpec ==
  /\ Spec
  /\ WF_vars(Read)
  /\ WF_vars(network = <<>> /\ Timeout)
  /\ WF_vars(Reply)

-----------------------------------------------------------------------------
(* Properties *)

(* The types of the client's state. *)
TransportTypeOK ==
  /\ step \in 1 .. Active
  /\ failed \in BOOLEAN
  /\ json \in [depth : Nat, in_string : BOOLEAN, escaped : BOOLEAN]
  /\ Script[step].expect = "tpkt" \/ got = <<>> => json = JsonStart
  /\ \A k \in DOMAIN uplink : uplink[k].kind = "input" <=> uplink[k].event > 0

(* What a reader hands over is a whole message, the next one the server     *)
(* sent: whatever pieces its bytes come in, wherever reads time out and     *)
(* whatever filler is left behind, neither reader stops short, takes bytes  *)
(* of the next message or mistakes a brace in a string.                     *)
ReadsWhatWasSent ==
  [][Len(outstanding') < Len(outstanding) => last' = Head(outstanding)]_vars

(* A well-framed message never ends the session on its framing. *)
FramingHolds ==
  [][failed' # failed => Len(outstanding') < Len(outstanding)]_vars

(* Input goes out in the order of the events, none twice and none dropped,  *)
(* although any read of the session may be the one that sends it: the k-th  *)
(* event written is the k-th there was, and the queue holds the rest.       *)
InputInOrder ==
  LET written == {k \in DOMAIN uplink : uplink[k].kind = "input"}
  IN  /\ \A k \in written :
           uplink[k].event = Cardinality({j \in written : j <= k})
      /\ inputs = [n \in 1 .. Len(inputs) |-> Cardinality(written) + n]
      /\ typed = Cardinality(written) + Len(inputs)

(* No read of the handshake waits for bytes that only come when something   *)
(* else is written: the handshake ends.                                     *)
HandshakeEnds == <>(failed \/ step = Active)

(* Every event is sent once the server is quiet, unless the session fails.  *)
InputSent ==
  \A n \in 1 .. MaxInput : typed >= n ~> failed \/ Input(n) \in Range(uplink)
=============================================================================
