-------------------------------- MODULE Zgfx --------------------------------
(***************************************************************************)
(* The ZGFX decompressor (client/src/zgfx.rs): a ring buffer of the last   *)
(* HistorySize bytes that outlives messages and segments, and the decoding *)
(* of a message token by token into an output buffer of its own.  The bits *)
(* of a token are abstracted to what it asks for: a byte, a match or an    *)
(* error.  A segment that is not compressed and an unencoded run are       *)
(* series of literal bytes.  Each byte written is a step.                  *)
(***************************************************************************)
EXTENDS Integers, Sequences

CONSTANTS
  Bytes,         \* the bytes
  Zero,          \* the byte a fresh history is filled with
  HistorySize,   \* HISTORY_SIZE
  Distances,     \* match distances the stream encodes
  Counts,        \* match lengths the stream encodes
  MaxText        \* bound on the bytes written

ASSUME ZgfxAssumption ==
  /\ Zero \in Bytes
  /\ HistorySize \in Nat \ {0}
  /\ Distances \subseteq Nat
  /\ Counts \subseteq Nat \ {0}
  /\ MaxText \in Nat

VARIABLES
  pc,         \* "idle", "token", "copy" or "failed"
  history,    \* the ring buffer
  index,      \* bytes written since the connection began
  out,        \* output of the current message
  distance,   \* copy_match: its distance argument
  left,       \* copy_match: iterations left
  \* history variables
  delivered,  \* all output returned so far
  copied      \* iterations of copy_match done

zgfxVars == <<pc, history, index, out, distance, left, delivered, copied>>

-----------------------------------------------------------------------------
(* decompress is called with the next message. *)
Begin ==
  /\ pc = "idle"
  /\ pc' = "token"
  /\ out' = <<>>
  /\ UNCHANGED <<history, index, distance, left, delivered, copied>>

(* A mutant of WriteByte: one cell too far. *)
WriteByteNext(b) ==
  /\ index < MaxText
  /\ history' = [history EXCEPT ![(index + 1) % HistorySize] = b]
  /\ index' = index + 1
  /\ out' = Append(out, b)

WriteByte(b) ==
  /\ index < MaxText
  /\ history' = [history EXCEPT ![index % HistorySize] = b]
  /\ index' = index + 1
  /\ out' = Append(out, b)

(* A literal token, a byte of an unencoded run or of a plain segment. *)
Literal(b) ==
  /\ pc = "token"
  /\ WriteByte(b)
  /\ UNCHANGED <<pc, distance, left, delivered, copied>>

(* A mutant of Match: the text so far is not checked. *)
MatchAnything(d, count) ==
  /\ pc = "token"
  /\ d # 0
  /\ IF d > HistorySize
     THEN pc' = "failed" /\ UNCHANGED <<distance, left, copied>>
     ELSE pc' = "copy" /\ distance' = d /\ left' = count /\ copied' = 0
  /\ UNCHANGED <<history, index, out, delivered>>

(* A match token of distance d: copy_match checks what it can reach.  The   *)
(* distance 0 is not a match but introduces an unencoded run.               *)
Match(d, count) ==
  /\ pc = "token"
  /\ d # 0
  /\ IF d > HistorySize \/ d > index
     THEN pc' = "failed" /\ UNCHANGED <<distance, left, copied>>
     ELSE pc' = "copy" /\ distance' = d /\ left' = count /\ copied' = 0
  /\ UNCHANGED <<history, index, out, delivered>>

(* Mutants of CopyByte: an iteration too many, and a byte too near. *)
CopyByteOnceMore ==
  /\ pc = "copy"
  /\ left >= 0
  /\ WriteByte(history[(index + HistorySize - distance) % HistorySize])
  /\ left' = left - 1
  /\ copied' = copied + 1
  /\ UNCHANGED <<pc, distance, delivered>>

CopyByteNear ==
  /\ pc = "copy"
  /\ left > 0
  /\ WriteByte(history[(index + HistorySize - distance + 1) % HistorySize])
  /\ left' = left - 1
  /\ copied' = copied + 1
  /\ UNCHANGED <<pc, distance, delivered>>

(* One iteration of copy_match's loop. *)
CopyByte ==
  /\ pc = "copy"
  /\ left > 0
  /\ WriteByte(history[(index + HistorySize - distance) % HistorySize])
  /\ left' = left - 1
  /\ copied' = copied + 1
  /\ UNCHANGED <<pc, distance, delivered>>

CopyDone ==
  /\ pc = "copy"
  /\ left = 0
  /\ pc' = "token"
  /\ UNCHANGED <<history, index, out, distance, left, delivered, copied>>

(* An invalid code or length, a truncated segment or multipart header: the  *)
(* message's output is dropped and run_session ends, leaving the history    *)
(* with the bytes written.                                                  *)
Bail ==
  /\ pc = "token"
  /\ pc' = "failed"
  /\ UNCHANGED <<history, index, out, distance, left, delivered, copied>>

(* The last segment is through: decompress returns its output. *)
Return ==
  /\ pc = "token"
  /\ pc' = "idle"
  /\ delivered' = delivered \o out
  /\ UNCHANGED <<history, index, out, distance, left, copied>>

-----------------------------------------------------------------------------
Init ==
  /\ pc = "idle"
  /\ history = [i \in 0 .. HistorySize - 1 |-> Zero]
  /\ index = 0
  /\ out = <<>>
  /\ distance = 0 /\ left = 0 /\ copied = 0
  /\ delivered = <<>>

Next ==
  \/ Begin \/ CopyByte \/ CopyDone \/ Bail \/ Return
  \/ \E b \in Bytes : Literal(b)
  \/ \E d \in Distances, count \in Counts : Match(d, count)

Spec == Init /\ [][Next]_zgfxVars

-----------------------------------------------------------------------------
(* Type invariant. *)
TypeOK ==
  /\ pc \in {"idle", "token", "copy", "failed"}
  /\ history \in [0 .. HistorySize - 1 -> Bytes]
  /\ {index, distance, left, copied} \subseteq Nat
  /\ out \in Seq(Bytes) /\ delivered \in Seq(Bytes)

(* Everything written since the connection began. *)
Written == IF pc = "idle" THEN delivered ELSE delivered \o out

(* After any number of messages, failures and wraps of the ring, the        *)
(* history holds the last HistorySize bytes of everything written           *)
(* (zgfx.rs:165-178).                                                       *)
HistoryIsRecentText ==
  /\ Len(Written) = index
  /\ \A k \in 0 .. index - 1 :
       k >= index - HistorySize => history[k % HistorySize] = Written[k + 1]

(* A match that is being copied began within the text there was, so that no *)
(* byte it yields is one of the zeros of the fresh history                  *)
(* (zgfx.rs:184-191).                                                       *)
NeverReadsUnwritten ==
  pc = "copy" => distance \in 1 .. HistorySize /\ distance <= index - copied

(* The decompressor computes the text that the token stream means.  The     *)
(* bytes of a match count when it is complete.                              *)
Text == INSTANCE ZgfxText WITH
          text <- SubSeq(Written, 1,
                         Len(Written) - IF pc = "copy" THEN copied ELSE 0),
          failed <- (pc = "failed")
TextSpec == Text!TextSpec

=============================================================================
