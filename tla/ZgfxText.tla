------------------------------ MODULE ZgfxText ------------------------------
(***************************************************************************)
(* What ZGFX decompression means: the server's compressor and the client   *)
(* share one endless text.  A token adds a byte to it, or repeats n bytes  *)
(* that begin d bytes back, which may run into the bytes being added.  The *)
(* client hands the text on message by message.  A message that cannot be  *)
(* decoded ends it for good: after that nothing more is handed on.         *)
(***************************************************************************)
EXTENDS Integers, Sequences

CONSTANTS
  Bytes,        \* the bytes
  HistorySize   \* how far back a match may reach

VARIABLES
  text,       \* all bytes decoded so far
  delivered,  \* those handed on, as complete messages
  failed      \* decoding has failed

textVars == <<text, delivered, failed>>

TextInit == text = <<>> /\ delivered = <<>> /\ failed = FALSE

AddByte ==
  /\ ~ failed
  /\ \E b \in Bytes : text' = Append(text, b)
  /\ UNCHANGED <<delivered, failed>>

(* Byte n of the new text repeats byte n - d of the new text. *)
Repeats(old, new, d) ==
  /\ Len(old) <= Len(new)
  /\ \A n \in 1 .. Len(new) :
       new[n] = IF n <= Len(old) THEN old[n] ELSE new[n - d]

Repeat ==
  /\ ~ failed
  /\ \E d \in 1 .. Len(text) : d <= HistorySize /\ Repeats(text, text', d)
  /\ UNCHANGED <<delivered, failed>>

Deliver ==
  /\ ~ failed
  /\ delivered' = text
  /\ UNCHANGED <<text, failed>>

Break == failed' = TRUE /\ UNCHANGED <<text, delivered>>

TextNext == AddByte \/ Repeat \/ Deliver \/ Break

TextSpec == TextInit /\ [][TextNext]_textVars

=============================================================================
