----------------------------- MODULE ZgfxStream -----------------------------
(***************************************************************************)
(* The messages the ZGFX decompressor reads (client/src/zgfx.rs): segments *)
(* of a container, plain or as a stream of bits in the code of TOKEN_TABLE,*)
(* and the decoding of each token to a step of Zgfx.                       *)
(* A stream is the sequence of its bits without the trailer byte, which    *)
(* says how many of them are padding.  The server's encoder is external.   *)
(***************************************************************************)
EXTENDS Zgfx

CONSTANTS
  Messages,     \* messages: sequences of segments, of tokens or plain
  MaxMessages   \* bound on the messages received

ASSUME StreamAssumption == Bytes = 0 .. 255 /\ MaxMessages \in Nat

VARIABLES
  reader,     \* BitReader: bits, those read, and what is left to decode
  raw,        \* bytes left of an unencoded run
  segments,   \* segments of the message not begun yet
  \* history variables
  meant,      \* tokens encoded in the segment
  decoded,    \* tokens decoded of it
  cut,        \* the segment lost its end
  received    \* messages received

streamVars == <<zgfxVars, reader, raw, segments, meant, decoded, cut, received>>

-----------------------------------------------------------------------------
(* TOKEN_TABLE: length and value of the code, the bits behind it, whether   *)
(* it is a match, and what those bits are added to.                         *)
Row(len, code, bits, match, base) ==
  [len |-> len, code |-> code, bits |-> bits, match |-> match, base |-> base]

(* The bytes with a code of their own, and the code of any byte.            *)
Literals ==
  {Row(1, 0, 8, FALSE, 0), Row(5, 24, 0, FALSE, 0), Row(5, 25, 0, FALSE, 1),
   Row(6, 52, 0, FALSE, 2), Row(6, 53, 0, FALSE, 3), Row(6, 54, 0, FALSE, 255),
   Row(7, 125, 0, FALSE, 128), Row(8, 252, 0, FALSE, 12), Row(8, 253, 0, FALSE, 56),
   Row(8, 254, 0, FALSE, 57), Row(8, 255, 0, FALSE, 102)}
  \cup {Row(7, 106 + byte, 0, FALSE, byte) : byte \in 4 .. 11}
  \cup {Row(7, 60 + byte, 0, FALSE, byte) : byte \in 58 .. 64}

Matches ==
  {Row(5, 17, 5, TRUE, 0), Row(5, 18, 7, TRUE, 32), Row(5, 19, 9, TRUE, 160),
   Row(5, 20, 10, TRUE, 672), Row(5, 21, 12, TRUE, 1696), Row(6, 44, 14, TRUE, 5792),
   Row(6, 45, 15, TRUE, 22176), Row(7, 92, 18, TRUE, 54944), Row(7, 93, 20, TRUE, 317088),
   Row(8, 188, 20, TRUE, 1365664), Row(8, 189, 21, TRUE, 2414240),
   Row(9, 380, 22, TRUE, 4511392), Row(9, 381, 23, TRUE, 8705696),
   Row(9, 382, 24, TRUE, 17094304)}

TokenTable == Literals \cup Matches

-----------------------------------------------------------------------------
(* BitReader *)

(* get_bits: past the end there are zeros.                                  *)
BitAt(r, k) == IF k <= Len(r.bits) THEN r.bits[k] ELSE 0
ValueAt(r, p, count) ==
  LET value[k \in 0 .. count] == IF k = 0 THEN 0 ELSE 2 * value[k - 1] + BitAt(r, p + k)
  IN value[count]
GetBits(r, count) == [bits |-> r.bits, pos |-> r.pos + count, left |-> r.left - count]

(* A mutant of ByteAlign: a run begins at the next bit. *)
ByteAlignNot(r) == r

(* byte_align: to the end of the byte that has been begun.                  *)
ByteAlign(r) == GetBits(r, (-r.pos) % 8)

NewReader(bits, padding) == [bits |-> bits, pos |-> 0, left |-> Len(bits) - padding]

(* decode_token: the rows whose code comes next.                            *)
NextRows(r) == {row \in TokenTable : ValueAt(r, r.pos, row.len) = row.code}

(* decode_length: a unary part of ones, and as many bits as it says.        *)
Ones(r) == IF ValueAt(r, r.pos, 1) = 0 THEN 0
           ELSE CHOOSE n \in 1 .. Len(r.bits) :
                  /\ ValueAt(r, r.pos + n, 1) = 0
                  /\ \A k \in 1 .. n - 1 : ValueAt(r, r.pos + k, 1) = 1

LengthBits(ones) == IF ones = 0 THEN 0 ELSE ones + 1
TooLong(ones) == LengthBits(ones) > 15

MatchLength(r) ==
  LET ones == Ones(r)
      extra == LengthBits(ones)
  IN IF ones = 0 THEN 3 ELSE 2 * 2^ones + ValueAt(r, r.pos + ones + 1, extra)
AfterLength(r) == GetBits(r, Ones(r) + 1 + LengthBits(Ones(r)))

-----------------------------------------------------------------------------
(* The encoder (external). *)

BitsOf(v, n) == [k \in 1 .. n |-> (v \div 2^(n - k)) % 2]

BytesToBits(bytes) ==
  [k \in 1 .. 8 * Len(bytes) |-> BitsOf(bytes[((k - 1) \div 8) + 1], 8)[((k - 1) % 8) + 1]]

(* A token: a literal, of a row, a match, an unencoded run or bits that are *)
(* no token.                                                                *)
RowOf(d) == CHOOSE row \in TokenTable :
              row.match /\ row.base <= d /\ d < row.base + 2^row.bits
CodeOf(row, value) == BitsOf(row.code, row.len) \o BitsOf(value - row.base, row.bits)
LengthCode(n) ==
  IF n = 3 THEN <<0>>
  ELSE LET ones == CHOOSE k \in 1 .. 14 : 2^(k + 1) <= n /\ n < 2^(k + 2)
       IN [k \in 1 .. ones |-> 1] \o <<0>> \o BitsOf(n - 2^(ones + 1), ones + 1)

RunHead(token) == CodeOf(RowOf(0), 0) \o BitsOf(Len(token.bytes), 15)

(* The bits of a token behind bits that are as many as start.               *)
TokenCode(token, start) ==
  IF token.kind = "literal" THEN CodeOf(token.row, token.byte)
  ELSE IF token.kind = "match"
  THEN CodeOf(RowOf(token.distance), token.distance) \o LengthCode(token.count)
  ELSE IF token.kind = "noise" THEN token.bits
  ELSE RunHead(token) \o BitsOf(0, (-(start + Len(RunHead(token)))) % 8)
         \o BytesToBits(token.bytes)

(* The bits of the first n tokens. *)
Encoded(tokens, n) ==
  LET bits[k \in 0 .. n] ==
        IF k = 0 THEN <<>>
        ELSE LET before == bits[k - 1] IN before \o TokenCode(tokens[k], Len(before))
  IN bits[n]

Stream(tokens) ==
  LET bits == Encoded(tokens, Len(tokens))
      padding == (-Len(bits)) % 8
  IN NewReader(bits \o BitsOf(0, padding), padding)

(* What arrives of a segment whose last byte is missing: the byte before it *)
(* is taken for the trailer.                                                *)
Shorter(r) ==
  LET end == Len(r.bits) - 8
  IN NewReader(SubSeq(r.bits, 1, end), ValueAt(r, end, 8))

(* Bits that are no token: the code of no row, or a match with a length of  *)
(* more than fifteen bits.                                                  *)
NoToken(bits) ==
  LET r == NewReader(bits, 0)
  IN \/ Len(bits) >= 9 /\ NextRows(r) = {}
     \/ \E row \in NextRows(r) :
          LET behind == row.len + row.bits
          IN /\ row.match /\ row.base + ValueAt(r, row.len, row.bits) # 0
             /\ Len(bits) >= behind + 15
             /\ \A k \in 1 .. 15 : bits[behind + k] = 1

(* The farthest distance there is a code for. *)
Farthest == 17094304 + 2^24 - 1

Tokens ==
  {t \in [kind : {"literal"}, row : TokenTable, byte : Bytes] :
     ~t.row.match /\ t.byte - t.row.base \in 0 .. 2^t.row.bits - 1}
  \cup [kind : {"match"}, distance : 1 .. Farthest, count : 3 .. 2^16 - 1]
  \cup {t \in [kind : {"run"}, bytes : Seq(Bytes)] : Len(t.bytes) < 2^15}
  \cup {t \in [kind : {"noise"}, bits : Seq({0, 1})] : NoToken(t.bits)}

Segments == [plain : {TRUE}, bytes : Seq(Bytes)] \cup [plain : {FALSE}, tokens : Seq(Tokens)]

ASSUME MessagesAssumption == \A message \in Messages : message \in Seq(Segments)

-----------------------------------------------------------------------------
NoSegment == NewReader(<<>>, 0)

(* A message: a single segment, or several behind a multipart header.       *)
Receive(message) ==
  /\ received < MaxMessages
  /\ Begin
  /\ segments' = message
  /\ received' = received + 1
  /\ UNCHANGED <<reader, raw, meant, decoded, cut>>

(* In a segment, between two of its tokens.                                 *)
Between == pc = "token" /\ raw = 0

(* The next segment, if the last one is through.  One that is not encoded   *)
(* is like an unencoded run of all its bytes.                               *)
BeginSegment(loses) ==
  LET segment == Head(segments)
      whole == Stream(segment.tokens)
  IN /\ Between /\ reader.left <= 0
     /\ segments # <<>>
     /\ loses => ~segment.plain /\ Len(whole.bits) >= 8
     /\ IF segment.plain
        THEN /\ reader' = NewReader(BytesToBits(segment.bytes), 8 * Len(segment.bytes))
             /\ raw' = Len(segment.bytes)
             /\ meant' = <<[kind |-> "run", bytes |-> segment.bytes]>>
             /\ decoded' = <<[kind |-> "run", bytes |-> <<>>]>>
        ELSE /\ reader' = IF loses THEN Shorter(whole) ELSE whole
             /\ raw' = 0
             /\ meant' = segment.tokens
             /\ decoded' = <<>>
     /\ segments' = Tail(segments)
     /\ cut' = loses
     /\ UNCHANGED <<zgfxVars, received>>

DecodeLiteral ==
  /\ Between /\ reader.left > 0
  /\ \E row \in NextRows(reader) :
     LET r == GetBits(reader, row.len)
         byte == (row.base + ValueAt(r, r.pos, row.bits)) % 256
     IN /\ ~row.match
        /\ Literal(byte)
        /\ reader' = GetBits(r, row.bits)
        /\ decoded' = Append(decoded, [kind |-> "literal", byte |-> byte])
  /\ UNCHANGED <<raw, segments, meant, cut, received>>

(* A match, which copy_match copies or refuses.                             *)
DecodeMatch ==
  /\ Between /\ reader.left > 0
  /\ \E row \in NextRows(reader) :
     LET r == GetBits(reader, row.len)
         d == row.base + ValueAt(r, r.pos, row.bits)
         length == GetBits(r, row.bits)
     IN /\ row.match
        /\ ~TooLong(Ones(length))
        /\ Match(d, MatchLength(length))
        /\ reader' = AfterLength(length)
        /\ decoded' = Append(decoded, [kind |-> "match", distance |-> d,
                                       count |-> MatchLength(length)])
  /\ UNCHANGED <<raw, segments, meant, cut, received>>

(* The distance 0: the count of an unencoded run, then to a whole byte.     *)
DecodeRun ==
  /\ Between /\ reader.left > 0
  /\ \E row \in NextRows(reader) :
     LET r == GetBits(reader, row.len)
         count == GetBits(r, row.bits)
     IN /\ row.match /\ row.base + ValueAt(r, r.pos, row.bits) = 0
        /\ raw' = ValueAt(count, count.pos, 15)
        /\ reader' = ByteAlign(GetBits(count, 15))
        /\ decoded' = Append(decoded, [kind |-> "run", bytes |-> <<>>])
  /\ UNCHANGED <<zgfxVars, segments, meant, cut, received>>

RunByte ==
  LET byte == ValueAt(reader, reader.pos, 8)
      last == Len(decoded)
  IN /\ raw > 0
     /\ Literal(byte)
     /\ raw' = raw - 1
     /\ reader' = GetBits(reader, 8)
     /\ decoded' = [decoded EXCEPT
                       ![last] = [kind |-> "run", bytes |-> Append(@.bytes, byte)]]
     /\ UNCHANGED <<segments, meant, cut, received>>

Copy ==
  /\ CopyByte \/ CopyDone
  /\ UNCHANGED <<reader, raw, segments, meant, decoded, cut, received>>

(* The next segment is empty, or reaches past the end of its message. *)
Truncated ==
  /\ Between /\ reader.left <= 0 /\ segments # <<>>
  /\ Bail
  /\ UNCHANGED <<reader, raw, segments, meant, decoded, cut, received>>

(* No row has the code, or a length has too many ones.                      *)
Garbled ==
  /\ Between /\ reader.left > 0
  /\ \A row \in NextRows(reader) :
       LET r == GetBits(reader, row.len)
       IN /\ row.match
          /\ row.base + ValueAt(r, r.pos, row.bits) # 0
          /\ TooLong(Ones(GetBits(r, row.bits)))
  /\ Bail
  /\ UNCHANGED <<reader, raw, segments, meant, decoded, cut, received>>

(* The last segment is through.                                             *)
Finish ==
  /\ Between /\ reader.left <= 0 /\ segments = <<>>
  /\ Return
  /\ UNCHANGED <<reader, raw, segments, meant, decoded, cut, received>>

-----------------------------------------------------------------------------
StreamInit ==
  /\ Init
  /\ reader = NoSegment
  /\ raw = 0
  /\ segments = <<>> /\ meant = <<>> /\ decoded = <<>>
  /\ cut = FALSE
  /\ received = 0

StreamNext ==
  \/ \E message \in Messages : Receive(message)
  \/ \E loses \in BOOLEAN : BeginSegment(loses)
  \/ DecodeLiteral \/ DecodeMatch \/ DecodeRun \/ RunByte \/ Copy
  \/ Truncated \/ Garbled \/ Finish

StreamSpec == StreamInit /\ [][StreamNext]_streamVars

-----------------------------------------------------------------------------
(* What a token means, however it is encoded.                               *)
Meaning(token) ==
  IF token.kind = "literal" THEN [kind |-> "literal", byte |-> token.byte] ELSE token

SameToken(n) == n <= Len(meant) /\ decoded[n] = Meaning(meant[n])

(* A segment is decoded to the tokens that were encoded in it, to all of    *)
(* them and no more, wherever in a byte they begin and end: the zeros read  *)
(* past the end are never taken for a token.  If the segment lost its last  *)
(* byte, they may be, once: all tokens but the last are still right.        *)
TokensAsEncoded ==
  LET settled == IF raw > 0 \/ cut THEN Len(decoded) - 1 ELSE Len(decoded)
  IN /\ \A n \in 1 .. settled : SameToken(n)
     /\ ~cut /\ Between /\ reader.left <= 0 => Len(decoded) = Len(meant)
=============================================================================
