----------------------- MODULE ChannelRouter_proofs -------------------------
(***************************************************************************)
(* The router answers every request in its order, loses no I/O message,    *)
(* keeps its queue short and is a pipe to the graphics loop, however many  *)
(* channels, messages, requests and stray messages there are.              *)
(*                                                                         *)
(* What is under way is hard to describe by itself: a chunk means one      *)
(* thing after another chunk and another thing alone, a fragment depends   *)
(* on the fragments before it, and all of them on what the client knows    *)
(* when it reads them.  So the invariant, WayInv, says it by what it does: *)
(* the messages on the wire are a path of steps, each of which one of the  *)
(* two layers of the client can take, from the place in the conversation   *)
(* where the client is to the one where the server is.  A step of the      *)
(* server adds a step at the far end, a read of the client takes the first *)
(* step, and FeedStep and HandleMove show that what feed and               *)
(* handle_message make of the message is that step.                        *)
(***************************************************************************)
EXTENDS ChannelRouter, FiniteSetTheorems, SequenceTheorems, TLAPS

-----------------------------------------------------------------------------
(* Sequences of anything. *)

(* Sequence enough for Append and Tail. *)
IsSeq(line) == \E S : line \in Seq(S)

LEMMA SeqEmpty == IsSeq(<<>>)
PROOF
<1>1. <<>> \in Seq({})
  OBVIOUS
<1> QED BY <1>1 DEF IsSeq

LEMMA SeqAppend ==
  ASSUME NEW line, IsSeq(line), NEW m
  PROVE  /\ IsSeq(Append(line, m))
         /\ Len(line) \in Nat
         /\ Len(Append(line, m)) = Len(line) + 1
         /\ DOMAIN line = 1 .. Len(line)
         /\ DOMAIN Append(line, m) = 1 .. Len(line) + 1
         /\ \A k \in 1 .. Len(line) : Append(line, m)[k] = line[k]
         /\ Append(line, m)[Len(line) + 1] = m
PROOF
<1>1. PICK S : line \in Seq(S)
  BY DEF IsSeq
<1> DEFINE T == S \cup {m}
<1>2. line \in Seq(T) /\ m \in T
  <2>1. S \subseteq T
    OBVIOUS
  <2> QED BY <1>1, <2>1, SeqMonotonic
<1> HIDE DEF T
<1>3. Append(line, m) \in Seq(T)
  BY <1>2, AppendProperties
<1> QED BY <1>2, <1>3, AppendProperties, LenProperties DEF IsSeq

LEMMA SeqTail ==
  ASSUME NEW line, IsSeq(line), line # <<>>
  PROVE  /\ IsSeq(Tail(line))
         /\ Len(line) \in Nat /\ Len(line) >= 1
         /\ Len(Tail(line)) = Len(line) - 1
         /\ DOMAIN line = 1 .. Len(line)
         /\ DOMAIN Tail(line) = 1 .. Len(line) - 1
         /\ \A k \in 1 .. Len(line) - 1 : Tail(line)[k] = line[k + 1]
         /\ Head(line) = line[1]
PROOF
<1>1. PICK S : line \in Seq(S)
  BY DEF IsSeq
<1>2. Tail(line) \in Seq(S) /\ Len(Tail(line)) = Len(line) - 1
      /\ \A k \in 1 .. Len(line) - 1 : Tail(line)[k] = line[k + 1]
  BY <1>1, HeadTailProperties
<1>3. Len(line) \in Nat /\ DOMAIN line = 1 .. Len(line) /\ Len(line) # 0
  BY <1>1, LenProperties, EmptySeq
<1>4. DOMAIN Tail(line) = 1 .. Len(line) - 1
  BY <1>2, LenProperties
<1>5. Head(line) = line[1]
  BY <1>1
<1> QED BY <1>2, <1>3, <1>4, <1>5 DEF IsSeq


-----------------------------------------------------------------------------
(* What is on its way to the client is what takes the client from where it *)
(* is to where the server is.                                              *)

(* A place in the conversation: what the demux holds of a message, how many *)
(* requests are answered, how many messages of the graphics channel are     *)
(* whole, and whether one more has begun.                                   *)
Place(s) ==
  /\ s = [half |-> s.half, answered |-> s.answered, whole |-> s.whole,
          begun |-> s.begun]
  /\ s.answered \in Nat /\ s.whole \in Nat /\ s.begun \in BOOLEAN

At(half, answered, whole, begun) ==
  [half |-> half, answered |-> answered, whole |-> whole, begun |-> begun]

Cells(id, n) == <<<<id, n, 1>>, <<id, n, 2>>>>

Same(s, t) == t.answered = s.answered /\ t.whole = s.whole /\ t.begun = s.begun

(* Messages that leave the conversation where it is: c is the graphics      *)
(* channel, strays are the channels with data in spite of a declining       *)
(* answer.                                                                  *)
Elsewhere(pdu, c, strays) ==
  \/ pdu = CapabilityPdu
  \/ \E id \in strays : pdu = DataPdu(id, <<>>)
  \/ \E id \in Ids \ {c} : \E chunk :
       /\ c # NoId
       /\ \/ pdu = DataPdu(id, chunk) \/ pdu = DataFirstPdu(id, 2, chunk)
          \/ pdu = ClosePdu(id)

(* The next request. *)
Asks(s, pdu, t, asked) ==
  /\ s.answered < Len(asked)
  /\ pdu = CreatePdu(asked[s.answered + 1].id, asked[s.answered + 1].name)
  /\ t.answered = s.answered + 1 /\ t.whole = s.whole /\ t.begun = s.begun

(* A message of the graphics channel, its fragments, and its end. *)
Sends(s, pdu, t, c) ==
  /\ pdu \in {DataPdu(c, Cells(c, s.whole + 1)),
              DataFirstPdu(c, 2, Cells(c, s.whole + 1))}
  /\ ~ s.begun
  /\ t.answered = s.answered /\ t.whole = s.whole + 1 /\ ~ t.begun

Begins(s, pdu, t, c) ==
  /\ pdu = DataFirstPdu(c, 2, <<<<c, s.whole + 1, 1>>>>)
  /\ ~ s.begun
  /\ t.answered = s.answered /\ t.whole = s.whole /\ t.begun

Ends(s, pdu, t, c) ==
  /\ pdu = DataPdu(c, <<<<c, s.whole + 1, 2>>>>)
  /\ s.begun
  /\ t.answered = s.answered /\ t.whole = s.whole + 1 /\ ~ t.begun

Shuts(s, pdu, t, c) ==
  /\ pdu = ClosePdu(c)
  /\ t.answered = s.answered /\ t.whole = s.whole /\ ~ t.begun

Moves(s, pdu, t, c, asked, strays) ==
  \/ Elsewhere(pdu, c, strays) /\ Same(s, t)
  \/ Asks(s, pdu, t, asked)
  \/ /\ c \in Ids
     /\ \/ Sends(s, pdu, t, c) \/ Begins(s, pdu, t, c) \/ Ends(s, pdu, t, c)
        \/ Shuts(s, pdu, t, c)

First(pdu) == <<pdu, 1, 2>>
Second(pdu) == <<pdu, 2, 2>>

Step(s, m, t, c, asked, strays) ==
  \/ (m = UserChannel \/ \E body : m = Io(body)) /\ t = s
  \/ \E pdu :
       \/ /\ m = Chunk(TRUE, TRUE, PiecesOf(pdu, 1))
          /\ s.half = <<>> /\ t.half = <<>>
          /\ Moves(s, pdu, t, c, asked, strays)
       \/ /\ m = Chunk(TRUE, FALSE, <<First(pdu)>>)
          /\ s.half = <<>> /\ t.half = <<First(pdu)>>
          /\ Same(s, t)
       \/ /\ m = Chunk(FALSE, TRUE, <<Second(pdu)>>)
          /\ s.half = <<First(pdu)>> /\ t.half = <<>>
          /\ Moves(s, pdu, t, c, asked, strays)

Path(s, line, t, c, asked, strays) ==
  \E p : /\ p[0] = s /\ p[Len(line)] = t
         /\ \A k \in 0 .. Len(line) : Place(p[k]) /\ p[k].whole <= t.whole
         /\ \A k \in 1 .. Len(line) :
              Step(p[k - 1], line[k], p[k], c, asked, strays)

LEMMA StepOnwards ==
  ASSUME NEW s, NEW m, NEW t, NEW c, NEW asked, NEW strays, Place(s), Place(t),
         Step(s, m, t, c, asked, strays)
  PROVE  s.whole <= t.whole
PROOF
<1>1. s.whole \in Nat /\ t.whole \in Nat
  BY DEF Place
<1>2. t = s \/ t.whole = s.whole \/ t.whole = s.whole + 1
  BY DEF Step, Moves, Same, Asks, Sends, Begins, Ends, Shuts
<1> QED BY <1>1, <1>2

LEMMA PathEmpty ==
  ASSUME NEW s, Place(s), NEW c, NEW asked, NEW strays
  PROVE  Path(s, <<>>, s, c, asked, strays)
PROOF
<1> DEFINE p == [k \in 0 .. 0 |-> s]
<1>1. Len(<<>>) = 0 /\ p[0] = s /\ (\A k \in 0 .. 0 : p[k] = s)
      /\ \A k \in 1 .. 0 : FALSE
  OBVIOUS
<1>2. s.whole <= s.whole
  BY DEF Place
<1> HIDE DEF p
<1> QED BY <1>1, <1>2 DEF Path

LEMMA PathExtend ==
  ASSUME NEW s, NEW line, NEW t, NEW c, NEW asked, NEW strays, IsSeq(line),
         Path(s, line, t, c, asked, strays),
         NEW m, NEW u, Place(u), Step(t, m, u, c, asked, strays)
  PROVE  Path(s, Append(line, m), u, c, asked, strays)
PROOF
<1>1. PICK p : /\ p[0] = s /\ p[Len(line)] = t
               /\ \A k \in 0 .. Len(line) : Place(p[k]) /\ p[k].whole <= t.whole
               /\ \A k \in 1 .. Len(line) :
                    Step(p[k - 1], line[k], p[k], c, asked, strays)
  BY DEF Path
<1> DEFINE n == Len(line)
           longer == Append(line, m)
<1>2. /\ n \in Nat /\ Len(longer) = n + 1
      /\ \A k \in 1 .. n : longer[k] = line[k]
      /\ longer[n + 1] = m
  BY SeqAppend
<1> HIDE DEF n, longer
<1> DEFINE q == [k \in 0 .. n + 1 |-> IF k <= n THEN p[k] ELSE u]
<1>3. q[n + 1] = u /\ \A k \in 0 .. n : q[k] = p[k]
  BY <1>2
<1> HIDE DEF q
<1>4. q[0] = s /\ q[n] = t
  BY <1>1, <1>2, <1>3 DEF n
<1>5. ASSUME NEW k \in 0 .. n + 1 PROVE Place(q[k]) /\ q[k].whole <= u.whole
  <2>1. n \in 0 .. n /\ p[n] = t
    BY <1>1, <1>2 DEF n
  <2>2. Place(t)
    BY <1>1, <2>1 DEF n
  <2>3. t.whole <= u.whole /\ t.whole \in Nat /\ u.whole \in Nat
    BY <2>2, StepOnwards DEF Place
  <2>4. CASE k = n + 1
    BY <1>3, <2>3, <2>4
  <2>5. CASE k # n + 1
    <3>1. k \in 0 .. n
      BY <2>5, <1>2
    <3>2. Place(p[k]) /\ p[k].whole <= t.whole /\ q[k] = p[k]
      BY <1>1, <1>3, <3>1 DEF n
    <3>3. p[k].whole \in Nat
      BY <3>2 DEF Place
    <3> QED BY <2>3, <3>2, <3>3
  <2> QED BY <2>4, <2>5
<1>6. ASSUME NEW k \in 1 .. n + 1
      PROVE  Step(q[k - 1], longer[k], q[k], c, asked, strays)
  <2>1. CASE k = n + 1
    <3>1. k - 1 = n
      BY <2>1, <1>2
    <3> QED BY <2>1, <3>1, <1>2, <1>3, <1>4
  <2>2. CASE k # n + 1
    <3>1. k \in 1 .. n /\ k - 1 \in 0 .. n /\ k \in 0 .. n
      BY <2>2, <1>2
    <3>2. Step(p[k - 1], line[k], p[k], c, asked, strays)
      BY <1>1, <3>1 DEF n
    <3> QED BY <3>1, <3>2, <1>2, <1>3
  <2> QED BY <2>1, <2>2
<1>7. Len(longer) = n + 1
  BY <1>2
<1>8. Path(s, longer, u, c, asked, strays)
  BY <1>3, <1>4, <1>5, <1>6, <1>7 DEF Path
<1> QED BY <1>8 DEF longer

LEMMA PathTail ==
  ASSUME NEW s, NEW line, NEW t, NEW c, NEW asked, NEW strays,
         IsSeq(line), line # <<>>, Path(s, line, t, c, asked, strays)
  PROVE  \E u : /\ Place(u) /\ Step(s, Head(line), u, c, asked, strays)
                /\ Path(u, Tail(line), t, c, asked, strays)
PROOF
<1>1. PICK p : /\ p[0] = s /\ p[Len(line)] = t
               /\ \A k \in 0 .. Len(line) : Place(p[k]) /\ p[k].whole <= t.whole
               /\ \A k \in 1 .. Len(line) :
                    Step(p[k - 1], line[k], p[k], c, asked, strays)
  BY DEF Path
<1> DEFINE n == Len(line)
           shorter == Tail(line)
           first == Head(line)
<1>2. /\ n \in Nat /\ n >= 1 /\ Len(shorter) = n - 1 /\ first = line[1]
      /\ \A k \in 1 .. n - 1 : shorter[k] = line[k + 1]
  BY SeqTail
<1> HIDE DEF n, shorter, first
<1> DEFINE q == [k \in 0 .. n - 1 |-> p[k + 1]]
<1>3. /\ q[n - 1] = p[n] /\ q[0] = p[1]
      /\ \A k \in 0 .. n - 1 : q[k] = p[k + 1]
  BY <1>2
<1> HIDE DEF q
<1>4. Place(p[1]) /\ Step(s, first, p[1], c, asked, strays)
  <2>1. 1 \in 1 .. n /\ 1 \in 0 .. n /\ 1 - 1 = 0
    BY <1>2
  <2> QED BY <2>1, <1>1, <1>2 DEF n
<1>5. ASSUME NEW k \in 0 .. n - 1 PROVE Place(q[k]) /\ q[k].whole <= t.whole
  <2>1. k + 1 \in 0 .. n
    BY <1>2
  <2> QED BY <2>1, <1>1, <1>3 DEF n
<1>6. ASSUME NEW k \in 1 .. n - 1
      PROVE  Step(q[k - 1], shorter[k], q[k], c, asked, strays)
  <2> DEFINE j == k + 1
  <2>1. j \in 1 .. n /\ j - 1 = k /\ k \in 0 .. n - 1 /\ k - 1 \in 0 .. n - 1
        /\ k - 1 + 1 = k
    BY <1>2
  <2>2. q[k - 1] = p[k] /\ q[k] = p[j] /\ shorter[k] = line[j]
    BY <2>1, <1>2, <1>3
  <2> HIDE DEF j
  <2>3. Step(p[j - 1], line[j], p[j], c, asked, strays)
    BY <2>1, <1>1 DEF n
  <2> QED BY <2>1, <2>2, <2>3
<1>7. Len(shorter) = n - 1 /\ q[n - 1] = t
  BY <1>1, <1>2, <1>3 DEF n
<1>8. Path(p[1], shorter, t, c, asked, strays)
  BY <1>3, <1>5, <1>6, <1>7 DEF Path
<1> QED BY <1>4, <1>8 DEF shorter, first

LEMMA PathEnds ==
  ASSUME NEW s, NEW line, NEW t, NEW c, NEW asked, NEW strays,
         Len(line) \in Nat, Path(s, line, t, c, asked, strays)
  PROVE  Place(s) /\ Place(t) /\ s.whole <= t.whole
PROOF
<1>1. 0 \in 0 .. Len(line) /\ Len(line) \in 0 .. Len(line)
  OBVIOUS
<1> QED BY <1>1 DEF Path

LEMMA PathMonotonic ==
  ASSUME NEW s, NEW line, NEW t, NEW c, NEW asked, NEW strays,
         NEW d, NEW requests, NEW more,
         Path(s, line, t, c, asked, strays),
         ASSUME NEW a, NEW m, NEW b, Place(a), Place(b),
                Step(a, m, b, c, asked, strays)
         PROVE  Step(a, m, b, d, requests, more),
         Len(line) \in Nat
  PROVE  Path(s, line, t, d, requests, more)
PROOF
<1>1. PICK p : /\ p[0] = s /\ p[Len(line)] = t
               /\ \A k \in 0 .. Len(line) : Place(p[k]) /\ p[k].whole <= t.whole
               /\ \A k \in 1 .. Len(line) :
                    Step(p[k - 1], line[k], p[k], c, asked, strays)
  BY DEF Path
<1>2. ASSUME NEW k \in 1 .. Len(line)
      PROVE  Step(p[k - 1], line[k], p[k], d, requests, more)
  <2>1. k - 1 \in 0 .. Len(line) /\ k \in 0 .. Len(line)
    OBVIOUS
  <2>2. Place(p[k - 1]) /\ Place(p[k])
    BY <2>1, <1>1
  <2>3. Step(p[k - 1], line[k], p[k], c, asked, strays)
    BY <1>1
  <2> QED BY <2>2, <2>3
<1> QED BY <1>1, <1>2 DEF Path


(* More requests, more strays, or the graphics channel being known, leave   *)
(* the way as it is.                                                        *)
LEMMA StepMonotonic ==
  ASSUME NEW s, NEW m, NEW t, NEW c, NEW asked, NEW strays,
         NEW d, NEW requests, NEW more,
         Place(s), Step(s, m, t, c, asked, strays),
         d = c \/ c = NoId,
         Len(asked) \in Nat, Len(requests) \in Nat,
         Len(asked) <= Len(requests),
         \A k \in 1 .. Len(asked) : requests[k] = asked[k],
         strays \subseteq more
  PROVE  Step(s, m, t, d, requests, more)
PROOF
<1>1. ASSUME NEW pdu, Moves(s, pdu, t, c, asked, strays)
      PROVE  Moves(s, pdu, t, d, requests, more)
  <2>1. CASE Elsewhere(pdu, c, strays) /\ Same(s, t)
    <3>1. Elsewhere(pdu, d, more)
      BY <2>1 DEF Elsewhere
    <3> QED BY <2>1, <3>1 DEF Moves
  <2>2. CASE Asks(s, pdu, t, asked)
    <3> DEFINE next == s.answered + 1
    <3>1. next \in 1 .. Len(asked) /\ s.answered < Len(requests)
      BY <2>2 DEF Asks, Place
    <3>2. pdu = CreatePdu(asked[next].id, asked[next].name)
      BY <2>2 DEF Asks
    <3>3. requests[next] = asked[next]
      <4> HIDE DEF next
      <4> QED BY <3>1
    <3>4. pdu = CreatePdu(requests[next].id, requests[next].name)
      BY <3>2, <3>3
    <3>5. Asks(s, pdu, t, requests)
      BY <2>2, <3>1, <3>4 DEF Asks
    <3> QED BY <3>5 DEF Moves
  <2>3. CASE /\ c \in Ids
             /\ \/ Sends(s, pdu, t, c) \/ Begins(s, pdu, t, c)
                \/ Ends(s, pdu, t, c) \/ Shuts(s, pdu, t, c)
    <3>1. d = c
      BY <2>3, RouterAssumption DEF RouterAssumption
    <3> QED BY <2>3, <3>1 DEF Moves
  <2> QED BY <1>1, <2>1, <2>2, <2>3 DEF Moves
<1> QED BY <1>1 DEF Step

LEMMA PathGrows ==
  ASSUME NEW s, NEW line, NEW t, NEW c, NEW asked, NEW strays,
         NEW d, NEW requests, NEW more,
         Path(s, line, t, c, asked, strays), IsSeq(line),
         d = c \/ c = NoId,
         Len(asked) \in Nat, Len(requests) \in Nat,
         Len(asked) <= Len(requests),
         \A k \in 1 .. Len(asked) : requests[k] = asked[k],
         strays \subseteq more
  PROVE  Path(s, line, t, d, requests, more)
PROOF
<1>1. Len(line) \in Nat
  BY SeqAppend
<1>2. ASSUME NEW a, NEW m, NEW b, Place(a), Place(b),
             Step(a, m, b, c, asked, strays)
      PROVE  Step(a, m, b, d, requests, more)
  BY <1>2, StepMonotonic
<1> QED BY <1>1, <1>2, PathMonotonic

-----------------------------------------------------------------------------
(* What the two layers of the client make of a message.                     *)

LEMMA PairJoined ==
  ASSUME NEW a, NEW b
  PROVE  <<a>> \o <<b>> = <<a, b>>
PROOF
<1> DEFINE S == {a, b}
           u == <<a>>
           v == <<b>>
           w == <<a, b>>
<1>1. /\ u \in Seq(S) /\ v \in Seq(S) /\ w \in Seq(S)
      /\ Len(u) = 1 /\ Len(v) = 1 /\ Len(w) = 2
      /\ u[1] = a /\ v[1] = b /\ w[1] = a /\ w[2] = b
  OBVIOUS
<1> HIDE DEF S, u, v, w
<1>2. /\ u \o v \in Seq(S) /\ Len(u \o v) = 2
      /\ (u \o v)[1] = a /\ (u \o v)[2] = b
  <2>1. /\ u \o v \in Seq(S)
        /\ Len(u \o v) = Len(u) + Len(v)
        /\ \A i \in 1 .. Len(u) + Len(v) : (u \o v)[i] =
              IF i <= Len(u) THEN u[i] ELSE v[i - Len(u)]
    BY <1>1, ConcatProperties
  <2>2. 1 \in 1 .. Len(u) + Len(v) /\ 2 \in 1 .. Len(u) + Len(v) /\ 2 - Len(u) = 1
    BY <1>1
  <2> QED BY <2>1, <2>2, <1>1
<1>3. u \o v = w
  BY <1>1, <1>2, SeqEqual
<1> QED BY <1>3 DEF u, v, w

LEMMA ParsedPieces ==
  ASSUME NEW pdu
  PROVE  /\ Parsed(<<>> \o PiecesOf(pdu, 1)) = pdu
         /\ Parsed(<<First(pdu)>> \o <<Second(pdu)>>) = pdu
PROOF
<1>1. <<>> \o PiecesOf(pdu, 1) = PiecesOf(pdu, 1)
  <2>1. PiecesOf(pdu, 1) \in Seq({<<pdu, 1, 1>>})
    BY DEF PiecesOf
  <2> QED BY <2>1, ConcatEmptySeq
<1>2. PiecesOf(pdu, 1)[1] = <<pdu, 1, 1>>
  BY DEF PiecesOf
<1>3. <<First(pdu)>> \o <<Second(pdu)>> = <<First(pdu), Second(pdu)>>
  BY PairJoined
<1>4. <<First(pdu), Second(pdu)>> = PiecesOf(pdu, 2)
  BY DEF PiecesOf, First, Second
<1>5. PiecesOf(pdu, 2)[1] = <<pdu, 1, 2>>
  BY DEF PiecesOf
<1> QED BY <1>1, <1>2, <1>3, <1>4, <1>5 DEF Parsed

LEMMA FeedStep ==
  ASSUME NEW s, NEW m, NEW t, NEW c, NEW asked, NEW strays,
         Step(s, m, t, c, asked, strays), m.channel = "drdynvc"
  PROVE  \/ /\ Feed(s.half, m) = [buffer |-> t.half, message |-> <<>>]
            /\ Same(s, t)
         \/ \E pdu :
              /\ Feed(s.half, m) = [buffer |-> t.half, message |-> <<pdu>>]
              /\ Moves(s, pdu, t, c, asked, strays)
PROOF
<1>1. ~ (m = UserChannel \/ \E body : m = Io(body))
  BY DEF UserChannel, Io
<1>2. PICK pdu :
       \/ /\ m = Chunk(TRUE, TRUE, PiecesOf(pdu, 1))
          /\ s.half = <<>> /\ t.half = <<>>
          /\ Moves(s, pdu, t, c, asked, strays)
       \/ /\ m = Chunk(TRUE, FALSE, <<First(pdu)>>)
          /\ s.half = <<>> /\ t.half = <<First(pdu)>>
          /\ Same(s, t)
       \/ /\ m = Chunk(FALSE, TRUE, <<Second(pdu)>>)
          /\ s.half = <<First(pdu)>> /\ t.half = <<>>
          /\ Moves(s, pdu, t, c, asked, strays)
  BY <1>1 DEF Step
<1>3. CASE /\ m = Chunk(TRUE, TRUE, PiecesOf(pdu, 1))
           /\ s.half = <<>> /\ t.half = <<>>
           /\ Moves(s, pdu, t, c, asked, strays)
  <2>1. m.first /\ m.last /\ m.pieces = PiecesOf(pdu, 1)
    BY <1>3 DEF Chunk
  <2>2. Feed(s.half, m) = [buffer |-> <<>>, message |-> <<pdu>>]
    BY <2>1, ParsedPieces DEF Feed
  <2> QED BY <1>3, <2>2
<1>4. CASE /\ m = Chunk(TRUE, FALSE, <<First(pdu)>>)
           /\ s.half = <<>> /\ t.half = <<First(pdu)>>
           /\ Same(s, t)
  <2>1. m.first /\ ~ m.last /\ m.pieces = <<First(pdu)>>
    BY <1>4 DEF Chunk
  <2>2. Feed(s.half, m) = [buffer |-> <<First(pdu)>>, message |-> <<>>]
    BY <2>1 DEF Feed
  <2> QED BY <1>4, <2>2
<1>5. CASE /\ m = Chunk(FALSE, TRUE, <<Second(pdu)>>)
           /\ s.half = <<First(pdu)>> /\ t.half = <<>>
           /\ Moves(s, pdu, t, c, asked, strays)
  <2>1. ~ m.first /\ m.last /\ m.pieces = <<Second(pdu)>>
    BY <1>5 DEF Chunk
  <2>2. Feed(s.half, m) = [buffer |-> <<>>, message |-> <<pdu>>]
    BY <1>5, <2>1, ParsedPieces DEF Feed
  <2> QED BY <1>5, <2>2
<1> QED BY <1>2, <1>3, <1>4, <1>5


(* The manager of a client at s: of the graphics channel it holds the part  *)
(* of the message that has begun.                                           *)
Holds(s, mgr, c) ==
  /\ mgr = Manager(mgr.caps_negotiated, mgr.wanted, mgr.open, mgr.partial)
  /\ c = NoId => DOMAIN mgr.partial = {}
  /\ c \in DOMAIN mgr.partial <=> s.begun
  /\ s.begun => mgr.partial[c] = [total |-> 2,
                                  cells |-> <<<<c, s.whole + 1, 1>>>>]

(* The answer that the manager gives to a request, and no event but the     *)
(* opening of a channel that is wanted.                                     *)
GivesAnswer(mgr, out, s, t, asked) ==
  LET request == asked[s.answered + 1]
      accept == request.name \in mgr.wanted
      response == CreateResponse(request.id, accept)
  IN  /\ s.answered < Len(asked) /\ t.answered = s.answered + 1
      /\ t.whole = s.whole
      /\ out.written \in {<<response>>, <<CapabilityResponse, response>>}
      /\ out.data = <<>>
      /\ \/ ~ accept /\ out.opened = <<>> /\ out.dvc.open = mgr.open
         \/ accept /\ out.opened = <<[name |-> request.name, id |-> request.id]>>

(* Anything else: no answer, and at most one message of data, that of the   *)
(* graphics channel if the conversation has come by one.                    *)
GivesData(mgr, out, s, t, c, strays) ==
  /\ t.answered = s.answered
  /\ out.written \in {<<>>, <<CapabilityResponse>>}
  /\ out.opened = <<>>
  /\ DOMAIN out.dvc.open \subseteq DOMAIN mgr.open
  /\ \/ t.whole = s.whole /\ out.data = <<>>
     \/ /\ t.whole = s.whole
        /\ \E id, cells : /\ out.data = <<[id |-> id, cells |-> cells]>>
                          /\ id # c /\ (c = NoId => id \in strays)
     \/ /\ t.whole = s.whole + 1 /\ c \in Ids
        /\ out.data = <<[id |-> c, cells |-> Cells(c, s.whole + 1)]>>

Handled(mgr, out, s, t, c, asked, strays) ==
  /\ out.dvc.wanted = mgr.wanted
  /\ Holds(t, out.dvc, c)
  /\ \/ GivesAnswer(mgr, out, s, t, asked)
     \/ GivesData(mgr, out, s, t, c, strays)

LEMMA HandleElsewhere ==
  ASSUME NEW mgr, NEW s, NEW t, NEW c, NEW asked, NEW strays, NEW pdu,
         Place(s), Place(t), Holds(s, mgr, c), c \notin strays,
         Elsewhere(pdu, c, strays), Same(s, t)
  PROVE  Handled(mgr, HandleMessage(mgr, pdu), s, t, c, asked, strays)
PROOF
<1> DEFINE out == HandleMessage(mgr, pdu)
<1>1. CASE pdu = CapabilityPdu
  <2>1. out = Capability(mgr)
    BY <1>1 DEF HandleMessage, CapabilityPdu
  <2>2. /\ out.dvc = Manager(TRUE, mgr.wanted, mgr.open, mgr.partial)
        /\ out.written = <<CapabilityResponse>> /\ out.data = <<>>
        /\ out.opened = <<>>
    BY <2>1 DEF Capability, Outcome, Negotiated
  <2> HIDE DEF out
  <2>3. Holds(t, out.dvc, c) /\ out.dvc.wanted = mgr.wanted
        /\ out.dvc.open = mgr.open
    BY <2>2 DEF Holds, Manager, Same
  <2>4. GivesData(mgr, out, s, t, c, strays)
    BY <2>2, <2>3 DEF GivesData, Same
  <2> QED BY <2>3, <2>4 DEF Handled, out
<1>2. ASSUME NEW id, NEW chunk, id # c, pdu = DataPdu(id, chunk),
             c = NoId => id \in strays
      PROVE  Handled(mgr, out, s, t, c, asked, strays)
  <2>1. out = Data(mgr, pdu) /\ pdu.id = id /\ pdu.chunk = chunk
    BY <1>2 DEF HandleMessage, DataPdu
  <2> DEFINE Fits(partial, cells) ==
          /\ out \in {Outcome(WithPartial(mgr, partial), <<>>, <<>>, <<>>),
                      Outcome(WithPartial(mgr, partial), <<>>,
                              <<[id |-> id, cells |-> cells]>>, <<>>)}
          /\ c \in DOMAIN partial <=> c \in DOMAIN mgr.partial
          /\ c \in DOMAIN partial => partial[c] = mgr.partial[c]
          /\ c = NoId => DOMAIN partial = {}
  <2>2. \E partial, cells : Fits(partial, cells)
    <3>1. CASE id \notin DOMAIN mgr.partial
      <4>1. mgr = WithPartial(mgr, mgr.partial)
        BY DEF WithPartial, Holds
      <4>2. out = Outcome(mgr, <<>>, <<[id |-> id, cells |-> chunk]>>, <<>>)
        BY <2>1, <3>1 DEF Data, Yield
      <4>3. out = Outcome(WithPartial(mgr, mgr.partial), <<>>,
                          <<[id |-> id, cells |-> chunk]>>, <<>>)
        BY <4>1, <4>2
      <4>4. c = NoId => DOMAIN mgr.partial = {}
        BY DEF Holds
      <4>5. Fits(mgr.partial, chunk)
        BY <4>3, <4>4
      <4> HIDE DEF Fits
      <4> QED BY <4>5
    <3>2. CASE id \in DOMAIN mgr.partial
      <4> DEFINE total == mgr.partial[id].total
                 whole == mgr.partial[id].cells \o chunk
                 less == Without(mgr.partial, id)
                 more == Put(mgr.partial, id, [total |-> total, cells |-> whole])
      <4>1. c # NoId
        BY <3>2 DEF Holds
      <4>2. out = IF Len(whole) >= total
                  THEN Outcome(WithPartial(mgr, less), <<>>,
                               <<[id |-> id, cells |-> whole]>>, <<>>)
                  ELSE Outcome(WithPartial(mgr, more), <<>>, <<>>, <<>>)
        BY <2>1, <3>2 DEF Data, Yield, Quiet
      <4>3. \A partial \in {less, more} :
              /\ c \in DOMAIN partial <=> c \in DOMAIN mgr.partial
              /\ c \in DOMAIN partial => partial[c] = mgr.partial[c]
        BY <1>2 DEF Put, Without
      <4> HIDE DEF out, total, whole, less, more
      <4>4. CASE Len(whole) >= total
        <5>1. Fits(less, whole)
          BY <4>1, <4>2, <4>3, <4>4
        <5> HIDE DEF Fits
        <5> QED BY <5>1
      <4>5. CASE ~ (Len(whole) >= total)
        <5>1. Fits(more, whole)
          BY <4>1, <4>2, <4>3, <4>5
        <5> HIDE DEF Fits
        <5> QED BY <5>1
      <4> QED BY <4>4, <4>5
    <3> QED BY <3>1, <3>2
  <2>3. PICK partial, cells : Fits(partial, cells)
    BY <2>2
  <2> HIDE DEF out
  <2>4. /\ out.dvc = Manager(mgr.caps_negotiated, mgr.wanted, mgr.open, partial)
        /\ out.written = <<>> /\ out.opened = <<>>
        /\ out.data \in {<<>>, <<[id |-> id, cells |-> cells]>>}
    BY <2>3 DEF Outcome, WithPartial
  <2>5. /\ Holds(t, out.dvc, c) /\ out.dvc.wanted = mgr.wanted
        /\ out.dvc.open = mgr.open
    BY <2>3, <2>4 DEF Holds, Manager, Same
  <2>6. GivesData(mgr, out, s, t, c, strays)
    BY <1>2, <2>4, <2>5 DEF GivesData, Same
  <2> QED BY <2>5, <2>6 DEF Handled
<1>3. ASSUME NEW id \in strays, pdu = DataPdu(id, <<>>)
      PROVE  Handled(mgr, out, s, t, c, asked, strays)
  BY <1>2, <1>3
<1>4. ASSUME NEW id \in Ids \ {c}, NEW chunk, c # NoId,
             pdu = DataFirstPdu(id, 2, chunk)
      PROVE  Handled(mgr, out, s, t, c, asked, strays)
  <2> DEFINE more == Put(mgr.partial, id, [total |-> 2, cells |-> chunk])
  <2>1. /\ out = DataFirst(mgr, pdu) /\ pdu.id = id /\ pdu.chunk = chunk
        /\ pdu.total = 2
    BY <1>4 DEF HandleMessage, DataFirstPdu
  <2>2. out = IF Len(chunk) >= 2
              THEN Outcome(mgr, <<>>,
                           <<[id |-> id, cells |-> SubSeq(chunk, 1, 2)]>>, <<>>)
              ELSE Outcome(WithPartial(mgr, more), <<>>, <<>>, <<>>)
    BY <2>1 DEF DataFirst, Yield, Quiet
  <2>3. /\ c \in DOMAIN more <=> c \in DOMAIN mgr.partial
        /\ c \in DOMAIN more => more[c] = mgr.partial[c]
    BY <1>4 DEF Put
  <2> HIDE DEF out, more
  <2>4. /\ out.dvc \in {mgr, WithPartial(mgr, more)}
        /\ out.written = <<>> /\ out.opened = <<>>
        /\ out.data \in {<<>>, <<[id |-> id, cells |-> SubSeq(chunk, 1, 2)]>>}
    BY <2>2 DEF Outcome
  <2>5. /\ Holds(t, out.dvc, c) /\ out.dvc.wanted = mgr.wanted
        /\ out.dvc.open = mgr.open
    BY <1>4, <2>3, <2>4 DEF Holds, Manager, Same, WithPartial
  <2>6. GivesData(mgr, out, s, t, c, strays)
    BY <1>4, <2>4, <2>5 DEF GivesData, Same
  <2> QED BY <2>5, <2>6 DEF Handled, out
<1>5. ASSUME NEW id \in Ids \ {c}, c # NoId, pdu = ClosePdu(id)
      PROVE  Handled(mgr, out, s, t, c, asked, strays)
  <2> DEFINE less == Without(mgr.partial, id)
             open == OpenBut(mgr, id)
  <2>1. out = Close(mgr, pdu) /\ pdu.id = id
    BY <1>5 DEF HandleMessage, ClosePdu
  <2>2. /\ c \in DOMAIN less <=> c \in DOMAIN mgr.partial
        /\ c \in DOMAIN less => less[c] = mgr.partial[c]
        /\ DOMAIN open \subseteq DOMAIN mgr.open
    BY <1>5 DEF Without, OpenBut, Restrict
  <2>3. out = Outcome(WithPartial(WithOpen(mgr, open), less), <<>>, <<>>, <<>>)
    BY <2>1 DEF Close, Quiet
  <2> HIDE DEF out, less, open
  <2>4. /\ out.dvc = Manager(mgr.caps_negotiated, mgr.wanted, open, less)
        /\ out.written = <<>> /\ out.opened = <<>> /\ out.data = <<>>
    BY <2>3 DEF Outcome, WithPartial, WithOpen, Manager
  <2>5. /\ Holds(t, out.dvc, c) /\ out.dvc.wanted = mgr.wanted
        /\ out.dvc.open = open
    BY <1>5, <2>2, <2>4 DEF Holds, Manager, Same
  <2>6. GivesData(mgr, out, s, t, c, strays)
    BY <2>2, <2>4, <2>5 DEF GivesData, Same
  <2> QED BY <2>5, <2>6 DEF Handled, out
<1>6. ASSUME NEW id \in Ids \ {c}, NEW chunk, c # NoId, pdu = DataPdu(id, chunk)
      PROVE  Handled(mgr, out, s, t, c, asked, strays)
  BY <1>2, <1>6
<1> QED BY <1>1, <1>3, <1>4, <1>5, <1>6 DEF Elsewhere


LEMMA HandleRequest ==
  ASSUME NEW mgr, NEW s, NEW t, NEW c, NEW asked, NEW strays, NEW pdu,
         Place(s), Place(t), Holds(s, mgr, c), Asks(s, pdu, t, asked)
  PROVE  Handled(mgr, HandleMessage(mgr, pdu), s, t, c, asked, strays)
PROOF
<1> DEFINE out == HandleMessage(mgr, pdu)
           request == asked[s.answered + 1]
           accept == request.name \in mgr.wanted
           response == CreateResponse(request.id, accept)
           open == Put(mgr.open, request.name, request.id)
<1>1. /\ out = Answer(mgr, pdu, accept)
      /\ pdu.id = request.id /\ pdu.name = request.name
  <2>1. pdu = CreatePdu(request.id, request.name)
    BY DEF Asks
  <2>2. pdu.cmd = "create" /\ pdu.id = request.id /\ pdu.name = request.name
    BY <2>1 DEF CreatePdu
  <2>3. out = Create(mgr, pdu)
    BY <2>2 DEF HandleMessage
  <2> QED BY <2>2, <2>3 DEF Create
<1>2. \E written \in {<<response>>, <<CapabilityResponse, response>>} :
        out = IF accept
              THEN Outcome(WithOpen(Negotiated(mgr), open), written, <<>>,
                           <<[name |-> request.name, id |-> request.id]>>)
              ELSE Outcome(Negotiated(mgr), written, <<>>, <<>>)
  <2> DEFINE given == IF mgr.caps_negotiated THEN <<response>>
                      ELSE <<CapabilityResponse, response>>
  <2>1. out = IF accept
              THEN Outcome(WithOpen(Negotiated(mgr), open), given, <<>>,
                           <<[name |-> request.name, id |-> request.id]>>)
              ELSE Outcome(Negotiated(mgr), given, <<>>, <<>>)
    BY <1>1 DEF Answer
  <2>2. given \in {<<response>>, <<CapabilityResponse, response>>}
    OBVIOUS
  <2> HIDE DEF given, out, response, open, accept
  <2> QED BY <2>1, <2>2
<1>3. PICK written \in {<<response>>, <<CapabilityResponse, response>>} :
        out = IF accept
              THEN Outcome(WithOpen(Negotiated(mgr), open), written, <<>>,
                           <<[name |-> request.name, id |-> request.id]>>)
              ELSE Outcome(Negotiated(mgr), written, <<>>, <<>>)
  BY <1>2
<1>4. /\ out.written = written /\ out.data = <<>>
      /\ \/ /\ accept /\ out.opened = <<[name |-> request.name,
                                         id |-> request.id]>>
            /\ out.dvc = Manager(TRUE, mgr.wanted, open, mgr.partial)
         \/ /\ ~ accept /\ out.opened = <<>>
            /\ out.dvc = Manager(TRUE, mgr.wanted, mgr.open, mgr.partial)
  <2> HIDE DEF out, response, open, accept
  <2> QED BY <1>3 DEF Outcome, WithOpen, Negotiated, Manager
<1> HIDE DEF out, open
<1>5. Holds(t, out.dvc, c) /\ out.dvc.wanted = mgr.wanted
      /\ (~ accept => out.dvc.open = mgr.open)
  <2>1. t.whole = s.whole /\ t.begun = s.begun
    BY DEF Asks
  <2>2. /\ out.dvc = Manager(out.dvc.caps_negotiated, out.dvc.wanted,
                             out.dvc.open, out.dvc.partial)
        /\ out.dvc.partial = mgr.partial /\ out.dvc.wanted = mgr.wanted
        /\ (~ accept => out.dvc.open = mgr.open)
    <3> HIDE DEF accept
    <3> QED BY <1>4 DEF Manager
  <2> QED BY <2>1, <2>2 DEF Holds
<1>6. GivesAnswer(mgr, out, s, t, asked)
  BY <1>3, <1>4, <1>5 DEF GivesAnswer, Asks
<1> QED BY <1>5, <1>6 DEF Handled, out

LEMMA HandleOwn ==
  ASSUME NEW mgr, NEW s, NEW t, NEW c \in Ids, NEW asked, NEW strays, NEW pdu,
         Place(s), Place(t), Holds(s, mgr, c),
         \/ Sends(s, pdu, t, c) \/ Begins(s, pdu, t, c) \/ Ends(s, pdu, t, c)
         \/ Shuts(s, pdu, t, c)
  PROVE  Handled(mgr, HandleMessage(mgr, pdu), s, t, c, asked, strays)
PROOF
<1> DEFINE out == HandleMessage(mgr, pdu)
           n == s.whole + 1
           two == Cells(c, n)
           begun == [total |-> 2, cells |-> <<<<c, n, 1>>>>]
<1>1. c # NoId
  BY RouterAssumption DEF RouterAssumption
<1>2. Len(two) = 2 /\ SubSeq(two, 1, 2) = two
      /\ <<<<c, n, 1>>>> \o <<<<c, n, 2>>>> = two
      /\ Len(<<<<c, n, 1>>>>) = 1
  <2>1. <<<<c, n, 1>>>> \o <<<<c, n, 2>>>> = two
    BY PairJoined DEF Cells
  <2>2. Len(two) = 2 /\ two \in Seq({<<c, n, 1>>, <<c, n, 2>>})
    BY DEF Cells
  <2>3. SubSeq(two, 1, 2) = two
    BY <2>2, SubSeqFull
  <2> QED BY <2>1, <2>2, <2>3
<1>3. ASSUME NEW partial, NEW open, NEW data,
             out = Outcome(Manager(mgr.caps_negotiated, mgr.wanted, open, partial),
                           <<>>, data, <<>>),
             DOMAIN open \subseteq DOMAIN mgr.open,
             c \in DOMAIN partial <=> t.begun,
             t.begun => partial[c] = [total |-> 2,
                                      cells |-> <<<<c, t.whole + 1, 1>>>>],
             t.answered = s.answered,
             \/ t.whole = s.whole /\ data = <<>>
             \/ t.whole = s.whole + 1 /\ data = <<[id |-> c, cells |-> two]>>
      PROVE  Handled(mgr, out, s, t, c, asked, strays)
  <2> HIDE DEF out, two
  <2>1. /\ out.dvc = Manager(mgr.caps_negotiated, mgr.wanted, open, partial)
        /\ out.written = <<>> /\ out.opened = <<>> /\ out.data = data
    BY <1>3 DEF Outcome
  <2>2. /\ Holds(t, out.dvc, c) /\ out.dvc.wanted = mgr.wanted
        /\ out.dvc.open = open
    BY <1>1, <1>3, <2>1 DEF Holds, Manager
  <2>3. GivesData(mgr, out, s, t, c, strays)
    BY <1>3, <2>1, <2>2 DEF GivesData, two
  <2> QED BY <2>2, <2>3 DEF Handled
<1>4. mgr = Manager(mgr.caps_negotiated, mgr.wanted, mgr.open, mgr.partial)
      /\ (c \in DOMAIN mgr.partial <=> s.begun)
      /\ (s.begun => mgr.partial[c] = begun)
  BY DEF Holds
<1>5. CASE Sends(s, pdu, t, c)
  <2>1. out = Yield(mgr, c, two)
    <3>1. CASE pdu = DataPdu(c, two)
      <4>1. out = Data(mgr, pdu) /\ pdu.id = c /\ pdu.chunk = two
        BY <3>1 DEF HandleMessage, DataPdu
      <4>2. c \notin DOMAIN mgr.partial
        BY <1>4, <1>5 DEF Sends
      <4> QED BY <4>1, <4>2 DEF Data
    <3>2. CASE pdu = DataFirstPdu(c, 2, two)
      <4>1. out = DataFirst(mgr, pdu) /\ pdu.id = c /\ pdu.chunk = two
            /\ pdu.total = 2
        BY <3>2 DEF HandleMessage, DataFirstPdu
      <4>2. Len(two) >= 2
        BY <1>2
      <4> HIDE DEF out, two
      <4>3. out = IF Len(two) >= 2 THEN Yield(mgr, c, SubSeq(two, 1, 2))
                  ELSE Quiet(WithPartial(mgr, Put(mgr.partial, c,
                                       [total |-> 2, cells |-> two])))
        BY <4>1 DEF DataFirst
      <4> QED BY <4>2, <4>3, <1>2
    <3> QED BY <1>5, <3>1, <3>2 DEF Sends
  <2> HIDE DEF out, two
  <2>2. out = Outcome(Manager(mgr.caps_negotiated, mgr.wanted, mgr.open,
                              mgr.partial),
                      <<>>, <<[id |-> c, cells |-> two]>>, <<>>)
    BY <2>1, <1>4 DEF Yield
  <2>3. /\ t.answered = s.answered /\ t.whole = s.whole + 1 /\ ~ t.begun
        /\ ~ s.begun
    BY <1>5 DEF Sends
  <2> QED BY <1>3, <1>4, <2>2, <2>3 DEF out
<1>6. CASE Begins(s, pdu, t, c)
  <2> DEFINE partial == Put(mgr.partial, c, begun)
  <2>1. out = Quiet(WithPartial(mgr, partial))
    <3>1. out = DataFirst(mgr, pdu) /\ pdu.id = c /\ pdu.total = 2
          /\ pdu.chunk = <<<<c, n, 1>>>>
      BY <1>6 DEF HandleMessage, DataFirstPdu, Begins
    <3> HIDE DEF out
    <3> QED BY <3>1, <1>2 DEF DataFirst
  <2>2. out = Outcome(Manager(mgr.caps_negotiated, mgr.wanted, mgr.open, partial),
                      <<>>, <<>>, <<>>)
    BY <2>1 DEF Quiet, WithPartial
  <2>3. c \in DOMAIN partial /\ partial[c] = begun
    BY DEF Put
  <2>4. /\ t.answered = s.answered /\ t.whole = s.whole /\ t.begun
        /\ t.whole + 1 = n
    BY <1>6 DEF Begins
  <2> HIDE DEF out, partial
  <2> QED BY <1>3, <2>2, <2>3, <2>4 DEF out
<1>7. CASE Ends(s, pdu, t, c)
  <2> DEFINE partial == Without(mgr.partial, c)
  <2>1. out = Yield(WithPartial(mgr, partial), c, two)
    <3>1. out = Data(mgr, pdu) /\ pdu.id = c /\ pdu.chunk = <<<<c, n, 2>>>>
      BY <1>7 DEF HandleMessage, DataPdu, Ends
    <3>2. c \in DOMAIN mgr.partial /\ mgr.partial[c].total = 2
          /\ mgr.partial[c].cells = <<<<c, n, 1>>>>
      BY <1>4, <1>7 DEF Ends
    <3>3. Len(two) >= 2 /\ mgr.partial[c].cells \o pdu.chunk = two
      BY <1>2, <3>1, <3>2
    <3> HIDE DEF out, two, n
    <3> QED BY <3>1, <3>2, <3>3 DEF Data
  <2>2. out = Outcome(Manager(mgr.caps_negotiated, mgr.wanted, mgr.open, partial),
                      <<>>, <<[id |-> c, cells |-> two]>>, <<>>)
    <3> HIDE DEF out, two
    <3> QED BY <2>1 DEF Yield, WithPartial
  <2>3. c \notin DOMAIN partial
    BY DEF Without
  <2>4. t.answered = s.answered /\ t.whole = s.whole + 1 /\ ~ t.begun
    BY <1>7 DEF Ends
  <2> HIDE DEF out, partial, two
  <2> QED BY <1>3, <2>2, <2>3, <2>4 DEF out
<1>8. CASE Shuts(s, pdu, t, c)
  <2> DEFINE partial == Without(mgr.partial, c)
             open == OpenBut(mgr, c)
  <2>1. out = Quiet(WithPartial(WithOpen(mgr, open), partial))
    BY <1>8 DEF HandleMessage, ClosePdu, Shuts, Close
  <2>2. out = Outcome(Manager(mgr.caps_negotiated, mgr.wanted, open, partial),
                      <<>>, <<>>, <<>>)
    BY <2>1 DEF Quiet, WithPartial, WithOpen, Manager
  <2>3. c \notin DOMAIN partial /\ DOMAIN open \subseteq DOMAIN mgr.open
    BY DEF Without, OpenBut, Restrict
  <2>4. t.answered = s.answered /\ t.whole = s.whole /\ ~ t.begun
    BY <1>8 DEF Shuts
  <2> HIDE DEF out, partial, open
  <2> QED BY <1>3, <2>2, <2>3, <2>4 DEF out
<1> QED BY <1>5, <1>6, <1>7, <1>8

LEMMA HandleMove ==
  ASSUME NEW mgr, NEW s, NEW t, NEW c, NEW asked, NEW strays, NEW pdu,
         Place(s), Place(t), Holds(s, mgr, c), c \notin strays,
         Moves(s, pdu, t, c, asked, strays)
  PROVE  Handled(mgr, HandleMessage(mgr, pdu), s, t, c, asked, strays)
PROOF
<1>1. CASE Elsewhere(pdu, c, strays) /\ Same(s, t)
  BY <1>1, HandleElsewhere
<1>2. CASE Asks(s, pdu, t, asked)
  BY <1>2, HandleRequest
<1>3. CASE /\ c \in Ids
           /\ \/ Sends(s, pdu, t, c) \/ Begins(s, pdu, t, c)
              \/ Ends(s, pdu, t, c) \/ Shuts(s, pdu, t, c)
  BY <1>3, HandleOwn
<1> QED BY <1>1, <1>2, <1>3 DEF Moves


-----------------------------------------------------------------------------
(* The inductive invariant.                                                 *)

(* Channels with data in spite of a declining answer, never the graphics    *)
(* channel.                                                                 *)
Strays ==
  {id \in Ids : /\ channel[id] = "declined" /\ stray > 0
                /\ \A k \in DOMAIN answers :
                     answers[k].id = id => ~ answers[k].accept}

(* Where the client is, and where the server is. *)
Queued == IF \E k \in DOMAIN pending : pending[k].id = chan THEN 1 ELSE 0

ClientPlace ==
  At(demux, Len(answers), Len(received) + Queued, chan \in DOMAIN dvc.partial)

ServerPlace ==
  At(<<>>, Len(offers), IF chan = NoId THEN 0 ELSE Len(sent[chan]),
     chan # NoId /\ fragment[chan] # <<>>)

(* The second chunk of a message leads to where its first half does not.    *)
Leads(b, remains, t, c, asked, strays) ==
  \/ remains = <<>> /\ b = t
  \/ \E m : /\ remains = <<m>> /\ m.channel = "drdynvc"
            /\ Step(b, m, t, c, asked, strays)

Way(s, line, remains, t, c, asked, strays) ==
  \E b : Path(s, line, b, c, asked, strays)
         /\ Leads(b, remains, t, c, asked, strays)

WayInv == Way(ClientPlace, wire, rest, ServerPlace, chan, offers, Strays)

Lines ==
  /\ IsSeq(wire) /\ IsSeq(up) /\ IsSeq(offers) /\ IsSeq(answers)
  /\ IsSeq(pending) /\ IsSeq(received)

ServerInv ==
  /\ stray \in Nat
  /\ channel \in [Ids -> {"free", "offered", "open", "declined"}]
  /\ fragment = [id \in Ids |-> fragment[id]]
  /\ sent = [id \in Ids |-> sent[id]]
  /\ \A id \in Ids :
       /\ IsSeq(sent[id])
       /\ \A n \in DOMAIN sent[id] : sent[id][n] = Cells(id, n)
       /\ fragment[id] # <<>> =>
            /\ fragment[id] = <<<<id, Len(sent[id]) + 1, 2>>>>
            /\ Len(sent[id]) < MaxMessages

(* A channel is offered as long as there is a request for it that the       *)
(* client has not answered, or an answer the server has not read, and there *)
(* is one only of either.                                                   *)
Asked == Len(answers) + 1 .. Len(offers)
Answered(m) == m.kind = "create"

RequestInv ==
  /\ Len(answers) <= Len(offers)
  /\ \A k \in DOMAIN offers : offers[k].id \in Ids
  /\ \A k \in DOMAIN answers : answers[k].id = offers[k].id
  /\ \A k \in Asked :
       /\ channel[offers[k].id] = "offered"
       /\ \A j \in Asked : offers[j].id = offers[k].id => j = k
  /\ \A k \in DOMAIN up : Answered(up[k]) =>
       /\ up[k].id \in Ids /\ channel[up[k].id] = "offered"
       /\ \A j \in Asked : offers[j].id # up[k].id
       /\ \A j \in DOMAIN up :
            Answered(up[j]) /\ up[j].id = up[k].id => j = k

(* Before run_session asks for the graphics channel, none is open. *)
Beforehand ==
  /\ chan = NoId /\ received = <<>> /\ DOMAIN dvc.open = {}
  /\ \A k \in DOMAIN answers : ~ answers[k].accept
  /\ \A k \in DOMAIN up : Answered(up[k]) => ~ up[k].accept
  /\ \A id \in Ids : /\ channel[id] # "open"
                     /\ sent[id] = <<>> /\ fragment[id] = <<>>
  /\ \A k \in DOMAIN pending : pending[k].id \in Strays

Drawing ==
  /\ chan \in Ids
  /\ \E k \in DOMAIN answers : answers[k].id = chan /\ answers[k].accept
  /\ \A k \in DOMAIN pending : pending[k].id = chan =>
       /\ pending[k].cells = Cells(chan, Len(received) + 1)
       /\ \A j \in DOMAIN pending : pending[j].id = chan => j = k

ClientInv ==
  /\ pc \in Finalizing \cup {"active", "open", "graphics", "failed"}
  /\ dvc.wanted = IF pc \in {"open", "graphics"} THEN {Gfx} ELSE {}
  /\ Holds(ClientPlace, dvc, chan)
  /\ IF pc = "graphics" THEN Drawing ELSE Beforehand

RouterInv == Lines /\ ServerInv /\ RequestInv /\ ClientInv /\ WayInv


LEMMA AtPlace ==
  ASSUME NEW half, NEW answered \in Nat, NEW whole \in Nat, NEW begun \in BOOLEAN
  PROVE  LET s == At(half, answered, whole, begun)
         IN  /\ Place(s) /\ s.half = half /\ s.answered = answered
             /\ s.whole = whole /\ s.begun = begun
BY DEF At, Place

LEMMA ClientPlaced ==
  ASSUME Lines
  PROVE  /\ Place(ClientPlace) /\ ClientPlace.half = demux
         /\ ClientPlace.answered = Len(answers)
         /\ ClientPlace.whole = Len(received) + Queued
         /\ ClientPlace.begun = (chan \in DOMAIN dvc.partial)
         /\ Len(received) \in Nat /\ Queued \in {0, 1}
PROOF
<1>1. Len(answers) \in Nat /\ Len(received) \in Nat
  BY SeqAppend DEF Lines
<1>2. Queued \in {0, 1}
  BY DEF Queued
<1> DEFINE n == Len(answers)
           w == Len(received) + Queued
           b == chan \in DOMAIN dvc.partial
<1>3. n \in Nat /\ w \in Nat /\ b \in BOOLEAN
  BY <1>1, <1>2
<1>4. ClientPlace = At(demux, n, w, b)
  BY DEF ClientPlace
<1> HIDE DEF n, w, b
<1>5. /\ Place(ClientPlace) /\ ClientPlace.half = demux
      /\ ClientPlace.answered = n /\ ClientPlace.whole = w
      /\ ClientPlace.begun = b
  BY <1>3, <1>4, AtPlace
<1> QED BY <1>1, <1>2, <1>5 DEF n, w, b

LEMMA ServerPlaced ==
  ASSUME Lines, ServerInv, chan \in Ids \cup {NoId}
  PROVE  /\ Place(ServerPlace) /\ ServerPlace.half = <<>>
         /\ ServerPlace.answered = Len(offers)
         /\ ServerPlace.whole = IF chan = NoId THEN 0 ELSE Len(sent[chan])
         /\ ServerPlace.begun = (chan # NoId /\ fragment[chan] # <<>>)
PROOF
<1> DEFINE n == Len(offers)
           w == IF chan = NoId THEN 0 ELSE Len(sent[chan])
           b == chan # NoId /\ fragment[chan] # <<>>
<1>1. n \in Nat /\ w \in Nat /\ b \in BOOLEAN
  <2>1. n \in Nat
    BY SeqAppend DEF Lines
  <2>2. CASE chan \in Ids
    <3>1. IsSeq(sent[chan])
      BY <2>2 DEF ServerInv
    <3> QED BY <2>1, <3>1, SeqAppend
  <2>3. CASE chan = NoId
    BY <2>1, <2>3
  <2> QED BY <2>2, <2>3
<1>2. ServerPlace = At(<<>>, n, w, b)
  BY DEF ServerPlace
<1> HIDE DEF n, w, b
<1>3. /\ Place(ServerPlace) /\ ServerPlace.half = <<>>
      /\ ServerPlace.answered = n /\ ServerPlace.whole = w
      /\ ServerPlace.begun = b
  BY <1>1, <1>2, AtPlace
<1> QED BY <1>3 DEF n, w, b

LEMMA InitRouterInv == Init => RouterInv
PROOF
<1> SUFFICES ASSUME Init PROVE RouterInv
  OBVIOUS
<1> USE DEF Init
<1>1. Lines
  BY SeqEmpty DEF Lines
<1>2. ServerInv
  BY SeqEmpty DEF ServerInv
<1>3. RequestInv
  BY DEF RequestInv, Asked
<1>4. Queued = 0 /\ dvc.partial = <<>> /\ dvc.open = <<>> /\ dvc.wanted = {}
      /\ dvc = Manager(dvc.caps_negotiated, dvc.wanted, dvc.open, dvc.partial)
  BY DEF Queued, NewManager, Manager
<1>5. ClientPlace = ServerPlace
  BY <1>4 DEF ClientPlace, ServerPlace
<1>6. Place(ServerPlace)
  BY <1>1, <1>2, ServerPlaced
<1>7. ~ ClientPlace.begun
  <2>1. chan \notin DOMAIN dvc.partial
    BY <1>4
  <2>2. ClientPlace.begun = (chan \in DOMAIN dvc.partial)
    BY <1>1, ClientPlaced
  <2> QED BY <2>1, <2>2
<1>8. Holds(ClientPlace, dvc, chan)
  BY <1>4, <1>7 DEF Holds
<1>9. ClientInv
  BY <1>4, <1>8 DEF ClientInv, Beforehand, Finalizing
<1>10. WayInv
  <2>1. Path(ClientPlace, <<>>, ServerPlace, chan, offers, Strays)
    BY <1>5, <1>6, PathEmpty
  <2>2. Leads(ServerPlace, rest, ServerPlace, chan, offers, Strays)
    BY DEF Leads
  <2> QED BY <2>1, <2>2 DEF WayInv, Way
<1> QED BY <1>1, <1>2, <1>3, <1>9, <1>10 DEF RouterInv

-----------------------------------------------------------------------------
(* What is written to the line, and what is read of it, in terms of Way.    *)

LEMMA WayWrites ==
  ASSUME NEW s, NEW line, NEW remains, NEW t, NEW c, NEW asked, NEW strays,
         Way(s, line, remains, t, c, asked, strays), IsSeq(line),
         NEW m, m = UserChannel \/ \E body : m = Io(body)
  PROVE  Way(s, Append(line, m), remains, t, c, asked, strays)
PROOF
<1>1. PICK b : Path(s, line, b, c, asked, strays)
               /\ Leads(b, remains, t, c, asked, strays)
  BY DEF Way
<1>2. Place(b)
  BY <1>1, PathEnds, SeqAppend
<1>3. Step(b, m, b, c, asked, strays)
  BY DEF Step
<1>4. Path(s, Append(line, m), b, c, asked, strays)
  BY <1>1, <1>2, <1>3, PathExtend
<1> QED BY <1>1, <1>4 DEF Way

LEMMA WayPosts ==
  ASSUME NEW s, NEW line, NEW t, NEW c, NEW asked, NEW strays,
         Way(s, line, <<>>, t, c, asked, strays), IsSeq(line), t.half = <<>>,
         NEW pdu, NEW u, Place(u), u.half = <<>>,
         Moves(t, pdu, u, c, asked, strays),
         NEW longer, NEW remains,
         \/ /\ longer = Append(line, Chunk(TRUE, TRUE, PiecesOf(pdu, 1)))
            /\ remains = <<>>
         \/ /\ longer = Append(line, Chunk(TRUE, FALSE, <<PiecesOf(pdu, 2)[1]>>))
            /\ remains = <<Chunk(FALSE, TRUE, <<PiecesOf(pdu, 2)[2]>>)>>
  PROVE  Way(s, longer, remains, u, c, asked, strays)
PROOF
<1>1. Path(s, line, t, c, asked, strays)
  BY DEF Way, Leads
<1>2. Place(t)
  BY <1>1, PathEnds, SeqAppend
<1>3. CASE /\ longer = Append(line, Chunk(TRUE, TRUE, PiecesOf(pdu, 1)))
           /\ remains = <<>>
  <2> DEFINE m == Chunk(TRUE, TRUE, PiecesOf(pdu, 1))
  <2>1. Step(t, m, u, c, asked, strays)
    BY DEF Step
  <2>2. Path(s, longer, u, c, asked, strays)
    BY <1>1, <1>3, <2>1, PathExtend
  <2>3. Leads(u, remains, u, c, asked, strays)
    BY <1>3 DEF Leads
  <2> QED BY <2>2, <2>3 DEF Way
<1>4. CASE /\ longer = Append(line, Chunk(TRUE, FALSE, <<PiecesOf(pdu, 2)[1]>>))
           /\ remains = <<Chunk(FALSE, TRUE, <<PiecesOf(pdu, 2)[2]>>)>>
  <2> DEFINE m == Chunk(TRUE, FALSE, <<First(pdu)>>)
             r == Chunk(FALSE, TRUE, <<Second(pdu)>>)
             b == At(<<First(pdu)>>, t.answered, t.whole, t.begun)
  <2>1. longer = Append(line, m) /\ remains = <<r>>
    <3>1. PiecesOf(pdu, 2)[1] = First(pdu) /\ PiecesOf(pdu, 2)[2] = Second(pdu)
      BY DEF PiecesOf, First, Second
    <3> QED BY <1>4, <3>1
  <2>2. Place(b) /\ b.half = <<First(pdu)>> /\ Same(t, b)
    BY <1>2, AtPlace DEF Place, Same
  <2> HIDE DEF b
  <2>3. Step(t, m, b, c, asked, strays)
    BY <2>2 DEF Step
  <2>4. Moves(b, pdu, u, c, asked, strays)
    BY <2>2 DEF Moves, Same, Asks, Sends, Begins, Ends, Shuts
  <2>5. Step(b, r, u, c, asked, strays) /\ r.channel = "drdynvc"
    BY <2>2, <2>4 DEF Step, Chunk
  <2> HIDE DEF m, r
  <2>6. Path(s, longer, b, c, asked, strays)
    BY <1>1, <2>1, <2>2, <2>3, PathExtend
  <2>7. Leads(b, remains, u, c, asked, strays)
    BY <2>1, <2>5 DEF Leads
  <2> QED BY <2>6, <2>7 DEF Way
<1> QED BY <1>3, <1>4

LEMMA WayFinishes ==
  ASSUME NEW s, NEW line, NEW remains, NEW t, NEW c, NEW asked, NEW strays,
         Way(s, line, remains, t, c, asked, strays), IsSeq(line), Place(t),
         remains # <<>>
  PROVE  Way(s, Append(line, Head(remains)), <<>>, t, c, asked, strays)
PROOF
<1>1. PICK b : Path(s, line, b, c, asked, strays)
               /\ Leads(b, remains, t, c, asked, strays)
  BY DEF Way
<1>2. PICK m : remains = <<m>> /\ Step(b, m, t, c, asked, strays)
  BY <1>1 DEF Leads
<1>3. Head(remains) = m
  BY <1>2
<1>4. Path(s, Append(line, m), t, c, asked, strays)
  BY <1>1, <1>2, PathExtend
<1>5. Leads(t, <<>>, t, c, asked, strays)
  BY DEF Leads
<1> QED BY <1>3, <1>4, <1>5 DEF Way

LEMMA WayReads ==
  ASSUME NEW s, NEW line, NEW remains, NEW t, NEW c, NEW asked, NEW strays,
         Way(s, line, remains, t, c, asked, strays), IsSeq(line), line # <<>>
  PROVE  \E u : /\ Place(u) /\ Step(s, Head(line), u, c, asked, strays)
                /\ Way(u, Tail(line), remains, t, c, asked, strays)
PROOF
<1>1. PICK b : Path(s, line, b, c, asked, strays)
               /\ Leads(b, remains, t, c, asked, strays)
  BY DEF Way
<1>2. PICK u : /\ Place(u) /\ Step(s, Head(line), u, c, asked, strays)
               /\ Path(u, Tail(line), b, c, asked, strays)
  BY <1>1, PathTail
<1> QED BY <1>1, <1>2 DEF Way

LEMMA WayGrows ==
  ASSUME NEW s, NEW line, NEW remains, NEW t, NEW c, NEW asked, NEW strays,
         NEW d, NEW requests, NEW more,
         Way(s, line, remains, t, c, asked, strays), IsSeq(line),
         d = c \/ c = NoId,
         Len(asked) \in Nat, Len(requests) \in Nat,
         Len(asked) <= Len(requests),
         \A k \in 1 .. Len(asked) : requests[k] = asked[k],
         strays \subseteq more
  PROVE  Way(s, line, remains, t, d, requests, more)
PROOF
<1>1. PICK b : Path(s, line, b, c, asked, strays)
               /\ Leads(b, remains, t, c, asked, strays)
  BY DEF Way
<1>2. Path(s, line, b, d, requests, more)
  BY <1>1, PathGrows
<1>3. Place(b)
  BY <1>1, PathEnds, SeqAppend
<1>4. Leads(b, remains, t, d, requests, more)
  <2>1. ASSUME NEW m, Step(b, m, t, c, asked, strays)
        PROVE  Step(b, m, t, d, requests, more)
    BY <1>3, <2>1, StepMonotonic
  <2> QED BY <1>1, <2>1 DEF Leads
<1> QED BY <1>2, <1>4 DEF Way


-----------------------------------------------------------------------------
(* The steps of the server.                                                 *)

(* What a step that leaves the client alone makes of the client's part.     *)
LEMMA ClientStays ==
  ASSUME RouterInv, UNCHANGED <<up, clientVars>>, Strays \subseteq Strays',
         pc # "graphics" =>
           \A id \in Ids : /\ channel'[id] # "open"
                           /\ sent'[id] = <<>> /\ fragment'[id] = <<>>
  PROVE  ClientInv' /\ ClientPlace' = ClientPlace
PROOF
<1> USE DEF RouterInv
<1>1. UNCHANGED <<up, pc, demux, dvc, pending, answers, chan, received>>
  BY DEF clientVars, routerVars
<1>2. ClientPlace' = ClientPlace
  BY <1>1 DEF ClientPlace, Queued
<1>3. Holds(ClientPlace, dvc, chan)'
  BY <1>1, <1>2 DEF ClientInv
<1>4. CASE pc = "graphics"
  <2>1. Drawing'
    BY <1>1, <1>4 DEF ClientInv, Drawing
  <2> QED BY <1>1, <1>2, <1>3, <1>4, <2>1 DEF ClientInv
<1>5. CASE pc # "graphics"
  <2>1. Beforehand
    BY <1>5 DEF ClientInv
  <2>2. \A k \in DOMAIN pending : pending[k].id \in Strays'
    BY <2>1 DEF Beforehand
  <2>3. Beforehand'
    BY <1>1, <1>5, <2>1, <2>2 DEF Beforehand
  <2> QED BY <1>1, <1>2, <1>3, <1>5, <2>3 DEF ClientInv
<1> QED BY <1>4, <1>5

LEMMA ChanTyped == ClientInv => chan \in Ids \cup {NoId}
BY DEF ClientInv, Drawing, Beforehand

(* Nothing but the line changes. *)
LEMMA OnlyLine ==
  ASSUME RouterInv,
         UNCHANGED <<up, channel, fragment, stray, sent, offers, clientVars>>
  PROVE  /\ ServerInv' /\ RequestInv' /\ ClientInv'
         /\ ClientPlace' = ClientPlace /\ ServerPlace' = ServerPlace
         /\ Strays' = Strays /\ chan' = chan /\ offers' = offers
         /\ IsSeq(wire') => Lines'
PROOF
<1>1. UNCHANGED <<up, channel, fragment, stray, sent, offers, pc, demux, dvc,
                  pending, answers, chan, received>>
  BY DEF channelVars, clientVars, routerVars
<1>2. Strays' = Strays /\ ServerPlace' = ServerPlace
  BY <1>1 DEF Strays, ServerPlace
<1>3. ServerInv'
  BY <1>1 DEF ServerInv, RouterInv
<1>4. RequestInv'
  BY <1>1 DEF RequestInv, RouterInv, Asked
<1>5. pc # "graphics" =>
        \A id \in Ids : /\ channel'[id] # "open"
                        /\ sent'[id] = <<>> /\ fragment'[id] = <<>>
  BY <1>1 DEF RouterInv, ClientInv, Beforehand
<1>6. ClientInv' /\ ClientPlace' = ClientPlace
  BY <1>2, <1>5, ClientStays
<1>7. IsSeq(wire') => Lines'
  BY <1>1 DEF Lines, RouterInv
<1> QED BY <1>1, <1>2, <1>3, <1>4, <1>6, <1>7

LEMMA InterleavedRouterInv ==
  ASSUME RouterInv, NEW m, m = UserChannel \/ \E body : m = Io(body),
         wire' = Append(wire, m), UNCHANGED <<up, rest, channelVars, clientVars>>
  PROVE  RouterInv'
PROOF
<1>1. /\ ServerInv' /\ RequestInv' /\ ClientInv'
      /\ ClientPlace' = ClientPlace /\ ServerPlace' = ServerPlace
      /\ Strays' = Strays /\ chan' = chan /\ offers' = offers
      /\ IsSeq(wire') => Lines'
  BY OnlyLine DEF channelVars
<1>2. IsSeq(wire)
  BY DEF RouterInv, Lines
<1>3. IsSeq(wire')
  BY <1>2, SeqAppend
<1>4. Way(ClientPlace, Append(wire, m), rest, ServerPlace, chan, offers, Strays)
  BY <1>2, WayWrites DEF RouterInv, WayInv
<1>5. WayInv'
  BY <1>1, <1>4 DEF WayInv
<1> QED BY <1>1, <1>3, <1>5 DEF RouterInv

LEMMA SendRestRouterInv == RouterInv /\ SendRest => RouterInv'
PROOF
<1> SUFFICES ASSUME RouterInv, SendRest PROVE RouterInv'
  OBVIOUS
<1>1. /\ rest # <<>> /\ wire' = Append(wire, Head(rest)) /\ rest' = <<>>
      /\ UNCHANGED <<up, channelVars, clientVars>>
  BY DEF SendRest
<1>2. /\ ServerInv' /\ RequestInv' /\ ClientInv'
      /\ ClientPlace' = ClientPlace /\ ServerPlace' = ServerPlace
      /\ Strays' = Strays /\ chan' = chan /\ offers' = offers
      /\ IsSeq(wire') => Lines'
  BY <1>1, OnlyLine DEF channelVars
<1>3. IsSeq(wire)
  BY DEF RouterInv, Lines
<1>4. IsSeq(wire')
  BY <1>1, <1>3, SeqAppend
<1>5. Place(ServerPlace)
  BY ServerPlaced, ChanTyped DEF RouterInv
<1>6. Way(ClientPlace, Append(wire, Head(rest)), <<>>, ServerPlace, chan, offers,
          Strays)
  BY <1>1, <1>3, <1>5, WayFinishes DEF RouterInv, WayInv
<1>7. WayInv'
  BY <1>1, <1>2, <1>6 DEF WayInv
<1> QED BY <1>2, <1>4, <1>7 DEF RouterInv

(* A message of the static channel that takes the server to its new place.  *)
LEMMA PostedRouterInv ==
  ASSUME RouterInv, NEW pdu, SendPdu(pdu), ServerInv', RequestInv',
         Strays \subseteq Strays', IsSeq(offers'),
         Len(offers) <= Len(offers'),
         \A k \in 1 .. Len(offers) : offers'[k] = offers[k],
         Moves(ServerPlace, pdu, ServerPlace', chan, offers', Strays'),
         pc # "graphics" =>
           \A id \in Ids : /\ channel'[id] # "open"
                           /\ sent'[id] = <<>> /\ fragment'[id] = <<>>
  PROVE  RouterInv'
PROOF
<1>1. /\ rest = <<>> /\ UNCHANGED <<up, clientVars>>
      /\ \/ /\ wire' = Append(wire, Chunk(TRUE, TRUE, PiecesOf(pdu, 1)))
            /\ rest' = <<>>
         \/ /\ wire' = Append(wire, Chunk(TRUE, FALSE, <<PiecesOf(pdu, 2)[1]>>))
            /\ rest' = <<Chunk(FALSE, TRUE, <<PiecesOf(pdu, 2)[2]>>)>>
  BY DEF SendPdu
<1>2. ClientInv' /\ ClientPlace' = ClientPlace
  BY <1>1, ClientStays
<1>3. /\ IsSeq(wire) /\ IsSeq(offers) /\ chan' = chan
      /\ UNCHANGED <<up, answers, pending, received>>
  BY <1>1 DEF RouterInv, Lines, clientVars, routerVars
<1>4. IsSeq(wire')
  <2>1. PICK m : wire' = Append(wire, m)
    BY <1>1
  <2> QED BY <1>3, <2>1, SeqAppend
<1>5. Lines'
  BY <1>3, <1>4 DEF RouterInv, Lines
<1>6. Place(ServerPlace) /\ ServerPlace.half = <<>>
  BY ServerPlaced, ChanTyped DEF RouterInv
<1>7. Place(ServerPlace') /\ ServerPlace'.half = <<>>
  <2>1. (Lines /\ ServerInv /\ chan \in Ids \cup {NoId}
          => Place(ServerPlace) /\ ServerPlace.half = <<>>)'
    BY ServerPlaced, PTL
  <2>2. chan' \in Ids \cup {NoId}
    BY <1>3, ChanTyped DEF RouterInv
  <2> QED BY <1>5, <2>1, <2>2
<1>8. Way(ClientPlace, wire, <<>>, ServerPlace, chan, offers', Strays')
  <2>1. Way(ClientPlace, wire, <<>>, ServerPlace, chan, offers, Strays)
    BY <1>1 DEF RouterInv, WayInv
  <2>2. Len(offers) \in Nat /\ Len(offers') \in Nat
    BY <1>3, SeqAppend
  <2> QED BY <1>3, <2>1, <2>2, WayGrows
<1>9. Way(ClientPlace, wire', rest', ServerPlace', chan, offers', Strays')
  BY <1>1, <1>3, <1>6, <1>7, <1>8, WayPosts
<1>10. WayInv'
  BY <1>2, <1>3, <1>9 DEF WayInv
<1> QED BY <1>2, <1>5, <1>10 DEF RouterInv


LEMMA SendCapabilitiesRouterInv == RouterInv /\ SendCapabilities => RouterInv'
PROOF
<1> SUFFICES ASSUME RouterInv, SendCapabilities PROVE RouterInv'
  OBVIOUS
<1>1. /\ SendPdu(CapabilityPdu)
      /\ UNCHANGED <<up, channel, fragment, stray, sent, offers, clientVars>>
  BY DEF SendCapabilities, SendPdu
<1>2. /\ ServerInv' /\ RequestInv'
      /\ Strays' = Strays /\ ServerPlace' = ServerPlace
  BY <1>1, OnlyLine
<1>3. Moves(ServerPlace, CapabilityPdu, ServerPlace', chan, offers', Strays')
  BY <1>2 DEF Moves, Elsewhere, Same
<1>4. IsSeq(offers) /\ Len(offers) \in Nat
  BY SeqAppend DEF RouterInv, Lines
<1>5. pc # "graphics" =>
        \A id \in Ids : /\ channel'[id] # "open"
                        /\ sent'[id] = <<>> /\ fragment'[id] = <<>>
  BY <1>1 DEF RouterInv, ClientInv, Beforehand
<1> QED BY <1>1, <1>2, <1>3, <1>4, <1>5, PostedRouterInv

LEMMA OfferRouterInv ==
  ASSUME RouterInv, NEW id \in Ids, NEW name \in Names, Offer(id, name)
  PROVE  RouterInv'
PROOF
<1> DEFINE o == [id |-> id, name |-> name]
           n == Len(offers)
           a == Len(answers)
           pdu == CreatePdu(id, name)
<1>1. /\ channel[id] \in {"free", "declined"}
      /\ channel[id] = "declined" => stray = 0
      /\ SendPdu(pdu)
      /\ channel' = [channel EXCEPT ![id] = "offered"]
      /\ offers' = Append(offers, o)
      /\ UNCHANGED <<up, fragment, stray, sent, clientVars>>
  BY DEF Offer, SendPdu
<1>2. UNCHANGED <<answers, chan, pc, up>>
  BY <1>1 DEF clientVars, routerVars
<1>3. /\ IsSeq(offers') /\ n \in Nat /\ Len(offers') = n + 1
      /\ DOMAIN offers = 1 .. n /\ DOMAIN offers' = 1 .. n + 1
      /\ \A k \in 1 .. n : offers'[k] = offers[k]
      /\ offers'[n + 1] = o
      /\ a \in Nat /\ DOMAIN answers = 1 .. a
  BY <1>1, SeqAppend DEF RouterInv, Lines
<1>4. channel \in [Ids -> {"free", "offered", "open", "declined"}]
      /\ stray \in Nat
  BY DEF RouterInv, ServerInv
<1>5. channel'[id] = "offered" /\ \A i \in Ids : i # id => channel'[i] = channel[i]
  BY <1>1, <1>4
<1>6. Strays \subseteq Strays'
  <2>1. ASSUME NEW i \in Strays PROVE i \in Strays'
    <3>1. i # id
      BY <1>1, <1>4, <2>1 DEF Strays
    <3> QED BY <1>1, <1>2, <1>5, <2>1, <3>1 DEF Strays
  <2> QED BY <2>1
<1>7. ServerInv'
  <2>1. channel' \in [Ids -> {"free", "offered", "open", "declined"}]
    BY <1>1, <1>4
  <2> QED BY <1>1, <2>1 DEF RouterInv, ServerInv
<1> HIDE DEF a, n, o, pdu
<1>8. Asked = a + 1 .. n /\ Asked' = a + 1 .. n + 1
  BY <1>2, <1>3 DEF Asked, a, n
<1>9. a <= n
  BY DEF RouterInv, RequestInv, a, n
<1>10. \A k \in Asked : /\ k \in 1 .. n /\ offers[k].id \in Ids
                        /\ offers[k].id # id
  <2>1. \A k \in Asked : k \in 1 .. n
    BY <1>3, <1>8
  <2>2. \A k \in Asked : channel[offers[k].id] = "offered" /\ offers[k].id \in Ids
    BY <1>3, <2>1 DEF RouterInv, RequestInv
  <2> QED BY <1>1, <2>1, <2>2
<1>11. o.id = id /\ o.name = name
  BY DEF o
<1>12. RequestInv'
  <2>1. Len(answers') <= Len(offers')
    BY <1>2, <1>3, <1>9 DEF a
  <2>2. \A k \in 1 .. n + 1 : k \in 1 .. n \/ k = n + 1
    BY <1>3
  <2>3. \A k \in DOMAIN offers' : offers'[k].id \in Ids
    BY <1>3, <1>11, <2>2 DEF RouterInv, RequestInv
  <2>4. \A k \in DOMAIN answers' : answers'[k].id = offers'[k].id
    <3>1. \A k \in 1 .. a : k \in 1 .. n
      BY <1>3, <1>9
    <3> QED BY <1>2, <1>3, <3>1 DEF RouterInv, RequestInv
  <2>5. \A k \in Asked' : k \in Asked \/ k = n + 1
    BY <1>3, <1>8, <1>9
  <2>6. \A k \in Asked : channel'[offers'[k].id] = "offered"
                         /\ offers'[k] = offers[k]
    BY <1>3, <1>5, <1>10 DEF RouterInv, RequestInv
  <2>7. offers'[n + 1].id = id
    BY <1>3, <1>11
  <2>8. \A k \in Asked' :
          /\ channel'[offers'[k].id] = "offered"
          /\ \A j \in Asked' : offers'[j].id = offers'[k].id => j = k
    <3>1. \A j, k \in Asked : offers[j].id = offers[k].id => j = k
      BY DEF RouterInv, RequestInv
    <3> DEFINE m == n + 1
    <3>2. /\ \A k \in Asked' : k \in Asked \/ k = m
          /\ offers'[m].id = id
      BY <2>5, <2>7
    <3> HIDE DEF m
    <3> QED BY <1>5, <1>10, <2>6, <3>1, <3>2
  <2>9. \A k \in DOMAIN up : Answered(up[k]) =>
          /\ up[k].id \in Ids /\ up[k].id # id
          /\ channel'[up[k].id] = "offered"
          /\ \A j \in Asked' : offers'[j].id # up[k].id
          /\ \A j \in DOMAIN up :
               Answered(up[j]) /\ up[j].id = up[k].id => j = k
    <3> DEFINE m == n + 1
    <3>1. /\ \A k \in Asked' : k \in Asked \/ k = m
          /\ offers'[m].id = id
      BY <2>5, <2>7
    <3>2. \A k \in DOMAIN up : Answered(up[k]) =>
            /\ up[k].id \in Ids /\ channel[up[k].id] = "offered"
            /\ \A j \in Asked : offers[j].id # up[k].id
            /\ \A j \in DOMAIN up :
                 Answered(up[j]) /\ up[j].id = up[k].id => j = k
      BY DEF RouterInv, RequestInv
    <3> HIDE DEF m
    <3>3. \A k \in DOMAIN up : Answered(up[k]) => up[k].id # id
      BY <1>1, <3>2
    <3> QED BY <1>5, <2>6, <3>1, <3>2, <3>3
  <2> QED BY <1>2, <2>1, <2>3, <2>4, <2>8, <2>9 DEF RequestInv
<1>13. /\ Place(ServerPlace) /\ ServerPlace.answered = n
       /\ ServerPlace' = At(<<>>, n + 1, ServerPlace.whole, ServerPlace.begun)
  <2>1. /\ Place(ServerPlace) /\ ServerPlace.answered = n
        /\ ServerPlace.whole = IF chan = NoId THEN 0 ELSE Len(sent[chan])
        /\ ServerPlace.begun = (chan # NoId /\ fragment[chan] # <<>>)
    BY ServerPlaced, ChanTyped DEF RouterInv, n
  <2>2. ServerPlace' = At(<<>>, n + 1,
                          IF chan = NoId THEN 0 ELSE Len(sent[chan]),
                          chan # NoId /\ fragment[chan] # <<>>)
    BY <1>1, <1>2, <1>3 DEF ServerPlace
  <2> QED BY <2>1, <2>2
<1>14. Moves(ServerPlace, pdu, ServerPlace', chan, offers', Strays')
  <2>1. /\ ServerPlace'.answered = n + 1
        /\ ServerPlace'.whole = ServerPlace.whole
        /\ ServerPlace'.begun = ServerPlace.begun
    BY <1>13 DEF At
  <2>2. n < Len(offers')
    BY <1>3
  <2>3. pdu = CreatePdu(offers'[n + 1].id, offers'[n + 1].name)
    BY <1>3, <1>11 DEF pdu
  <2>4. Asks(ServerPlace, pdu, ServerPlace', offers')
    BY <1>13, <2>1, <2>2, <2>3 DEF Asks
  <2> QED BY <2>4 DEF Moves
<1>15. pc # "graphics" =>
         \A i \in Ids : /\ channel'[i] # "open"
                        /\ sent'[i] = <<>> /\ fragment'[i] = <<>>
  <2>1. pc # "graphics" =>
          \A i \in Ids : /\ channel[i] # "open"
                         /\ sent[i] = <<>> /\ fragment[i] = <<>>
    BY DEF RouterInv, ClientInv, Beforehand
  <2> QED BY <1>1, <1>5, <2>1
<1>16. Len(offers) <= Len(offers') /\ Len(offers) = n
  BY <1>3 DEF n
<1> QED BY <1>1, <1>3, <1>6, <1>7, <1>12, <1>14, <1>15, <1>16, PostedRouterInv


(* A message on an open channel, which may be that of the graphics. *)
LEMMA OnChannelRouterInv ==
  ASSUME RouterInv, pc = "graphics", NEW id \in Ids, NEW pdu, SendPdu(pdu),
         offers' = offers, ServerInv', RequestInv', Strays \subseteq Strays',
         \A i \in Ids : i # id => sent'[i] = sent[i] /\ fragment'[i] = fragment[i],
         \E chunk : \/ pdu = DataPdu(id, chunk) \/ pdu = DataFirstPdu(id, 2, chunk)
                    \/ pdu = ClosePdu(id),
         \/ Sends(ServerPlace, pdu,
                  At(<<>>, Len(offers), Len(sent'[id]), fragment'[id] # <<>>), id)
         \/ Begins(ServerPlace, pdu,
                   At(<<>>, Len(offers), Len(sent'[id]), fragment'[id] # <<>>), id)
         \/ Ends(ServerPlace, pdu,
                 At(<<>>, Len(offers), Len(sent'[id]), fragment'[id] # <<>>), id)
         \/ Shuts(ServerPlace, pdu,
                  At(<<>>, Len(offers), Len(sent'[id]), fragment'[id] # <<>>), id)
         \/ id # chan
  PROVE  RouterInv'
PROOF
<1>1. chan' = chan /\ IsSeq(offers) /\ Len(offers) \in Nat
  BY SeqAppend DEF SendPdu, clientVars, RouterInv, Lines
<1>2. chan \in Ids /\ chan # NoId
  BY RouterAssumption DEF RouterInv, ClientInv, Drawing, RouterAssumption
<1>3. ServerPlace' = At(<<>>, Len(offers), Len(sent'[chan]),
                        fragment'[chan] # <<>>)
  BY <1>1, <1>2 DEF ServerPlace
<1>4. Moves(ServerPlace, pdu, ServerPlace', chan, offers', Strays')
  <2>1. CASE id = chan
    <3> DEFINE u == At(<<>>, Len(offers), Len(sent'[chan]), fragment'[chan] # <<>>)
    <3>1. \/ Sends(ServerPlace, pdu, u, chan) \/ Begins(ServerPlace, pdu, u, chan)
          \/ Ends(ServerPlace, pdu, u, chan) \/ Shuts(ServerPlace, pdu, u, chan)
      BY <2>1
    <3>2. ServerPlace' = u
      BY <1>3
    <3> HIDE DEF u
    <3> QED BY <1>2, <3>1, <3>2 DEF Moves
  <2>2. CASE id # chan
    <3>1. ServerPlace' = ServerPlace
      BY <1>1, <1>2, <1>3, <2>2 DEF ServerPlace
    <3>2. Elsewhere(pdu, chan, Strays')
      BY <1>2, <2>2 DEF Elsewhere
    <3> QED BY <3>1, <3>2 DEF Moves, Same
  <2> QED BY <2>1, <2>2
<1>5. /\ IsSeq(offers') /\ Len(offers) <= Len(offers')
      /\ \A k \in 1 .. Len(offers) : offers'[k] = offers[k]
  BY <1>1
<1> QED BY <1>4, <1>5, PostedRouterInv

(* The channel and the requests stay as they are. *)
LEMMA RequestsStay ==
  ASSUME RouterInv, UNCHANGED <<up, channel, stray, offers, answers>>
  PROVE  RequestInv' /\ Strays' = Strays
BY DEF RouterInv, RequestInv, Asked, Strays

LEMMA OpenMeansDrawing ==
  ASSUME RouterInv, NEW id \in Ids,
         channel[id] = "open" \/ sent[id] # <<>> \/ fragment[id] # <<>>
  PROVE  pc = "graphics" /\ chan \in Ids /\ chan # NoId
BY RouterAssumption DEF RouterInv, ClientInv, Beforehand, Drawing, RouterAssumption

LEMMA SendMessageRouterInv ==
  ASSUME RouterInv, NEW id \in Ids, SendMessage(id)
  PROVE  RouterInv'
PROOF
<1> DEFINE w == Len(sent[id])
           cells == Cells(id, w + 1)
<1>1. /\ channel[id] = "open" /\ fragment[id] = <<>> /\ w + 1 <= MaxMessages
      /\ UNCHANGED <<channel, stray, offers, up, answers>>
      /\ \/ /\ SendPdu(DataPdu(id, cells)) \/ SendPdu(DataFirstPdu(id, 2, cells))
            /\ sent' = [sent EXCEPT ![id] = Append(sent[id], cells)]
            /\ fragment' = fragment
         \/ /\ SendPdu(DataFirstPdu(id, 2, <<<<id, w + 1, 1>>>>))
            /\ fragment' = [fragment EXCEPT ![id] = <<<<id, w + 1, 2>>>>]
            /\ sent' = sent
  BY DEF SendMessage, SendPdu, Cells, clientVars, routerVars
<1>2. pc = "graphics"
  BY <1>1, OpenMeansDrawing
<1>3. /\ IsSeq(sent[id]) /\ w \in Nat
      /\ \A n \in DOMAIN sent[id] : sent[id][n] = Cells(id, n)
      /\ fragment = [i \in Ids |-> fragment[i]]
      /\ sent = [i \in Ids |-> sent[i]]
  BY SeqAppend DEF RouterInv, ServerInv
<1>4. RequestInv' /\ Strays \subseteq Strays'
  BY <1>1, RequestsStay
<1>5. id = chan => /\ ServerPlace.answered = Len(offers) /\ ServerPlace.whole = w
                   /\ ~ ServerPlace.begun
  <2>1. id # NoId
    BY RouterAssumption DEF RouterAssumption
  <2>2. /\ ServerPlace.answered = Len(offers)
        /\ ServerPlace.whole = IF chan = NoId THEN 0 ELSE Len(sent[chan])
        /\ ServerPlace.begun = (chan # NoId /\ fragment[chan] # <<>>)
    BY ServerPlaced, ChanTyped DEF RouterInv
  <2> QED BY <1>1, <2>1, <2>2
<1> HIDE DEF cells, w
<1>6. CASE /\ SendPdu(DataPdu(id, cells)) \/ SendPdu(DataFirstPdu(id, 2, cells))
           /\ sent' = [sent EXCEPT ![id] = Append(sent[id], cells)]
           /\ fragment' = fragment
  <2>1. /\ sent'[id] = Append(sent[id], cells)
        /\ \A i \in Ids : i # id => sent'[i] = sent[i]
        /\ sent' = [i \in Ids |-> sent'[i]]
    BY <1>3, <1>6
  <2>2. /\ IsSeq(sent'[id]) /\ Len(sent'[id]) = w + 1
        /\ \A n \in DOMAIN sent'[id] : sent'[id][n] = Cells(id, n)
    <3>1. /\ IsSeq(Append(sent[id], cells))
          /\ Len(Append(sent[id], cells)) = w + 1
          /\ DOMAIN sent[id] = 1 .. w
          /\ DOMAIN Append(sent[id], cells) = 1 .. w + 1
          /\ \A k \in 1 .. w : Append(sent[id], cells)[k] = sent[id][k]
          /\ Append(sent[id], cells)[w + 1] = cells
      BY <1>3, SeqAppend DEF w
    <3>2. \A k \in 1 .. w + 1 : k \in 1 .. w \/ k = w + 1
      BY <1>3
    <3>3. \A k \in 1 .. w + 1 : Append(sent[id], cells)[k] = Cells(id, k)
      BY <1>3, <3>1, <3>2 DEF cells
    <3> QED BY <2>1, <3>1, <3>3
  <2>3. ServerInv'
    <3>1. ASSUME NEW i \in Ids
          PROVE  /\ IsSeq(sent'[i])
                 /\ \A n \in DOMAIN sent'[i] : sent'[i][n] = Cells(i, n)
                 /\ fragment'[i] # <<>> =>
                      /\ fragment'[i] = <<<<i, Len(sent'[i]) + 1, 2>>>>
                      /\ Len(sent'[i]) < MaxMessages
      <4>1. CASE i = id
        BY <1>1, <1>6, <2>2, <4>1
      <4>2. CASE i # id
        BY <1>6, <2>1, <4>2 DEF RouterInv, ServerInv
      <4> QED BY <4>1, <4>2
    <3>2. /\ stray' \in Nat
          /\ channel' \in [Ids -> {"free", "offered", "open", "declined"}]
          /\ fragment' = [i \in Ids |-> fragment'[i]]
      BY <1>1, <1>3, <1>6 DEF RouterInv, ServerInv
    <3> QED BY <2>1, <3>1, <3>2 DEF ServerInv
  <2>4. PICK pdu \in {DataPdu(id, cells), DataFirstPdu(id, 2, cells)} : SendPdu(pdu)
    BY <1>6
  <2>5. \E chunk : \/ pdu = DataPdu(id, chunk) \/ pdu = DataFirstPdu(id, 2, chunk)
                   \/ pdu = ClosePdu(id)
    BY <2>4
  <2>6. id = chan =>
          Sends(ServerPlace, pdu,
                At(<<>>, Len(offers), Len(sent'[id]), fragment'[id] # <<>>), id)
    BY <1>1, <1>5, <1>6, <2>2, <2>4 DEF Sends, At, cells
  <2> QED BY <1>1, <1>2, <1>4, <1>6, <2>1, <2>3, <2>4, <2>5, <2>6,
             OnChannelRouterInv
<1>7. CASE /\ SendPdu(DataFirstPdu(id, 2, <<<<id, w + 1, 1>>>>))
           /\ fragment' = [fragment EXCEPT ![id] = <<<<id, w + 1, 2>>>>]
           /\ sent' = sent
  <2> DEFINE pdu == DataFirstPdu(id, 2, <<<<id, w + 1, 1>>>>)
  <2>1. /\ fragment'[id] = <<<<id, w + 1, 2>>>>
        /\ \A i \in Ids : i # id => fragment'[i] = fragment[i]
        /\ fragment' = [i \in Ids |-> fragment'[i]]
    BY <1>3, <1>7
  <2>2. fragment'[id] # <<>>
    BY <2>1
  <2>3. ServerInv'
    <3>1. ASSUME NEW i \in Ids
          PROVE  /\ IsSeq(sent'[i])
                 /\ \A n \in DOMAIN sent'[i] : sent'[i][n] = Cells(i, n)
                 /\ fragment'[i] # <<>> =>
                      /\ fragment'[i] = <<<<i, Len(sent'[i]) + 1, 2>>>>
                      /\ Len(sent'[i]) < MaxMessages
      <4>1. CASE i = id
        <5>1. w < MaxMessages
          BY <1>1, <1>3, RouterAssumption DEF RouterAssumption
        <5> QED BY <1>3, <1>7, <2>1, <4>1, <5>1 DEF w
      <4>2. CASE i # id
        BY <1>7, <2>1, <4>2 DEF RouterInv, ServerInv
      <4> QED BY <4>1, <4>2
    <3>2. /\ stray' \in Nat
          /\ channel' \in [Ids -> {"free", "offered", "open", "declined"}]
          /\ sent' = [i \in Ids |-> sent'[i]]
      BY <1>1, <1>3, <1>7 DEF RouterInv, ServerInv
    <3> QED BY <2>1, <3>1, <3>2 DEF ServerInv
  <2>4. id = chan =>
          Begins(ServerPlace, pdu,
                 At(<<>>, Len(offers), Len(sent'[id]), fragment'[id] # <<>>), id)
    BY <1>5, <1>7, <2>2 DEF Begins, At, w
  <2>5. \E chunk : \/ pdu = DataPdu(id, chunk) \/ pdu = DataFirstPdu(id, 2, chunk)
                   \/ pdu = ClosePdu(id)
    OBVIOUS
  <2>6. SendPdu(pdu)
    BY <1>7
  <2> HIDE DEF pdu
  <2> QED BY <1>1, <1>2, <1>4, <1>7, <2>1, <2>3, <2>4, <2>5, <2>6,
             OnChannelRouterInv
<1> QED BY <1>1, <1>6, <1>7 DEF cells, w


LEMMA SendFragmentRouterInv ==
  ASSUME RouterInv, NEW id \in Ids, SendFragment(id)
  PROVE  RouterInv'
PROOF
<1> DEFINE w == Len(sent[id])
           cells == Cells(id, w + 1)
           pdu == DataPdu(id, <<<<id, w + 1, 2>>>>)
<1>1. /\ fragment[id] = <<<<id, w + 1, 2>>>>
      /\ IsSeq(sent[id]) /\ w \in Nat
      /\ \A n \in DOMAIN sent[id] : sent[id][n] = Cells(id, n)
      /\ fragment = [i \in Ids |-> fragment[i]]
      /\ sent = [i \in Ids |-> sent[i]]
      /\ fragment[id] # <<>>
  BY SeqAppend DEF RouterInv, ServerInv, SendFragment
<1>2. <<<<id, w + 1, 1>>>> \o fragment[id] = cells
  BY <1>1, PairJoined DEF Cells
<1>3. /\ UNCHANGED <<channel, stray, offers, up, answers>>
      /\ SendPdu(pdu)
      /\ fragment' = [fragment EXCEPT ![id] = <<>>]
      /\ sent' = [sent EXCEPT ![id] = Append(sent[id], cells)]
  BY <1>1, <1>2 DEF SendFragment, SendPdu, clientVars, routerVars
<1>4. pc = "graphics"
  BY <1>1, OpenMeansDrawing
<1>5. RequestInv' /\ Strays \subseteq Strays'
  BY <1>3, RequestsStay
<1>6. id = chan => /\ ServerPlace.answered = Len(offers) /\ ServerPlace.whole = w
                   /\ ServerPlace.begun
  <2>1. id # NoId
    BY RouterAssumption DEF RouterAssumption
  <2>2. /\ ServerPlace.answered = Len(offers)
        /\ ServerPlace.whole = IF chan = NoId THEN 0 ELSE Len(sent[chan])
        /\ ServerPlace.begun = (chan # NoId /\ fragment[chan] # <<>>)
    BY ServerPlaced, ChanTyped DEF RouterInv
  <2> QED BY <1>1, <2>1, <2>2
<1> HIDE DEF cells, w, pdu
<1>7. /\ sent'[id] = Append(sent[id], cells) /\ fragment'[id] = <<>>
      /\ \A i \in Ids : i # id => sent'[i] = sent[i] /\ fragment'[i] = fragment[i]
      /\ sent' = [i \in Ids |-> sent'[i]]
      /\ fragment' = [i \in Ids |-> fragment'[i]]
  BY <1>1, <1>3
<1>8. /\ IsSeq(sent'[id]) /\ Len(sent'[id]) = w + 1
      /\ \A n \in DOMAIN sent'[id] : sent'[id][n] = Cells(id, n)
  <2>1. /\ IsSeq(Append(sent[id], cells))
        /\ Len(Append(sent[id], cells)) = w + 1
        /\ DOMAIN sent[id] = 1 .. w
        /\ DOMAIN Append(sent[id], cells) = 1 .. w + 1
        /\ \A k \in 1 .. w : Append(sent[id], cells)[k] = sent[id][k]
        /\ Append(sent[id], cells)[w + 1] = cells
    BY <1>1, SeqAppend DEF w
  <2>2. \A k \in 1 .. w + 1 : k \in 1 .. w \/ k = w + 1
    BY <1>1
  <2>3. \A k \in 1 .. w + 1 : Append(sent[id], cells)[k] = Cells(id, k)
    BY <1>1, <2>1, <2>2 DEF cells
  <2> QED BY <1>7, <2>1, <2>3
<1>9. ServerInv'
  <2>1. ASSUME NEW i \in Ids
        PROVE  /\ IsSeq(sent'[i])
               /\ \A n \in DOMAIN sent'[i] : sent'[i][n] = Cells(i, n)
               /\ fragment'[i] # <<>> =>
                    /\ fragment'[i] = <<<<i, Len(sent'[i]) + 1, 2>>>>
                    /\ Len(sent'[i]) < MaxMessages
    <3>1. CASE i = id
      BY <1>7, <1>8, <3>1
    <3>2. CASE i # id
      BY <1>7, <3>2 DEF RouterInv, ServerInv
    <3> QED BY <3>1, <3>2
  <2>2. /\ stray' \in Nat
        /\ channel' \in [Ids -> {"free", "offered", "open", "declined"}]
    BY <1>3 DEF RouterInv, ServerInv
  <2> QED BY <1>7, <2>1, <2>2 DEF ServerInv
<1>10. id = chan =>
         Ends(ServerPlace, pdu,
              At(<<>>, Len(offers), Len(sent'[id]), fragment'[id] # <<>>), id)
  BY <1>6, <1>7, <1>8 DEF Ends, At, pdu
<1>11. \E chunk : \/ pdu = DataPdu(id, chunk) \/ pdu = DataFirstPdu(id, 2, chunk)
                  \/ pdu = ClosePdu(id)
  BY DEF pdu
<1> QED BY <1>3, <1>4, <1>5, <1>7, <1>9, <1>10, <1>11, OnChannelRouterInv

LEMMA CloseChannelRouterInv ==
  ASSUME RouterInv, NEW id \in Ids, CloseChannel(id)
  PROVE  RouterInv'
PROOF
<1> DEFINE pdu == ClosePdu(id)
<1>1. /\ channel[id] = "open" /\ SendPdu(pdu)
      /\ channel' = [channel EXCEPT ![id] = "free"]
      /\ fragment' = [fragment EXCEPT ![id] = <<>>]
      /\ UNCHANGED <<stray, sent, offers, up, answers>>
  BY DEF CloseChannel, SendPdu, clientVars, routerVars
<1>2. pc = "graphics"
  BY <1>1, OpenMeansDrawing
<1>3. /\ channel \in [Ids -> {"free", "offered", "open", "declined"}]
      /\ fragment = [i \in Ids |-> fragment[i]]
  BY DEF RouterInv, ServerInv
<1>4. /\ channel' \in [Ids -> {"free", "offered", "open", "declined"}]
      /\ \A i \in Ids : i # id =>
           channel'[i] = channel[i] /\ fragment'[i] = fragment[i]
      /\ fragment'[id] = <<>>
      /\ fragment' = [i \in Ids |-> fragment'[i]]
  BY <1>1, <1>3
<1>5. Strays \subseteq Strays'
  BY <1>1, <1>4 DEF Strays
<1>6. RequestInv'
  <2>1. Asked' = Asked
    BY <1>1 DEF Asked
  <2>2. \A i \in Ids : channel[i] = "offered" => channel'[i] = "offered"
    BY <1>1, <1>4
  <2>3. \A k \in Asked : offers[k].id \in Ids
    <3>1. IsSeq(offers) /\ IsSeq(answers)
      BY DEF RouterInv, Lines
    <3>2. Len(answers) \in Nat /\ Len(offers) \in Nat /\ DOMAIN offers = 1 .. Len(offers)
      BY <3>1, SeqAppend
    <3>3. \A k \in Asked : k \in DOMAIN offers
      BY <3>2 DEF Asked
    <3> QED BY <3>3 DEF RouterInv, RequestInv
  <2> QED BY <1>1, <2>1, <2>2, <2>3 DEF RouterInv, RequestInv
<1>7. ServerInv'
  BY <1>1, <1>4 DEF RouterInv, ServerInv
<1>8. id = chan =>
        Shuts(ServerPlace, pdu,
              At(<<>>, Len(offers), Len(sent'[id]), fragment'[id] # <<>>), id)
  <2>1. id # NoId
    BY RouterAssumption DEF RouterAssumption
  <2>2. /\ ServerPlace.answered = Len(offers)
        /\ ServerPlace.whole = IF chan = NoId THEN 0 ELSE Len(sent[chan])
    BY ServerPlaced, ChanTyped DEF RouterInv
  <2> QED BY <1>1, <1>4, <2>1, <2>2 DEF Shuts, At
<1>9. \E chunk : \/ pdu = DataPdu(id, chunk) \/ pdu = DataFirstPdu(id, 2, chunk)
                 \/ pdu = ClosePdu(id)
  OBVIOUS
<1>10. \A i \in Ids : i # id => sent'[i] = sent[i] /\ fragment'[i] = fragment[i]
  BY <1>1, <1>4
<1> HIDE DEF pdu
<1> QED BY <1>1, <1>2, <1>5, <1>6, <1>7, <1>8, <1>9, <1>10, OnChannelRouterInv

LEMMA SendStrayRouterInv ==
  ASSUME RouterInv, NEW id \in Ids, SendStray(id)
  PROVE  RouterInv'
PROOF
<1> DEFINE pdu == DataPdu(id, <<>>)
<1>1. /\ channel[id] = "declined"
      /\ \A k \in DOMAIN answers : answers[k].id = id => ~ answers[k].accept
      /\ SendPdu(pdu) /\ stray' = stray + 1
      /\ UNCHANGED <<channel, fragment, sent, offers, up, answers, chan, pc>>
  BY DEF SendStray, SendPdu, clientVars, routerVars
<1>2. stray \in Nat
  BY DEF RouterInv, ServerInv
<1>3. stray + 1 \in Nat /\ stray + 1 > 0
  BY <1>2
<1>4. Strays \subseteq Strays' /\ id \in Strays'
  BY <1>1, <1>3 DEF Strays
<1>5. ServerInv'
  BY <1>1, <1>3 DEF RouterInv, ServerInv
<1>6. RequestInv'
  BY <1>1 DEF RouterInv, RequestInv, Asked
<1>7. ServerPlace' = ServerPlace
  BY <1>1 DEF ServerPlace
<1>8. Moves(ServerPlace, pdu, ServerPlace', chan, offers', Strays')
  BY <1>4, <1>7 DEF Moves, Elsewhere, Same
<1>9. /\ IsSeq(offers') /\ Len(offers) <= Len(offers')
      /\ \A k \in 1 .. Len(offers) : offers'[k] = offers[k]
  <2>1. IsSeq(offers) /\ Len(offers) \in Nat
    BY SeqAppend DEF RouterInv, Lines
  <2> QED BY <1>1, <2>1
<1>10. pc # "graphics" =>
         \A i \in Ids : /\ channel'[i] # "open"
                        /\ sent'[i] = <<>> /\ fragment'[i] = <<>>
  BY <1>1 DEF RouterInv, ClientInv, Beforehand
<1> HIDE DEF pdu
<1> QED BY <1>1, <1>4, <1>5, <1>6, <1>8, <1>9, <1>10, PostedRouterInv

(* The server learns what the client has made of a request of its. *)
LEMMA ReadUpRouterInv == RouterInv /\ ReadUp => RouterInv'
PROOF
<1> SUFFICES ASSUME RouterInv, ReadUp PROVE RouterInv'
  OBVIOUS
<1> DEFINE m == Head(up)
           id == Head(up).id
           now == IF Head(up).accept THEN "open" ELSE "declined"
           n == Len(up)
<1>1. /\ up # <<>> /\ up' = Tail(up)
      /\ channel' = IF Answered(m) THEN [channel EXCEPT ![id] = now] ELSE channel
      /\ UNCHANGED <<wire, rest, fragment, stray, sent, offers, clientVars>>
  BY DEF ReadUp, Answered
<1>2. UNCHANGED <<pc, demux, dvc, pending, answers, chan, received>>
  BY <1>1 DEF clientVars, routerVars
<1>3. /\ IsSeq(up') /\ n \in Nat /\ n >= 1
      /\ DOMAIN up = 1 .. n /\ DOMAIN up' = 1 .. n - 1
      /\ \A k \in 1 .. n - 1 : up'[k] = up[k + 1]
      /\ m = up[1]
  <2>1. IsSeq(up)
    BY DEF RouterInv, Lines
  <2> QED BY <1>1, <2>1, SeqTail
<1> HIDE DEF n
<1>4. /\ channel \in [Ids -> {"free", "offered", "open", "declined"}]
      /\ stray \in Nat
  BY DEF RouterInv, ServerInv
<1>5. now \in {"open", "declined"}
  OBVIOUS
<1> HIDE DEF m
<1>6. Answered(m) =>
        /\ id \in Ids /\ channel[id] = "offered"
        /\ \A j \in Asked : offers[j].id # id
        /\ \A j \in 2 .. n : Answered(up[j]) => up[j].id # id
  <2>1. 1 \in DOMAIN up /\ \A j \in 2 .. n : j \in DOMAIN up /\ j # 1
    BY <1>3
  <2>2. id = up[1].id
    BY <1>3 DEF m
  <2> HIDE DEF id
  <2> QED BY <1>3, <2>1, <2>2 DEF RouterInv, RequestInv
<1> HIDE DEF id, now
<1>7. /\ channel' \in [Ids -> {"free", "offered", "open", "declined"}]
      /\ \A i \in Ids : channel'[i] = channel[i]
                        \/ (Answered(m) /\ i = id /\ channel'[i] = now)
  <2>1. CASE Answered(m)
    BY <1>1, <1>4, <1>5, <1>6, <2>1
  <2>2. CASE ~ Answered(m)
    BY <1>1, <1>4, <2>2
  <2> QED BY <2>1, <2>2
<1>8. Strays \subseteq Strays'
  <2>1. ASSUME NEW i \in Strays PROVE i \in Strays'
    <3>1. i \in Ids /\ channel[i] = "declined"
      BY DEF Strays
    <3>2. channel'[i] = "declined"
      BY <1>6, <1>7, <3>1
    <3> QED BY <1>1, <1>2, <3>1, <3>2 DEF Strays
  <2> QED BY <2>1
<1>9. ServerInv'
  BY <1>1, <1>7 DEF RouterInv, ServerInv
<1>10. \A k \in 1 .. n - 1 : /\ k + 1 \in 2 .. n /\ k + 1 \in DOMAIN up
                             /\ up'[k] = up[k + 1]
  BY <1>3
<1>11. RequestInv'
  <2>1. Asked' = Asked
    BY <1>1, <1>2 DEF Asked
  <2>2. \A k \in Asked : offers[k].id \in Ids
    <3>1. IsSeq(offers) /\ IsSeq(answers)
      BY DEF RouterInv, Lines
    <3>2. Len(answers) \in Nat /\ Len(offers) \in Nat /\ DOMAIN offers = 1 .. Len(offers)
      BY <3>1, SeqAppend
    <3>3. \A k \in Asked : k \in DOMAIN offers
      BY <3>2 DEF Asked
    <3> QED BY <3>3 DEF RouterInv, RequestInv
  <2>3. \A k \in Asked : channel'[offers[k].id] = "offered"
    <3>1. \A k \in Asked : channel[offers[k].id] = "offered"
      BY DEF RouterInv, RequestInv
    <3> QED BY <1>6, <1>7, <2>2, <3>1
  <2>4. \A k \in DOMAIN up : Answered(up[k]) =>
          /\ up[k].id \in Ids /\ channel[up[k].id] = "offered"
          /\ \A j \in Asked : offers[j].id # up[k].id
          /\ \A j \in DOMAIN up :
               Answered(up[j]) /\ up[j].id = up[k].id => j = k
    BY DEF RouterInv, RequestInv
  <2>5. ASSUME NEW k \in 1 .. n - 1, Answered(up'[k])
        PROVE  /\ up'[k].id \in Ids /\ channel'[up'[k].id] = "offered"
               /\ \A j \in Asked : offers[j].id # up'[k].id
               /\ \A j \in 1 .. n - 1 :
                    Answered(up'[j]) /\ up'[j].id = up'[k].id => j = k
    <3> DEFINE k1 == k + 1
    <3>1. k1 \in 2 .. n /\ k1 \in DOMAIN up /\ up'[k] = up[k1]
      BY <1>10
    <3>2. \A j \in 1 .. n - 1 : j + 1 = k1 => j = k
      OBVIOUS
    <3> HIDE DEF k1
    <3>3. /\ up[k1].id \in Ids /\ channel[up[k1].id] = "offered"
          /\ \A j \in Asked : offers[j].id # up[k1].id
          /\ \A j \in DOMAIN up :
               Answered(up[j]) /\ up[j].id = up[k1].id => j = k1
      BY <2>4, <2>5, <3>1
    <3>4. channel'[up[k1].id] = "offered"
      BY <1>6, <1>7, <2>5, <3>1, <3>3
    <3>5. ASSUME NEW j \in 1 .. n - 1, Answered(up'[j]), up'[j].id = up'[k].id
          PROVE  j = k
      <4> DEFINE j1 == j + 1
      <4>1. j1 \in DOMAIN up /\ up'[j] = up[j1]
        BY <1>10
      <4>2. j1 = k1 => j = k
        BY <3>2
      <4> HIDE DEF j1
      <4> QED BY <3>1, <3>3, <3>5, <4>1, <4>2
    <3> QED BY <3>1, <3>3, <3>4, <3>5
  <2> QED BY <1>1, <1>2, <1>3, <2>1, <2>3, <2>5 DEF RouterInv, RequestInv
<1>12. Lines'
  BY <1>1, <1>2, <1>3 DEF RouterInv, Lines
<1>13. ClientPlace' = ClientPlace /\ ServerPlace' = ServerPlace
  BY <1>1, <1>2 DEF ClientPlace, ServerPlace, Queued
<1>14. ClientInv'
  <2>1. Holds(ClientPlace, dvc, chan)'
    BY <1>2, <1>13 DEF RouterInv, ClientInv
  <2>2. CASE pc = "graphics"
    <3>1. Drawing'
      BY <1>2, <2>2 DEF RouterInv, ClientInv, Drawing
    <3> QED BY <1>2, <2>1, <2>2, <3>1 DEF RouterInv, ClientInv
  <2>3. CASE pc # "graphics"
    <3>1. Beforehand
      BY <2>3 DEF RouterInv, ClientInv
    <3>2. \A k \in DOMAIN up : Answered(up[k]) => ~ up[k].accept
      BY <3>1 DEF Beforehand
    <3>3. \A k \in DOMAIN up' : Answered(up'[k]) => ~ up'[k].accept
      BY <1>3, <1>10, <3>2
    <3>4. \A i \in Ids : channel'[i] # "open"
      <4>1. Answered(m) => now = "declined"
        <5>1. 1 \in DOMAIN up
          BY <1>3
        <5> QED BY <1>3, <3>2, <5>1 DEF now, m
      <4> QED BY <1>7, <3>1, <4>1 DEF Beforehand
    <3>5. \A k \in DOMAIN pending : pending[k].id \in Strays'
      BY <1>8, <3>1 DEF Beforehand
    <3>6. Beforehand'
      BY <1>1, <1>2, <3>1, <3>3, <3>4, <3>5 DEF Beforehand
    <3> QED BY <1>2, <2>1, <2>3, <3>6 DEF RouterInv, ClientInv
  <2> QED BY <2>2, <2>3
<1>15. WayInv'
  <2>1. IsSeq(wire) /\ Len(offers) \in Nat
    BY SeqAppend DEF RouterInv, Lines
  <2>2. Way(ClientPlace, wire, rest, ServerPlace, chan, offers, Strays')
    BY <1>8, <2>1, WayGrows DEF RouterInv, WayInv
  <2> QED BY <1>1, <1>2, <1>13, <2>2 DEF WayInv
<1> QED BY <1>9, <1>11, <1>12, <1>14, <1>15 DEF RouterInv

LEMMA ServerRouterInv == RouterInv /\ ServerNext => RouterInv'
PROOF
<1> SUFFICES ASSUME RouterInv, ServerNext PROVE RouterInv'
  OBVIOUS
<1>1. ASSUME NEW body, SendIo(body) PROVE RouterInv'
  BY <1>1, InterleavedRouterInv DEF SendIo
<1>2. CASE NextInOrder
  BY <1>1, <1>2 DEF NextInOrder
<1>3. CASE FontMap
  BY <1>1, <1>3 DEF FontMap
<1>4. CASE IoNoise
  BY <1>1, <1>4 DEF IoNoise
<1>5. CASE UserNoise
  BY <1>5, InterleavedRouterInv DEF UserNoise
<1>6. CASE SendRest
  BY <1>6, SendRestRouterInv
<1>7. CASE SendCapabilities
  BY <1>7, SendCapabilitiesRouterInv
<1>8. CASE ReadUp
  BY <1>8, ReadUpRouterInv
<1>9. ASSUME NEW id \in Ids, \E name \in Names : Offer(id, name) PROVE RouterInv'
  BY <1>9, OfferRouterInv
<1>10. ASSUME NEW id \in Ids,
              \/ SendMessage(id) \/ SendFragment(id) \/ SendStray(id)
              \/ CloseChannel(id)
       PROVE  RouterInv'
  BY <1>10, SendMessageRouterInv, SendFragmentRouterInv, SendStrayRouterInv,
     CloseChannelRouterInv
<1> QED BY <1>2, <1>3, <1>4, <1>5, <1>6, <1>7, <1>8, <1>9, <1>10 DEF ServerNext


-----------------------------------------------------------------------------
(* The steps of the client.                                                 *)

LEMMA SeqConcat ==
  ASSUME NEW line, IsSeq(line), NEW more, IsSeq(more)
  PROVE  /\ IsSeq(line \o more)
         /\ Len(line) \in Nat /\ Len(more) \in Nat
         /\ Len(line \o more) = Len(line) + Len(more)
         /\ DOMAIN (line \o more) = 1 .. Len(line) + Len(more)
         /\ \A k \in 1 .. Len(line) : (line \o more)[k] = line[k]
         /\ \A k \in 1 .. Len(more) : (line \o more)[Len(line) + k] = more[k]
         /\ \A k \in 1 .. Len(line) + Len(more) :
              \/ k \in 1 .. Len(line)
              \/ k - Len(line) \in 1 .. Len(more)
PROOF
<1>1. PICK S : line \in Seq(S)
  BY DEF IsSeq
<1>2. PICK T : more \in Seq(T)
  BY DEF IsSeq
<1> DEFINE U == S \cup T
<1>3. line \in Seq(U) /\ more \in Seq(U)
  <2>1. S \subseteq U /\ T \subseteq U
    OBVIOUS
  <2> QED BY <1>1, <1>2, <2>1, SeqMonotonic
<1> HIDE DEF U
<1> DEFINE m == Len(line)
           n == Len(more)
           both == line \o more
<1>4. m \in Nat /\ n \in Nat
  BY <1>3, LenProperties
<1>5. /\ both \in Seq(U) /\ Len(both) = m + n
      /\ \A i \in 1 .. m + n : both[i] = IF i <= m THEN line[i] ELSE more[i - m]
  BY <1>3, ConcatProperties
<1>6. DOMAIN both = 1 .. m + n
  BY <1>5, LenProperties
<1> HIDE DEF m, n, both
<1>7. \A k \in 1 .. m : both[k] = line[k]
  <2>1. \A k \in 1 .. m : k \in 1 .. m + n /\ k <= m
    BY <1>4
  <2> QED BY <1>5, <2>1
<1>8. ASSUME NEW k \in 1 .. n PROVE both[m + k] = more[k]
  <2> DEFINE j == m + k
  <2>1. j \in 1 .. m + n /\ ~ (j <= m) /\ j - m = k
    BY <1>4
  <2> HIDE DEF j
  <2>2. both[j] = more[k]
    BY <1>5, <2>1
  <2> QED BY <2>2 DEF j
<1>9. \A k \in 1 .. m + n : k \in 1 .. m \/ k - m \in 1 .. n
  BY <1>4
<1> QED BY <1>4, <1>5, <1>6, <1>7, <1>8, <1>9 DEF m, n, both, IsSeq

LEMMA SeqOne ==
  ASSUME NEW a
  PROVE  /\ IsSeq(<<a>>) /\ Len(<<a>>) = 1 /\ DOMAIN <<a>> = 1 .. 1
         /\ <<a>>[1] = a
PROOF
<1>1. <<a>> \in Seq({a})
  OBVIOUS
<1>2. Len(<<a>>) = 1 /\ DOMAIN <<a>> = 1 .. 1 /\ <<a>>[1] = a
  OBVIOUS
<1> QED BY <1>1, <1>2 DEF IsSeq

(* No answer in the line has the id of this one. *)
Fresh(line, r) == \A k \in DOMAIN line : Answered(line[k]) => line[k].id # r.id

(* There is one answer at most with an id. *)
OneEach(line) ==
  \A j, k \in DOMAIN line :
    /\ Answered(line[j]) /\ Answered(line[k])
    /\ line[j].id = line[k].id
    => j = k

(* What is written to the server holds one answer at most. *)
LEMMA UpWrites ==
  ASSUME NEW line, IsSeq(line), NEW more, IsSeq(more), NEW r,
         \A k \in DOMAIN more : Answered(more[k]) => more[k] = r,
         \A j, k \in DOMAIN more : Answered(more[j]) /\ Answered(more[k]) => j = k,
         OneEach(line),
         (\E k \in DOMAIN more : Answered(more[k])) => Fresh(line, r)
  PROVE  LET all == line \o more
         IN  /\ \A k \in DOMAIN all : Answered(all[k]) =>
                  \/ \E i \in DOMAIN line : all[k] = line[i]
                  \/ all[k] = r /\ \E i \in DOMAIN more : Answered(more[i])
             /\ OneEach(all)
PROOF
<1> DEFINE all == line \o more
           m == Len(line)
           n == Len(more)
<1>1. /\ m \in Nat /\ n \in Nat
      /\ DOMAIN line = 1 .. m /\ DOMAIN more = 1 .. n
      /\ DOMAIN all = 1 .. m + n
      /\ \A k \in 1 .. m : all[k] = line[k]
      /\ \A k \in 1 .. n : all[m + k] = more[k]
      /\ \A k \in 1 .. m + n : k \in 1 .. m \/ k - m \in 1 .. n
  <2>1. DOMAIN line = 1 .. m /\ DOMAIN more = 1 .. n
    BY SeqAppend
  <2>2. /\ m \in Nat /\ n \in Nat /\ DOMAIN all = 1 .. m + n
        /\ \A k \in 1 .. m : all[k] = line[k]
        /\ \A k \in 1 .. n : all[m + k] = more[k]
        /\ \A k \in 1 .. m + n : k \in 1 .. m \/ k - m \in 1 .. n
    BY SeqConcat
  <2> QED BY <2>1, <2>2
<1> HIDE DEF all, m, n
<1>2. \A k \in 1 .. m + n : m + (k - m) = k
  BY <1>1
<1>3. ASSUME NEW k \in DOMAIN all, k \notin 1 .. m, Answered(all[k])
      PROVE  /\ k - m \in DOMAIN more /\ all[k] = more[k - m]
             /\ Answered(more[k - m]) /\ all[k] = r
  <2> DEFINE i == k - m
  <2>1. i \in 1 .. n /\ m + i = k
    BY <1>1, <1>2, <1>3
  <2> HIDE DEF i
  <2>2. all[k] = more[i] /\ i \in DOMAIN more
    BY <1>1, <2>1
  <2>3. Answered(more[i])
    BY <1>3, <2>2
  <2> QED BY <2>2, <2>3 DEF i
<1>4. \A k \in DOMAIN all : Answered(all[k]) =>
         \/ \E i \in DOMAIN line : all[k] = line[i]
         \/ all[k] = r /\ \E i \in DOMAIN more : Answered(more[i])
  BY <1>1, <1>3
<1>5. ASSUME NEW j \in DOMAIN all, NEW k \in DOMAIN all,
             Answered(all[j]), Answered(all[k]), all[j].id = all[k].id
      PROVE  j = k
  <2>1. CASE j \in 1 .. m /\ k \in 1 .. m
    <3>1. all[j] = line[j] /\ all[k] = line[k] /\ j \in DOMAIN line /\ k \in DOMAIN line
      BY <1>1, <2>1
    <3> QED BY <1>5, <3>1 DEF OneEach
  <2>2. CASE j \in 1 .. m /\ k \notin 1 .. m
    <3>1. all[j] = line[j] /\ j \in DOMAIN line
      BY <1>1, <2>2
    <3> QED BY <1>3, <1>5, <2>2, <3>1 DEF Fresh
  <2>3. CASE j \notin 1 .. m /\ k \in 1 .. m
    <3>1. all[k] = line[k] /\ k \in DOMAIN line
      BY <1>1, <2>3
    <3> QED BY <1>3, <1>5, <2>3, <3>1 DEF Fresh
  <2>4. CASE j \notin 1 .. m /\ k \notin 1 .. m
    <3> DEFINE a == j - m
               b == k - m
    <3>1. /\ a \in DOMAIN more /\ Answered(more[a])
          /\ b \in DOMAIN more /\ Answered(more[b])
      BY <1>3, <1>5, <2>4
    <3>2. m + a = j /\ m + b = k
      BY <1>1, <1>2
    <3> HIDE DEF a, b
    <3>3. a = b
      BY <3>1
    <3> QED BY <3>2, <3>3
  <2> QED BY <2>1, <2>2, <2>3, <2>4
<1>6. OneEach(all)
  BY <1>5 DEF OneEach
<1> QED BY <1>4, <1>6 DEF all

(* More that holds no answer. *)
LEMMA UpQuiet ==
  ASSUME NEW line, IsSeq(line), NEW more, IsSeq(more),
         \A k \in DOMAIN more : ~ Answered(more[k]),
         OneEach(line)
  PROVE  LET all == line \o more
         IN  /\ IsSeq(all)
             /\ \A k \in DOMAIN all : Answered(all[k]) =>
                  \E i \in DOMAIN line : all[k] = line[i]
             /\ OneEach(all)
PROOF
<1> DEFINE all == line \o more
<1>1. IsSeq(all)
  BY SeqConcat
<1>2. /\ \A k \in DOMAIN all : Answered(all[k]) =>
           \E i \in DOMAIN line : all[k] = line[i]
      /\ OneEach(all)
  BY UpWrites
<1> QED BY <1>1, <1>2

(* recv_dvc_data has looked for its messages before it purges the queue: it *)
(* keeps nothing of a queue that is too long.                               *)
LEMMA PurgedQueue ==
  ASSUME RouterInv, Reading
  PROVE  /\ Purged = pending \/ (pc = "graphics" /\ Purged = <<>>)
         /\ pc = "graphics" => Len(Purged) <= PendingLimit
         /\ IsSeq(Purged) /\ Queued = 0
         /\ \A k \in DOMAIN Purged :
              /\ Purged[k].id # chan
              /\ \E i \in DOMAIN pending : Purged[k] = pending[i]
PROOF
<1>1. IsSeq(pending) /\ Len(pending) \in Nat
  BY SeqAppend DEF RouterInv, Lines
<1>2. PendingLimit \in Nat /\ NoId \notin Ids
  BY RouterAssumption DEF RouterAssumption
<1>3. \A k \in DOMAIN pending : pending[k].id # chan
  <2>1. CASE pc = "graphics"
    BY <2>1 DEF Reading
  <2>2. CASE pc # "graphics"
    BY <1>2, <2>2 DEF RouterInv, ClientInv, Beforehand, Strays
  <2> QED BY <2>1, <2>2
<1>4. Queued = 0
  BY <1>3 DEF Queued
<1>5. CASE pc = "graphics" /\ Len(pending) > PendingLimit
  <2> DEFINE own == {k \in DOMAIN pending : pending[k].id = chan}
  <2>1. own = {}
    BY <1>3
  <2>2. Cardinality(own) = 0
    BY <2>1, FS_EmptySet
  <2>3. Purged = [k \in 1 .. Cardinality(own) |-> pending[Nth(own, k)]]
    BY <1>5 DEF Purged
  <2> HIDE DEF own
  <2>4. Purged = <<>>
    BY <2>2, <2>3
  <2>5. Len(Purged) <= PendingLimit
    BY <1>2, <2>4
  <2> QED BY <1>4, <1>5, <2>4, <2>5, SeqEmpty
<1>6. CASE ~ (pc = "graphics" /\ Len(pending) > PendingLimit)
  <2>1. Purged = pending
    BY <1>6 DEF Purged
  <2>2. pc = "graphics" => Len(pending) <= PendingLimit
    BY <1>1, <1>2, <1>6
  <2> QED BY <1>1, <1>3, <1>4, <2>1, <2>2
<1> QED BY <1>5, <1>6


(* Reading what is not of the static channel leads nowhere. *)
LEMMA LinePassed ==
  ASSUME RouterInv, wire # <<>>, Head(wire).channel # "drdynvc"
  PROVE  Way(ClientPlace, Tail(wire), rest, ServerPlace, chan, offers, Strays)
         /\ IsSeq(Tail(wire))
PROOF
<1>1. IsSeq(wire)
  BY DEF RouterInv, Lines
<1> DEFINE m == Head(wire)
<1>2. PICK u : /\ Place(u) /\ Step(ClientPlace, m, u, chan, offers, Strays)
               /\ Way(u, Tail(wire), rest, ServerPlace, chan, offers, Strays)
  BY <1>1, WayReads DEF RouterInv, WayInv
<1>3. m.channel # "drdynvc"
  OBVIOUS
<1> HIDE DEF m
<1>4. u = ClientPlace
  BY <1>2, <1>3 DEF Step, Chunk
<1> QED BY <1>1, <1>2, <1>4, SeqTail

(* What a step of the client that does not touch its manager, the answers   *)
(* and what is received makes of the invariant.                             *)
LEMMA ReadsOnRouterInv ==
  ASSUME RouterInv,
         UNCHANGED <<rest, channelVars, demux, dvc, answers, chan, received>>,
         \/ UNCHANGED wire
         \/ wire # <<>> /\ Head(wire).channel # "drdynvc" /\ wire' = Tail(wire),
         NEW more, up' = up \o more, IsSeq(more),
         \A k \in DOMAIN more : ~ Answered(more[k]),
         \/ pending' = pending
         \/ Reading /\ pending' = Purged,
         \/ pc' = pc
         \/ pc \in Finalizing /\ pc' \in Finalizing \cup {"active", "failed"}
  PROVE  RouterInv'
PROOF
<1>1. UNCHANGED <<channel, fragment, stray, sent, offers>>
  BY DEF channelVars
<1>2. IsSeq(wire') /\ Way(ClientPlace, wire', rest, ServerPlace, chan, offers, Strays)
  BY LinePassed DEF RouterInv, Lines, WayInv
<1>3. IsSeq(up)
  BY DEF RouterInv, Lines
<1>4. /\ IsSeq(pending')
      /\ (\E k \in DOMAIN pending' : pending'[k].id = chan)
           <=> (\E k \in DOMAIN pending : pending[k].id = chan)
      /\ \A k \in DOMAIN pending' : \E i \in DOMAIN pending : pending'[k] = pending[i]
  <2>1. CASE UNCHANGED pending
    BY <2>1 DEF RouterInv, Lines
  <2>2. CASE Reading /\ pending' = Purged
    <3>1. /\ IsSeq(Purged) /\ Queued = 0
          /\ \A k \in DOMAIN Purged :
               /\ Purged[k].id # chan
               /\ \E i \in DOMAIN pending : Purged[k] = pending[i]
      BY <2>2, PurgedQueue
    <3>2. ~ \E k \in DOMAIN pending : pending[k].id = chan
      BY <3>1 DEF Queued
    <3> QED BY <2>2, <3>1, <3>2
  <2> QED BY <2>1, <2>2
<1>5. Strays' = Strays /\ ServerPlace' = ServerPlace /\ ClientPlace' = ClientPlace
  <2>1. Queued' = Queued
    BY <1>4 DEF Queued
  <2> QED BY <1>1, <2>1 DEF Strays, ServerPlace, ClientPlace
<1>6. /\ IsSeq(up')
      /\ \A k \in DOMAIN up' : Answered(up'[k]) =>
           \E i \in DOMAIN up : up'[k] = up[i]
      /\ OneEach(up')
  <2>1. OneEach(up)
    BY DEF RouterInv, RequestInv, OneEach
  <2> QED BY <1>3, <2>1, UpQuiet
<1>7. Lines'
  BY <1>1, <1>2, <1>4, <1>6 DEF RouterInv, Lines
<1>8. ServerInv'
  BY <1>1 DEF RouterInv, ServerInv
<1>9. RequestInv'
  <2>1. Asked' = Asked
    BY <1>1 DEF Asked
  <2>2. \A k \in DOMAIN up : Answered(up[k]) =>
          /\ up[k].id \in Ids /\ channel[up[k].id] = "offered"
          /\ \A j \in Asked : offers[j].id # up[k].id
    BY DEF RouterInv, RequestInv
  <2>3. \A k \in DOMAIN up' : Answered(up'[k]) =>
          /\ up'[k].id \in Ids /\ channel[up'[k].id] = "offered"
          /\ \A j \in Asked : offers[j].id # up'[k].id
    BY <1>6, <2>2
  <2> QED BY <1>1, <1>6, <2>1, <2>3 DEF RouterInv, RequestInv
<1>10. ClientInv'
  <2>1. Holds(ClientPlace, dvc, chan)'
    BY <1>5 DEF RouterInv, ClientInv
  <2>2. CASE pc = "graphics"
    <3>1. pc' = pc
      BY <2>2 DEF Finalizing
    <3>2. Drawing'
      <4>1. Drawing
        BY <2>2 DEF RouterInv, ClientInv
      <4>2. \A k \in DOMAIN pending' : pending'[k].id = chan =>
              /\ pending'[k].cells = Cells(chan, Len(received) + 1)
              /\ \A j \in DOMAIN pending' : pending'[j].id = chan => j = k
        <5>1. CASE UNCHANGED pending
          BY <4>1, <5>1 DEF Drawing
        <5>2. CASE Reading /\ pending' = Purged
          BY <5>2, PurgedQueue
        <5> QED BY <5>1, <5>2
      <4> QED BY <4>1, <4>2 DEF Drawing
    <3> QED BY <2>1, <2>2, <3>1, <3>2 DEF RouterInv, ClientInv
  <2>3. CASE pc # "graphics"
    <3>1. Beforehand
      BY <2>3 DEF RouterInv, ClientInv
    <3>2. \A k \in DOMAIN up' : Answered(up'[k]) => ~ up'[k].accept
      BY <1>6, <3>1 DEF Beforehand
    <3>3. \A k \in DOMAIN pending' : pending'[k].id \in Strays
      BY <1>4, <3>1 DEF Beforehand
    <3>4. Beforehand'
      BY <1>1, <1>5, <3>1, <3>2, <3>3 DEF Beforehand
    <3>5. /\ pc' \in Finalizing \cup {"active", "open", "graphics", "failed"}
          /\ pc' # "graphics"
          /\ pc' \in {"open", "graphics"} <=> pc \in {"open", "graphics"}
      BY <2>3 DEF RouterInv, ClientInv, Finalizing
    <3>6. dvc'.wanted = IF pc' \in {"open", "graphics"} THEN {Gfx} ELSE {}
      BY <3>5 DEF RouterInv, ClientInv
    <3> QED BY <2>1, <3>4, <3>5, <3>6 DEF RouterInv, ClientInv
  <2> QED BY <2>2, <2>3
<1>11. WayInv'
  BY <1>1, <1>2, <1>5 DEF WayInv
<1> QED BY <1>7, <1>8, <1>9, <1>10, <1>11 DEF RouterInv

LEMMA HandshakeRouterInv ==
  ASSUME RouterInv, License \/ DemandActive \/ Finalization
  PROVE  RouterInv'
PROOF
<1>1. PICK reply \in {<<>>, <<FontList>>}, next \in Finalizing \cup {"active", "failed"} :
        ReturnIo(next, reply) /\ pc \in Finalizing /\ ReadsIo
  <2>1. CASE License
    <3>1. PICK next \in {"demand", "failed"} : ReturnIo(next, <<>>)
      BY <2>1 DEF License
    <3> QED BY <2>1, <3>1 DEF License, Finalizing
  <2>2. CASE DemandActive
    BY <2>2 DEF DemandActive, Finalizing
  <2>3. CASE Finalization
    <3>1. PICK next \in {"active", "failed", "finalize"} : ReturnIo(next, <<>>)
      BY <2>3 DEF Finalization
    <3> QED BY <2>3, <3>1 DEF Finalization, Finalizing
  <2> QED BY <2>1, <2>2, <2>3
<1>2. IsSeq(reply) /\ \A k \in DOMAIN reply : ~ Answered(reply[k])
  <2>1. CASE reply = <<>>
    BY <2>1, SeqEmpty
  <2>2. CASE reply = <<FontList>>
    BY <2>2, SeqOne DEF Answered, FontList
  <2> QED BY <1>1, <2>1, <2>2
<1>3. /\ wire # <<>> /\ Head(wire).channel # "drdynvc" /\ wire' = Tail(wire)
      /\ up' = up \o reply /\ pc' = next
      /\ UNCHANGED pending
      /\ UNCHANGED <<rest, channelVars, demux, dvc, answers, chan, received>>
  BY <1>1 DEF ReturnIo, ReadsIo, Reading, serverVars, routerVars
<1>4. pc \in Finalizing /\ pc' \in Finalizing \cup {"active", "failed"}
  BY <1>1, <1>3
<1>5. \/ UNCHANGED wire
      \/ wire # <<>> /\ Head(wire).channel # "drdynvc" /\ wire' = Tail(wire)
  <2>1. wire # <<>>
    BY <1>3
  <2>2. Head(wire).channel # "drdynvc"
    BY <1>3
  <2>3. wire' = Tail(wire)
    BY <1>3
  <2> QED BY <2>1, <2>2, <2>3
<1>6. \/ pending' = pending
      \/ Reading /\ pending' = Purged
  BY <1>3
<1>7. \/ pc' = pc
      \/ pc \in Finalizing /\ pc' \in Finalizing \cup {"active", "failed"}
  BY <1>4
<1>8. /\ UNCHANGED <<rest, channelVars, demux, dvc, answers, chan, received>>
      /\ up' = up \o reply
  BY <1>3
<1> QED BY <1>2, <1>5, <1>6, <1>7, <1>8, ReadsOnRouterInv

LEMMA UpStays ==
  ASSUME IsSeq(up), UNCHANGED up
  PROVE  up' = up \o <<>>
PROOF
<1>1. PICK S : up \in Seq(S)
  BY DEF IsSeq
<1>2. up \o <<>> = up
  BY <1>1, ConcatEmptySeq
<1> QED BY <1>2

LEMMA PassRouterInv ==
  ASSUME RouterInv, SkipIo \/ DropUnknown
  PROVE  RouterInv'
PROOF
<1>1. /\ Reading /\ Head(wire).channel \in {"io", "user"} /\ wire' = Tail(wire)
      /\ pending' = Purged
      /\ UNCHANGED <<up, rest, channelVars, pc, demux, dvc, answers, chan, received>>
  BY DEF SkipIo, DropUnknown, ReadsIo, serverVars
<1>2. wire # <<>> /\ Head(wire).channel # "drdynvc"
  BY <1>1 DEF Reading
<1>3. up' = up \o <<>>
  BY <1>1, UpStays DEF RouterInv, Lines
<1>4. IsSeq(<<>>) /\ \A k \in DOMAIN <<>> : ~ Answered(<<>>[k])
  BY SeqEmpty
<1> QED BY <1>1, <1>2, <1>3, <1>4, ReadsOnRouterInv

(* run_session asks for the graphics channel when none can be open. *)
LEMMA OpenDvcRouterInv == RouterInv /\ OpenDvcChannel => RouterInv'
PROOF
<1> SUFFICES ASSUME RouterInv, OpenDvcChannel PROVE RouterInv'
  OBVIOUS
<1>1. pc = "active" /\ dvc' = WantChannel(dvc, Gfx)
      /\ UNCHANGED <<wire, rest, channel, fragment, stray, sent, offers, demux,
                     pending, answers, received>>
  BY DEF OpenDvcChannel, serverVars, channelVars
<1>2. Beforehand /\ dvc.wanted = {}
  BY <1>1 DEF RouterInv, ClientInv
<1>3. pc' = "open" /\ UNCHANGED <<chan, up>>
  BY <1>2 DEF OpenDvcChannel, IsOpen, Beforehand
<1>4. /\ dvc' = Manager(dvc.caps_negotiated, {Gfx}, dvc.open, dvc.partial)
      /\ dvc'.wanted = {Gfx} /\ dvc'.open = dvc.open /\ dvc'.partial = dvc.partial
      /\ dvc' = Manager(dvc'.caps_negotiated, dvc'.wanted, dvc'.open, dvc'.partial)
  BY <1>1, <1>2 DEF WantChannel, Manager
<1>5. Strays' = Strays /\ ServerPlace' = ServerPlace /\ ClientPlace' = ClientPlace
  BY <1>1, <1>3, <1>4 DEF Strays, ServerPlace, ClientPlace, Queued
<1>6. Lines' /\ ServerInv' /\ RequestInv'
  BY <1>1, <1>3 DEF RouterInv, Lines, ServerInv, RequestInv, Asked
<1>7. Beforehand'
  BY <1>1, <1>2, <1>3, <1>4, <1>5 DEF Beforehand
<1>8. Holds(ClientPlace, dvc, chan)'
  BY <1>3, <1>4, <1>5 DEF RouterInv, ClientInv, Holds
<1>9. ClientInv'
  BY <1>3, <1>4, <1>7, <1>8 DEF ClientInv
<1>10. WayInv'
  BY <1>1, <1>3, <1>5 DEF RouterInv, WayInv
<1> QED BY <1>6, <1>9, <1>10 DEF RouterInv

LEMMA RemoveAtSeq ==
  ASSUME NEW line, IsSeq(line), NEW k \in DOMAIN line
  PROVE  /\ IsSeq(RemoveAt(line, k))
         /\ \A j \in DOMAIN RemoveAt(line, k) :
              \E i \in DOMAIN line : i # k /\ RemoveAt(line, k)[j] = line[i]
PROOF
<1>1. PICK S : line \in Seq(S)
  BY DEF IsSeq
<1> DEFINE n == Len(line)
           a == SubSeq(line, 1, k - 1)
           b == SubSeq(line, k + 1, n)
<1>2. n \in Nat /\ DOMAIN line = 1 .. n /\ k \in 1 .. n
  BY <1>1, LenProperties
<1>3. /\ a \in Seq(S) /\ Len(a) = k - 1
      /\ \A i \in 1 .. k - 1 : a[i] = line[i]
  <2>1. /\ \A i \in 1 .. k - 1 : line[i] \in S
        /\ 1 \in Int /\ k - 1 \in Int
    BY <1>1, <1>2
  <2>2. /\ a \in Seq(S)
        /\ Len(a) = IF 1 <= k - 1 THEN k - 1 - 1 + 1 ELSE 0
        /\ \A i \in 1 .. k - 1 - 1 + 1 : a[i] = line[1 + i - 1]
    BY <1>1, <1>2, <2>1, SubSeqProperties
  <2>3. k - 1 - 1 + 1 = k - 1 /\ (~ (1 <= k - 1) => k - 1 = 0)
        /\ \A i \in 1 .. k - 1 : 1 + i - 1 = i
    BY <1>2
  <2> QED BY <2>2, <2>3
<1>4. /\ b \in Seq(S) /\ Len(b) = n - k
      /\ \A i \in 1 .. n - k : b[i] = line[k + i]
  <2> DEFINE lo == k + 1
  <2>1. /\ \A i \in lo .. n : line[i] \in S
        /\ lo \in Int /\ n \in Int
    BY <1>1, <1>2
  <2>2. /\ b \in Seq(S)
        /\ Len(b) = IF lo <= n THEN n - lo + 1 ELSE 0
        /\ \A i \in 1 .. n - lo + 1 : b[i] = line[lo + i - 1]
    BY <1>1, <1>2, <2>1, SubSeqProperties
  <2>3. n - lo + 1 = n - k /\ (~ (lo <= n) => n - k = 0)
        /\ \A i \in 1 .. n - k : lo + i - 1 = k + i
    BY <1>2
  <2> HIDE DEF lo, b, n
  <2> QED BY <2>2, <2>3
<1>5. RemoveAt(line, k) = a \o b
  BY DEF RemoveAt
<1> HIDE DEF a, b, n
<1>6. IsSeq(a) /\ IsSeq(b)
  BY <1>3, <1>4 DEF IsSeq
<1>7. /\ IsSeq(a \o b)
      /\ DOMAIN (a \o b) = 1 .. (k - 1) + (n - k)
      /\ \A i \in 1 .. k - 1 : (a \o b)[i] = a[i]
      /\ \A i \in 1 .. n - k : (a \o b)[(k - 1) + i] = b[i]
      /\ \A i \in 1 .. (k - 1) + (n - k) :
           i \in 1 .. k - 1 \/ i - (k - 1) \in 1 .. n - k
  <2> DEFINE c == a \o b
  <2>1. /\ IsSeq(c)
        /\ DOMAIN c = 1 .. Len(a) + Len(b)
        /\ \A i \in 1 .. Len(a) : c[i] = a[i]
        /\ \A i \in 1 .. Len(b) : c[Len(a) + i] = b[i]
        /\ \A i \in 1 .. Len(a) + Len(b) :
             i \in 1 .. Len(a) \/ i - Len(a) \in 1 .. Len(b)
    <3>1. IsSeq(a) /\ IsSeq(b)
      BY <1>6
    <3>2. IsSeq(a \o b) /\ DOMAIN (a \o b) = 1 .. Len(a) + Len(b)
      BY <3>1, SeqConcat
    <3>3. \A i \in 1 .. Len(a) : (a \o b)[i] = a[i]
      BY <3>1, SeqConcat
    <3>4. \A i \in 1 .. Len(b) : (a \o b)[Len(a) + i] = b[i]
      BY <3>1, SeqConcat
    <3>5. \A i \in 1 .. Len(a) + Len(b) :
             i \in 1 .. Len(a) \/ i - Len(a) \in 1 .. Len(b)
      BY <3>1, SeqConcat
    <3> QED BY <3>2, <3>3, <3>4, <3>5
  <2> HIDE DEF c
  <2>2. Len(a) = k - 1 /\ Len(b) = n - k
    BY <1>3, <1>4
  <2> QED BY ONLY <2>1, <2>2 DEF c
<1>8. ASSUME NEW j \in DOMAIN (a \o b)
      PROVE  \E i \in DOMAIN line : i # k /\ (a \o b)[j] = line[i]
  <2>1. CASE j \in 1 .. k - 1
    <3>1. (a \o b)[j] = line[j] /\ j \in DOMAIN line /\ j # k
      BY <1>2, <1>3, <1>7, <2>1
    <3> QED BY <3>1
  <2>2. CASE j \notin 1 .. k - 1
    <3> DEFINE i == j - (k - 1)
    <3>1. i \in 1 .. n - k /\ (k - 1) + i = j /\ k + i \in 1 .. n /\ k + i # k
      BY <1>2, <1>7, <2>2
    <3> HIDE DEF i
    <3>2. (a \o b)[j] = line[k + i]
      BY <1>4, <1>7, <3>1
    <3> QED BY <1>2, <3>1, <3>2
  <2> QED BY <2>1, <2>2
<1> QED BY <1>5, <1>7, <1>8

(* The message that is queued becomes one that is received. *)
LEMMA TakePendingRouterInv ==
  ASSUME RouterInv, TakePending
  PROVE  RouterInv'
PROOF
<1>1. PICK k \in DOMAIN pending :
        /\ pending[k].id = chan
        /\ received' = Append(received, pending[k].cells)
        /\ pending' = RemoveAt(pending, k)
  BY DEF TakePending
<1>2. pc = "graphics"
      /\ UNCHANGED <<wire, up, rest, channel, fragment, stray, sent, offers, pc,
                     demux, dvc, answers, chan>>
  BY DEF TakePending, connection, serverVars, channelVars
<1>3. Drawing
  BY <1>2 DEF RouterInv, ClientInv
<1>4. /\ IsSeq(pending')
      /\ \A j \in DOMAIN pending' :
           \E i \in DOMAIN pending : i # k /\ pending'[j] = pending[i]
  BY <1>1, RemoveAtSeq DEF RouterInv, Lines
<1>5. \A j \in DOMAIN pending' : pending'[j].id # chan
  BY <1>1, <1>3, <1>4 DEF Drawing
<1>6. Queued = 1 /\ Queued' = 0
  BY <1>1, <1>2, <1>5 DEF Queued
<1>7. IsSeq(received') /\ Len(received) \in Nat
      /\ Len(received') = Len(received) + 1
  BY <1>1, SeqAppend DEF RouterInv, Lines
<1>8. ClientPlace' = ClientPlace
  <2>1. Len(received') + Queued' = Len(received) + Queued
    BY <1>6, <1>7
  <2> QED BY <1>2, <2>1 DEF ClientPlace
<1>9. Strays' = Strays /\ ServerPlace' = ServerPlace
  BY <1>2 DEF Strays, ServerPlace
<1>10. Lines' /\ ServerInv' /\ RequestInv'
  BY <1>2, <1>4, <1>7 DEF RouterInv, Lines, ServerInv, RequestInv, Asked
<1>11. Drawing'
  BY <1>2, <1>3, <1>5 DEF Drawing
<1>12. Holds(ClientPlace, dvc, chan)'
  BY <1>2, <1>8 DEF RouterInv, ClientInv
<1>13. ClientInv'
  BY <1>2, <1>11, <1>12 DEF RouterInv, ClientInv
<1>14. WayInv'
  BY <1>2, <1>8, <1>9 DEF RouterInv, WayInv
<1> QED BY <1>10, <1>13, <1>14 DEF RouterInv

(* A chunk takes the client one step onwards, and the manager does what     *)
(* that step asks of it.                                                    *)
LEMMA ChunkRead ==
  ASSUME RouterInv, ReadsChunk
  PROVE  \E u : /\ Place(u) /\ Feed(demux, Head(wire)).buffer = u.half
                /\ Way(u, Tail(wire), rest, ServerPlace, chan, offers, Strays)
                /\ Handled(dvc, Reaction, ClientPlace, u, chan, offers, Strays)
PROOF
<1> DEFINE m == Head(wire)
           s == ClientPlace
<1>1. IsSeq(wire) /\ wire # <<>> /\ m.channel = "drdynvc"
  BY DEF ReadsChunk, Reading, RouterInv, Lines
<1>2. PICK u : /\ Place(u) /\ Step(s, m, u, chan, offers, Strays)
               /\ Way(u, Tail(wire), rest, ServerPlace, chan, offers, Strays)
  BY <1>1, WayReads DEF RouterInv, WayInv
<1>3. Place(s) /\ s.half = demux
  BY ClientPlaced DEF RouterInv
<1>4. chan \notin Strays
  <2>1. CASE pc = "graphics"
    BY <2>1 DEF RouterInv, ClientInv, Drawing, Strays
  <2>2. CASE pc # "graphics"
    BY <2>2, RouterAssumption
       DEF RouterInv, ClientInv, Beforehand, Strays, RouterAssumption
  <2> QED BY <2>1, <2>2
<1>5. Holds(s, dvc, chan)
  BY DEF RouterInv, ClientInv
<1> HIDE DEF m, s
<1>6. \/ /\ Feed(demux, m) = [buffer |-> u.half, message |-> <<>>]
         /\ Same(s, u)
      \/ \E pdu :
           /\ Feed(demux, m) = [buffer |-> u.half, message |-> <<pdu>>]
           /\ Moves(s, pdu, u, chan, offers, Strays)
  BY <1>1, <1>2, <1>3, FeedStep
<1>7. Handled(dvc, Reaction, s, u, chan, offers, Strays)
      /\ Feed(demux, m).buffer = u.half
  <2>1. CASE /\ Feed(demux, m) = [buffer |-> u.half, message |-> <<>>]
             /\ Same(s, u)
    <3>1. Feed(demux, m).message = <<>> /\ Feed(demux, m).buffer = u.half
      BY <2>1
    <3>2. Reaction = Quiet(dvc)
      BY <3>1 DEF Reaction, m
    <3>3. /\ Reaction.dvc = dvc /\ Reaction.written = <<>>
          /\ Reaction.data = <<>> /\ Reaction.opened = <<>>
      BY <3>2 DEF Quiet, Outcome
    <3>4. Holds(u, dvc, chan)
      BY <1>5, <2>1 DEF Holds, Same
    <3>5. GivesData(dvc, Reaction, s, u, chan, Strays)
      BY <2>1, <3>3 DEF GivesData, Same
    <3> QED BY <3>1, <3>3, <3>4, <3>5 DEF Handled
  <2>2. ASSUME NEW pdu,
               Feed(demux, m) = [buffer |-> u.half, message |-> <<pdu>>],
               Moves(s, pdu, u, chan, offers, Strays)
        PROVE  Handled(dvc, Reaction, s, u, chan, offers, Strays)
               /\ Feed(demux, m).buffer = u.half
    <3>1. Feed(demux, m).message = <<pdu>> /\ Feed(demux, m).buffer = u.half
      BY <2>2
    <3>2. <<pdu>> # <<>> /\ Head(<<pdu>>) = pdu
      OBVIOUS
    <3>3. Reaction = HandleMessage(dvc, pdu)
      BY <3>1, <3>2 DEF Reaction, m
    <3>4. Handled(dvc, HandleMessage(dvc, pdu), s, u, chan, offers, Strays)
      BY <1>2, <1>3, <1>4, <1>5, <2>2, HandleMove
    <3> QED BY <3>1, <3>3, <3>4
  <2> QED BY <1>6, <2>1, <2>2
<1> QED BY <1>2, <1>7 DEF m, s

(* Nothing is queued for a channel. *)
WithoutOwn(queue, c) == \A k \in DOMAIN queue : queue[k].id # c

(* The queue after a message of data. *)
LEMMA QueueGrows ==
  ASSUME NEW queue, IsSeq(queue), NEW c, WithoutOwn(queue, c),
         NEW data, data = <<>> \/ \E d : data = <<d>>
  PROVE  LET all == queue \o data
         IN  /\ IsSeq(all) /\ Len(all) <= Len(queue) + 1
             /\ data = <<>> => all = queue
             /\ \A k \in DOMAIN all :
                  \/ \E i \in DOMAIN queue : all[k] = queue[i]
                  \/ data # <<>> /\ all[k] = data[1]
             /\ data # <<>> => \E k \in DOMAIN all : all[k] = data[1]
             /\ \A j, k \in DOMAIN all : all[j].id = c /\ all[k].id = c => j = k
PROOF
<1> DEFINE all == queue \o data
           n == Len(queue)
<1>1. CASE data = <<>>
  <2>1. PICK S : queue \in Seq(S)
    BY DEF IsSeq
  <2>2. all = queue
    BY <1>1, <2>1, ConcatEmptySeq
  <2>3. n \in Nat
    BY SeqAppend
  <2> HIDE DEF all
  <2>4. Len(all) <= n + 1
    BY <2>2, <2>3
  <2> QED BY <1>1, <2>2, <2>4 DEF all, WithoutOwn
<1>2. ASSUME NEW d, data = <<d>>
      PROVE  /\ IsSeq(all) /\ Len(all) <= n + 1
             /\ \A k \in DOMAIN all :
                  \/ \E i \in DOMAIN queue : all[k] = queue[i]
                  \/ data # <<>> /\ all[k] = data[1]
             /\ \E k \in DOMAIN all : all[k] = data[1]
             /\ \A j, k \in DOMAIN all : all[j].id = c /\ all[k].id = c => j = k
  <2>1. IsSeq(data) /\ Len(data) = 1 /\ data[1] = d /\ data # <<>>
    BY <1>2, SeqOne
  <2>2. n \in Nat /\ DOMAIN queue = 1 .. n
    BY SeqAppend
  <2>3. /\ IsSeq(all) /\ Len(all) = n + Len(data)
        /\ DOMAIN all = 1 .. n + Len(data)
        /\ \A k \in 1 .. n : all[k] = queue[k]
        /\ \A k \in 1 .. Len(data) : all[n + k] = data[k]
    <3>1. IsSeq(all) /\ DOMAIN all = 1 .. n + Len(data)
      BY <2>1, SeqConcat
    <3>4. Len(all) = n + Len(data)
      BY <2>1, SeqConcat
    <3>2. \A k \in 1 .. n : all[k] = queue[k]
      BY <2>1, SeqConcat
    <3>3. \A k \in 1 .. Len(data) : all[n + k] = data[k]
      <4>1. IsSeq(queue) /\ IsSeq(data)
        BY <2>1
      <4> QED BY ONLY <4>1, SeqConcat
    <3> QED BY <3>1, <3>2, <3>3, <3>4
  <2> HIDE DEF all, n
  <2>4. /\ Len(all) = n + 1 /\ DOMAIN all = 1 .. n + 1
        /\ all[n + 1] = d
    <3>1. 1 \in 1 .. Len(data)
      BY <2>1
    <3>2. all[n + 1] = data[1]
      BY <2>3, <3>1
    <3> QED BY <2>1, <2>3, <3>2
  <2>5. \A k \in 1 .. n + 1 : k # n + 1 => k \in 1 .. n
    BY <2>2
  <2>6. \A k \in DOMAIN all :
          \/ k \in DOMAIN queue /\ all[k] = queue[k]
          \/ k = n + 1
    BY <2>2, <2>3, <2>4, <2>5
  <2>7. n + 1 \in DOMAIN all /\ Len(all) <= n + 1
    BY <2>2, <2>4
  <2>8. \A k \in DOMAIN all : all[k].id = c => k = n + 1
    BY <2>6 DEF WithoutOwn
  <2> QED BY <2>1, <2>3, <2>4, <2>6, <2>7, <2>8
<1> QED BY <1>1, <1>2

(* What the client writes when it answers a request. *)
Replies(r, written, more) ==
  /\ written \in {<<r>>, <<CapabilityResponse, r>>}
  /\ more \in {<<>>, <<CapsAdvertise>>}

LEMMA UpAnswers ==
  ASSUME NEW line, IsSeq(line), NEW r, NEW written, NEW more,
         Replies(r, written, more),
         OneEach(line),
         Fresh(line, r)
  PROVE  LET all == line \o written \o more
         IN  /\ IsSeq(all)
             /\ \A k \in DOMAIN all : Answered(all[k]) =>
                  (\E i \in DOMAIN line : all[k] = line[i]) \/ all[k] = r
             /\ OneEach(all)
PROOF
<1> DEFINE part == line \o written
           all == part \o more
<1>1. /\ IsSeq(written)
      /\ \A k \in DOMAIN written : Answered(written[k]) =>
           written[k] = r /\ k = Len(written)
  <2>1. CASE written = <<r>>
    <3>1. IsSeq(written)
      BY <2>1, SeqOne
    <3>2. \A k \in DOMAIN written : k = Len(written) /\ written[k] = r
      BY <2>1
    <3> QED BY <3>1, <3>2
  <2>2. CASE written = <<CapabilityResponse, r>>
    <3>1. written \in Seq({CapabilityResponse, r})
      BY <2>2
    <3>2. Len(written) = 2 /\ written[1] = CapabilityResponse /\ written[2] = r
          /\ DOMAIN written = 1 .. 2
      BY <2>2
    <3>3. ~ Answered(CapabilityResponse)
      BY DEF Answered, CapabilityResponse
    <3>4. \A k \in 1 .. 2 : k = 1 \/ k = 2
      OBVIOUS
    <3>5. IsSeq(written)
      BY <3>1 DEF IsSeq
    <3> QED BY ONLY <3>2, <3>3, <3>4, <3>5
  <2> QED BY <2>1, <2>2 DEF Replies
<1>2. IsSeq(more) /\ \A k \in DOMAIN more : ~ Answered(more[k])
  <2>1. IsSeq(more)
    BY SeqEmpty, SeqOne DEF Replies
  <2>2. \A k \in DOMAIN more : more[k] = CapsAdvertise
    BY DEF Replies
  <2> QED BY <2>1, <2>2 DEF Answered, CapsAdvertise
<1>3. /\ \A k \in DOMAIN written : Answered(written[k]) => written[k] = r
      /\ \A j, k \in DOMAIN written :
           Answered(written[j]) /\ Answered(written[k]) => j = k
  BY <1>1
<1>4. IsSeq(part)
  BY <1>1, SeqConcat
<1>5. /\ \A k \in DOMAIN part : Answered(part[k]) =>
           \/ \E i \in DOMAIN line : part[k] = line[i]
           \/ part[k] = r /\ \E i \in DOMAIN written : Answered(written[i])
      /\ OneEach(part)
  BY <1>1, <1>3, UpWrites
<1> HIDE DEF part
<1>6. /\ IsSeq(all)
      /\ \A k \in DOMAIN all : Answered(all[k]) =>
           \E i \in DOMAIN part : all[k] = part[i]
      /\ OneEach(all)
  BY <1>2, <1>4, <1>5, UpQuiet
<1> HIDE DEF all
<1>7. ASSUME NEW k \in DOMAIN all, Answered(all[k])
      PROVE  (\E i \in DOMAIN line : all[k] = line[i]) \/ all[k] = r
  <2>1. PICK i \in DOMAIN part : all[k] = part[i]
    BY <1>6, <1>7
  <2>2. Answered(part[i])
    BY <1>7, <2>1
  <2> QED BY <1>5, <2>1, <2>2
<1> QED BY <1>6, <1>7 DEF part, all

(* A chunk that brings no request. *)
LEMMA ChunkDataRouterInv ==
  ASSUME RouterInv, ReadsChunk, HandleChunk(<<>>), UNCHANGED <<pc, chan>>,
         NEW u, Place(u), demux' = u.half,
         Way(u, Tail(wire), rest, ServerPlace, chan, offers, Strays),
         Reaction.dvc.wanted = dvc.wanted, Holds(u, Reaction.dvc, chan),
         GivesData(dvc, Reaction, ClientPlace, u, chan, Strays)
  PROVE  RouterInv'
PROOF
<1> DEFINE data == Reaction.data
           all == up \o Reaction.written
           queue == Purged \o data
<1>1. /\ wire # <<>> /\ wire' = Tail(wire) /\ dvc' = Reaction.dvc
      /\ up' = all \o <<>> /\ pending' = queue
      /\ UNCHANGED <<rest, channel, fragment, stray, sent, offers, received>>
  BY DEF HandleChunk, serverVars, channelVars, ReadsChunk, Reading
<1>2. answers' = answers
  <2>1. ~ Answers(<<>>)
    BY DEF Answers
  <2>2. ~ Answers(<<CapabilityResponse>>)
    <3>1. Last(<<CapabilityResponse>>) = CapabilityResponse
      BY DEF Last
    <3> QED BY <3>1 DEF Answers, CapabilityResponse
  <2> QED BY <2>1, <2>2 DEF HandleChunk, GivesData
<1>3. /\ IsSeq(Purged) /\ Queued = 0
      /\ \A k \in DOMAIN Purged :
           /\ Purged[k].id # chan
           /\ \E i \in DOMAIN pending : Purged[k] = pending[i]
  BY PurgedQueue DEF ReadsChunk
<1>4. /\ ClientPlace.answered = Len(answers)
      /\ ClientPlace.whole = Len(received)
      /\ Len(received) \in Nat
  BY <1>3, ClientPlaced DEF RouterInv
<1>5. \/ u.whole = Len(received) /\ data = <<>>
      \/ /\ u.whole = Len(received)
         /\ \E id, cells : /\ data = <<[id |-> id, cells |-> cells]>>
                           /\ id # chan /\ (chan = NoId => id \in Strays)
      \/ /\ u.whole = Len(received) + 1 /\ chan \in Ids
         /\ data = <<[id |-> chan, cells |-> Cells(chan, Len(received) + 1)]>>
  BY <1>4 DEF GivesData
<1>6. data = <<>> \/ \E d : data = <<d>>
  BY <1>5
<1>7. /\ IsSeq(queue)
      /\ data = <<>> => queue = Purged
      /\ \A k \in DOMAIN queue :
           \/ \E i \in DOMAIN Purged : queue[k] = Purged[i]
           \/ data # <<>> /\ queue[k] = data[1]
      /\ data # <<>> => \E k \in DOMAIN queue : queue[k] = data[1]
      /\ \A j, k \in DOMAIN queue : queue[j].id = chan /\ queue[k].id = chan => j = k
  <2> HIDE DEF data
  <2> DEFINE first == Purged
  <2>1. IsSeq(first) /\ WithoutOwn(first, chan)
    BY <1>3 DEF WithoutOwn
  <2> HIDE DEF first
  <2>2. LET longer == first \o data
        IN  /\ IsSeq(longer)
            /\ data = <<>> => longer = first
            /\ \A k \in DOMAIN longer :
                 \/ \E i \in DOMAIN first : longer[k] = first[i]
                 \/ data # <<>> /\ longer[k] = data[1]
            /\ data # <<>> => \E k \in DOMAIN longer : longer[k] = data[1]
            /\ \A j, k \in DOMAIN longer :
                 longer[j].id = chan /\ longer[k].id = chan => j = k
    BY ONLY <1>6, <2>1, QueueGrows
  <2> QED BY <2>2 DEF first
<1> HIDE DEF data, queue
<1>8. u.whole = Len(received) + Queued'
      /\ \A k \in DOMAIN pending' : pending'[k].id = chan =>
           pending'[k].cells = Cells(chan, Len(received) + 1)
  <2>1. Queued' = IF \E k \in DOMAIN queue : queue[k].id = chan THEN 1 ELSE 0
    BY <1>1 DEF Queued
  <2>2. CASE data = <<>>
    <3>1. \A k \in DOMAIN queue : queue[k].id # chan
      BY <1>3, <1>7, <2>2
    <3>2. u.whole = Len(received)
      BY <1>5, <2>2
    <3> QED BY <1>1, <1>4, <2>1, <3>1, <3>2
  <2>3. ASSUME NEW id, NEW cells, data = <<[id |-> id, cells |-> cells]>>,
               id # chan
        PROVE  \A k \in DOMAIN queue : queue[k].id # chan
    <3>1. data[1].id = id
      BY <2>3
    <3> QED BY <1>3, <1>7, <2>3, <3>1
  <2>4. CASE /\ u.whole = Len(received)
             /\ \E id, cells : /\ data = <<[id |-> id, cells |-> cells]>>
                               /\ id # chan
    BY <1>1, <1>4, <2>1, <2>3, <2>4
  <2>5. CASE /\ u.whole = Len(received) + 1
             /\ data = <<[id |-> chan, cells |-> Cells(chan, Len(received) + 1)]>>
    <3>1. /\ data # <<>> /\ data[1].id = chan
          /\ data[1].cells = Cells(chan, Len(received) + 1)
      BY <2>5
    <3>2. \E k \in DOMAIN queue : queue[k].id = chan
      BY <1>7, <3>1
    <3>3. \A k \in DOMAIN queue : queue[k].id = chan =>
            queue[k].cells = Cells(chan, Len(received) + 1)
      BY <1>3, <1>7, <3>1
    <3> QED BY <1>1, <2>1, <2>5, <3>2, <3>3
  <2> QED BY <1>5, <2>2, <2>4, <2>5
<1>9. ClientPlace' = u
  <2>1. Len(answers') = u.answered
    BY <1>2, <1>4 DEF GivesData
  <2>2. (chan \in DOMAIN dvc.partial)' = u.begun
    <3>1. chan \in DOMAIN Reaction.dvc.partial <=> u.begun
      BY DEF Holds
    <3>2. u.begun \in BOOLEAN
      BY DEF Place
    <3>3. dvc'.partial = Reaction.dvc.partial /\ chan' = chan
      BY <1>1
    <3> QED BY <3>1, <3>2, <3>3
  <2>3. Len(received') + Queued' = u.whole
    BY <1>1, <1>8
  <2>4. ClientPlace' = At(u.half, u.answered, u.whole, u.begun)
    BY <2>1, <2>2, <2>3 DEF ClientPlace
  <2> QED BY <2>4 DEF Place, At
<1>10. Strays' = Strays /\ ServerPlace' = ServerPlace
  BY <1>1, <1>2 DEF Strays, ServerPlace
<1>11. /\ IsSeq(all) /\ up' = all
       /\ \A k \in DOMAIN all : Answered(all[k]) =>
            \E i \in DOMAIN up : all[k] = up[i]
       /\ OneEach(all)
  <2> DEFINE written == Reaction.written
  <2>1. IsSeq(up)
        /\ OneEach(up)
    BY DEF RouterInv, Lines, RequestInv, OneEach
  <2>2. written \in {<<>>, <<CapabilityResponse>>}
    BY DEF GivesData
  <2> HIDE DEF written
  <2>3. IsSeq(written)
    BY <2>2, SeqEmpty, SeqOne
  <2>4. \A k \in DOMAIN written : written[k] = CapabilityResponse
    BY <2>2
  <2>5. \A k \in DOMAIN written : ~ Answered(written[k])
    BY <2>4 DEF Answered, CapabilityResponse
  <2>6. /\ IsSeq(all)
        /\ \A k \in DOMAIN all : Answered(all[k]) =>
             \E i \in DOMAIN up : all[k] = up[i]
        /\ OneEach(all)
    BY <2>1, <2>3, <2>5, UpQuiet DEF written
  <2> HIDE DEF all
  <2>7. all \o <<>> = all
    <3>1. PICK S : all \in Seq(S)
      BY <2>6 DEF IsSeq
    <3> QED BY <3>1, ConcatEmptySeq
  <2> QED BY <1>1, <2>6, <2>7
<1>12. Lines'
  <2>1. IsSeq(wire')
    BY <1>1, SeqTail DEF RouterInv, Lines
  <2> QED BY <1>1, <1>2, <1>7, <1>11, <2>1 DEF RouterInv, Lines
<1>13. ServerInv'
  BY <1>1 DEF RouterInv, ServerInv
<1>14. RequestInv'
  <2>1. Asked' = Asked
    BY <1>1, <1>2 DEF Asked
  <2>2. \A k \in DOMAIN up : Answered(up[k]) =>
          /\ up[k].id \in Ids /\ channel[up[k].id] = "offered"
          /\ \A j \in Asked : offers[j].id # up[k].id
    BY DEF RouterInv, RequestInv
  <2>3. \A k \in DOMAIN up' : Answered(up'[k]) =>
          /\ up'[k].id \in Ids /\ channel[up'[k].id] = "offered"
          /\ \A j \in Asked : offers[j].id # up'[k].id
    BY <1>1, <1>11, <2>2
  <2>4. OneEach(up')
    BY <1>1, <1>11
  <2> QED BY <1>1, <1>2, <2>1, <2>3, <2>4 DEF RouterInv, RequestInv, OneEach
<1>15. ClientInv'
  <2>1. Holds(ClientPlace, dvc, chan)'
    BY <1>1, <1>9
  <2>2. CASE pc = "graphics"
    <3>1. Drawing
      BY <2>2 DEF RouterInv, ClientInv
    <3>2. \A k \in DOMAIN pending' : pending'[k].id = chan =>
            \A j \in DOMAIN pending' : pending'[j].id = chan => j = k
      BY <1>1, <1>7
    <3>3. Drawing'
      BY <1>1, <1>2, <1>8, <3>1, <3>2 DEF Drawing
    <3> QED BY <1>1, <2>1, <2>2, <3>3 DEF RouterInv, ClientInv
  <2>3. CASE pc # "graphics"
    <3>1. Beforehand /\ chan = NoId
      BY <2>3 DEF RouterInv, ClientInv, Beforehand
    <3>2. DOMAIN dvc'.open = {}
      BY <1>1, <3>1 DEF GivesData, Beforehand
    <3>3. \A k \in DOMAIN up' : Answered(up'[k]) => ~ up'[k].accept
      BY <1>1, <1>11, <3>1 DEF Beforehand
    <3>4. \A k \in DOMAIN Purged : Purged[k].id \in Strays
      BY <1>3, <3>1 DEF Beforehand
    <3>5. data # <<>> => data[1].id \in Strays
      <4>1. chan \notin Ids
        BY <3>1, RouterAssumption DEF RouterAssumption
      <4>2. CASE \E id, cells : /\ data = <<[id |-> id, cells |-> cells]>>
                                /\ id \in Strays
        BY <4>2
      <4> QED BY <1>5, <3>1, <4>1, <4>2
    <3>6. \A k \in DOMAIN pending' : pending'[k].id \in Strays
      BY <1>1, <1>7, <3>4, <3>5
    <3>7. Beforehand'
      BY <1>1, <1>2, <1>10, <3>1, <3>2, <3>3, <3>6 DEF Beforehand
    <3> QED BY <1>1, <2>1, <2>3, <3>7 DEF RouterInv, ClientInv
  <2> QED BY <2>2, <2>3
<1>16. WayInv'
  BY <1>1, <1>9, <1>10 DEF WayInv
<1> QED BY <1>12, <1>13, <1>14, <1>15, <1>16 DEF RouterInv

(* The answer to the next request. *)
Request == offers[Len(answers) + 1]
Accepted == Request.name \in dvc.wanted
Response == CreateResponse(Request.id, Accepted)

(* A chunk that brings a request. *)
LEMMA AnswerGiven ==
  ASSUME RouterInv, ReadsChunk,
         NEW more \in {<<>>, <<CapsAdvertise>>}, HandleChunk(more), NEW u,
         GivesAnswer(dvc, Reaction, ClientPlace, u, offers)
  PROVE  /\ Len(answers) \in Nat /\ Len(answers) + 1 \in Asked
         /\ Request.id \in Ids /\ channel[Request.id] = "offered"
         /\ answers' = Append(answers, Response)
         /\ pending' = Purged /\ dvc' = Reaction.dvc /\ wire' = Tail(wire)
         /\ UNCHANGED <<rest, channel, fragment, stray, sent, offers, received>>
         /\ \A k \in DOMAIN up' : Answered(up'[k]) =>
              (\E i \in DOMAIN up : up'[k] = up[i]) \/ up'[k] = Response
         /\ Lines' /\ ServerInv' /\ RequestInv' /\ Strays \subseteq Strays'
PROOF
<1> DEFINE n == Len(answers)
           r == Response
           all == up \o Reaction.written \o more
<1>1. /\ wire # <<>> /\ wire' = Tail(wire) /\ dvc' = Reaction.dvc /\ up' = all
      /\ UNCHANGED <<rest, channel, fragment, stray, sent, offers, received>>
  BY DEF HandleChunk, serverVars, channelVars, ReadsChunk, Reading
<1>2. ClientPlace.answered = n
  BY ClientPlaced DEF RouterInv
<1>3. /\ n < Len(offers) /\ Reaction.data = <<>>
      /\ Reaction.written \in {<<r>>, <<CapabilityResponse, r>>}
  BY <1>2 DEF GivesAnswer, Response, Request, Accepted
<1>4. /\ n \in Nat /\ Len(offers) \in Nat
      /\ DOMAIN offers = 1 .. Len(offers) /\ DOMAIN answers = 1 .. n
  BY SeqAppend DEF RouterInv, Lines
<1>5. n + 1 \in Asked /\ n + 1 \in DOMAIN offers
  BY <1>3, <1>4 DEF Asked
<1>6. Request.id \in Ids /\ channel[Request.id] = "offered"
  BY <1>5 DEF RouterInv, RequestInv, Request
<1>7. r.kind = "create" /\ r.id = Request.id
  BY DEF Response, CreateResponse
<1>8. answers' = Append(answers, r)
  <2> HIDE DEF r
  <2>1. ASSUME NEW written, written \in {<<r>>, <<CapabilityResponse, r>>}
        PROVE  written # <<>> /\ Last(written) = r
    BY <2>1 DEF Last
  <2> DEFINE written == Reaction.written
  <2>2. written # <<>> /\ Last(written) = r
    BY <1>3, <2>1
  <2>3. Answers(written)
    BY <1>7, <2>2 DEF Answers
  <2>4. answers' = IF Answers(written) THEN Append(answers, Last(written))
                   ELSE answers
    BY DEF HandleChunk
  <2> HIDE DEF written
  <2> QED BY <2>2, <2>3, <2>4
<1>9. pending' = Purged /\ IsSeq(Purged)
  <2>1. IsSeq(Purged)
    BY PurgedQueue DEF ReadsChunk
  <2>2. PICK S : Purged \in Seq(S)
    BY <2>1 DEF IsSeq
  <2>3. Purged \o <<>> = Purged
    BY <2>2, ConcatEmptySeq
  <2> QED BY <1>3, <2>1, <2>3 DEF HandleChunk
<1> HIDE DEF r
<1>10. /\ IsSeq(all)
       /\ \A k \in DOMAIN all : Answered(all[k]) =>
            (\E i \in DOMAIN up : all[k] = up[i]) \/ all[k] = r
       /\ OneEach(all)
  <2>1. IsSeq(up)
        /\ OneEach(up)
    BY DEF RouterInv, Lines, RequestInv, OneEach
  <2>2. Fresh(up, r)
    BY <1>5, <1>7 DEF Fresh, RouterInv, RequestInv, Request
  <2> DEFINE written == Reaction.written
  <2>3. Replies(r, written, more)
    BY <1>3 DEF Replies
  <2> HIDE DEF written
  <2>4. LET whole == up \o written \o more
        IN  /\ IsSeq(whole)
            /\ \A k \in DOMAIN whole : Answered(whole[k]) =>
                 (\E i \in DOMAIN up : whole[k] = up[i]) \/ whole[k] = r
            /\ OneEach(whole)
    BY ONLY <2>1, <2>2, <2>3, UpAnswers
  <2> QED BY <2>4 DEF written
<1> HIDE DEF all
<1>11. IsSeq(answers') /\ Len(answers') = n + 1
       /\ DOMAIN answers' = 1 .. n + 1
       /\ (\A k \in 1 .. n : answers'[k] = answers[k])
       /\ answers'[n + 1] = r
  BY <1>8, SeqAppend DEF RouterInv, Lines
<1>12. Lines'
  <2>1. IsSeq(wire')
    BY <1>1, SeqTail DEF RouterInv, Lines
  <2> QED BY <1>1, <1>9, <1>10, <1>11, <2>1 DEF RouterInv, Lines
<1>13. ServerInv'
  BY <1>1 DEF RouterInv, ServerInv
<1>14. \A k \in DOMAIN answers' : k \in DOMAIN answers \/ k = n + 1
  BY <1>4, <1>11
<1>15. RequestInv'
  <2>1. Len(answers') <= Len(offers')
    BY <1>1, <1>3, <1>4, <1>11
  <2>2. \A k \in DOMAIN answers' : answers'[k].id = offers'[k].id
    <3>1. \A k \in DOMAIN answers : answers[k].id = offers[k].id
      BY DEF RouterInv, RequestInv
    <3> QED BY <1>1, <1>4, <1>7, <1>11, <1>14, <3>1 DEF Request
  <2>3. \A k \in Asked' : k \in Asked /\ k # n + 1
    BY <1>1, <1>4, <1>11 DEF Asked
  <2>4. \A k \in Asked' :
          /\ channel'[offers'[k].id] = "offered"
          /\ \A j \in Asked' : offers'[j].id = offers'[k].id => j = k
    BY <1>1, <2>3 DEF RouterInv, RequestInv
  <2>5. \A j \in Asked' : offers'[j].id # r.id
    BY <1>1, <1>5, <1>7, <2>3 DEF RouterInv, RequestInv, Request
  <2>6. ASSUME NEW k \in DOMAIN up', Answered(up'[k])
        PROVE  /\ up'[k].id \in Ids /\ channel'[up'[k].id] = "offered"
               /\ \A j \in Asked' : offers'[j].id # up'[k].id
    <3>1. CASE up'[k] = r
      BY <1>1, <1>6, <1>7, <2>5, <3>1
    <3>2. CASE \E i \in DOMAIN up : up'[k] = up[i]
      BY <1>1, <2>3, <2>6, <3>2 DEF RouterInv, RequestInv
    <3> QED BY <1>1, <1>10, <2>6, <3>1, <3>2
  <2>7. OneEach(up')
    BY <1>1, <1>10
  <2>8. \A k \in DOMAIN offers' : offers'[k].id \in Ids
    BY <1>1 DEF RouterInv, RequestInv
  <2> QED BY <2>1, <2>2, <2>4, <2>6, <2>7, <2>8 DEF RequestInv, OneEach
<1>16. Strays \subseteq Strays'
  <2> SUFFICES ASSUME NEW id \in Strays PROVE id \in Strays'
    OBVIOUS
  <2>1. /\ id \in Ids /\ channel[id] = "declined" /\ stray > 0
        /\ \A k \in DOMAIN answers : answers[k].id = id => ~ answers[k].accept
    BY DEF Strays
  <2>2. r.id # id
    BY <1>6, <1>7, <2>1
  <2>3. \A k \in DOMAIN answers' : answers'[k].id = id => ~ answers'[k].accept
    BY <1>4, <1>11, <1>14, <2>1, <2>2
  <2> QED BY <1>1, <2>1, <2>3 DEF Strays
<1>17. \A k \in DOMAIN up' : Answered(up'[k]) =>
         (\E i \in DOMAIN up : up'[k] = up[i]) \/ up'[k] = r
  BY <1>1, <1>10
<1> QED BY <1>1, <1>4, <1>5, <1>6, <1>8, <1>9, <1>12, <1>13, <1>15, <1>16, <1>17
    DEF r

(* Where the client is when it has answered. *)
LEMMA AnswerPlaced ==
  ASSUME RouterInv, ReadsChunk,
         NEW more \in {<<>>, <<CapsAdvertise>>}, HandleChunk(more),
         NEW u, Place(u), demux' = u.half,
         GivesAnswer(dvc, Reaction, ClientPlace, u, offers),
         u.begun = (chan' \in DOMAIN dvc'.partial),
         \A k \in DOMAIN pending' : pending'[k].id # chan'
  PROVE  ClientPlace' = u
PROOF
<1>1. /\ answers' = Append(answers, Response) /\ UNCHANGED received
      /\ Len(answers) \in Nat
  BY AnswerGiven
<1>2. Queued = 0
  BY PurgedQueue DEF ReadsChunk
<1>3. /\ ClientPlace.answered = Len(answers)
      /\ ClientPlace.whole = Len(received) /\ Len(received) \in Nat
  BY <1>2, ClientPlaced DEF RouterInv
<1>4. u.answered = Len(answers) + 1 /\ u.whole = Len(received)
  BY <1>3 DEF GivesAnswer
<1>5. Len(answers') = Len(answers) + 1
  BY <1>1, SeqAppend DEF RouterInv, Lines
<1>6. Queued' = 0
  BY DEF Queued
<1>7. Len(answers') = u.answered /\ Len(received') + Queued' = u.whole
  BY <1>1, <1>3, <1>4, <1>5, <1>6
<1>8. ClientPlace' = At(u.half, u.answered, u.whole, u.begun)
  BY <1>7 DEF ClientPlace
<1> QED BY <1>8 DEF Place, At

(* The request is declined, or one more is accepted when the graphics       *)
(* channel is there.                                                        *)
LEMMA ChunkAnswerRouterInv ==
  ASSUME RouterInv, ReadsChunk, HandleChunk(<<>>), UNCHANGED <<pc, chan>>,
         NEW u, Place(u), demux' = u.half,
         Way(u, Tail(wire), rest, ServerPlace, chan, offers, Strays),
         Reaction.dvc.wanted = dvc.wanted, Holds(u, Reaction.dvc, chan),
         GivesAnswer(dvc, Reaction, ClientPlace, u, offers),
         pc = "graphics" \/ ~ Accepted
  PROVE  RouterInv'
PROOF
<1>1. /\ Len(answers) \in Nat /\ Len(answers) + 1 \in Asked
      /\ answers' = Append(answers, Response)
      /\ pending' = Purged /\ dvc' = Reaction.dvc /\ wire' = Tail(wire)
      /\ UNCHANGED <<rest, channel, fragment, stray, sent, offers, received>>
      /\ \A k \in DOMAIN up' : Answered(up'[k]) =>
           (\E i \in DOMAIN up : up'[k] = up[i]) \/ up'[k] = Response
      /\ Lines' /\ ServerInv' /\ RequestInv' /\ Strays \subseteq Strays'
  BY AnswerGiven
<1>2. \A k \in DOMAIN Purged :
        /\ Purged[k].id # chan
        /\ \E i \in DOMAIN pending : Purged[k] = pending[i]
  BY PurgedQueue DEF ReadsChunk
<1>3. u.begun = (chan' \in DOMAIN dvc'.partial)
  <2>1. chan \in DOMAIN Reaction.dvc.partial <=> u.begun
    BY DEF Holds
  <2>2. u.begun \in BOOLEAN
    BY DEF Place
  <2>3. dvc'.partial = Reaction.dvc.partial /\ chan' = chan
    BY <1>1
  <2> QED BY <2>1, <2>2, <2>3
<1>4. ClientPlace' = u
  <2>1. \A k \in DOMAIN pending' : pending'[k].id # chan'
    BY <1>1, <1>2
  <2> QED BY <1>3, <2>1, AnswerPlaced
<1>5. ServerPlace' = ServerPlace
  BY <1>1 DEF ServerPlace
<1>6. /\ \A k \in 1 .. Len(answers) : answers'[k] = answers[k]
      /\ answers'[Len(answers) + 1] = Response
      /\ DOMAIN answers = 1 .. Len(answers)
      /\ DOMAIN answers' = 1 .. Len(answers) + 1
  BY <1>1, SeqAppend DEF RouterInv, Lines
<1>7. ClientInv'
  <2>1. Holds(ClientPlace, dvc, chan)'
    BY <1>1, <1>4
  <2>2. CASE pc = "graphics"
    <3>1. Drawing
      BY <2>2 DEF RouterInv, ClientInv
    <3>2. \E k \in DOMAIN answers' : answers'[k].id = chan /\ answers'[k].accept
      <4>1. PICK k \in DOMAIN answers : answers[k].id = chan /\ answers[k].accept
        BY <3>1 DEF Drawing
      <4>2. k \in DOMAIN answers' /\ answers'[k] = answers[k]
        BY <1>1, <1>6
      <4> QED BY <4>1, <4>2
    <3>3. \A k \in DOMAIN pending' : pending'[k].id # chan
      BY <1>1, <1>2
    <3>4. Drawing'
      BY <3>1, <3>2, <3>3 DEF Drawing
    <3> QED BY <1>1, <2>1, <2>2, <3>4 DEF RouterInv, ClientInv
  <2>3. CASE pc # "graphics"
    <3>1. Beforehand
      BY <2>3 DEF RouterInv, ClientInv
    <3>2. ~ Response.accept
      BY <2>3 DEF Response, CreateResponse
    <3>3. \A k \in DOMAIN answers' : ~ answers'[k].accept
      <4>1. \A k \in 1 .. Len(answers) + 1 :
              k \in 1 .. Len(answers) \/ k = Len(answers) + 1
        BY <1>1
      <4> QED BY <1>6, <3>1, <3>2, <4>1 DEF Beforehand
    <3>4. \A k \in DOMAIN up' : Answered(up'[k]) => ~ up'[k].accept
      BY <1>1, <3>1, <3>2 DEF Beforehand
    <3>5. DOMAIN dvc'.open = {}
      <4>1. ClientPlace.answered = Len(answers)
        BY ClientPlaced DEF RouterInv
      <4>2. Reaction.dvc.open = dvc.open
        BY <2>3, <4>1 DEF GivesAnswer, Accepted, Request
      <4> QED BY <1>1, <3>1, <4>2 DEF Beforehand
    <3>6. \A k \in DOMAIN pending' : pending'[k].id \in Strays'
      BY <1>1, <1>2, <3>1 DEF Beforehand
    <3>7. Beforehand'
      BY <1>1, <3>1, <3>3, <3>4, <3>5, <3>6 DEF Beforehand
    <3> QED BY <1>1, <2>1, <2>3, <3>7 DEF RouterInv, ClientInv
  <2> QED BY <2>2, <2>3
<1>8. WayInv'
  <2>1. IsSeq(Tail(wire)) /\ Len(offers) \in Nat
    BY SeqTail, SeqAppend DEF RouterInv, Lines, ReadsChunk, Reading
  <2>2. Way(u, Tail(wire), rest, ServerPlace, chan, offers, Strays')
    BY <1>1, <2>1, WayGrows
  <2> QED BY <1>1, <1>4, <1>5, <2>2 DEF WayInv
<1> QED BY <1>1, <1>7, <1>8 DEF RouterInv

(* The graphics channel is opened: nothing has been sent on it. *)
LEMMA ChunkOpensRouterInv ==
  ASSUME RouterInv, ReadsChunk, HandleChunk(<<CapsAdvertise>>),
         pc = "open", pc' = "graphics", chan' = Request.id, Accepted,
         NEW u, Place(u), demux' = u.half,
         Way(u, Tail(wire), rest, ServerPlace, chan, offers, Strays),
         Reaction.dvc.wanted = dvc.wanted, Holds(u, Reaction.dvc, chan),
         GivesAnswer(dvc, Reaction, ClientPlace, u, offers)
  PROVE  RouterInv'
PROOF
<1>1. /\ Len(answers) \in Nat /\ Len(answers) + 1 \in Asked
      /\ Request.id \in Ids /\ channel[Request.id] = "offered"
      /\ answers' = Append(answers, Response)
      /\ pending' = Purged /\ dvc' = Reaction.dvc /\ wire' = Tail(wire)
      /\ UNCHANGED <<rest, channel, fragment, stray, sent, offers, received>>
      /\ Lines' /\ ServerInv' /\ RequestInv' /\ Strays \subseteq Strays'
  BY AnswerGiven
<1>2. Beforehand /\ chan = NoId /\ chan' \in Ids /\ chan' # NoId
  BY <1>1, RouterAssumption
     DEF RouterInv, ClientInv, Beforehand, RouterAssumption
<1>3. \A k \in DOMAIN pending' : pending'[k].id # chan'
  <2>1. \A k \in DOMAIN Purged : \E i \in DOMAIN pending : Purged[k] = pending[i]
    BY PurgedQueue DEF ReadsChunk
  <2>2. \A k \in DOMAIN Purged : Purged[k].id \in Strays
    BY <1>2, <2>1 DEF Beforehand
  <2> QED BY <1>1, <2>2 DEF Strays
<1>4. DOMAIN dvc'.partial = {} /\ ~ u.begun
  <2>1. DOMAIN Reaction.dvc.partial = {} /\ ~ u.begun
    BY <1>2 DEF Holds
  <2> QED BY <1>1, <2>1
<1>5. u.begun = (chan' \in DOMAIN dvc'.partial)
  <2>1. u.begun \in BOOLEAN
    BY DEF Place
  <2> QED BY <1>4, <2>1
<1>6. ClientPlace' = u
  BY <1>3, <1>5, AnswerPlaced
<1>7. ServerPlace' = ServerPlace
  <2>1. sent[chan'] = <<>> /\ fragment[chan'] = <<>> /\ Len(<<>>) = 0
    BY <1>2 DEF Beforehand
  <2>2. ServerPlace' = At(<<>>, Len(offers), 0, FALSE)
    BY <1>1, <1>2, <2>1 DEF ServerPlace
  <2>3. ServerPlace = At(<<>>, Len(offers), 0, FALSE)
    BY <1>2 DEF ServerPlace
  <2> QED BY <2>2, <2>3
<1>8. \E k \in DOMAIN answers' : answers'[k].id = chan' /\ answers'[k].accept
  <2>1. /\ answers'[Len(answers) + 1] = Response
        /\ DOMAIN answers' = 1 .. Len(answers) + 1
    BY <1>1, SeqAppend DEF RouterInv, Lines
  <2>2. Len(answers) + 1 \in DOMAIN answers'
    BY <1>1, <2>1
  <2>3. Response.id = chan' /\ Response.accept
    BY DEF Response, CreateResponse
  <2> QED BY <2>1, <2>2, <2>3
<1>9. ClientInv'
  <2>1. Holds(u, Reaction.dvc, chan')
    BY <1>1, <1>2, <1>4 DEF Holds
  <2>2. Holds(ClientPlace, dvc, chan)'
    BY <1>1, <1>6, <2>1
  <2>3. Drawing'
    BY <1>2, <1>3, <1>8 DEF Drawing
  <2> QED BY <1>1, <2>2, <2>3 DEF RouterInv, ClientInv
<1>10. WayInv'
  <2>1. IsSeq(Tail(wire)) /\ Len(offers) \in Nat
    BY SeqTail, SeqAppend DEF RouterInv, Lines, ReadsChunk, Reading
  <2>2. Way(u, Tail(wire), rest, ServerPlace, chan', offers, Strays')
    BY <1>1, <1>2, <2>1, WayGrows
  <2> QED BY <1>1, <1>6, <1>7, <2>2 DEF WayInv
<1> QED BY <1>1, <1>9, <1>10 DEF RouterInv

LEMMA ChunkRouterInv ==
  ASSUME RouterInv,
         ChunkWhileFinalizing \/ ChunkWhileOpening \/ ChunkWhileDrawing
  PROVE  RouterInv'
PROOF
<1>1. ReadsChunk
  BY DEF ChunkWhileFinalizing, ChunkWhileOpening, ChunkWhileDrawing
<1>2. PICK u : /\ Place(u) /\ Feed(demux, Head(wire)).buffer = u.half
               /\ Way(u, Tail(wire), rest, ServerPlace, chan, offers, Strays)
               /\ Handled(dvc, Reaction, ClientPlace, u, chan, offers, Strays)
  BY <1>1, ChunkRead
<1>3. \A more : HandleChunk(more) => demux' = u.half
  BY <1>2 DEF HandleChunk
<1>4. /\ Reaction.dvc.wanted = dvc.wanted /\ Holds(u, Reaction.dvc, chan)
      /\ \/ GivesAnswer(dvc, Reaction, ClientPlace, u, offers)
         \/ GivesData(dvc, Reaction, ClientPlace, u, chan, Strays)
  BY <1>2 DEF Handled
<1>5. ASSUME HandleChunk(<<>>), UNCHANGED <<pc, chan>>,
             GivesData(dvc, Reaction, ClientPlace, u, chan, Strays)
      PROVE  RouterInv'
  BY <1>1, <1>2, <1>3, <1>4, <1>5, ChunkDataRouterInv
<1>6. ASSUME HandleChunk(<<>>), UNCHANGED <<pc, chan>>,
             GivesAnswer(dvc, Reaction, ClientPlace, u, offers),
             pc = "graphics" \/ ~ Accepted
      PROVE  RouterInv'
  BY <1>1, <1>2, <1>3, <1>4, <1>6, ChunkAnswerRouterInv
<1>7. dvc.wanted = IF pc \in {"open", "graphics"} THEN {Gfx} ELSE {}
  BY DEF RouterInv, ClientInv
<1>8. CASE ChunkWhileFinalizing
  <2>1. ~ Accepted
    BY <1>7, <1>8 DEF ChunkWhileFinalizing, Finalizing, Accepted
  <2> QED BY <1>4, <1>5, <1>6, <1>8, <2>1 DEF ChunkWhileFinalizing
<1>9. CASE ChunkWhileDrawing
  BY <1>4, <1>5, <1>6, <1>9 DEF ChunkWhileDrawing
<1>10. CASE ChunkWhileOpening
  <2> DEFINE opened == Reaction.opened
  <2>1. pc = "open" /\ dvc.wanted = {Gfx}
    BY <1>7, <1>10 DEF ChunkWhileOpening
  <2>2. IF \E k \in DOMAIN opened : opened[k].name = Gfx
        THEN /\ HandleChunk(<<CapsAdvertise>>) /\ chan' = opened[1].id
             /\ pc' = "graphics"
        ELSE HandleChunk(<<>>) /\ UNCHANGED <<pc, chan>>
    BY <1>10 DEF ChunkWhileOpening
  <2> HIDE DEF opened
  <2>3. CASE GivesData(dvc, Reaction, ClientPlace, u, chan, Strays)
    <3>1. opened = <<>>
      BY <2>3 DEF GivesData, opened
    <3>2. HandleChunk(<<>>) /\ UNCHANGED <<pc, chan>>
      BY <2>2, <3>1
    <3> QED BY <1>5, <2>3, <3>2
  <2>4. CASE GivesAnswer(dvc, Reaction, ClientPlace, u, offers)
    <3>1. ClientPlace.answered = Len(answers)
      BY ClientPlaced DEF RouterInv
    <3>2. \/ ~ Accepted /\ opened = <<>>
          \/ Accepted /\ opened = <<[name |-> Request.name, id |-> Request.id]>>
      BY <2>4, <3>1 DEF GivesAnswer, Accepted, Request, opened
    <3>3. CASE ~ Accepted /\ opened = <<>>
      <4>1. HandleChunk(<<>>) /\ UNCHANGED <<pc, chan>>
        BY <2>2, <3>3
      <4> QED BY <1>6, <2>4, <3>3, <4>1
    <3>4. CASE Accepted /\ opened = <<[name |-> Request.name,
                                       id |-> Request.id]>>
      <4>1. Request.name = Gfx
        BY <2>1, <3>4 DEF Accepted
      <4>2. 1 \in DOMAIN opened /\ opened[1].name = Gfx
            /\ opened[1].id = Request.id
        BY <3>4, <4>1
      <4>3. /\ HandleChunk(<<CapsAdvertise>>) /\ chan' = Request.id
            /\ pc' = "graphics"
        BY <2>2, <4>2
      <4> QED BY <1>1, <1>2, <1>3, <1>4, <2>1, <2>4, <3>4, <4>3,
                 ChunkOpensRouterInv
    <3> QED BY <3>2, <3>3, <3>4
  <2> QED BY <1>4, <2>3, <2>4
<1> QED BY <1>8, <1>9, <1>10

LEMMA ClientRouterInv == RouterInv /\ ClientNext => RouterInv'
BY ChunkRouterInv, HandshakeRouterInv, OpenDvcRouterInv, PassRouterInv,
   TakePendingRouterInv DEF ClientNext

LEMMA StutterRouterInv == RouterInv /\ UNCHANGED vars => RouterInv'
PROOF
<1> SUFFICES ASSUME RouterInv, UNCHANGED vars PROVE RouterInv'
  OBVIOUS
<1>1. UNCHANGED <<wire, up, rest, channel, fragment, stray, sent, offers, pc,
                  demux, dvc, pending, answers, chan, received>>
  BY DEF vars, connection, serverVars, channelVars, clientVars, routerVars
<1>2. Strays' = Strays /\ ServerPlace' = ServerPlace /\ ClientPlace' = ClientPlace
  BY <1>1 DEF Strays, ServerPlace, ClientPlace, Queued
<1>3. Lines' /\ ServerInv' /\ RequestInv'
  BY <1>1 DEF RouterInv, Lines, ServerInv, RequestInv, Asked
<1>4. Beforehand => Beforehand'
  BY <1>1, <1>2 DEF Beforehand
<1>5. Drawing => Drawing'
  BY <1>1 DEF Drawing
<1>6. ClientInv'
  BY <1>1, <1>2, <1>4, <1>5 DEF RouterInv, ClientInv
<1>7. WayInv'
  BY <1>1, <1>2 DEF RouterInv, WayInv
<1> QED BY <1>3, <1>6, <1>7 DEF RouterInv

(* What is under way between server and client is always a path from where  *)
(* the client is to where the server is, the manager holds exactly the      *)
(* message that has begun, and a request that is not yet answered keeps its *)
(* id to itself: the inductive invariant of the router.                     *)
THEOREM RouterInvariant == Spec => []RouterInv
PROOF
<1>1. RouterInv /\ [Next]_vars => RouterInv'
  BY ServerRouterInv, ClientRouterInv, StutterRouterInv DEF Next
<1> QED BY <1>1, InitRouterInv, PTL DEF Spec

-----------------------------------------------------------------------------
(* What follows of it. *)

(* Only the handling of a chunk answers. *)
LEMMA OthersAnswerNot ==
  ASSUME [Next]_vars, ~ (ReadsChunk /\ \E more \in {<<>>, <<CapsAdvertise>>} :
                                         HandleChunk(more))
  PROVE  answers' = answers
PROOF
<1>1. CASE UNCHANGED vars
  BY <1>1 DEF vars, clientVars, routerVars
<1>2. CASE ServerNext
  <2>1. UNCHANGED clientVars
    BY <1>2 DEF ServerNext, NextInOrder, FontMap, IoNoise, UserNoise, SendIo,
                SendRest, SendCapabilities, SendPdu, Offer, SendMessage,
                SendFragment, SendStray, CloseChannel, ReadUp
  <2> QED BY <2>1 DEF clientVars, routerVars
<1>3. CASE ClientNext
  <2>1. \/ License \/ DemandActive \/ Finalization
        \/ OpenDvcChannel \/ SkipIo \/ DropUnknown \/ TakePending
    BY <1>3 DEF ClientNext, ChunkWhileFinalizing, ChunkWhileOpening,
                ChunkWhileDrawing
  <2>2. CASE License \/ DemandActive \/ Finalization
    BY <2>2 DEF License, DemandActive, Finalization, ReturnIo, routerVars
  <2>3. CASE OpenDvcChannel \/ SkipIo \/ DropUnknown \/ TakePending
    BY <2>3 DEF OpenDvcChannel, SkipIo, DropUnknown, TakePending
  <2> QED BY <2>1, <2>2, <2>3
<1> QED BY <1>1, <1>2, <1>3 DEF Next

(* A chunk is answered when it brings a request, and then in its order. *)
LEMMA ChunkAnswers ==
  ASSUME RouterInv, ReadsChunk,
         NEW more \in {<<>>, <<CapsAdvertise>>}, HandleChunk(more)
  PROVE  \/ answers' = answers
         \/ /\ answers' = Append(answers, Response)
            /\ Len(answers) \in Nat /\ Len(answers) + 1 \in Asked
PROOF
<1>1. PICK u : Handled(dvc, Reaction, ClientPlace, u, chan, offers, Strays)
  BY ChunkRead
<1>2. CASE GivesAnswer(dvc, Reaction, ClientPlace, u, offers)
  BY <1>2, AnswerGiven
<1>3. CASE GivesData(dvc, Reaction, ClientPlace, u, chan, Strays)
  <2>1. Reaction.written \in {<<>>, <<CapabilityResponse>>}
    BY <1>3 DEF GivesData
  <2>2. ~ Answers(<<>>)
    BY DEF Answers
  <2>3. ~ Answers(<<CapabilityResponse>>)
    <3>1. Last(<<CapabilityResponse>>) = CapabilityResponse
      BY DEF Last
    <3> QED BY <3>1 DEF Answers, CapabilityResponse
  <2> QED BY <2>1, <2>2, <2>3 DEF HandleChunk
<1> QED BY <1>1, <1>2, <1>3 DEF Handled

(* The k-th response that handle_message writes is the one to the k-th      *)
(* CREATE request, and it accepts exactly the graphics channel once         *)
(* run_session wants it, in whichever of the loops the request is read.     *)
THEOREM AnswersFollowOffers == Spec => OffersAnswered
PROOF
<1> DEFINE Inner ==
      \A k \in Len(answers) + 1 .. Len(answers') :
        /\ k <= Len(offers)
        /\ answers'[k].id = offers[k].id
        /\ answers'[k].accept <=>
             (offers[k].name = Gfx /\ pc \in {"open", "graphics"})
<1>1. ASSUME RouterInv, [Next]_vars PROVE Inner
  <2>1. Len(answers) \in Nat /\ Len(offers) \in Nat
    BY <1>1, SeqAppend DEF RouterInv, Lines
  <2>2. CASE answers' = answers
    BY <2>1, <2>2
  <2>3. ASSUME answers' = Append(answers, Response), Len(answers) + 1 \in Asked
        PROVE  Inner
    <3> DEFINE n == Len(answers) + 1
    <3>1. Len(answers') = n /\ answers'[n] = Response
      BY <1>1, <2>3, SeqAppend DEF RouterInv, Lines
    <3>2. n <= Len(offers) /\ n \in Nat
      BY <2>1, <2>3 DEF Asked
    <3>3. Response.id = offers[n].id /\ Response.accept = Accepted
      BY DEF Response, CreateResponse, Request
    <3>4. dvc.wanted = IF pc \in {"open", "graphics"} THEN {Gfx} ELSE {}
      BY <1>1 DEF RouterInv, ClientInv
    <3>5. Accepted <=> (offers[n].name = Gfx /\ pc \in {"open", "graphics"})
      BY <3>4 DEF Accepted, Request
    <3>6. \A k \in n .. Len(answers') : k = n
      <4> HIDE DEF n
      <4> QED BY <3>1, <3>2
    <3> HIDE DEF n
    <3>7. \A k \in n .. Len(answers') :
            /\ k <= Len(offers) /\ answers'[k].id = offers[k].id
            /\ answers'[k].accept <=>
                 (offers[k].name = Gfx /\ pc \in {"open", "graphics"})
      BY <3>1, <3>2, <3>3, <3>5, <3>6
    <3> QED BY <3>7 DEF n
  <2>4. CASE ReadsChunk /\ \E more \in {<<>>, <<CapsAdvertise>>} :
                             HandleChunk(more)
    BY <1>1, <2>2, <2>3, <2>4, ChunkAnswers
  <2> QED BY <1>1, <2>2, <2>4, OthersAnswerNot
<1>2. RouterInv /\ [Next]_vars => [Inner]_vars
  BY <1>1
<1> QED BY <1>2, RouterInvariant, PTL DEF Spec, OffersAnswered

(* The server only adds to the line. *)
LEMMA ServerWrites ==
  ASSUME ServerNext
  PROVE  /\ UNCHANGED clientVars
         /\ wire' = wire \/ \E m : wire' = Append(wire, m)
PROOF
<1>1. ASSUME NEW body, SendIo(body) PROVE \E m : wire' = Append(wire, m)
  BY <1>1 DEF SendIo
<1>2. ASSUME NEW pdu, SendPdu(pdu) PROVE \E m : wire' = Append(wire, m)
  BY <1>2 DEF SendPdu
<1>3. UNCHANGED clientVars
  BY DEF ServerNext, NextInOrder, FontMap, IoNoise, UserNoise, SendIo,
         SendRest, SendCapabilities, SendPdu, Offer, SendMessage,
         SendFragment, SendStray, CloseChannel, ReadUp
<1>4. CASE NextInOrder \/ FontMap \/ IoNoise
  BY <1>1, <1>3, <1>4 DEF NextInOrder, FontMap, IoNoise
<1>5. CASE UserNoise \/ SendRest \/ ReadUp
  BY <1>5 DEF UserNoise, SendRest, ReadUp
<1>6. CASE SendCapabilities
  BY <1>2, <1>3, <1>6 DEF SendCapabilities
<1>7. ASSUME NEW id \in Ids,
             \/ \E name \in Names : Offer(id, name)
             \/ SendMessage(id) \/ SendFragment(id) \/ SendStray(id)
             \/ CloseChannel(id)
      PROVE  \E m : wire' = Append(wire, m)
  BY <1>2, <1>7 DEF Offer, SendMessage, SendFragment, SendStray, CloseChannel
<1> QED BY <1>3, <1>4, <1>5, <1>6, <1>7 DEF ServerNext

(* What handling a chunk adds to the queue. *)
LEMMA ChunkQueues ==
  ASSUME RouterInv, ReadsChunk, NEW more, HandleChunk(more)
  PROVE  Len(pending') <= Len(Purged) + 1
PROOF
<1>1. PICK u : Handled(dvc, Reaction, ClientPlace, u, chan, offers, Strays)
  BY ChunkRead
<1> DEFINE data == Reaction.data
           queue == Purged
<1>2. data = <<>> \/ \E d : data = <<d>>
  BY <1>1 DEF Handled, GivesAnswer, GivesData
<1>3. IsSeq(queue) /\ WithoutOwn(queue, chan)
  BY PurgedQueue DEF WithoutOwn, ReadsChunk
<1>4. pending' = queue \o data
  BY DEF HandleChunk
<1> HIDE DEF data, queue
<1>5. Len(queue \o data) <= Len(queue) + 1
  BY <1>2, <1>3, QueueGrows
<1> QED BY <1>4, <1>5 DEF queue

(* Whatever comes for channels nobody opened, one message more than the     *)
(* purge of recv_dvc_data leaves alone is the most that is queued when it   *)
(* has read.                                                                *)
THEOREM QueueStaysShort == Spec => PendingBounded
PROOF
<1> DEFINE Inner == pc = "graphics" /\ Len(wire') < Len(wire)
                      => Len(pending') <= PendingLimit + 1
<1>1. ASSUME RouterInv, [Next]_vars, pc = "graphics", Len(wire') < Len(wire)
      PROVE  Len(pending') <= PendingLimit + 1
  <2>1. IsSeq(wire) /\ Len(wire) \in Nat /\ PendingLimit \in Nat
    BY <1>1, SeqAppend, RouterAssumption DEF RouterInv, Lines, RouterAssumption
  <2>2. wire' # wire
    BY <1>1, <2>1
  <2>3. \A m : wire' # Append(wire, m)
    <3>1. ASSUME NEW m, wire' = Append(wire, m) PROVE FALSE
      <4>1. Len(Append(wire, m)) = Len(wire) + 1
        BY <2>1, SeqAppend
      <4>2. Len(wire) + 1 < Len(wire)
        BY <1>1, <3>1, <4>1
      <4> QED BY <2>1, <4>2
    <3> QED BY <3>1
  <2>4. ~ UNCHANGED vars /\ ~ ServerNext
    BY <2>2, <2>3, ServerWrites DEF vars, connection
  <2>5. ChunkWhileDrawing \/ SkipIo \/ DropUnknown
    <3>1. ClientNext
      BY <1>1, <2>4 DEF Next
    <3>2. ~ TakePending
      BY <2>2 DEF TakePending, connection
    <3> QED BY <1>1, <3>1, <3>2 DEF ClientNext, ChunkWhileFinalizing, Finalizing,
               ChunkWhileOpening, License, DemandActive, Finalization,
               OpenDvcChannel
  <2>6. Reading
    BY <2>5 DEF ChunkWhileDrawing, SkipIo, DropUnknown, ReadsChunk, ReadsIo
  <2>7. Len(Purged) <= PendingLimit /\ Len(Purged) \in Nat
    <3>1. IsSeq(Purged) /\ Len(Purged) <= PendingLimit
      BY <1>1, <2>6, PurgedQueue
    <3> QED BY <3>1, SeqAppend
  <2>8. CASE ChunkWhileDrawing
    <3>1. Len(pending') <= Len(Purged) + 1
      BY <1>1, <2>8, ChunkQueues DEF ChunkWhileDrawing
    <3>2. Len(pending') \in Nat
      <4>1. RouterInv'
        BY <1>1, <2>8, ChunkRouterInv
      <4>2. IsSeq(pending')
        BY <4>1 DEF RouterInv, Lines
      <4> QED BY <4>2, SeqAppend
    <3> QED BY <2>1, <2>7, <3>1, <3>2
  <2>9. CASE SkipIo \/ DropUnknown
    <3>1. pending' = Purged
      BY <2>9 DEF SkipIo, DropUnknown
    <3> QED BY <2>1, <2>7, <3>1
  <2> QED BY <2>5, <2>8, <2>9
<1>2. RouterInv /\ [Next]_vars => [Inner]_vars
  BY <1>1
<1> QED BY <1>2, RouterInvariant, PTL DEF Spec, PendingBounded

-----------------------------------------------------------------------------
(* The account of the I/O messages. *)

IoAt(line) == {k \in DOMAIN line : line[k].channel = "io"}

LEMMA IoAppend ==
  ASSUME NEW line, IsSeq(line), NEW m
  PROVE  /\ IsFiniteSet(IoAt(line)) /\ Cardinality(IoAt(line)) \in Nat
         /\ Cardinality(IoAt(Append(line, m)))
              = IF m.channel = "io" THEN Cardinality(IoAt(line)) + 1
                ELSE Cardinality(IoAt(line))
PROOF
<1> DEFINE longer == Append(line, m)
           n == Len(line)
<1>1. /\ n \in Nat /\ DOMAIN line = 1 .. n /\ DOMAIN longer = 1 .. n + 1
      /\ \A k \in 1 .. n : longer[k] = line[k]
      /\ longer[n + 1] = m
  BY SeqAppend
<1> HIDE DEF longer, n
<1>2. IsFiniteSet(IoAt(line)) /\ Cardinality(IoAt(line)) \in Nat
  <2>1. IoAt(line) \subseteq 1 .. n
    BY <1>1 DEF IoAt
  <2>2. IsFiniteSet(1 .. n)
    BY <1>1, FS_Interval
  <2> QED BY <2>1, <2>2, FS_Subset, FS_CardinalityType
<1>3. /\ n + 1 \notin 1 .. n /\ n + 1 \in 1 .. n + 1
      /\ \A k \in 1 .. n + 1 : k \in 1 .. n \/ k = n + 1
      /\ \A k \in 1 .. n : k \in 1 .. n + 1
  BY <1>1
<1>4. n + 1 \notin IoAt(line)
  BY <1>1, <1>3 DEF IoAt
<1>5. CASE m.channel = "io"
  <2>1. IoAt(longer) = IoAt(line) \cup {n + 1}
    BY <1>1, <1>3, <1>5 DEF IoAt
  <2> QED BY <1>2, <1>4, <1>5, <2>1, FS_AddElement DEF longer
<1>6. CASE m.channel # "io"
  <2>1. IoAt(longer) = IoAt(line)
    BY <1>1, <1>3, <1>6 DEF IoAt
  <2> QED BY <1>2, <1>6, <2>1 DEF longer
<1> QED BY <1>2, <1>5, <1>6

LEMMA IoTail ==
  ASSUME NEW line, IsSeq(line), line # <<>>
  PROVE  /\ Cardinality(IoAt(Tail(line))) \in Nat
         /\ Cardinality(IoAt(line))
              = IF Head(line).channel = "io"
                THEN Cardinality(IoAt(Tail(line))) + 1
                ELSE Cardinality(IoAt(Tail(line)))
PROOF
<1> DEFINE shorter == Tail(line)
           n == Len(line)
           first == Head(line)
<1>1. /\ n \in Nat /\ n >= 1 /\ first = line[1] /\ IsSeq(shorter)
      /\ DOMAIN line = 1 .. n /\ DOMAIN shorter = 1 .. n - 1
      /\ \A k \in 1 .. n - 1 : shorter[k] = line[k + 1]
  BY SeqTail
<1> HIDE DEF shorter, n, first
<1> DEFINE S == IoAt(shorter)
           T == IoAt(line) \ {1}
           next == [k \in S |-> k + 1]
<1>2. IsFiniteSet(S) /\ Cardinality(S) \in Nat
  BY <1>1, IoAppend
<1>3. S \subseteq 1 .. n - 1
  BY <1>1 DEF IoAt
<1>4. \A k \in S : k + 1 \in T
  <2> SUFFICES ASSUME NEW k \in S PROVE k + 1 \in T
    OBVIOUS
  <2>1. k \in 1 .. n - 1 /\ shorter[k].channel = "io"
    BY <1>1 DEF IoAt
  <2> DEFINE j == k + 1
  <2>2. j \in 1 .. n /\ j # 1
    BY <1>1, <2>1
  <2>3. line[j] = shorter[k]
    BY <1>1, <2>1
  <2> HIDE DEF j
  <2>4. j \in IoAt(line)
    BY <1>1, <2>1, <2>2, <2>3 DEF IoAt
  <2> QED BY <2>2, <2>4 DEF j
<1>5. \A j \in T : j - 1 \in S /\ (j - 1) + 1 = j
  <2> SUFFICES ASSUME NEW j \in T PROVE j - 1 \in S /\ (j - 1) + 1 = j
    OBVIOUS
  <2>1. j \in 1 .. n /\ j # 1 /\ line[j].channel = "io"
    BY <1>1 DEF IoAt
  <2> DEFINE k == j - 1
  <2>2. k \in 1 .. n - 1 /\ k + 1 = j
    BY <1>1, <2>1
  <2> HIDE DEF k
  <2>3. shorter[k] = line[j]
    BY <1>1, <2>2
  <2>4. k \in S
    BY <1>1, <2>1, <2>2, <2>3 DEF IoAt
  <2> QED BY <2>2, <2>4 DEF k
<1>6. next \in Bijection(S, T)
  <2> HIDE DEF T, S
  <2>1. next \in [S -> T] /\ \A k \in S : next[k] = k + 1
    BY <1>4
  <2>2. \A a, b \in S : next[a] = next[b] => a = b
    BY <1>3, <2>1
  <2>3. \A j \in T : \E k \in S : next[k] = j
    <3> SUFFICES ASSUME NEW j \in T PROVE \E k \in S : next[k] = j
      OBVIOUS
    <3> DEFINE k == j - 1
    <3>1. k \in S /\ k + 1 = j
      BY <1>5
    <3> HIDE DEF k, next
    <3> QED BY <2>1, <3>1
  <2> HIDE DEF next
  <2>4. DOMAIN next = S
    BY <2>1
  <2> QED BY <2>1, <2>2, <2>3, <2>4
         DEF Bijection, Injection, Surjection, IsInjective
<1>7. IsFiniteSet(T) /\ Cardinality(T) = Cardinality(S)
  <2>1. ExistsBijection(S, T)
    BY <1>6 DEF ExistsBijection
  <2> HIDE DEF S, T
  <2> QED BY <1>2, <2>1, FS_Bijection
<1>8. 1 \in IoAt(line) <=> first.channel = "io"
  BY <1>1 DEF IoAt
<1>9. CASE first.channel = "io"
  <2>1. IoAt(line) = T \cup {1} /\ 1 \notin T
    BY <1>8, <1>9
  <2> HIDE DEF T, S
  <2>2. Cardinality(IoAt(line)) = Cardinality(S) + 1
    BY <1>7, <2>1, FS_AddElement
  <2> QED BY <1>2, <1>9, <2>2 DEF S, shorter, first
<1>10. CASE first.channel # "io"
  <2>1. IoAt(line) = T
    BY <1>8, <1>10
  <2> HIDE DEF T
  <2> QED BY <1>2, <1>7, <1>10, <2>1 DEF shorter, first
<1> QED BY <1>9, <1>10

(* Every I/O message is on the line, returned to the handshake or skipped.  *)
IoInv ==
  /\ ioSent \in Nat /\ heeded \in Nat /\ skipped \in Nat
  /\ IoAccountedFor

(* The second chunk of a message is not of the I/O channel. *)
LEMMA RestIsChunk ==
  ASSUME RouterInv, rest # <<>>
  PROVE  Head(rest).channel = "drdynvc"
PROOF
<1>1. PICK b : Leads(b, rest, ServerPlace, chan, offers, Strays)
  BY DEF RouterInv, WayInv, Way
<1>2. PICK m : rest = <<m>> /\ m.channel = "drdynvc"
  BY <1>1 DEF Leads
<1>3. Head(rest) = m
  BY <1>2
<1> QED BY <1>2, <1>3

LEMMA ServerSendsIo ==
  ASSUME RouterInv, ServerNext
  PROVE  /\ UNCHANGED <<heeded, skipped>>
         /\ \/ wire' = wire /\ ioSent' = ioSent
            \/ \E m : /\ wire' = Append(wire, m)
                      /\ ioSent' = IF m.channel = "io" THEN ioSent + 1 ELSE ioSent
PROOF
<1> DEFINE Sent(m) ==
      /\ wire' = Append(wire, m)
      /\ ioSent' = IF m.channel = "io" THEN ioSent + 1 ELSE ioSent
<1>1. UNCHANGED <<heeded, skipped>>
  BY ServerWrites DEF clientVars
<1>2. ASSUME NEW body, SendIo(body) PROVE Sent(Io(body))
  BY <1>2 DEF SendIo, Io
<1>3. ASSUME NEW pdu, SendPdu(pdu) PROVE \E m : Sent(m)
  <2>1. PICK first, last, pieces : wire' = Append(wire, Chunk(first, last, pieces))
    BY <1>3 DEF SendPdu
  <2>2. Sent(Chunk(first, last, pieces))
    BY <1>3, <2>1 DEF SendPdu, ioVars, Chunk
  <2> HIDE DEF Sent
  <2> QED BY <2>2
<1>4. CASE NextInOrder \/ FontMap \/ IoNoise
  <2>1. PICK body : SendIo(body)
    BY <1>4 DEF NextInOrder, FontMap, IoNoise
  <2>2. Sent(Io(body))
    BY <1>2, <2>1
  <2> HIDE DEF Sent
  <2>3. \E m : Sent(m)
    BY <2>2
  <2> QED BY <1>1, <2>3 DEF Sent
<1>5. CASE UserNoise
  <2>1. Sent(UserChannel)
    BY <1>5 DEF UserNoise, UserChannel
  <2> HIDE DEF Sent
  <2>2. \E m : Sent(m)
    BY <2>1
  <2> QED BY <1>1, <2>2 DEF Sent
<1>6. CASE SendRest
  <2>1. Sent(Head(rest))
    BY <1>6, RestIsChunk DEF SendRest, ioVars
  <2> HIDE DEF Sent
  <2>2. \E m : Sent(m)
    BY <2>1
  <2> QED BY <1>1, <2>2 DEF Sent
<1>7. CASE ReadUp
  BY <1>1, <1>7 DEF ReadUp
<1>8. ASSUME NEW pdu, SendPdu(pdu)
      PROVE  \E m : /\ wire' = Append(wire, m)
                    /\ ioSent' = IF m.channel = "io" THEN ioSent + 1 ELSE ioSent
  BY <1>3, <1>8
<1>9. CASE SendCapabilities
  BY <1>1, <1>8, <1>9 DEF SendCapabilities
<1>10. ASSUME NEW id \in Ids,
              \/ \E name \in Names : Offer(id, name)
              \/ SendMessage(id) \/ SendFragment(id) \/ SendStray(id)
              \/ CloseChannel(id)
       PROVE  \E pdu : SendPdu(pdu)
  BY <1>10 DEF Offer, SendMessage, SendFragment, SendStray, CloseChannel
<1> QED BY <1>1, <1>4, <1>5, <1>6, <1>7, <1>8, <1>9, <1>10 DEF ServerNext

LEMMA ClientReadsIo ==
  ASSUME ClientNext
  PROVE  /\ ioSent' = ioSent
         /\ \/ UNCHANGED <<wire, heeded, skipped>>
            \/ /\ wire # <<>> /\ wire' = Tail(wire)
               /\ IF Head(wire).channel = "io"
                  THEN \/ heeded' = heeded + 1 /\ skipped' = skipped
                       \/ heeded' = heeded /\ skipped' = skipped + 1
                  ELSE heeded' = heeded /\ skipped' = skipped
PROOF
<1>1. ASSUME NEW more, ReadsChunk, HandleChunk(more)
      PROVE  /\ ioSent' = ioSent
             /\ wire # <<>> /\ wire' = Tail(wire) /\ Head(wire).channel # "io"
             /\ heeded' = heeded /\ skipped' = skipped
  BY <1>1 DEF HandleChunk, ReadsChunk, Reading, serverVars, ioVars
<1>2. CASE ChunkWhileFinalizing \/ ChunkWhileOpening \/ ChunkWhileDrawing
  <2>1. ReadsChunk /\ \E more : HandleChunk(more)
    BY <1>2 DEF ChunkWhileFinalizing, ChunkWhileOpening, ChunkWhileDrawing
  <2> QED BY <1>1, <2>1
<1>3. CASE License \/ DemandActive \/ Finalization
  <2>1. ReadsIo /\ \E next, reply : ReturnIo(next, reply)
    BY <1>3 DEF License, DemandActive, Finalization
  <2> QED BY <2>1 DEF ReadsIo, Reading, ReturnIo, serverVars, ioVars
<1>4. CASE OpenDvcChannel \/ TakePending
  BY <1>4 DEF OpenDvcChannel, TakePending, connection, serverVars, ioVars
<1>5. CASE SkipIo
  BY <1>5 DEF SkipIo, ReadsIo, Reading, serverVars, ioVars
<1>6. CASE DropUnknown
  BY <1>6 DEF DropUnknown, Reading, serverVars, ioVars
<1> QED BY <1>2, <1>3, <1>4, <1>5, <1>6 DEF ClientNext

LEMMA Counted ==
  ASSUME NEW a \in Nat, NEW b \in Nat, NEW c \in Nat, NEW d \in Nat
  PROVE  /\ a = b + c + d => a + 1 = b + c + (d + 1)
         /\ a = b + c + (d + 1) => a = (b + 1) + c + d /\ a = b + (c + 1) + d
         /\ a + 1 \in Nat /\ b + 1 \in Nat /\ c + 1 \in Nat
OBVIOUS

(* No message on the I/O channel is lost: each is on its way, returned by   *)
(* recv_io, or counted by note_skipped_io.                                  *)
THEOREM IoNeverLost == Spec => []IoAccountedFor
PROOF
<1>1. Init => IoInv
  <2> SUFFICES ASSUME Init PROVE IoInv
    OBVIOUS
  <2>1. {k \in DOMAIN wire : wire[k].channel = "io"} = {}
    BY DEF Init
  <2>2. ioSent = 0 /\ heeded = 0 /\ skipped = 0
    BY DEF Init
  <2>3. Cardinality({}) = 0
    BY FS_EmptySet
  <2> QED BY <2>1, <2>2, <2>3 DEF IoInv, IoAccountedFor
<1>2. ASSUME IoInv, RouterInv, [Next]_vars PROVE IoInv'
  <2> DEFINE c == Cardinality(IoAt(wire))
  <2>1. /\ ioSent \in Nat /\ heeded \in Nat /\ skipped \in Nat
        /\ ioSent = heeded + skipped + c
    BY <1>2 DEF IoInv, IoAccountedFor, IoAt
  <2>2. IsSeq(wire) /\ c \in Nat
    BY <1>2, IoAppend DEF RouterInv, Lines
  <2>3. CASE UNCHANGED <<wire, ioSent, heeded, skipped>>
    BY <1>2, <2>3 DEF IoInv, IoAccountedFor
  <2>4. CASE ServerNext
    <3>1. /\ UNCHANGED <<heeded, skipped>>
          /\ \/ wire' = wire /\ ioSent' = ioSent
             \/ \E m : /\ wire' = Append(wire, m)
                       /\ ioSent' = IF m.channel = "io" THEN ioSent + 1
                                    ELSE ioSent
      BY <1>2, <2>4, ServerSendsIo
    <3>2. ASSUME NEW m, wire' = Append(wire, m),
                 ioSent' = IF m.channel = "io" THEN ioSent + 1 ELSE ioSent
          PROVE  IoInv'
      <4>1. Cardinality(IoAt(wire')) = IF m.channel = "io" THEN c + 1 ELSE c
        BY <2>2, <3>2, IoAppend
      <4> HIDE DEF c
      <4>2. ioSent + 1 = heeded + skipped + (c + 1) /\ ioSent + 1 \in Nat
        BY <2>1, <2>2, Counted
      <4>3. CASE m.channel = "io"
        <5>1. ioSent' = ioSent + 1 /\ Cardinality(IoAt(wire')) = c + 1
          BY <3>2, <4>1, <4>3
        <5>2. ioSent' = heeded' + skipped' + Cardinality(IoAt(wire'))
          BY <3>1, <4>2, <5>1
        <5> QED BY <2>1, <3>1, <4>2, <5>1, <5>2 DEF IoInv, IoAccountedFor, IoAt
      <4>4. CASE m.channel # "io"
        <5>1. ioSent' = ioSent /\ Cardinality(IoAt(wire')) = c
          BY <3>2, <4>1, <4>4
        <5>2. ioSent' = heeded' + skipped' + Cardinality(IoAt(wire'))
          BY <2>1, <3>1, <5>1
        <5> QED BY <2>1, <3>1, <5>1, <5>2 DEF IoInv, IoAccountedFor, IoAt
      <4> QED BY <4>3, <4>4
    <3> QED BY <2>3, <3>1, <3>2
  <2>5. CASE ClientNext
    <3>1. /\ ioSent' = ioSent
          /\ \/ UNCHANGED <<wire, heeded, skipped>>
             \/ /\ wire # <<>> /\ wire' = Tail(wire)
                /\ IF Head(wire).channel = "io"
                   THEN \/ heeded' = heeded + 1 /\ skipped' = skipped
                        \/ heeded' = heeded /\ skipped' = skipped + 1
                   ELSE heeded' = heeded /\ skipped' = skipped
      BY <2>5, ClientReadsIo
    <3>2. ASSUME wire # <<>>, wire' = Tail(wire),
                 IF Head(wire).channel = "io"
                 THEN \/ heeded' = heeded + 1 /\ skipped' = skipped
                      \/ heeded' = heeded /\ skipped' = skipped + 1
                 ELSE heeded' = heeded /\ skipped' = skipped
          PROVE  IoInv'
      <4> DEFINE d == Cardinality(IoAt(Tail(wire)))
      <4>1. d \in Nat /\ c = IF Head(wire).channel = "io" THEN d + 1 ELSE d
        BY <2>2, <3>2, IoTail
      <4>2. Cardinality(IoAt(wire')) = d
        BY <3>2
      <4> HIDE DEF c, d
      <4>3. heeded + 1 \in Nat /\ skipped + 1 \in Nat
        BY <2>1
      <4>4. CASE Head(wire).channel = "io"
        <5>1. ioSent = heeded + skipped + (d + 1)
          BY <2>1, <4>1, <4>4
        <5>2. /\ ioSent = (heeded + 1) + skipped + d
              /\ ioSent = heeded + (skipped + 1) + d
          BY <2>1, <4>1, <5>1, Counted
        <5>3. ioSent' = heeded' + skipped' + Cardinality(IoAt(wire'))
              /\ heeded' \in Nat /\ skipped' \in Nat /\ ioSent' \in Nat
          BY <2>1, <3>1, <3>2, <4>2, <4>3, <4>4, <5>2
        <5> QED BY <5>3 DEF IoInv, IoAccountedFor, IoAt
      <4>5. CASE Head(wire).channel # "io"
        <5>1. ioSent' = heeded' + skipped' + Cardinality(IoAt(wire'))
              /\ heeded' \in Nat /\ skipped' \in Nat /\ ioSent' \in Nat
          BY <2>1, <3>1, <3>2, <4>1, <4>2, <4>5
        <5> QED BY <5>1 DEF IoInv, IoAccountedFor, IoAt
      <4> QED BY <4>4, <4>5
    <3> QED BY <2>3, <3>1, <3>2
  <2>6. CASE UNCHANGED vars
    BY <2>3, <2>6 DEF vars, connection, serverVars, ioVars, clientVars
  <2> QED BY <1>2, <2>4, <2>5, <2>6 DEF Next
<1>3. IoInv => IoAccountedFor
  BY DEF IoInv
<1> QED BY <1>1, <1>2, <1>3, RouterInvariant, PTL DEF Spec

-----------------------------------------------------------------------------
(* The pipe. *)

(* What is sent on the graphics channel, once the client knows which it is. *)
PutIn == IF chan = NoId THEN <<>> ELSE sent[chan]

LEMMA ClientBehind ==
  ASSUME RouterInv
  PROVE  ClientPlace.whole <= ServerPlace.whole
         /\ ClientPlace.whole \in Nat /\ ServerPlace.whole \in Nat
PROOF
<1> DEFINE s == ClientPlace
           t == ServerPlace
<1>1. Place(s) /\ Place(t)
  BY ClientPlaced, ServerPlaced, ChanTyped DEF RouterInv
<1>2. PICK b : Path(s, wire, b, chan, offers, Strays)
               /\ Leads(b, rest, t, chan, offers, Strays)
  BY DEF RouterInv, WayInv, Way
<1>3. Place(b) /\ s.whole <= b.whole
  BY <1>2, PathEnds, SeqAppend DEF RouterInv, Lines
<1> HIDE DEF s, t
<1>4. b.whole <= t.whole
  <2>1. CASE b = t
    BY <1>1, <2>1 DEF Place
  <2>2. ASSUME NEW m, Step(b, m, t, chan, offers, Strays) PROVE b.whole <= t.whole
    BY <1>1, <1>3, <2>2, StepOnwards
  <2> QED BY <1>2, <2>1, <2>2 DEF Leads
<1>5. s.whole \in Nat /\ b.whole \in Nat /\ t.whole \in Nat
  BY <1>1, <1>3 DEF Place
<1>6. s.whole <= t.whole
  BY <1>3, <1>4, <1>5
<1> QED BY <1>5, <1>6 DEF s, t

(* The message taken out is the next that was put in. *)
LEMMA TakeIsTake ==
  ASSUME RouterInv, TakePending
  PROVE  /\ Len(received) < Len(PutIn)
         /\ received' = Append(received, PutIn[Len(received) + 1])
         /\ PutIn' = PutIn
PROOF
<1>1. PICK k \in DOMAIN pending :
        pending[k].id = chan /\ received' = Append(received, pending[k].cells)
  BY DEF TakePending
<1>2. pc = "graphics" /\ UNCHANGED <<chan, sent>>
  BY DEF TakePending, serverVars, channelVars
<1>3. /\ chan \in Ids /\ chan # NoId
      /\ pending[k].cells = Cells(chan, Len(received) + 1)
  BY <1>1, <1>2, RouterAssumption
     DEF RouterInv, ClientInv, Drawing, RouterAssumption
<1> DEFINE n == Len(received)
           all == sent[chan]
<1>4. n \in Nat /\ ClientPlace.whole = n + 1
  <2>1. Queued = 1
    BY <1>1 DEF Queued
  <2> QED BY <2>1, ClientPlaced DEF RouterInv
<1>5. ServerPlace.whole = Len(all)
  BY <1>3, ServerPlaced, ChanTyped DEF RouterInv
<1>6. IsSeq(all) /\ \A i \in DOMAIN all : all[i] = Cells(chan, i)
  BY <1>3 DEF RouterInv, ServerInv
<1>7. Len(all) \in Nat /\ DOMAIN all = 1 .. Len(all)
  BY <1>6, SeqAppend
<1> HIDE DEF n, all
<1>8. n + 1 <= Len(all)
  BY <1>4, <1>5, ClientBehind
<1>9. n < Len(all) /\ n + 1 \in DOMAIN all
  BY <1>4, <1>7, <1>8
<1>10. all[n + 1] = pending[k].cells
  BY <1>3, <1>6, <1>9 DEF n
<1>11. PutIn = all /\ PutIn' = PutIn
  BY <1>2, <1>3 DEF PutIn, all
<1> QED BY <1>1, <1>9, <1>10, <1>11 DEF n

(* What is put in is a message of the graphics channel. *)
LEMMA SendIsPut ==
  ASSUME RouterInv, NEW id \in Ids, SendMessage(id) \/ SendFragment(id)
  PROVE  /\ UNCHANGED <<received, chan>>
         /\ \/ PutIn' = PutIn
            \/ \E n \in 1 .. MaxMessages : PutIn' = Append(PutIn, Cells(id, n))
PROOF
<1> DEFINE n == Len(sent[id]) + 1
<1>1. UNCHANGED <<received, chan>>
  BY DEF SendMessage, SendFragment, SendPdu, clientVars
<1>2. /\ sent = [i \in Ids |-> sent[i]] /\ IsSeq(sent[id])
      /\ fragment[id] # <<>> =>
           fragment[id] = <<<<id, n, 2>>>> /\ Len(sent[id]) < MaxMessages
  BY DEF RouterInv, ServerInv
<1>3. Len(sent[id]) \in Nat /\ MaxMessages \in Nat
  BY <1>2, SeqAppend, RouterAssumption DEF RouterAssumption
<1>4. \/ sent' = sent
      \/ /\ n \in 1 .. MaxMessages
         /\ sent' = [sent EXCEPT ![id] = Append(@, Cells(id, n))]
  <2>1. CASE SendMessage(id)
    BY <1>3, <2>1 DEF SendMessage, Cells
  <2>2. CASE SendFragment(id)
    <3>1. fragment[id] # <<>>
          /\ sent' = [sent EXCEPT ![id] = Append(@, <<<<id, n, 1>>>> \o fragment[id])]
      BY <2>2 DEF SendFragment
    <3>2. <<<<id, n, 1>>>> \o fragment[id] = Cells(id, n)
      BY <1>2, <3>1, PairJoined DEF Cells
    <3>3. n \in 1 .. MaxMessages
      BY <1>2, <1>3, <3>1
    <3> QED BY <3>1, <3>2, <3>3
  <2> QED BY <2>1, <2>2
<1> HIDE DEF n
<1>5. CASE sent' = sent
  BY <1>1, <1>5 DEF PutIn
<1>6. CASE /\ n \in 1 .. MaxMessages
           /\ sent' = [sent EXCEPT ![id] = Append(@, Cells(id, n))]
  <2>1. chan \in Ids \cup {NoId}
    BY ChanTyped DEF RouterInv
  <2>2. CASE chan = id
    <3>1. chan # NoId
      BY <2>2, RouterAssumption DEF RouterAssumption
    <3>2. sent'[id] = Append(sent[id], Cells(id, n))
      BY <1>2, <1>6
    <3>3. PutIn' = Append(PutIn, Cells(id, n))
      BY <1>1, <2>2, <3>1, <3>2 DEF PutIn
    <3> QED BY <1>1, <1>6, <3>3
  <2>3. CASE chan # id
    <3>1. chan \in Ids => sent'[chan] = sent[chan]
      BY <1>2, <1>6, <2>3
    <3> QED BY <1>1, <2>1, <3>1 DEF PutIn
  <2> QED BY <2>2, <2>3
<1> QED BY <1>4, <1>5, <1>6

(* Nothing has been sent on a channel that becomes the graphics channel. *)
LEMMA OthersLeavePipe ==
  ASSUME RouterInv, [Next]_vars, ~ TakePending,
         \A id \in Ids : ~ SendMessage(id) /\ ~ SendFragment(id)
  PROVE  PutIn' = PutIn /\ received' = received
PROOF
<1>1. sent' = sent /\ received' = received
  <2>1. CASE UNCHANGED vars
    BY <2>1 DEF vars, serverVars, channelVars, clientVars
  <2>2. CASE ServerNext
    <3>1. received' = received
      BY <2>2, ServerWrites DEF clientVars
    <3>2. sent' = sent
      BY <2>2 DEF ServerNext, NextInOrder, FontMap, IoNoise, UserNoise, SendIo,
         SendRest, SendCapabilities, Offer, SendStray, CloseChannel, ReadUp,
         channelVars
    <3> QED BY <3>1, <3>2
  <2>3. CASE ClientNext
    <3>1. \A more : HandleChunk(more) => UNCHANGED <<serverVars, received>>
      BY DEF HandleChunk
    <3>2. \A next, reply : ReturnIo(next, reply) => UNCHANGED <<serverVars, received>>
      BY DEF ReturnIo
    <3>3. CASE ChunkWhileFinalizing \/ ChunkWhileOpening \/ ChunkWhileDrawing
      BY <3>1, <3>3 DEF ChunkWhileFinalizing, ChunkWhileOpening,
                        ChunkWhileDrawing, serverVars, channelVars
    <3>4. CASE License \/ DemandActive \/ Finalization
      BY <3>2, <3>4 DEF License, DemandActive, Finalization, serverVars,
                        channelVars
    <3>5. CASE OpenDvcChannel \/ SkipIo \/ DropUnknown
      BY <3>5 DEF OpenDvcChannel, SkipIo, DropUnknown, serverVars, channelVars
    <3> QED BY <2>3, <3>3, <3>4, <3>5 DEF ClientNext
  <2> QED BY <2>1, <2>2, <2>3 DEF Next
<1>2. CASE pc = "graphics"
  <2>1. chan' = chan
    <3>1. CASE UNCHANGED vars
      BY <3>1 DEF vars, clientVars
    <3>2. CASE ServerNext
      BY <3>2, ServerWrites DEF clientVars
    <3>3. CASE ClientNext
      BY <1>2, <3>3 DEF ClientNext, ChunkWhileFinalizing, ChunkWhileOpening,
         ChunkWhileDrawing, License, DemandActive, Finalization, OpenDvcChannel,
         SkipIo, DropUnknown, Finalizing
    <3> QED BY <3>1, <3>2, <3>3 DEF Next
  <2> QED BY <1>1, <2>1 DEF PutIn
<1>3. CASE pc # "graphics"
  <2>1. Beforehand
    BY <1>3 DEF RouterInv, ClientInv
  <2>2. RouterInv'
    BY ServerRouterInv, ClientRouterInv, StutterRouterInv DEF Next
  <2>3. chan' \in Ids \cup {NoId}
    BY <2>2 DEF RouterInv, ClientInv, Drawing, Beforehand
  <2> QED BY <1>1, <2>1, <2>3 DEF PutIn, Beforehand
<1> QED BY <1>1, <1>2, <1>3

(* The graphics loop gets the messages of its channel in the order they     *)
(* were sent, each whole and once: recv_dvc_data on top of                  *)
(* handle_drdynvc_chunk, handle_message and feed takes the steps of a pipe. *)
THEOREM RouterIsPipe == Spec => Pipe!Init /\ [][Pipe!Next]_(Pipe!pipeVars)
PROOF
<1>1. Init => Pipe!Init
  BY DEF Init, Pipe!Init
<1>2. ASSUME RouterInv, [Next]_vars PROVE [Pipe!Next]_(Pipe!pipeVars)
  <2>1. ASSUME PutIn' = PutIn, received' = received
        PROVE  UNCHANGED Pipe!pipeVars
    BY <2>1 DEF Pipe!pipeVars, PutIn
  <2>2. CASE TakePending
    <3>1. Pipe!Take
      BY <1>2, <2>2, TakeIsTake DEF Pipe!Take, PutIn
    <3> QED BY <3>1 DEF Pipe!Next
  <2>3. ASSUME NEW id \in Ids, SendMessage(id) \/ SendFragment(id)
        PROVE  [Pipe!Next]_(Pipe!pipeVars)
    <3>1. UNCHANGED <<received, chan>>
          /\ \/ PutIn' = PutIn
             \/ \E n \in 1 .. MaxMessages : PutIn' = Append(PutIn, Cells(id, n))
      BY <1>2, <2>3, SendIsPut
    <3>2. CASE PutIn' = PutIn
      BY <2>1, <3>1, <3>2
    <3>3. ASSUME NEW n \in 1 .. MaxMessages, PutIn' = Append(PutIn, Cells(id, n))
          PROVE  Pipe!Put
      <4> DEFINE Fits(m) == PutIn' = Append(PutIn, m)
      <4>1. Cells(id, n) \in {<<<<i, k, 1>>, <<i, k, 2>>>> :
                               i \in Ids, k \in 1 .. MaxMessages}
        BY DEF Cells
      <4>2. Fits(Cells(id, n))
        BY <3>3
      <4> HIDE DEF Fits
      <4>3. \E m \in {<<<<i, k, 1>>, <<i, k, 2>>>> :
                       i \in Ids, k \in 1 .. MaxMessages} : Fits(m)
        BY <4>1, <4>2
      <4> QED BY <3>1, <4>3 DEF Pipe!Put, PutIn, Fits
    <3> QED BY <3>1, <3>2, <3>3 DEF Pipe!Next
  <2>4. CASE ~ TakePending /\ \A id \in Ids : ~ SendMessage(id) /\ ~ SendFragment(id)
    BY <1>2, <2>1, <2>4, OthersLeavePipe
  <2> QED BY <2>2, <2>3, <2>4
<1>3. RouterInv /\ [Next]_vars => [Pipe!Next]_(Pipe!pipeVars)
  BY <1>2
<1> QED BY <1>1, <1>3, RouterInvariant, PTL DEF Spec

=============================================================================
