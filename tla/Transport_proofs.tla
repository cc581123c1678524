-------------------------- MODULE Transport_proofs --------------------------
(***************************************************************************)
(* Both readers hand over exactly what was sent, for every set of          *)
(* well-framed messages, every padding, and whatever pieces the bytes come *)
(* in; and input goes out in order.                                        *)
(***************************************************************************)
EXTENDS Transport, FiniteSetTheorems, SequenceTheorems, TLAPS

-----------------------------------------------------------------------------
(* Adding a number to a set of numbers below it.                            *)

LEMMA FilterStep ==
  ASSUME NEW n \in Nat, NEW S \in SUBSET (1 .. n), NEW T \in SUBSET (1 .. n + 1),
         T \cap (1 .. n) = S
  PROVE  /\ IsFiniteSet(S) /\ IsFiniteSet(T)
         /\ Cardinality(S) \in Nat
         /\ Cardinality(T) = IF n + 1 \in T THEN Cardinality(S) + 1
                                            ELSE Cardinality(S)
PROOF
<1>1. IsFiniteSet(1 .. n) /\ IsFiniteSet(1 .. n + 1)
  BY FS_Interval
<1>2. IsFiniteSet(S) /\ IsFiniteSet(T) /\ Cardinality(S) \in Nat
  BY <1>1, FS_Subset, FS_CardinalityType
<1>3. \A k \in T : k # n + 1 => k \in S
  <2>1. \A k \in 1 .. n + 1 : k # n + 1 => k \in 1 .. n
    OBVIOUS
  <2> QED BY <2>1
<1>4. S \subseteq T /\ n + 1 \notin S
  <2>1. n + 1 \notin 1 .. n
    OBVIOUS
  <2> QED BY <2>1
<1>5. CASE n + 1 \in T
  <2>1. T = S \cup {n + 1}
    BY <1>3, <1>4, <1>5
  <2> QED BY <2>1, <1>2, <1>4, <1>5, FS_AddElement
<1>6. CASE n + 1 \notin T
  <2>1. T = S
    BY <1>3, <1>4, <1>6
  <2> QED BY <2>1, <1>2, <1>6
<1> QED BY <1>2, <1>5, <1>6

-----------------------------------------------------------------------------
(* The state that read_json_pdu should be in after n bytes of an object.    *)
JsonState == [depth : Nat, in_string : BOOLEAN, escaped : BOOLEAN]

Counted(object, hidden, n) ==
  [depth     |-> Cardinality(Braces(object, hidden, "{", n))
                   - Cardinality(Braces(object, hidden, "}", n)),
   in_string |-> Inside(object, hidden, n + 1),
   escaped   |-> n + 1 \in hidden]

LEMMA QuotesStep ==
  ASSUME NEW object, NEW hidden, NEW p \in Nat
  PROVE  /\ Inside(object, hidden, p + 1) \in BOOLEAN
         /\ Inside(object, hidden, p + 2)
              <=> IF object[p + 1] = "\"" /\ p + 1 \notin hidden
                  THEN ~ Inside(object, hidden, p + 1)
                  ELSE Inside(object, hidden, p + 1)
PROOF
<1> DEFINE Q(m) == Quotes(object, hidden, m)
<1>1. /\ Q(p) \in SUBSET (1 .. p) /\ Q(p + 1) \in SUBSET (1 .. p + 1)
      /\ (p + 1 \in Q(p + 1)) <=> (object[p + 1] = "\"" /\ p + 1 \notin hidden)
  <2>1. p + 1 \in 1 .. p + 1
    OBVIOUS
  <2> QED BY <2>1 DEF Quotes
<1>2. Q(p + 1) \cap (1 .. p) = Q(p)
  <2>1. \A k \in 1 .. p : k \in 1 .. p + 1
    OBVIOUS
  <2> QED BY <2>1 DEF Quotes
<1> HIDE DEF Q
<1>3. /\ Cardinality(Q(p)) \in Nat
      /\ Cardinality(Q(p + 1)) = IF p + 1 \in Q(p + 1) THEN Cardinality(Q(p)) + 1
                                                       ELSE Cardinality(Q(p))
  BY <1>1, <1>2, FilterStep
<1>4. /\ Inside(object, hidden, p + 1) <=> Cardinality(Q(p)) % 2 = 1
      /\ Inside(object, hidden, p + 2) <=> Cardinality(Q(p + 1)) % 2 = 1
  <2>1. p + 1 - 1 = p /\ p + 2 - 1 = p + 1
    OBVIOUS
  <2> QED BY <2>1 DEF Inside, Q
<1>5. ASSUME NEW c \in Nat PROVE (c + 1) % 2 = 1 <=> ~ (c % 2 = 1)
  OBVIOUS
<1> QED BY <1>1, <1>3, <1>4, <1>5 DEF Inside

LEMMA BracesStep ==
  ASSUME NEW object, NEW hidden, NEW byte, NEW p \in Nat
  PROVE  /\ Cardinality(Braces(object, hidden, byte, p)) \in Nat
         /\ Cardinality(Braces(object, hidden, byte, p + 1))
              = IF object[p + 1] = byte /\ ~ Inside(object, hidden, p + 1)
                THEN Cardinality(Braces(object, hidden, byte, p)) + 1
                ELSE Cardinality(Braces(object, hidden, byte, p))
PROOF
<1> DEFINE B(m) == Braces(object, hidden, byte, m)
<1>1. /\ B(p) \in SUBSET (1 .. p) /\ B(p + 1) \in SUBSET (1 .. p + 1)
      /\ p + 1 \in B(p + 1)
           <=> object[p + 1] = byte /\ ~ Inside(object, hidden, p + 1)
  BY DEF Braces
<1>2. B(p + 1) \cap (1 .. p) = B(p)
  <2>1. \A k \in 1 .. p : k \in 1 .. p + 1
    OBVIOUS
  <2> QED BY <2>1 DEF Braces
<1> HIDE DEF B
<1>3. /\ Cardinality(B(p)) \in Nat
      /\ Cardinality(B(p + 1)) = IF p + 1 \in B(p + 1) THEN Cardinality(B(p)) + 1
                                                       ELSE Cardinality(B(p))
  BY <1>1, <1>2, FilterStep
<1> QED BY <1>1, <1>3 DEF B

(* A byte takes the reader from the right state to the right state.  In a   *)
(* string, a byte is hidden exactly when escaped is set; outside none is,   *)
(* since a backslash is always within a string.                             *)
LEMMA CountingStep ==
  ASSUME NEW object \in Seq(STRING), NEW hidden \in SUBSET (1 .. Len(object) + 1),
         Hides(object, hidden), NEW p \in 0 .. Len(object) - 1,
         \A k \in 1 .. Len(object) : object[k] = "\\" => Inside(object, hidden, k)
  PROVE  Counted(object, hidden, p + 1)
           = After(Counted(object, hidden, p), object[p + 1])
PROOF
<1> DEFINE in == Inside(object, hidden, p + 1)
           opens == Cardinality(Braces(object, hidden, "{", p))
           closes == Cardinality(Braces(object, hidden, "}", p))
           byte == object[p + 1]
<1>1. p \in Nat /\ p + 1 \in 1 .. Len(object) /\ Len(object) \in Nat
  OBVIOUS
<1>2. /\ in \in BOOLEAN
      /\ Inside(object, hidden, p + 1 + 1)
           = IF byte = "\"" /\ p + 1 \notin hidden THEN ~ in ELSE in
  <2>1. p + 1 + 1 = p + 2
    BY <1>1
  <2>2. Inside(object, hidden, p + 2) \in BOOLEAN
    BY DEF Inside
  <2> HIDE DEF byte
  <2> QED BY <2>1, <2>2, <1>1, QuotesStep DEF byte
<1>3. /\ opens \in Nat /\ closes \in Nat
      /\ Cardinality(Braces(object, hidden, "{", p + 1))
           = IF byte = "{" /\ ~ in THEN opens + 1 ELSE opens
      /\ Cardinality(Braces(object, hidden, "}", p + 1))
           = IF byte = "}" /\ ~ in THEN closes + 1 ELSE closes
  BY <1>1, BracesStep
<1>4. p + 1 + 1 \in hidden <=> byte = "\\" /\ p + 1 \notin hidden
  <2>1. p + 1 + 1 \in 1 .. Len(object) + 1 /\ p + 1 + 1 > 1 /\ p + 1 + 1 - 1 = p + 1
    BY <1>1
  <2> QED BY <2>1 DEF Hides
<1>5. byte = "\\" => in
  BY <1>1
<1>6. p + 1 \in hidden => in
  <2>1. SUFFICES ASSUME p + 1 \in hidden PROVE in
    OBVIOUS
  <2>2. p + 1 > 1 /\ object[p] = "\\" /\ p \notin hidden
    <3>1. p + 1 \in 1 .. Len(object) + 1 /\ p + 1 - 1 = p
      BY <1>1
    <3> QED BY <2>1, <3>1 DEF Hides
  <2>3. p \in 1 .. Len(object) /\ p - 1 \in Nat /\ p - 1 + 1 = p /\ p - 1 + 2 = p + 1
    BY <1>1, <2>2
  <2>4. Inside(object, hidden, p)
    BY <2>2, <2>3
  <2>5. "\\" # "\""
    OBVIOUS
  <2>6. in <=> Inside(object, hidden, p)
    BY <2>2, <2>3, <2>5, QuotesStep
  <2> QED BY <2>4, <2>6
<1>7. Counted(object, hidden, p)
        = [depth |-> opens - closes, in_string |-> in, escaped |-> p + 1 \in hidden]
  BY DEF Counted
<1>8. Counted(object, hidden, p + 1)
        = [depth |-> Cardinality(Braces(object, hidden, "{", p + 1))
                       - Cardinality(Braces(object, hidden, "}", p + 1)),
           in_string |-> Inside(object, hidden, p + 1 + 1),
           escaped |-> p + 1 + 1 \in hidden]
  BY DEF Counted
<1> DEFINE h == p + 1 \in hidden
<1>9. h \in BOOLEAN
  OBVIOUS
<1> HIDE DEF in, opens, closes, byte
<1>10. CASE in
  <2>1. Cardinality(Braces(object, hidden, "{", p + 1)) = opens
        /\ Cardinality(Braces(object, hidden, "}", p + 1)) = closes
    BY <1>3, <1>10
  <2>2. Inside(object, hidden, p + 1 + 1) = (h \/ byte # "\"")
    BY <1>2, <1>10
  <2>3. (p + 1 + 1 \in hidden) = (~ h /\ byte = "\\")
    BY <1>4
  <2>4. After(Counted(object, hidden, p), byte)
          = [depth |-> opens - closes, in_string |-> h \/ byte # "\"",
             escaped |-> ~ h /\ byte = "\\"]
    <3> HIDE DEF h
    <3>1. Counted(object, hidden, p)
            = [depth |-> opens - closes, in_string |-> in, escaped |-> h]
      BY <1>7 DEF h
    <3> QED BY <3>1, <1>9, <1>10 DEF After
  <2> QED BY <2>1, <2>2, <2>3, <2>4, <1>8 DEF byte
<1>11. CASE ~ in
  <2>1. ~ h /\ byte # "\\"
    BY <1>5, <1>6, <1>11
  <2>2. Cardinality(Braces(object, hidden, "{", p + 1))
          - Cardinality(Braces(object, hidden, "}", p + 1))
          = IF byte = "{" THEN (opens - closes) + 1
            ELSE IF byte = "}" THEN (opens - closes) - 1 ELSE opens - closes
    <3>1. "{" # "}"
      OBVIOUS
    <3> DEFINE o == Cardinality(Braces(object, hidden, "{", p + 1))
               c == Cardinality(Braces(object, hidden, "}", p + 1))
    <3>2. CASE byte = "{"
      <4>1. o = opens + 1 /\ c = closes
        BY <1>3, <1>11, <3>1, <3>2
      <4> HIDE DEF o, c
      <4>2. o - c = (opens - closes) + 1
        <5>1. opens \in Nat /\ closes \in Nat
          BY <1>3
        <5> QED BY <4>1, <5>1
      <4> QED BY <4>2, <3>2 DEF o, c
    <3>3. CASE byte = "}"
      <4>1. o = opens /\ c = closes + 1
        BY <1>3, <1>11, <3>1, <3>3
      <4> HIDE DEF o, c
      <4>2. o - c = (opens - closes) - 1
        <5>1. opens \in Nat /\ closes \in Nat
          BY <1>3
        <5> QED BY <4>1, <5>1
      <4> QED BY <4>2, <3>1, <3>3 DEF o, c
    <3>4. CASE byte # "{" /\ byte # "}"
      BY <1>3, <1>11, <3>4
    <3> QED BY <3>2, <3>3, <3>4
  <2>3. Inside(object, hidden, p + 1 + 1) = (byte = "\"")
    BY <1>2, <1>11, <2>1
  <2>4. (p + 1 + 1 \in hidden) = h
    BY <1>4, <2>1
  <2>5. After(Counted(object, hidden, p), byte)
          = [depth |-> IF byte = "{" THEN (opens - closes) + 1
                       ELSE IF byte = "}" THEN (opens - closes) - 1
                       ELSE opens - closes,
             in_string |-> byte = "\"", escaped |-> h]
    <3> HIDE DEF h
    <3>1. Counted(object, hidden, p)
            = [depth |-> opens - closes, in_string |-> in, escaped |-> h]
      BY <1>7 DEF h
    <3> QED BY <3>1, <1>9, <1>11 DEF After
  <2> QED BY <2>2, <2>3, <2>4, <2>5, <1>8 DEF byte
<1> QED BY <1>10, <1>11

(* What the proofs need of an object.  In the state s the reader is right   *)
(* about the first n bytes of the object.                                   *)
RightAfter(object, n, state) ==
  \E hidden \in SUBSET (1 .. Len(object) + 1) :
    Closes(object, hidden) /\ state = Counted(object, hidden, n)

LEMMA RightAtStart ==
  ASSUME NEW object \in Objects
  PROVE  /\ object \in Seq(STRING) /\ Len(object) > 0 /\ object[1] = "{"
         /\ RightAfter(object, 0, JsonStart)
PROOF
<1>1. object \in Seq(STRING) /\ object # <<>> /\ object[1] = "{"
  BY TransportAssumption DEF Balanced
<1>2. PICK hidden \in SUBSET (1 .. Len(object) + 1) : Closes(object, hidden)
  BY TransportAssumption DEF Balanced
<1>3. Inside(object, hidden, 0 + 1) = FALSE
  <2>1. Quotes(object, hidden, 0) = {} /\ 0 + 1 - 1 = 0
    BY DEF Quotes
  <2>2. Cardinality(Quotes(object, hidden, 0 + 1 - 1)) = 0
    BY <2>1, FS_EmptySet
  <2>3. ~ (0 % 2 = 1)
    OBVIOUS
  <2> QED BY <2>2, <2>3 DEF Inside
<1>4. /\ Cardinality(Braces(object, hidden, "{", 0)) = 0
      /\ Cardinality(Braces(object, hidden, "}", 0)) = 0
  <2>1. Braces(object, hidden, "{", 0) = {} /\ Braces(object, hidden, "}", 0) = {}
    BY DEF Braces
  <2> QED BY <2>1, FS_EmptySet
<1>5. (0 + 1 \in hidden) = FALSE
  <2>1. 0 + 1 = 1 /\ ~ (1 > 1)
    OBVIOUS
  <2>2. 1 \in 1 .. Len(object) + 1
    <3>1. object \in Seq(STRING)
      BY <1>1
    <3>2. Len(object) \in Nat
      BY <3>1
    <3> QED BY <3>2
  <2>3. 1 \in hidden <=> 1 > 1 /\ object[1 - 1] = "\\" /\ 1 - 1 \notin hidden
    BY <2>2, <1>2 DEF Closes, Hides
  <2> QED BY <2>1, <2>3
<1>6. Counted(object, hidden, 0) = JsonStart
  <2>1. Counted(object, hidden, 0)
          = [depth |-> 0 - 0, in_string |-> FALSE, escaped |-> FALSE]
    BY <1>3, <1>4, <1>5 DEF Counted
  <2> QED BY <2>1 DEF JsonStart
<1>7. Len(object) > 0
  <2>1. Len(object) # 0 /\ Len(object) \in Nat
    BY <1>1, EmptySeq
  <2> QED BY <2>1
<1> QED BY <1>1, <1>2, <1>6, <1>7 DEF RightAfter

LEMMA RightStep ==
  ASSUME NEW object \in Objects, NEW n \in 0 .. Len(object) - 1, NEW state,
         RightAfter(object, n, state)
  PROVE  LET next == After(state, object[n + 1])
         IN  /\ RightAfter(object, n + 1, next)
             /\ next \in JsonState
             /\ next.depth = 0 <=> n + 1 = Len(object)
PROOF
<1>1. object \in Seq(STRING) /\ Len(object) \in Nat
  BY TransportAssumption
<1>2. PICK hidden \in SUBSET (1 .. Len(object) + 1) :
        Closes(object, hidden) /\ state = Counted(object, hidden, n)
  BY DEF RightAfter
<1>3. n \in Nat /\ n + 1 \in 1 .. Len(object)
  BY <1>1
<1>4. After(state, object[n + 1]) = Counted(object, hidden, n + 1)
  BY <1>1, <1>2, CountingStep DEF Closes
<1> DEFINE opened == Cardinality(Braces(object, hidden, "{", n + 1))
           closed == Cardinality(Braces(object, hidden, "}", n + 1))
<1>5. opened \in Nat /\ closed \in Nat
  <2>1. n + 1 \in Nat
    BY <1>3
  <2> QED BY <2>1, BracesStep
<1>6. /\ closed <= opened
      /\ opened = closed <=> n + 1 = Len(object)
  BY <1>2, <1>3 DEF Closes
<1>7. Counted(object, hidden, n + 1)
        = [depth |-> opened - closed, in_string |-> Inside(object, hidden, n + 1 + 1),
           escaped |-> n + 1 + 1 \in hidden]
  BY DEF Counted
<1> HIDE DEF opened, closed
<1>8. opened - closed \in Nat /\ (opened - closed = 0 <=> opened = closed)
  BY <1>5, <1>6
<1>9. Inside(object, hidden, n + 1 + 1) \in BOOLEAN /\ (n + 1 + 1 \in hidden) \in BOOLEAN
  BY DEF Inside
<1>10. Counted(object, hidden, n + 1) \in JsonState
  <2>1. ASSUME NEW d \in Nat, NEW i \in BOOLEAN, NEW e \in BOOLEAN
        PROVE  [depth |-> d, in_string |-> i, escaped |-> e] \in JsonState
    BY DEF JsonState
  <2> QED BY <2>1, <1>7, <1>8, <1>9
<1>11. Counted(object, hidden, n + 1).depth = opened - closed
  BY <1>7
<1>12. RightAfter(object, n + 1, Counted(object, hidden, n + 1))
  BY <1>2 DEF RightAfter
<1> QED BY <1>4, <1>6, <1>8, <1>10, <1>11, <1>12

(* A packet says in its fourth byte how long it is. *)
Byte == STRING \cup {"0", "v"} \cup {Digits[k] : k \in 1 .. 9}

IsPacket(m) ==
  /\ m \in Seq(Byte)
  /\ 5 <= Len(m) /\ Len(m) <= 9
  /\ m[1] = "v" /\ m[4] = Digits[Len(m)] /\ m[5] = "h"

LEMMA PacketShape ==
  ASSUME NEW body \in Bodies
  PROVE  IsPacket(Packet(body))
PROOF
<1> DEFINE d == Digits[Len(body) + 4]
           header == <<"v", "0", "0", d>>
<1>1. body \in Seq(Byte) /\ 1 <= Len(body) /\ Len(body) <= 5 /\ body[1] = "h"
  BY TransportAssumption DEF Byte
<1>2. d \in Byte /\ "v" \in Byte /\ "0" \in Byte
  <2>1. Len(body) + 4 \in 1 .. 9
    BY <1>1
  <2> QED BY <2>1 DEF Byte
<1> HIDE DEF d
<1>3. header \in Seq(Byte) /\ Len(header) = 4 /\ header[1] = "v" /\ header[4] = d
  BY <1>2
<1>4. Packet(body) = header \o body
  BY DEF Packet, d
<1> HIDE DEF header
<1>5. /\ header \o body \in Seq(Byte)
      /\ Len(header \o body) = Len(header) + Len(body)
      /\ \A i \in 1 .. Len(header) + Len(body) :
           (header \o body)[i] = IF i <= Len(header) THEN header[i]
                                 ELSE body[i - Len(header)]
  BY <1>1, <1>3, ConcatProperties
<1> DEFINE m == header \o body
           k == Len(body)
<1> HIDE DEF m
<1>6. k \in Nat /\ k >= 1 /\ k <= 5
  BY <1>1
<1> HIDE DEF k
<1>7. m \in Seq(Byte) /\ Len(m) = 4 + k
      /\ \A i \in 1 .. 4 + k : m[i] = IF i <= 4 THEN header[i] ELSE body[i - 4]
  BY <1>3, <1>5 DEF m, k
<1>8. 5 <= Len(m) /\ Len(m) <= 9 /\ Len(m) = k + 4
  BY <1>6, <1>7
<1>9. m[1] = "v" /\ m[4] = d /\ m[5] = "h"
  <2>1. 1 \in 1 .. 4 + k /\ 4 \in 1 .. 4 + k /\ 5 \in 1 .. 4 + k /\ 5 - 4 = 1
    BY <1>6
  <2> QED BY <2>1, <1>1, <1>3, <1>7
<1> QED BY <1>4, <1>7, <1>8, <1>9 DEF IsPacket, d, m, k

LEMMA TotalLenOfPacket ==
  ASSUME NEW m, IsPacket(m), NEW bytes, bytes[4] = m[4]
  PROVE  TotalLen(bytes) = Len(m)
PROOF
<1>1. DOMAIN Digits = 1 .. 9
  BY DEF Digits
<1>2. \A j, k \in 1 .. 9 : Digits[j] = Digits[k] => j = k
  BY DEF Digits
<1> DEFINE k == Len(m)
           byte == bytes[4]
<1>3. k \in Nat /\ 5 <= k /\ k <= 9 /\ Digits[k] = byte
  BY DEF IsPacket
<1> HIDE DEF Digits, k, byte
<1>4. k \in DOMAIN Digits
  BY <1>1, <1>3
<1>5. \A n \in DOMAIN Digits : Digits[n] = byte => n = k
  BY <1>1, <1>2, <1>3, <1>4
<1>6. (CHOOSE n \in DOMAIN Digits : Digits[n] = byte) = k
  BY <1>3, <1>4, <1>5
<1> QED BY <1>6 DEF TotalLen, k, byte

-----------------------------------------------------------------------------
(* Where the messages lie in the bytes that are under way or have been      *)
(* read: the k-th begins behind the first at[k] bytes, and all between two  *)
(* messages is NULs.                                                        *)
Laid(bytes, messages, at) ==
  /\ at \in [1 .. Len(messages) + 1 -> 0 .. Len(bytes)]
  /\ at[Len(messages) + 1] = Len(bytes)
  /\ \A i \in 1 .. at[1] : bytes[i] = "0"
  /\ \A k \in 1 .. Len(messages) :
       /\ \A j \in k + 1 .. Len(messages) + 1 : at[k] + Len(messages[k]) <= at[j]
       /\ \A i \in 1 .. Len(messages[k]) : bytes[at[k] + i] = messages[k][i]
       /\ \A i \in at[k] + Len(messages[k]) + 1 .. at[k + 1] : bytes[i] = "0"

Nuls(padding) == \A i \in 1 .. Len(padding) : padding[i] = "0"

LEMMA PaddingShape ==
  /\ \A padding \in Padding : padding \in Seq(Byte) /\ Nuls(padding)
  /\ <<>> \in Seq(Byte) /\ Nuls(<<>>)
PROOF
<1>1. ASSUME NEW padding \in Padding PROVE padding \in Seq(Byte) /\ Nuls(padding)
  <2>1. padding \in Seq({"0"})
    BY TransportAssumption
  <2>2. padding \in Seq(Byte)
    BY <2>1, SeqMonotonic DEF Byte
  <2>3. \A i \in 1 .. Len(padding) : padding[i] \in {"0"}
    BY <2>1, ElementOfSeq
  <2> QED BY <2>2, <2>3 DEF Nuls
<1>2. <<>> \in Seq(Byte) /\ Nuls(<<>>)
  BY EmptySeq DEF Nuls
<1> QED BY <1>1, <1>2

(* What the server writes lies behind all there was.                        *)
LEMMA LaidWrite ==
  ASSUME NEW bytes \in Seq(Byte), NEW messages \in Seq(Seq(Byte)), NEW at,
         Laid(bytes, messages, at),
         NEW message \in Seq(Byte), NEW padding \in Seq(Byte), Nuls(padding)
  PROVE  \E at2 : /\ Laid((bytes \o message) \o padding, Append(messages, message), at2)
                  /\ messages # <<>> => at2[1] = at[1]
PROOF
<1> DEFINE L == Len(bytes)
           M == Len(message)
           P == Len(padding)
           N == Len(messages)
           msgs2 == Append(messages, message)
           bytes2 == (bytes \o message) \o padding
           at2 == [k \in 1 .. N + 2 |-> IF k <= N + 1 THEN at[k] ELSE L + M + P]
<1>1. L \in Nat /\ M \in Nat /\ P \in Nat /\ N \in Nat
  BY LenProperties
<1>3. /\ Len(bytes2) = L + M + P
      /\ \A i \in 1 .. L : bytes2[i] = bytes[i]
      /\ \A i \in 1 .. M : bytes2[L + i] = message[i]
      /\ \A i \in L + M + 1 .. L + M + P : bytes2[i] = "0"
  <2>1. /\ bytes \o message \in Seq(Byte)
        /\ Len(bytes \o message) = L + M
        /\ \A i \in 1 .. L + M : (bytes \o message)[i]
                 = IF i <= L THEN bytes[i] ELSE message[i - L]
    BY ConcatProperties
  <2> DEFINE b == bytes \o message
  <2>8. \A i \in 1 .. L + M : b[i] = IF i <= L THEN bytes[i] ELSE message[i - L]
    BY <2>1
  <2> HIDE DEF b
  <2>2. /\ Len(bytes2) = L + M + P
        /\ \A i \in 1 .. L + M + P : (b \o padding)[i]
                 = IF i <= L + M THEN b[i] ELSE padding[i - (L + M)]
    BY <2>1, ConcatProperties DEF b
  <2>3. bytes2 = b \o padding
    BY DEF b
  <2>4. \A j \in 1 .. P : padding[j] = "0"
    BY DEF Nuls
  <2> HIDE DEF L, M, P, bytes2
  <2>5. ASSUME NEW i \in 1 .. L PROVE bytes2[i] = bytes[i]
    <3>1. i \in 1 .. L + M /\ i \in 1 .. L + M + P /\ i <= L /\ i <= L + M
      BY <1>1
    <3> QED BY <2>8, <2>2, <2>3, <3>1
  <2>6. ASSUME NEW i \in 1 .. M PROVE bytes2[L + i] = message[i]
    <3> DEFINE j == L + i
    <3>1. /\ j \in 1 .. L + M /\ j \in 1 .. L + M + P
          /\ ~ (j <= L) /\ j <= L + M /\ j - L = i
      BY <1>1
    <3> HIDE DEF j
    <3>2. b[j] = message[i]
      BY <2>8, <3>1
    <3>3. bytes2[j] = b[j]
      BY <2>2, <2>3, <3>1
    <3> QED BY <3>2, <3>3 DEF j
  <2>7. ASSUME NEW i \in L + M + 1 .. L + M + P PROVE bytes2[i] = "0"
    <3>1. /\ i \in 1 .. L + M + P /\ ~ (i <= L + M) /\ i - (L + M) \in 1 .. P
      BY <1>1
    <3> QED BY <2>2, <2>3, <2>4, <3>1
  <2> QED BY <2>2, <2>5, <2>6, <2>7
<1>4. /\ msgs2 \in Seq(Seq(Byte)) /\ Len(msgs2) = N + 1
      /\ \A k \in 1 .. N : msgs2[k] = messages[k]
      /\ msgs2[N + 1] = message
  BY AppendProperties
<1>5. /\ at \in [1 .. N + 1 -> 0 .. L] /\ at[N + 1] = L
      /\ \A i \in 1 .. at[1] : bytes[i] = "0"
  BY DEF Laid
<1>6. ASSUME NEW k \in 1 .. N
      PROVE  /\ \A j \in k + 1 .. N + 1 : at[k] + Len(messages[k]) <= at[j]
             /\ \A i \in 1 .. Len(messages[k]) : bytes[at[k] + i] = messages[k][i]
             /\ \A i \in at[k] + Len(messages[k]) + 1 .. at[k + 1] : bytes[i] = "0"
             /\ Len(messages[k]) \in Nat
  <2>1. messages[k] \in Seq(Byte)
    BY ElementOfSeq
  <2> QED BY <2>1, LenProperties DEF Laid
<1> HIDE DEF L, M, P, N, msgs2, bytes2
<1>7. /\ at2 \in [1 .. N + 2 -> 0 .. L + M + P]
      /\ at2[N + 2] = L + M + P
      /\ \A k \in 1 .. N + 1 : at2[k] = at[k] /\ at[k] \in 0 .. L
  <2>1. \A k \in 1 .. N + 2 : k <= N + 1 => k \in 1 .. N + 1
    BY <1>1
  <2>2. \A j \in 0 .. L : j \in 0 .. L + M + P
    BY <1>1
  <2>3. L + M + P \in 0 .. L + M + P /\ N + 2 \in 1 .. N + 2 /\ ~ (N + 2 <= N + 1)
    BY <1>1
  <2>4. \A k \in 1 .. N + 1 : k \in 1 .. N + 2 /\ k <= N + 1
    BY <1>1
  <2> QED BY <1>5, <2>1, <2>2, <2>3, <2>4
<1> HIDE DEF at2
<1>8. 1 \in 1 .. N + 1 /\ N + 1 \in 1 .. N + 1
  BY <1>1
<1>9. \A i \in 1 .. at2[1] : bytes2[i] = "0"
  <2>1. \A i \in 1 .. at[1] : i \in 1 .. L
    BY <1>1, <1>7, <1>8
  <2> QED BY <1>3, <1>5, <1>7, <1>8, <2>1
<1>10. ASSUME NEW k \in 1 .. N + 1
       PROVE  /\ \A j \in k + 1 .. N + 2 : at2[k] + Len(msgs2[k]) <= at2[j]
              /\ \A i \in 1 .. Len(msgs2[k]) : bytes2[at2[k] + i] = msgs2[k][i]
              /\ \A i \in at2[k] + Len(msgs2[k]) + 1 .. at2[k + 1] : bytes2[i] = "0"
  <2>1. CASE k \in 1 .. N
    <3>1. k + 1 \in 1 .. N + 1 /\ k \in 1 .. N + 1 /\ 1 \in 1 .. N
      BY <1>1, <2>1
    <3>2. at2[k] = at[k] /\ at2[k + 1] = at[k + 1] /\ msgs2[k] = messages[k]
          /\ at[k] \in 0 .. L /\ at[k + 1] \in 0 .. L
      BY <1>4, <1>7, <1>8, <3>1, <2>1
    <3> DEFINE a == at[k]
               b == at[k + 1]
               c == Len(messages[k])
    <3>3. a \in 0 .. L /\ b \in 0 .. L /\ c \in Nat /\ a + c <= b /\ a + c <= L
      <4>1. k + 1 \in k + 1 .. N + 1 /\ N + 1 \in k + 1 .. N + 1
        BY <1>1, <2>1
      <4> QED BY <4>1, <3>2, <1>5, <1>6, <2>1
    <3>7. ASSUME NEW j \in k + 1 .. N + 2 PROVE a + c <= at2[j]
      <4>1. CASE j = N + 2
        <5> HIDE DEF a, c
        <5> QED BY <4>1, <3>3, <1>1, <1>7
      <4>2. CASE j # N + 2
        <5>1. j \in k + 1 .. N + 1 /\ j \in 1 .. N + 1
          BY <4>2, <1>1, <2>1
        <5> QED BY <5>1, <1>6, <1>7, <2>1
      <4> QED BY <4>1, <4>2
    <3> HIDE DEF a, b, c
    <3>4. /\ \A i \in 1 .. c : a + i \in 1 .. L
          /\ \A i \in a + c + 1 .. b : i \in 1 .. L
      BY <3>3, <1>1
    <3>5. ASSUME NEW i \in 1 .. Len(msgs2[k]) PROVE bytes2[at2[k] + i] = msgs2[k][i]
      <4>1. i \in 1 .. c /\ at2[k] = a /\ msgs2[k] = messages[k]
        BY <3>2 DEF a, c
      <4>2. bytes[a + i] = messages[k][i]
        BY <4>1, <1>6, <2>1 DEF a, c
      <4>3. bytes2[a + i] = bytes[a + i]
        BY <4>1, <3>4, <1>3
      <4> QED BY <4>1, <4>2, <4>3
    <3>6. \A i \in at2[k] + Len(msgs2[k]) + 1 .. at2[k + 1] : bytes2[i] = "0"
      BY <3>2, <3>4, <1>3, <1>6, <2>1 DEF a, b, c
    <3> QED BY <3>2, <3>5, <3>6, <3>7 DEF a, c
  <2>2. CASE k = N + 1
    <3>1. at2[k] = L /\ at2[k + 1] = L + M + P /\ msgs2[k] = message /\ Len(msgs2[k]) = M
      <4>1. N + 1 + 1 = N + 2
        BY <1>1
      <4> QED BY <4>1, <1>4, <1>5, <1>7, <1>8, <2>2 DEF M
    <3>4. \A j \in k + 1 .. N + 2 : at2[k] + Len(msgs2[k]) <= at2[j]
      <4>1. \A j \in k + 1 .. N + 2 : j = N + 2
        BY <1>1, <2>2
      <4>2. L + M <= L + M + P
        BY <1>1
      <4> QED BY <3>1, <4>1, <4>2, <1>7
    <3>5. \A i \in 1 .. Len(msgs2[k]) : bytes2[at2[k] + i] = msgs2[k][i]
      BY <3>1, <1>3
    <3>6. \A i \in at2[k] + Len(msgs2[k]) + 1 .. at2[k + 1] : bytes2[i] = "0"
      BY <3>1, <1>3
    <3> QED BY <3>4, <3>5, <3>6
  <2>3. k \in 1 .. N \/ k = N + 1
    BY <1>1
  <2> QED BY <2>1, <2>2, <2>3
<1>11. Laid(bytes2, msgs2, at2)
  <2>1. N + 1 + 1 = N + 2
    BY <1>1
  <2>2. at2 \in [1 .. Len(msgs2) + 1 -> 0 .. Len(bytes2)]
        /\ at2[Len(msgs2) + 1] = Len(bytes2)
    BY <2>1, <1>3, <1>4, <1>7
  <2> QED BY <2>1, <2>2, <1>4, <1>9, <1>10 DEF Laid
<1>12. messages # <<>> => at2[1] = at[1]
  BY <1>7, <1>8
<1> QED BY <1>11, <1>12 DEF bytes2, msgs2

(* Filler is skipped: everything moves one place to the front.              *)
LEMMA LaidTail ==
  ASSUME NEW bytes \in Seq(Byte), bytes # <<>>, NEW messages \in Seq(Seq(Byte)),
         NEW at, Laid(bytes, messages, at), at[1] # 0
  PROVE  \E at2 : Laid(Tail(bytes), messages, at2)
PROOF
<1> DEFINE L == Len(bytes)
           N == Len(messages)
           tail == Tail(bytes)
           at2 == [k \in 1 .. N + 1 |-> at[k] - 1]
<1>1. L \in Nat /\ L > 0 /\ N \in Nat
  BY LenProperties, EmptySeq
<1>2. Len(tail) = L - 1 /\ \A i \in 1 .. L - 1 : tail[i] = bytes[i + 1]
  BY HeadTailProperties
<1>3. at \in [1 .. N + 1 -> 0 .. L] /\ at[N + 1] = L
      /\ \A i \in 1 .. at[1] : bytes[i] = "0"
  BY DEF Laid
<1>4. \A k \in 1 .. N : Len(messages[k]) \in Nat
  <2>1. \A k \in 1 .. N : messages[k] \in Seq(Byte)
    BY ElementOfSeq
  <2> QED BY <2>1, LenProperties
<1>5. ASSUME NEW k \in 1 .. N
      PROVE  /\ \A j \in k + 1 .. N + 1 : at[k] + Len(messages[k]) <= at[j]
             /\ \A i \in 1 .. Len(messages[k]) : bytes[at[k] + i] = messages[k][i]
             /\ \A i \in at[k] + Len(messages[k]) + 1 .. at[k + 1] : bytes[i] = "0"
  BY DEF Laid
<1> HIDE DEF L, N, tail
<1>6. ASSUME NEW k \in 1 .. N + 1 PROVE at[k] \in 1 .. L /\ at2[k] = at[k] - 1
  <2>1. at[1] \in 0 .. L /\ at[k] \in 0 .. L
    <3>1. 1 \in 1 .. N + 1
      BY <1>1
    <3> QED BY <1>3, <3>1
  <2>2. CASE k = 1
    BY <2>1, <2>2, <1>1
  <2>3. CASE k # 1
    <3>1. 1 \in 1 .. N /\ k \in 1 + 1 .. N + 1
      BY <1>1, <2>3
    <3>2. at[1] + Len(messages[1]) <= at[k] /\ Len(messages[1]) \in Nat
      BY <1>4, <1>5, <3>1
    <3> QED BY <2>1, <3>2, <1>1
  <2> QED BY <2>2, <2>3
<1>7. 1 \in 1 .. N + 1 /\ N + 1 \in 1 .. N + 1
  BY <1>1
<1>8. at2 \in [1 .. N + 1 -> 0 .. L - 1] /\ at2[N + 1] = L - 1
  <2>1. \A k \in 1 .. N + 1 : at[k] - 1 \in 0 .. L - 1
    BY <1>6, <1>1
  <2> QED BY <2>1, <1>3, <1>7
<1> HIDE DEF at2
<1>9. \A i \in 1 .. at2[1] : tail[i] = "0"
  <2>1. at[1] \in 1 .. L /\ at2[1] = at[1] - 1
    BY <1>6, <1>7
  <2>2. ASSUME NEW i \in 1 .. at2[1] PROVE i \in 1 .. L - 1 /\ i + 1 \in 1 .. at[1]
    BY <2>1, <1>1
  <2> QED BY <2>2, <1>2, <1>3
<1>10. ASSUME NEW k \in 1 .. N
       PROVE  /\ \A j \in k + 1 .. N + 1 : at2[k] + Len(messages[k]) <= at2[j]
              /\ \A i \in 1 .. Len(messages[k]) : tail[at2[k] + i] = messages[k][i]
              /\ \A i \in at2[k] + Len(messages[k]) + 1 .. at2[k + 1] : tail[i] = "0"
  <2>1. k \in 1 .. N + 1 /\ k + 1 \in 1 .. N + 1 /\ k + 1 \in k + 1 .. N + 1
    BY <1>1
  <2> DEFINE a == at[k]
             b == at[k + 1]
             c == Len(messages[k])
  <2>2. a \in 1 .. L /\ b \in 1 .. L /\ c \in Nat
    BY <2>1, <1>4, <1>6
  <2>3. a + c <= b
    BY <1>5, <2>1
  <2>4. at2[k] = a - 1 /\ at2[k + 1] = b - 1
    BY <2>1, <1>6
  <2>5. /\ \A i \in 1 .. c : bytes[a + i] = messages[k][i]
        /\ \A i \in a + c + 1 .. b : bytes[i] = "0"
    BY <1>5
  <2>6. ASSUME NEW j \in k + 1 .. N + 1 PROVE a - 1 + c <= at2[j]
    <3>1. j \in 1 .. N + 1
      BY <1>1
    <3>2. a + c <= at[j] /\ at[j] \in 1 .. L /\ at2[j] = at[j] - 1
      BY <3>1, <1>5, <1>6
    <3> HIDE DEF a, c
    <3> QED BY <3>2, <2>2, <1>1
  <2> HIDE DEF a, b, c
  <2>7. ASSUME NEW i \in 1 .. c PROVE tail[a - 1 + i] = messages[k][i]
    <3>1. a - 1 + i \in 1 .. L - 1 /\ a - 1 + i + 1 = a + i
      BY <2>2, <2>3, <1>1
    <3> QED BY <3>1, <2>5, <1>2
  <2>8. ASSUME NEW i \in a - 1 + c + 1 .. b - 1 PROVE tail[i] = "0"
    <3>1. i \in 1 .. L - 1 /\ i + 1 \in a + c + 1 .. b
      BY <2>2, <2>3, <1>1
    <3> QED BY <3>1, <2>5, <1>2
  <2> QED BY <2>4, <2>6, <2>7, <2>8 DEF c
<1>11. at2 \in [1 .. N + 1 -> 0 .. Len(tail)] /\ at2[N + 1] = Len(tail)
  BY <1>2, <1>8
<1>12. Laid(tail, messages, at2)
  BY <1>9, <1>10, <1>11 DEF Laid, N
<1> QED BY <1>12 DEF tail

(* The front of the bytes is the front of the first message; when it is all *)
(* of it, the rest are the bytes of the other messages.                     *)
LEMMA LaidNext ==
  ASSUME NEW front \in Seq(Byte), NEW rest \in Seq(Byte),
         NEW messages \in Seq(Seq(Byte)), messages # <<>>,
         NEW at, Laid(front \o rest, messages, at), at[1] = 0,
         Len(front) <= Len(messages[1])
  PROVE  /\ \A i \in 1 .. Len(front) : front[i] = messages[1][i]
         /\ Len(front) = Len(messages[1]) =>
              /\ front = messages[1]
              /\ \E at2 : Laid(rest, Tail(messages), at2)
PROOF
<1> DEFINE L == Len(front)
           R == Len(rest)
           N == Len(messages)
           bytes == front \o rest
<1>1. L \in Nat /\ R \in Nat /\ N \in Nat /\ N > 0
  BY LenProperties, EmptySeq
<1>2. /\ Len(bytes) = L + R
      /\ \A i \in 1 .. L + R : bytes[i] = IF i <= L THEN front[i] ELSE rest[i - L]
  BY ConcatProperties
<1>3. /\ at \in [1 .. N + 1 -> 0 .. L + R] /\ at[N + 1] = L + R
  BY <1>2 DEF Laid
<1>4. ASSUME NEW k \in 1 .. N
      PROVE  /\ \A j \in k + 1 .. N + 1 : at[k] + Len(messages[k]) <= at[j]
             /\ \A i \in 1 .. Len(messages[k]) : bytes[at[k] + i] = messages[k][i]
             /\ \A i \in at[k] + Len(messages[k]) + 1 .. at[k + 1] : bytes[i] = "0"
             /\ messages[k] \in Seq(Byte) /\ Len(messages[k]) \in Nat
  <2>1. messages[k] \in Seq(Byte)
    BY ElementOfSeq
  <2> QED BY <2>1, LenProperties DEF Laid
<1> HIDE DEF L, R, N, bytes
<1>5. 1 \in 1 .. N
  BY <1>1
<1>6. ASSUME NEW i \in 1 .. L PROVE front[i] = messages[1][i]
  <2> DEFINE c == Len(messages[1])
  <2>1. L <= c /\ c \in Nat
    BY <1>4, <1>5 DEF L
  <2>2. i \in 1 .. c /\ i \in 1 .. L + R /\ 0 + i = i /\ i <= L
    BY <2>1, <1>1
  <2>3. bytes[0 + i] = messages[1][i]
    BY <2>2, <1>4, <1>5
  <2> HIDE DEF c
  <2>4. bytes[i] = front[i]
    BY <2>2, <1>2
  <2> QED BY <2>2, <2>3, <2>4
<1>7. ASSUME L = Len(messages[1])
      PROVE  front = messages[1] /\ \E at2 : Laid(rest, Tail(messages), at2)
  <2>1. front = messages[1]
    BY <1>4, <1>5, <1>6, <1>7, SeqEqual DEF L
  <2> DEFINE at2 == [k \in 1 .. N |-> at[k + 1] - L]
             tail == Tail(messages)
  <2>2. Len(tail) = N - 1 /\ \A k \in 1 .. N - 1 : tail[k] = messages[k + 1]
    BY HeadTailProperties DEF N
  <2>3. ASSUME NEW k \in 1 .. N
        PROVE  at[k + 1] \in L .. L + R /\ at2[k] = at[k + 1] - L
    <3>1. k + 1 \in 1 .. N + 1
      BY <1>1
    <3>2. at[k + 1] \in 0 .. L + R
      BY <3>1, <1>3
    <3>3. 0 + L <= at[k + 1]
      <4>1. k + 1 \in 1 + 1 .. N + 1
        BY <1>1
      <4> QED BY <4>1, <1>4, <1>5, <1>7
    <3> QED BY <3>2, <3>3, <1>1
  <2>4. /\ at2 \in [1 .. N -> 0 .. R] /\ at2[N] = R
    <3>1. \A k \in 1 .. N : at[k + 1] - L \in 0 .. R
      BY <2>3, <1>1
    <3>2. N \in 1 .. N /\ at[N + 1] - L = R
      BY <1>1, <1>3
    <3> QED BY <3>1, <3>2
  <2> HIDE DEF at2, tail
  <2>5. ASSUME NEW i \in 1 .. at2[1] PROVE rest[i] = "0"
    <3> DEFINE d == at[2]
    <3>1. d \in L .. L + R /\ at2[1] = d - L
      <4>1. 1 + 1 = 2
        OBVIOUS
      <4> QED BY <4>1, <2>3, <1>5
    <3>2. \A j \in L + 1 .. d : bytes[j] = "0"
      <4>1. /\ 1 + 1 = 2 /\ 0 + L + 1 = L + 1
        BY <1>1
      <4> QED BY <4>1, <1>4, <1>5, <1>7
    <3> HIDE DEF d
    <3> DEFINE j == L + i
    <3>4. j \in L + 1 .. d /\ j \in 1 .. L + R /\ ~ (j <= L) /\ j - L = i
      BY <3>1, <1>1
    <3> HIDE DEF j
    <3> QED BY <3>2, <3>4, <1>2
  <2>6. ASSUME NEW k \in 1 .. N - 1
        PROVE  /\ \A j \in k + 1 .. N : at2[k] + Len(tail[k]) <= at2[j]
               /\ \A i \in 1 .. Len(tail[k]) : rest[at2[k] + i] = tail[k][i]
               /\ \A i \in at2[k] + Len(tail[k]) + 1 .. at2[k + 1] : rest[i] = "0"
    <3>1. k \in 1 .. N /\ k + 1 \in 1 .. N /\ k + 1 + 1 \in k + 1 + 1 .. N + 1
      BY <1>1
    <3> DEFINE a == at[k + 1]
               b == at[k + 1 + 1]
               c == Len(messages[k + 1])
    <3>2. a \in L .. L + R /\ b \in L .. L + R /\ c \in Nat /\ a + c <= b
      BY <3>1, <2>3, <1>4
    <3>3. at2[k] = a - L /\ at2[k + 1] = b - L /\ tail[k] = messages[k + 1]
      BY <3>1, <2>2, <2>3
    <3>4. /\ \A i \in 1 .. c : bytes[a + i] = messages[k + 1][i]
          /\ \A i \in a + c + 1 .. b : bytes[i] = "0"
      BY <3>1, <1>4
    <3>5. ASSUME NEW j \in k + 1 .. N PROVE a - L + c <= at2[j]
      <4>1. j \in 1 .. N /\ j + 1 \in k + 1 + 1 .. N + 1
        BY <1>1
      <4>2. a + c <= at[j + 1] /\ at[j + 1] \in L .. L + R /\ at2[j] = at[j + 1] - L
        BY <3>1, <4>1, <1>4, <2>3
      <4> HIDE DEF a, c
      <4> QED BY <4>2, <3>2, <1>1
    <3> HIDE DEF a, b, c
    <3>6. ASSUME NEW i \in 1 .. R PROVE bytes[L + i] = rest[i]
      <4> DEFINE j == L + i
      <4>1. j \in 1 .. L + R /\ ~ (j <= L) /\ j - L = i
        BY <1>1
      <4> HIDE DEF j
      <4>2. bytes[j] = rest[i]
        BY <4>1, <1>2
      <4> QED BY <4>2 DEF j
    <3>7. ASSUME NEW i \in 1 .. c PROVE rest[a - L + i] = messages[k + 1][i]
      <4> DEFINE j == a - L + i
      <4>1. j \in 1 .. R /\ L + j = a + i
        BY <3>2, <1>1
      <4> HIDE DEF j
      <4>2. bytes[L + j] = rest[j]
        BY <4>1, <3>6
      <4>3. rest[j] = messages[k + 1][i]
        BY <4>1, <4>2, <3>4
      <4> QED BY <4>3 DEF j
    <3>8. ASSUME NEW i \in a - L + c + 1 .. b - L PROVE rest[i] = "0"
      <4>1. i \in 1 .. R /\ L + i \in a + c + 1 .. b
        BY <3>2, <1>1
      <4>2. bytes[L + i] = rest[i]
        BY <4>1, <3>6
      <4> QED BY <4>1, <4>2, <3>4
    <3> QED BY <3>3, <3>5, <3>7, <3>8 DEF c
  <2>7. /\ Len(tail) + 1 = N /\ Len(rest) = R /\ 1 .. Len(tail) = 1 .. N - 1
    BY <2>2, <1>1 DEF R
  <2>8. Laid(rest, tail, at2)
    BY <2>4, <2>5, <2>6, <2>7 DEF Laid
  <2> QED BY <2>1, <2>8 DEF tail
<1> QED BY <1>6, <1>7 DEF L

-----------------------------------------------------------------------------
(* The invariant.  The messages that are left are the next ones; while the  *)
(* session goes on, the client expects the kind of the first of them, and   *)
(* what it has got is the front of that message.                            *)
Consumed == served + active - Len(outstanding)

Framed(message, n) == IF n <= 2 THEN message \in Objects ELSE IsPacket(message)

StateTypes ==
  /\ network \in Seq(Byte) /\ got \in Seq(Byte)
  /\ outstanding \in Seq(Seq(Byte))
  /\ served \in 0 .. Active - 1 /\ active \in Nat
  /\ active > 0 => served = Active - 1
  /\ step \in 1 .. Active /\ failed \in BOOLEAN
  /\ json \in JsonState
  /\ step > 2 \/ got = <<>> => json = JsonStart

InOrder ==
  /\ Consumed \in Nat
  /\ \A k \in 1 .. Len(outstanding) : Framed(outstanding[k], Consumed + k)

AtStep == step = IF Consumed + 1 < Active THEN Consumed + 1 ELSE Active

Reading ==
  /\ \E at : /\ Laid(got \o network, outstanding, at)
             /\ got # <<>> => at[1] = 0
  /\ got # <<>> => /\ outstanding # <<>>
                   /\ Len(got) < Len(outstanding[1])
                   /\ step <= 2 => RightAfter(outstanding[1], Len(got), json)

ReadInv == StateTypes /\ InOrder /\ (~ failed => AtStep /\ Reading)

LEMMA ScriptKinds ==
  /\ Active = 14
  /\ \A n \in 1 .. 14 : Script[n].expect = IF n <= 2 THEN "json" ELSE "tpkt"
BY DEF Active, Script, Asks

LEMMA InitReadInv == Init => ReadInv
PROOF
<1> SUFFICES ASSUME Init PROVE ReadInv
  OBVIOUS
<1>1. Len(outstanding) = 0 /\ served = 0 /\ active = 0 /\ step = 1 /\ got = <<>>
  BY DEF Init
<1>2. JsonStart \in JsonState
  BY DEF JsonStart, JsonState
<1>3. StateTypes
  <2>1. <<>> \in Seq(Byte) /\ <<>> \in Seq(Seq(Byte))
    BY EmptySeq
  <2>2. 1 \in 1 .. Active /\ 0 \in 0 .. Active - 1 /\ 0 \in Nat /\ ~ (0 > 0)
    BY ScriptKinds
  <2> QED BY <1>2, <2>1, <2>2 DEF Init, StateTypes
<1>4. Consumed = 0
  BY <1>1 DEF Consumed
<1>5. InOrder
  BY <1>1, <1>4 DEF InOrder
<1>6. AtStep
  BY <1>1, <1>4, ScriptKinds DEF AtStep
<1>7. Reading
  <2> DEFINE at == [k \in 1 .. 1 |-> 0]
  <2>1. got \o network = <<>> /\ Len(got \o network) = 0 /\ Len(outstanding) + 1 = 1
    BY DEF Init
  <2>2. at \in [1 .. 1 -> 0 .. 0] /\ at[1] = 0
    OBVIOUS
  <2> HIDE DEF at
  <2>3. Laid(got \o network, outstanding, at)
    BY <1>1, <2>1, <2>2 DEF Laid
  <2> QED BY <1>1, <2>2, <2>3 DEF Reading
<1> QED BY <1>3, <1>5, <1>6, <1>7 DEF ReadInv

(* The instances of the library's facts that the steps below need.          *)
LEMMA AppendMessage ==
  ASSUME NEW messages \in Seq(Seq(Byte)), NEW message \in Seq(Byte)
  PROVE  /\ Append(messages, message) \in Seq(Seq(Byte))
         /\ Append(messages, message) # <<>>
         /\ Len(Append(messages, message)) = Len(messages) + 1
         /\ \A i \in 1 .. Len(messages) : Append(messages, message)[i] = messages[i]
         /\ Append(messages, message)[Len(messages) + 1] = message
BY AppendProperties

LEMMA Reassociate ==
  ASSUME NEW a \in Seq(Byte), NEW b \in Seq(Byte), NEW c \in Seq(Byte)
  PROVE  a \o (b \o c) = (a \o b) \o c
BY ConcatAssociative

LEMMA StreamWrite ==
  ASSUME NEW front \in Seq(Byte), NEW back \in Seq(Byte),
         NEW messages \in Seq(Seq(Byte)), NEW at,
         Laid(front \o back, messages, at),
         NEW message \in Seq(Byte), NEW padding \in Seq(Byte), Nuls(padding)
  PROVE  \E at2 : /\ Laid(front \o ((back \o message) \o padding),
                          Append(messages, message), at2)
                  /\ messages # <<>> => at2[1] = at[1]
PROOF
<1>1. front \o back \in Seq(Byte) /\ back \o message \in Seq(Byte)
  BY ConcatProperties
<1>2. front \o ((back \o message) \o padding) = (front \o (back \o message)) \o padding
  BY <1>1, Reassociate
<1>3. front \o (back \o message) = (front \o back) \o message
  BY Reassociate
<1> DEFINE all == front \o back
<1>4. all \in Seq(Byte) /\ Laid(all, messages, at)
  BY <1>1
<1> HIDE DEF all
<1>5. \E at2 : /\ Laid((all \o message) \o padding, Append(messages, message), at2)
               /\ messages # <<>> => at2[1] = at[1]
  BY <1>4, LaidWrite
<1>6. front \o ((back \o message) \o padding) = (all \o message) \o padding
  BY <1>2, <1>3 DEF all
<1> QED BY <1>5, <1>6

LEMMA WriteReadInv ==
  ASSUME ReadInv, NEW message \in Seq(Byte), NEW padding \in Seq(Byte), Nuls(padding),
         Framed(message, served + active + 1), Write(message, padding),
         \/ served < 13 /\ active = 0 /\ served' = served + 1 /\ active' = active
         \/ served = 13 /\ active' = active + 1 /\ served' = served
  PROVE  ReadInv'
PROOF
<1> DEFINE N == Len(outstanding)
<1>1. /\ network' = (network \o message) \o padding
      /\ outstanding' = Append(outstanding, message)
      /\ UNCHANGED <<step, failed, got, json>>
  BY DEF Write, readVars
<1>2. StateTypes /\ InOrder
  BY DEF ReadInv
<1>9. network \in Seq(Byte) /\ got \in Seq(Byte) /\ outstanding \in Seq(Seq(Byte))
  BY <1>2 DEF StateTypes
<1>3. /\ N \in Nat /\ outstanding' \in Seq(Seq(Byte)) /\ Len(outstanding') = N + 1
      /\ \A k \in 1 .. N : outstanding'[k] = outstanding[k]
      /\ outstanding'[N + 1] = message
      /\ outstanding' # <<>>
  <2>1. /\ Append(outstanding, message) \in Seq(Seq(Byte))
        /\ Append(outstanding, message) # <<>>
        /\ Len(Append(outstanding, message)) = Len(outstanding) + 1
        /\ \A i \in 1.. Len(outstanding) :
             Append(outstanding, message)[i] = outstanding[i]
        /\ Append(outstanding, message)[Len(outstanding) + 1] = message
    BY <1>9, AppendMessage
  <2>2. Len(outstanding) \in Nat
    BY <1>9, LenProperties
  <2> QED BY <1>1, <2>1, <2>2
<1>4. network \o message \in Seq(Byte) /\ network' \in Seq(Byte)
  <2>1. network \o message \in Seq(Byte)
    BY <1>9, ConcatProperties
  <2> QED BY <2>1, <1>1, <1>2, ConcatProperties
<1>5. StateTypes'
  <2>1. /\ network' \in Seq(Byte) /\ got' \in Seq(Byte) /\ outstanding' \in Seq(Seq(Byte))
        /\ step' \in 1 .. Active /\ failed' \in BOOLEAN /\ json' \in JsonState
        /\ (step' > 2 \/ got' = <<>> => json' = JsonStart)
    BY <1>1, <1>2, <1>3, <1>4, <1>9 DEF StateTypes
  <2>2. served' \in 0 .. 13 /\ active' \in Nat /\ (active' > 0 => served' = 13)
    <3>1. served \in 0 .. 13 /\ active \in Nat
      BY <1>2, ScriptKinds DEF StateTypes
    <3>2. CASE served < 13 /\ active = 0 /\ served' = served + 1 /\ active' = active
      BY <3>1, <3>2
    <3>3. CASE served = 13 /\ active' = active + 1 /\ served' = served
      BY <3>1, <3>3
    <3> QED BY <3>2, <3>3
  <2> QED BY <2>1, <2>2, ScriptKinds DEF StateTypes
<1> HIDE DEF N
<1>6. Consumed' = Consumed /\ Consumed \in Nat /\ Consumed + N = served + active
  <2>1. Consumed = served + active - N /\ Consumed' = served' + active' - (N + 1)
    BY <1>3 DEF Consumed, N
  <2>2. served \in Nat /\ active \in Nat /\ Consumed \in Nat
    BY <1>2 DEF StateTypes, InOrder
  <2>3. Consumed + N = served + active
    BY <2>1, <2>2, <1>3
  <2>4. served' + active' - (N + 1) = served + active - N
    <3>1. CASE served' = served + 1 /\ active' = active
      BY <3>1, <2>2, <1>3
    <3>2. CASE served' = served /\ active' = active + 1
      BY <3>2, <2>2, <1>3
    <3> QED BY <3>1, <3>2
  <2> QED BY <2>1, <2>2, <2>3, <2>4
<1>7. InOrder'
  <2>1. ASSUME NEW k \in 1 .. N + 1
        PROVE  Framed(outstanding'[k], Consumed + k)
    <3>1. CASE k = N + 1
      <4>1. Consumed + k = served + active + 1
        BY <3>1, <1>3, <1>6
      <4> QED BY <4>1, <3>1, <1>3
    <3>2. CASE k # N + 1
      <4>1. k \in 1 .. N
        BY <3>2, <1>3
      <4> QED BY <4>1, <1>2, <1>3 DEF InOrder, N
    <3> QED BY <3>1, <3>2
  <2> QED BY <2>1, <1>3, <1>6 DEF InOrder, Framed
<1>8. ASSUME ~ failed' PROVE AtStep' /\ Reading'
  <2>1. AtStep /\ Reading
    BY <1>8, <1>1 DEF ReadInv
  <2>2. AtStep'
    BY <2>1, <1>1, <1>6, ScriptKinds DEF AtStep, Active
  <2>3. PICK at : /\ Laid(got \o network, outstanding, at)
                  /\ got # <<>> => at[1] = 0
    BY <2>1 DEF Reading
  <2>5. PICK at2 : /\ Laid(got \o ((network \o message) \o padding),
                           Append(outstanding, message), at2)
                   /\ outstanding # <<>> => at2[1] = at[1]
    BY <2>3, <1>9, StreamWrite
  <2>7. got # <<>> => /\ outstanding # <<>> /\ outstanding'[1] = outstanding[1]
                      /\ at2[1] = 0
    <3>1. got # <<>> => outstanding # <<>>
      BY <2>1 DEF Reading
    <3>2. outstanding # <<>> => 1 \in 1 .. N
      BY <1>3, <1>9, EmptySeq DEF N
    <3> QED BY <3>1, <3>2, <2>3, <2>5, <1>3
  <2>8. Laid(got' \o network', outstanding', at2)
    BY <2>5, <1>1
  <2>9. got' # <<>> => /\ outstanding' # <<>>
                       /\ Len(got') < Len(outstanding'[1])
                       /\ step' <= 2 => RightAfter(outstanding'[1], Len(got'), json')
    BY <2>1, <2>7, <1>1, <1>3 DEF Reading
  <2> QED BY <2>2, <2>7, <2>8, <2>9, <1>1 DEF Reading
<1> QED BY <1>5, <1>7, <1>8 DEF ReadInv

LEMMA ServerReadInv ==
  ASSUME ReadInv, Reply \/ Send
  PROVE  ReadInv' /\ Len(outstanding') > Len(outstanding) /\ UNCHANGED failed
PROOF
<1> USE ScriptKinds
<1>1. /\ served \in 0 .. 13 /\ active \in Nat /\ (active > 0 => served = 13)
      /\ outstanding \in Seq(Seq(Byte))
  BY DEF ReadInv, StateTypes
<1>2. ASSUME NEW message \in Seq(Byte), NEW padding, Write(message, padding)
      PROVE  Len(outstanding') > Len(outstanding) /\ UNCHANGED failed
  <2>1. Len(outstanding') = Len(outstanding) + 1 /\ Len(outstanding) \in Nat
    BY <1>1, <1>2, AppendProperties, LenProperties DEF Write
  <2> QED BY <2>1, <1>2 DEF Write
<1>3. \A object \in Objects : object \in Seq(Byte)
  <2>1. \A object \in Objects : object \in Seq(STRING)
    BY TransportAssumption
  <2> QED BY <2>1, SeqMonotonic DEF Byte
<1>4. \A body \in Bodies : IsPacket(Packet(body)) /\ Packet(body) \in Seq(Byte)
  BY PacketShape DEF IsPacket
<1>5. /\ \A padding \in Padding : padding \in Seq(Byte) /\ Nuls(padding)
      /\ <<>> \in Seq(Byte) /\ Nuls(<<>>)
  BY PaddingShape
<1>6. CASE Reply
  <2>1. served < 13 /\ served' = served + 1 /\ active' = active /\ active = 0
    BY <1>1, <1>6 DEF Reply
  <2>2. served + active + 1 = served + 1 /\ served + 1 \in 1 .. 14
    BY <1>1, <2>1
  <2>3. CASE Script[served + 1].expect = "json"
    <3>1. PICK object \in Objects, padding \in Padding : Write(object, padding)
      BY <1>6, <2>3 DEF Reply
    <3>2. Framed(object, served + active + 1)
      <4>1. served + 1 <= 2
        BY <2>2, <2>3
      <4> QED BY <4>1, <2>2, TransportAssumption DEF Framed
    <3> QED BY <3>1, <3>2, <2>1, <1>2, <1>3, <1>5, WriteReadInv
  <2>4. CASE Script[served + 1].expect # "json"
    <3>1. PICK body \in Bodies : Write(Packet(body), <<>>)
      BY <1>6, <2>4 DEF Reply
    <3>2. Framed(Packet(body), served + active + 1)
      <4>1. ~ (served + 1 <= 2)
        BY <2>2, <2>4
      <4> QED BY <4>1, <2>2, <1>4 DEF Framed
    <3> QED BY <3>1, <3>2, <2>1, <1>2, <1>4, <1>5, WriteReadInv
  <2> QED BY <2>3, <2>4
<1>7. CASE Send
  <2>1. /\ served = 13 /\ served' = served /\ active' = active + 1
        /\ \E body \in Bodies : Write(Packet(body), <<>>)
    BY <1>7 DEF Send
  <2>2. PICK body \in Bodies : Write(Packet(body), <<>>)
    BY <2>1
  <2>3. ~ (served + active + 1 <= 2)
    BY <1>1, <2>1
  <2>4. Framed(Packet(body), served + active + 1)
    BY <2>3, <1>4 DEF Framed
  <2> QED BY <2>1, <2>2, <2>4, <1>2, <1>4, <1>5, WriteReadInv
<1> QED BY <1>6, <1>7

-----------------------------------------------------------------------------
(* Reading.  First what is known about the next bytes.                      *)
LEMMA MoveBytes ==
  ASSUME NEW front \in Seq(Byte), NEW back \in Seq(Byte), NEW n \in 1 .. Len(back)
  PROVE  LET bytes == front \o SubSeq(back, 1, n)
             rest == SubSeq(back, n + 1, Len(back))
         IN  /\ bytes \in Seq(Byte) /\ Len(bytes) = Len(front) + n
             /\ rest \in Seq(Byte)
             /\ bytes \o rest = front \o back
             /\ front = <<>> /\ n = 1 => bytes = <<back[1]>>
PROOF
<1> DEFINE first == SubSeq(back, 1, n)
           rest == SubSeq(back, n + 1, Len(back))
<1>1. Len(back) \in Nat /\ \A i \in 1 .. Len(back) : back[i] \in Byte
  BY LenProperties, ElementOfSeq
<1> DEFINE L == Len(back)
<1>2. first \in Seq(Byte) /\ Len(first) = n /\ (n = 1 => first[1] = back[1])
  <2>1. \A i \in 1 .. n : back[i] \in Byte
    BY <1>1
  <2>2. /\ SubSeq(back, 1, n) \in Seq(Byte)
        /\ Len(SubSeq(back, 1, n)) = IF 1 <= n THEN n - 1 + 1 ELSE 0
        /\ \A i \in 1 .. n - 1 + 1 : SubSeq(back, 1, n)[i] = back[1 + i - 1]
    BY <2>1, SubSeqProperties
  <2>3. n \in Nat /\ 1 <= n /\ 1 \in 1 .. n - 1 + 1 /\ n - 1 + 1 = n /\ 1 + 1 - 1 = 1
    BY <1>1
  <2> QED BY <2>2, <2>3
<1>3. rest \in Seq(Byte)
  <2>1. \A i \in n + 1 .. L : back[i] \in Byte
    BY <1>1
  <2> QED BY <2>1, <1>1, SubSeqProperties
<1>4. first \o rest = back
  <2>1. SubSeq(back, 1, n) \o SubSeq(back, n + 1, L) = SubSeq(back, 1, L)
    <3>1. 1 \in 1 .. L + 1 /\ n \in 1 - 1 .. L /\ L \in n .. L
      BY <1>1
    <3> QED BY <3>1, ConcatAdjacentSubSeq
  <2> QED BY <2>1, SubSeqFull
<1> HIDE DEF first, rest
<1>5. front \o first \in Seq(Byte) /\ Len(front \o first) = Len(front) + n
  BY <1>2, ConcatProperties
<1>6. (front \o first) \o rest = front \o back
  BY <1>2, <1>3, <1>4, Reassociate
<1>7. ASSUME front = <<>>, n = 1 PROVE front \o first = <<back[1]>>
  <2>1. <<>> \o first = first
    BY <1>2, ConcatEmptySeq
  <2>2. first = <<back[1]>>
    BY <1>2, <1>7
  <2> QED BY <1>7, <2>1, <2>2
<1> QED BY <1>3, <1>5, <1>6, <1>7 DEF first, rest

LEMMA MoveByte ==
  ASSUME NEW front \in Seq(Byte), NEW back \in Seq(Byte), back # <<>>
  PROVE  LET bytes == Append(front, Head(back))
         IN  /\ bytes \in Seq(Byte) /\ Len(bytes) = Len(front) + 1 /\ bytes # <<>>
             /\ bytes[Len(front) + 1] = Head(back)
             /\ Tail(back) \in Seq(Byte)
             /\ bytes \o Tail(back) = front \o back
             /\ Head(back) = back[1]
PROOF
<1>1. Head(back) \in Byte /\ Head(back) = back[1] /\ Tail(back) \in Seq(Byte)
  BY HeadTailProperties
<1>2. Append(front, Head(back)) = front \o <<Head(back)>> /\ <<Head(back)>> \in Seq(Byte)
  BY <1>1, AppendIsConcat
<1>3. <<Head(back)>> \o Tail(back) = back
  OBVIOUS
<1>4. (front \o <<Head(back)>>) \o Tail(back) = front \o back
  BY <1>1, <1>2, <1>3, Reassociate
<1> QED BY <1>1, <1>2, <1>4, AppendProperties

LEMMA Peek ==
  ASSUME NEW bytes \in Seq(Byte), bytes # <<>>, NEW messages \in Seq(Seq(Byte)),
         NEW at, Laid(bytes, messages, at),
         messages # <<>> => Len(messages[1]) > 0
  PROVE  \/ at[1] # 0 /\ bytes[1] = "0"
         \/ at[1] = 0 /\ messages # <<>> /\ bytes[1] = messages[1][1]
PROOF
<1> DEFINE N == Len(messages)
           L == Len(bytes)
<1>1. N \in Nat /\ L \in Nat /\ L > 0 /\ (messages # <<>> => N > 0)
  BY LenProperties, EmptySeq
<1>2. at \in [1 .. N + 1 -> 0 .. L] /\ at[N + 1] = L
      /\ \A i \in 1 .. at[1] : bytes[i] = "0"
  BY DEF Laid
<1>3. \A k \in 1 .. N : \A i \in 1 .. Len(messages[k]) : bytes[at[k] + i] = messages[k][i]
  BY DEF Laid
<1>4. at[1] \in 0 .. L
  <2>1. 1 \in 1 .. N + 1
    BY <1>1
  <2> QED BY <1>2, <2>1
<1>5. messages = <<>> => N = 0
  BY EmptySeq
<1> HIDE DEF N, L
<1>6. CASE at[1] # 0
  <2>1. 1 \in 1 .. at[1]
    BY <1>4, <1>6, <1>1
  <2> QED BY <2>1, <1>2, <1>6
<1>7. CASE at[1] = 0
  <2>1. N # 0
    BY <1>1, <1>2, <1>7
  <2>2. messages # <<>> /\ 1 \in 1 .. N
    BY <2>1, <1>1, <1>5
  <2>3. 1 \in 1 .. Len(messages[1])
    <3>1. Len(messages[1]) > 0 /\ Len(messages[1]) \in Nat
      BY <2>2, ElementOfSeq, LenProperties DEF N
    <3> QED BY <3>1
  <2>4. bytes[0 + 1] = messages[1][1] /\ 0 + 1 = 1
    BY <1>3, <1>7, <2>2, <2>3
  <2> QED BY <2>2, <2>4, <1>7
<1> QED BY <1>6, <1>7

(* In the state of the invariant: either filler comes next, or the client   *)
(* is about to read on in the first message that is left.                   *)
InMessage(at) ==
  /\ outstanding # <<>>
  /\ Framed(outstanding[1], step)
  /\ Laid(got \o network, outstanding, at) /\ at[1] = 0
  /\ Len(got) < Len(outstanding[1])
  /\ step <= 2 => RightAfter(outstanding[1], Len(got), json)
  /\ got = <<>> => network[1] = outstanding[1][1]

LEMMA FramedShape ==
  ASSUME NEW message, NEW n, Framed(message, n)
  PROVE  /\ message \in Seq(Byte) /\ Len(message) > 0
         /\ n <= 2 => message[1] = "{" /\ RightAfter(message, 0, JsonStart)
         /\ ~ (n <= 2) => message[1] = "v"
PROOF
<1>1. CASE n <= 2
  <2>1. /\ message \in Seq(STRING) /\ Len(message) > 0 /\ message[1] = "{"
        /\ RightAfter(message, 0, JsonStart)
    BY <1>1, RightAtStart DEF Framed
  <2> QED BY <1>1, <2>1, SeqMonotonic DEF Byte
<1>2. CASE ~ (n <= 2)
  <2>1. message \in Seq(Byte) /\ 5 <= Len(message) /\ message[1] = "v"
    BY <1>2 DEF Framed, IsPacket
  <2>2. Len(message) \in Nat
    BY <2>1, LenProperties
  <2> QED BY <1>2, <2>1, <2>2
<1> QED BY <1>1, <1>2

LEMMA FirstFramed ==
  ASSUME ReadInv, ~ failed, outstanding # <<>>
  PROVE  Framed(outstanding[1], step)
PROOF
<1>1. AtStep /\ InOrder /\ outstanding \in Seq(Seq(Byte))
  BY DEF ReadInv, StateTypes
<1>2. 1 \in 1 .. Len(outstanding)
  <2>1. Len(outstanding) \in Nat \ {0}
    BY <1>1, EmptySeq
  <2> QED BY <2>1
<1>3. Framed(outstanding[1], Consumed + 1) /\ Consumed \in Nat
  BY <1>1, <1>2 DEF InOrder
<1>4. Consumed + 1 = step \/ (~ (Consumed + 1 <= 2) /\ ~ (step <= 2))
  BY <1>1, <1>3, ScriptKinds DEF AtStep
<1> QED BY <1>3, <1>4 DEF Framed

LEMMA Amid ==
  ASSUME ReadInv, ~ failed, got # <<>>
  PROVE  \E at : InMessage(at)
BY FirstFramed DEF ReadInv, Reading, InMessage

LEMMA AtMessage ==
  ASSUME ReadInv, ~ failed, network # <<>>
  PROVE  \/ /\ got = <<>> /\ network[1] = "0"
            /\ \E at : Laid(Tail(network), outstanding, at)
         \/ \E at : InMessage(at)
PROOF
<1>1. network \in Seq(Byte) /\ got \in Seq(Byte) /\ outstanding \in Seq(Seq(Byte))
      /\ (got = <<>> => json = JsonStart)
  BY DEF ReadInv, StateTypes
<1>2. Reading
  BY DEF ReadInv
<1>3. PICK at : Laid(got \o network, outstanding, at) /\ (got # <<>> => at[1] = 0)
  BY <1>2 DEF Reading
<1>4. outstanding # <<>> => Framed(outstanding[1], step)
  BY FirstFramed
<1>5. CASE got # <<>>
  BY <1>5, Amid
<1>6. CASE got = <<>>
  <2>1. got \o network = network /\ Len(got) = 0
    BY <1>1, <1>6, ConcatEmptySeq
  <2>2. Laid(network, outstanding, at)
    BY <1>3, <2>1
  <2>3. outstanding # <<>> => Len(outstanding[1]) > 0
    BY <1>4, FramedShape
  <2>4. \/ at[1] # 0 /\ network[1] = "0"
        \/ at[1] = 0 /\ outstanding # <<>> /\ network[1] = outstanding[1][1]
    BY <1>1, <2>2, <2>3, Peek
  <2>5. CASE at[1] # 0
    <3>1. \E at2 : Laid(Tail(network), outstanding, at2)
      BY <1>1, <2>2, <2>5, LaidTail
    <3> QED BY <1>6, <2>4, <2>5, <3>1
  <2>6. CASE at[1] = 0
    <3>1. /\ Framed(outstanding[1], step) /\ Len(outstanding[1]) > 0
          /\ step <= 2 => RightAfter(outstanding[1], 0, JsonStart)
      BY <1>4, <2>4, <2>6, FramedShape
    <3> QED BY <1>1, <1>3, <1>6, <2>1, <2>4, <2>6, <3>1 DEF InMessage
  <2> QED BY <2>5, <2>6
<1> QED BY <1>5, <1>6

(* The three ways a read can go, each from the invariant to itself.         *)
LEMMA SkipReadInv ==
  ASSUME ReadInv, ~ failed, NEW at, Laid(Tail(network), outstanding, at),
         network # <<>>, got = <<>>, Continue(<<>>, json),
         network' = Tail(network), UNCHANGED serverVars
  PROVE  ReadInv'
PROOF
<1>1. /\ got' = <<>> /\ UNCHANGED <<json, outstanding, step, failed, served, active>>
  BY DEF Continue, serverVars
<1>2. StateTypes /\ InOrder /\ AtStep
  BY DEF ReadInv
<1>3. network' \in Seq(Byte)
  BY <1>2, HeadTailProperties DEF StateTypes
<1>4. StateTypes'
  BY <1>1, <1>2, <1>3 DEF StateTypes
<1>5. InOrder' /\ AtStep'
  BY <1>1, <1>2 DEF InOrder, AtStep, Consumed, Framed
<1>6. Laid(got' \o network', outstanding', at)
  <2>1. <<>> \o network' = network'
    BY <1>3, ConcatEmptySeq
  <2> QED BY <2>1, <1>1
<1> QED BY <1>1, <1>4, <1>5, <1>6 DEF ReadInv, Reading

LEMMA ContinueReadInv ==
  ASSUME ReadInv, ~ failed, NEW at, InMessage(at),
         NEW bytes \in Seq(Byte), bytes # <<>>, NEW rest \in Seq(Byte),
         bytes \o rest = got \o network,
         Len(bytes) < Len(outstanding[1]),
         NEW state \in JsonState, step > 2 => state = JsonStart,
         step <= 2 => RightAfter(outstanding[1], Len(bytes), state),
         Continue(bytes, state), network' = rest, UNCHANGED serverVars
  PROVE  ReadInv'
PROOF
<1>1. /\ got' = bytes /\ json' = state
      /\ UNCHANGED <<outstanding, step, failed, served, active>>
  BY DEF Continue, serverVars
<1>2. StateTypes /\ InOrder /\ AtStep
  BY DEF ReadInv
<1>3. StateTypes'
  BY <1>1, <1>2 DEF StateTypes
<1>4. InOrder' /\ AtStep'
  BY <1>1, <1>2 DEF InOrder, AtStep, Consumed, Framed
<1>5. Laid(got' \o network', outstanding', at) /\ at[1] = 0
  BY <1>1 DEF InMessage
<1>6. Reading'
  BY <1>1, <1>5 DEF Reading, InMessage
<1> QED BY <1>3, <1>4, <1>6 DEF ReadInv

LEMMA CompleteReadInv ==
  ASSUME ReadInv, ~ failed, outstanding # <<>>,
         NEW bytes, bytes = outstanding[1],
         NEW rest \in Seq(Byte), NEW at, Laid(rest, Tail(outstanding), at),
         Complete(bytes), network' = rest, UNCHANGED serverVars
  PROVE  /\ ReadInv'
         /\ last' = Head(outstanding) /\ Len(outstanding') < Len(outstanding)
PROOF
<1>1. /\ got' = <<>> /\ json' = JsonStart /\ last' = bytes
      /\ outstanding' = Tail(outstanding) /\ UNCHANGED <<served, active>>
      /\ \/ step < Active /\ step' = step + 1 /\ UNCHANGED failed
         \/ step = Active /\ UNCHANGED <<step, failed>>
         \/ failed' = TRUE /\ UNCHANGED step
  BY DEF Complete, serverVars
<1>2. StateTypes /\ InOrder /\ AtStep
  BY DEF ReadInv
<1> DEFINE N == Len(outstanding)
<1>3. /\ N \in Nat /\ N > 0 /\ Len(outstanding') = N - 1
      /\ outstanding' \in Seq(Seq(Byte))
      /\ \A k \in 1 .. N - 1 : outstanding'[k] = outstanding[k + 1]
  <2>1. outstanding \in Seq(Seq(Byte))
    BY <1>2 DEF StateTypes
  <2>2. Len(outstanding) \in Nat \ {0}
    BY <2>1, EmptySeq
  <2> QED BY <1>1, <2>1, <2>2, HeadTailProperties
<1>4. step \in 1 .. 14 /\ step' \in 1 .. 14 /\ failed' \in BOOLEAN
  <2>1. step \in 1 .. 14 /\ failed \in BOOLEAN
    BY <1>2, ScriptKinds DEF StateTypes
  <2>2. CASE step < 14 /\ step' = step + 1 /\ failed' = failed
    BY <2>1, <2>2
  <2>3. CASE step' = step /\ (failed' = failed \/ failed' = TRUE)
    BY <2>1, <2>3
  <2> QED BY <2>2, <2>3, <1>1, ScriptKinds
<1>5. StateTypes'
  <2>1. JsonStart \in JsonState /\ <<>> \in Seq(Byte)
    BY EmptySeq DEF JsonStart, JsonState
  <2> QED BY <2>1, <1>1, <1>2, <1>3, <1>4, ScriptKinds DEF StateTypes
<1> HIDE DEF N
<1>6. Consumed' = Consumed + 1 /\ Consumed \in Nat
  <2>1. Consumed = served + active - N /\ Consumed' = served + active - (N - 1)
    BY <1>1, <1>3 DEF Consumed, N
  <2>2. served \in Nat /\ active \in Nat /\ Consumed \in Nat
    BY <1>2, ScriptKinds DEF StateTypes, InOrder
  <2> QED BY <2>1, <2>2, <1>3
<1>7. InOrder'
  <2>1. ASSUME NEW k \in 1 .. N - 1
        PROVE  Framed(outstanding'[k], Consumed + 1 + k)
    <3>1. k + 1 \in 1 .. N /\ Consumed + (k + 1) = Consumed + 1 + k
      BY <1>3, <1>6
    <3>2. Framed(outstanding[k + 1], Consumed + (k + 1))
      BY <3>1, <1>2 DEF InOrder, N
    <3> QED BY <3>1, <3>2, <1>3
  <2>2. Consumed + 1 \in Nat
    BY <1>6
  <2> QED BY <2>1, <2>2, <1>3, <1>6 DEF InOrder, Framed
<1>8. ASSUME ~ failed' PROVE AtStep'
  <2>1. step = IF Consumed + 1 < 14 THEN Consumed + 1 ELSE 14
    BY <1>2, ScriptKinds DEF AtStep
  <2>2. \/ step < 14 /\ step' = step + 1
        \/ step = 14 /\ step' = step
    BY <1>1, <1>8, ScriptKinds
  <2>3. step' = IF Consumed + 1 + 1 < 14 THEN Consumed + 1 + 1 ELSE 14
    BY <2>1, <2>2, <1>6
  <2> QED BY <2>3, <1>6, ScriptKinds DEF AtStep, Active
<1>9. Reading'
  <2>1. Laid(got' \o network', outstanding', at)
    <3>1. <<>> \o rest = rest
      BY ConcatEmptySeq
    <3> QED BY <3>1, <1>1
  <2> QED BY <1>1, <2>1 DEF Reading
<1>10. last' = Head(outstanding) /\ Len(outstanding') < Len(outstanding)
  <2>1. Head(outstanding) = outstanding[1]
    BY <1>2, HeadTailProperties DEF StateTypes
  <2>2. N - 1 < N
    BY <1>3
  <2> QED BY <2>1, <2>2, <1>1, <1>3 DEF N
<1> QED BY <1>5, <1>7, <1>8, <1>9, <1>10 DEF ReadInv

(* What a step of a reader does to the messages.                            *)
Reads ==
  \/ UNCHANGED <<outstanding, failed>>
  \/ last' = Head(outstanding) /\ Len(outstanding') < Len(outstanding)

LEMMA ReadJsonInv ==
  ASSUME ReadInv, ~ failed, ReadJson, UNCHANGED serverVars
  PROVE  ReadInv' /\ Reads
PROOF
<1> DEFINE b == Head(network)
           bytes == Append(got, b)
           state == After(json, b)
           rest == Tail(network)
<1>1. /\ network # <<>> /\ ReadJsonByte(b) /\ network' = rest
      /\ Script[step].expect = "json"
  BY DEF ReadJson
<1>2. network \in Seq(Byte) /\ got \in Seq(Byte) /\ outstanding \in Seq(Seq(Byte))
      /\ step \in 1 .. 14
  BY ScriptKinds DEF ReadInv, StateTypes
<1>3. step <= 2
  BY <1>1, <1>2, ScriptKinds
<1>4. /\ bytes \in Seq(Byte) /\ Len(bytes) = Len(got) + 1 /\ bytes # <<>>
      /\ bytes[Len(got) + 1] = b
      /\ rest \in Seq(Byte) /\ bytes \o rest = got \o network /\ b = network[1]
  BY <1>1, <1>2, MoveByte
<1>5. \/ got = <<>> /\ b \in Filler /\ Continue(<<>>, json)
      \/ got = <<>> /\ b \notin Filler \cup {"{"} /\ Fail
      \/ state.depth = 0 /\ Complete(bytes) /\ ~ (got = <<>> /\ b \in Filler)
      \/ state.depth # 0 /\ Continue(bytes, state) /\ ~ (got = <<>> /\ b \in Filler)
  BY <1>1 DEF ReadJsonByte
<1>6. "0" \in Filler /\ "{" \notin Filler
  BY DEF Filler
<1> HIDE DEF b, bytes, state, rest
<1>7. ASSUME got = <<>>, network[1] = "0",
             NEW at, Laid(Tail(network), outstanding, at)
      PROVE  ReadInv' /\ Reads
  <2>1. Continue(<<>>, json)
    BY <1>4, <1>5, <1>6, <1>7
  <2>2. ReadInv'
    BY <1>1, <1>7, <2>1, SkipReadInv DEF rest
  <2> QED BY <2>1, <2>2 DEF Continue, Reads
<1>8. ASSUME NEW at, InMessage(at)
      PROVE  ReadInv' /\ Reads
  <2> DEFINE m == outstanding[1]
             L == Len(got)
  <2>1. /\ outstanding # <<>> /\ m \in Objects /\ Laid(bytes \o rest, outstanding, at)
        /\ at[1] = 0 /\ L < Len(m) /\ RightAfter(m, L, json)
        /\ got = <<>> => b = "{"
    <3>1. outstanding # <<>> /\ m \in Objects
      BY <1>3, <1>8 DEF InMessage, Framed
    <3>2. m[1] = "{"
      BY <3>1, RightAtStart
    <3> QED BY <3>1, <3>2, <1>3, <1>4, <1>8 DEF InMessage
  <2>2. L \in Nat /\ Len(m) \in Nat
    BY <1>2, <2>1, RightAtStart, LenProperties
  <2>3. L + 1 <= Len(m) /\ L \in 0 .. Len(m) - 1
    <3> DEFINE k == Len(m)
    <3>1. L \in Nat /\ k \in Nat /\ L < k
      BY <2>1, <2>2
    <3> HIDE DEF L, k
    <3>2. L + 1 <= k /\ L \in 0 .. k - 1
      BY <3>1
    <3> QED BY <3>2 DEF k
  <2>4. /\ \A i \in 1 .. Len(bytes) : bytes[i] = m[i]
        /\ Len(bytes) = Len(m) => bytes = m /\ \E at2 : Laid(rest, Tail(outstanding), at2)
    <3>1. Len(bytes) <= Len(outstanding[1])
      BY <1>4, <2>3
    <3> QED BY <1>2, <1>4, <2>1, <3>1, LaidNext
  <2>5. b = m[L + 1]
    <3>1. L + 1 \in 1 .. Len(bytes)
      BY <1>4, <2>2
    <3> QED BY <3>1, <1>4, <2>4
  <2>6. /\ RightAfter(m, L + 1, state) /\ state \in JsonState
        /\ state.depth = 0 <=> L + 1 = Len(m)
    BY <2>1, <2>3, <2>5, RightStep DEF state
  <2>7. \/ state.depth = 0 /\ Complete(bytes)
        \/ state.depth # 0 /\ Continue(bytes, state)
    BY <1>5, <1>6, <2>1
  <2>8. CASE state.depth = 0 /\ Complete(bytes)
    <3>1. bytes = m /\ \E at2 : Laid(rest, Tail(outstanding), at2)
      BY <1>4, <2>4, <2>6, <2>8
    <3>2. PICK at2 : Laid(rest, Tail(outstanding), at2)
      BY <3>1
    <3> QED BY <1>1, <1>4, <2>1, <2>8, <3>1, <3>2, CompleteReadInv DEF Reads
  <2>9. CASE state.depth # 0 /\ Continue(bytes, state)
    <3>1. Len(bytes) < Len(outstanding[1])
      BY <1>4, <2>2, <2>3, <2>6, <2>9
    <3>2. RightAfter(outstanding[1], Len(bytes), state) /\ ~ (step > 2)
      BY <1>2, <1>3, <1>4, <2>6
    <3>3. ReadInv'
      BY <1>1, <1>4, <1>8, <2>6, <2>9, <3>1, <3>2, ContinueReadInv
    <3> QED BY <3>3, <2>9 DEF Reads, Continue
  <2> QED BY <2>7, <2>8, <2>9
<1> QED BY <1>1, <1>7, <1>8, AtMessage

LEMMA MinOfTwo ==
  ASSUME NEW a \in Nat, NEW b \in Nat
  PROVE  Min({a, b}) \in Nat /\ Min({a, b}) <= a /\ Min({a, b}) <= b
PROOF
<1>1. \E x \in {a, b} : \A y \in {a, b} : x <= y
  <2>1. CASE a <= b
    BY <2>1
  <2>2. CASE b <= a
    BY <2>2
  <2> QED BY <2>1, <2>2
<1>2. Min({a, b}) \in {a, b} /\ \A y \in {a, b} : Min({a, b}) <= y
  BY <1>1 DEF Min
<1> QED BY <1>2

(* read_exact never asks for more than the packet has left.                 *)
LEMMA WantedBound ==
  ASSUME NEW m, IsPacket(m), got \in Seq(Byte), Len(got) < Len(m),
         \A i \in 1 .. Len(got) : got[i] = m[i]
  PROVE  Wanted \in Nat /\ Len(got) + Wanted <= Len(m)
         /\ (got = <<>> => Wanted = 1)
         /\ (got # <<>> /\ Len(got) < 4 => Wanted = 4 - Len(got))
PROOF
<1> DEFINE L == Len(got)
           k == Len(m)
<1>1. L \in Nat /\ k \in Nat /\ 5 <= k /\ L < k
  <2>1. m \in Seq(Byte) /\ 5 <= Len(m)
    BY DEF IsPacket
  <2> QED BY <2>1, LenProperties
<1>2. got = <<>> => L = 0
  BY EmptySeq
<1>3. L >= 4 => TotalLen(got) = k
  <2>1. L >= 4 => 4 \in 1 .. L
    BY <1>1
  <2>2. L >= 4 => got[4] = m[4]
    BY <2>1
  <2> QED BY <2>2, TotalLenOfPacket
<1>4. Wanted = IF got = <<>> THEN 1 ELSE IF L < 4 THEN 4 - L ELSE TotalLen(got) - L
  BY DEF Wanted
<1> HIDE DEF L, k
<1>5. /\ Wanted \in Nat /\ L + Wanted <= k /\ (got = <<>> => Wanted = 1)
      /\ (got # <<>> /\ L < 4 => Wanted = 4 - L)
  <2>1. CASE got = <<>>
    BY <2>1, <1>1, <1>2, <1>4
  <2>2. CASE got # <<>> /\ L < 4
    BY <2>2, <1>1, <1>4
  <2>3. CASE got # <<>> /\ L >= 4
    BY <2>3, <1>1, <1>3, <1>4
  <2> QED BY <2>1, <2>2, <2>3, <1>1
<1> QED BY <1>5 DEF L, k

LEMMA AtPacket ==
  ASSUME ReadInv, step > 2, NEW at, InMessage(at)
  PROVE  /\ IsPacket(outstanding[1])
         /\ Wanted \in Nat /\ Len(got) + Wanted <= Len(outstanding[1])
PROOF
<1> DEFINE m == outstanding[1]
           k == Len(m)
           L == Len(got)
<1>1. network \in Seq(Byte) /\ got \in Seq(Byte) /\ outstanding \in Seq(Seq(Byte))
      /\ step \in 1 .. 14
  BY ScriptKinds DEF ReadInv, StateTypes
<1>2. outstanding # <<>> /\ IsPacket(m) /\ at[1] = 0 /\ L < k
  <2>1. ~ (step <= 2)
    BY <1>1
  <2> QED BY <2>1 DEF InMessage, Framed
<1>3. L \in Nat /\ k \in Nat
  <2>1. m \in Seq(Byte)
    BY <1>2 DEF IsPacket
  <2> QED BY <1>1, <2>1, LenProperties
<1>4. Len(got) <= Len(outstanding[1])
  <2>1. L <= k
    <3> HIDE DEF L, k
    <3> QED BY <1>2, <1>3
  <2> QED BY <2>1
<1>5. \A i \in 1 .. Len(got) : got[i] = m[i]
  BY <1>1, <1>2, <1>4, LaidNext DEF InMessage
<1> QED BY <1>1, <1>2, <1>5, WantedBound

LEMMA ReadTpktInv ==
  ASSUME ReadInv, ~ failed, ReadTpkt, UNCHANGED serverVars
  PROVE  ReadInv' /\ Reads
PROOF
<1>1. PICK n \in 1 .. Min({Wanted, Len(network)}) :
        /\ network' = SubSeq(network, n + 1, Len(network))
        /\ \/ got \o SubSeq(network, 1, n) = <<"0">> /\ Continue(<<>>, json)
           \/ /\ Len(got \o SubSeq(network, 1, n)) = 4
              /\ (got \o SubSeq(network, 1, n))[1] # "v"
              /\ Fail
           \/ /\ Len(got \o SubSeq(network, 1, n)) > 4
              /\ Len(got \o SubSeq(network, 1, n)) = TotalLen(got \o SubSeq(network, 1, n))
              /\ (got \o SubSeq(network, 1, n))[5] = "h"
              /\ Complete(got \o SubSeq(network, 1, n))
           \/ /\ Len(got \o SubSeq(network, 1, n)) > 4
              /\ Len(got \o SubSeq(network, 1, n)) = TotalLen(got \o SubSeq(network, 1, n))
              /\ (got \o SubSeq(network, 1, n))[5] # "h"
              /\ Fail
           \/ /\ got \o SubSeq(network, 1, n) # <<"0">>
              /\ ~ (/\ Len(got \o SubSeq(network, 1, n)) > 4
                    /\ Len(got \o SubSeq(network, 1, n))
                         = TotalLen(got \o SubSeq(network, 1, n)))
              /\ Continue(got \o SubSeq(network, 1, n), json)
  BY DEF ReadTpkt
<1> DEFINE bytes == got \o SubSeq(network, 1, n)
           rest == SubSeq(network, n + 1, Len(network))
           L == Len(got)
<1>2. network \in Seq(Byte) /\ got \in Seq(Byte) /\ outstanding \in Seq(Seq(Byte))
      /\ step \in 1 .. 14 /\ json \in JsonState /\ (step > 2 => json = JsonStart)
  BY ScriptKinds DEF ReadInv, StateTypes
<1>3. step > 2 /\ ~ (step <= 2)
  <2>1. Script[step].expect = "tpkt"
    BY DEF ReadTpkt
  <2> QED BY <2>1, <1>2, ScriptKinds
<1>4. L \in Nat /\ Len(network) \in Nat
  BY <1>2, LenProperties
<1>5. \/ bytes = <<"0">> /\ Continue(<<>>, json)
      \/ Len(bytes) = 4 /\ bytes[1] # "v" /\ Fail
      \/ Len(bytes) > 4 /\ Len(bytes) = TotalLen(bytes) /\ bytes[5] = "h" /\ Complete(bytes)
      \/ Len(bytes) > 4 /\ Len(bytes) = TotalLen(bytes) /\ bytes[5] # "h" /\ Fail
      \/ /\ bytes # <<"0">> /\ ~ (Len(bytes) > 4 /\ Len(bytes) = TotalLen(bytes))
         /\ Continue(bytes, json)
  BY <1>1
<1>6. ASSUME Wanted \in Nat
      PROVE  /\ n \in 1 .. Len(network) /\ n <= Wanted /\ network # <<>>
             /\ bytes \in Seq(Byte) /\ Len(bytes) = L + n
             /\ rest \in Seq(Byte) /\ bytes \o rest = got \o network
             /\ (got = <<>> /\ n = 1 => bytes = <<network[1]>>)
  <2>1. n \in 1 .. Len(network) /\ n <= Wanted
    <3> DEFINE k == Len(network)
               w == Wanted
               min == Min({w, k})
    <3>1. k \in Nat /\ w \in Nat
      BY <1>4, <1>6
    <3> HIDE DEF k, w
    <3>2. min \in Nat /\ min <= w /\ min <= k
      BY <3>1, MinOfTwo
    <3>3. n \in 1 .. min
      BY DEF k, w
    <3> HIDE DEF min
    <3>4. n \in 1 .. k /\ n <= w
      BY <3>1, <3>2, <3>3
    <3> QED BY <3>4 DEF k, w
  <2>2. network # <<>>
    BY <2>1, EmptySeq
  <2> QED BY <2>1, <2>2, <1>2, MoveBytes
<1> HIDE DEF bytes, rest, L
<1>7. ASSUME got = <<>>, network[1] = "0", network # <<>>,
             NEW at, Laid(Tail(network), outstanding, at)
      PROVE  ReadInv' /\ Reads
  <2>1. Wanted = 1 /\ 1 \in Nat
    BY <1>7 DEF Wanted
  <2>2. n = 1 /\ bytes = <<"0">>
    <3>1. n \in 1 .. Len(network) /\ n <= 1
      BY <1>6, <2>1
    <3> QED BY <3>1, <1>4, <1>6, <1>7, <2>1
  <2>3. rest = Tail(network)
    <3>1. rest = SubSeq(network, 2, Len(network))
      BY <2>2 DEF rest
    <3> QED BY <3>1, <1>2, <1>7, TailIsSubSeq
  <2>4. Continue(<<>>, json)
    <3>1. Len(bytes) = 1
      BY <2>2
    <3> QED BY <3>1, <2>2, <1>5
  <2>5. ReadInv'
    BY <1>1, <1>7, <2>3, <2>4, SkipReadInv DEF rest
  <2> QED BY <2>4, <2>5 DEF Continue, Reads
<1>8. ASSUME NEW at, InMessage(at)
      PROVE  ReadInv' /\ Reads
  <2> DEFINE m == outstanding[1]
             k == Len(m)
  <2>1. outstanding # <<>> /\ IsPacket(m) /\ at[1] = 0 /\ L < k
    BY <1>3, <1>8, AtPacket DEF InMessage, L
  <2>2. k \in Nat /\ 5 <= k /\ k <= 9 /\ m \in Seq(Byte) /\ m[1] = "v" /\ m[5] = "h"
    <3>1. m \in Seq(Byte) /\ 5 <= Len(m) /\ Len(m) <= 9 /\ m[1] = "v" /\ m[5] = "h"
      BY <2>1 DEF IsPacket
    <3> QED BY <3>1, LenProperties
  <2>4. Wanted \in Nat /\ L + Wanted <= k
    BY <1>3, <1>8, AtPacket DEF L
  <2>5. /\ n \in 1 .. Len(network) /\ n <= Wanted
        /\ bytes \in Seq(Byte) /\ Len(bytes) = L + n
        /\ rest \in Seq(Byte) /\ bytes \o rest = got \o network
        /\ (got = <<>> /\ n = 1 => bytes = <<network[1]>>)
    BY <1>6, <2>4
  <2>6. n \in Nat /\ 1 <= n /\ L + n <= k
    <3> HIDE DEF k
    <3> QED BY <1>4, <2>2, <2>4, <2>5
  <2>7. /\ \A i \in 1 .. Len(bytes) : bytes[i] = m[i]
        /\ Len(bytes) = k => bytes = m /\ \E at2 : Laid(rest, Tail(outstanding), at2)
    <3>1. Len(bytes) <= Len(outstanding[1])
      BY <2>5, <2>6
    <3>2. Laid(bytes \o rest, outstanding, at)
      BY <1>8, <2>5 DEF InMessage
    <3> QED BY <1>2, <2>1, <2>5, <3>1, <3>2, LaidNext
  <2> HIDE DEF k
  <2>8. bytes[1] = "v" /\ bytes # <<"0">> /\ bytes # <<>>
    <3>1. 1 \in 1 .. Len(bytes)
      BY <2>5, <2>6, <1>4
    <3>2. bytes[1] = "v"
      BY <3>1, <2>2, <2>7
    <3> QED BY <3>1, <3>2
  <2>9. Len(bytes) > 4 => TotalLen(bytes) = k /\ bytes[5] = "h"
    <3>1. SUFFICES ASSUME Len(bytes) > 4 PROVE TotalLen(bytes) = k /\ bytes[5] = "h"
      OBVIOUS
    <3>2. 4 \in 1 .. Len(bytes) /\ 5 \in 1 .. Len(bytes)
      <4> DEFINE l == Len(bytes)
      <4>1. l \in Nat /\ l > 4
        BY <2>5, <3>1, LenProperties
      <4> HIDE DEF l
      <4>2. 4 \in 1 .. l /\ 5 \in 1 .. l
        BY <4>1
      <4> QED BY <4>2 DEF l
    <3>3. bytes[4] = m[4] /\ bytes[5] = "h"
      BY <3>2, <2>2, <2>7
    <3> QED BY <3>3, <2>1, TotalLenOfPacket DEF k
  <2>10. \/ Len(bytes) = k /\ Complete(bytes)
         \/ Len(bytes) # k /\ Continue(bytes, json)
    <3>1. Len(bytes) = k => Len(bytes) > 4
      BY <2>2
    <3> QED BY <3>1, <1>5, <2>8, <2>9
  <2>11. CASE Len(bytes) = k /\ Complete(bytes)
    <3>1. PICK at2 : Laid(rest, Tail(outstanding), at2)
      BY <2>7, <2>11
    <3> QED BY <1>1, <2>1, <2>5, <2>7, <2>11, <3>1, CompleteReadInv DEF Reads, rest
  <2>12. CASE Len(bytes) # k /\ Continue(bytes, json)
    <3>1. Len(bytes) < Len(outstanding[1])
      <4>1. L + n < k
        BY <2>2, <2>5, <2>6, <2>12, <1>4
      <4> QED BY <4>1, <2>5 DEF k
    <3>2. ReadInv'
      BY <1>1, <1>2, <1>3, <1>8, <2>5, <2>8, <2>12, <3>1, ContinueReadInv DEF rest
    <3> QED BY <3>2, <2>12 DEF Reads, Continue
  <2> QED BY <2>10, <2>11, <2>12
<1>9. network # <<>>
  <2>1. Wanted \in Nat
    <3>1. CASE got = <<>>
      BY <3>1 DEF Wanted
    <3>2. CASE got # <<>>
      BY <1>3, <3>2, Amid, AtPacket
    <3> QED BY <3>1, <3>2
  <2> QED BY <2>1, <1>6
<1> QED BY <1>7, <1>8, <1>9, AtMessage

LEMMA ReadStepInv ==
  ASSUME ReadInv, [Next]_vars
  PROVE  /\ ReadInv'
         /\ Len(outstanding') < Len(outstanding) => last' = Head(outstanding)
         /\ failed' # failed => Len(outstanding') < Len(outstanding)
PROOF
<1>1. Len(outstanding) \in Nat
  BY LenProperties DEF ReadInv, StateTypes
<1> DEFINE n == Len(outstanding)
           n2 == Len(outstanding')
<1>2. CASE Reply \/ Send
  <2>1. ReadInv' /\ n2 > n /\ failed' = failed
    BY <1>2, ServerReadInv
  <2>2. n2 \in Nat
    BY <2>1, LenProperties DEF ReadInv, StateTypes
  <2> HIDE DEF n, n2
  <2>3. ~ (n2 < n)
    BY <1>1, <2>1, <2>2 DEF n
  <2> QED BY <2>1, <2>3 DEF n, n2
<1>3. CASE Read
  <2>1. ~ failed /\ (ReadJson \/ ReadTpkt) /\ UNCHANGED serverVars
    BY <1>3 DEF Read
  <2>2. ReadInv' /\ Reads
    BY <2>1, ReadJsonInv, ReadTpktInv
  <2>3. CASE UNCHANGED <<outstanding, failed>>
    <3>1. n2 = n /\ failed' = failed
      BY <2>3
    <3>2. ~ (n < n)
      BY <1>1
    <3> QED BY <2>2, <3>1, <3>2
  <2>4. CASE last' = Head(outstanding) /\ Len(outstanding') < Len(outstanding)
    BY <2>2, <2>4
  <2> QED BY <2>2, <2>3, <2>4 DEF Reads
<1>4. CASE Timeout \/ Type \/ UNCHANGED vars
  <2>1. UNCHANGED <<network, outstanding, served, active, step, failed, got, json>>
    BY <1>4 DEF Timeout, Type, vars, serverVars, readVars
  <2>2. ReadInv'
    BY <2>1 DEF ReadInv, StateTypes, InOrder, Consumed, Framed, AtStep, Reading
  <2>3. ~ (n < n)
    BY <1>1
  <2> QED BY <2>1, <2>2, <2>3
<1> QED BY <1>2, <1>3, <1>4 DEF Next

(* The readers never lose the frame: see ReadInv.                           *)
THEOREM StaysInFrame == Spec => []ReadInv
PROOF
<1>1. Init => ReadInv
  BY InitReadInv
<1>2. ReadInv /\ [Next]_vars => ReadInv'
  BY ReadStepInv
<1> QED BY <1>1, <1>2, PTL DEF Spec

(* Every message read is, byte for byte, the next one that was sent, for    *)
(* all objects, packets and paddings a well-behaved server may send, in     *)
(* whatever pieces they come (read_json_pdu and read_tpkt_x224).            *)
THEOREM WholeMessages == Spec => ReadsWhatWasSent
PROOF
<1>1. ReadInv /\ [Next]_vars
        => [Len(outstanding') < Len(outstanding) => last' = Head(outstanding)]_vars
  BY ReadStepInv
<1> QED BY <1>1, StaysInFrame, PTL DEF Spec, ReadsWhatWasSent

(* No reader rejects the framing of a message: a session that fails has     *)
(* read the message that it fails on.                                       *)
THEOREM FramingAccepted == Spec => FramingHolds
PROOF
<1>1. ReadInv /\ [Next]_vars
        => [failed' # failed => Len(outstanding') < Len(outstanding)]_vars
  BY ReadStepInv
<1> QED BY <1>1, StaysInFrame, PTL DEF Spec, FramingHolds

-----------------------------------------------------------------------------
(* Input.                                                                   *)
Kinds == {"input", "authenticationRequest", "connectInitial", "erectDomain",
          "attachUser", "joinUser", "joinIo", "joinDrdynvc", "clientInfo",
          "confirmActive", "synchronize", "cooperate", "requestControl",
          "fontList", "mouseBurst"}

Wire == [kind : Kinds, event : Nat]

Tagged(sent) == \A k \in DOMAIN sent : sent[k].kind = "input" <=> sent[k].event > 0

Written(sent) == {k \in DOMAIN sent : sent[k].kind = "input"}

Numbered(sent) ==
  \A k \in Written(sent) :
    sent[k].event = Cardinality({j \in Written(sent) : j <= k})

InputInv ==
  /\ uplink \in Seq(Wire) /\ inputs \in Seq(Nat) /\ typed \in Nat
  /\ Tagged(uplink) /\ Numbered(uplink)
  /\ \A n \in 1 .. Len(inputs) : inputs[n] = Cardinality(Written(uplink)) + n
  /\ typed = Cardinality(Written(uplink)) + Len(inputs)

LEMMA WrittenFinite ==
  ASSUME NEW sent \in Seq(Wire)
  PROVE  /\ IsFiniteSet(Written(sent)) /\ Cardinality(Written(sent)) \in Nat
         /\ Written(sent) \subseteq 1 .. Len(sent)
PROOF
<1>1. DOMAIN sent = 1 .. Len(sent) /\ Len(sent) \in Nat
  BY LenProperties
<1>2. Written(sent) \subseteq 1 .. Len(sent)
  BY <1>1 DEF Written
<1>3. IsFiniteSet(1 .. Len(sent))
  BY <1>1, FS_Interval
<1> QED BY <1>2, <1>3, FS_Subset, FS_CardinalityType

LEMMA WriteNotes ==
  ASSUME NEW sent \in Seq(Wire), Tagged(sent), Numbered(sent),
         NEW notes \in Seq(Wire),
         \A k \in 1 .. Len(notes) : notes[k].kind # "input" /\ notes[k].event = 0
  PROVE  /\ sent \o notes \in Seq(Wire)
         /\ Tagged(sent \o notes) /\ Numbered(sent \o notes)
         /\ Written(sent \o notes) = Written(sent)
PROOF
<1> DEFINE all == sent \o notes
           L == Len(sent)
           N == Len(notes)
<1>1. L \in Nat /\ N \in Nat /\ DOMAIN sent = 1 .. L
  BY LenProperties
<1>2. /\ all \in Seq(Wire) /\ DOMAIN all = 1 .. L + N
      /\ \A i \in 1 .. L + N : all[i] = IF i <= L THEN sent[i] ELSE notes[i - L]
  <2>1. /\ all \in Seq(Wire) /\ Len(all) = L + N
        /\ \A i \in 1 .. L + N : all[i] = IF i <= L THEN sent[i] ELSE notes[i - L]
    BY ConcatProperties
  <2> HIDE DEF all
  <2> QED BY <2>1, LenProperties
<1> HIDE DEF all, L, N
<1>3. ASSUME NEW i \in 1 .. L
      PROVE  i \in 1 .. L + N /\ all[i] = sent[i]
  <2>1. i \in 1 .. L + N /\ i <= L
    BY <1>1
  <2> QED BY <2>1, <1>2
<1>4. ASSUME NEW i \in 1 .. L + N, i \notin 1 .. L
      PROVE  all[i].kind # "input" /\ all[i].event = 0
  <2>1. ~ (i <= L) /\ i - L \in 1 .. N
    BY <1>1, <1>4
  <2>2. all[i] = notes[i - L]
    BY <2>1, <1>2
  <2> QED BY <2>1, <2>2 DEF N
<1>5. Written(all) = Written(sent)
  BY <1>1, <1>2, <1>3, <1>4 DEF Written
<1>6. Tagged(all)
  <2>1. ASSUME NEW i \in 1 .. L + N
        PROVE  all[i].kind = "input" <=> all[i].event > 0
    <3>1. CASE i \in 1 .. L
      BY <3>1, <1>1, <1>3 DEF Tagged
    <3>2. CASE i \notin 1 .. L
      <4>1. ~ (0 > 0)
        OBVIOUS
      <4> QED BY <4>1, <3>2, <1>4
    <3> QED BY <3>1, <3>2
  <2> QED BY <2>1, <1>2 DEF Tagged
<1>7. Numbered(all)
  <2>1. \A k \in Written(sent) : all[k] = sent[k]
    BY <1>1, <1>3 DEF Written
  <2> QED BY <2>1, <1>5 DEF Numbered
<1> QED BY <1>2, <1>5, <1>6, <1>7 DEF all

LEMMA WriteInputs ==
  ASSUME NEW sent \in Seq(Wire), Tagged(sent), Numbered(sent),
         NEW events \in Seq(Wire),
         \A k \in 1 .. Len(events) :
           /\ events[k].kind = "input"
           /\ events[k].event = Cardinality(Written(sent)) + k
  PROVE  /\ sent \o events \in Seq(Wire)
         /\ Tagged(sent \o events) /\ Numbered(sent \o events)
         /\ Cardinality(Written(sent \o events))
              = Cardinality(Written(sent)) + Len(events)
PROOF
<1> DEFINE all == sent \o events
           L == Len(sent)
           N == Len(events)
           W == Written(sent)
           c == Cardinality(W)
<1>1. L \in Nat /\ N \in Nat /\ DOMAIN sent = 1 .. L
  BY LenProperties
<1>2. /\ all \in Seq(Wire) /\ DOMAIN all = 1 .. L + N
      /\ \A i \in 1 .. L + N : all[i] = IF i <= L THEN sent[i] ELSE events[i - L]
  <2>1. /\ all \in Seq(Wire) /\ Len(all) = L + N
        /\ \A i \in 1 .. L + N : all[i] = IF i <= L THEN sent[i] ELSE events[i - L]
    BY ConcatProperties
  <2> HIDE DEF all
  <2> QED BY <2>1, LenProperties
<1>3. IsFiniteSet(W) /\ c \in Nat /\ W \subseteq 1 .. L
  BY WrittenFinite
<1> HIDE DEF all, L, N, c
<1>4. ASSUME NEW i \in 1 .. L
      PROVE  i \in 1 .. L + N /\ all[i] = sent[i]
  <2>1. i \in 1 .. L + N /\ i <= L
    BY <1>1
  <2> QED BY <2>1, <1>2
<1>5. ASSUME NEW i \in 1 .. N
      PROVE  /\ L + i \in 1 .. L + N
             /\ all[L + i].kind = "input" /\ all[L + i].event = c + i
  <2> DEFINE j == L + i
  <2>1. j \in 1 .. L + N /\ ~ (j <= L) /\ j - L = i
    BY <1>1
  <2> HIDE DEF j
  <2>2. all[j] = events[i]
    BY <2>1, <1>2
  <2>3. events[i].kind = "input" /\ events[i].event = c + i
    BY DEF N, c
  <2> QED BY <2>1, <2>2, <2>3 DEF j
<1>6. ASSUME NEW i \in 1 .. L + N, i \notin 1 .. L
      PROVE  \E k \in 1 .. N : i = L + k
  <2>1. i - L \in 1 .. N /\ i = L + (i - L)
    BY <1>1, <1>6
  <2> QED BY <2>1
<1> HIDE DEF W
<1>7. Written(all) = W \cup (L + 1 .. L + N)
  <2>1. ASSUME NEW i \in 1 .. L + N
        PROVE  all[i].kind = "input" <=> i \in W \/ i \in L + 1 .. L + N
    <3>1. CASE i \in 1 .. L
      <4>1. i \notin L + 1 .. L + N
        BY <3>1, <1>1
      <4>2. i \in W <=> sent[i].kind = "input"
        BY <3>1, <1>1 DEF W, Written
      <4> QED BY <4>1, <4>2, <3>1, <1>4
    <3>2. CASE i \notin 1 .. L
      <4>1. i \in L + 1 .. L + N
        BY <3>2, <1>1
      <4> QED BY <4>1, <3>2, <1>5, <1>6
    <3> QED BY <3>1, <3>2
  <2>2. W \subseteq 1 .. L + N /\ (L + 1 .. L + N) \subseteq 1 .. L + N
    BY <1>1, <1>3
  <2> QED BY <2>1, <2>2, <1>2 DEF Written
<1>8. ASSUME NEW n \in 0 .. N
      PROVE  /\ IsFiniteSet(W \cup (L + 1 .. L + n))
             /\ Cardinality(W \cup (L + 1 .. L + n)) = c + n
  <2> DEFINE I == L + 1 .. L + n
  <2>1. IsFiniteSet(I) /\ Cardinality(I) = n
    <3> DEFINE a == L + 1
               b == L + n
    <3>1. a \in Int /\ b \in Int /\ (IF a > b THEN 0 ELSE b - a + 1) = n
      BY <1>1
    <3> HIDE DEF a, b
    <3>2. IsFiniteSet(a .. b) /\ Cardinality(a .. b) = IF a > b THEN 0 ELSE b - a + 1
      BY <3>1, FS_Interval
    <3> QED BY <3>1, <3>2 DEF a, b
  <2>2. W \cap I = {}
    BY <1>1, <1>3
  <2> HIDE DEF I
  <2>3. /\ IsFiniteSet(W \cup I)
        /\ Cardinality(W \cup I) = Cardinality(W) + Cardinality(I) - Cardinality(W \cap I)
    BY <1>3, <2>1, FS_Union
  <2>4. Cardinality(W \cap I) = 0
    BY <2>2, FS_EmptySet
  <2>5. c + n - 0 = c + n
    BY <1>3
  <2> QED BY <2>1, <2>3, <2>4, <2>5 DEF I, c
<1>9. Numbered(all)
  <2>1. ASSUME NEW k \in Written(all)
        PROVE  all[k].event = Cardinality({j \in Written(all) : j <= k})
    <3>1. CASE k \in W
      <4>1. k \in 1 .. L
        BY <3>1, <1>3
      <4>2. {j \in Written(all) : j <= k} = {j \in W : j <= k}
        <5>1. \A j \in L + 1 .. L + N : ~ (j <= k)
          BY <4>1, <1>1
        <5> QED BY <5>1, <1>7
      <4>3. sent[k].event = Cardinality({j \in W : j <= k})
        BY <3>1 DEF Numbered, W
      <4> QED BY <4>1, <4>2, <4>3, <1>4
    <3>2. CASE k \in L + 1 .. L + N
      <4>1. PICK i \in 1 .. N : k = L + i
        <5>1. k - L \in 1 .. N /\ k = L + (k - L)
          BY <3>2, <1>1
        <5> QED BY <5>1
      <4>2. {j \in Written(all) : j <= k} = W \cup (L + 1 .. L + i)
        <5>1. \A j \in L + 1 .. L + N : j <= k <=> j \in L + 1 .. L + i
          BY <4>1, <1>1
        <5>2. \A j \in W : j <= k
          BY <4>1, <1>1, <1>3
        <5>3. (L + 1 .. L + i) \subseteq (L + 1 .. L + N)
          BY <1>1
        <5> QED BY <5>1, <5>2, <5>3, <1>7
      <4>3. i \in 0 .. N
        BY <1>1
      <4> QED BY <4>1, <4>2, <4>3, <1>5, <1>8
    <3> QED BY <3>1, <3>2, <1>7
  <2> QED BY <2>1 DEF Numbered
<1>10. Tagged(all)
  <2>1. ASSUME NEW i \in 1 .. L + N
        PROVE  all[i].kind = "input" <=> all[i].event > 0
    <3>1. CASE i \in 1 .. L
      BY <3>1, <1>1, <1>4 DEF Tagged
    <3>2. CASE i \notin 1 .. L
      <4>1. PICK k \in 1 .. N : i = L + k
        BY <3>2, <1>6
      <4>2. c + k > 0
        BY <1>3
      <4> QED BY <4>1, <4>2, <1>5
    <3> QED BY <3>1, <3>2
  <2> QED BY <2>1, <1>2 DEF Tagged
<1>11. Cardinality(Written(all)) = c + N
  <2>1. N \in 0 .. N
    BY <1>1
  <2> QED BY <2>1, <1>7, <1>8
<1> QED BY <1>2, <1>9, <1>10, <1>11 DEF all, c, W, N

(* What the client writes of its own accord is never input.                 *)
LEMMA NotesOfStep ==
  ASSUME NEW n \in 1 .. 14
  PROVE  LET notes == Messages(Script[n].send)
         IN  /\ notes \in Seq(Wire)
             /\ \A k \in 1 .. Len(notes) : notes[k].kind # "input" /\ notes[k].event = 0
PROOF
<1>1. \A kind \in Kinds : Message(kind) \in Wire
  BY DEF Message, Wire
<1>2. /\ Script[n].send \in Seq(Kinds)
      /\ \A k \in 1 .. Len(Script[n].send) : Script[n].send[k] # "input"
  <2>1. CASE n \in {1, 9, 11, 12, 13}
    <3>1. Script[n].send = <<>>
      BY <2>1 DEF Script, Asks
    <3> QED BY <3>1
  <2>2. CASE n \in {2, 3, 5, 6, 7, 8, 14}
    <3>1. \E kind \in Kinds : kind # "input" /\ Script[n].send = <<kind>>
      BY <2>2 DEF Script, Asks, Kinds
    <3>2. PICK kind \in Kinds : kind # "input" /\ Script[n].send = <<kind>>
      BY <3>1
    <3>3. <<kind>> \in Seq(Kinds) /\ Len(<<kind>>) = 1 /\ <<kind>>[1] = kind
      OBVIOUS
    <3> QED BY <3>2, <3>3
  <2>3. CASE n = 4
    <3>1. Script[n].send = <<"erectDomain", "attachUser">>
      BY <2>3 DEF Script, Asks
    <3> QED BY <3>1 DEF Kinds
  <2>4. CASE n = 10
    <3>1. Script[n].send = <<"confirmActive", "synchronize", "cooperate",
                             "requestControl", "fontList">>
      BY <2>4 DEF Script, Asks
    <3> QED BY <3>1 DEF Kinds
  <2> QED BY <2>1, <2>2, <2>3, <2>4
<1> DEFINE send == Script[n].send
<1>4. Len(send) \in Nat /\ DOMAIN send = 1 .. Len(send)
      /\ \A k \in 1 .. Len(send) : send[k] \in Kinds
  BY <1>2, LenProperties, ElementOfSeq
<1> DEFINE notes == Messages(send)
<1>5. notes = [k \in 1 .. Len(send) |-> Message(send[k])]
  BY <1>4 DEF Messages
<1> HIDE DEF send
<1>6. notes \in [1 .. Len(send) -> Wire]
  BY <1>1, <1>4, <1>5
<1> HIDE DEF notes
<1>7. notes \in Seq(Wire) /\ Len(notes) = Len(send)
  BY <1>4, <1>6
<1>8. \A k \in 1 .. Len(send) : notes[k].kind # "input" /\ notes[k].event = 0
  <2>1. \A k \in 1 .. Len(send) : notes[k] = Message(send[k]) /\ send[k] # "input"
    BY <1>2, <1>5 DEF send
  <2>2. \A kind : Message(kind).kind = kind /\ Message(kind).event = 0
    BY DEF Message
  <2> QED BY <2>1, <2>2
<1> QED BY <1>7, <1>8 DEF notes, send

LEMMA InitInputInv == Init => InputInv
PROOF
<1> SUFFICES ASSUME Init PROVE InputInv
  OBVIOUS
<1>1. uplink = <<>> /\ inputs = <<>> /\ typed = 0
  BY DEF Init
<1>2. <<>> \in Seq(Wire) /\ <<>> \in Seq(Nat) /\ DOMAIN uplink = {} /\ Len(inputs) = 0
  BY <1>1, EmptySeq
<1>3. Written(uplink) = {} /\ Cardinality(Written(uplink)) = 0
  BY <1>2, FS_EmptySet DEF Written
<1> QED BY <1>1, <1>2, <1>3 DEF InputInv, Tagged, Numbered

LEMMA InputStep ==
  ASSUME InputInv, ReadInv, [Next]_vars
  PROVE  InputInv'
PROOF
<1>1. /\ uplink \in Seq(Wire) /\ inputs \in Seq(Nat) /\ typed \in Nat
      /\ Tagged(uplink) /\ Numbered(uplink)
  BY DEF InputInv
<1> DEFINE c == Cardinality(Written(uplink))
<1>2. /\ c \in Nat
      /\ \A n \in 1 .. Len(inputs) : inputs[n] = c + n
      /\ typed = c + Len(inputs)
  BY <1>1, WrittenFinite DEF InputInv
<1>3. CASE UNCHANGED <<uplink, inputs, typed>>
  BY <1>3 DEF InputInv
<1>4. CASE Read /\ uplink' # uplink
  <2>1. UNCHANGED <<inputs, typed>>
    BY <1>4 DEF Read
  <2>2. step \in 1 .. 14
    BY ScriptKinds DEF ReadInv, StateTypes
  <2>3. ReadJson \/ ReadTpkt
    BY <1>4 DEF Read
  <2>4. \/ UNCHANGED uplink
        \/ step < Active /\ uplink' = uplink \o Messages(Script[step + 1].send)
    <3>1. ASSUME NEW message, Complete(message)
          PROVE  \/ UNCHANGED uplink
                 \/ step < Active /\ uplink' = uplink \o Messages(Script[step + 1].send)
      BY <3>1 DEF Complete
    <3>2. ASSUME NEW bytes, NEW state, Continue(bytes, state) PROVE UNCHANGED uplink
      BY <3>2 DEF Continue
    <3>3. Fail => UNCHANGED uplink
      BY DEF Fail
    <3>4. CASE ReadJson
      <4>1. PICK byte : ReadJsonByte(byte)
        BY <3>4 DEF ReadJson
      <4> QED BY <4>1, <3>1, <3>2, <3>3 DEF ReadJsonByte
    <3>5. CASE ReadTpkt
      BY <3>5, <3>1, <3>2, <3>3 DEF ReadTpkt
    <3> QED BY <2>3, <3>4, <3>5
  <2> DEFINE notes == Messages(Script[step + 1].send)
  <2>5. uplink' = uplink \o notes /\ step + 1 \in 1 .. 14
    BY <1>4, <2>2, <2>4, ScriptKinds
  <2>6. /\ notes \in Seq(Wire)
        /\ \A k \in 1 .. Len(notes) : notes[k].kind # "input" /\ notes[k].event = 0
    BY <2>5, NotesOfStep
  <2> HIDE DEF notes
  <2>7. /\ uplink' \in Seq(Wire) /\ Tagged(uplink') /\ Numbered(uplink')
        /\ Written(uplink') = Written(uplink)
    BY <1>1, <2>5, <2>6, WriteNotes
  <2> QED BY <1>1, <1>2, <2>1, <2>7 DEF InputInv
<1>5. CASE Timeout
  <2> DEFINE events == [k \in DOMAIN inputs |-> Input(inputs[k])]
             N == Len(inputs)
  <2>1. uplink' = uplink \o events /\ inputs' = <<>> /\ typed' = typed
    BY <1>5 DEF Timeout
  <2>2. N \in Nat /\ DOMAIN inputs = 1 .. N
    BY <1>1, LenProperties
  <2>3. events = [k \in 1 .. N |-> Input(inputs[k])]
    BY <2>2
  <2>4. \A k \in 1 .. N : Input(inputs[k]) \in Wire
    <3>1. \A k \in 1 .. N : inputs[k] \in Nat
      BY <1>1, ElementOfSeq
    <3> QED BY <3>1 DEF Input, Wire, Kinds
  <2> HIDE DEF events
  <2>5. events \in Seq(Wire) /\ Len(events) = N
    <3>1. events \in [1 .. N -> Wire]
      BY <2>3, <2>4
    <3> HIDE DEF N
    <3> QED BY <3>1, <2>2
  <2>6. \A k \in 1 .. Len(events) :
          /\ events[k].kind = "input"
          /\ events[k].event = Cardinality(Written(uplink)) + k
    <3>1. \A k \in 1 .. N : events[k] = Input(inputs[k]) /\ inputs[k] = c + k
      BY <1>2, <2>3
    <3> HIDE DEF N, c
    <3>2. \A k \in 1 .. N : events[k].kind = "input" /\ events[k].event = c + k
      <4>1. \A n : Input(n).kind = "input" /\ Input(n).event = n
        BY DEF Input
      <4> QED BY <3>1, <4>1
    <3> QED BY <3>2, <2>5 DEF c
  <2>7. /\ uplink' \in Seq(Wire) /\ Tagged(uplink') /\ Numbered(uplink')
        /\ Cardinality(Written(uplink')) = c + N
    BY <1>1, <2>1, <2>5, <2>6, WriteInputs
  <2>8. inputs' \in Seq(Nat) /\ Len(inputs') = 0
    BY <2>1, EmptySeq
  <2>9. typed' \in Nat /\ typed' = Cardinality(Written(uplink')) + Len(inputs')
    <3> DEFINE d == Cardinality(Written(uplink'))
    <3>1. d = c + N /\ Len(inputs') = 0 /\ typed' = c + N /\ c \in Nat /\ N \in Nat
      BY <1>2, <2>1, <2>2, <2>7, <2>8
    <3> HIDE DEF c, N, d
    <3>2. c + N \in Nat /\ c + N + 0 = c + N
      BY <3>1
    <3> QED BY <3>1, <3>2 DEF d
  <2>10. \A n \in 1 .. Len(inputs') : FALSE
    BY <2>8
  <2> QED BY <2>7, <2>8, <2>9, <2>10 DEF InputInv
<1>6. CASE Type
  <2> DEFINE N == Len(inputs)
  <2>1. /\ typed' = typed + 1 /\ inputs' = Append(inputs, typed + 1)
        /\ UNCHANGED uplink
    BY <1>6 DEF Type
  <2>2. N \in Nat /\ typed + 1 \in Nat
    BY <1>1, LenProperties
  <2>3. /\ inputs' \in Seq(Nat) /\ Len(inputs') = N + 1
        /\ \A i \in 1 .. N : inputs'[i] = inputs[i]
        /\ inputs'[N + 1] = typed + 1
    BY <1>1, <2>1, <2>2, AppendProperties
  <2>4. ASSUME NEW n \in 1 .. N + 1 PROVE inputs'[n] = c + n
    <3>1. CASE n \in 1 .. N
      BY <3>1, <1>2, <2>3
    <3>2. CASE n = N + 1
      <4>1. typed + 1 = c + (N + 1)
        BY <1>2, <2>2
      <4> QED BY <4>1, <3>2, <2>3
    <3> QED BY <3>1, <3>2, <2>2
  <2>5. typed + 1 = c + (N + 1)
    BY <1>2, <2>2
  <2> QED BY <1>1, <2>1, <2>2, <2>3, <2>4, <2>5 DEF InputInv
<1>7. Read \/ Timeout \/ Type \/ UNCHANGED <<uplink, inputs, typed>>
  BY DEF Next, Reply, Send, Write, vars
<1>8. Read => UNCHANGED <<inputs, typed>>
  BY DEF Read
<1> QED BY <1>3, <1>4, <1>5, <1>6, <1>7, <1>8

(* Input goes out in the order of the events, each of them once, whichever  *)
(* read of the session sends it (DuplexStream and flush_pending_input).     *)
THEOREM InputKeepsOrder == Spec => []InputInOrder
PROOF
<1>1. Init => InputInv /\ ReadInv
  BY InitInputInv, InitReadInv
<1>2. InputInv /\ ReadInv /\ [Next]_vars => (InputInv /\ ReadInv)'
  BY InputStep, ReadStepInv
<1>3. InputInv => InputInOrder
  <2>1. SUFFICES ASSUME InputInv PROVE InputInOrder
    OBVIOUS
  <2> DEFINE written == {k \in DOMAIN uplink : uplink[k].kind = "input"}
  <2>2. written = Written(uplink)
    BY DEF Written
  <2>3. inputs = [n \in 1 .. Len(inputs) |-> Cardinality(written) + n]
    <3>1. inputs \in Seq(Nat)
      BY <2>1 DEF InputInv
    <3>2. inputs = [n \in 1 .. Len(inputs) |-> inputs[n]]
      BY <3>1
    <3>3. \A n \in 1 .. Len(inputs) : inputs[n] = Cardinality(written) + n
      BY <2>1, <2>2 DEF InputInv
    <3> HIDE DEF written
    <3> QED BY <3>2, <3>3
  <2>4. \A k \in written : uplink[k].event = Cardinality({j \in written : j <= k})
    BY <2>1, <2>2 DEF InputInv, Numbered
  <2>5. typed = Cardinality(written) + Len(inputs)
    BY <2>1, <2>2 DEF InputInv
  <2> QED BY <2>3, <2>4, <2>5 DEF InputInOrder
<1> QED BY <1>1, <1>2, <1>3, PTL DEF Spec

(* The types of the client's state, for all messages.                       *)
THEOREM TransportTypes == Spec => []TransportTypeOK
PROOF
<1>1. Init => InputInv /\ ReadInv
  BY InitInputInv, InitReadInv
<1>2. InputInv /\ ReadInv /\ [Next]_vars => (InputInv /\ ReadInv)'
  BY InputStep, ReadStepInv
<1>3. InputInv /\ ReadInv => TransportTypeOK
  <2>1. SUFFICES ASSUME InputInv, ReadInv PROVE TransportTypeOK
    OBVIOUS
  <2>2. /\ step \in 1 .. Active /\ failed \in BOOLEAN /\ json \in JsonState
        /\ step > 2 \/ got = <<>> => json = JsonStart
    BY <2>1 DEF ReadInv, StateTypes
  <2>3. Script[step].expect = "tpkt" => step > 2
    BY <2>2, ScriptKinds
  <2>4. Tagged(uplink)
    BY <2>1 DEF InputInv
  <2> QED BY <2>2, <2>3, <2>4 DEF TransportTypeOK, JsonState, Tagged
<1> QED BY <1>1, <1>2, <1>3, PTL DEF Spec
=============================================================================
