---------------------------- MODULE Zgfx_proofs ----------------------------
(***************************************************************************)
(* The ZGFX decompressor is right for every history size and every stream  *)
(* of messages.                                                            *)
(*                                                                         *)
(* First the ring buffer (Zgfx), whatever tokens come: ZgfxInv, and that   *)
(* each step is one of ZgfxText.                                           *)
(*                                                                         *)
(* Then the bits (ZgfxStream): decoding undoes encoding.  The codes of     *)
(* TOKEN_TABLE are prefix-free, so that at a place of the bits at most one *)
(* thing is decoded (RowUnique, OneKind); the code of a token is decoded   *)
(* to that token and to its own end, in whatever bits it is                *)
(* (TokenDecodedLiteral, ...Match, ...Run); and what is decoded at a place *)
(* depends on the bits up to its end alone (LiteralLocal, ...).  The       *)
(* invariant ReadInv says that the reader is where a token of the segment  *)
(* ends, with all tokens before decoded, or in a run, or past its bits.    *)
(* With it each step of the decoder is one of the ring's (StreamStep), and *)
(* what was shown of the ring holds of what is decoded from bits.          *)
(***************************************************************************)
EXTENDS ZgfxStream, SequenceTheorems, WellFoundedInduction, TLAPS

-----------------------------------------------------------------------------
(* Two positions less than a ring's size apart have different slots.        *)
LEMMA ModDistinct ==
  ASSUME NEW m \in Nat \ {0}, NEW a \in Nat, NEW b \in Nat,
         b < a, a - b < m
  PROVE  a % m # b % m
PROOF
<1> DEFINE q == (a \div m) - (b \div m)
<1>1. /\ a = m * (a \div m) + (a % m) /\ a \div m \in Int
      /\ b = m * (b \div m) + (b % m) /\ b \div m \in Int
      /\ a % m \in Int /\ b % m \in Int
  OBVIOUS
<1>2. SUFFICES ASSUME a % m = b % m PROVE FALSE
  OBVIOUS
<1>3. a - b = m * q /\ q \in Int
  BY <1>1, <1>2
<1> HIDE DEF q
<1>4. CASE q <= 0
  <2>1. m * q <= 0
    BY <1>3, <1>4
  <2> QED BY <2>1, <1>3
<1>5. CASE q >= 1
  <2>1. m * q >= m
    BY <1>3, <1>5
  <2> QED BY <2>1, <1>3
<1> QED BY <1>3, <1>4, <1>5

(* Going once around the ring leads to the same slot. *)
LEMMA ModAround ==
  ASSUME NEW m \in Nat \ {0}, NEW a \in Nat
  PROVE  (a + m) % m = a % m
PROOF
<1> DEFINE q == (a \div m) + 1 - ((a + m) \div m)
<1>1. /\ a + m = m * ((a + m) \div m) + ((a + m) % m)
      /\ a = m * (a \div m) + (a % m)
      /\ (a + m) \div m \in Int /\ a \div m \in Int
      /\ (a + m) % m \in 0 .. m - 1 /\ a % m \in 0 .. m - 1
  OBVIOUS
<1>2. ((a + m) % m) - (a % m) = m * q /\ q \in Int
  BY <1>1
<1> HIDE DEF q
<1>3. ((a + m) % m) - (a % m) < m /\ ((a + m) % m) - (a % m) > 0 - m
  BY <1>1
<1>4. CASE q <= -1
  <2>1. m * q <= 0 - m
    BY <1>2, <1>4
  <2> QED BY <2>1, <1>2, <1>3
<1>5. CASE q >= 1
  <2>1. m * q >= m
    BY <1>2, <1>5
  <2> QED BY <2>1, <1>2, <1>3
<1>6. CASE q = 0
  BY <1>1, <1>2, <1>6
<1> QED BY <1>2, <1>4, <1>5, <1>6

LEMMA ModRange ==
  ASSUME NEW m \in Nat \ {0}, NEW a \in Nat
  PROVE  a % m \in 0 .. m - 1
PROOF
  OBVIOUS

-----------------------------------------------------------------------------
(* The inductive invariant.  While a match is copied, the bytes copied so   *)
(* far repeat those distance places before them.                            *)
CopyInv ==
  pc = "copy" =>
    /\ distance \in 1 .. HistorySize
    /\ distance <= index - copied
    /\ copied <= Len(out)
    /\ \A n \in index - copied + 1 .. index : Written[n] = Written[n - distance]

ZgfxInv == TypeOK /\ HistoryIsRecentText /\ CopyInv

(* What writing a byte does to the ring: the oldest byte makes room.        *)
LEMMA WriteByteHistory ==
  ASSUME TypeOK, HistoryIsRecentText, pc # "idle", pc' # "idle",
         NEW b \in Bytes, WriteByte(b), UNCHANGED delivered
  PROVE  /\ HistoryIsRecentText'
         /\ history' \in [0 .. HistorySize - 1 -> Bytes]
         /\ index' \in Nat /\ out' \in Seq(Bytes)
         /\ Written \in Seq(Bytes) /\ Len(Written) = index
         /\ Written' = Append(Written, b)
PROOF
<1> DEFINE H == HistorySize
<1>1. /\ H \in Nat \ {0} /\ index \in Nat
      /\ history \in [0 .. H - 1 -> Bytes]
      /\ out \in Seq(Bytes) /\ delivered \in Seq(Bytes)
  BY ZgfxAssumption DEF TypeOK
<1>2. /\ history' = [history EXCEPT ![index % H] = b]
      /\ index' = index + 1 /\ out' = Append(out, b)
  BY DEF WriteByte
<1>3. /\ Written = delivered \o out /\ Written' = delivered \o out'
      /\ Written \in Seq(Bytes)
  BY <1>1 DEF Written
<1>4. Written' = Append(Written, b)
  BY <1>1, <1>2, <1>3
<1>5. /\ Len(Written) = index
      /\ \A k \in 0 .. index - 1 : k >= index - H => history[k % H] = Written[k + 1]
  BY DEF HistoryIsRecentText
<1>6. index % H \in 0 .. H - 1
  BY <1>1, ModRange
<1> DEFINE w == Written
           v == Written'
<1>7. /\ v = Append(w, b) /\ w \in Seq(Bytes) /\ Len(w) = index
  BY <1>3, <1>4, <1>5
<1> HIDE DEF H, w, v
<1>8. /\ Len(v) = index + 1
      /\ \A k \in 1 .. index : v[k] = w[k]
      /\ v[index + 1] = b
  BY <1>1, <1>7
<1>9. ASSUME NEW k \in 0 .. index, k >= index + 1 - H
      PROVE  history'[k % H] = v[k + 1]
  <2>1. CASE k = index
    BY <2>1, <1>1, <1>2, <1>6, <1>8
  <2>2. CASE k < index
    <3>1. k \in Nat /\ k % H \in 0 .. H - 1
      BY <1>1, ModRange
    <3>2. index - k < H
      BY <1>1, <1>9
    <3>3. index % H # k % H
      BY <1>1, <2>2, <3>1, <3>2, ModDistinct
    <3>4. history'[k % H] = history[k % H]
      BY <1>1, <1>2, <3>1, <3>3
    <3>5. history[k % H] = w[k + 1]
      <4>1. k \in 0 .. index - 1 /\ k >= index - H
        BY <1>1, <1>9, <2>2
      <4> QED BY <4>1, <1>5 DEF w
    <3>6. v[k + 1] = w[k + 1]
      BY <1>1, <1>8, <2>2
    <3> QED BY <3>4, <3>5, <3>6
  <2> QED BY <1>1, <2>1, <2>2
<1>10. HistoryIsRecentText'
  <2>1. index' - 1 = index
    BY <1>1, <1>2
  <2>2. Len(v) = index'
    BY <1>2, <1>8
  <2>3. \A k \in 0 .. index' - 1 :
          k >= index' - H => history'[k % H] = v[k + 1]
    <3>1. ASSUME NEW k \in 0 .. index' - 1, k >= index' - H
          PROVE  history'[k % H] = v[k + 1]
      <4>1. k \in 0 .. index /\ k >= index + 1 - H
        BY <3>1, <2>1, <1>1, <1>2
      <4> QED BY <4>1, <1>9
    <3> QED BY <3>1
  <2> QED BY <2>2, <2>3 DEF HistoryIsRecentText, v, H
<1> QED BY <1>1, <1>2, <1>3, <1>4, <1>5, <1>10 DEF H

(* What copy_match reads is the byte distance places before the next one.   *)
LEMMA CopyReads ==
  ASSUME ZgfxInv, pc = "copy"
  PROVE  LET b == history[(index + HistorySize - distance) % HistorySize]
         IN  b \in Bytes /\ b = Written[index + 1 - distance]
PROOF
<1> DEFINE k == index - distance
<1>1. /\ HistorySize \in Nat \ {0} /\ index \in Nat /\ copied \in Nat
      /\ distance \in 1 .. HistorySize /\ distance <= index - copied
      /\ history \in [0 .. HistorySize - 1 -> Bytes]
  BY ZgfxAssumption DEF ZgfxInv, TypeOK, CopyInv
<1>2. k \in 0 .. index - 1 /\ k \in Nat /\ k >= index - HistorySize
  BY <1>1
<1>3. index + HistorySize - distance = k + HistorySize
  BY <1>1
<1>4. k + 1 = index + 1 - distance
  BY <1>1
<1> HIDE DEF k
<1>5. (k + HistorySize) % HistorySize = k % HistorySize
  BY <1>1, <1>2, ModAround
<1>6. k % HistorySize \in 0 .. HistorySize - 1
  BY <1>1, <1>2, ModRange
<1>7. history[k % HistorySize] = Written[k + 1]
  BY <1>2 DEF ZgfxInv, HistoryIsRecentText
<1> QED BY <1>1, <1>3, <1>4, <1>5, <1>6, <1>7

-----------------------------------------------------------------------------
LEMMA ZgfxInit == Init => ZgfxInv
PROOF
<1> SUFFICES ASSUME Init PROVE ZgfxInv
  OBVIOUS
<1>1. TypeOK
  BY ZgfxAssumption DEF Init, TypeOK
<1>2. HistoryIsRecentText /\ CopyInv
  BY DEF Init, HistoryIsRecentText, CopyInv, Written
<1> QED BY <1>1, <1>2 DEF ZgfxInv

LEMMA ZgfxLiteral ==
  ASSUME ZgfxInv, NEW b \in Bytes, Literal(b)
  PROVE  ZgfxInv'
PROOF
<1>1. /\ pc = "token" /\ pc' = "token" /\ WriteByte(b)
      /\ UNCHANGED <<distance, left, delivered, copied>>
  BY DEF Literal
<1>2. /\ HistoryIsRecentText'
      /\ history' \in [0 .. HistorySize - 1 -> Bytes]
      /\ index' \in Nat /\ out' \in Seq(Bytes)
  BY <1>1, WriteByteHistory DEF ZgfxInv
<1> QED BY <1>1, <1>2 DEF ZgfxInv, TypeOK, CopyInv

LEMMA ZgfxCopyByte ==
  ASSUME ZgfxInv, CopyByte
  PROVE  ZgfxInv'
PROOF
<1> DEFINE b == history[(index + HistorySize - distance) % HistorySize]
<1>1. /\ pc = "copy" /\ pc' = "copy" /\ left > 0 /\ WriteByte(b)
      /\ left' = left - 1 /\ copied' = copied + 1
      /\ UNCHANGED <<distance, delivered>>
  BY DEF CopyByte
<1>2. b \in Bytes /\ b = Written[index + 1 - distance]
  BY <1>1, CopyReads
<1> HIDE DEF b
<1>3. /\ HistoryIsRecentText'
      /\ history' \in [0 .. HistorySize - 1 -> Bytes]
      /\ index' \in Nat /\ out' \in Seq(Bytes)
      /\ Written \in Seq(Bytes) /\ Len(Written) = index
      /\ Written' = Append(Written, b)
  BY <1>1, <1>2, WriteByteHistory DEF ZgfxInv
<1>4. /\ index \in Nat /\ copied \in Nat /\ left \in Nat /\ out \in Seq(Bytes)
      /\ index' = index + 1 /\ out' = Append(out, b)
      /\ distance \in 1 .. HistorySize /\ HistorySize \in Nat
      /\ distance <= index - copied /\ copied <= Len(out)
      /\ \A n \in index - copied + 1 .. index : Written[n] = Written[n - distance]
  BY <1>1, ZgfxAssumption DEF ZgfxInv, TypeOK, CopyInv, WriteByte
<1>5. TypeOK'
  BY <1>1, <1>3, <1>4 DEF TypeOK, ZgfxInv
<1>6. \A n \in index - copied + 1 .. index + 1 :
        Written'[n] = Written'[n - distance]
  <2> DEFINE w == Written
             v == Written'
  <2>1. v = Append(w, b) /\ w \in Seq(Bytes) /\ Len(w) = index
    BY <1>3
  <2>2. \A n \in index - copied + 1 .. index : w[n] = w[n - distance]
    BY <1>4
  <2>3. b = w[index + 1 - distance]
    BY <1>2
  <2> HIDE DEF w, v
  <2>4. /\ \A n \in 1 .. index : v[n] = w[n]
        /\ v[index + 1] = b
    <3>1. index \in Nat
      BY <1>4
    <3> QED BY <2>1, <3>1
  <2>5. ASSUME NEW n \in index - copied + 1 .. index + 1
        PROVE  v[n] = v[n - distance]
    <3>1. n - distance \in 1 .. index
      BY <1>4
    <3>2. CASE n = index + 1
      <4>1. v[n] = v[index + 1] /\ w[n - distance] = w[index + 1 - distance]
        BY <3>2, <1>4
      <4>2. v[n - distance] = w[n - distance]
        BY <3>1, <2>4
      <4> QED BY <4>1, <4>2, <2>3, <2>4
    <3>3. CASE n # index + 1
      <4>1. n \in index - copied + 1 .. index /\ n \in 1 .. index
        BY <3>3, <1>4
      <4> QED BY <4>1, <3>1, <2>2, <2>4
    <3> QED BY <3>2, <3>3
  <2> QED BY <2>5 DEF v
<1>7. CopyInv'
  <2>1. index' - copied' + 1 = index - copied + 1 /\ index' = index + 1
    BY <1>1, <1>4
  <2>2. copied' <= Len(out') /\ distance' <= index' - copied'
    BY <1>1, <1>4
  <2> QED BY <1>1, <1>4, <1>6, <2>1, <2>2 DEF CopyInv
<1> QED BY <1>3, <1>5, <1>7 DEF ZgfxInv

LEMMA ZgfxMatch ==
  ASSUME ZgfxInv, NEW d \in Nat, NEW count \in Nat \ {0}, Match(d, count)
  PROVE  ZgfxInv'
PROOF
<1>1. /\ pc = "token" /\ d \in Nat \ {0} /\ count \in Nat
      /\ UNCHANGED <<history, index, out, delivered>>
      /\ HistorySize \in Nat /\ index \in Nat
  BY ZgfxAssumption DEF Match, ZgfxInv, TypeOK
<1>2. CASE d > HistorySize \/ d > index
  BY <1>1, <1>2 DEF Match, ZgfxInv, TypeOK, CopyInv, HistoryIsRecentText, Written
<1>3. CASE ~ (d > HistorySize \/ d > index)
  <2>1. pc' = "copy" /\ distance' = d /\ left' = count /\ copied' = 0
    BY <1>3 DEF Match
  <2>2. Written' = Written
    BY <1>1, <2>1 DEF Written
  <2>3. TypeOK' /\ HistoryIsRecentText'
    BY <1>1, <2>1, <2>2 DEF ZgfxInv, TypeOK, HistoryIsRecentText
  <2>4. out \in Seq(Bytes)
    BY DEF ZgfxInv, TypeOK
  <2>5. CopyInv'
    BY <1>1, <1>3, <2>1, <2>4 DEF CopyInv
  <2> QED BY <2>3, <2>5 DEF ZgfxInv
<1> QED BY <1>2, <1>3

(* A step of Next, with a match of any distance and length: a stream of     *)
(* bits is not limited to Distances and Counts.                             *)
AnyStep ==
  \/ Begin \/ CopyByte \/ CopyDone \/ Bail \/ Return
  \/ \E b \in Bytes : Literal(b)
  \/ \E d \in Nat, count \in Nat \ {0} : Match(d, count)

LEMMA NextIsAnyStep == [Next]_zgfxVars => [AnyStep]_zgfxVars
PROOF
<1>1. Distances \subseteq Nat /\ Counts \subseteq Nat \ {0}
  BY ZgfxAssumption
<1> QED BY <1>1 DEF Next, AnyStep

LEMMA ZgfxStep == ZgfxInv /\ [AnyStep]_zgfxVars => ZgfxInv'
PROOF
<1> SUFFICES ASSUME ZgfxInv, [AnyStep]_zgfxVars PROVE ZgfxInv'
  OBVIOUS
<1>0. /\ TypeOK /\ HistoryIsRecentText /\ CopyInv
      /\ out \in Seq(Bytes) /\ delivered \in Seq(Bytes)
  BY DEF ZgfxInv, TypeOK
<1>1. CASE Begin
  <2>1. Written' = Written
    BY <1>0, <1>1 DEF Begin, Written
  <2> QED BY <1>0, <1>1, <2>1 DEF Begin, ZgfxInv, TypeOK, HistoryIsRecentText, CopyInv
<1>2. CASE CopyByte
  BY <1>2, ZgfxCopyByte
<1>3. CASE CopyDone
  BY <1>0, <1>3 DEF CopyDone, ZgfxInv, TypeOK, HistoryIsRecentText, CopyInv, Written
<1>4. CASE Bail
  BY <1>0, <1>4 DEF Bail, ZgfxInv, TypeOK, HistoryIsRecentText, CopyInv, Written
<1>5. CASE Return
  <2>1. Written' = Written /\ delivered' \in Seq(Bytes)
    BY <1>0, <1>5 DEF Return, Written
  <2> QED BY <1>0, <1>5, <2>1 DEF Return, ZgfxInv, TypeOK, HistoryIsRecentText, CopyInv
<1>6. CASE \E b \in Bytes : Literal(b)
  BY <1>6, ZgfxLiteral
<1>7. CASE \E d \in Nat, count \in Nat \ {0} : Match(d, count)
  BY <1>7, ZgfxMatch
<1>8. CASE UNCHANGED zgfxVars
  BY <1>0, <1>8 DEF zgfxVars, ZgfxInv, TypeOK, HistoryIsRecentText, CopyInv, Written
<1> QED BY <1>1, <1>2, <1>3, <1>4, <1>5, <1>6, <1>7, <1>8 DEF AnyStep

LEMMA ZgfxInvariant == Spec => []ZgfxInv
PROOF
<1>1. ZgfxInv /\ [Next]_zgfxVars => ZgfxInv'
  BY ZgfxStep, NextIsAnyStep
<1> QED BY <1>1, ZgfxInit, PTL DEF Spec

THEOREM ZgfxTypes == Spec => []TypeOK
PROOF
  BY ZgfxInvariant, PTL DEF ZgfxInv

(* The ring holds the most recent text across messages (zgfx.rs:165-178).   *)
THEOREM HistoryStaysRecent == Spec => []HistoryIsRecentText
PROOF
  BY ZgfxInvariant, PTL DEF ZgfxInv

(* No byte is ever copied from the part of the ring that has not been       *)
(* written (zgfx.rs:180-198).                                               *)
THEOREM CopiesOnlyWrittenBytes == Spec => []NeverReadsUnwritten
PROOF
<1>1. ZgfxInv => NeverReadsUnwritten
  BY DEF ZgfxInv, CopyInv, NeverReadsUnwritten
<1> QED BY <1>1, ZgfxInvariant, PTL

-----------------------------------------------------------------------------
(* The text of the refinement mapping. *)
MappedText == SubSeq(Written, 1, Len(Written) - IF pc = "copy" THEN copied ELSE 0)

(* A match that has been copied repeats the bytes distance places back.     *)
LEMMA CopyDoneRepeats ==
  ASSUME ZgfxInv, CopyDone
  PROVE  Text!Repeat
PROOF
<1> DEFINE w == Written
           old == SubSeq(Written, 1, Len(Written) - copied)
<1>1. /\ pc = "copy" /\ pc' = "token"
      /\ UNCHANGED <<history, index, out, distance, left, delivered, copied>>
  BY DEF CopyDone
<1>2. /\ w \in Seq(Bytes) /\ Len(w) = index /\ index \in Nat
      /\ copied \in Nat /\ distance \in 1 .. HistorySize
      /\ HistorySize \in Nat
      /\ distance <= index - copied
      /\ \A n \in index - copied + 1 .. index : w[n] = w[n - distance]
  <2>1. /\ index \in Nat /\ copied \in Nat /\ HistorySize \in Nat
        /\ out \in Seq(Bytes) /\ delivered \in Seq(Bytes)
    BY ZgfxAssumption DEF ZgfxInv, TypeOK
  <2>2. w \in Seq(Bytes)
    BY <2>1 DEF Written
  <2>3. Len(w) = index
    BY DEF ZgfxInv, HistoryIsRecentText
  <2>4. /\ distance \in 1 .. HistorySize
        /\ distance <= index - copied
        /\ \A n \in index - copied + 1 .. index : w[n] = w[n - distance]
    BY <1>1 DEF ZgfxInv, CopyInv
  <2> QED BY <2>1, <2>2, <2>3, <2>4
<1>3. /\ MappedText = old
      /\ MappedText' = w
  <2>1. Written' = Written
    BY <1>1 DEF Written
  <2>2. MappedText' = SubSeq(w, 1, Len(w))
    BY <1>1, <1>2, <2>1 DEF MappedText
  <2>3. MappedText' = w
    BY <1>2, <2>2, SubSeqFull
  <2> QED BY <2>3, <1>1 DEF MappedText
<1> HIDE DEF w, old
<1>4. /\ old \in Seq(Bytes) /\ Len(old) = index - copied
      /\ \A n \in 1 .. index - copied : old[n] = w[n]
  <2>1. \A n \in 1 .. index - copied : w[n] \in Bytes
    BY <1>2
  <2>2. 1 \in Int /\ index - copied \in Int
    BY <1>2
  <2>3. old = SubSeq(w, 1, index - copied)
    BY <1>2 DEF old, w
  <2> QED BY <1>2, <2>1, <2>2, <2>3, SubSeqProperties
<1>5. distance \in 1 .. Len(old) /\ distance <= HistorySize
  BY <1>2, <1>4
<1>6. Text!Repeats(old, w, distance)
  BY <1>2, <1>4 DEF Text!Repeats
<1>7. Text!Repeats(MappedText, MappedText', distance) /\ distance \in 1 .. Len(MappedText)
  BY <1>3, <1>5, <1>6
<1> QED BY <1>1, <1>5, <1>7 DEF Text!Repeat, MappedText

LEMMA TextBegins == Init => Text!TextInit
PROOF
<1> SUFFICES ASSUME Init PROVE Text!TextInit
  OBVIOUS
<1>1. Written = <<>> /\ Len(Written) = 0 /\ pc = "idle"
  BY DEF Init, Written
<1>2. SubSeq(Written, 1, Len(Written) - 0) = <<>>
  BY <1>1
<1> QED BY <1>1, <1>2 DEF Init, Text!TextInit

(* A step leaves the text, adds a byte or a repetition to it, hands it on   *)
(* or ends it.                                                              *)
LEMMA TextStep == ZgfxInv /\ [AnyStep]_zgfxVars => [Text!TextNext]_(Text!textVars)
PROOF
<1> SUFFICES ASSUME ZgfxInv, ZgfxInv', [AnyStep]_zgfxVars
             PROVE  [Text!TextNext]_(Text!textVars)
  BY ZgfxStep
<1> DEFINE Stutter == MappedText' = MappedText /\ delivered' = delivered
                      /\ (pc = "failed")' = (pc = "failed")
<1>0. Stutter => UNCHANGED Text!textVars
  BY DEF Text!textVars, MappedText
<1>1. /\ TypeOK /\ out \in Seq(Bytes) /\ delivered \in Seq(Bytes)
      /\ Written \in Seq(Bytes) /\ Written' \in Seq(Bytes)
      /\ Len(Written) \in Nat /\ Len(Written') \in Nat
  BY DEF ZgfxInv, TypeOK, Written
<1>2. pc # "copy" => MappedText = Written
  <2>1. SUFFICES ASSUME pc # "copy" PROVE SubSeq(Written, 1, Len(Written)) = Written
    BY <1>1 DEF MappedText
  <2> QED BY <1>1, SubSeqFull
<1>3. pc' # "copy" => MappedText' = Written'
  <2>1. SUFFICES ASSUME pc' # "copy"
                 PROVE  SubSeq(Written', 1, Len(Written')) = Written'
    BY <1>1 DEF MappedText
  <2> QED BY <1>1, SubSeqFull
<1>4. ASSUME NEW b \in Bytes, Literal(b)
      PROVE  Text!AddByte
  <2>1. /\ pc = "token" /\ pc' = "token" /\ UNCHANGED delivered /\ WriteByte(b)
    BY <1>4 DEF Literal
  <2>2. Written' = Append(Written, b)
    BY <2>1, WriteByteHistory DEF ZgfxInv
  <2> QED BY <2>1, <2>2, <1>2, <1>3 DEF Text!AddByte, MappedText
<1>5. ASSUME NEW d \in Nat, NEW count \in Nat \ {0}, Match(d, count)
      PROVE  Text!Break \/ Stutter
  <2>1. pc = "token" /\ UNCHANGED <<out, delivered>>
    BY <1>5 DEF Match
  <2>2. CASE d > HistorySize \/ d > index
    <3>1. pc' = "failed" /\ Written' = Written
      BY <1>5, <2>1, <2>2 DEF Match, Written
    <3> QED BY <2>1, <3>1, <1>2, <1>3 DEF Text!Break, MappedText
  <2>3. CASE ~ (d > HistorySize \/ d > index)
    <3>1. pc' = "copy" /\ copied' = 0 /\ Written' = Written
      BY <1>5, <2>1, <2>3 DEF Match, Written
    <3>2. MappedText' = SubSeq(Written, 1, Len(Written))
      BY <3>1, <1>1 DEF MappedText
    <3> QED BY <2>1, <3>1, <3>2, <1>1, <1>2, SubSeqFull
  <2> QED BY <2>2, <2>3
<1>6. CASE CopyByte
  <2> DEFINE b == history[(index + HistorySize - distance) % HistorySize]
  <2>1. /\ pc = "copy" /\ pc' = "copy" /\ WriteByte(b)
        /\ copied' = copied + 1 /\ UNCHANGED delivered
    BY <1>6 DEF CopyByte
  <2>2. b \in Bytes
    BY <2>1, CopyReads
  <2> HIDE DEF b
  <2>3. Written' = Append(Written, b) /\ Len(Written) = index
    BY <2>1, <2>2, WriteByteHistory DEF ZgfxInv
  <2>4. copied \in Nat /\ index - copied \in Nat
    <3>1. copied \in Nat /\ index \in Nat /\ HistorySize \in Nat
      BY ZgfxAssumption DEF ZgfxInv, TypeOK
    <3>2. distance \in 1 .. HistorySize /\ distance <= index - copied
      BY <2>1 DEF ZgfxInv, CopyInv
    <3> QED BY <3>1, <3>2
  <2> DEFINE n == index - copied
             w == Written
  <2>5. MappedText = SubSeq(w, 1, n) /\ MappedText' = SubSeq(Append(w, b), 1, n)
    <3>1. Len(Append(w, b)) - (copied + 1) = n
      <4>1. Len(Append(w, b)) = Len(w) + 1 /\ Len(w) = index
        BY <1>1, <2>2, <2>3
      <4>2. index \in Nat
        BY <1>1, <2>3
      <4> QED BY <4>1, <4>2, <2>4
    <3> QED BY <2>1, <2>3, <3>1 DEF MappedText
  <2>6. w \in Seq(Bytes) /\ n \in 0 .. Len(w)
    BY <1>1, <2>3, <2>4
  <2> HIDE DEF n, w
  <2>7. SubSeq(Append(w, b), 1, n) = SubSeq(w, 1, n)
    BY <2>2, <2>6
  <2>8. MappedText' = MappedText
    BY <2>5, <2>7
  <2> QED BY <1>0, <2>1, <2>8
<1>7. CASE CopyDone
  BY <1>7, CopyDoneRepeats DEF Text!TextNext
<1>8. CASE Bail
  <2>1. pc = "token" /\ pc' = "failed" /\ Written' = Written /\ UNCHANGED delivered
    BY <1>8 DEF Bail, Written
  <2> QED BY <2>1, <1>2, <1>3 DEF Text!TextNext, Text!Break, MappedText
<1>9. CASE Return
  <2>1. /\ pc = "token" /\ pc' = "idle" /\ Written' = Written
        /\ delivered' = Written
    BY <1>9 DEF Return, Written
  <2> QED BY <2>1, <1>2, <1>3 DEF Text!TextNext, Text!Deliver, MappedText
<1>10. CASE Begin
  <2>1. /\ pc = "idle" /\ pc' = "token" /\ UNCHANGED delivered
        /\ Written' = Written
    BY <1>1, <1>10 DEF Begin, Written
  <2>2. MappedText' = MappedText
    BY <2>1, <1>2, <1>3
  <2> QED BY <1>0, <2>1, <2>2
<1>11. CASE UNCHANGED zgfxVars
  <2>1. UNCHANGED <<pc, copied, out, delivered>>
    BY <1>11 DEF zgfxVars
  <2>2. Written' = Written
    BY <2>1 DEF Written
  <2>3. MappedText' = MappedText
    BY <2>1, <2>2 DEF MappedText
  <2> QED BY <1>0, <2>1, <2>3
<1> HIDE DEF Stutter
<1>12. Text!AddByte \/ Text!Break => Text!TextNext
  BY DEF Text!TextNext
<1>13. CASE \E b \in Bytes : Literal(b)
  BY <1>13, <1>4, <1>12
<1>14. CASE \E d \in Nat, count \in Nat \ {0} : Match(d, count)
  BY <1>14, <1>0, <1>5, <1>12
<1> QED BY <1>6, <1>7, <1>8, <1>9, <1>10, <1>11, <1>13, <1>14 DEF AnyStep

(* The decompressor implements ZgfxText.                                    *)
THEOREM ZgfxImplementsText == Spec => TextSpec
PROOF
<1>1. ZgfxInv /\ [Next]_zgfxVars => [Text!TextNext]_(Text!textVars)
  BY TextStep, NextIsAnyStep
<1> QED BY <1>1, TextBegins, ZgfxInvariant, PTL DEF Spec, TextSpec, Text!TextSpec


-----------------------------------------------------------------------------
(* Sequences computed step by step. *)
LEMMA NatMinimum ==
  ASSUME NEW T, T \subseteq Nat, T # {}
  PROVE  \E m \in T : \A k \in T : m <= k
PROOF
<1> DEFINE R == {p \in Nat \X Nat : p[1] < p[2]}
<1>1. OpToRel(<, Nat) = R
  BY DEF OpToRel
<1>2. IsWellFoundedOn(R, Nat)
  BY <1>1, NatLessThanWellFounded
<1>3. PICK m \in T : \A y \in T : ~ (<<y, m>> \in R)
  <2> HIDE DEF R
  <2> QED BY <1>2, WFMin
<1>4. ASSUME NEW k \in T PROVE m <= k
  <2>1. k \in Nat /\ m \in Nat
    OBVIOUS
  <2>2. ~ (<<k, m>> \in R)
    BY <1>3
  <2> QED BY <2>1, <2>2
<1> QED BY <1>4

(* What holds of 0 and goes on from each number to the next holds up to n.  *)
LEMMA UpTo ==
  ASSUME NEW n \in Nat, NEW P, 0 \in P, \A k \in 1 .. n : k - 1 \in P => k \in P
  PROVE  \A k \in 0 .. n : k \in P
PROOF
<1> DEFINE T == {k \in 0 .. n : k \notin P}
<1>1. SUFFICES ASSUME T # {} PROVE FALSE
  OBVIOUS
<1>2. PICK m \in T : \A k \in T : m <= k
  <2>1. T \subseteq Nat
    OBVIOUS
  <2> HIDE DEF T
  <2> QED BY <1>1, <2>1, NatMinimum
<1>3. m \in 1 .. n /\ m - 1 \in 0 .. n
  OBVIOUS
<1>4. m - 1 \in P
  BY <1>2, <1>3
<1> QED BY <1>3, <1>4

(* The intermediate results of a loop whose body is the function F. *)
Results(f, F, S, start, n) ==
  /\ f \in [0 .. n -> S]
  /\ f[0] = start
  /\ \A k \in 1 .. n : f[k] = F[<<f[k - 1], k>>]

(* There are such results.                                                  *)
LEMMA LoopFunction ==
  ASSUME NEW n \in Nat, NEW S, NEW start \in S, NEW F \in [S \X (1 .. n) -> S]
  PROVE  \E f : Results(f, F, S, start, n)
PROOF
<1> USE DEF Results
<1> DEFINE Runs(f, m) == Results(f, F, S, start, m)
           P == {m \in 0 .. n : \E f : Runs(f, m)}
<1>1. 0 \in P
  <2> DEFINE f == [k \in 0 .. 0 |-> start]
  <2>1. Runs(f, 0)
    OBVIOUS
  <2> HIDE DEF f, Runs
  <2> QED BY <2>1
<1>2. ASSUME NEW m \in 1 .. n, m - 1 \in P
      PROVE  m \in P
  <2>1. PICK f : Runs(f, m - 1)
    BY <1>2
  <2> DEFINE last == F[<<f[m - 1], m>>]
             g == [k \in 0 .. m |-> IF k = m THEN last ELSE f[k]]
  <2>2. f[m - 1] \in S /\ m - 1 \in 0 .. m - 1 /\ m \in Nat \ {0}
    BY <2>1
  <2>3. last \in S
    BY <2>2
  <2>4. g[m] = last /\ \A k \in 0 .. m - 1 : g[k] = f[k]
    <3> HIDE DEF last
    <3> QED BY <2>2
  <2>5. g \in [0 .. m -> S]
    <3> HIDE DEF last
    <3>1. \A k \in 0 .. m : k # m => k \in 0 .. m - 1
      BY <2>2
    <3> QED BY <2>1, <2>3, <3>1
  <2>6. g[0] = start
    BY <2>1, <2>4, <2>2
  <2> HIDE DEF g
  <2>7. \A k \in 1 .. m : g[k] = F[<<g[k - 1], k>>]
    <3>1. ASSUME NEW k \in 1 .. m PROVE g[k] = F[<<g[k - 1], k>>]
      <4>1. k - 1 \in 0 .. m - 1 /\ g[k - 1] = f[k - 1]
        BY <2>4, <2>2
      <4>2. CASE k = m
        BY <4>1, <4>2, <2>4
      <4>3. CASE k # m
        <5>1. k \in 1 .. m - 1 /\ k \in 0 .. m - 1
          BY <4>3, <2>2
        <5> QED BY <4>1, <5>1, <2>4, <2>1
      <4> QED BY <4>2, <4>3
    <3> QED BY <3>1
  <2>8. Runs(g, m)
    BY <2>5, <2>6, <2>7
  <2> HIDE DEF Runs
  <2> QED BY <2>8
<1>3. n \in P
  <2> HIDE DEF P
  <2> QED BY <1>1, <1>2, UpTo
<1> QED BY <1>3

(* Two sequences, one behind the other.                                     *)
LEMMA Joined ==
  ASSUME NEW S, NEW a \in Seq(S), NEW b \in Seq(S)
  PROVE  /\ a \o b \in Seq(S) /\ Len(a \o b) = Len(a) + Len(b)
         /\ \A k \in 1 .. Len(a) : (a \o b)[k] = a[k]
         /\ \A k \in 1 .. Len(b) : (a \o b)[Len(a) + k] = b[k]
PROOF
<1> DEFINE c == a \o b
<1>1. c \in Seq(S) /\ Len(c) = Len(a) + Len(b)
  OBVIOUS
<1>2. \A k \in 1 .. Len(a) : c[k] = a[k]
  OBVIOUS
<1>3. \A k \in 1 .. Len(b) : c[Len(a) + k] = b[k]
  OBVIOUS
<1> QED BY <1>1, <1>2, <1>3

(* Sequences of bits, as one predicate: the provers keep its terms whole.   *)
BitString(s) == s \in Seq({0, 1})

LEMMA JoinedBits ==
  ASSUME NEW a, NEW b, BitString(a), BitString(b)
  PROVE  /\ BitString(a \o b) /\ Len(a \o b) = Len(a) + Len(b)
         /\ Len(a) \in Nat /\ Len(b) \in Nat
         /\ \A k \in 1 .. Len(a) : (a \o b)[k] = a[k]
         /\ \A k \in 1 .. Len(b) : (a \o b)[Len(a) + k] = b[k]
PROOF
<1>1. a \in Seq({0, 1}) /\ b \in Seq({0, 1})
  BY DEF BitString
<1> DEFINE S == {0, 1}
<1>2. a \in Seq(S) /\ b \in Seq(S)
  BY <1>1
<1> HIDE DEF S
<1>3. /\ a \o b \in Seq(S) /\ Len(a \o b) = Len(a) + Len(b)
      /\ \A k \in 1 .. Len(a) : (a \o b)[k] = a[k]
      /\ \A k \in 1 .. Len(b) : (a \o b)[Len(a) + k] = b[k]
  BY <1>2, Joined
<1>4. Len(a) \in Nat /\ Len(b) \in Nat
  BY <1>2
<1> QED BY <1>3, <1>4 DEF BitString, S
-----------------------------------------------------------------------------
(* Powers of two. *)
PowerOf2(n) == 2^n

(* The powers that codes and values need, as numbers and by doubling.       *)
LEMMA Doubles ==
  ASSUME NEW n \in 0 .. 25
  PROVE  2^(n + 1) = 2 * 2^n /\ 2^n \in Nat \ {0}
PROOF
<1>1. /\ PowerOf2(0) = 1 /\ PowerOf2(1) = 2 /\ PowerOf2(2) = 4 /\ PowerOf2(3) = 8
      /\ PowerOf2(4) = 16 /\ PowerOf2(5) = 32 /\ PowerOf2(6) = 64
      /\ PowerOf2(7) = 128 /\ PowerOf2(8) = 256 /\ PowerOf2(9) = 512
      /\ PowerOf2(10) = 1024 /\ PowerOf2(11) = 2048 /\ PowerOf2(12) = 4096
      /\ PowerOf2(13) = 8192 /\ PowerOf2(14) = 16384 /\ PowerOf2(15) = 32768
  BY DEF PowerOf2
<1>2. /\ PowerOf2(16) = 65536 /\ PowerOf2(17) = 131072 /\ PowerOf2(18) = 262144
      /\ PowerOf2(19) = 524288 /\ PowerOf2(20) = 1048576 /\ PowerOf2(21) = 2097152
      /\ PowerOf2(22) = 4194304 /\ PowerOf2(23) = 8388608 /\ PowerOf2(24) = 16777216
      /\ PowerOf2(25) = 33554432 /\ PowerOf2(26) = 67108864
  BY DEF PowerOf2
<1>3. PowerOf2(n + 1) = 2 * PowerOf2(n) /\ PowerOf2(n) \in Nat \ {0}
  BY <1>1, <1>2
<1> QED BY <1>3 DEF PowerOf2

(* Halving what a division by y leaves of x divides it by 2 * y. *)
LEMMA Halved ==
  ASSUME NEW x \in Nat, NEW y \in Nat \ {0}
  PROVE  /\ x \div y \in Nat
         /\ (x \div y) % 2 \in {0, 1}
         /\ x \div y = 2 * (x \div (2 * y)) + ((x \div y) % 2)
PROOF
<1>1. x \div y \in Nat /\ (x \div y) % 2 \in {0, 1}
  BY Z3
<1>2. x \div y = 2 * (x \div (2 * y)) + ((x \div y) % 2)
  BY Z3
<1> QED BY <1>1, <1>2

-----------------------------------------------------------------------------
(* BitReader.  The bits of a reader are zeros and ones. *)
IsBits(r) == r.bits \in Seq({0, 1})

(* A bit of a reader, past its end included, is a bit.                      *)
LEMMA BitIs ==
  ASSUME NEW r, IsBits(r), NEW k \in Nat \ {0}
  PROVE  BitAt(r, k) \in {0, 1}
PROOF
  BY DEF IsBits, BitAt

(* The values of the first bits of those read. *)
Values(r, p, n, v) ==
  /\ v[0] = 0
  /\ \A k \in 0 .. n : v[k] \in Nat
  /\ \A k \in 1 .. n : v[k] = 2 * v[k - 1] + BitAt(r, p + k)

(* There is one way to compute them.                                        *)
LEMMA ValuesUnique ==
  ASSUME NEW r, NEW p, NEW n \in Nat, NEW v, NEW w, Values(r, p, n, v), Values(r, p, n, w)
  PROVE  \A k \in 0 .. n : v[k] = w[k]
PROOF
<1> DEFINE P == {k \in 0 .. n : v[k] = w[k]}
<1>1. 0 \in P
  BY DEF Values
<1>2. \A k \in 1 .. n : k - 1 \in P => k \in P
  BY DEF Values
<1>3. \A k \in 0 .. n : k \in P
  <2> HIDE DEF P
  <2> QED BY <1>1, <1>2, UpTo
<1> QED BY <1>3

(* What get_bits computes: there are such values, and the last one is it.   *)
LEMMA ValueIs ==
  ASSUME NEW r, IsBits(r), NEW p \in Nat, NEW n \in Nat
  PROVE  \E v : Values(r, p, n, v) /\ ValueAt(r, p, n) = v[n]
PROOF
<1> DEFINE step(v, k) == IF k = 0 THEN 0 ELSE 2 * v[k - 1] + BitAt(r, p + k)
           F == [a \in Nat \X (1 .. n) |-> 2 * a[1] + BitAt(r, p + a[2])]
           Eq(v) == v = [k \in 0 .. n |-> step(v, k)]
           value == CHOOSE v : Eq(v)
<1>0. \A k \in 1 .. n : BitAt(r, p + k) \in Nat
  <2>1. \A k \in 1 .. n : p + k \in Nat \ {0}
    OBVIOUS
  <2> QED BY <2>1, BitIs
<1>1. F \in [Nat \X (1 .. n) -> Nat]
  <2>1. \A a \in Nat \X (1 .. n) : a[1] \in Nat /\ a[2] \in 1 .. n
    OBVIOUS
  <2>2. ASSUME NEW a \in Nat \X (1 .. n)
        PROVE  2 * a[1] + BitAt(r, p + a[2]) \in Nat
    <3>1. a[1] \in Nat /\ a[2] \in 1 .. n
      BY <2>1
    <3>2. BitAt(r, p + a[2]) \in Nat
      BY <1>0, <3>1
    <3> QED BY <3>1, <3>2
  <2> QED BY <2>2
<1>2. PICK v : Results(v, F, Nat, 0, n)
  <2> HIDE DEF F
  <2>1. 0 \in Nat
    OBVIOUS
  <2> QED BY <1>1, <2>1, LoopFunction
<1>3. Values(r, p, n, v)
  <2>1. \A k \in 1 .. n : v[k - 1] \in Nat
    BY <1>2 DEF Results
  <2>2. \A k \in 1 .. n : F[<<v[k - 1], k>>] = 2 * v[k - 1] + BitAt(r, p + k)
    BY <2>1
  <2> HIDE DEF F
  <2> QED BY <1>2, <2>2 DEF Results, Values
<1>4. Eq(v)
  <2>1. v = [k \in 0 .. n |-> v[k]]
    BY <1>2 DEF Results
  <2>2. \A k \in 0 .. n : v[k] = step(v, k)
    <3>1. \A k \in 0 .. n : k = 0 \/ k \in 1 .. n
      OBVIOUS
    <3> QED BY <1>3, <3>1 DEF Values
  <2> QED BY <2>1, <2>2
<1>5. Eq(value)
  <2> HIDE DEF Eq
  <2> QED BY <1>4
<1>6. ValueAt(r, p, n) = value[n]
  BY DEF ValueAt
<1> HIDE DEF value, F
<1>7. Values(r, p, n, value)
  <2>1. value = [k \in 0 .. n |-> step(value, k)]
    BY <1>5
  <2> DEFINE P == {k \in 0 .. n : value[k] \in Nat}
  <2>2. \A k \in 0 .. n : value[k] = step(value, k)
    BY <2>1
  <2>3. 0 \in P
    BY <2>2
  <2>4. \A k \in 1 .. n : k - 1 \in P => k \in P
    <3>1. ASSUME NEW k \in 1 .. n, k - 1 \in P PROVE k \in P
      <4>1. value[k] = 2 * value[k - 1] + BitAt(r, p + k) /\ value[k - 1] \in Nat
        BY <2>2, <3>1
      <4> QED BY <4>1, <1>0
    <3> QED BY <3>1
  <2>5. \A k \in 0 .. n : k \in P
    <3> HIDE DEF P
    <3> QED BY <2>3, <2>4, UpTo
  <2>6. \A k \in 1 .. n : k \in 0 .. n /\ k # 0
    OBVIOUS
  <2>7. value[0] = 0
    BY <2>2
  <2>8. \A k \in 1 .. n : value[k] = 2 * value[k - 1] + BitAt(r, p + k)
    BY <2>2, <2>6
  <2> QED BY <2>5, <2>7, <2>8 DEF Values
<1> QED BY <1>6, <1>7

(* A value of one bit more is twice the value, and the bit.                 *)
LEMMA ValueStep ==
  ASSUME NEW r, IsBits(r), NEW p \in Nat, NEW n \in Nat
  PROVE  /\ ValueAt(r, p, n) \in Nat
         /\ ValueAt(r, p, 0) = 0
         /\ ValueAt(r, p, n + 1) = 2 * ValueAt(r, p, n) + BitAt(r, p + (n + 1))
PROOF
<1>1. PICK v : Values(r, p, n + 1, v) /\ ValueAt(r, p, n + 1) = v[n + 1]
  BY ValueIs, n + 1 \in Nat
<1>2. PICK w : Values(r, p, n, w) /\ ValueAt(r, p, n) = w[n]
  BY ValueIs
<1>3. PICK z : Values(r, p, 0, z) /\ ValueAt(r, p, 0) = z[0]
  BY ValueIs, 0 \in Nat
<1>4. Values(r, p, n, v)
  <2>1. \A k \in 0 .. n : k \in 0 .. n + 1
    OBVIOUS
  <2>2. \A k \in 1 .. n : k \in 1 .. n + 1
    OBVIOUS
  <2> QED BY <1>1, <2>1, <2>2 DEF Values
<1>5. v[n] = w[n]
  <2>1. n \in 0 .. n
    OBVIOUS
  <2> QED BY <1>2, <1>4, <2>1, ValuesUnique
<1>6. v[n + 1] = 2 * v[n] + BitAt(r, p + (n + 1))
  <2>1. n + 1 \in 1 .. n + 1 /\ (n + 1) - 1 = n
    OBVIOUS
  <2> QED BY <1>1, <2>1 DEF Values
<1>7. w[n] \in Nat /\ z[0] = 0
  <2>1. n \in 0 .. n
    OBVIOUS
  <2> QED BY <1>2, <1>3, <2>1 DEF Values
<1> QED BY <1>1, <1>2, <1>3, <1>5, <1>6, <1>7

(* Values are numbers.                                                      *)
LEMMA ValueType ==
  ASSUME NEW r, IsBits(r), NEW p \in Nat, NEW n \in Nat
  PROVE  ValueAt(r, p, n) \in Nat
PROOF
  BY ValueStep

(* A single bit. *)
LEMMA ValueOne ==
  ASSUME NEW r, IsBits(r), NEW p \in Nat
  PROVE  ValueAt(r, p, 1) = BitAt(r, p + 1) /\ ValueAt(r, p, 1) \in {0, 1}
PROOF
<1>1. /\ ValueAt(r, p, 0) = 0
      /\ ValueAt(r, p, 0 + 1) = 2 * ValueAt(r, p, 0) + BitAt(r, p + (0 + 1))
  <2>1. 0 \in Nat
    OBVIOUS
  <2> QED BY <2>1, ValueStep
<1>2. BitAt(r, p + 1) \in {0, 1}
  BY BitIs, p + 1 \in Nat \ {0}
<1> QED BY <1>1, <1>2

(* A value has no more bits than were read. *)
LEMMA ValueBound ==
  ASSUME NEW r, IsBits(r), NEW p \in Nat, NEW n \in 0 .. 26
  PROVE  ValueAt(r, p, n) \in 0 .. 2^n - 1
PROOF
<1> DEFINE P == {k \in 0 .. n : ValueAt(r, p, k) < 2^k}
<1>1. 0 \in P
  <2>1. ValueAt(r, p, 0) = 0
    BY ValueStep
  <2>2. 2^0 = 1
    OBVIOUS
  <2> QED BY <2>1, <2>2
<1>2. ASSUME NEW k \in 1 .. n, k - 1 \in P PROVE k \in P
  <2> DEFINE j == k - 1
  <2>1. j \in 0 .. 25 /\ j \in Nat /\ k = j + 1 /\ k \in 0 .. n
    OBVIOUS
  <2>2. ValueAt(r, p, j) < 2^j
    BY <1>2
  <2> HIDE DEF j
  <2>3. /\ ValueAt(r, p, j) \in Nat
        /\ ValueAt(r, p, j + 1) = 2 * ValueAt(r, p, j) + BitAt(r, p + (j + 1))
    BY <2>1, ValueStep
  <2>4. BitAt(r, p + (j + 1)) \in {0, 1}
    BY <2>1, BitIs, p + (j + 1) \in Nat \ {0}
  <2>5. 2^(j + 1) = 2 * 2^j /\ 2^j \in Nat \ {0}
    BY <2>1, Doubles
  <2>6. ValueAt(r, p, j + 1) < 2^(j + 1)
    BY <2>2, <2>3, <2>4, <2>5
  <2> QED BY <2>1, <2>6
<1>3. n \in P
  <2> HIDE DEF P
  <2>1. \A k \in 0 .. n : k \in P
    BY <1>1, <1>2, UpTo
  <2> QED BY <2>1
<1>4. ValueAt(r, p, n) \in Nat
  BY ValueType
<1>5. ValueAt(r, p, n) < 2^n
  BY <1>3
<1>6. 2^n \in Nat
  <2>1. CASE n = 26
    <3>1. 2^n = 67108864
      BY <2>1
    <3> QED BY <3>1
  <2>2. CASE n # 26
    <3>1. n \in 0 .. 25
      BY <2>2
    <3> QED BY <3>1, Doubles
  <2> QED BY <2>1, <2>2
<1> QED BY <1>4, <1>5, <1>6

(* Bits that agree have the same value. *)
Agree(r, p, s, q, n) == \A k \in 1 .. n : BitAt(r, p + k) = BitAt(s, q + k)

LEMMA ValueAgree ==
  ASSUME NEW r, IsBits(r), NEW s, IsBits(s), NEW p \in Nat, NEW q \in Nat,
         NEW n \in Nat, Agree(r, p, s, q, n)
  PROVE  ValueAt(r, p, n) = ValueAt(s, q, n)
PROOF
<1> DEFINE P == {k \in 0 .. n : ValueAt(r, p, k) = ValueAt(s, q, k)}
<1>1. 0 \in P
  <2>1. 0 \in Nat
    OBVIOUS
  <2>2. ValueAt(r, p, 0) = 0 /\ ValueAt(s, q, 0) = 0
    BY <2>1, ValueStep
  <2> QED BY <2>2
<1>2. ASSUME NEW k \in 1 .. n, k - 1 \in P PROVE k \in P
  <2> DEFINE j == k - 1
  <2>1. j \in Nat /\ k = j + 1 /\ k \in 0 .. n /\ k \in 1 .. n
    OBVIOUS
  <2>2. ValueAt(r, p, j) = ValueAt(s, q, j)
    BY <1>2
  <2> HIDE DEF j
  <2>3. ValueAt(r, p, j + 1) = 2 * ValueAt(r, p, j) + BitAt(r, p + (j + 1))
    BY <2>1, ValueStep
  <2>4. ValueAt(s, q, j + 1) = 2 * ValueAt(s, q, j) + BitAt(s, q + (j + 1))
    BY <2>1, ValueStep
  <2>5. BitAt(r, p + (j + 1)) = BitAt(s, q + (j + 1))
    BY <2>1 DEF Agree
  <2>6. ValueAt(r, p, j + 1) = ValueAt(s, q, j + 1)
    BY <2>2, <2>3, <2>4, <2>5
  <2> QED BY <2>1, <2>6
<1>3. \A k \in 0 .. n : k \in P
  <2> HIDE DEF P
  <2> QED BY <1>1, <1>2, UpTo
<1>4. n \in P
  BY <1>3
<1> QED BY <1>4

(* Reading what BitsOf has written. *)
LEMMA ValueOfBits ==
  ASSUME NEW r, IsBits(r), NEW p \in Nat, NEW n \in 0 .. 25, NEW v \in 0 .. 2^n - 1,
         \A k \in 1 .. n : BitAt(r, p + k) = BitsOf(v, n)[k]
  PROVE  ValueAt(r, p, n) = v
PROOF
<1> DEFINE P == {k \in 0 .. n : ValueAt(r, p, k) = v \div 2^(n - k)}
<1>0. v \in Nat
  OBVIOUS
<1>1. 0 \in P
  <2>1. ValueAt(r, p, 0) = 0
    BY ValueStep
  <2>2. n - 0 = n /\ 0 \in 0 .. n
    OBVIOUS
  <2>3. 2^n \in Nat \ {0}
    BY Doubles
  <2> DEFINE y == 2^n
  <2>4. v < y /\ y \in Nat \ {0}
    BY <2>3
  <2> HIDE DEF y
  <2>5. v \div y = 0
    BY <1>0, <2>4, Z3
  <2>6. v \div 2^(n - 0) = 0
    BY <2>2, <2>5 DEF y
  <2> QED BY <2>1, <2>2, <2>6
<1>2. ASSUME NEW k \in 1 .. n, k - 1 \in P PROVE k \in P
  <2> DEFINE j == k - 1
             m == n - k
  <2>1. j \in Nat /\ k = j + 1 /\ k \in 0 .. n /\ k \in 1 .. n /\ m \in 0 .. 25 /\ n - j = m + 1
    OBVIOUS
  <2>2. ValueAt(r, p, j) = v \div 2^(n - j)
    BY <1>2
  <2>3. BitAt(r, p + k) = (v \div 2^m) % 2
    BY <2>1 DEF BitsOf
  <2> HIDE DEF j, m
  <2>4. ValueAt(r, p, j + 1) = 2 * ValueAt(r, p, j) + BitAt(r, p + (j + 1))
    BY <2>1, ValueStep
  <2>5. 2^(m + 1) = 2 * 2^m /\ 2^m \in Nat \ {0}
    BY <2>1, Doubles
  <2>6. v \div 2^m = 2 * (v \div (2 * 2^m)) + ((v \div 2^m) % 2)
    BY <1>0, <2>5, Halved
  <2>7. ValueAt(r, p, j) = v \div (2 * 2^m)
    BY <2>1, <2>2, <2>5
  <2>8. ValueAt(r, p, k) = v \div 2^m
    BY <2>1, <2>3, <2>4, <2>6, <2>7
  <2> QED BY <2>1, <2>8 DEF m
<1>3. \A k \in 0 .. n : k \in P
  <2> HIDE DEF P
  <2> QED BY <1>1, <1>2, UpTo
<1>4. ValueAt(r, p, n) = v \div 2^(n - n)
  <2>1. n \in 0 .. n
    OBVIOUS
  <2> QED BY <1>3, <2>1
<1>5. n - n = 0 /\ 2^0 = 1
  OBVIOUS
<1>6. v \div 1 = v
  BY <1>0
<1> QED BY <1>4, <1>5, <1>6

-----------------------------------------------------------------------------
(* TOKEN_TABLE.  The codes of each length, and what is behind each code.    *)
CodeIs(len, code) ==
  \/ len = 1 /\ code = 0
  \/ len = 5 /\ (code \in 17 .. 21 \/ code \in 24 .. 25)
  \/ len = 6 /\ (code \in 44 .. 45 \/ code \in 52 .. 54)
  \/ len = 7 /\ (code \in 92 .. 93 \/ code \in 110 .. 125)
  \/ len = 8 /\ (code \in 188 .. 189 \/ code \in 252 .. 255)
  \/ len = 9 /\ code \in 380 .. 382

(* The byte of a literal code and the row of a match code, by their numbers.*)
LiteralBase(len, code) ==
  IF len = 1 THEN 0
  ELSE IF len = 5 THEN code - 24
  ELSE IF len = 6 THEN IF code = 54 THEN 255 ELSE code - 50
  ELSE IF len = 7 THEN IF code = 125 THEN 128 ELSE IF code <= 117 THEN code - 106 ELSE code - 60
  ELSE IF code = 252 THEN 12 ELSE IF code = 255 THEN 102 ELSE code - 197

MatchIs(code, len, bits, base) ==
  \/ code = 17 /\ len = 5 /\ bits = 5 /\ base = 0
  \/ code = 18 /\ len = 5 /\ bits = 7 /\ base = 32
  \/ code = 19 /\ len = 5 /\ bits = 9 /\ base = 160
  \/ code = 20 /\ len = 5 /\ bits = 10 /\ base = 672
  \/ code = 21 /\ len = 5 /\ bits = 12 /\ base = 1696
  \/ code = 44 /\ len = 6 /\ bits = 14 /\ base = 5792
  \/ code = 45 /\ len = 6 /\ bits = 15 /\ base = 22176
  \/ code = 92 /\ len = 7 /\ bits = 18 /\ base = 54944
  \/ code = 93 /\ len = 7 /\ bits = 20 /\ base = 317088
  \/ code = 188 /\ len = 8 /\ bits = 20 /\ base = 1365664
  \/ code = 189 /\ len = 8 /\ bits = 21 /\ base = 2414240
  \/ code = 380 /\ len = 9 /\ bits = 22 /\ base = 4511392
  \/ code = 381 /\ len = 9 /\ bits = 23 /\ base = 8705696
  \/ code = 382 /\ len = 9 /\ bits = 24 /\ base = 17094304

(* The rows of Literals and of Matches are those, and no others.            *)
LEMMA LiteralsAre ==
  ASSUME NEW row \in Literals
  PROVE  /\ row.match = FALSE /\ row.len \in 1 .. 8 /\ row.code \in Nat
         /\ row.bits = IF row.len = 1 THEN 8 ELSE 0
         /\ row.base \in 0 .. 255 /\ row.base = LiteralBase(row.len, row.code)
         /\ CodeIs(row.len, row.code)
PROOF
<1>0. row.match = FALSE
  BY DEF Literals, Row
<1>1. /\ row.len \in 1 .. 8 /\ row.code \in Nat
      /\ row.bits = IF row.len = 1 THEN 8 ELSE 0
      /\ row.base \in 0 .. 255
  BY DEF Literals, Row
<1>2. row.base = LiteralBase(row.len, row.code)
  BY DEF Literals, Row, LiteralBase
<1>3. CodeIs(row.len, row.code)
  BY DEF Literals, Row, CodeIs
<1> QED BY <1>0, <1>1, <1>2, <1>3

LEMMA MatchesAre ==
  ASSUME NEW row \in Matches
  PROVE  /\ row.match = TRUE
         /\ MatchIs(row.code, row.len, row.bits, row.base)
PROOF
<1>1. row.match = TRUE
  BY DEF Matches, Row
<1>2. MatchIs(row.code, row.len, row.bits, row.base)
  BY DEF Matches, Row, MatchIs
<1> QED BY <1>1, <1>2

LEMMA MatchNumbers ==
  ASSUME NEW code, NEW len, NEW bits, NEW base, MatchIs(code, len, bits, base)
  PROVE  /\ len \in 5 .. 9 /\ code \in 17 .. 382 /\ bits \in 5 .. 24
         /\ base \in Nat
         /\ CodeIs(len, code)
PROOF
<1>1. /\ len \in 5 .. 9 /\ code \in 17 .. 382 /\ bits \in 5 .. 24
      /\ base \in Nat
  BY DEF MatchIs
<1>2. CodeIs(len, code)
  BY DEF MatchIs, CodeIs
<1> QED BY <1>1, <1>2

(* A row of the table. *)
RowOK(row) ==
  /\ row.len \in 1 .. 9 /\ row.code \in Nat /\ row.bits \in 0 .. 24
  /\ row.base \in Nat /\ row.match \in BOOLEAN
  /\ CodeIs(row.len, row.code)
  /\ row.match => row \in Matches
  /\ ~row.match => row \in Literals

LEMMA TableRows ==
  ASSUME NEW row \in TokenTable
  PROVE  RowOK(row)
PROOF
<1>1. CASE row \in Literals
  <2>1. /\ row.match = FALSE /\ row.len \in 1 .. 8 /\ row.code \in Nat
        /\ row.bits = IF row.len = 1 THEN 8 ELSE 0
        /\ row.base \in 0 .. 255 /\ CodeIs(row.len, row.code)
    BY <1>1, LiteralsAre
  <2>2. row.match \in BOOLEAN /\ ~row.match
    BY <2>1, Zenon
  <2>3. row.bits \in 0 .. 24 /\ row.len \in 1 .. 9 /\ row.base \in Nat
    BY <2>1
  <2>4. (row.match => row \in Matches) /\ (~row.match => row \in Literals)
    BY <1>1, <2>2, Zenon
  <2> QED BY <2>1, <2>2, <2>3, <2>4, Zenon DEF RowOK
<1>2. CASE row \in Matches
  <2>1. row.match = TRUE /\ row.match /\ MatchIs(row.code, row.len, row.bits, row.base)
    BY <1>2, MatchesAre
  <2>2. /\ row.len \in 5 .. 9 /\ row.code \in 17 .. 382 /\ row.bits \in 5 .. 24
        /\ row.base \in Nat /\ CodeIs(row.len, row.code)
    BY <2>1, MatchNumbers
  <2> QED BY <1>2, <2>1, <2>2 DEF RowOK
<1> QED BY <1>1, <1>2 DEF TokenTable

(* A row is found by its code. *)
LEMMA SameMatch ==
  ASSUME NEW code, NEW len, NEW bits, NEW base, NEW bits2, NEW base2,
         MatchIs(code, len, bits, base), MatchIs(code, len, bits2, base2)
  PROVE  bits = bits2 /\ base = base2
PROOF
  BY DEF MatchIs

SameRow(row, other) ==
  row.len = other.len /\ row.bits = other.bits /\ row.match = other.match /\ row.base = other.base

(* A code is of one row only.                                               *)
LEMMA RowUnique ==
  ASSUME NEW row \in TokenTable, NEW other \in TokenTable,
         row.len = other.len, row.code = other.code
  PROVE  SameRow(row, other)
PROOF
<1>0. row.len = other.len /\ row.code = other.code
  OBVIOUS
<1>1. CASE row \in Literals /\ other \in Literals
  <2>1. /\ row.match = FALSE
        /\ row.bits = IF row.len = 1 THEN 8 ELSE 0
        /\ row.base = LiteralBase(row.len, row.code)
    BY <1>1, LiteralsAre
  <2>2. /\ other.match = FALSE
        /\ other.bits = IF other.len = 1 THEN 8 ELSE 0
        /\ other.base = LiteralBase(other.len, other.code)
    BY <1>1, LiteralsAre
  <2> QED BY <2>1, <2>2, <1>0 DEF SameRow
<1>2. CASE row \in Matches /\ other \in Matches
  <2>1. /\ row.match = TRUE /\ MatchIs(row.code, row.len, row.bits, row.base)
    BY <1>2, MatchesAre
  <2>2. /\ other.match = TRUE /\ MatchIs(other.code, other.len, other.bits, other.base)
    BY <1>2, MatchesAre
  <2>3. row.bits = other.bits /\ row.base = other.base
    BY <2>1, <2>2, SameMatch
  <2> QED BY <2>1, <2>2, <2>3, <1>0 DEF SameRow
<1>3. ASSUME NEW a \in Literals, NEW b \in Matches, a.len = b.len, a.code = b.code
      PROVE  FALSE
  <2>1. \/ a.len = 1 /\ a.code = 0
        \/ a.len = 5 /\ a.code >= 24
        \/ a.len = 6 /\ a.code >= 52
        \/ a.len = 7 /\ a.code >= 110
        \/ a.len = 8 /\ a.code >= 252
    BY <1>3 DEF Literals, Row
  <2>2. MatchIs(b.code, b.len, b.bits, b.base)
    BY <1>3, MatchesAre
  <2> QED BY <2>1, <2>2, <1>3 DEF MatchIs
<1> QED BY <1>1, <1>2, <1>3 DEF TokenTable

(* The code is prefix-free (zgfx.rs:22): no code begins another one, so     *)
(* that decode_token finds at most one row at any place of any bits,        *)
(* whatever the order of the table (zgfx.rs:127-136).                       *)
THEOREM PrefixFree ==
  ASSUME NEW r, IsBits(r), NEW p \in Nat, NEW row \in TokenTable, NEW other \in TokenTable,
         ValueAt(r, p, row.len) = row.code, ValueAt(r, p, other.len) = other.code
  PROVE  SameRow(row, other)
PROOF
<1> DEFINE v(n) == ValueAt(r, p, n)
<1>1. ASSUME NEW n \in Nat
      PROVE  v(n) \in Nat /\ v(n + 1) \in 2 * v(n) .. 2 * v(n) + 1
  <2>1. /\ ValueAt(r, p, n) \in Nat
        /\ ValueAt(r, p, n + 1) = 2 * ValueAt(r, p, n) + BitAt(r, p + (n + 1))
    BY ValueStep
  <2>2. BitAt(r, p + (n + 1)) \in {0, 1}
    BY BitIs, p + (n + 1) \in Nat \ {0}
  <2> QED BY <2>1, <2>2
<1>2. /\ v(2) \in 2 * v(1) .. 2 * v(1) + 1 /\ v(3) \in 2 * v(2) .. 2 * v(2) + 1
      /\ v(4) \in 2 * v(3) .. 2 * v(3) + 1 /\ v(5) \in 2 * v(4) .. 2 * v(4) + 1
      /\ v(6) \in 2 * v(5) .. 2 * v(5) + 1 /\ v(7) \in 2 * v(6) .. 2 * v(6) + 1
      /\ v(8) \in 2 * v(7) .. 2 * v(7) + 1 /\ v(9) \in 2 * v(8) .. 2 * v(8) + 1
      /\ v(1) \in Nat /\ v(2) \in Nat /\ v(3) \in Nat /\ v(4) \in Nat /\ v(5) \in Nat
      /\ v(6) \in Nat /\ v(7) \in Nat /\ v(8) \in Nat /\ v(9) \in Nat
  <2> HIDE DEF v
  <2> QED BY <1>1, 1 + 1 = 2, 2 + 1 = 3, 3 + 1 = 4, 4 + 1 = 5, 5 + 1 = 6, 6 + 1 = 7, 7 + 1 = 8, 8 + 1 = 9
<1>3. v(row.len) = row.code /\ v(other.len) = other.code
  OBVIOUS
<1>4. CodeIs(row.len, row.code) /\ CodeIs(other.len, other.code)
  BY TableRows DEF RowOK
<1> HIDE DEF v
<1>5. row.len = other.len
  <2>1. ASSUME NEW l, NEW m, CodeIs(l, v(l)), CodeIs(m, v(m))
        PROVE  ~ (l < m)
    BY <1>2, <2>1 DEF CodeIs
  <2>2. row.len \in Nat /\ other.len \in Nat
    BY TableRows DEF RowOK
  <2>3. CodeIs(row.len, v(row.len)) /\ CodeIs(other.len, v(other.len))
    BY <1>3, <1>4
  <2> QED BY <2>1, <2>2, <2>3
<1> QED BY <1>3, <1>5, RowUnique

-----------------------------------------------------------------------------
(* Lengths: the ones that come before the first zero.                       *)
OnesAt(r, p, ones) ==
  /\ ones \in Nat
  /\ \A k \in 1 .. ones : BitAt(r, p + k) = 1
  /\ BitAt(r, p + ones + 1) = 0

(* At a place there is one number of ones.                                  *)
LEMMA OnesUnique ==
  ASSUME NEW r, NEW p \in Nat, NEW a, NEW b, OnesAt(r, p, a), OnesAt(r, p, b)
  PROVE  a = b
PROOF
<1>1. a \in Nat /\ b \in Nat
  BY DEF OnesAt
<1>2. CASE a < b
  <2>1. a + 1 \in 1 .. b /\ p + (a + 1) = p + a + 1
    BY <1>1, <1>2
  <2> QED BY <2>1 DEF OnesAt
<1>3. CASE b < a
  <2>1. b + 1 \in 1 .. a /\ p + (b + 1) = p + b + 1
    BY <1>1, <1>3
  <2> QED BY <2>1 DEF OnesAt
<1> QED BY <1>1, <1>2, <1>3

(* decode_length counts them: past the end of the bits there is a zero.     *)
LEMMA OnesIs ==
  ASSUME NEW r, IsBits(r), NEW p \in Nat, p = r.pos
  PROVE  OnesAt(r, p, Ones(r))
PROOF
<1> DEFINE Stop(n) == /\ ValueAt(r, p + n, 1) = 0
                      /\ \A k \in 1 .. n - 1 : ValueAt(r, p + k, 1) = 1
           ones == CHOOSE n \in 1 .. Len(r.bits) : Stop(n)
           T == {n \in Nat : n # 0 /\ BitAt(r, p + n + 1) = 0}
<1>1. \A n \in Nat : /\ ValueAt(r, p + n, 1) = BitAt(r, p + n + 1)
                     /\ BitAt(r, p + n + 1) \in {0, 1}
  <2>1. ASSUME NEW n \in Nat
        PROVE  /\ ValueAt(r, p + n, 1) = BitAt(r, p + n + 1)
               /\ BitAt(r, p + n + 1) \in {0, 1}
    BY ValueOne, p + n \in Nat
  <2> QED BY <2>1
<1>2. ValueAt(r, p, 1) = BitAt(r, p + 1) /\ BitAt(r, p + 1) \in {0, 1}
  BY ValueOne
<1>3. Ones(r) = IF ValueAt(r, p, 1) = 0 THEN 0 ELSE ones
  BY DEF Ones
<1>4. CASE BitAt(r, p + 1) = 0
  <2>1. Ones(r) = 0 /\ p + 0 + 1 = p + 1
    BY <1>2, <1>3, <1>4
  <2> QED BY <1>4, <2>1 DEF OnesAt
<1>5. CASE BitAt(r, p + 1) = 1
  <2>1. Len(r.bits) \in Nat /\ p + 1 <= Len(r.bits)
    BY <1>5 DEF BitAt, IsBits
  <2>2. Len(r.bits) \in T
    BY <2>1 DEF BitAt
  <2>3. PICK m \in T : \A k \in T : m <= k
    <3>1. T \subseteq Nat /\ T # {}
      BY <2>2
    <3> HIDE DEF T
    <3> QED BY <3>1, NatMinimum
  <2>4. m \in 1 .. Len(r.bits) /\ m \in Nat /\ BitAt(r, p + m + 1) = 0
    BY <2>1, <2>2, <2>3
  <2>5. \A k \in 1 .. m - 1 : k \in Nat /\ k \notin T
    <3>1. ASSUME NEW k \in 1 .. m - 1 PROVE k \in Nat /\ k \notin T
      <4>1. k \in Nat /\ ~ (m <= k)
        BY <2>4
      <4> HIDE DEF T
      <4> QED BY <4>1, <2>3
    <3> QED BY <3>1
  <2>6. \A k \in 1 .. m - 1 : BitAt(r, p + k + 1) = 1
    BY <2>5, <1>1
  <2>7. Stop(m)
    BY <1>1, <2>4, <2>5, <2>6
  <2>8. ones \in 1 .. Len(r.bits) /\ Stop(ones)
    <3> HIDE DEF Stop
    <3> QED BY <2>4, <2>7
  <2> HIDE DEF ones
  <2>9. Ones(r) = ones /\ ones \in Nat /\ ones # 0
    <3>1. ~ (ValueAt(r, p, 1) = 0)
      BY <1>2, <1>5
    <3>2. ones \in Nat /\ ones # 0
      BY <2>1, <2>8
    <3> QED BY <1>3, <3>1, <3>2
  <2>10. BitAt(r, p + ones + 1) = 0
    BY <1>1, <2>8, <2>9
  <2>11. \A k \in 1 .. ones : BitAt(r, p + k) = 1
    <3>1. ASSUME NEW k \in 1 .. ones PROVE BitAt(r, p + k) = 1
      <4>1. CASE k = 1
        BY <4>1, <1>5
      <4>2. CASE k # 1
        <5> DEFINE j == k - 1
        <5>1. j \in 1 .. ones - 1 /\ j \in Nat /\ k = j + 1
          BY <4>2, <2>9
        <5> HIDE DEF j
        <5>2. BitAt(r, p + j + 1) = 1
          BY <1>1, <2>8, <5>1
        <5>3. p + j + 1 = p + k
          BY <5>1
        <5> QED BY <5>2, <5>3
      <4> QED BY <4>1, <4>2
    <3> QED BY <3>1
  <2> QED BY <2>9, <2>10, <2>11 DEF OnesAt
<1> QED BY <1>2, <1>4, <1>5

-----------------------------------------------------------------------------
(* What is decoded at a place: a row and the value behind its code, and the *)
(* ones of a length and the length.                                         *)
HeadAt(r, p, row, v) ==
  /\ row \in TokenTable
  /\ ValueAt(r, p, row.len) = row.code
  /\ v = ValueAt(r, p + row.len, row.bits)

LengthAt(r, p, ones, n) ==
  /\ OnesAt(r, p, ones)
  /\ n = IF ones = 0 THEN 3
         ELSE 2 * 2^ones + ValueAt(r, p + ones + 1, LengthBits(ones))

HeadEnd(p, row) == p + row.len + row.bits
LengthEnd(p, ones) == p + ones + 1 + LengthBits(ones)

(* A place has one row and value, and one length.                           *)
LEMMA HeadUnique ==
  ASSUME NEW r, IsBits(r), NEW p \in Nat, NEW row, NEW v, NEW other, NEW w,
         HeadAt(r, p, row, v), HeadAt(r, p, other, w)
  PROVE  SameRow(row, other) /\ v = w /\ HeadEnd(p, row) = HeadEnd(p, other)
PROOF
<1>1. SameRow(row, other)
  BY PrefixFree DEF HeadAt
<1> QED BY <1>1 DEF SameRow, HeadAt, HeadEnd

LEMMA LengthUnique ==
  ASSUME NEW r, NEW p \in Nat, NEW a, NEW m, NEW b, NEW n,
         LengthAt(r, p, a, m), LengthAt(r, p, b, n)
  PROVE  a = b /\ m = n
PROOF
<1>1. a = b
  BY OnesUnique DEF LengthAt
<1> QED BY <1>1 DEF LengthAt

(* A place is decoded from the bits up to its end alone.                    *)
SameTo(r, s, end) == \A k \in 1 .. end : BitAt(r, k) = BitAt(s, k)

(* What two readers share is all they need to decode the same.              *)
LEMMA AgreeTo ==
  ASSUME NEW r, NEW s, NEW end \in Nat, SameTo(r, s, end), NEW p \in Nat, NEW n \in Nat,
         p + n <= end
  PROVE  Agree(r, p, s, p, n)
PROOF
<1>1. \A k \in 1 .. n : p + k \in 1 .. end
  OBVIOUS
<1> QED BY <1>1 DEF SameTo, Agree

LEMMA HeadLocal ==
  ASSUME NEW r, IsBits(r), NEW s, IsBits(s), NEW end \in Nat, SameTo(r, s, end),
         NEW p \in Nat, NEW row, NEW v, HeadAt(r, p, row, v), HeadEnd(p, row) <= end
  PROVE  HeadAt(s, p, row, v)
PROOF
<1>1. row.len \in Nat /\ row.bits \in Nat
  BY TableRows DEF HeadAt, RowOK
<1>2. /\ p + row.len \in Nat /\ p + row.len <= end
      /\ (p + row.len) + row.bits <= end
  BY <1>1 DEF HeadEnd
<1>3. Agree(r, p, s, p, row.len) /\ Agree(r, p + row.len, s, p + row.len, row.bits)
  BY <1>1, <1>2, AgreeTo
<1>4. ValueAt(r, p, row.len) = ValueAt(s, p, row.len)
  BY <1>1, <1>3, ValueAgree
<1>5. ValueAt(r, p + row.len, row.bits) = ValueAt(s, p + row.len, row.bits)
  BY <1>1, <1>2, <1>3, ValueAgree
<1> QED BY <1>4, <1>5 DEF HeadAt

LEMMA LengthLocal ==
  ASSUME NEW r, IsBits(r), NEW s, IsBits(s), NEW end \in Nat, SameTo(r, s, end),
         NEW p \in Nat, NEW ones, NEW n, LengthAt(r, p, ones, n), LengthEnd(p, ones) <= end
  PROVE  LengthAt(s, p, ones, n)
PROOF
<1>1. ones \in Nat /\ LengthBits(ones) \in Nat
  BY DEF LengthAt, OnesAt, LengthBits
<1>2. /\ p + ones + 1 \in Nat /\ p + ones + 1 <= end
      /\ (p + ones + 1) + LengthBits(ones) <= end
  BY <1>1 DEF LengthEnd
<1>3. OnesAt(s, p, ones)
  <2>1. \A k \in 1 .. ones : p + k \in 1 .. end
    BY <1>1, <1>2
  <2>2. p + ones + 1 \in 1 .. end
    BY <1>1, <1>2
  <2> QED BY <2>1, <2>2 DEF LengthAt, OnesAt, SameTo
<1>4. Agree(r, p + ones + 1, s, p + ones + 1, LengthBits(ones))
  BY <1>1, <1>2, AgreeTo
<1>5. ValueAt(r, p + ones + 1, LengthBits(ones)) = ValueAt(s, p + ones + 1, LengthBits(ones))
  BY <1>1, <1>2, <1>4, ValueAgree
<1> QED BY <1>3, <1>5 DEF LengthAt

-----------------------------------------------------------------------------
(* The bits of a code are the next ones of a reader.                        *)
Shows(r, p, bits) == \A k \in 1 .. Len(bits) : BitAt(r, p + k) = bits[k]

(* Codes one behind the other are shown one behind the other.               *)
LEMMA ShowsBoth ==
  ASSUME NEW r, NEW p \in Nat, NEW a \in Seq({0, 1}), NEW b \in Seq({0, 1}),
         Shows(r, p, a \o b)
  PROVE  /\ Shows(r, p, a) /\ Shows(r, p + Len(a), b)
         /\ a \o b \in Seq({0, 1}) /\ Len(a \o b) = Len(a) + Len(b)
PROOF
<1> DEFINE c == a \o b
<1>1. /\ Len(a) \in Nat /\ Len(b) \in Nat /\ Len(c) = Len(a) + Len(b)
      /\ c \in Seq({0, 1})
  OBVIOUS
<1>2. /\ \A k \in 1 .. Len(a) : c[k] = a[k]
      /\ \A k \in 1 .. Len(b) : c[Len(a) + k] = b[k]
  OBVIOUS
<1>3. \A k \in 1 .. Len(c) : BitAt(r, p + k) = c[k]
  BY DEF Shows
<1> HIDE DEF c
<1>4. Shows(r, p, a)
  <2>1. \A k \in 1 .. Len(a) : k \in 1 .. Len(c)
    BY <1>1
  <2> QED BY <1>2, <1>3, <2>1 DEF Shows
<1>5. ASSUME NEW k \in 1 .. Len(b)
      PROVE  BitAt(r, (p + Len(a)) + k) = b[k]
  <2>1. Len(a) + k \in 1 .. Len(c) /\ p + (Len(a) + k) = (p + Len(a)) + k
    BY <1>1
  <2>2. BitAt(r, p + (Len(a) + k)) = c[Len(a) + k]
    BY <1>3, <2>1
  <2> QED BY <1>2, <2>1, <2>2
<1> QED BY <1>1, <1>4, <1>5 DEF Shows, c

(* BitsOf writes as many bits as it is asked for.                           *)
LEMMA BitsOfType ==
  ASSUME NEW v \in Nat, NEW n \in 0 .. 25
  PROVE  BitsOf(v, n) \in Seq({0, 1}) /\ Len(BitsOf(v, n)) = n
PROOF
<1>1. \A k \in 1 .. n : (v \div 2^(n - k)) % 2 \in {0, 1}
  <2>1. ASSUME NEW k \in 1 .. n PROVE (v \div 2^(n - k)) % 2 \in {0, 1}
    <3>1. n - k \in 0 .. 25
      OBVIOUS
    <3>2. 2^(n - k) \in Nat \ {0}
      BY <3>1, Doubles
    <3> QED BY <3>2, Halved
  <2> QED BY <2>1
<1>2. n \in Nat
  OBVIOUS
<1> QED BY <1>1, <1>2 DEF BitsOf

(* A reader that shows BitsOf a value reads that value.                     *)
LEMMA ShowsBits ==
  ASSUME NEW r, IsBits(r), NEW p \in Nat, NEW n \in 0 .. 25, NEW v \in 0 .. 2^n - 1,
         Shows(r, p, BitsOf(v, n))
  PROVE  ValueAt(r, p, n) = v
PROOF
<1>1. v \in Nat
  OBVIOUS
<1>2. Len(BitsOf(v, n)) = n
  BY <1>1, BitsOfType
<1>3. \A k \in 1 .. n : BitAt(r, p + k) = BitsOf(v, n)[k]
  BY <1>2 DEF Shows
<1> QED BY <1>3, ValueOfBits

(* The code of a row and what it is added to.                               *)
Fits(row, x) == row \in TokenTable /\ x - row.base \in 0 .. 2^row.bits - 1

(* The number of a code fits into its length.                               *)
LEMMA CodeBelow ==
  ASSUME NEW row \in TokenTable
  PROVE  row.code \in 0 .. 2^row.len - 1
PROOF
<1>1. CodeIs(row.len, row.code)
  BY TableRows DEF RowOK
<1> DEFINE len == row.len
           code == row.code
<1>2. CodeIs(len, code)
  BY <1>1
<1> HIDE DEF len, code
<1>3. /\ PowerOf2(1) = 2 /\ PowerOf2(5) = 32 /\ PowerOf2(6) = 64
      /\ PowerOf2(7) = 128 /\ PowerOf2(8) = 256 /\ PowerOf2(9) = 512
  BY DEF PowerOf2
<1>4. code \in 0 .. PowerOf2(len) - 1
  BY <1>2, <1>3 DEF CodeIs
<1> QED BY <1>4 DEF PowerOf2, len, code

(* The code of a row with what is behind it is read as that row and value.  *)
LEMMA CodeHead ==
  ASSUME NEW r, IsBits(r), NEW p \in Nat, NEW row, NEW x \in Nat, Fits(row, x),
         Shows(r, p, CodeOf(row, x))
  PROVE  HeadAt(r, p, row, x - row.base)
PROOF
<1>1. row \in TokenTable /\ x - row.base \in 0 .. 2^row.bits - 1 /\ x - row.base \in Nat
  BY DEF Fits
<1>2. row.len \in 0 .. 25 /\ row.bits \in 0 .. 25 /\ row.len \in Nat
  BY <1>1, TableRows DEF RowOK
<1>3. row.code \in 0 .. 2^row.len - 1 /\ row.code \in Nat
  BY <1>1, CodeBelow
<1> DEFINE len == row.len
           bits == row.bits
           code == row.code
           v == x - row.base
           a == BitsOf(code, len)
           b == BitsOf(v, bits)
<1>4. a \in Seq({0, 1}) /\ Len(a) = len /\ b \in Seq({0, 1})
  BY <1>1, <1>2, <1>3, BitsOfType
<1>5. Shows(r, p, a \o b)
  BY DEF CodeOf
<1>6. len \in 0 .. 25 /\ bits \in 0 .. 25 /\ code \in 0 .. 2^len - 1 /\ v \in 0 .. 2^bits - 1
  BY <1>1, <1>2, <1>3
<1> HIDE DEF len, bits, code, v
<1>7. Shows(r, p, a) /\ Shows(r, p + len, b)
  <2> HIDE DEF a, b
  <2> QED BY <1>4, <1>5, ShowsBoth
<1>8. ValueAt(r, p, len) = code
  BY <1>6, <1>7, ShowsBits
<1>9. ValueAt(r, p + len, bits) = v
  <2>1. p + len \in Nat
    BY <1>6
  <2> QED BY <1>6, <1>7, <2>1, ShowsBits
<1> QED BY <1>1, <1>8, <1>9 DEF HeadAt, len, bits, code, v

LEMMA CodeType ==
  ASSUME NEW row, NEW x \in Nat, Fits(row, x)
  PROVE  CodeOf(row, x) \in Seq({0, 1}) /\ Len(CodeOf(row, x)) = row.len + row.bits
PROOF
<1>1. row \in TokenTable /\ x - row.base \in Nat
  BY DEF Fits
<1>2. row.len \in 0 .. 25 /\ row.bits \in 0 .. 25
  BY <1>1, TableRows DEF RowOK
<1>3. row.code \in Nat
  BY <1>1, CodeBelow
<1>4. /\ BitsOf(row.code, row.len) \in Seq({0, 1}) /\ Len(BitsOf(row.code, row.len)) = row.len
      /\ BitsOf(x - row.base, row.bits) \in Seq({0, 1})
      /\ Len(BitsOf(x - row.base, row.bits)) = row.bits
  BY <1>1, <1>2, <1>3, BitsOfType
<1> QED BY <1>4 DEF CodeOf

(* The same facts with their terms kept whole. *)
Below(v, n) == v \in 0 .. 2^n - 1

(* ShowsBits and ShowsBoth for such terms.                                  *)
LEMMA ShowsValue ==
  ASSUME NEW r, NEW p, NEW n, NEW v, IsBits(r), p \in Nat, n \in 0 .. 25, Below(v, n),
         Shows(r, p, BitsOf(v, n))
  PROVE  ValueAt(r, p, n) = v
PROOF
<1>1. v \in 0 .. 2^n - 1
  BY DEF Below
<1> QED BY <1>1, ShowsBits

LEMMA ShowsJoined ==
  ASSUME NEW r, NEW p, NEW a, NEW b, p \in Nat, BitString(a), BitString(b), Shows(r, p, a \o b)
  PROVE  Shows(r, p, a) /\ Shows(r, p + Len(a), b)
PROOF
  BY ShowsBoth DEF BitString

(* Each distance up to Farthest has a row: they begin where others end.     *)
Reaches(row, d) == row.match /\ row.base <= d /\ d < row.base + 2^row.bits

LEMMA RowReaches ==
  ASSUME NEW d \in Nat, NEW row \in TokenTable, NEW size, row.match,
         2^row.bits = size, row.base <= d, d < row.base + size
  PROVE  \E o \in TokenTable : Reaches(o, d)
PROOF
<1>1. Reaches(row, d)
  BY DEF Reaches
<1> QED BY <1>1

(* No gap is left between them.                                             *)
LEMMA SomeRowReaches ==
  ASSUME NEW d \in Nat, d <= Farthest
  PROVE  \E row \in TokenTable : Reaches(row, d)
PROOF
<1>0. d < 33871520
  BY SMT DEF Farthest
<1>1. CASE d < 32
  <2> DEFINE row == Row(5, 17, 5, TRUE, 0)
  <2>1. row \in TokenTable
    BY SMT DEF TokenTable, Matches
  <2>2. row.bits = 5 /\ row.base = 0
    BY SMT DEF Row
  <2>3. row.match
    BY SMT DEF Row
  <2> HIDE DEF row
  <2>4. row.base <= d
    BY <1>1, <2>2, SMT
  <2>5. d < row.base + 32
    BY <1>1, <2>2, SMT
  <2>6. 2^row.bits = 32
    BY <2>2, SMT
  <2> DEFINE size == 32
  <2>7. 2^row.bits = size /\ d < row.base + size
    BY <2>5, <2>6, SMT
  <2> HIDE DEF size
  <2> QED BY <2>1, <2>7, <2>3, <2>4, RowReaches, SMT
<1>2. CASE 32 <= d /\ d < 160
  <2> DEFINE row == Row(5, 18, 7, TRUE, 32)
  <2>1. row \in TokenTable
    BY SMT DEF TokenTable, Matches
  <2>2. row.bits = 7 /\ row.base = 32
    BY SMT DEF Row
  <2>3. row.match
    BY SMT DEF Row
  <2> HIDE DEF row
  <2>4. row.base <= d
    BY <1>2, <2>2, SMT
  <2>5. d < row.base + 128
    BY <1>2, <2>2, SMT
  <2>6. 2^row.bits = 128
    BY <2>2, SMT
  <2> DEFINE size == 128
  <2>7. 2^row.bits = size /\ d < row.base + size
    BY <2>5, <2>6, SMT
  <2> HIDE DEF size
  <2> QED BY <2>1, <2>7, <2>3, <2>4, RowReaches, SMT
<1>3. CASE 160 <= d /\ d < 672
  <2> DEFINE row == Row(5, 19, 9, TRUE, 160)
  <2>1. row \in TokenTable
    BY SMT DEF TokenTable, Matches
  <2>2. row.bits = 9 /\ row.base = 160
    BY SMT DEF Row
  <2>3. row.match
    BY SMT DEF Row
  <2> HIDE DEF row
  <2>4. row.base <= d
    BY <1>3, <2>2, SMT
  <2>5. d < row.base + 512
    BY <1>3, <2>2, SMT
  <2>6. 2^row.bits = 512
    BY <2>2, SMT
  <2> DEFINE size == 512
  <2>7. 2^row.bits = size /\ d < row.base + size
    BY <2>5, <2>6, SMT
  <2> HIDE DEF size
  <2> QED BY <2>1, <2>7, <2>3, <2>4, RowReaches, SMT
<1>4. CASE 672 <= d /\ d < 1696
  <2> DEFINE row == Row(5, 20, 10, TRUE, 672)
  <2>1. row \in TokenTable
    BY SMT DEF TokenTable, Matches
  <2>2. row.bits = 10 /\ row.base = 672
    BY SMT DEF Row
  <2>3. row.match
    BY SMT DEF Row
  <2> HIDE DEF row
  <2>4. row.base <= d
    BY <1>4, <2>2, SMT
  <2>5. d < row.base + 1024
    BY <1>4, <2>2, SMT
  <2>6. 2^row.bits = 1024
    BY <2>2, SMT
  <2> DEFINE size == 1024
  <2>7. 2^row.bits = size /\ d < row.base + size
    BY <2>5, <2>6, SMT
  <2> HIDE DEF size
  <2> QED BY <2>1, <2>7, <2>3, <2>4, RowReaches, SMT
<1>5. CASE 1696 <= d /\ d < 5792
  <2> DEFINE row == Row(5, 21, 12, TRUE, 1696)
  <2>1. row \in TokenTable
    BY SMT DEF TokenTable, Matches
  <2>2. row.bits = 12 /\ row.base = 1696
    BY SMT DEF Row
  <2>3. row.match
    BY SMT DEF Row
  <2> HIDE DEF row
  <2>4. row.base <= d
    BY <1>5, <2>2, SMT
  <2>5. d < row.base + 4096
    BY <1>5, <2>2, SMT
  <2>6. 2^row.bits = 4096
    BY <2>2, SMT
  <2> DEFINE size == 4096
  <2>7. 2^row.bits = size /\ d < row.base + size
    BY <2>5, <2>6, SMT
  <2> HIDE DEF size
  <2> QED BY <2>1, <2>7, <2>3, <2>4, RowReaches, SMT
<1>6. CASE 5792 <= d /\ d < 22176
  <2> DEFINE row == Row(6, 44, 14, TRUE, 5792)
  <2>1. row \in TokenTable
    BY SMT DEF TokenTable, Matches
  <2>2. row.bits = 14 /\ row.base = 5792
    BY SMT DEF Row
  <2>3. row.match
    BY SMT DEF Row
  <2> HIDE DEF row
  <2>4. row.base <= d
    BY <1>6, <2>2, SMT
  <2>5. d < row.base + 16384
    BY <1>6, <2>2, SMT
  <2>6. 2^row.bits = 16384
    BY <2>2, SMT
  <2> DEFINE size == 16384
  <2>7. 2^row.bits = size /\ d < row.base + size
    BY <2>5, <2>6, SMT
  <2> HIDE DEF size
  <2> QED BY <2>1, <2>7, <2>3, <2>4, RowReaches, SMT
<1>7. CASE 22176 <= d /\ d < 54944
  <2> DEFINE row == Row(6, 45, 15, TRUE, 22176)
  <2>1. row \in TokenTable
    BY SMT DEF TokenTable, Matches
  <2>2. row.bits = 15 /\ row.base = 22176
    BY SMT DEF Row
  <2>3. row.match
    BY SMT DEF Row
  <2> HIDE DEF row
  <2>4. row.base <= d
    BY <1>7, <2>2, SMT
  <2>5. d < row.base + 32768
    BY <1>7, <2>2, SMT
  <2>6. 2^row.bits = 32768
    BY <2>2, SMT
  <2> DEFINE size == 32768
  <2>7. 2^row.bits = size /\ d < row.base + size
    BY <2>5, <2>6, SMT
  <2> HIDE DEF size
  <2> QED BY <2>1, <2>7, <2>3, <2>4, RowReaches, SMT
<1>8. CASE 54944 <= d /\ d < 317088
  <2> DEFINE row == Row(7, 92, 18, TRUE, 54944)
  <2>1. row \in TokenTable
    BY SMT DEF TokenTable, Matches
  <2>2. row.bits = 18 /\ row.base = 54944
    BY SMT DEF Row
  <2>3. row.match
    BY SMT DEF Row
  <2> HIDE DEF row
  <2>4. row.base <= d
    BY <1>8, <2>2, SMT
  <2>5. d < row.base + 262144
    BY <1>8, <2>2, SMT
  <2>6. 2^row.bits = 262144
    BY <2>2, SMT
  <2> DEFINE size == 262144
  <2>7. 2^row.bits = size /\ d < row.base + size
    BY <2>5, <2>6, SMT
  <2> HIDE DEF size
  <2> QED BY <2>1, <2>7, <2>3, <2>4, RowReaches, SMT
<1>9. CASE 317088 <= d /\ d < 1365664
  <2> DEFINE row == Row(7, 93, 20, TRUE, 317088)
  <2>1. row \in TokenTable
    BY SMT DEF TokenTable, Matches
  <2>2. row.bits = 20 /\ row.base = 317088
    BY SMT DEF Row
  <2>3. row.match
    BY SMT DEF Row
  <2> HIDE DEF row
  <2>4. row.base <= d
    BY <1>9, <2>2, SMT
  <2>5. d < row.base + 1048576
    BY <1>9, <2>2, SMT
  <2>6. 2^row.bits = 1048576
    BY <2>2, SMT
  <2> DEFINE size == 1048576
  <2>7. 2^row.bits = size /\ d < row.base + size
    BY <2>5, <2>6, SMT
  <2> HIDE DEF size
  <2> QED BY <2>1, <2>7, <2>3, <2>4, RowReaches, SMT
<1>10. CASE 1365664 <= d /\ d < 2414240
  <2> DEFINE row == Row(8, 188, 20, TRUE, 1365664)
  <2>1. row \in TokenTable
    BY SMT DEF TokenTable, Matches
  <2>2. row.bits = 20 /\ row.base = 1365664
    BY SMT DEF Row
  <2>3. row.match
    BY SMT DEF Row
  <2> HIDE DEF row
  <2>4. row.base <= d
    BY <1>10, <2>2, SMT
  <2>5. d < row.base + 1048576
    BY <1>10, <2>2, SMT
  <2>6. 2^row.bits = 1048576
    BY <2>2, SMT
  <2> DEFINE size == 1048576
  <2>7. 2^row.bits = size /\ d < row.base + size
    BY <2>5, <2>6, SMT
  <2> HIDE DEF size
  <2> QED BY <2>1, <2>7, <2>3, <2>4, RowReaches, SMT
<1>11. CASE 2414240 <= d /\ d < 4511392
  <2> DEFINE row == Row(8, 189, 21, TRUE, 2414240)
  <2>1. row \in TokenTable
    BY SMT DEF TokenTable, Matches
  <2>2. row.bits = 21 /\ row.base = 2414240
    BY SMT DEF Row
  <2>3. row.match
    BY SMT DEF Row
  <2> HIDE DEF row
  <2>4. row.base <= d
    BY <1>11, <2>2, SMT
  <2>5. d < row.base + 2097152
    BY <1>11, <2>2, SMT
  <2>6. 2^row.bits = 2097152
    BY <2>2, SMT
  <2> DEFINE size == 2097152
  <2>7. 2^row.bits = size /\ d < row.base + size
    BY <2>5, <2>6, SMT
  <2> HIDE DEF size
  <2> QED BY <2>1, <2>7, <2>3, <2>4, RowReaches, SMT
<1>12. CASE 4511392 <= d /\ d < 8705696
  <2> DEFINE row == Row(9, 380, 22, TRUE, 4511392)
  <2>1. row \in TokenTable
    BY SMT DEF TokenTable, Matches
  <2>2. row.bits = 22 /\ row.base = 4511392
    BY SMT DEF Row
  <2>3. row.match
    BY SMT DEF Row
  <2> HIDE DEF row
  <2>4. row.base <= d
    BY <1>12, <2>2, SMT
  <2>5. d < row.base + 4194304
    BY <1>12, <2>2, SMT
  <2>6. 2^row.bits = 4194304
    BY <2>2, SMT
  <2> DEFINE size == 4194304
  <2>7. 2^row.bits = size /\ d < row.base + size
    BY <2>5, <2>6, SMT
  <2> HIDE DEF size
  <2> QED BY <2>1, <2>7, <2>3, <2>4, RowReaches, SMT
<1>13. CASE 8705696 <= d /\ d < 17094304
  <2> DEFINE row == Row(9, 381, 23, TRUE, 8705696)
  <2>1. row \in TokenTable
    BY SMT DEF TokenTable, Matches
  <2>2. row.bits = 23 /\ row.base = 8705696
    BY SMT DEF Row
  <2>3. row.match
    BY SMT DEF Row
  <2> HIDE DEF row
  <2>4. row.base <= d
    BY <1>13, <2>2, SMT
  <2>5. d < row.base + 8388608
    BY <1>13, <2>2, SMT
  <2>6. 2^row.bits = 8388608
    BY <2>2, SMT
  <2> DEFINE size == 8388608
  <2>7. 2^row.bits = size /\ d < row.base + size
    BY <2>5, <2>6, SMT
  <2> HIDE DEF size
  <2> QED BY <2>1, <2>7, <2>3, <2>4, RowReaches, SMT
<1>14. CASE 17094304 <= d /\ d < 33871520
  <2> DEFINE row == Row(9, 382, 24, TRUE, 17094304)
  <2>1. row \in TokenTable
    BY SMT DEF TokenTable, Matches
  <2>2. row.bits = 24 /\ row.base = 17094304
    BY SMT DEF Row
  <2>3. row.match
    BY SMT DEF Row
  <2> HIDE DEF row
  <2>4. row.base <= d
    BY <1>14, <2>2, SMT
  <2>5. d < row.base + 16777216
    BY <1>14, <2>2, SMT
  <2>6. 2^row.bits = 16777216
    BY <2>2, SMT
  <2> DEFINE size == 16777216
  <2>7. 2^row.bits = size /\ d < row.base + size
    BY <2>5, <2>6, SMT
  <2> HIDE DEF size
  <2> QED BY <2>1, <2>7, <2>3, <2>4, RowReaches, SMT
<1> QED BY <1>0, <1>1, <1>2, <1>3, <1>4, <1>5, <1>6, <1>7, <1>8, <1>9, <1>10, <1>11, <1>12, <1>13, <1>14, SMT

(* RowOf is such a row.                                                     *)
LEMMA RowOfIs ==
  ASSUME NEW d \in Nat, d <= Farthest
  PROVE  RowOf(d).match /\ Fits(RowOf(d), d)
PROOF
<1> DEFINE row == RowOf(d)
<1>1. \E o \in TokenTable : Reaches(o, d)
  BY SomeRowReaches
<1>2. row = CHOOSE o \in TokenTable : Reaches(o, d)
  BY DEF RowOf, Reaches
<1> HIDE DEF row
<1>3. row \in TokenTable /\ Reaches(row, d)
  BY <1>1, <1>2
<1>4. row.base \in Nat /\ row.bits \in 0 .. 25
  BY <1>3, TableRows DEF RowOK
<1>5. 2^row.bits \in Nat
  BY <1>4, Doubles
<1>6. d - row.base \in 0 .. 2^row.bits - 1
  BY <1>3, <1>4, <1>5 DEF Reaches
<1> QED BY <1>3, <1>6 DEF Reaches, Fits, row

-----------------------------------------------------------------------------
(* The code of a length. *)
IsLength(n) == n \in 3 .. 2^16 - 1

(* Each length but 3 has its power of two.                                  *)
LEMMA SomeOnes ==
  ASSUME NEW n, IsLength(n), n # 3
  PROVE  \E k \in 1 .. 14 : 2^(k + 1) <= n /\ n < 2^(k + 2)
PROOF
<1>0. n \in Nat /\ n >= 4 /\ n < 65536
  BY SMT DEF IsLength
<1>1. /\ PowerOf2(2) = 4 /\ PowerOf2(3) = 8 /\ PowerOf2(4) = 16 /\ PowerOf2(5) = 32
      /\ PowerOf2(6) = 64 /\ PowerOf2(7) = 128 /\ PowerOf2(8) = 256 /\ PowerOf2(9) = 512
      /\ PowerOf2(10) = 1024 /\ PowerOf2(11) = 2048 /\ PowerOf2(12) = 4096
      /\ PowerOf2(13) = 8192 /\ PowerOf2(14) = 16384 /\ PowerOf2(15) = 32768
      /\ PowerOf2(16) = 65536
  BY DEF PowerOf2
<1> DEFINE Good(k) == PowerOf2(k + 1) <= n /\ n < PowerOf2(k + 2)
<1>2. (n < 8 => Good(1)) /\ (n >= 8 /\ n < 16 => Good(2)) /\ (n >= 16 /\ n < 32 => Good(3))
  BY <1>0, <1>1, SMT
<1>3. (n >= 32 /\ n < 64 => Good(4)) /\ (n >= 64 /\ n < 128 => Good(5))
  BY <1>0, <1>1, SMT
<1>4. (n >= 128 /\ n < 256 => Good(6)) /\ (n >= 256 /\ n < 512 => Good(7))
  BY <1>0, <1>1, SMT
<1>5. (n >= 512 /\ n < 1024 => Good(8)) /\ (n >= 1024 /\ n < 2048 => Good(9))
  BY <1>0, <1>1, SMT
<1>6. (n >= 2048 /\ n < 4096 => Good(10)) /\ (n >= 4096 /\ n < 8192 => Good(11))
  BY <1>0, <1>1, SMT
<1>7. (n >= 8192 /\ n < 16384 => Good(12)) /\ (n >= 16384 /\ n < 32768 => Good(13))
  BY <1>0, <1>1, SMT
<1>8. n >= 32768 => Good(14)
  BY <1>0, <1>1, SMT
<1> HIDE DEF Good
<1>9. \E k \in 1 .. 14 : Good(k)
  BY <1>0, <1>2, <1>3, <1>4, <1>5, <1>6, <1>7, <1>8, SMT
<1> QED BY <1>9 DEF Good, PowerOf2

(* The code of a length is read as that length, and to its end.             *)
LEMMA LengthCodeIs ==
  ASSUME NEW n, IsLength(n)
  PROVE  /\ LengthCode(n) \in Seq({0, 1})
         /\ \E ones \in 0 .. 14 :
              /\ Len(LengthCode(n)) = ones + 1 + LengthBits(ones)
              /\ \A r, p : IsBits(r) /\ p \in Nat /\ Shows(r, p, LengthCode(n))
                   => LengthAt(r, p, ones, n)
PROOF
<1>0. n \in Nat /\ n >= 3
  BY SMT DEF IsLength
<1>1. CASE n = 3
  <2>1. LengthCode(n) = << 0 >> /\ LengthBits(0) = 0
    BY <1>1 DEF LengthCode, LengthBits
  <2>2. << 0 >> \in Seq({0, 1}) /\ Len(<< 0 >>) = 0 + 1 + 0
    OBVIOUS
  <2>3. ASSUME NEW r, NEW p, IsBits(r), p \in Nat, Shows(r, p, << 0 >>)
        PROVE  LengthAt(r, p, 0, n)
    <3>1. BitAt(r, p + 1) = 0
      <4> DEFINE s == << 0 >>
      <4>1. 1 \in 1 .. Len(s) /\ s[1] = 0
        OBVIOUS
      <4> HIDE DEF s
      <4>2. Shows(r, p, s)
        BY <2>3 DEF s
      <4> QED BY <4>1, <4>2 DEF Shows
    <3>2. OnesAt(r, p, 0)
      <4>1. p + 0 + 1 = p + 1
        BY <2>3
      <4> QED BY <3>1, <4>1 DEF OnesAt
    <3> QED BY <3>2, <1>1 DEF LengthAt
  <2> QED BY <2>1, <2>2, <2>3
<1>2. CASE n # 3
  <2> DEFINE ones == CHOOSE k \in 1 .. 14 : 2^(k + 1) <= n /\ n < 2^(k + 2)
             a == [k \in 1 .. ones |-> 1]
             v == n - 2^(ones + 1)
             b == BitsOf(v, ones + 1)
             z == << 0 >>
  <2>1. LengthCode(n) = a \o z \o b
    BY <1>2 DEF LengthCode
  <2>2. ones \in 1 .. 14 /\ 2^(ones + 1) <= n /\ n < 2^(ones + 2)
    <3>1. \E k \in 1 .. 14 : 2^(k + 1) <= n /\ n < 2^(k + 2)
      BY <1>2, SomeOnes
    <3> QED BY <3>1
  <2> HIDE DEF ones
  <2>3. /\ 2^(ones + 1) \in Nat /\ 2^(ones + 1) = 2 * 2^ones /\ 2^ones \in Nat
        /\ 2^(ones + 2) = 2 * 2^(ones + 1)
    <3> DEFINE m == ones + 1
    <3>1. ones \in 0 .. 25 /\ m \in 0 .. 25 /\ m = ones + 1 /\ m + 1 = ones + 2
      BY <2>2
    <3>2. 2^(ones + 1) = 2 * 2^ones /\ 2^ones \in Nat \ {0}
      BY <3>1, Doubles
    <3> HIDE DEF m
    <3>3. 2^(m + 1) = 2 * 2^m /\ 2^m \in Nat \ {0}
      BY <3>1, Doubles
    <3> QED BY <3>1, <3>2, <3>3
  <2>4. v \in 0 .. 2^(ones + 1) - 1 /\ v \in Nat
    BY <1>0, <2>2, <2>3
  <2>5. a \in Seq({0, 1}) /\ Len(a) = ones /\ \A k \in 1 .. ones : a[k] = 1
    BY <2>2
  <2>6. b \in Seq({0, 1}) /\ Len(b) = ones + 1
    <3>1. ones + 1 \in 0 .. 25
      BY <2>2
    <3> HIDE DEF v
    <3> QED BY <3>1, <2>4, BitsOfType
  <2>7. z \in Seq({0, 1}) /\ Len(z) = 1 /\ z[1] = 0
    OBVIOUS
  <2>8. LengthBits(ones) = ones + 1 /\ ones # 0
    BY <2>2 DEF LengthBits
  <2> HIDE DEF a, b, v, z
  <2>9. /\ a \o z \in Seq({0, 1}) /\ Len(a \o z) = ones + 1
        /\ LengthCode(n) \in Seq({0, 1})
        /\ Len(LengthCode(n)) = ones + 1 + LengthBits(ones)
    <3>1. ones \in Nat
      BY <2>2
    <3>2. a \o z \in Seq({0, 1}) /\ Len(a \o z) = ones + 1
      <4>1. BitString(a) /\ BitString(z)
        BY <2>5, <2>7 DEF BitString
      <4>2. BitString(a \o z) /\ Len(a \o z) = Len(a) + Len(z)
        BY <4>1, JoinedBits
      <4> QED BY <4>2, <2>5, <2>7 DEF BitString
    <3> DEFINE c == a \o z
               whole == LengthCode(n)
               bits == LengthBits(ones)
    <3>3. whole = c \o b /\ bits = ones + 1 /\ c \in Seq({0, 1}) /\ Len(c) = ones + 1
      BY <2>1, <2>8, <3>2
    <3> HIDE DEF c, whole, bits
    <3>4. whole \in Seq({0, 1}) /\ Len(whole) = ones + 1 + bits
      <4>1. BitString(c) /\ BitString(b)
        BY <3>3, <2>6 DEF BitString
      <4>2. BitString(c \o b) /\ Len(c \o b) = Len(c) + Len(b)
        BY <4>1, JoinedBits
      <4>3. Len(c) = ones + 1 /\ Len(b) = ones + 1 /\ whole = c \o b /\ bits = ones + 1
        BY <3>3, <2>6
      <4>4. Len(whole) = ones + 1 + bits
        BY <4>2, <4>3, <3>1
      <4> QED BY <4>2, <4>3, <4>4 DEF BitString
    <3> QED BY <3>2, <3>4 DEF whole, bits
  <2>10. ASSUME NEW r, NEW p, IsBits(r), p \in Nat, Shows(r, p, LengthCode(n))
         PROVE  LengthAt(r, p, ones, n)
    <3>1. Shows(r, p, a \o z) /\ Shows(r, p + (ones + 1), b)
      <4>1. Shows(r, p, (a \o z) \o b)
        BY <2>1, <2>10
      <4> QED BY <2>10, <4>1, <2>6, <2>9, ShowsBoth
    <3>2. Shows(r, p, a) /\ Shows(r, p + ones, z)
      BY <2>10, <3>1, <2>5, <2>7, ShowsBoth
    <3>3. OnesAt(r, p, ones)
      <4>1. \A k \in 1 .. ones : BitAt(r, p + k) = 1
        BY <3>2, <2>5 DEF Shows
      <4>2. 1 \in 1 .. Len(z)
        BY <2>7
      <4>3. BitAt(r, p + ones + 1) = 0
        BY <3>2, <4>2, <2>7 DEF Shows
      <4> QED BY <4>1, <4>3, <2>2 DEF OnesAt
    <3>4. ValueAt(r, p + ones + 1, ones + 1) = v
      <4> DEFINE m == ones + 1
                 q == p + ones + 1
      <4>1. m \in 0 .. 25 /\ q \in Nat
        BY <2>2, <2>10
      <4>2. Shows(r, q, BitsOf(v, m))
        <5>1. p + (ones + 1) = q
          BY <2>2, <2>10
        <5> QED BY <3>1, <5>1 DEF b
      <4>3. Below(v, m)
        BY <2>4 DEF Below
      <4>0. IsBits(r)
        BY <2>10
      <4> HIDE DEF m, q
      <4>4. ValueAt(r, q, m) = v
        BY <4>0, <4>1, <4>2, <4>3, ShowsValue
      <4> QED BY <4>4 DEF m, q
    <3>5. n = 2 * 2^ones + v
      BY <1>0, <2>2, <2>3 DEF v
    <3> QED BY <3>3, <3>4, <3>5, <2>8 DEF LengthAt
  <2>11. ones \in 0 .. 14
    BY <2>2
  <2> QED BY <2>9, <2>10, <2>11
<1> QED BY <1>1, <1>2

-----------------------------------------------------------------------------
(* The bits of bytes. *)
LEMMA ByteBits ==
  ASSUME NEW b \in 0 .. 255
  PROVE  /\ \A i \in 1 .. 8 : BitsOf(b, 8)[i] \in {0, 1}
         /\ Len(BitsOf(b, 8)) = 8 /\ Below(b, 8)
PROOF
<1>1. BitsOf(b, 8) \in Seq({0, 1}) /\ Len(BitsOf(b, 8)) = 8
  BY BitsOfType, b \in Nat, 8 \in 0 .. 25
<1>2. PowerOf2(8) = 256
  BY DEF PowerOf2
<1>3. 2^8 = 256
  BY <1>2 DEF PowerOf2
<1>4. Below(b, 8)
  BY <1>3 DEF Below
<1>5. \A i \in 1 .. 8 : BitsOf(b, 8)[i] \in {0, 1}
  BY <1>1
<1> QED BY <1>1, <1>4, <1>5

(* The byte of a bit, and the bit of a byte.                                *)
LEMMA EightFold ==
  ASSUME NEW k \in Nat, NEW n \in Nat, k < 8 * n
  PROVE  k \div 8 \in 0 .. n - 1 /\ k % 8 \in 0 .. 7
PROOF
  OBVIOUS

LEMMA EightPlus ==
  ASSUME NEW j \in Nat, NEW i \in 0 .. 7
  PROVE  (8 * j + i) \div 8 = j /\ (8 * j + i) % 8 = i
PROOF
  OBVIOUS

(* Bytes are eight bits each, and are read as they were written.            *)
LEMMA BytesToBitsType ==
  ASSUME NEW bytes \in Seq(Bytes)
  PROVE  BitString(BytesToBits(bytes)) /\ Len(BytesToBits(bytes)) = 8 * Len(bytes)
PROOF
<1> DEFINE n == Len(bytes)
           E(k) == BitsOf(bytes[((k - 1) \div 8) + 1], 8)[((k - 1) % 8) + 1]
<1>1. n \in Nat /\ \A j \in 1 .. n : bytes[j] \in 0 .. 255
  <2>1. n \in Nat /\ \A j \in 1 .. n : bytes[j] \in Bytes
    OBVIOUS
  <2> QED BY <2>1, StreamAssumption
<1>2. ASSUME NEW k \in 1 .. 8 * n PROVE E(k) \in {0, 1}
  <2> DEFINE m == k - 1
             j == (m \div 8) + 1
             i == (m % 8) + 1
  <2>1. m \in Nat /\ m < 8 * n
    BY <1>1
  <2> HIDE DEF m
  <2>2. m \div 8 \in 0 .. n - 1 /\ m % 8 \in 0 .. 7
    BY <2>1, <1>1, EightFold
  <2>3. j \in 1 .. n /\ i \in 1 .. 8
    BY <2>2, <1>1
  <2> HIDE DEF j, i
  <2>4. bytes[j] \in 0 .. 255
    BY <2>3, <1>1
  <2>5. BitsOf(bytes[j], 8)[i] \in {0, 1}
    BY <2>3, <2>4, ByteBits
  <2> QED BY <2>5 DEF m, j, i
<1>3. BytesToBits(bytes) = [k \in 1 .. 8 * n |-> E(k)]
  BY DEF BytesToBits
<1> HIDE DEF E
<1>4. 8 * n \in Nat
  BY <1>1
<1> HIDE DEF n
<1>5. [k \in 1 .. 8 * n |-> E(k)] \in Seq({0, 1}) /\ Len([k \in 1 .. 8 * n |-> E(k)]) = 8 * n
  BY <1>2, <1>4
<1> QED BY <1>3, <1>5 DEF BitString, n

LEMMA ShowsByte ==
  ASSUME NEW r, IsBits(r), NEW p \in Nat, NEW bytes \in Seq(Bytes),
         Shows(r, p, BytesToBits(bytes)), NEW j \in 1 .. Len(bytes)
  PROVE  ValueAt(r, p + 8 * (j - 1), 8) = bytes[j]
PROOF
<1> DEFINE n == Len(bytes)
           q == p + 8 * (j - 1)
           b == bytes[j]
           s == BytesToBits(bytes)
<1>1. n \in Nat /\ j \in 1 .. n /\ b \in 0 .. 255 /\ q \in Nat
  <2>1. n \in Nat /\ b \in Bytes
    OBVIOUS
  <2>2. q \in Nat
    BY <2>1
  <2> QED BY <2>1, <2>2, StreamAssumption
<1>2. Len(s) = 8 * n
  BY BytesToBitsType
<1>3. ASSUME NEW i \in 1 .. 8
      PROVE  BitAt(r, q + i) = BitsOf(b, 8)[i]
  <2> DEFINE k == 8 * (j - 1) + i
             m == k - 1
             x == i - 1
             y == j - 1
  <2>1. k \in 1 .. 8 * n /\ x \in 0 .. 7 /\ y \in Nat /\ m = 8 * y + x /\ p + k = q + i
    BY <1>1
  <2>2. BitAt(r, p + k) = s[k]
    <3> HIDE DEF k, s
    <3> QED BY <2>1, <1>2 DEF Shows, s
  <2>3. s[k] = BitsOf(bytes[(m \div 8) + 1], 8)[(m % 8) + 1]
    <3> HIDE DEF k
    <3> QED BY <2>1 DEF BytesToBits
  <2>4. m \div 8 = y /\ m % 8 = x
    <3> HIDE DEF m, x, y
    <3> QED BY <2>1, EightPlus
  <2>5. y + 1 = j /\ x + 1 = i
    BY <1>1
  <2> HIDE DEF k, m, x, y, s
  <2> QED BY <2>1, <2>2, <2>3, <2>4, <2>5
<1>4. Shows(r, q, BitsOf(b, 8)) /\ Below(b, 8)
  BY <1>1, <1>3, ByteBits DEF Shows
<1> HIDE DEF q, b
<1>5. ValueAt(r, q, 8) = b
  BY <1>1, <1>4, ShowsValue, 8 \in 0 .. 25
<1> QED BY <1>5 DEF q, b

-----------------------------------------------------------------------------
(* The kinds of tokens.                                                     *)
LiteralToken(row, byte) == [kind |-> "literal", row |-> row, byte |-> byte]
MatchToken(d, n) == [kind |-> "match", distance |-> d, count |-> n]
RunToken(bytes) == [kind |-> "run", bytes |-> bytes]
NoiseToken(bits) == [kind |-> "noise", bits |-> bits]

IsLiteral(row, byte) == ~row.match /\ byte \in 0 .. 255 /\ Fits(row, byte)
IsMatch(d, n) == d \in Nat \ {0} /\ d <= Farthest /\ IsLength(n)
IsRun(bytes) == bytes \in Seq(Bytes) /\ Below(Len(bytes), 15)
IsNoise(bits) == BitString(bits) /\ NoToken(bits)

(* Each token is of one of the four kinds.                                  *)
LEMMA TokenKinds ==
  ASSUME NEW t \in Tokens
  PROVE  \/ \E row, byte : t = LiteralToken(row, byte) /\ IsLiteral(row, byte)
         \/ \E d, n : t = MatchToken(d, n) /\ IsMatch(d, n)
         \/ \E bytes : t = RunToken(bytes) /\ IsRun(bytes)
         \/ \E bits : t = NoiseToken(bits) /\ IsNoise(bits)
PROOF
<1> DEFINE A == {u \in [kind : {"literal"}, row : TokenTable, byte : Bytes] :
                  ~u.row.match /\ u.byte - u.row.base \in 0 .. 2^u.row.bits - 1}
           distances == 1 .. Farthest
           counts == 3 .. 2^16 - 1
           B == [kind : {"match"}, distance : distances, count : counts]
           C == {u \in [kind : {"run"}, bytes : Seq(Bytes)] : Len(u.bytes) < 2^15}
           D == {u \in [kind : {"noise"}, bits : Seq({0, 1})] : NoToken(u.bits)}
<1>0. t \in A \cup B \cup C \cup D
  BY Zenon DEF Tokens
<1>1. CASE t \in A
  <2> DEFINE row == t.row
             byte == t.byte
  <2>1. t = LiteralToken(row, byte) /\ row \in TokenTable /\ byte \in Bytes
    BY <1>1 DEF LiteralToken
  <2>2. ~row.match /\ byte - row.base \in 0 .. 2^row.bits - 1
    BY <1>1
  <2> HIDE DEF row, byte
  <2>3. IsLiteral(row, byte)
    BY <2>1, <2>2, StreamAssumption DEF IsLiteral, Fits
  <2> QED BY <2>1, <2>3
<1>2. CASE t \in B
  <2> DEFINE d == t.distance
             n == t.count
  <2> HIDE DEF distances, counts
  <2>1. t = MatchToken(d, n) /\ d \in distances /\ n \in counts
    BY <1>2 DEF MatchToken
  <2> HIDE DEF d, n
  <2>2. d \in Nat \ {0} /\ d <= Farthest
    <3>1. Farthest \in Nat
      BY SMT DEF Farthest
    <3>2. d \in 1 .. Farthest
      BY <2>1 DEF distances
    <3> QED BY <3>1, <3>2, SMT
  <2>3. IsLength(n)
    BY <2>1 DEF counts, IsLength
  <2> QED BY <2>1, <2>2, <2>3 DEF IsMatch
<1>3. CASE t \in C
  <2> DEFINE bytes == t.bytes
             size == 2^15
  <2>1. t = RunToken(bytes) /\ bytes \in Seq(Bytes)
    BY <1>3 DEF RunToken
  <2>2. Len(bytes) < 2^15
    BY <1>3
  <2> HIDE DEF bytes
  <2>3. Len(bytes) \in Nat /\ 2^15 = 32768
    BY <2>1, SMT
  <2>4. Below(Len(bytes), 15)
    BY <2>2, <2>3, SMT DEF Below
  <2> QED BY <2>1, <2>4 DEF IsRun
<1>4. CASE t \in D
  <2> DEFINE bits == t.bits
  <2>1. t = NoiseToken(bits) /\ bits \in Seq({0, 1}) /\ NoToken(bits)
    BY <1>4 DEF NoiseToken
  <2> HIDE DEF bits
  <2> QED BY <2>1 DEF IsNoise, BitString
<1> HIDE DEF A, B, C, D
<1> QED BY <1>0, <1>1, <1>2, <1>3, <1>4

(* The code of each kind.                                                   *)
LEMMA TokenCodeLiteral ==
  ASSUME NEW start, NEW row, NEW byte
  PROVE  TokenCode(LiteralToken(row, byte), start) = CodeOf(row, byte)
PROOF
  BY DEF TokenCode, LiteralToken

LEMMA TokenCodeMatch ==
  ASSUME NEW start, NEW d, NEW n
  PROVE  TokenCode(MatchToken(d, n), start) = CodeOf(RowOf(d), d) \o LengthCode(n)
PROOF
  BY DEF TokenCode, MatchToken

LEMMA TokenCodeNoise ==
  ASSUME NEW start, NEW bits
  PROVE  TokenCode(NoiseToken(bits), start) = bits
PROOF
  BY DEF TokenCode, NoiseToken

(* The unencoded run: its head, the bits to the next byte, and its bytes.   *)
RunCode(n) == CodeOf(RowOf(0), 0) \o BitsOf(n, 15)
Filler(start, n) == BitsOf(0, (-(start + Len(RunCode(n)))) % 8)

(* The code of a run is in three parts.                                     *)
LEMMA TokenCodeRun ==
  ASSUME NEW start, NEW bytes
  PROVE  TokenCode(RunToken(bytes), start)
           = (RunCode(Len(bytes)) \o Filler(start, Len(bytes))) \o BytesToBits(bytes)
PROOF
<1> DEFINE t == RunToken(bytes)
<1>1. t.kind = "run" /\ t.bytes = bytes
  BY DEF RunToken
<1>2. RunHead(t) = RunCode(Len(bytes))
  BY <1>1 DEF RunHead, RunCode
<1> HIDE DEF t
<1>3. TokenCode(t, start) = (RunHead(t) \o BitsOf(0, (-(start + Len(RunHead(t)))) % 8)) \o BytesToBits(bytes)
  BY <1>1 DEF TokenCode
<1> QED BY <1>2, <1>3 DEF t, Filler

LEMMA RunCodeType ==
  ASSUME NEW n \in Nat
  PROVE  /\ BitString(CodeOf(RowOf(0), 0)) /\ BitString(BitsOf(n, 15)) /\ BitString(RunCode(n))
         /\ Len(CodeOf(RowOf(0), 0)) = RowOf(0).len + RowOf(0).bits
         /\ Len(BitsOf(n, 15)) = 15 /\ Len(RunCode(n)) = RowOf(0).len + RowOf(0).bits + 15
         /\ RowOf(0).len \in 1 .. 9 /\ RowOf(0).bits \in 0 .. 24
PROOF
<1> DEFINE row == RowOf(0)
           zero == 0
<1>1. zero \in Nat /\ zero <= Farthest /\ row = RowOf(zero)
  BY SMT DEF Farthest
<1> HIDE DEF zero, row
<1>2. Fits(row, zero)
  BY <1>1, RowOfIs
<1>3. row.len \in 1 .. 9 /\ row.bits \in 0 .. 24
  BY <1>2, TableRows DEF Fits, RowOK
<1>4. BitString(CodeOf(row, zero)) /\ Len(CodeOf(row, zero)) = row.len + row.bits
  BY <1>1, <1>2, CodeType DEF BitString
<1>5. BitString(BitsOf(n, 15)) /\ Len(BitsOf(n, 15)) = 15
  BY BitsOfType, 15 \in 0 .. 25 DEF BitString
<1> DEFINE a == CodeOf(row, zero)
           b == BitsOf(n, 15)
<1>6. BitString(a \o b) /\ Len(a \o b) = Len(a) + Len(b)
  BY <1>4, <1>5, JoinedBits
<1>7. RunCode(n) = a \o b
  BY DEF RunCode, row, zero
<1>8. Len(RunCode(n)) = row.len + row.bits + 15
  BY <1>3, <1>4, <1>5, <1>6, <1>7
<1>9. BitString(RunCode(n))
  BY <1>6, <1>7
<1> QED BY <1>3, <1>4, <1>5, <1>8, <1>9 DEF row, zero

LEMMA Remainder ==
  ASSUME NEW p \in Nat
  PROVE  (-p) % 8 \in 0 .. 7
PROOF
  OBVIOUS

LEMMA FillerType ==
  ASSUME NEW start \in Nat, NEW n \in Nat
  PROVE  /\ BitString(Filler(start, n))
         /\ Len(Filler(start, n)) = (-(start + Len(RunCode(n)))) % 8
         /\ Len(Filler(start, n)) \in 0 .. 7
PROOF
<1> DEFINE p == start + Len(RunCode(n))
           a == (-p) % 8
<1>1. p \in Nat
  BY RunCodeType, JoinedBits
<1> HIDE DEF p
<1>2. a \in 0 .. 7
  BY <1>1, Remainder
<1> HIDE DEF a
<1>3. BitsOf(0, a) \in Seq({0, 1}) /\ Len(BitsOf(0, a)) = a
  BY <1>2, BitsOfType, 0 \in Nat, a \in 0 .. 25
<1> QED BY <1>2, <1>3 DEF Filler, BitString, a, p

(* The code of a token is never empty.                                      *)
IsCode(bits) == BitString(bits) /\ Len(bits) \in Nat \ {0}

(* Each of the four codes has a bit at least.                               *)
LEMMA CodeIsCode ==
  ASSUME NEW row, NEW x, x \in Nat, Fits(row, x)
  PROVE  IsCode(CodeOf(row, x)) /\ Len(CodeOf(row, x)) = row.len + row.bits
PROOF
<1>1. CodeOf(row, x) \in Seq({0, 1}) /\ Len(CodeOf(row, x)) = row.len + row.bits
  BY CodeType
<1>2. row.len \in 1 .. 9 /\ row.bits \in 0 .. 24
  BY TableRows DEF Fits, RowOK
<1>3. Len(CodeOf(row, x)) \in Nat \ {0}
  <2> DEFINE l == Len(CodeOf(row, x))
             m == row.len
             n == row.bits
  <2>1. l = m + n /\ m \in 1 .. 9 /\ n \in 0 .. 24
    BY <1>1, <1>2
  <2> HIDE DEF l, m, n
  <2>2. l \in Nat \ {0}
    BY <2>1
  <2> QED BY <2>2 DEF l
<1> QED BY <1>1, <1>3 DEF IsCode, BitString

LEMMA CodeBefore ==
  ASSUME NEW a, NEW b, IsCode(a), BitString(b)
  PROVE  IsCode(a \o b) /\ Len(a \o b) = Len(a) + Len(b)
PROOF
<1>1. Len(a) \in Nat \ {0} /\ BitString(a)
  BY DEF IsCode
<1>2. BitString(a \o b) /\ Len(a \o b) = Len(a) + Len(b) /\ Len(b) \in Nat
  BY <1>1, JoinedBits
<1> QED BY <1>1, <1>2 DEF IsCode

LEMMA LengthCodeType ==
  ASSUME NEW n, IsLength(n)
  PROVE  BitString(LengthCode(n))
PROOF
  BY LengthCodeIs DEF BitString

LEMMA NoiseIsCode ==
  ASSUME NEW bits, IsNoise(bits)
  PROVE  IsCode(bits)
PROOF
<1> DEFINE r == NewReader(bits, 0)
           Long == \E row \in NextRows(r) :
                     LET behind == row.len + row.bits
                     IN /\ row.match /\ row.base + ValueAt(r, row.len, row.bits) # 0
                        /\ Len(bits) >= behind + 15
                        /\ \A k \in 1 .. 15 : bits[behind + k] = 1
<1>1. BitString(bits) /\ Len(bits) \in Nat
  BY DEF IsNoise, BitString
<1>2. Len(bits) >= 9 \/ Long
  BY DEF IsNoise, NoToken
<1>3. CASE Long
  <2>1. PICK row \in NextRows(r) : Len(bits) >= (row.len + row.bits) + 15
    BY <1>3
  <2>2. row \in TokenTable
    BY <2>1 DEF NextRows
  <2>3. row.len \in 1 .. 9 /\ row.bits \in 0 .. 24
    BY <2>2, TableRows DEF RowOK
  <2> DEFINE l == Len(bits)
             m == row.len + row.bits
  <2>6. l >= m + 15
    BY <2>1
  <2>7. m \in Nat
    BY <2>3
  <2>8. l \in Nat
    BY <1>1
  <2> HIDE DEF l, m
  <2>4. l >= m + 15 /\ m \in Nat /\ l \in Nat
    BY <2>6, <2>7, <2>8
  <2>5. l # 0
    BY <2>4
  <2> QED BY <1>1, <2>5 DEF IsCode, l
<1>4. CASE Len(bits) >= 9
  BY <1>1, <1>4 DEF IsCode
<1> QED BY <1>2, <1>3, <1>4

LEMMA TokenCodeType ==
  ASSUME NEW t \in Tokens, NEW start \in Nat
  PROVE  IsCode(TokenCode(t, start))
PROOF
<1>1. ASSUME NEW row, NEW byte, t = LiteralToken(row, byte), IsLiteral(row, byte)
      PROVE  IsCode(TokenCode(t, start))
  <2>1. byte \in Nat /\ Fits(row, byte)
    BY <1>1 DEF IsLiteral
  <2> QED BY <1>1, <2>1, TokenCodeLiteral, CodeIsCode
<1>2. ASSUME NEW d, NEW n, t = MatchToken(d, n), IsMatch(d, n)
      PROVE  IsCode(TokenCode(t, start))
  <2>1. d \in Nat /\ d <= Farthest /\ IsLength(n)
    BY <1>2 DEF IsMatch
  <2>2. Fits(RowOf(d), d)
    BY <2>1, RowOfIs
  <2>3. IsCode(CodeOf(RowOf(d), d))
    BY <2>1, <2>2, CodeIsCode
  <2>4. BitString(LengthCode(n))
    BY <2>1, LengthCodeType
  <2>5. TokenCode(t, start) = CodeOf(RowOf(d), d) \o LengthCode(n)
    BY <1>2, TokenCodeMatch
  <2> QED BY <2>3, <2>4, <2>5, CodeBefore
<1>3. ASSUME NEW bytes, t = RunToken(bytes), IsRun(bytes)
      PROVE  IsCode(TokenCode(t, start))
  <2> DEFINE n == Len(bytes)
  <2>1. n \in Nat /\ BitString(BytesToBits(bytes))
    BY <1>3, BytesToBitsType DEF IsRun
  <2>2. TokenCode(t, start) = (RunCode(n) \o Filler(start, n)) \o BytesToBits(bytes)
    BY <1>3, TokenCodeRun
  <2> HIDE DEF n
  <2>3. BitString(Filler(start, n))
    BY <2>1, FillerType
  <2>4. IsCode(RunCode(n))
    <3>1. BitString(RunCode(n)) /\ Len(RunCode(n)) \in Nat \ {0}
      BY <2>1, RunCodeType
    <3> QED BY <3>1 DEF IsCode
  <2>5. IsCode(RunCode(n) \o Filler(start, n))
    BY <2>3, <2>4, CodeBefore
  <2> QED BY <2>1, <2>2, <2>5, CodeBefore
<1>4. ASSUME NEW bits, t = NoiseToken(bits), IsNoise(bits)
      PROVE  IsCode(TokenCode(t, start))
  BY <1>4, TokenCodeNoise, NoiseIsCode
<1> QED BY <1>1, <1>2, <1>3, <1>4, TokenKinds

-----------------------------------------------------------------------------
(* The bits of the tokens of a segment, one behind the other.               *)
EncodedTo(tokens, f, n) ==
  /\ f[0] = <<>>
  /\ \A k \in 0 .. n : BitString(f[k])
  /\ \A k \in 1 .. n : f[k] = f[k - 1] \o TokenCode(tokens[k], Len(f[k - 1]))

(* Encoding computes one sequence of bits for each number of tokens.        *)
LEMMA EncodedUnique ==
  ASSUME NEW tokens, NEW n \in Nat, NEW f, NEW g,
         EncodedTo(tokens, f, n), EncodedTo(tokens, g, n)
  PROVE  \A k \in 0 .. n : f[k] = g[k]
PROOF
<1> DEFINE P == {k \in 0 .. n : f[k] = g[k]}
<1>1. 0 \in P
  BY DEF EncodedTo
<1>2. ASSUME NEW k \in 1 .. n, k - 1 \in P PROVE k \in P
  <2>1. f[k - 1] = g[k - 1]
    BY <1>2
  <2>2. /\ f[k] = f[k - 1] \o TokenCode(tokens[k], Len(f[k - 1]))
        /\ g[k] = g[k - 1] \o TokenCode(tokens[k], Len(g[k - 1]))
    BY DEF EncodedTo
  <2>3. f[k] = g[k]
    BY <2>1, <2>2, Zenon
  <2> QED BY <2>3
<1>3. \A k \in 0 .. n : k \in P
  <2> HIDE DEF P
  <2> QED BY <1>1, <1>2, UpTo
<1> QED BY <1>3

LEMMA EncodedIs ==
  ASSUME NEW tokens \in Seq(Tokens), NEW n \in 0 .. Len(tokens)
  PROVE  \E f : EncodedTo(tokens, f, n) /\ Encoded(tokens, n) = f[n]
PROOF
<1> DEFINE S == Seq({0, 1})
           step(f, k) == IF k = 0 THEN <<>>
                         ELSE LET before == f[k - 1]
                              IN  before \o TokenCode(tokens[k], Len(before))
           F == [a \in S \X (1 .. n) |-> a[1] \o TokenCode(tokens[a[2]], Len(a[1]))]
           Eq(f) == f = [k \in 0 .. n |-> step(f, k)]
           bits == CHOOSE f : Eq(f)
<1>0. n \in Nat /\ \A k \in 1 .. n : tokens[k] \in Tokens
  OBVIOUS
<1>1. ASSUME NEW s, BitString(s), NEW k \in 1 .. n
      PROVE  BitString(s \o TokenCode(tokens[k], Len(s)))
  <2>1. Len(s) \in Nat /\ tokens[k] \in Tokens
    BY <1>0, <1>1, JoinedBits
  <2>2. IsCode(TokenCode(tokens[k], Len(s)))
    BY <2>1, TokenCodeType
  <2> QED BY <1>1, <2>2, JoinedBits DEF IsCode
<1>2. F \in [S \X (1 .. n) -> S]
  <2>1. ASSUME NEW a \in S \X (1 .. n)
        PROVE  a[1] \o TokenCode(tokens[a[2]], Len(a[1])) \in S
    <3>1. a[1] \in S /\ a[2] \in 1 .. n
      <4> HIDE DEF S
      <4> QED OBVIOUS
    <3>2. BitString(a[1])
      BY <3>1 DEF BitString
    <3>3. BitString(a[1] \o TokenCode(tokens[a[2]], Len(a[1])))
      BY <1>1, <3>1, <3>2
    <3> QED BY <3>3 DEF BitString
  <2> HIDE DEF S
  <2> QED BY <2>1
<1>3. PICK f : Results(f, F, S, <<>>, n)
  <2>1. <<>> \in S
    OBVIOUS
  <2> HIDE DEF F, S
  <2> QED BY <1>0, <1>2, <2>1, LoopFunction
<1>4. EncodedTo(tokens, f, n)
  <2>1. \A k \in 0 .. n : f[k] \in S
    <3> HIDE DEF F, S
    <3> QED BY <1>3 DEF Results
  <2>2. ASSUME NEW k \in 1 .. n
        PROVE  f[k] = f[k - 1] \o TokenCode(tokens[k], Len(f[k - 1]))
    <3>1. k - 1 \in 0 .. n /\ f[k - 1] \in S
      BY <1>0, <2>1
    <3> DEFINE x == f[k - 1]
    <3>2. f[k] = F[<<x, k>>]
      <4> HIDE DEF F, S
      <4> QED BY <1>3 DEF Results
    <3> HIDE DEF x, S
    <3>3. x \in S /\ <<x, k>> \in S \X (1 .. n)
      BY <3>1 DEF x
    <3>4. F[<<x, k>>] = x \o TokenCode(tokens[k], Len(x))
      BY <3>3
    <3> HIDE DEF F
    <3>5. f[k] = x \o TokenCode(tokens[k], Len(x))
      BY <3>2, <3>4
    <3> QED BY <3>5 DEF x
  <2>3. f[0] = <<>>
    <3> HIDE DEF F, S
    <3> QED BY <1>3 DEF Results
  <2>4. \A k \in 0 .. n : BitString(f[k])
    BY <2>1 DEF BitString
  <2> QED BY <2>2, <2>3, <2>4 DEF EncodedTo
<1>5. Eq(f)
  <2>1. f = [k \in 0 .. n |-> f[k]]
    <3> HIDE DEF F, S
    <3> QED BY <1>3 DEF Results
  <2>2. \A k \in 0 .. n : f[k] = step(f, k)
    <3>1. \A k \in 0 .. n : k = 0 \/ k \in 1 .. n
      BY <1>0
    <3> QED BY <1>4, <3>1 DEF EncodedTo
  <2> HIDE DEF step
  <2> QED BY <2>1, <2>2
<1>6. Eq(bits)
  <2> HIDE DEF Eq
  <2> QED BY <1>5
<1>7. Encoded(tokens, n) = bits[n]
  BY DEF Encoded
<1> HIDE DEF bits, F
<1>8. EncodedTo(tokens, bits, n)
  <2>1. bits = [k \in 0 .. n |-> step(bits, k)]
    BY <1>6
  <2>2. \A k \in 0 .. n : bits[k] = step(bits, k)
    BY <2>1
  <2>3. bits[0] = <<>>
    BY <2>2, <1>0
  <2>4. \A k \in 1 .. n : bits[k] = bits[k - 1] \o TokenCode(tokens[k], Len(bits[k - 1]))
    <3>1. \A k \in 1 .. n : k \in 0 .. n /\ k # 0
      OBVIOUS
    <3> QED BY <2>2, <3>1
  <2> DEFINE P == {k \in 0 .. n : BitString(bits[k])}
  <2>5. 0 \in P
    <3>1. BitString(<<>>)
      BY DEF BitString
    <3>2. BitString(bits[0]) /\ 0 \in 0 .. n
      BY <2>3, <3>1, <1>0
    <3> QED BY <3>2
  <2>6. ASSUME NEW k \in 1 .. n, k - 1 \in P PROVE k \in P
    <3>1. BitString(bits[k - 1])
      BY <2>6
    <3>2. BitString(bits[k - 1] \o TokenCode(tokens[k], Len(bits[k - 1])))
      BY <1>1, <3>1
    <3>3. bits[k] = bits[k - 1] \o TokenCode(tokens[k], Len(bits[k - 1]))
      BY <2>4
    <3>4. BitString(bits[k])
      BY <3>2, <3>3, Zenon
    <3>5. k \in 0 .. n
      BY <1>0
    <3> QED BY <3>4, <3>5
  <2>7. \A k \in 0 .. n : k \in P
    <3> HIDE DEF P
    <3> QED BY <1>0, <2>5, <2>6, UpTo
  <2> QED BY <2>3, <2>4, <2>7 DEF EncodedTo
<1> QED BY <1>7, <1>8

(* A token more adds its code.                                              *)
LEMMA EncodedStep ==
  ASSUME NEW tokens \in Seq(Tokens), NEW n \in Nat, n < Len(tokens)
  PROVE  LET a == Encoded(tokens, n)
             c == TokenCode(tokens[n + 1], Len(a))
         IN  /\ Encoded(tokens, 0) = <<>>
             /\ BitString(a) /\ IsCode(c)
             /\ Encoded(tokens, n + 1) = a \o c
PROOF
<1>0. /\ Len(tokens) \in Nat /\ n \in 0 .. Len(tokens) /\ n + 1 \in 0 .. Len(tokens)
      /\ 0 \in 0 .. Len(tokens) /\ n + 1 \in 1 .. Len(tokens)
  OBVIOUS
<1>1. PICK f : EncodedTo(tokens, f, n) /\ Encoded(tokens, n) = f[n]
  BY <1>0, EncodedIs
<1> DEFINE m == n + 1
<1>2. PICK g : EncodedTo(tokens, g, m) /\ Encoded(tokens, m) = g[m]
  BY <1>0, EncodedIs
<1>3. PICK h : EncodedTo(tokens, h, 0) /\ Encoded(tokens, 0) = h[0]
  BY <1>0, EncodedIs
<1>4. EncodedTo(tokens, g, n)
  <2>1. \A k \in 0 .. n : k \in 0 .. m
    OBVIOUS
  <2>2. \A k \in 1 .. n : k \in 1 .. m
    OBVIOUS
  <2> HIDE DEF m
  <2> QED BY <1>2, <2>1, <2>2 DEF EncodedTo
<1>5. f[n] = g[n] /\ BitString(f[n])
  <2>1. n \in 0 .. n
    OBVIOUS
  <2>2. f[n] = g[n]
    BY <1>1, <1>4, <2>1, EncodedUnique
  <2>3. BitString(f[n])
    BY <1>1, <2>1 DEF EncodedTo
  <2> QED BY <2>2, <2>3
<1>6. m \in 1 .. m /\ m - 1 = n
  OBVIOUS
<1> HIDE DEF m
<1>7. g[m] = g[n] \o TokenCode(tokens[m], Len(g[n]))
  <2>1. g[m] = g[m - 1] \o TokenCode(tokens[m], Len(g[m - 1]))
    BY <1>2, <1>6 DEF EncodedTo
  <2> QED BY <2>1, <1>6, Zenon
<1> DEFINE a == Encoded(tokens, n)
           c == TokenCode(tokens[m], Len(a))
<1>8. BitString(a) /\ Encoded(tokens, m) = a \o c
  BY <1>1, <1>2, <1>5, <1>7, Zenon
<1>9. IsCode(c)
  <2>1. Len(a) \in Nat
    BY <1>8, JoinedBits
  <2>2. tokens[m] \in Tokens
    BY <1>0 DEF m
  <2> HIDE DEF a
  <2> QED BY <2>1, <2>2, TokenCodeType
<1>10. Encoded(tokens, 0) = <<>>
  BY <1>3 DEF EncodedTo
<1> QED BY <1>8, <1>9, <1>10 DEF m

LEMMA EncodedType ==
  ASSUME NEW tokens \in Seq(Tokens), NEW n \in 0 .. Len(tokens)
  PROVE  BitString(Encoded(tokens, n)) /\ Len(Encoded(tokens, n)) \in Nat
PROOF
<1>1. PICK f : EncodedTo(tokens, f, n) /\ Encoded(tokens, n) = f[n]
  BY EncodedIs
<1>2. n \in 0 .. n
  OBVIOUS
<1>3. BitString(Encoded(tokens, n))
  BY <1>1, <1>2 DEF EncodedTo
<1> QED BY <1>3, JoinedBits

LEMMA EncodedNone ==
  ASSUME NEW tokens \in Seq(Tokens)
  PROVE  Encoded(tokens, 0) = <<>>
PROOF
<1>1. 0 \in 0 .. Len(tokens)
  OBVIOUS
<1>2. PICK f : EncodedTo(tokens, f, 0) /\ Encoded(tokens, 0) = f[0]
  BY <1>1, EncodedIs
<1> QED BY <1>2 DEF EncodedTo

(* What is encoded of the first tokens is at the beginning of it all.       *)
Prefix(w, tokens, n) ==
  /\ Shows(w, 0, Encoded(tokens, n))
  /\ Len(Encoded(tokens, n)) <= Len(Encoded(tokens, Len(tokens)))

(* A token less: its code was the end of the bits.                          *)
LEMMA EncodedBefore ==
  ASSUME NEW tokens \in Seq(Tokens), NEW w, NEW n \in Nat, n < Len(tokens),
         Prefix(w, tokens, n + 1)
  PROVE  /\ Prefix(w, tokens, n)
         /\ LET a == Encoded(tokens, n)
                c == TokenCode(tokens[n + 1], Len(a))
            IN  /\ Shows(w, Len(a), c)
                /\ Len(Encoded(tokens, n + 1)) = Len(a) + Len(c)
PROOF
<1> DEFINE a == Encoded(tokens, n)
           b == Encoded(tokens, n + 1)
           c == TokenCode(tokens[n + 1], Len(a))
           all == Encoded(tokens, Len(tokens))
<1>1. BitString(a) /\ IsCode(c) /\ b = a \o c
  BY EncodedStep
<1>2. Shows(w, 0, b) /\ Len(b) <= Len(all)
  BY DEF Prefix
<1>3. Len(all) \in Nat
  <2>1. Len(tokens) \in 0 .. Len(tokens)
    OBVIOUS
  <2> QED BY <2>1, EncodedType
<1> HIDE DEF a, b, c, all
<1>4. BitString(c) /\ Len(c) \in Nat
  BY <1>1 DEF IsCode
<1>5. Len(b) = Len(a) + Len(c) /\ Len(a) \in Nat
  BY <1>1, <1>4, JoinedBits
<1>6. Shows(w, 0, a) /\ Shows(w, 0 + Len(a), c)
  <2> DEFINE zero == 0
  <2>1. zero \in Nat /\ Shows(w, zero, a \o c)
    BY <1>1, <1>2
  <2> HIDE DEF zero
  <2>2. Shows(w, zero, a) /\ Shows(w, zero + Len(a), c)
    BY <1>1, <1>4, <2>1, ShowsJoined
  <2> QED BY <2>2 DEF zero
<1>7. 0 + Len(a) = Len(a)
  BY <1>5
<1>8. Shows(w, Len(a), c)
  BY <1>6, <1>7
<1>9. Len(a) <= Len(all)
  BY <1>2, <1>3, <1>4, <1>5
<1>10. Prefix(w, tokens, n)
  BY <1>6, <1>9 DEF Prefix, a, all
<1> QED BY <1>5, <1>8, <1>10 DEF a, b, c

LEMMA EncodedPrefix ==
  ASSUME NEW tokens \in Seq(Tokens), NEW w, Shows(w, 0, Encoded(tokens, Len(tokens))),
         NEW n \in 0 .. Len(tokens)
  PROVE  Prefix(w, tokens, n)
PROOF
<1> DEFINE l == Len(tokens)
           P == {k \in 0 .. l : Prefix(w, tokens, l - k)}
<1>0. l \in Nat /\ n \in 0 .. l
  OBVIOUS
<1>1. 0 \in P
  <2>1. Len(Encoded(tokens, l)) \in Nat
    <3>1. l \in 0 .. Len(tokens)
      OBVIOUS
    <3> QED BY <3>1, EncodedType
  <2>2. Len(Encoded(tokens, l)) <= Len(Encoded(tokens, l))
    BY <2>1
  <2>3. l - 0 = l /\ 0 \in 0 .. l
    BY <1>0
  <2>4. Prefix(w, tokens, l)
    BY <2>2 DEF Prefix
  <2> HIDE DEF l
  <2> QED BY <2>3, <2>4
<1>2. ASSUME NEW k \in 1 .. l, k - 1 \in P PROVE k \in P
  <2> DEFINE m == l - k
  <2>1. m \in Nat /\ m < Len(tokens) /\ m + 1 = l - (k - 1) /\ k \in 0 .. l
    BY <1>0
  <2>2. Prefix(w, tokens, m + 1)
    BY <1>2, <2>1
  <2>3. Prefix(w, tokens, m)
    <3> HIDE DEF m
    <3> QED BY <2>1, <2>2, EncodedBefore
  <2> QED BY <2>1, <2>3
<1>3. \A k \in 0 .. l : k \in P
  <2> HIDE DEF P, l
  <2> QED BY <1>0, <1>1, <1>2, UpTo
<1>4. l - n \in 0 .. l /\ l - (l - n) = n
  BY <1>0
<1>5. l - n \in P
  <2> HIDE DEF P
  <2> QED BY <1>3, <1>4
<1> QED BY <1>4, <1>5

(* Each token is where those before it end. *)
LEMMA TokenShows ==
  ASSUME NEW tokens \in Seq(Tokens), NEW w, Shows(w, 0, Encoded(tokens, Len(tokens))),
         NEW n \in Nat, n < Len(tokens)
  PROVE  LET p == Len(Encoded(tokens, n))
             c == TokenCode(tokens[n + 1], p)
         IN  /\ p \in Nat /\ IsCode(c) /\ Shows(w, p, c)
             /\ Len(Encoded(tokens, n + 1)) = p + Len(c)
             /\ Len(Encoded(tokens, n + 1)) <= Len(Encoded(tokens, Len(tokens)))
PROOF
<1> DEFINE m == n + 1
<1>1. m \in 0 .. Len(tokens) /\ n \in 0 .. Len(tokens)
  OBVIOUS
<1>2. Prefix(w, tokens, m)
  BY <1>1, EncodedPrefix
<1>3. Len(Encoded(tokens, n)) \in Nat
  BY <1>1, EncodedType
<1>4. IsCode(TokenCode(tokens[n + 1], Len(Encoded(tokens, n))))
  BY EncodedStep
<1>5. /\ Shows(w, Len(Encoded(tokens, n)), TokenCode(tokens[n + 1], Len(Encoded(tokens, n))))
      /\ Len(Encoded(tokens, n + 1)) = Len(Encoded(tokens, n)) + Len(TokenCode(tokens[n + 1], Len(Encoded(tokens, n))))
  BY <1>2, EncodedBefore
<1> QED BY <1>2, <1>3, <1>4, <1>5 DEF Prefix

(* The bits of a segment: those of its tokens, up to a whole byte.          *)
LEMMA StreamIs ==
  ASSUME NEW tokens \in Seq(Tokens)
  PROVE  LET w == Stream(tokens)
             all == Encoded(tokens, Len(tokens))
         IN  /\ IsBits(w) /\ w.pos = 0 /\ w.left = Len(all)
             /\ Len(w.bits) \in Nat /\ Len(all) \in Nat
             /\ Len(w.bits) - Len(all) \in 0 .. 7
             /\ Shows(w, 0, all)
PROOF
<1> DEFINE all == Encoded(tokens, Len(tokens))
           padding == (-Len(all)) % 8
           z == BitsOf(0, padding)
           w == Stream(tokens)
<1>1. w = [bits |-> all \o z, pos |-> 0, left |-> Len(all \o z) - padding]
  BY DEF Stream, NewReader
<1>2. BitString(all) /\ Len(all) \in Nat
  <2>1. Len(tokens) \in 0 .. Len(tokens)
    OBVIOUS
  <2> QED BY <2>1, EncodedType
<1> HIDE DEF all, w
<1>3. padding \in 0 .. 7
  BY <1>2, Remainder
<1> HIDE DEF padding
<1>4. BitString(z) /\ Len(z) = padding
  <2>1. z \in Seq({0, 1}) /\ Len(z) = padding
    BY <1>3, BitsOfType, 0 \in Nat, padding \in 0 .. 25
  <2> QED BY <2>1 DEF BitString
<1> HIDE DEF z
<1> DEFINE b == all \o z
<1>5. BitString(b) /\ Len(b) = Len(all) + padding /\ \A k \in 1 .. Len(all) : b[k] = all[k]
  BY <1>2, <1>4, JoinedBits
<1>6. w.bits = b /\ w.pos = 0 /\ w.left = Len(b) - padding
  BY <1>1
<1> HIDE DEF b
<1>7. w.left = Len(all) /\ Len(w.bits) \in Nat /\ Len(w.bits) - Len(all) \in 0 .. 7
  BY <1>2, <1>3, <1>5, <1>6
<1>8. IsBits(w)
  BY <1>5, <1>6 DEF IsBits, BitString
<1>9. Shows(w, 0, all)
  <2>1. ASSUME NEW k \in 1 .. Len(all) PROVE BitAt(w, 0 + k) = all[k]
    <3>1. 0 + k = k /\ k <= Len(b) /\ b[k] = all[k]
      BY <1>2, <1>3, <1>5
    <3> QED BY <3>1, <1>6 DEF BitAt
  <2> QED BY <2>1 DEF Shows
<1> QED BY <1>2, <1>6, <1>7, <1>8, <1>9 DEF all, w

-----------------------------------------------------------------------------
(* What is decoded at a place p, and the place q behind it.                 *)
DecodesLiteral(r, p, byte, q) ==
  \E row, v : /\ HeadAt(r, p, row, v)
              /\ ~row.match /\ byte = (row.base + v) % 256
              /\ q = HeadEnd(p, row)

DecodesMatch(r, p, d, n, q) ==
  \E row, v, ones : /\ HeadAt(r, p, row, v)
                    /\ row.match /\ d = row.base + v /\ d # 0
                    /\ LengthAt(r, HeadEnd(p, row), ones, n) /\ ~TooLong(ones)
                    /\ q = LengthEnd(HeadEnd(p, row), ones)

DecodesRun(r, p, n, q) ==
  \E row, v : /\ HeadAt(r, p, row, v)
              /\ row.match /\ row.base + v = 0
              /\ n = ValueAt(r, HeadEnd(p, row), 15)
              /\ q = HeadEnd(p, row) + 15

(* Readers of the same bits see the same. *)
LEMMA ValueSame ==
  ASSUME NEW r, IsBits(r), NEW s, s.bits = r.bits
  PROVE  /\ IsBits(s)
         /\ \A k : BitAt(s, k) = BitAt(r, k)
         /\ \A p \in Nat : \A n \in Nat : ValueAt(s, p, n) = ValueAt(r, p, n)
PROOF
<1>1. IsBits(s)
  BY DEF IsBits
<1>2. \A k : BitAt(s, k) = BitAt(r, k)
  BY DEF BitAt
<1>3. ASSUME NEW p \in Nat, NEW n \in Nat
      PROVE  ValueAt(s, p, n) = ValueAt(r, p, n)
  <2>1. Agree(s, p, r, p, n)
    BY <1>2 DEF Agree
  <2> QED BY <1>1, <2>1, ValueAgree
<1> QED BY <1>1, <1>2, <1>3

(* MatchLength and the place behind it, in these terms.                     *)
LEMMA MatchLengthIs ==
  ASSUME NEW r, IsBits(r), NEW s, s.bits = r.bits, NEW p \in Nat, s.pos = p
  PROVE  LengthAt(r, p, Ones(s), MatchLength(s))
PROOF
<1> DEFINE ones == Ones(s)
<1>1. /\ IsBits(s) /\ \A k : BitAt(s, k) = BitAt(r, k)
      /\ \A q \in Nat : \A n \in Nat : ValueAt(s, q, n) = ValueAt(r, q, n)
  BY ValueSame
<1>2. OnesAt(s, p, ones)
  BY <1>1, OnesIs
<1>3. OnesAt(r, p, ones)
  BY <1>1, <1>2 DEF OnesAt
<1>4. MatchLength(s) = IF ones = 0 THEN 3
                       ELSE 2 * 2^ones + ValueAt(s, s.pos + ones + 1, LengthBits(ones))
  BY DEF MatchLength
<1> HIDE DEF ones
<1>5. ones \in Nat /\ LengthBits(ones) \in Nat
  BY <1>3 DEF OnesAt, LengthBits
<1>6. ValueAt(s, s.pos + ones + 1, LengthBits(ones)) = ValueAt(r, p + ones + 1, LengthBits(ones))
  <2>1. p + ones + 1 \in Nat /\ s.pos + ones + 1 = p + ones + 1
    BY <1>5
  <2> DEFINE q == p + ones + 1
             m == LengthBits(ones)
  <2>2. q \in Nat /\ m \in Nat
    BY <1>5
  <2> HIDE DEF q, m
  <2>3. ValueAt(s, q, m) = ValueAt(r, q, m)
    BY <1>1, <2>2
  <2> QED BY <2>1, <2>3 DEF q, m
<1>7. MatchLength(s) = IF ones = 0 THEN 3
                       ELSE 2 * 2^ones + ValueAt(r, p + ones + 1, LengthBits(ones))
  BY <1>4, <1>6
<1> QED BY <1>3, <1>7 DEF LengthAt, ones

ReaderOK(r) == IsBits(r) /\ r.pos \in Nat /\ r.left \in Int

(* The reader is moved on to a place. *)
MovedTo(r, q) == [bits |-> r.bits, pos |-> q, left |-> r.left - (q - r.pos)]

(* NextRows finds what is decoded at the place of the reader.               *)
LEMMA NextHead ==
  ASSUME NEW r, ReaderOK(r), NEW row \in NextRows(r)
  PROVE  LET s == GetBits(r, row.len)
             t == GetBits(s, row.bits)
             v == ValueAt(s, s.pos, row.bits)
         IN  /\ HeadAt(r, r.pos, row, v)
             /\ v \in Nat /\ row.base \in Nat
             /\ t = MovedTo(r, HeadEnd(r.pos, row))
             /\ HeadEnd(r.pos, row) \in Nat
PROOF
<1> DEFINE s == GetBits(r, row.len)
           t == GetBits(s, row.bits)
           p == r.pos
           len == row.len
           bits == row.bits
<1>1. row \in TokenTable /\ ValueAt(r, p, len) = row.code
  BY DEF NextRows
<1>2. /\ len \in Nat /\ bits \in Nat /\ row.base \in Nat
      /\ p \in Nat /\ r.left \in Int /\ IsBits(r)
  BY <1>1, TableRows DEF RowOK, ReaderOK
<1>3. /\ s.bits = r.bits /\ s.pos = p + len /\ s.left = r.left - len
      /\ t = [bits |-> r.bits, pos |-> p + len + bits, left |-> (r.left - len) - bits]
  BY DEF GetBits
<1> HIDE DEF s, t, len, bits, p
<1>4. p + len \in Nat /\ p + len + bits \in Nat /\ (r.left - len) - bits = r.left - ((p + len + bits) - p)
  BY <1>2
<1>5. t = MovedTo(r, p + len + bits)
  BY <1>3, <1>4 DEF MovedTo, p
<1>6. HeadEnd(p, row) = p + len + bits
  BY DEF HeadEnd, len, bits
<1> DEFINE q == p + len
<1>7. q \in Nat /\ s.pos = q
  BY <1>3, <1>4
<1> HIDE DEF q
<1>8. ValueAt(s, s.pos, bits) = ValueAt(r, q, bits)
  <2>1. ValueAt(s, q, bits) = ValueAt(r, q, bits)
    BY <1>2, <1>3, <1>7, ValueSame
  <2> QED BY <1>7, <2>1
<1>9. ValueAt(s, s.pos, bits) \in Nat
  BY <1>2, <1>7, <1>8, ValueType
<1>10. HeadAt(r, p, row, ValueAt(s, s.pos, bits))
  BY <1>1, <1>8 DEF HeadAt, q, len, bits
<1> QED BY <1>2, <1>4, <1>5, <1>6, <1>9, <1>10 DEF p, len, bits, s, t

(* Each decoding action decodes what is there and moves behind it.          *)
LEMMA ReadsLiteral ==
  ASSUME ReaderOK(reader), DecodeLiteral
  PROVE  \E byte \in Bytes, q \in Nat :
           /\ DecodesLiteral(reader, reader.pos, byte, q)
           /\ Literal(byte)
           /\ reader' = MovedTo(reader, q)
           /\ decoded' = Append(decoded, [kind |-> "literal", byte |-> byte])
PROOF
<1>1. PICK row \in NextRows(reader) :
        LET r == GetBits(reader, row.len)
            byte == (row.base + ValueAt(r, r.pos, row.bits)) % 256
        IN /\ ~row.match
           /\ Literal(byte)
           /\ reader' = GetBits(r, row.bits)
           /\ decoded' = Append(decoded, [kind |-> "literal", byte |-> byte])
  BY DEF DecodeLiteral
<1> DEFINE r == GetBits(reader, row.len)
           v == ValueAt(r, r.pos, row.bits)
           byte == (row.base + v) % 256
           q == HeadEnd(reader.pos, row)
<1>2. /\ HeadAt(reader, reader.pos, row, v) /\ v \in Nat /\ row.base \in Nat
      /\ GetBits(r, row.bits) = MovedTo(reader, q) /\ q \in Nat
  BY NextHead
<1>3. /\ ~row.match /\ Literal(byte) /\ reader' = GetBits(r, row.bits)
      /\ decoded' = Append(decoded, [kind |-> "literal", byte |-> byte])
  BY <1>1
<1> HIDE DEF r, v
<1>4. byte \in 0 .. 255
  <2> DEFINE x == row.base + v
  <2>1. x \in Nat
    BY <1>2
  <2> HIDE DEF x
  <2>2. x % 256 \in 0 .. 255
    BY <2>1
  <2> QED BY <2>2 DEF x
<1>5. byte \in Bytes
  BY <1>4, StreamAssumption
<1>6. DecodesLiteral(reader, reader.pos, byte, q)
  BY <1>2, <1>3 DEF DecodesLiteral
<1> HIDE DEF byte, q
<1>7. reader' = MovedTo(reader, q)
  BY <1>2, <1>3
<1> QED BY <1>2, <1>3, <1>5, <1>6, <1>7

(* The length of a match that is not too long. *)
LEMMA LengthNotZero ==
  ASSUME NEW r, IsBits(r), NEW p \in Nat, NEW ones, NEW n, LengthAt(r, p, ones, n), ~TooLong(ones)
  PROVE  n \in Nat \ {0} /\ LengthEnd(p, ones) \in Nat
PROOF
<1>1. ones \in Nat /\ n = IF ones = 0 THEN 3
                          ELSE 2 * 2^ones + ValueAt(r, p + ones + 1, LengthBits(ones))
  BY DEF LengthAt, OnesAt
<1>2. LengthBits(ones) \in Nat /\ p + ones + 1 \in Nat
  BY <1>1 DEF LengthBits
<1>3. LengthEnd(p, ones) \in Nat
  BY <1>2, <1>1 DEF LengthEnd
<1>4. CASE ones = 0
  BY <1>1, <1>3, <1>4
<1>5. CASE ones # 0
  <2>1. ~ (ones + 1 > 15)
    BY <1>5 DEF TooLong, LengthBits
  <2>2. ones \in 0 .. 25
    BY <1>1, <2>1
  <2>3. 2^ones \in Nat \ {0}
    BY <2>2, Doubles
  <2> DEFINE v == ValueAt(r, p + ones + 1, LengthBits(ones))
             m == 2^ones
  <2>4. v \in Nat
    BY <1>2, ValueType
  <2>5. n = 2 * m + v /\ m \in Nat \ {0}
    BY <1>1, <1>5, <2>3
  <2> HIDE DEF v, m
  <2>6. n \in Nat \ {0}
    BY <2>4, <2>5
  <2> QED BY <1>3, <2>6
<1> QED BY <1>4, <1>5

LEMMA ReadsMatch ==
  ASSUME ReaderOK(reader), DecodeMatch
  PROVE  \E d \in Nat, n \in Nat \ {0}, q \in Nat :
           /\ DecodesMatch(reader, reader.pos, d, n, q)
           /\ Match(d, n)
           /\ reader' = MovedTo(reader, q)
           /\ decoded' = Append(decoded, MatchToken(d, n))
PROOF
<1>1. PICK row \in NextRows(reader) :
        LET r == GetBits(reader, row.len)
            d == row.base + ValueAt(r, r.pos, row.bits)
            length == GetBits(r, row.bits)
        IN /\ row.match
           /\ ~TooLong(Ones(length))
           /\ Match(d, MatchLength(length))
           /\ reader' = AfterLength(length)
           /\ decoded' = Append(decoded, [kind |-> "match", distance |-> d,
                                          count |-> MatchLength(length)])
  BY DEF DecodeMatch
<1> DEFINE r == GetBits(reader, row.len)
           v == ValueAt(r, r.pos, row.bits)
           d == row.base + v
           length == GetBits(r, row.bits)
           ones == Ones(length)
           n == MatchLength(length)
           p == HeadEnd(reader.pos, row)
           q == LengthEnd(p, ones)
<1>2. /\ HeadAt(reader, reader.pos, row, v) /\ v \in Nat /\ row.base \in Nat
      /\ length = MovedTo(reader, p) /\ p \in Nat
  BY NextHead
<1>3. /\ row.match /\ ~TooLong(ones) /\ Match(d, n) /\ reader' = AfterLength(length)
      /\ decoded' = Append(decoded, MatchToken(d, n))
  BY <1>1 DEF MatchToken
<1>4. d \in Nat
  BY <1>2
<1>5. d # 0
  BY <1>3 DEF Match
<1> HIDE DEF r, v, d, p, length
<1>6. IsBits(reader) /\ reader.pos \in Nat /\ reader.left \in Int
  BY DEF ReaderOK
<1>7. /\ length.bits = reader.bits /\ length.pos = p
      /\ length.left = reader.left - (p - reader.pos)
  BY <1>2 DEF MovedTo
<1>8. LengthAt(reader, p, ones, n)
  BY <1>2, <1>6, <1>7, MatchLengthIs
<1>9. n \in Nat \ {0} /\ q \in Nat
  BY <1>2, <1>3, <1>6, <1>8, LengthNotZero
<1>10. DecodesMatch(reader, reader.pos, d, n, q)
  BY <1>2, <1>3, <1>5, <1>8 DEF DecodesMatch, p, d
<1>11. reader' = MovedTo(reader, q)
  <2> DEFINE more == LengthBits(ones)
  <2>1. ones \in Nat /\ more \in Nat
    BY <1>8 DEF LengthAt, OnesAt, LengthBits
  <2> HIDE DEF ones
  <2>2. reader' = GetBits(length, ones + 1 + more)
    BY <1>3 DEF AfterLength, ones
  <2> HIDE DEF more
  <2>3. reader' = [bits |-> reader.bits, pos |-> p + (ones + 1 + more),
                   left |-> (reader.left - (p - reader.pos)) - (ones + 1 + more)]
    BY <1>7, <2>2 DEF GetBits
  <2>4. q = p + (ones + 1 + more)
    BY <2>1, <1>2 DEF LengthEnd, more
  <2>5. (reader.left - (p - reader.pos)) - (ones + 1 + more) = reader.left - (q - reader.pos)
    BY <1>2, <1>6, <2>1, <2>4
  <2> HIDE DEF q
  <2> QED BY <2>3, <2>4, <2>5 DEF MovedTo
<1> HIDE DEF n, q
<1> QED BY <1>3, <1>4, <1>9, <1>10, <1>11

(* Where the bytes of an unencoded run begin. *)
Aligned(q) == q + ((-q) % 8)

(* byte_align moves there.                                                  *)
LEMMA AlignedIs ==
  ASSUME NEW q \in Nat
  PROVE  Aligned(q) \in Nat /\ Aligned(q) >= q
PROOF
<1>1. (-q) % 8 \in 0 .. 7
  BY Remainder
<1> DEFINE a == (-q) % 8
<1>2. a \in 0 .. 7
  BY <1>1
<1> HIDE DEF a
<1>3. q + a \in Nat /\ q + a >= q
  BY <1>2
<1> QED BY <1>3 DEF Aligned, a

LEMMA ReadsRun ==
  ASSUME ReaderOK(reader), DecodeRun
  PROVE  \E n \in Nat, q \in Nat :
           /\ DecodesRun(reader, reader.pos, n, q)
           /\ raw' = n
           /\ reader' = MovedTo(reader, Aligned(q))
           /\ decoded' = Append(decoded, RunToken(<<>>))
PROOF
<1>1. PICK row \in NextRows(reader) :
        LET r == GetBits(reader, row.len)
            count == GetBits(r, row.bits)
        IN /\ row.match /\ row.base + ValueAt(r, r.pos, row.bits) = 0
           /\ raw' = ValueAt(count, count.pos, 15)
           /\ reader' = ByteAlign(GetBits(count, 15))
           /\ decoded' = Append(decoded, [kind |-> "run", bytes |-> <<>>])
  BY DEF DecodeRun
<1> DEFINE r == GetBits(reader, row.len)
           v == ValueAt(r, r.pos, row.bits)
           count == GetBits(r, row.bits)
           p == HeadEnd(reader.pos, row)
           q == p + 15
           n == ValueAt(reader, p, 15)
<1>2. /\ HeadAt(reader, reader.pos, row, v) /\ v \in Nat /\ row.base \in Nat
      /\ count = MovedTo(reader, p) /\ p \in Nat
  BY NextHead
<1>3. /\ row.match /\ row.base + v = 0
      /\ raw' = ValueAt(count, count.pos, 15)
      /\ reader' = ByteAlign(GetBits(count, 15))
      /\ decoded' = Append(decoded, RunToken(<<>>))
  BY <1>1 DEF RunToken
<1> HIDE DEF r, v, count, p
<1>4. IsBits(reader) /\ reader.pos \in Nat /\ reader.left \in Int
  BY DEF ReaderOK
<1>5. /\ count.bits = reader.bits /\ count.pos = p
      /\ count.left = reader.left - (p - reader.pos)
  BY <1>2 DEF MovedTo
<1>6. ValueAt(count, count.pos, 15) = n /\ n \in Nat
  <2> DEFINE m == 15
  <2>1. m \in Nat
    OBVIOUS
  <2> HIDE DEF m
  <2>2. ValueAt(count, p, m) = ValueAt(reader, p, m)
    BY <1>2, <1>4, <1>5, <2>1, ValueSame
  <2>3. ValueAt(reader, p, m) \in Nat
    BY <1>2, <1>4, <2>1, ValueType
  <2> QED BY <1>5, <2>2, <2>3 DEF m
<1>7. q \in Nat
  BY <1>2
<1>8. DecodesRun(reader, reader.pos, n, q)
  BY <1>2, <1>3 DEF DecodesRun, p
<1>9. reader' = MovedTo(reader, Aligned(q))
  <2> DEFINE a == (-q) % 8
             l == reader.left
             o == reader.pos
  <2>1. a \in 0 .. 7
    BY <1>7, Remainder
  <2>2. GetBits(count, 15) = [bits |-> reader.bits, pos |-> q, left |-> (l - (p - o)) - 15]
    BY <1>5 DEF GetBits
  <2>3. ByteAlign(GetBits(count, 15))
          = [bits |-> reader.bits, pos |-> q + a, left |-> ((l - (p - o)) - 15) - a]
    BY <2>2 DEF GetBits, ByteAlign
  <2>6. Aligned(q) = q + a
    BY DEF Aligned
  <2> HIDE DEF a
  <2>4. ((l - (p - o)) - 15) - a = l - ((q + a) - o)
    BY <1>2, <1>4, <2>1
  <2>5. MovedTo(reader, q + a) = [bits |-> reader.bits, pos |-> q + a, left |-> l - ((q + a) - o)]
    BY DEF MovedTo
  <2> HIDE DEF q, l, o
  <2> QED BY <1>3, <2>3, <2>4, <2>5, <2>6
<1> HIDE DEF n, q
<1> QED BY <1>3, <1>6, <1>7, <1>8, <1>9

-----------------------------------------------------------------------------
(* A token is decoded from its code: to itself, and to its end.             *)
LEMMA LiteralDecoded ==
  ASSUME NEW w, IsBits(w), NEW p \in Nat, NEW row, NEW byte, IsLiteral(row, byte),
         Shows(w, p, CodeOf(row, byte))
  PROVE  DecodesLiteral(w, p, byte, p + Len(CodeOf(row, byte)))
PROOF
<1> DEFINE v == byte - row.base
           q == p + Len(CodeOf(row, byte))
<1>1. byte \in Nat /\ byte < 256 /\ Fits(row, byte) /\ ~row.match
  BY DEF IsLiteral
<1>2. HeadAt(w, p, row, v)
  BY <1>1, CodeHead
<1>3. row.len \in Nat /\ row.bits \in Nat /\ row.base \in Nat
  BY <1>1, TableRows DEF Fits, RowOK
<1>4. q = HeadEnd(p, row)
  <2>1. Len(CodeOf(row, byte)) = row.len + row.bits
    BY <1>1, CodeIsCode
  <2> DEFINE l == Len(CodeOf(row, byte))
             a == row.len
             b == row.bits
  <2>2. l = a + b /\ a \in Nat /\ b \in Nat
    BY <1>3, <2>1
  <2> HIDE DEF l, a, b
  <2>3. p + l = p + a + b
    BY <2>2
  <2> QED BY <2>3 DEF HeadEnd, l, a, b
<1>5. byte = (row.base + v) % 256
  <2> DEFINE b == row.base
  <2>1. b \in Nat
    BY <1>3
  <2> HIDE DEF b
  <2>2. b + (byte - b) = byte
    BY <1>1, <2>1
  <2>3. byte % 256 = byte
    BY <1>1
  <2> QED BY <2>2, <2>3 DEF b
<1> HIDE DEF v, q
<1> QED BY <1>1, <1>2, <1>4, <1>5 DEF DecodesLiteral, q

(* A match, and the head of a run.                                          *)
LEMMA MatchDecoded ==
  ASSUME NEW w, IsBits(w), NEW p \in Nat, NEW d, NEW n, IsMatch(d, n),
         Shows(w, p, CodeOf(RowOf(d), d) \o LengthCode(n))
  PROVE  DecodesMatch(w, p, d, n, p + Len(CodeOf(RowOf(d), d) \o LengthCode(n)))
PROOF
<1> DEFINE row == RowOf(d)
           a == CodeOf(row, d)
           b == LengthCode(n)
           v == d - row.base
           h == HeadEnd(p, row)
<1>1. d \in Nat /\ d # 0 /\ d <= Farthest /\ IsLength(n)
  BY DEF IsMatch
<1>2. row.match /\ Fits(row, d)
  BY <1>1, RowOfIs
<1>3. row.len \in Nat /\ row.bits \in Nat /\ row.base \in Nat
  BY <1>2, TableRows DEF Fits, RowOK
<1>4. IsCode(a) /\ Len(a) = row.len + row.bits
  BY <1>1, <1>2, CodeIsCode
<1>5. PICK ones \in 0 .. 14 :
        /\ Len(b) = ones + 1 + LengthBits(ones)
        /\ \A r, s : IsBits(r) /\ s \in Nat /\ Shows(r, s, b) => LengthAt(r, s, ones, n)
  BY <1>1, LengthCodeIs
<1>6. BitString(a) /\ BitString(b)
  BY <1>1, <1>4, LengthCodeType DEF IsCode
<1>7. Shows(w, p, a) /\ Shows(w, p + Len(a), b) /\ Len(a \o b) = Len(a) + Len(b)
  <2>1. Shows(w, p, a \o b)
    OBVIOUS
  <2> HIDE DEF a, b
  <2> QED BY <1>6, <2>1, ShowsJoined, JoinedBits
<1>8. HeadAt(w, p, row, v)
  BY <1>1, <1>2, <1>7, CodeHead
<1>9. h = p + Len(a) /\ h \in Nat
  <2> DEFINE k == row.len
             l == row.bits
             m == Len(a)
  <2>1. m = k + l /\ k \in Nat /\ l \in Nat
    BY <1>3, <1>4
  <2> HIDE DEF k, l, m
  <2>2. p + k + l = p + m /\ p + m \in Nat
    BY <2>1
  <2> QED BY <2>2 DEF HeadEnd, k, l, m
<1>10. LengthAt(w, h, ones, n)
  BY <1>5, <1>7, <1>9
<1>11. ~TooLong(ones) /\ LengthBits(ones) \in Nat
  BY <1>5 DEF TooLong, LengthBits
<1>12. LengthEnd(h, ones) = p + Len(a \o b)
  <2> DEFINE k == LengthBits(ones)
             l == Len(a)
             m == Len(b)
             o == Len(a \o b)
  <2>1. m = ones + 1 + k /\ k \in Nat /\ o = l + m /\ h = p + l /\ ones \in Nat
    BY <1>5, <1>7, <1>9, <1>11
  <2>2. l \in Nat
    BY <1>6, JoinedBits
  <2> HIDE DEF k, l, m, o, h
  <2>3. h + ones + 1 + k = p + o
    BY <2>1, <2>2
  <2> QED BY <2>3 DEF LengthEnd, k, o
<1>13. d = row.base + v
  <2> DEFINE c == row.base
  <2>1. c \in Nat
    BY <1>3
  <2> HIDE DEF c
  <2>2. d = c + (d - c)
    BY <1>1, <2>1
  <2> QED BY <2>2 DEF c
<1> HIDE DEF v, a, b, row
<1>14. DecodesMatch(w, p, d, n, p + Len(a \o b))
  BY <1>1, <1>2, <1>8, <1>10, <1>11, <1>12, <1>13 DEF DecodesMatch, h
<1> QED BY <1>14 DEF a, b, row

LEMMA RunDecoded ==
  ASSUME NEW w, IsBits(w), NEW p \in Nat, NEW bytes, IsRun(bytes),
         Shows(w, p, TokenCode(RunToken(bytes), p))
  PROVE  \E q \in Nat :
           /\ DecodesRun(w, p, Len(bytes), q)
           /\ Aligned(q) + 8 * Len(bytes) = p + Len(TokenCode(RunToken(bytes), p))
           /\ Shows(w, Aligned(q), BytesToBits(bytes))
PROOF
<1> DEFINE n == Len(bytes)
           row == RowOf(0)
           a == CodeOf(row, 0)
           b == BitsOf(n, 15)
           f == Filler(p, n)
           z == BytesToBits(bytes)
           c == TokenCode(RunToken(bytes), p)
           h == HeadEnd(p, row)
           q == h + 15
           head == RunCode(n)
<1>1. bytes \in Seq(Bytes) /\ Below(n, 15) /\ n \in Nat
  BY DEF IsRun
<1>2. c = (head \o f) \o z
  BY TokenCodeRun
<1>3. /\ BitString(a) /\ BitString(b) /\ BitString(head)
      /\ Len(a) = row.len + row.bits /\ Len(b) = 15 /\ Len(head) = row.len + row.bits + 15
      /\ row.len \in 1 .. 9 /\ row.bits \in 0 .. 24
  BY <1>1, RunCodeType
<1>4. BitString(f) /\ Len(f) = (-(p + Len(head))) % 8 /\ Len(f) \in 0 .. 7
  BY <1>1, FillerType
<1>5. BitString(z) /\ Len(z) = 8 * n
  BY <1>1, BytesToBitsType
<1>6. head = a \o b
  BY DEF RunCode
<1>7. Shows(w, p, c)
  OBVIOUS
<1>8. row.match /\ Fits(row, 0)
  <2> DEFINE zero == 0
  <2>1. zero \in Nat /\ zero <= Farthest
    BY SMT DEF Farthest
  <2> HIDE DEF zero
  <2>2. RowOf(zero).match /\ Fits(RowOf(zero), zero)
    BY <2>1, RowOfIs
  <2> QED BY <2>2 DEF zero
<1> HIDE DEF n, a, b, f, z, c, head
<1>9. BitString(head \o f) /\ Len(head \o f) = Len(head) + Len(f)
  BY <1>3, <1>4, JoinedBits
<1>10. /\ Shows(w, p, head \o f) /\ Shows(w, p + Len(head \o f), z)
       /\ Len(c) = Len(head \o f) + Len(z)
  BY <1>2, <1>5, <1>7, <1>9, ShowsJoined, JoinedBits
<1>11. Shows(w, p, head)
  BY <1>3, <1>4, <1>10, ShowsJoined
<1>12. Shows(w, p, a) /\ Shows(w, p + Len(a), b)
  BY <1>3, <1>6, <1>11, ShowsJoined
<1>13. HeadAt(w, p, row, 0 - row.base)
  <2> DEFINE zero == 0
  <2>1. zero \in Nat /\ Fits(row, zero) /\ Shows(w, p, CodeOf(row, zero))
    BY <1>8, <1>12 DEF a
  <2> HIDE DEF zero, row
  <2>2. HeadAt(w, p, row, zero - row.base)
    BY <2>1, CodeHead
  <2> QED BY <2>2 DEF zero
<1> DEFINE k == row.len
           l == row.bits
           base == row.base
<1>14. k \in Nat /\ l \in Nat /\ base \in Nat
  <2>1. base \in Nat
    BY <1>8, TableRows DEF Fits, RowOK
  <2>2. k \in 1 .. 9 /\ l \in 0 .. 24
    BY <1>3
  <2> HIDE DEF k, l
  <2>3. k \in Nat /\ l \in Nat
    BY <2>2
  <2> QED BY <2>1, <2>3
<1>15. h = p + Len(a) /\ h \in Nat /\ q = p + Len(head) /\ q \in Nat
  <2> DEFINE m == Len(a)
             o == Len(head)
  <2>1. m = k + l /\ o = k + l + 15
    BY <1>3
  <2>2. h = p + k + l
    BY DEF HeadEnd
  <2> HIDE DEF k, l, m, o
  <2>3. p + k + l = p + m /\ p + m \in Nat /\ p + m + 15 = p + o
    BY <1>14, <2>1
  <2> HIDE DEF h
  <2>4. h = p + m /\ h \in Nat /\ h + 15 = p + o /\ h + 15 \in Nat
    BY <2>2, <2>3
  <2> QED BY <2>4 DEF m, o
<1> HIDE DEF h
<1>16. ValueAt(w, h, 15) = n
  <2> DEFINE m == 15
  <2>1. m \in 0 .. 25 /\ Below(n, m) /\ Shows(w, h, BitsOf(n, m))
    BY <1>1, <1>12, <1>15 DEF b
  <2> HIDE DEF m
  <2>2. ValueAt(w, h, m) = n
    BY <1>15, <2>1, ShowsValue
  <2> QED BY <2>2 DEF m
<1>17. row.base + (0 - row.base) = 0
  <2> HIDE DEF row
  <2>1. base + (0 - base) = 0
    <3> HIDE DEF base
    <3> QED BY <1>14
  <2> QED BY <2>1 DEF base
<1> DEFINE v == 0 - row.base
<1>18. DecodesRun(w, p, n, q)
  <2>1. HeadAt(w, p, row, v) /\ row.match /\ row.base + v = 0
    BY <1>8, <1>13, <1>17
  <2>2. h = HeadEnd(p, row)
    BY DEF h
  <2> HIDE DEF row, v
  <2> QED BY <1>16, <2>1, <2>2 DEF DecodesRun
<1> HIDE DEF q, k, l, base, v, row
<1>19. Aligned(q) = p + Len(head \o f)
  <2> DEFINE m == Len(head)
             o == Len(f)
             u == Len(head \o f)
  <2>1. q = p + m /\ u = m + o
    BY <1>9, <1>15
  <2>2. Aligned(q) = q + o
    <3>1. (-q) % 8 = o
      BY <1>4, <1>15, Zenon
    <3> QED BY <3>1 DEF Aligned
  <2>3. m \in Nat /\ o \in Nat
    BY <1>3, <1>4, JoinedBits
  <2> HIDE DEF m, o, u
  <2>4. q + o = p + u
    BY <2>1, <2>3
  <2> QED BY <2>2, <2>4 DEF u
<1>20. Aligned(q) + 8 * n = p + Len(c)
  <2> DEFINE m == Len(head \o f)
             o == Len(c)
             u == Len(z)
             x == Aligned(q)
  <2>1. x = p + m /\ o = m + u /\ u = 8 * n
    BY <1>5, <1>10, <1>19
  <2>2. m \in Nat
    BY <1>9, JoinedBits
  <2> HIDE DEF m, o, u, x
  <2>3. x + 8 * n = p + o
    BY <2>1, <2>2, <1>1
  <2> QED BY <2>3 DEF x, o
<1>21. Shows(w, Aligned(q), z)
  BY <1>10, <1>19
<1> QED BY <1>15, <1>18, <1>20, <1>21 DEF n, c, z

(* Bits that are no token are taken for none. *)
LEMMA NoiseDecoded ==
  ASSUME NEW w, IsBits(w), NEW p \in Nat, NEW bits, IsNoise(bits), Shows(w, p, bits),
         NEW row, NEW v, HeadAt(w, p, row, v)
  PROVE  /\ row.match /\ row.base + v # 0
         /\ \A ones, n : LengthAt(w, HeadEnd(p, row), ones, n) => TooLong(ones)
PROOF
<1> DEFINE r == NewReader(bits, 0)
           l == Len(bits)
           Long(o) == LET behind == o.len + o.bits
                      IN /\ o.match /\ o.base + ValueAt(r, o.len, o.bits) # 0
                         /\ Len(bits) >= behind + 15
                         /\ \A k \in 1 .. 15 : bits[behind + k] = 1
<1>1. BitString(bits) /\ NoToken(bits)
  BY DEF IsNoise
<1>2. l \in Nat
  BY <1>1, JoinedBits
<1>3. r.bits = bits /\ r.pos = 0 /\ IsBits(r)
  BY <1>1 DEF NewReader, IsBits, BitString
<1>4. (l >= 9 /\ NextRows(r) = {}) \/ \E o \in NextRows(r) : Long(o)
  BY <1>1 DEF NoToken
<1> HIDE DEF r, l
<1>5. ASSUME NEW s \in Nat, NEW n \in Nat, s + n <= l
      PROVE  ValueAt(r, s, n) = ValueAt(w, p + s, n)
  <2>1. ASSUME NEW k \in 1 .. n
        PROVE  BitAt(r, s + k) = BitAt(w, (p + s) + k)
    <3>1. s + k \in 1 .. l /\ p + (s + k) = (p + s) + k
      BY <1>2, <1>5
    <3> DEFINE m == s + k
    <3>2. m \in 1 .. l
      BY <3>1
    <3> HIDE DEF m
    <3>3. BitAt(r, m) = bits[m]
      BY <1>2, <1>3, <3>2 DEF BitAt, l
    <3>4. BitAt(w, p + m) = bits[m]
      BY <3>2 DEF Shows, l
    <3> QED BY <3>1, <3>3, <3>4 DEF m
  <2>2. p + s \in Nat
    OBVIOUS
  <2>3. Agree(r, s, w, p + s, n)
    BY <2>1 DEF Agree
  <2> QED BY <1>3, <2>2, <2>3, ValueAgree
<1>6. row \in TokenTable /\ ValueAt(w, p, row.len) = row.code
  BY DEF HeadAt
<1>7. CASE l >= 9 /\ NextRows(r) = {}
  <2>1. row.len \in 1 .. 9
    BY <1>6, TableRows DEF RowOK
  <2> DEFINE n == row.len
             s == 0
  <2>2. n \in Nat /\ s \in Nat /\ s + n <= l /\ p + s = p
    BY <1>2, <1>7, <2>1
  <2> HIDE DEF n, s
  <2>3. ValueAt(r, s, n) = ValueAt(w, p, n)
    BY <1>5, <2>2
  <2>4. ValueAt(r, r.pos, row.len) = row.code
    BY <1>3, <1>6, <2>3 DEF s, n
  <2>5. row \in NextRows(r)
    BY <1>6, <2>4 DEF NextRows
  <2> QED BY <1>7, <2>5
<1>8. ASSUME NEW o \in NextRows(r), Long(o)
      PROVE  /\ row.match /\ row.base + v # 0
             /\ \A ones, n : LengthAt(w, HeadEnd(p, row), ones, n) => TooLong(ones)
  <2>1. o \in TokenTable /\ ValueAt(r, 0, o.len) = o.code
    BY <1>3 DEF NextRows
  <2> DEFINE a == o.len
             b == o.bits
             behind == a + b
             u == ValueAt(w, p + a, b)
             zero == 0
  <2>2. a \in Nat /\ b \in Nat
    BY <2>1, TableRows DEF RowOK
  <2>3. /\ o.match /\ o.base + ValueAt(r, a, b) # 0
        /\ l >= behind + 15 /\ \A k \in 1 .. 15 : bits[behind + k] = 1
    BY <1>8 DEF l
  <2>4. /\ behind \in Nat /\ a + b <= l /\ zero + a <= l /\ zero \in Nat /\ p + zero = p
        /\ \A k \in 1 .. 15 : behind + k \in 1 .. l
    BY <1>2, <2>2, <2>3
  <2>5. ValueAt(r, zero, a) = o.code
    BY <2>1
  <2> HIDE DEF a, b, zero
  <2>6. ValueAt(w, p, a) = o.code
    <3>1. ValueAt(r, zero, a) = ValueAt(w, p + zero, a)
      BY <1>5, <2>2, <2>4
    <3> QED BY <2>4, <2>5, <3>1
  <2>7. ValueAt(r, a, b) = u
    BY <1>5, <2>2, <2>4
  <2> HIDE DEF u
  <2>8. HeadAt(w, p, o, u)
    BY <2>1, <2>6 DEF HeadAt, u, a, b
  <2>9. SameRow(row, o) /\ v = u /\ HeadEnd(p, row) = HeadEnd(p, o)
    BY <2>8, HeadUnique
  <2>10. row.match = o.match /\ row.base = o.base
    BY <2>9 DEF SameRow
  <2>11. row.match /\ row.base + v # 0
    BY <2>3, <2>7, <2>9, <2>10
  <2>12. HeadEnd(p, row) = p + behind
    <3>1. p + a + b = p + behind
      BY <2>2
    <3> QED BY <2>9, <3>1 DEF HeadEnd, a, b
  <2>13. ASSUME NEW ones, NEW n, LengthAt(w, p + behind, ones, n)
         PROVE  TooLong(ones)
    <3>1. ones \in Nat /\ BitAt(w, p + behind + ones + 1) = 0
      BY <2>13 DEF LengthAt, OnesAt
    <3> HIDE DEF behind
    <3>2. SUFFICES ASSUME ones <= 14 PROVE FALSE
      <4>1. CASE ones <= 14
        BY <4>1
      <4>2. CASE ~ (ones <= 14)
        BY <3>1, <4>2 DEF TooLong, LengthBits
      <4> QED BY <4>1, <4>2
    <3> DEFINE k == ones + 1
               m == behind + k
    <3>3. k \in 1 .. 15 /\ p + m = p + behind + ones + 1
      BY <3>1, <3>2, <2>4
    <3> HIDE DEF k
    <3>4. bits[m] = 1 /\ m \in 1 .. l
      BY <2>3, <2>4, <3>3
    <3> HIDE DEF m
    <3>5. BitAt(w, p + m) = bits[m]
      BY <3>4 DEF Shows, l
    <3> QED BY <3>1, <3>3, <3>4, <3>5
  <2> QED BY <2>11, <2>12, <2>13
<1> HIDE DEF Long
<1> QED BY <1>4, <1>7, <1>8

-----------------------------------------------------------------------------
(* At a place no more than one thing is decoded.                            *)
LEMMA LiteralUnique ==
  ASSUME NEW w, IsBits(w), NEW p \in Nat, NEW a, NEW q, NEW b, NEW s,
         DecodesLiteral(w, p, a, q), DecodesLiteral(w, p, b, s)
  PROVE  a = b /\ q = s
PROOF
<1>1. PICK row, v : /\ HeadAt(w, p, row, v) /\ a = (row.base + v) % 256
                    /\ q = HeadEnd(p, row)
  BY DEF DecodesLiteral
<1>2. PICK o, u : /\ HeadAt(w, p, o, u) /\ b = (o.base + u) % 256
                  /\ s = HeadEnd(p, o)
  BY DEF DecodesLiteral
<1>3. SameRow(row, o) /\ v = u /\ HeadEnd(p, row) = HeadEnd(p, o)
  BY <1>1, <1>2, HeadUnique
<1>4. row.base = o.base
  BY <1>3 DEF SameRow
<1> QED BY <1>1, <1>2, <1>3, <1>4, Zenon

LEMMA MatchUnique ==
  ASSUME NEW w, IsBits(w), NEW p \in Nat, NEW d, NEW n, NEW q, NEW e, NEW m, NEW s,
         DecodesMatch(w, p, d, n, q), DecodesMatch(w, p, e, m, s)
  PROVE  d = e /\ n = m /\ q = s
PROOF
<1>1. PICK row, v, ones : /\ HeadAt(w, p, row, v) /\ d = row.base + v
                          /\ LengthAt(w, HeadEnd(p, row), ones, n)
                          /\ q = LengthEnd(HeadEnd(p, row), ones)
  BY DEF DecodesMatch
<1>2. PICK o, u, more : /\ HeadAt(w, p, o, u) /\ e = o.base + u
                        /\ LengthAt(w, HeadEnd(p, o), more, m)
                        /\ s = LengthEnd(HeadEnd(p, o), more)
  BY DEF DecodesMatch
<1>3. SameRow(row, o) /\ v = u /\ HeadEnd(p, row) = HeadEnd(p, o)
  BY <1>1, <1>2, HeadUnique
<1>4. row.base = o.base
  BY <1>3 DEF SameRow
<1> DEFINE h == HeadEnd(p, row)
<1>5. h \in Nat
  <2>1. row.len \in Nat /\ row.bits \in Nat
    BY <1>1, TableRows DEF HeadAt, RowOK
  <2> QED BY <2>1 DEF HeadEnd
<1>6. LengthAt(w, h, ones, n) /\ LengthAt(w, h, more, m)
  BY <1>1, <1>2, <1>3
<1> HIDE DEF h
<1>7. ones = more /\ n = m
  BY <1>5, <1>6, LengthUnique
<1> QED BY <1>1, <1>2, <1>3, <1>4, <1>7, Zenon

LEMMA RunUnique ==
  ASSUME NEW w, IsBits(w), NEW p \in Nat, NEW n, NEW q, NEW m, NEW s,
         DecodesRun(w, p, n, q), DecodesRun(w, p, m, s)
  PROVE  n = m /\ q = s
PROOF
<1>1. PICK row, v : /\ HeadAt(w, p, row, v) /\ n = ValueAt(w, HeadEnd(p, row), 15)
                    /\ q = HeadEnd(p, row) + 15
  BY DEF DecodesRun
<1>2. PICK o, u : /\ HeadAt(w, p, o, u) /\ m = ValueAt(w, HeadEnd(p, o), 15)
                  /\ s = HeadEnd(p, o) + 15
  BY DEF DecodesRun
<1>3. HeadEnd(p, row) = HeadEnd(p, o)
  BY <1>1, <1>2, HeadUnique
<1> QED BY <1>1, <1>2, <1>3, Zenon

(* Nor is it of two kinds.                                                  *)
LEMMA OneKind ==
  ASSUME NEW w, IsBits(w), NEW p \in Nat, NEW row, NEW v, HeadAt(w, p, row, v)
  PROVE  /\ \A a, q : DecodesLiteral(w, p, a, q) => ~row.match
         /\ \A d, n, q : DecodesMatch(w, p, d, n, q) => row.match /\ row.base + v # 0
         /\ \A n, q : DecodesRun(w, p, n, q) => row.match /\ row.base + v = 0
PROOF
<1>0. ASSUME NEW o, NEW u, HeadAt(w, p, o, u)
      PROVE  row.match = o.match /\ row.base = o.base /\ v = u
  <2>1. SameRow(row, o) /\ v = u
    BY <1>0, HeadUnique
  <2> QED BY <2>1 DEF SameRow
<1>1. ASSUME NEW a, NEW q, DecodesLiteral(w, p, a, q) PROVE ~row.match
  <2>1. PICK o, u : HeadAt(w, p, o, u) /\ ~o.match
    BY <1>1 DEF DecodesLiteral
  <2>2. row.match = o.match
    BY <2>1, <1>0
  <2> QED BY <2>1, <2>2, Zenon
<1>2. ASSUME NEW d, NEW n, NEW q, DecodesMatch(w, p, d, n, q)
      PROVE  row.match /\ row.base + v # 0
  <2>1. PICK o, u : HeadAt(w, p, o, u) /\ o.match /\ d = o.base + u /\ d # 0
    BY <1>2 DEF DecodesMatch
  <2>2. row.match = o.match /\ row.base = o.base /\ v = u
    BY <2>1, <1>0
  <2> QED BY <2>1, <2>2, Zenon
<1>3. ASSUME NEW n, NEW q, DecodesRun(w, p, n, q) PROVE row.match /\ row.base + v = 0
  <2>1. PICK o, u : HeadAt(w, p, o, u) /\ o.match /\ o.base + u = 0
    BY <1>3 DEF DecodesRun
  <2>2. row.match = o.match /\ row.base = o.base /\ v = u
    BY <2>1, <1>0
  <2> QED BY <2>1, <2>2, Zenon
<1> QED BY <1>1, <1>2, <1>3

(* A place is decoded to the token whose code is there, and to its end.     *)
LEMMA TokenDecodedLiteral ==
  ASSUME NEW w, IsBits(w), NEW p \in Nat, NEW t \in Tokens, Shows(w, p, TokenCode(t, p)),
         NEW byte, NEW q, DecodesLiteral(w, p, byte, q)
  PROVE  Meaning(t) = [kind |-> "literal", byte |-> byte] /\ q = p + Len(TokenCode(t, p))
PROOF
<1>0. PICK o, u : HeadAt(w, p, o, u) /\ ~o.match
  BY DEF DecodesLiteral
<1>1. ASSUME NEW row, NEW b, t = LiteralToken(row, b), IsLiteral(row, b)
      PROVE  Meaning(t) = [kind |-> "literal", byte |-> byte] /\ q = p + Len(TokenCode(t, p))
  <2> DEFINE c == CodeOf(row, b)
  <2>1. TokenCode(t, p) = c
    BY <1>1, TokenCodeLiteral
  <2>2. Shows(w, p, c)
    BY <2>1
  <2>3. DecodesLiteral(w, p, b, p + Len(c))
    BY <1>1, <2>2, LiteralDecoded
  <2> HIDE DEF c
  <2>4. byte = b /\ q = p + Len(c)
    BY <2>3, LiteralUnique
  <2>5. Meaning(t) = [kind |-> "literal", byte |-> b]
    BY <1>1 DEF Meaning, LiteralToken
  <2> QED BY <2>1, <2>4, <2>5, Zenon
<1>2. ASSUME NEW d, NEW n, t = MatchToken(d, n), IsMatch(d, n) PROVE FALSE
  <2> DEFINE c == CodeOf(RowOf(d), d) \o LengthCode(n)
  <2>1. TokenCode(t, p) = c
    BY <1>2, TokenCodeMatch
  <2>2. Shows(w, p, c)
    BY <2>1
  <2>3. DecodesMatch(w, p, d, n, p + Len(c))
    BY <1>2, <2>2, MatchDecoded
  <2> HIDE DEF c
  <2> QED BY <1>0, <2>3, OneKind
<1>3. ASSUME NEW bytes, t = RunToken(bytes), IsRun(bytes) PROVE FALSE
  <2>1. Shows(w, p, TokenCode(RunToken(bytes), p))
    BY <1>3
  <2>2. PICK s \in Nat : DecodesRun(w, p, Len(bytes), s)
    BY <1>3, <2>1, RunDecoded
  <2> QED BY <1>0, <2>2, OneKind
<1>4. ASSUME NEW bits, t = NoiseToken(bits), IsNoise(bits) PROVE FALSE
  <2>1. Shows(w, p, bits)
    BY <1>4, TokenCodeNoise
  <2> QED BY <1>0, <1>4, <2>1, NoiseDecoded
<1> QED BY <1>1, <1>2, <1>3, <1>4, TokenKinds

LEMMA TokenDecodedMatch ==
  ASSUME NEW w, IsBits(w), NEW p \in Nat, NEW t \in Tokens, Shows(w, p, TokenCode(t, p)),
         NEW d, NEW n, NEW q, DecodesMatch(w, p, d, n, q)
  PROVE  Meaning(t) = MatchToken(d, n) /\ q = p + Len(TokenCode(t, p))
PROOF
<1>0. PICK o, u, ones : /\ HeadAt(w, p, o, u) /\ o.match /\ d = o.base + u /\ d # 0
                        /\ LengthAt(w, HeadEnd(p, o), ones, n) /\ ~TooLong(ones)
  BY DEF DecodesMatch
<1>1. ASSUME NEW row, NEW b, t = LiteralToken(row, b), IsLiteral(row, b) PROVE FALSE
  <2> DEFINE c == CodeOf(row, b)
  <2>1. TokenCode(t, p) = c
    BY <1>1, TokenCodeLiteral
  <2>2. Shows(w, p, c)
    BY <2>1
  <2>3. DecodesLiteral(w, p, b, p + Len(c))
    BY <1>1, <2>2, LiteralDecoded
  <2> HIDE DEF c
  <2> QED BY <1>0, <2>3, OneKind
<1>2. ASSUME NEW e, NEW m, t = MatchToken(e, m), IsMatch(e, m)
      PROVE  Meaning(t) = MatchToken(d, n) /\ q = p + Len(TokenCode(t, p))
  <2> DEFINE c == CodeOf(RowOf(e), e) \o LengthCode(m)
  <2>1. TokenCode(t, p) = c
    BY <1>2, TokenCodeMatch
  <2>2. Shows(w, p, c)
    BY <2>1
  <2>3. DecodesMatch(w, p, e, m, p + Len(c))
    BY <1>2, <2>2, MatchDecoded
  <2> HIDE DEF c
  <2>4. d = e /\ n = m /\ q = p + Len(c)
    BY <2>3, MatchUnique
  <2>5. Meaning(t) = t
    BY <1>2 DEF Meaning, MatchToken
  <2> QED BY <1>2, <2>1, <2>4, <2>5, Zenon
<1>3. ASSUME NEW bytes, t = RunToken(bytes), IsRun(bytes) PROVE FALSE
  <2>1. Shows(w, p, TokenCode(RunToken(bytes), p))
    BY <1>3
  <2>2. PICK s \in Nat : DecodesRun(w, p, Len(bytes), s)
    BY <1>3, <2>1, RunDecoded
  <2>3. o.base + u # 0
    BY <1>0
  <2> QED BY <1>0, <2>2, <2>3, OneKind
<1>4. ASSUME NEW bits, t = NoiseToken(bits), IsNoise(bits) PROVE FALSE
  <2>1. Shows(w, p, bits)
    BY <1>4, TokenCodeNoise
  <2>2. TooLong(ones)
    BY <1>0, <1>4, <2>1, NoiseDecoded
  <2> QED BY <1>0, <2>2
<1> QED BY <1>1, <1>2, <1>3, <1>4, TokenKinds

LEMMA TokenDecodedRun ==
  ASSUME NEW w, IsBits(w), NEW p \in Nat, NEW t \in Tokens, Shows(w, p, TokenCode(t, p)),
         NEW n, NEW q, DecodesRun(w, p, n, q)
  PROVE  \E bytes : /\ t = RunToken(bytes) /\ bytes \in Seq(Bytes) /\ n = Len(bytes)
                    /\ Aligned(q) + 8 * n = p + Len(TokenCode(t, p))
                    /\ Shows(w, Aligned(q), BytesToBits(bytes))
PROOF
<1>0. PICK o, u : HeadAt(w, p, o, u) /\ o.match /\ o.base + u = 0
  BY DEF DecodesRun
<1>1. ASSUME NEW row, NEW b, t = LiteralToken(row, b), IsLiteral(row, b) PROVE FALSE
  <2> DEFINE c == CodeOf(row, b)
  <2>1. TokenCode(t, p) = c
    BY <1>1, TokenCodeLiteral
  <2>2. Shows(w, p, c)
    BY <2>1
  <2>3. DecodesLiteral(w, p, b, p + Len(c))
    BY <1>1, <2>2, LiteralDecoded
  <2> HIDE DEF c
  <2> QED BY <1>0, <2>3, OneKind
<1>2. ASSUME NEW d, NEW m, t = MatchToken(d, m), IsMatch(d, m) PROVE FALSE
  <2> DEFINE c == CodeOf(RowOf(d), d) \o LengthCode(m)
  <2>1. TokenCode(t, p) = c
    BY <1>2, TokenCodeMatch
  <2>2. Shows(w, p, c)
    BY <2>1
  <2>3. DecodesMatch(w, p, d, m, p + Len(c))
    BY <1>2, <2>2, MatchDecoded
  <2> HIDE DEF c
  <2> QED BY <1>0, <2>3, OneKind
<1>3. ASSUME NEW bytes, t = RunToken(bytes), IsRun(bytes)
      PROVE  /\ bytes \in Seq(Bytes) /\ n = Len(bytes)
             /\ Aligned(q) + 8 * n = p + Len(TokenCode(t, p))
             /\ Shows(w, Aligned(q), BytesToBits(bytes))
  <2>1. Shows(w, p, TokenCode(RunToken(bytes), p))
    BY <1>3
  <2>2. PICK s \in Nat :
          /\ DecodesRun(w, p, Len(bytes), s)
          /\ Aligned(s) + 8 * Len(bytes) = p + Len(TokenCode(RunToken(bytes), p))
          /\ Shows(w, Aligned(s), BytesToBits(bytes))
    BY <1>3, <2>1, RunDecoded
  <2>3. n = Len(bytes) /\ q = s
    BY <2>2, RunUnique
  <2>4. bytes \in Seq(Bytes)
    BY <1>3 DEF IsRun
  <2> QED BY <1>3, <2>2, <2>3, <2>4, Zenon
<1>4. ASSUME NEW bits, t = NoiseToken(bits), IsNoise(bits) PROVE FALSE
  <2>1. Shows(w, p, bits)
    BY <1>4, TokenCodeNoise
  <2> QED BY <1>0, <1>4, <2>1, NoiseDecoded
<1>5. PICK bytes : t = RunToken(bytes) /\ IsRun(bytes)
  BY <1>1, <1>2, <1>4, TokenKinds
<1> QED BY <1>3, <1>5

-----------------------------------------------------------------------------
(* A reader that lost the end of the bits decodes the same of the rest.     *)
LEMMA HeadNumbers ==
  ASSUME NEW r, NEW p \in Nat, NEW row, NEW v, HeadAt(r, p, row, v)
  PROVE  HeadEnd(p, row) \in Nat
PROOF
<1>1. row.len \in Nat /\ row.bits \in Nat
  BY TableRows DEF HeadAt, RowOK
<1> QED BY <1>1 DEF HeadEnd

(* For each kind of token.                                                  *)
LEMMA LiteralLocal ==
  ASSUME NEW r, IsBits(r), NEW s, IsBits(s), NEW end \in Nat, SameTo(r, s, end),
         NEW p \in Nat, NEW byte, NEW q, DecodesLiteral(r, p, byte, q), q <= end
  PROVE  DecodesLiteral(s, p, byte, q)
PROOF
<1>1. PICK row, v : /\ HeadAt(r, p, row, v) /\ ~row.match
                    /\ byte = (row.base + v) % 256 /\ q = HeadEnd(p, row)
  BY DEF DecodesLiteral
<1>2. HeadAt(s, p, row, v)
  BY <1>1, HeadLocal
<1> QED BY <1>1, <1>2 DEF DecodesLiteral

LEMMA MatchLocal ==
  ASSUME NEW r, IsBits(r), NEW s, IsBits(s), NEW end \in Nat, SameTo(r, s, end),
         NEW p \in Nat, NEW d, NEW n, NEW q, DecodesMatch(r, p, d, n, q), q <= end
  PROVE  DecodesMatch(s, p, d, n, q)
PROOF
<1>1. PICK row, v, ones : /\ HeadAt(r, p, row, v)
                          /\ row.match /\ d = row.base + v /\ d # 0
                          /\ LengthAt(r, HeadEnd(p, row), ones, n) /\ ~TooLong(ones)
                          /\ q = LengthEnd(HeadEnd(p, row), ones)
  BY DEF DecodesMatch
<1> DEFINE h == HeadEnd(p, row)
<1>2. h \in Nat
  BY <1>1, HeadNumbers
<1>3. ones \in Nat /\ LengthBits(ones) \in Nat
  BY <1>1 DEF LengthAt, OnesAt, LengthBits
<1>4. LengthAt(r, h, ones, n) /\ q = LengthEnd(h, ones) /\ q <= end
  BY <1>1
<1> HIDE DEF h
<1>5. h <= end
  BY <1>2, <1>3, <1>4 DEF LengthEnd
<1>6. HeadAt(s, p, row, v)
  <2>1. HeadEnd(p, row) <= end
    BY <1>5 DEF h
  <2> QED BY <1>1, <2>1, HeadLocal
<1>7. LengthAt(s, h, ones, n)
  BY <1>2, <1>4, LengthLocal
<1> QED BY <1>1, <1>6, <1>7 DEF DecodesMatch, h

LEMMA RunLocal ==
  ASSUME NEW r, IsBits(r), NEW s, IsBits(s), NEW end \in Nat, SameTo(r, s, end),
         NEW p \in Nat, NEW n, NEW q, DecodesRun(r, p, n, q), q <= end
  PROVE  DecodesRun(s, p, n, q)
PROOF
<1>1. PICK row, v : /\ HeadAt(r, p, row, v) /\ row.match /\ row.base + v = 0
                    /\ n = ValueAt(r, HeadEnd(p, row), 15)
                    /\ q = HeadEnd(p, row) + 15
  BY DEF DecodesRun
<1> DEFINE h == HeadEnd(p, row)
           m == 15
<1>2. h \in Nat /\ m \in Nat
  BY <1>1, HeadNumbers
<1>3. h + m <= end /\ q = h + m /\ n = ValueAt(r, h, m)
  BY <1>1
<1> HIDE DEF h, m
<1>4. h <= end
  BY <1>2, <1>3
<1>5. HeadAt(s, p, row, v)
  <2>1. HeadEnd(p, row) <= end
    BY <1>4 DEF h
  <2> QED BY <1>1, <2>1, HeadLocal
<1>6. ValueAt(r, h, m) = ValueAt(s, h, m)
  <2>1. Agree(r, h, s, h, m)
    BY <1>2, <1>3, AgreeTo
  <2> QED BY <1>2, <2>1, ValueAgree
<1>7. n = ValueAt(s, HeadEnd(p, row), 15)
  BY <1>3, <1>6 DEF h, m
<1> QED BY <1>1, <1>5, <1>7 DEF DecodesRun

-----------------------------------------------------------------------------
(* The inductive invariant of the reading.                                  *)
Decodings ==
  [kind : {"literal"}, byte : Bytes] \cup [kind : {"match"}, distance : Nat, count : Nat]
  \cup [kind : {"run"}, bytes : Seq(Bytes)]

(* The types of what is read and of what is decoded.                        *)
ReadTypes ==
  /\ ReaderOK(reader) /\ raw \in Nat
  /\ segments \in Seq(Segments) /\ decoded \in Seq(Decodings)
  /\ cut \in BOOLEAN
  /\ raw > 0 => Len(decoded) # 0 /\ \E s \in Seq(Bytes) : decoded[Len(decoded)] = RunToken(s)

(* Of the run that is being read, which ends at e, raw bytes are missing.   *)
RunRead(w, e, bytes) ==
  /\ bytes \in Seq(Bytes) /\ raw <= Len(bytes)
  /\ meant[Len(decoded)] = RunToken(bytes)
  /\ decoded[Len(decoded)] = RunToken(SubSeq(bytes, 1, Len(bytes) - raw))
  /\ e - 8 * Len(bytes) \in Nat
  /\ Shows(w, e - 8 * Len(bytes), BytesToBits(bytes))
  /\ reader.pos = e - 8 * raw

(* All tokens decoded but the last n are those that were encoded.           *)
AllBut(n) == \A k \in 1 .. Len(decoded) - n : SameToken(k)

(* What was decoded is what was encoded, up to the place e where the last   *)
(* token of it ends.                                                        *)
Right(w, e) ==
  \/ raw = 0 /\ Len(decoded) <= Len(meant) /\ AllBut(0) /\ reader.pos = e
  \/ /\ raw > 0 /\ Len(decoded) # 0 /\ Len(decoded) <= Len(meant) /\ AllBut(1)
     /\ \E bytes : RunRead(w, e, bytes)

(* The reader is past the bits it has, once it has lost some.               *)
Beyond == reader.pos > Len(reader.bits) /\ Len(decoded) # 0 /\ AllBut(1)

(* Where the code of the n-th token ends.                                   *)
End(n) == Len(Encoded(meant, n))

(* A segment of tokens, whose bits w shows; and one that is not encoded.    *)
ReadsTokens(w) ==
  /\ meant \in Seq(Tokens) /\ IsBits(w) /\ Shows(w, 0, Encoded(meant, Len(meant)))
  /\ ~cut => /\ reader.bits = w.bits
             /\ reader.left = End(Len(meant)) - reader.pos
             /\ Right(w, End(Len(decoded)))
  /\ cut => /\ SameTo(reader, w, Len(reader.bits))
            /\ Len(reader.bits) < End(Len(meant))
            /\ reader.left <= Len(reader.bits) - reader.pos
            /\ Right(w, End(Len(decoded))) \/ Beyond

ReadsPlain(e) ==
  /\ ~cut /\ Len(meant) = 1 /\ Len(decoded) = 1
  /\ e \in Nat /\ reader.left <= 0 /\ Right(reader, e)

ReadInv == ReadTypes /\ ((\E w : ReadsTokens(w)) \/ (\E e : ReadsPlain(e)))

-----------------------------------------------------------------------------
(* Between two tokens, with bits left: the reader is where the next token   *)
(* of a segment begins.                                                     *)
NextToken(w) ==
  /\ Len(decoded) < Len(meant) /\ AllBut(0)
  /\ reader.pos = End(Len(decoded))
  /\ Len(decoded) \in Nat

(* Types that the provers need one by one.                                  *)
LEMMA Numbers ==
  ASSUME ReadTypes
  PROVE  /\ Len(decoded) \in Nat /\ Len(reader.bits) \in Nat /\ IsBits(reader)
         /\ reader.pos \in Nat /\ reader.left \in Int /\ raw \in Nat
PROOF
<1>1. IsBits(reader) /\ reader.pos \in Nat /\ reader.left \in Int /\ raw \in Nat
  BY DEF ReadTypes, ReaderOK
<1>2. Len(decoded) \in Nat
  BY DEF ReadTypes
<1>3. Len(reader.bits) \in Nat
  BY <1>1 DEF IsBits
<1> QED BY <1>1, <1>2, <1>3

(* There is one, for neither side has come to its end.                      *)
LEMMA AtNextToken ==
  ASSUME ReadTypes, NEW w, ReadsTokens(w), raw = 0, reader.left > 0
  PROVE  NextToken(w)
PROOF
<1> DEFINE n == Len(decoded)
           l == Len(meant)
           p == reader.pos
           size == Len(reader.bits)
           left0 == reader.left
<1>1. n \in Nat /\ size \in Nat /\ p \in Nat /\ left0 \in Int
  BY Numbers
<1>2. meant \in Seq(Tokens) /\ l \in Nat
  <2>1. meant \in Seq(Tokens)
    BY DEF ReadsTokens
  <2> QED BY <2>1
<1>3. \A k \in 0 .. l : End(k) \in Nat
  BY <1>2, EncodedType DEF End
<1>4. Right(w, End(n)) /\ p < End(l)
  <2>1. End(l) \in Nat
    <3>1. l \in 0 .. l
      BY <1>2
    <3> QED BY <1>3, <3>1
  <2> DEFINE e == End(l)
  <2>2. left0 > 0 /\ e \in Nat
    BY <2>1
  <2>3. CASE cut
    <3>1. size < e /\ left0 <= size - p /\ (Right(w, End(n)) \/ Beyond)
      BY <2>3 DEF ReadsTokens
    <3>2. p < e /\ ~ (p > size)
      <4> HIDE DEF e, size, p, left0
      <4> QED BY <1>1, <2>2, <3>1
    <3>3. ~Beyond
      BY <3>2 DEF Beyond
    <3> QED BY <3>1, <3>2, <3>3
  <2>4. CASE ~cut
    <3>1. left0 = e - p /\ Right(w, End(n))
      BY <2>4 DEF ReadsTokens
    <3>2. p < e
      <4> HIDE DEF e, p, left0
      <4> QED BY <1>1, <2>2, <3>1
    <3> QED BY <3>1, <3>2
  <2> QED BY <2>3, <2>4
<1>5. n <= l /\ AllBut(0) /\ p = End(n)
  <2>1. ~ (raw > 0)
    BY Numbers
  <2> QED BY <1>4, <2>1 DEF Right
<1>6. n # l
  <2>1. ASSUME n = l PROVE FALSE
    <3>1. p = End(l) /\ End(l) \in Nat
      <4>1. l \in 0 .. l
        BY <1>2
      <4> QED BY <1>3, <1>5, <2>1, <4>1
    <3> DEFINE e == End(l)
    <3>2. p = e /\ p < e /\ e \in Nat
      BY <3>1, <1>4
    <3> HIDE DEF e, p
    <3> QED BY <3>2
  <2> QED BY <2>1
<1>7. n < l
  <2> HIDE DEF n, l
  <2> QED BY <1>1, <1>2, <1>5, <1>6
<1> QED BY <1>1, <1>5, <1>7 DEF NextToken

(* The reader moves on. *)
LEMMA TokensKept ==
  ASSUME ReadTypes, NEW w, ReadsTokens(w), NEW q \in Nat,
         reader' = MovedTo(reader, q), UNCHANGED <<meant, cut>>,
         Right(w, End(Len(decoded)))' \/ (cut /\ Beyond')
  PROVE  ReadsTokens(w)'
PROOF
<1> DEFINE l == Len(meant)
           p == reader.pos
<1>1. p \in Nat /\ reader.left \in Int /\ Len(reader.bits) \in Nat
  BY Numbers
<1>2. /\ reader'.bits = reader.bits /\ reader'.pos = q
      /\ reader'.left = reader.left - (q - p)
  BY DEF MovedTo
<1>3. meant' = meant /\ cut' = cut
  OBVIOUS
<1>4. End(Len(meant))' = End(l)
  BY <1>3 DEF End
<1>5. End(l) \in Nat
  <2>1. meant \in Seq(Tokens)
    BY DEF ReadsTokens
  <2>2. l \in 0 .. Len(meant)
    BY <2>1
  <2> QED BY <2>1, <2>2, EncodedType DEF End
<1>6. CASE cut
  <2>1. /\ SameTo(reader, w, Len(reader.bits)) /\ Len(reader.bits) < End(l)
        /\ reader.left <= Len(reader.bits) - p
    BY <1>6 DEF ReadsTokens
  <2>2. SameTo(reader', w, Len(reader'.bits))
    BY <1>2, <2>1 DEF SameTo, BitAt
  <2>3. reader'.left <= Len(reader'.bits) - reader'.pos
    <3> DEFINE a == reader.left
               b == Len(reader.bits)
    <3>1. a <= b - p /\ a \in Int /\ b \in Nat
      BY <1>1, <2>1
    <3> HIDE DEF a, b, p
    <3>2. a - (q - p) <= b - q
      BY <1>1, <3>1
    <3> QED BY <1>2, <3>2 DEF a, b
  <2> QED BY <1>2, <1>3, <1>4, <1>6, <2>1, <2>2, <2>3 DEF ReadsTokens
<1>7. CASE ~cut
  <2>1. reader.bits = w.bits /\ reader.left = End(l) - p
    BY <1>7 DEF ReadsTokens
  <2>2. reader'.left = End(l) - q
    <3> DEFINE e == End(l)
               a == reader.left
    <3>1. a = e - p /\ e \in Nat
      BY <1>5, <2>1
    <3> HIDE DEF e, a, p
    <3>2. a - (q - p) = e - q
      BY <1>1, <3>1
    <3> QED BY <1>2, <3>2 DEF e, a
  <2>3. Right(w, End(Len(decoded)))'
    BY <1>7
  <2> QED BY <1>2, <1>3, <1>4, <1>7, <2>1, <2>2, <2>3 DEF ReadsTokens
<1> QED BY <1>6, <1>7

(* What is decoded next leaves what was decoded.                            *)
LEMMA Appended ==
  ASSUME ReadTypes, AllBut(0), NEW x, decoded' = Append(decoded, x), UNCHANGED meant
  PROVE  /\ AllBut(1)'
         /\ Len(decoded') = Len(decoded) + 1 /\ decoded'[Len(decoded) + 1] = x
PROOF
<1> DEFINE n == Len(decoded)
<1>1. n \in Nat
  BY Numbers
<1>2. Len(decoded') = n + 1 /\ (\A k \in 1 .. n : decoded'[k] = decoded[k]) /\ decoded'[n + 1] = x
  BY DEF ReadTypes
<1>3. ASSUME NEW k \in 1 .. n PROVE SameToken(k)'
  <2>1. SameToken(k)
    <3>1. k \in 1 .. Len(decoded) - 0
      BY <1>1
    <3> QED BY <3>1 DEF AllBut
  <2> QED BY <1>2, <2>1 DEF SameToken
<1>4. Len(decoded') - 1 = n
  BY <1>1, <1>2
<1>5. AllBut(1)'
  BY <1>3, <1>4 DEF AllBut
<1> QED BY <1>2, <1>5

(* All are right if the last one is.                                        *)
LEMMA LastOne ==
  ASSUME AllBut(1)', Len(decoded') \in Nat, NEW n, n = Len(decoded'), SameToken(n)'
  PROVE  AllBut(0)'
PROOF
<1>1. ASSUME NEW k \in 1 .. Len(decoded') - 0 PROVE SameToken(k)'
  <2>1. CASE k = n
    BY <2>1
  <2>2. CASE k # n
    <3>1. k \in 1 .. Len(decoded') - 1
      BY <2>2
    <3> QED BY <3>1 DEF AllBut
  <2> QED BY <2>1, <2>2
<1> QED BY <1>1 DEF AllBut

(* A token more. *)
LEMMA TokenAdded ==
  ASSUME ReadTypes, NEW w, ReadsTokens(w), raw = 0, NextToken(w),
         NEW x, NEW q \in Nat,
         reader' = MovedTo(reader, q), decoded' = Append(decoded, x),
         raw' = 0, UNCHANGED <<meant, cut>>,
         \/ x = Meaning(meant[Len(decoded) + 1]) /\ q = End(Len(decoded) + 1)
         \/ cut /\ q > Len(reader.bits)
  PROVE  ReadsTokens(w)'
PROOF
<1> DEFINE n == Len(decoded)
<1>1. n \in Nat
  BY Numbers
<1>2. reader'.bits = reader.bits /\ reader'.pos = q
  BY DEF MovedTo
<1>3. n < Len(meant) /\ AllBut(0)
  BY DEF NextToken
<1>4. AllBut(1)' /\ Len(decoded') = n + 1 /\ decoded'[n + 1] = x
  BY <1>3, Appended
<1>5. meant' = meant /\ cut' = cut
  OBVIOUS
<1>6. CASE x = Meaning(meant[n + 1]) /\ q = End(n + 1)
  <2>1. n + 1 <= Len(meant)
    <3>1. meant \in Seq(Tokens)
      BY DEF ReadsTokens
    <3>2. Len(meant) \in Nat
      BY <3>1
    <3> QED BY <3>2, <1>1, <1>3
  <2>2. ASSUME NEW k, k = n + 1 PROVE SameToken(k)'
    <3>1. k <= Len(meant) /\ decoded'[k] = Meaning(meant[k])
      BY <1>4, <1>6, <2>1, <2>2
    <3> QED BY <1>5, <3>1 DEF SameToken
  <2>3. AllBut(0)'
    <3> DEFINE m == Len(decoded')
    <3>1. m = n + 1 /\ m \in Nat
      BY <1>1, <1>4
    <3> QED BY <1>4, <2>2, <3>1, LastOne
  <2>4. End(Len(decoded))' = q
    BY <1>4, <1>5, <1>6 DEF End
  <2>5. Right(w, End(Len(decoded)))'
    BY <1>2, <1>4, <1>5, <2>1, <2>3, <2>4 DEF Right
  <2> QED BY <2>5, TokensKept
<1>7. CASE cut /\ q > Len(reader.bits)
  <2>1. Len(decoded') # 0
    BY <1>1, <1>4
  <2>2. Beyond'
    BY <1>2, <1>4, <1>7, <2>1 DEF Beyond
  <2> QED BY <1>7, <2>2, TokensKept
<1> QED BY <1>6, <1>7

(* What a reader decodes is there in the whole of the segment, unless it    *)
(* is read past the bits that were left of it.                              *)
LEMMA Seen ==
  ASSUME ReadTypes, NEW w, ReadsTokens(w), NEW q \in Nat
  PROVE  SameTo(reader, w, q) \/ (cut /\ q > Len(reader.bits))
PROOF
<1>1. Len(reader.bits) \in Nat /\ cut \in BOOLEAN
  BY Numbers DEF ReadTypes
<1>2. CASE ~cut
  <2>1. reader.bits = w.bits
    BY <1>2 DEF ReadsTokens
  <2> QED BY <2>1 DEF SameTo, BitAt
<1>3. CASE cut /\ q <= Len(reader.bits)
  <2>1. SameTo(reader, w, Len(reader.bits))
    BY <1>3 DEF ReadsTokens
  <2>2. \A k \in 1 .. q : k \in 1 .. Len(reader.bits)
    BY <1>1, <1>3
  <2> QED BY <2>1, <2>2 DEF SameTo
<1> QED BY <1>1, <1>2, <1>3

(* Its code is what is shown there.                                         *)
LEMMA NextCode ==
  ASSUME ReadTypes, NEW w, ReadsTokens(w), NextToken(w)
  PROVE  LET p == reader.pos
             t == meant[Len(decoded) + 1]
         IN  /\ t \in Tokens /\ Shows(w, p, TokenCode(t, p)) /\ p \in Nat /\ IsBits(w)
             /\ End(Len(decoded) + 1) = p + Len(TokenCode(t, p))
PROOF
<1> DEFINE n == Len(decoded)
<1>1. /\ meant \in Seq(Tokens) /\ IsBits(w) /\ Shows(w, 0, Encoded(meant, Len(meant)))
  BY DEF ReadsTokens
<1>2. n \in Nat /\ n < Len(meant) /\ reader.pos = Len(Encoded(meant, n))
  BY DEF NextToken, End
<1> HIDE DEF n
<1>3. meant[n + 1] \in Tokens
  <2>1. n + 1 \in 1 .. Len(meant)
    BY <1>1, <1>2
  <2> QED BY <1>1, <2>1
<1> DEFINE p == reader.pos
           c == TokenCode(meant[n + 1], p)
<1>4. p \in Nat /\ Shows(w, p, c) /\ Len(Encoded(meant, n + 1)) = p + Len(c)
  <2> DEFINE o == Len(Encoded(meant, n))
  <2>1. /\ o \in Nat /\ Shows(w, o, TokenCode(meant[n + 1], o))
        /\ Len(Encoded(meant, n + 1)) = o + Len(TokenCode(meant[n + 1], o))
    BY <1>1, <1>2, TokenShows
  <2>2. p = o
    BY <1>2
  <2> HIDE DEF o, p
  <2> QED BY <2>1, <2>2
<1> QED BY <1>1, <1>3, <1>4 DEF End, n

(* A segment that is not encoded has no tokens but its bytes.               *)
LEMMA PlainIsRun ==
  ASSUME ReadTypes, NEW e, ReadsPlain(e)
  PROVE  ~ (reader.left > 0)
PROOF
<1> DEFINE left0 == reader.left
<1>1. left0 \in Int /\ left0 <= 0
  BY Numbers DEF ReadsPlain
<1> HIDE DEF left0
<1>2. ~ (left0 > 0)
  BY <1>1
<1> QED BY <1>2 DEF left0

(* So what is decoded next is a token of a segment.                         *)
LEMMA TokensOnly ==
  ASSUME ReadInv, raw = 0, reader.left > 0
  PROVE  \E w : ReadsTokens(w) /\ NextToken(w)
PROOF
<1>1. ReadTypes
  BY DEF ReadInv
<1>2. PICK w : ReadsTokens(w)
  BY <1>1, PlainIsRun DEF ReadInv
<1> QED BY <1>1, <1>2, AtNextToken

(* The types of what is decoded. *)
LEMMA DecodedMore ==
  ASSUME ReadTypes, NEW x \in Decodings, decoded' = Append(decoded, x)
  PROVE  decoded' \in Seq(Decodings)
PROOF
<1> HIDE DEF Decodings
<1>1. decoded \in Seq(Decodings)
  BY DEF ReadTypes
<1> QED BY <1>1

LEMMA ReaderMoves ==
  ASSUME ReaderOK(reader), NEW q \in Nat, reader' = MovedTo(reader, q)
  PROVE  ReaderOK(reader')
PROOF
<1>1. IsBits(reader) /\ reader.pos \in Nat /\ reader.left \in Int
  BY DEF ReaderOK
<1>2. /\ reader'.bits = reader.bits /\ reader'.pos = q
      /\ reader'.left = reader.left - (q - reader.pos)
  BY DEF MovedTo
<1>3. IsBits(reader')
  BY <1>1, <1>2 DEF IsBits
<1>4. reader'.left \in Int
  <2> DEFINE a == reader.left
             p == reader.pos
  <2>1. a \in Int /\ p \in Nat
    BY <1>1
  <2> HIDE DEF a, p
  <2>2. a - (q - p) \in Int
    BY <2>1
  <2> QED BY <1>2, <2>2 DEF a, p
<1> QED BY <1>2, <1>3, <1>4 DEF ReaderOK

(* Each token that is decoded is the next one that was encoded.             *)
LEMMA LiteralRight ==
  ASSUME ReadInv, DecodeLiteral
  PROVE  ReadInv'
PROOF
<1>1. ReadTypes /\ ReaderOK(reader) /\ raw = 0 /\ reader.left > 0
      /\ raw' = raw /\ UNCHANGED <<segments, meant, cut>>
  BY DEF ReadInv, ReadTypes, DecodeLiteral, Between
<1>2. PICK w : ReadsTokens(w) /\ NextToken(w)
  BY <1>1, TokensOnly
<1>3. PICK byte \in Bytes, q \in Nat :
        /\ DecodesLiteral(reader, reader.pos, byte, q)
        /\ reader' = MovedTo(reader, q)
        /\ decoded' = Append(decoded, [kind |-> "literal", byte |-> byte])
  BY <1>1, ReadsLiteral
<1> DEFINE x == [kind |-> "literal", byte |-> byte]
           t == meant[Len(decoded) + 1]
           p == reader.pos
<1>4. x \in Decodings
  BY DEF Decodings
<1>5. /\ t \in Tokens /\ Shows(w, p, TokenCode(t, p)) /\ p \in Nat /\ IsBits(w)
      /\ End(Len(decoded) + 1) = p + Len(TokenCode(t, p))
  BY <1>1, <1>2, NextCode
<1>6. SameTo(reader, w, q) => x = Meaning(t) /\ q = End(Len(decoded) + 1)
  <2>1. SUFFICES ASSUME SameTo(reader, w, q)
                 PROVE  x = Meaning(t) /\ q = End(Len(decoded) + 1)
    OBVIOUS
  <2>2. IsBits(reader) /\ q <= q
    BY <1>1 DEF ReaderOK
  <2>3. DecodesLiteral(reader, p, byte, q)
    BY <1>3
  <2> HIDE DEF t, p, x
  <2>4. DecodesLiteral(w, p, byte, q)
    BY <1>5, <2>1, <2>2, <2>3, LiteralLocal
  <2>5. Meaning(t) = [kind |-> "literal", byte |-> byte] /\ q = p + Len(TokenCode(t, p))
    BY <1>5, <2>4, TokenDecodedLiteral
  <2> QED BY <1>5, <2>5 DEF x
<1>7. SameTo(reader, w, q) \/ (cut /\ q > Len(reader.bits))
  BY <1>1, <1>2, Seen
<1>8. decoded' = Append(decoded, x)
  BY <1>3
<1> HIDE DEF x
<1>9. ReadsTokens(w)'
  BY <1>1, <1>2, <1>3, <1>6, <1>7, <1>8, TokenAdded DEF t
<1>10. ReadTypes'
  <2>1. decoded' \in Seq(Decodings)
    BY <1>1, <1>4, <1>8, DecodedMore
  <2>2. ReaderOK(reader')
    BY <1>1, <1>3, ReaderMoves
  <2>3. raw' = 0 /\ ~ (raw' > 0) /\ raw' \in Nat
    BY <1>1
  <2> QED BY <1>1, <2>1, <2>2, <2>3 DEF ReadTypes
<1> QED BY <1>9, <1>10 DEF ReadInv

LEMMA MatchRight ==
  ASSUME ReadInv, DecodeMatch
  PROVE  ReadInv'
PROOF
<1>1. ReadTypes /\ ReaderOK(reader) /\ raw = 0 /\ reader.left > 0
      /\ raw' = raw /\ UNCHANGED <<segments, meant, cut>>
  BY DEF ReadInv, ReadTypes, DecodeMatch, Between
<1>2. PICK w : ReadsTokens(w) /\ NextToken(w)
  BY <1>1, TokensOnly
<1>3. PICK d \in Nat, n \in Nat \ {0}, q \in Nat :
        /\ DecodesMatch(reader, reader.pos, d, n, q)
        /\ reader' = MovedTo(reader, q)
        /\ decoded' = Append(decoded, MatchToken(d, n))
  BY <1>1, ReadsMatch
<1> DEFINE x == MatchToken(d, n)
           t == meant[Len(decoded) + 1]
           p == reader.pos
<1>4. x \in Decodings
  BY DEF Decodings, MatchToken
<1>5. /\ t \in Tokens /\ Shows(w, p, TokenCode(t, p)) /\ p \in Nat /\ IsBits(w)
      /\ End(Len(decoded) + 1) = p + Len(TokenCode(t, p))
  BY <1>1, <1>2, NextCode
<1>6. SameTo(reader, w, q) => x = Meaning(t) /\ q = End(Len(decoded) + 1)
  <2>1. SUFFICES ASSUME SameTo(reader, w, q)
                 PROVE  x = Meaning(t) /\ q = End(Len(decoded) + 1)
    OBVIOUS
  <2>2. IsBits(reader) /\ q <= q
    BY <1>1 DEF ReaderOK
  <2>3. DecodesMatch(reader, p, d, n, q)
    BY <1>3
  <2> HIDE DEF t, p
  <2>4. DecodesMatch(w, p, d, n, q)
    BY <1>5, <2>1, <2>2, <2>3, MatchLocal
  <2>5. Meaning(t) = MatchToken(d, n) /\ q = p + Len(TokenCode(t, p))
    BY <1>5, <2>4, TokenDecodedMatch
  <2> QED BY <1>5, <2>5
<1>7. SameTo(reader, w, q) \/ (cut /\ q > Len(reader.bits))
  BY <1>1, <1>2, Seen
<1>8. decoded' = Append(decoded, x)
  BY <1>3
<1> HIDE DEF x
<1>9. ReadsTokens(w)'
  BY <1>1, <1>2, <1>3, <1>6, <1>7, <1>8, TokenAdded DEF t
<1>10. ReadTypes'
  <2>1. decoded' \in Seq(Decodings)
    BY <1>1, <1>4, <1>8, DecodedMore
  <2>2. ReaderOK(reader')
    BY <1>1, <1>3, ReaderMoves
  <2>3. raw' = 0 /\ ~ (raw' > 0) /\ raw' \in Nat
    BY <1>1
  <2> QED BY <1>1, <2>1, <2>2, <2>3 DEF ReadTypes
<1> QED BY <1>9, <1>10 DEF ReadInv

(* A run of which some bytes are read, or all of them. *)
LEMMA RunIsRight ==
  ASSUME AllBut(1)', NEW w, NEW e \in Nat, NEW bytes, RunRead(w, e, bytes)',
         Len(decoded') \in Nat \ {0}, Len(decoded') <= Len(meant'), raw' \in Nat
  PROVE  Right(w, e)'
PROOF
<1>1. CASE raw' > 0
  <2>1. \E b : RunRead(w, e, b)'
    OBVIOUS
  <2>2. (\E b : RunRead(w, e, b))'
    BY <2>1
  <2> QED BY <1>1, <2>2 DEF Right
<1>2. CASE raw' = 0
  <2> DEFINE n == Len(decoded')
  <2>1. /\ bytes \in Seq(Bytes)
        /\ meant'[n] = RunToken(bytes)
        /\ decoded'[n] = RunToken(SubSeq(bytes, 1, Len(bytes) - raw'))
        /\ reader'.pos = e - 8 * raw'
    BY DEF RunRead
  <2>2. SubSeq(bytes, 1, Len(bytes) - raw') = bytes
    <3>1. Len(bytes) - raw' = Len(bytes)
      BY <1>2, <2>1
    <3>2. SubSeq(bytes, 1, Len(bytes)) = bytes
      BY <2>1, SubSeqFull
    <3> QED BY <3>1, <3>2
  <2>3. Meaning(RunToken(bytes)) = RunToken(bytes)
    BY DEF Meaning, RunToken
  <2>4. ASSUME NEW k, k = n PROVE SameToken(k)'
    <3>1. k <= Len(meant') /\ decoded'[k] = Meaning(meant'[k])
      BY <2>1, <2>2, <2>3, <2>4
    <3> QED BY <3>1 DEF SameToken
  <2>5. AllBut(0)'
    BY <2>4, LastOne
  <2>6. reader'.pos = e
    BY <1>2, <2>1
  <2> QED BY <1>2, <2>5, <2>6 DEF Right
<1> QED BY <1>1, <1>2

(* No byte of it is read at first.                                          *)
LEMMA RunBegins ==
  ASSUME NEW bytes \in Seq(Bytes)
  PROVE  SubSeq(bytes, 1, Len(bytes) - Len(bytes)) = <<>>
PROOF
<1>1. Len(bytes) - Len(bytes) = 0
  OBVIOUS
<1>2. SubSeq(bytes, 1, 0) = <<>>
  OBVIOUS
<1> QED BY <1>1, <1>2

(* The head of a run: its bytes follow.                                     *)
LEMMA RunRight ==
  ASSUME ReadInv, DecodeRun
  PROVE  ReadInv'
PROOF
<1>1. ReadTypes /\ ReaderOK(reader) /\ raw = 0 /\ reader.left > 0
      /\ UNCHANGED <<segments, meant, cut>>
  BY DEF ReadInv, ReadTypes, DecodeRun, Between
<1>2. PICK w : ReadsTokens(w) /\ NextToken(w)
  BY <1>1, TokensOnly
<1>3. PICK m \in Nat, q \in Nat :
        /\ DecodesRun(reader, reader.pos, m, q)
        /\ raw' = m
        /\ reader' = MovedTo(reader, Aligned(q))
        /\ decoded' = Append(decoded, RunToken(<<>>))
  BY <1>1, ReadsRun
<1> DEFINE x == RunToken(<<>>)
           n == Len(decoded)
           t == meant[n + 1]
           p == reader.pos
           a == Aligned(q)
<1>4. x \in Decodings
  BY DEF Decodings, RunToken
<1>5. /\ t \in Tokens /\ Shows(w, p, TokenCode(t, p)) /\ p \in Nat /\ IsBits(w)
      /\ End(n + 1) = p + Len(TokenCode(t, p))
  BY <1>1, <1>2, NextCode
<1>6. n \in Nat /\ n < Len(meant) /\ AllBut(0)
  BY <1>2 DEF NextToken
<1>7. a \in Nat /\ a >= q
  BY AlignedIs
<1>8. decoded' = Append(decoded, x) /\ reader' = MovedTo(reader, a) /\ raw' = m
  BY <1>3
<1> HIDE DEF x, a
<1>9. AllBut(1)' /\ Len(decoded') = n + 1 /\ decoded'[n + 1] = x
  BY <1>1, <1>6, <1>8, Appended
<1>10. reader'.bits = reader.bits /\ reader'.pos = a
  BY <1>8 DEF MovedTo
<1>11. Len(decoded') \in Nat \ {0} /\ Len(decoded') # 0
  BY <1>6, <1>9
<1>12. SameTo(reader, w, q) => Right(w, End(Len(decoded)))'
  <2>1. SUFFICES ASSUME SameTo(reader, w, q) PROVE Right(w, End(Len(decoded)))'
    OBVIOUS
  <2>2. IsBits(reader) /\ q <= q
    BY <1>1 DEF ReaderOK
  <2>3. DecodesRun(reader, p, m, q)
    BY <1>3
  <2>4. PICK e : e = End(n + 1)
    OBVIOUS
  <2> HIDE DEF t, p
  <2>5. DecodesRun(w, p, m, q)
    BY <1>5, <2>1, <2>2, <2>3, RunLocal
  <2>6. PICK bytes : /\ t = RunToken(bytes) /\ bytes \in Seq(Bytes) /\ m = Len(bytes)
                     /\ Aligned(q) + 8 * m = p + Len(TokenCode(t, p))
                     /\ Shows(w, Aligned(q), BytesToBits(bytes))
    BY <1>5, <2>5, TokenDecodedRun
  <2>7. a + 8 * m = e /\ Shows(w, a, BytesToBits(bytes))
    BY <1>5, <2>4, <2>6 DEF a
  <2>8. e \in Nat /\ e - 8 * m = a
    BY <1>7, <2>7
  <2>9. RunRead(w, e, bytes)'
    <3>1. meant'[Len(decoded')] = RunToken(bytes)
      BY <1>1, <1>9, <2>6 DEF t
    <3>2. decoded'[Len(decoded')] = RunToken(SubSeq(bytes, 1, Len(bytes) - raw'))
      <4>1. SubSeq(bytes, 1, Len(bytes) - Len(bytes)) = <<>>
        BY <2>6, RunBegins
      <4> QED BY <1>8, <1>9, <2>6, <4>1 DEF x
    <3>3. raw' <= Len(bytes)
      BY <1>8, <2>6
    <3>4. e - 8 * Len(bytes) = a /\ reader'.pos = e - 8 * raw'
      BY <1>8, <1>10, <2>6, <2>8
    <3> QED BY <1>7, <2>6, <2>7, <3>1, <3>2, <3>3, <3>4 DEF RunRead
  <2>10. Len(decoded') <= Len(meant')
    <3>1. meant \in Seq(Tokens)
      BY <1>2 DEF ReadsTokens
    <3>2. Len(meant) \in Nat
      BY <3>1
    <3> QED BY <1>1, <1>6, <1>9, <3>2
  <2>11. Right(w, e)'
    BY <1>8, <1>9, <1>11, <2>8, <2>9, <2>10, RunIsRight
  <2>12. End(Len(decoded))' = e
    BY <1>1, <1>9, <2>4 DEF End
  <2> QED BY <2>11, <2>12 DEF Right, RunRead
<1>13. cut /\ q > Len(reader.bits) => cut /\ Beyond'
  <2>1. ASSUME q > Len(reader.bits) PROVE a > Len(reader.bits)
    <3>1. Len(reader.bits) \in Nat
      BY <1>1, Numbers
    <3> QED BY <1>7, <2>1, <3>1
  <2> QED BY <1>9, <1>10, <1>11, <2>1 DEF Beyond
<1>14. SameTo(reader, w, q) \/ (cut /\ q > Len(reader.bits))
  BY <1>1, <1>2, Seen
<1>15. ReadsTokens(w)'
  BY <1>1, <1>2, <1>7, <1>8, <1>12, <1>13, <1>14, TokensKept
<1>16. ReadTypes'
  <2>1. decoded' \in Seq(Decodings)
    BY <1>1, <1>4, <1>8, DecodedMore
  <2>2. ReaderOK(reader')
    BY <1>1, <1>7, <1>8, ReaderMoves
  <2>3. \E s \in Seq(Bytes) : decoded'[Len(decoded')] = RunToken(s)
    <3>1. <<>> \in Seq(Bytes) /\ decoded'[Len(decoded')] = RunToken(<<>>)
      BY <1>9 DEF x
    <3> QED BY <3>1
  <2> QED BY <1>1, <1>3, <1>11, <2>1, <2>2, <2>3 DEF ReadTypes
<1> QED BY <1>15, <1>16 DEF ReadInv

-----------------------------------------------------------------------------
(* A byte of an unencoded run. *)
LEMMA ByteRead ==
  ASSUME NEW r, IsBits(r), NEW p \in Nat
  PROVE  ValueAt(r, p, 8) \in 0 .. 255
PROOF
<1>1. PowerOf2(8) = 256
  BY DEF PowerOf2
<1>2. 2^8 = 256
  BY <1>1 DEF PowerOf2
<1> DEFINE m == 8
<1>3. m \in 0 .. 26 /\ 2^m = 256
  BY <1>2
<1> HIDE DEF m
<1>4. ValueAt(r, p, m) \in 0 .. 2^m - 1
  BY <1>3, ValueBound
<1>5. ValueAt(r, p, m) \in 0 .. 255
  BY <1>3, <1>4
<1> QED BY <1>5 DEF m

(* The last element of a sequence is replaced.                              *)
LEMMA LastReplaced ==
  ASSUME NEW S, NEW s \in Seq(S), NEW n \in 1 .. Len(s), NEW y \in S
  PROVE  LET t == [s EXCEPT ![n] = y]
         IN  /\ t \in Seq(S) /\ Len(t) = Len(s) /\ t[n] = y
             /\ \A k \in 1 .. n - 1 : t[k] = s[k]
PROOF
  OBVIOUS

(* What RunByte does to the types and to the run.                           *)
LEMMA RunTypes ==
  ASSUME ReadTypes, RunByte
  PROVE  /\ ReadTypes' /\ Literal(ValueAt(reader, reader.pos, 8))
         /\ ValueAt(reader, reader.pos, 8) \in Bytes
         /\ Len(decoded') = Len(decoded) /\ Len(decoded) # 0
         /\ raw' = raw - 1 /\ reader' = MovedTo(reader, reader.pos + 8)
         /\ UNCHANGED <<meant, cut>>
         /\ \A k \in 1 .. Len(decoded) - 1 : decoded'[k] = decoded[k]
         /\ \A s : decoded[Len(decoded)] = RunToken(s)
              => decoded'[Len(decoded)] = RunToken(Append(s, ValueAt(reader, reader.pos, 8)))
PROOF
<1> DEFINE byte == ValueAt(reader, reader.pos, 8)
           n == Len(decoded)
           y == [kind |-> "run", bytes |-> Append(decoded[n].bytes, byte)]
           p == reader.pos
<1>1. /\ raw > 0 /\ Literal(byte) /\ raw' = raw - 1 /\ reader' = GetBits(reader, 8)
      /\ UNCHANGED <<segments, meant, cut>>
      /\ decoded' = [decoded EXCEPT ![n] = y]
  BY DEF RunByte
<1>2. /\ n \in Nat /\ IsBits(reader) /\ p \in Nat /\ reader.left \in Int /\ raw \in Nat
      /\ ReaderOK(reader) /\ decoded \in Seq(Decodings)
  BY Numbers DEF ReadTypes
<1>3. PICK b \in Seq(Bytes) : decoded[n] = RunToken(b) /\ n # 0
  BY <1>1 DEF ReadTypes
<1>4. byte \in Bytes
  <2> QED BY <1>2, ByteRead, StreamAssumption
<1>5. reader' = MovedTo(reader, p + 8)
  <2> DEFINE l == reader.left
  <2>1. l - ((p + 8) - p) = l - 8
    <3>1. l \in Int
      BY <1>2
    <3> HIDE DEF l, p
    <3>2. p \in Nat
      BY <1>2 DEF p
    <3> QED BY <3>1, <3>2
  <2>2. GetBits(reader, 8) = [bits |-> reader.bits, pos |-> p + 8, left |-> l - 8]
    BY DEF GetBits
  <2>3. MovedTo(reader, p + 8) = [bits |-> reader.bits, pos |-> p + 8, left |-> l - ((p + 8) - p)]
    BY DEF MovedTo
  <2> HIDE DEF l
  <2> QED BY <1>1, <2>1, <2>2, <2>3
<1>6. ASSUME NEW s, decoded[n] = RunToken(s)
      PROVE  y = RunToken(Append(s, byte))
  <2>1. decoded[n].bytes = s
    BY <1>6 DEF RunToken
  <2> HIDE DEF byte
  <2> QED BY <2>1 DEF RunToken
<1> HIDE DEF y, byte
<1>7. y = RunToken(Append(b, byte)) /\ Append(b, byte) \in Seq(Bytes)
  <2>1. y = RunToken(Append(b, byte))
    BY <1>3, <1>6
  <2>2. Append(b, byte) \in Seq(Bytes)
    BY <1>4
  <2> QED BY <2>1, <2>2
<1>8. y \in Decodings
  BY <1>7 DEF Decodings, RunToken
<1>9. n \in 1 .. n /\ n \in 1 .. Len(decoded)
  BY <1>2, <1>3
<1>10. /\ decoded' \in Seq(Decodings) /\ Len(decoded') = n
       /\ decoded'[n] = y /\ \A k \in 1 .. n - 1 : decoded'[k] = decoded[k]
  <2> HIDE DEF Decodings
  <2> QED BY <1>1, <1>2, <1>8, <1>9, LastReplaced
<1>11. ReaderOK(reader')
  BY <1>2, <1>5, ReaderMoves, p + 8 \in Nat
<1>12. raw' \in Nat
  BY <1>1, <1>2
<1>13. ReadTypes'
  <2>1. segments' \in Seq(Segments) /\ cut' \in BOOLEAN
    BY <1>1 DEF ReadTypes
  <2>2. Len(decoded') # 0 /\ \E s \in Seq(Bytes) : decoded'[Len(decoded')] = RunToken(s)
    BY <1>3, <1>7, <1>10
  <2> QED BY <1>10, <1>11, <1>12, <2>1, <2>2 DEF ReadTypes
<1> QED BY <1>1, <1>3, <1>4, <1>5, <1>6, <1>10, <1>13 DEF byte, p

(* The first j elements are the first j - 1 and the j-th.                   *)
LEMMA OneMore ==
  ASSUME NEW S, NEW s \in Seq(S), NEW j \in 1 .. Len(s)
  PROVE  Append(SubSeq(s, 1, j - 1), s[j]) = SubSeq(s, 1, j)
PROOF
<1> DEFINE a == SubSeq(s, 1, j - 1)
           b == SubSeq(s, 1, j)
           c == Append(a, s[j])
<1>1. Len(s) \in Nat /\ j - 1 \in 0 .. Len(s) /\ s[j] \in S
  OBVIOUS
<1>2. a \in Seq(S) /\ Len(a) = j - 1 /\ \A k \in 1 .. j - 1 : a[k] = s[k]
  OBVIOUS
<1>3. b \in Seq(S) /\ Len(b) = j /\ \A k \in 1 .. j : b[k] = s[k]
  OBVIOUS
<1> HIDE DEF a, b
<1>4. c \in Seq(S) /\ Len(c) = j /\ \A k \in 1 .. j - 1 : c[k] = a[k]
  BY <1>1, <1>2
<1>5. c[j] = s[j]
  BY <1>1, <1>2
<1> HIDE DEF c
<1>6. \A k \in 1 .. j : c[k] = b[k]
  <2>1. ASSUME NEW k \in 1 .. j PROVE c[k] = b[k]
    <3>1. CASE k = j
      BY <1>3, <1>5, <3>1
    <3>2. CASE k # j
      <4>1. k \in 1 .. j - 1
        BY <3>2
      <4> QED BY <1>2, <1>3, <1>4, <4>1
    <3> QED BY <3>1, <3>2
  <2> QED BY <2>1
<1>7. c = b
  BY <1>3, <1>4, <1>6
<1> QED BY <1>7 DEF a, b, c

(* Of the run that is read, the byte is the next one.                       *)
LEMMA RunGoesOn ==
  ASSUME ReadTypes, RunByte, NEW w, IsBits(w), NEW e \in Nat, Right(w, e),
         ValueAt(reader, reader.pos, 8) = ValueAt(w, reader.pos, 8)
  PROVE  Right(w, e)'
PROOF
<1> DEFINE byte == ValueAt(reader, reader.pos, 8)
           n == Len(decoded)
           p == reader.pos
<1>1. /\ Len(decoded') = n /\ n # 0 /\ n \in Nat /\ raw \in Nat /\ raw > 0
      /\ raw' = raw - 1 /\ reader' = MovedTo(reader, p + 8) /\ meant' = meant
      /\ \A k \in 1 .. n - 1 : decoded'[k] = decoded[k]
  <2>1. raw > 0
    BY DEF RunByte
  <2> QED BY <2>1, RunTypes, Numbers
<1>2. \A s : decoded[n] = RunToken(s) => decoded'[n] = RunToken(Append(s, byte))
  BY RunTypes
<1>3. PICK bytes : RunRead(w, e, bytes)
  BY <1>1 DEF Right
<1>4. AllBut(1) /\ n <= Len(meant)
  BY <1>1 DEF Right
<1> DEFINE l == Len(bytes)
           j == l - raw + 1
           f == e - 8 * l
<1>5. /\ bytes \in Seq(Bytes) /\ raw <= l /\ meant[n] = RunToken(bytes)
      /\ decoded[n] = RunToken(SubSeq(bytes, 1, l - raw))
      /\ f \in Nat /\ Shows(w, f, BytesToBits(bytes)) /\ p = e - 8 * raw
  BY <1>3 DEF RunRead
<1>6. l \in Nat
  BY <1>5
<1>7. /\ j \in 1 .. l /\ j - 1 = l - raw /\ j = l - raw'
      /\ p = f + 8 * (j - 1) /\ p + 8 = e - 8 * raw'
  <2> DEFINE m == raw
  <2>1. m \in Nat /\ m > 0 /\ m <= l /\ raw' = m - 1 /\ p = e - 8 * m
    BY <1>1, <1>5
  <2> HIDE DEF m, l, p
  <2>2. l - m + 1 \in 1 .. l /\ (l - m + 1) - 1 = l - m
        /\ l - m + 1 = l - (m - 1)
    BY <1>6, <2>1
  <2>3. p = (e - 8 * l) + 8 * (l - m) /\ p + 8 = e - 8 * (m - 1)
    BY <1>6, <2>1
  <2> QED BY <2>1, <2>2, <2>3 DEF m
<1>8. byte = bytes[j]
  <2> HIDE DEF f, j, l
  <2>1. j \in 1 .. Len(bytes)
    BY <1>7 DEF l
  <2>2. ValueAt(w, f + 8 * (j - 1), 8) = bytes[j]
    BY <1>5, <2>1, ShowsByte
  <2> QED BY <1>7, <2>2
<1> HIDE DEF byte
<1>9. decoded'[n] = RunToken(SubSeq(bytes, 1, l - raw'))
  <2>1. decoded[n] = RunToken(SubSeq(bytes, 1, j - 1))
    BY <1>5, <1>7
  <2>2. decoded'[n] = RunToken(Append(SubSeq(bytes, 1, j - 1), bytes[j]))
    BY <1>2, <1>8, <2>1
  <2>3. Append(SubSeq(bytes, 1, j - 1), bytes[j]) = SubSeq(bytes, 1, j)
    <3> HIDE DEF j
    <3> QED BY <1>5, <1>7, OneMore
  <2> QED BY <1>7, <2>2, <2>3
<1>10. RunRead(w, e, bytes)'
  <2>1. reader'.pos = e - 8 * raw'
    BY <1>1, <1>7 DEF MovedTo
  <2>2. raw' <= Len(bytes)
    BY <1>1, <1>5, <1>6
  <2>3. e - 8 * Len(bytes) \in Nat /\ Shows(w, e - 8 * Len(bytes), BytesToBits(bytes))
    BY <1>5
  <2>4. meant'[Len(decoded')] = RunToken(bytes)
    BY <1>1, <1>5
  <2>5. decoded'[Len(decoded')] = RunToken(SubSeq(bytes, 1, Len(bytes) - raw'))
    BY <1>1, <1>9
  <2> QED BY <1>5, <2>1, <2>2, <2>3, <2>4, <2>5 DEF RunRead
<1>11. AllBut(1)'
  <2>1. ASSUME NEW k \in 1 .. n - 1 PROVE SameToken(k)'
    <3>1. SameToken(k)
      BY <1>4 DEF AllBut
    <3> QED BY <1>1, <3>1 DEF SameToken
  <2> QED BY <1>1, <2>1 DEF AllBut
<1>12. Len(decoded') \in Nat \ {0} /\ Len(decoded') <= Len(meant') /\ raw' \in Nat
  BY <1>1, <1>4
<1> QED BY <1>10, <1>11, <1>12, RunIsRight

(* Only the bits of w matter.                                               *)
LEMMA RightSame ==
  ASSUME NEW w, NEW v, v.bits = w.bits, NEW e, Right(w, e)'
  PROVE  Right(v, e)'
PROOF
<1>1. \A k : BitAt(v, k) = BitAt(w, k)
  BY DEF BitAt
<1>2. \A p, bits : Shows(w, p, bits) => Shows(v, p, bits)
  BY <1>1 DEF Shows
<1>3. \A bytes : RunRead(w, e, bytes)' => RunRead(v, e, bytes)'
  BY <1>2 DEF RunRead
<1> QED BY <1>3 DEF Right

(* A byte more of a run or of a segment that is not encoded.                *)
LEMMA RunByteRight ==
  ASSUME ReadInv, RunByte
  PROVE  ReadInv'
PROOF
<1> DEFINE n == Len(decoded)
           p == reader.pos
<1>1. ReadTypes /\ ReadTypes'
  BY RunTypes DEF ReadInv
<1>2. /\ reader' = MovedTo(reader, p + 8) /\ UNCHANGED <<meant, cut>>
      /\ Len(decoded') = n /\ n # 0
      /\ \A k \in 1 .. n - 1 : decoded'[k] = decoded[k]
  BY <1>1, RunTypes
<1>3. /\ p \in Nat /\ p + 8 \in Nat /\ Len(reader.bits) \in Nat /\ IsBits(reader)
      /\ raw \in Nat /\ n \in Nat /\ reader.left \in Int /\ raw > 0
  <2>1. raw > 0
    BY DEF RunByte
  <2>2. p \in Nat
    BY <1>1, Numbers
  <2> QED BY <1>1, <2>1, <2>2, Numbers
<1>4. reader'.bits = reader.bits /\ reader'.pos = p + 8
      /\ reader'.left = reader.left - ((p + 8) - p)
  BY <1>2 DEF MovedTo
<1>5. AllBut(1) => AllBut(1)'
  <2>1. ASSUME AllBut(1), NEW k \in 1 .. n - 1 PROVE SameToken(k)'
    <3>1. SameToken(k)
      BY <2>1 DEF AllBut
    <3> QED BY <1>2, <3>1 DEF SameToken
  <2> QED BY <1>2, <2>1 DEF AllBut
<1>6. ASSUME NEW w, ReadsTokens(w) PROVE ReadsTokens(w)'
  <2>1. IsBits(w) /\ meant \in Seq(Tokens)
    BY <1>6 DEF ReadsTokens
  <2>2. PICK e : e = End(n)
    OBVIOUS
  <2>3. End(Len(decoded))' = e
    BY <1>2, <2>2 DEF End
  <2>4. Right(w, End(n)) \/ (cut /\ Beyond)
    BY <1>6 DEF ReadsTokens
  <2>5. CASE cut /\ Beyond
    <3>1. Beyond'
      <4> DEFINE size == Len(reader.bits)
      <4>1. AllBut(1) /\ p > size
        BY <2>5 DEF Beyond
      <4>2. p + 8 > size
        <5> HIDE DEF p, size
        <5>1. p \in Nat /\ size \in Nat /\ p > size
          BY <1>3, <4>1 DEF p, size
        <5> QED BY <5>1
      <4> QED BY <1>2, <1>4, <1>5, <4>1, <4>2 DEF Beyond
    <3> QED BY <1>1, <1>2, <1>3, <1>6, <2>5, <3>1, TokensKept
  <2>6. CASE Right(w, e)
    <3>1. n <= Len(meant) /\ AllBut(1)
      BY <1>3, <2>6 DEF Right
    <3>2. e \in Nat
      <4>1. n \in 0 .. Len(meant)
        <5>1. Len(meant) \in Nat
          BY <2>1
        <5> QED BY <1>3, <3>1, <5>1
      <4> QED BY <2>1, <2>2, <4>1, EncodedType DEF End
    <3>3. CASE SameTo(reader, w, p + 8)
      <4> DEFINE end == p + 8
                 m == 8
      <4>1. end \in Nat /\ m \in Nat /\ p + m <= end /\ SameTo(reader, w, end)
        BY <1>3, <3>3
      <4> HIDE DEF end, m
      <4>2. Agree(reader, p, w, p, m)
        BY <1>3, <4>1, AgreeTo
      <4>3. ValueAt(reader, p, m) = ValueAt(w, p, m)
        BY <1>3, <2>1, <4>1, <4>2, ValueAgree
      <4>4. Right(w, e)'
        BY <1>1, <2>1, <2>6, <3>2, <4>3, RunGoesOn DEF m
      <4>5. Right(w, End(Len(decoded)))'
        BY <2>3, <4>4 DEF Right, RunRead
      <4> QED BY <1>1, <1>2, <1>3, <1>6, <4>5, TokensKept
    <3>4. CASE cut /\ p + 8 > Len(reader.bits)
      <4>1. Beyond'
        BY <1>2, <1>4, <1>5, <3>1, <3>4 DEF Beyond
      <4> QED BY <1>1, <1>2, <1>3, <1>6, <3>4, <4>1, TokensKept
    <3> QED BY <1>1, <1>3, <1>6, <3>3, <3>4, Seen
  <2> QED BY <2>2, <2>4, <2>5, <2>6
<1>7. ASSUME NEW e, ReadsPlain(e) PROVE ReadsPlain(e)'
  <2>1. /\ ~cut /\ Len(meant) = 1 /\ n = 1 /\ e \in Nat /\ reader.left <= 0
        /\ Right(reader, e)
    BY <1>7 DEF ReadsPlain
  <2>2. PICK w : w = reader
    OBVIOUS
  <2>3. PICK v : v = reader'
    OBVIOUS
  <2>4. Right(w, e)'
    <3>1. Right(w, e) /\ IsBits(w) /\ ValueAt(reader, p, 8) = ValueAt(w, p, 8)
      BY <1>3, <2>1, <2>2
    <3> QED BY <1>1, <2>1, <3>1, RunGoesOn
  <2>5. v.bits = w.bits
    BY <1>4, <2>2, <2>3
  <2>6. Right(v, e)'
    BY <2>4, <2>5, RightSame
  <2>7. Right(reader, e)'
    BY <2>3, <2>6 DEF Right, RunRead
  <2>8. reader'.left <= 0
    <3> DEFINE a == reader.left
    <3>1. a <= 0 /\ a \in Int /\ p \in Nat
      BY <1>3, <2>1
    <3> HIDE DEF a, p
    <3>2. a - ((p + 8) - p) <= 0
      BY <3>1
    <3> QED BY <1>4, <3>2 DEF a
  <2> QED BY <1>2, <2>1, <2>7, <2>8 DEF ReadsPlain
<1>8. CASE \E w : ReadsTokens(w)
  <2>1. PICK w : ReadsTokens(w)
    BY <1>8
  <2>2. ReadsTokens(w)'
    BY <1>6, <2>1
  <2> QED BY <1>1, <2>2 DEF ReadInv
<1>9. CASE \E e : ReadsPlain(e)
  <2>1. PICK e : ReadsPlain(e)
    BY <1>9
  <2>2. ReadsPlain(e)'
    BY <1>7, <2>1
  <2> QED BY <1>1, <2>2 DEF ReadInv
<1> QED BY <1>8, <1>9 DEF ReadInv

-----------------------------------------------------------------------------
(* The beginning of a segment. *)
LEMMA SegmentKinds ==
  ASSUME NEW s \in Segments
  PROVE  \/ s.plain = TRUE /\ s.bytes \in Seq(Bytes)
         \/ s.plain = FALSE /\ s.tokens \in Seq(Tokens)
PROOF
<1> HIDE DEF Tokens
<1> QED BY DEF Segments

LEMMA FirstSegment ==
  ASSUME NEW S, NEW s \in Seq(S), s # <<>>
  PROVE  Head(s) \in S /\ Tail(s) \in Seq(S)
PROOF
  OBVIOUS

(* A reader at its beginning.                                               *)
LEMMA NewReaderIs ==
  ASSUME NEW bits, BitString(bits), NEW padding \in Int
  PROVE  LET r == NewReader(bits, padding)
         IN  /\ ReaderOK(r) /\ r.bits = bits /\ r.pos = 0
             /\ r.left = Len(bits) - padding
PROOF
<1> DEFINE r == NewReader(bits, padding)
<1>1. r.bits = bits /\ r.pos = 0 /\ r.left = Len(bits) - padding
  BY DEF NewReader
<1>2. Len(bits) \in Nat
  BY JoinedBits
<1> HIDE DEF r
<1>3. IsBits(r)
  BY <1>1 DEF IsBits, BitString
<1>4. Len(bits) - padding \in Int
  BY <1>2
<1>5. r.left \in Int /\ r.pos \in Nat
  BY <1>1, <1>4
<1> QED BY <1>1, <1>3, <1>5 DEF ReaderOK, r

(* A segment that is not encoded is a run from its first byte on.           *)
LEMMA PlainBegins ==
  ASSUME NEW bytes \in Seq(Bytes),
         reader' = NewReader(BytesToBits(bytes), 8 * Len(bytes)),
         raw' = Len(bytes),
         meant' = <<RunToken(bytes)>>, decoded' = <<RunToken(<<>>)>>, cut' = FALSE
  PROVE  /\ \E e : ReadsPlain(e)'
         /\ ReaderOK(reader') /\ raw' \in Nat /\ decoded' \in Seq(Decodings)
         /\ Len(decoded') # 0 /\ \E s \in Seq(Bytes) : decoded'[Len(decoded')] = RunToken(s)
PROOF
<1> DEFINE l == Len(bytes)
           bits == BytesToBits(bytes)
           x == RunToken(<<>>)
           y == RunToken(bytes)
<1>1. l \in Nat /\ BitString(bits) /\ Len(bits) = 8 * l
  BY BytesToBitsType
<1>2. x \in Decodings
  BY DEF Decodings, RunToken
<1>3. x = RunToken(<<>>) /\ y = RunToken(bytes) /\ <<>> \in Seq(Bytes)
  OBVIOUS
<1> HIDE DEF x, y
<1>4. /\ Len(meant') = 1 /\ meant'[1] = y /\ Len(decoded') = 1 /\ decoded'[1] = x
      /\ decoded' \in Seq(Decodings)
  <2> HIDE DEF Decodings
  <2> QED BY <1>2, <1>3
<1> DEFINE padding == 8 * l
<1>5. padding \in Int
  BY <1>1
<1>6. /\ ReaderOK(reader') /\ reader'.bits = bits /\ reader'.pos = 0
      /\ reader'.left = Len(bits) - padding
  <2> HIDE DEF padding, bits
  <2>1. reader' = NewReader(bits, padding)
    BY DEF padding, bits
  <2> QED BY <1>1, <1>5, <2>1, NewReaderIs
<1>7. reader'.left = 0 /\ IsBits(reader')
  BY <1>1, <1>6 DEF ReaderOK
<1> HIDE DEF bits
<1>8. PICK v : v = reader'
  OBVIOUS
<1>9. Shows(v, 0, bits)
  <2>1. ASSUME NEW k \in 1 .. Len(bits) PROVE BitAt(v, 0 + k) = bits[k]
    <3>1. v.bits = bits /\ 0 + k = k /\ k <= Len(bits)
      BY <1>1, <1>6, <1>8
    <3> QED BY <3>1 DEF BitAt
  <2> QED BY <2>1 DEF Shows
<1> DEFINE e == 8 * l
<1>10. e \in Nat /\ e - 8 * l = 0
  BY <1>1
<1>11. RunRead(v, e, bytes)'
  <2>1. SubSeq(bytes, 1, Len(bytes) - Len(bytes)) = <<>>
    BY RunBegins
  <2>2. decoded'[Len(decoded')] = RunToken(SubSeq(bytes, 1, Len(bytes) - raw'))
    BY <1>3, <1>4, <2>1
  <2>3. meant'[Len(decoded')] = RunToken(bytes)
    BY <1>3, <1>4
  <2>4. reader'.pos = e - 8 * raw' /\ raw' <= Len(bytes)
    BY <1>1, <1>6, <1>10
  <2>5. e - 8 * Len(bytes) \in Nat /\ Shows(v, e - 8 * Len(bytes), BytesToBits(bytes))
    BY <1>9, <1>10 DEF bits
  <2> QED BY <2>2, <2>3, <2>4, <2>5 DEF RunRead
<1>12. AllBut(1)'
  <2>1. \A k \in 1 .. Len(decoded') - 1 : FALSE
    BY <1>4
  <2> QED BY <2>1 DEF AllBut
<1>13. Len(decoded') \in Nat \ {0} /\ Len(decoded') <= Len(meant') /\ raw' \in Nat
  BY <1>1, <1>4
<1> HIDE DEF e
<1>14. Right(v, e)'
  BY <1>10, <1>11, <1>12, <1>13, RunIsRight
<1>15. Right(reader, e)'
  BY <1>8, <1>14 DEF Right, RunRead
<1>16. ReadsPlain(e)'
  BY <1>4, <1>7, <1>10, <1>15 DEF ReadsPlain
<1>17. Len(decoded') # 0 /\ \E s \in Seq(Bytes) : decoded'[Len(decoded')] = RunToken(s)
  <2>1. decoded'[Len(decoded')] = RunToken(<<>>)
    BY <1>3, <1>4
  <2>2. Len(decoded') # 0
    BY <1>4
  <2>3. <<>> \in Seq(Bytes)
    OBVIOUS
  <2> QED BY <2>1, <2>2, <2>3
<1> QED BY <1>4, <1>6, <1>13, <1>16, <1>17

(* The bits of a segment that has lost its last byte are the first of those *)
(* it had, fewer than those of its tokens.                                  *)
LEMMA ShorterIs ==
  ASSUME NEW tokens \in Seq(Tokens), Len(Stream(tokens).bits) >= 8
  PROVE  LET w == Stream(tokens)
             r == Shorter(w)
         IN  /\ ReaderOK(r) /\ r.pos = 0
             /\ SameTo(r, w, Len(r.bits))
             /\ Len(r.bits) < Len(Encoded(tokens, Len(tokens)))
             /\ r.left <= Len(r.bits)
PROOF
<1> DEFINE w == Stream(tokens)
           all == Encoded(tokens, Len(tokens))
           end == Len(w.bits) - 8
           b == SubSeq(w.bits, 1, end)
           v == ValueAt(w, end, 8)
           r == Shorter(w)
<1>1. /\ IsBits(w) /\ Len(w.bits) \in Nat /\ Len(all) \in Nat
      /\ Len(w.bits) - Len(all) \in 0 .. 7 /\ Len(w.bits) >= 8
  BY StreamIs
<1> HIDE DEF w, all
<1>2. end \in Nat /\ end < Len(all) /\ end <= Len(w.bits)
  BY <1>1
<1> DEFINE B == {0, 1}
<1>3. b \in Seq({0, 1}) /\ Len(b) = end /\ \A k \in 1 .. end : b[k] = w.bits[k]
  <2>1. w.bits \in Seq(B)
    BY <1>1 DEF IsBits
  <2> HIDE DEF B
  <2>2. b \in Seq(B) /\ Len(b) = end /\ \A k \in 1 .. end : b[k] = w.bits[k]
    BY <1>2, <2>1
  <2> QED BY <2>2 DEF B
<1>4. v \in 0 .. 255
  <2> HIDE DEF end
  <2> QED BY <1>1, <1>2, ByteRead
<1>5. r = NewReader(b, v)
  BY DEF Shorter
<1> HIDE DEF b, v, r, end
<1>6. BitString(b) /\ v \in Int
  BY <1>3, <1>4 DEF BitString
<1>7. /\ ReaderOK(r) /\ r.bits = b /\ r.pos = 0 /\ r.left = Len(b) - v
  BY <1>5, <1>6, NewReaderIs
<1>8. r.left <= Len(r.bits)
  <2> DEFINE x == Len(b) - v
  <2>1. x <= Len(b)
    BY <1>2, <1>3, <1>4
  <2> QED BY <1>7, <2>1
<1>9. SameTo(r, w, Len(r.bits))
  <2>1. ASSUME NEW k \in 1 .. end PROVE BitAt(r, k) = BitAt(w, k)
    <3>1. k <= Len(b) /\ k <= Len(w.bits) /\ b[k] = w.bits[k]
      BY <1>1, <1>2, <1>3
    <3> QED BY <1>7, <3>1 DEF BitAt
  <2> QED BY <1>3, <1>7, <2>1 DEF SameTo
<1> QED BY <1>2, <1>3, <1>7, <1>8, <1>9 DEF w, all, r

(* Nothing is decoded yet. *)
LEMMA NoneDecoded ==
  ASSUME raw' = 0, decoded' = <<>>, reader'.pos = 0, meant' \in Seq(Tokens), NEW w
  PROVE  Right(w, End(Len(decoded)))'
PROOF
<1>1. Len(decoded') = 0 /\ Len(meant') \in Nat
  OBVIOUS
<1>2. AllBut(0)'
  <2>1. \A k \in 1 .. Len(decoded') - 0 : FALSE
    BY <1>1
  <2> QED BY <2>1 DEF AllBut
<1>3. End(Len(decoded))' = 0
  <2>1. PICK m : m = meant'
    OBVIOUS
  <2>2. Encoded(m, 0) = <<>>
    BY <2>1, EncodedNone
  <2> QED BY <1>1, <2>1, <2>2 DEF End
<1>4. Len(decoded') <= Len(meant')
  BY <1>1
<1> QED BY <1>2, <1>3, <1>4 DEF Right

(* A segment of tokens, whole or without its last byte.                     *)
LEMMA TokensBegin ==
  ASSUME NEW tokens \in Seq(Tokens), NEW loses \in BOOLEAN,
         loses => Len(Stream(tokens).bits) >= 8,
         reader' = IF loses THEN Shorter(Stream(tokens)) ELSE Stream(tokens),
         raw' = 0, meant' = tokens, decoded' = <<>>, cut' = loses
  PROVE  /\ \E w : ReadsTokens(w)'
         /\ ReaderOK(reader') /\ raw' \in Nat /\ ~ (raw' > 0) /\ decoded' \in Seq(Decodings)
PROOF
<1>1. PICK w : w = Stream(tokens)
  OBVIOUS
<1>2. PICK l : l = Len(Encoded(tokens, Len(tokens)))
  OBVIOUS
<1>3. /\ IsBits(w) /\ w.pos = 0 /\ w.left = l /\ l \in Nat
      /\ Shows(w, 0, Encoded(tokens, Len(tokens)))
  BY <1>1, <1>2, StreamIs
<1>4. End(Len(meant))' = l
  BY <1>2 DEF End
<1>5. ReaderOK(reader') /\ reader'.pos = 0
  <2>1. CASE loses
    BY <2>1, ShorterIs
  <2>2. CASE ~loses
    <3>1. reader' = w
      BY <1>1, <2>2
    <3> QED BY <1>3, <3>1 DEF ReaderOK
  <2> QED BY <2>1, <2>2
<1>6. Right(w, End(Len(decoded)))'
  BY <1>5, NoneDecoded
<1>7. ASSUME ~loses
      PROVE  reader'.bits = w.bits /\ reader'.left = End(Len(meant))' - reader'.pos
  <2>1. reader' = w
    BY <1>1, <1>7
  <2>2. l = l - 0
    BY <1>3
  <2> QED BY <1>3, <1>4, <1>5, <2>1, <2>2
<1>8. ASSUME loses
      PROVE  /\ SameTo(reader', w, Len(reader'.bits))
             /\ Len(reader'.bits) < End(Len(meant))'
             /\ reader'.left <= Len(reader'.bits) - reader'.pos
  <2>1. PICK r : r = reader'
    OBVIOUS
  <2>2. r = Shorter(w)
    BY <1>1, <1>8, <2>1
  <2>3. SameTo(r, w, Len(r.bits)) /\ Len(r.bits) < l /\ r.left <= Len(r.bits)
    BY <1>1, <1>2, <1>8, <2>2, ShorterIs
  <2>4. Len(r.bits) - 0 = Len(r.bits)
    <3>1. Len(r.bits) \in Nat
      BY <1>5, <2>1 DEF ReaderOK, IsBits
    <3> QED BY <3>1
  <2> QED BY <1>4, <1>5, <2>1, <2>3, <2>4
<1>9. ReadsTokens(w)'
  BY <1>3, <1>6, <1>7, <1>8 DEF ReadsTokens
<1>10. decoded' \in Seq(Decodings) /\ ~ (raw' > 0)
  OBVIOUS
<1> QED BY <1>5, <1>9, <1>10

LEMMA SegmentRight ==
  ASSUME ReadInv, NEW loses \in BOOLEAN, BeginSegment(loses)
  PROVE  ReadInv'
PROOF
<1> DEFINE segment == Head(segments)
<1>1. /\ segments # <<>> /\ segments' = Tail(segments) /\ cut' = loses
      /\ (loses => ~segment.plain /\ Len(Stream(segment.tokens).bits) >= 8)
      /\ (segment.plain =>
           /\ reader' = NewReader(BytesToBits(segment.bytes), 8 * Len(segment.bytes))
           /\ raw' = Len(segment.bytes)
           /\ meant' = <<[kind |-> "run", bytes |-> segment.bytes]>>
           /\ decoded' = <<[kind |-> "run", bytes |-> <<>>]>>)
      /\ (~segment.plain =>
           /\ reader' = IF loses THEN Shorter(Stream(segment.tokens)) ELSE Stream(segment.tokens)
           /\ raw' = 0 /\ meant' = segment.tokens /\ decoded' = <<>>)
  BY DEF BeginSegment
<1>2. segments \in Seq(Segments)
  BY DEF ReadInv, ReadTypes
<1>3. segment \in Segments /\ segments' \in Seq(Segments)
  BY <1>1, <1>2, FirstSegment
<1> HIDE DEF segment
<1>4. CASE segment.plain
  <2> DEFINE bytes == segment.bytes
  <2>1. bytes \in Seq(Bytes)
    BY <1>3, <1>4, SegmentKinds
  <2>2. /\ reader' = NewReader(BytesToBits(bytes), 8 * Len(bytes))
        /\ raw' = Len(bytes) /\ cut' = FALSE
        /\ meant' = <<RunToken(bytes)>> /\ decoded' = <<RunToken(<<>>)>>
    BY <1>1, <1>4 DEF RunToken
  <2> HIDE DEF bytes
  <2>3. /\ \E e : ReadsPlain(e)'
        /\ ReaderOK(reader') /\ raw' \in Nat /\ decoded' \in Seq(Decodings)
        /\ Len(decoded') # 0 /\ \E s \in Seq(Bytes) : decoded'[Len(decoded')] = RunToken(s)
    BY <2>1, <2>2, PlainBegins
  <2>4. ReadTypes'
    BY <1>3, <2>2, <2>3 DEF ReadTypes
  <2>5. PICK e : ReadsPlain(e)'
    BY <2>3
  <2> QED BY <2>4, <2>5 DEF ReadInv
<1>5. CASE ~segment.plain
  <2> DEFINE tokens == segment.tokens
  <2>1. tokens \in Seq(Tokens)
    BY <1>3, <1>5, SegmentKinds
  <2>2. /\ reader' = IF loses THEN Shorter(Stream(tokens)) ELSE Stream(tokens)
        /\ raw' = 0 /\ meant' = tokens /\ decoded' = <<>> /\ cut' = loses
        /\ loses => Len(Stream(tokens).bits) >= 8
    BY <1>1, <1>5
  <2> HIDE DEF tokens
  <2>3. /\ \E w : ReadsTokens(w)'
        /\ ReaderOK(reader') /\ raw' \in Nat /\ ~ (raw' > 0) /\ decoded' \in Seq(Decodings)
    BY <2>1, <2>2, TokensBegin
  <2>4. ReadTypes'
    BY <1>3, <2>2, <2>3 DEF ReadTypes
  <2>5. PICK w : ReadsTokens(w)'
    BY <2>3
  <2> QED BY <2>4, <2>5 DEF ReadInv
<1> QED BY <1>4, <1>5

-----------------------------------------------------------------------------
(* Before the first message.                                                *)
ReadInit ==
  /\ reader = NoSegment /\ raw = 0 /\ segments = <<>>
  /\ meant = <<>> /\ decoded = <<>> /\ cut = FALSE

LEMMA ReadBegins ==
  ASSUME ReadInit
  PROVE  ReadInv
PROOF
<1> DEFINE none == <<>>
           zero == 0
<1>1. BitString(none) /\ zero \in Int /\ Len(none) = zero
  BY DEF BitString
<1>2. ReaderOK(reader) /\ reader.pos = 0 /\ reader.left = Len(none) - zero
  <2>1. reader = NewReader(none, zero)
    BY DEF ReadInit, NoSegment
  <2> HIDE DEF none, zero
  <2> QED BY <1>1, <2>1, NewReaderIs
<1>3. reader.left = 0
  BY <1>2
<1>4. /\ raw = 0 /\ Len(decoded) = 0 /\ meant \in Seq(Tokens) /\ Len(meant) = 0
      /\ segments \in Seq(Segments) /\ decoded \in Seq(Decodings) /\ cut = FALSE
  BY DEF ReadInit
<1>5. Encoded(meant, 0) = <<>>
  BY <1>4, EncodedNone
<1>6. End(0) = 0
  BY <1>5 DEF End
<1>7. AllBut(0)
  <2>1. \A k \in 1 .. Len(decoded) - 0 : FALSE
    BY <1>4
  <2> QED BY <2>1 DEF AllBut
<1>8. ReadsTokens(reader)
  <2>1. IsBits(reader)
    BY <1>2 DEF ReaderOK
  <2>2. Shows(reader, 0, Encoded(meant, Len(meant)))
    <3>1. \A k \in 1 .. Len(Encoded(meant, Len(meant))) : FALSE
      BY <1>4, <1>5
    <3> QED BY <3>1 DEF Shows
  <2>3. Right(reader, End(Len(decoded)))
    BY <1>2, <1>4, <1>6, <1>7 DEF Right
  <2>4. reader.left = End(Len(meant)) - reader.pos
    BY <1>2, <1>3, <1>4, <1>6
  <2> QED BY <1>4, <2>1, <2>2, <2>3, <2>4 DEF ReadsTokens
<1>9. ReadTypes
  <2>1. ~ (raw > 0) /\ raw \in Nat
    BY <1>4
  <2> QED BY <1>2, <1>4, <2>1 DEF ReadTypes
<1> QED BY <1>8, <1>9 DEF ReadInv

(* Steps that leave the reader alone.                                       *)
LEMMA ReadStays ==
  ASSUME ReadInv, UNCHANGED <<reader, raw, meant, decoded, cut>>, segments' \in Seq(Segments)
  PROVE  ReadInv'
PROOF
<1>1. reader' = reader /\ raw' = raw /\ meant' = meant /\ decoded' = decoded /\ cut' = cut
  OBVIOUS
<1>2. ReadTypes'
  BY <1>1 DEF ReadInv, ReadTypes
<1>3. \A k : SameToken(k) = SameToken(k)'
  BY <1>1 DEF SameToken
<1>4. \A k : AllBut(k) = AllBut(k)'
  BY <1>1, <1>3 DEF AllBut
<1>5. \A k : End(k)' = End(k)
  BY <1>1 DEF End
<1>6. Beyond => Beyond'
  BY <1>1, <1>4 DEF Beyond
<1>7. ASSUME NEW w, NEW e, Right(w, e) PROVE Right(w, e)'
  <2>1. \A bytes : RunRead(w, e, bytes) => RunRead(w, e, bytes)'
    BY <1>1 DEF RunRead
  <2> QED BY <1>1, <1>4, <1>7, <2>1 DEF Right
<1>8. ASSUME NEW w, ReadsTokens(w) PROVE ReadsTokens(w)'
  <2>1. PICK e : e = End(Len(decoded))
    OBVIOUS
  <2>2. End(Len(decoded))' = e
    BY <1>1, <2>1 DEF End
  <2>3. Right(w, End(Len(decoded))) => Right(w, End(Len(decoded)))'
    <3>1. Right(w, e) => Right(w, e)'
      BY <1>7
    <3>2. Right(w, e)' => Right(w, End(Len(decoded)))'
      BY <2>2 DEF Right, RunRead
    <3> QED BY <2>1, <3>1, <3>2
  <2>4. End(Len(meant))' = End(Len(meant))
    BY <1>1 DEF End
  <2> QED BY <1>1, <1>6, <1>8, <2>3, <2>4 DEF ReadsTokens
<1>9. ASSUME NEW e, ReadsPlain(e) PROVE ReadsPlain(e)'
  <2>1. PICK w : w = reader
    OBVIOUS
  <2>2. Right(w, e)
    BY <1>9, <2>1 DEF ReadsPlain
  <2>3. Right(w, e)'
    BY <1>7, <2>2
  <2>4. Right(reader, e)'
    BY <1>1, <2>1, <2>3 DEF Right, RunRead
  <2> QED BY <1>1, <1>9, <2>4 DEF ReadsPlain
<1> QED BY <1>2, <1>8, <1>9 DEF ReadInv

(* All tokens of a segment are decoded when no bits of it are left.         *)
LEMMA AllDecoded ==
  ASSUME ReadTypes, NEW w, ReadsTokens(w), ~cut, raw = 0, reader.left <= 0
  PROVE  Len(decoded) = Len(meant)
PROOF
<1> DEFINE n == Len(decoded)
           l == Len(meant)
<1>1. /\ meant \in Seq(Tokens) /\ Shows(w, 0, Encoded(meant, Len(meant)))
      /\ reader.left = End(l) - reader.pos /\ Right(w, End(n))
  BY DEF ReadsTokens
<1>2. n \in Nat /\ l \in Nat /\ ~ (raw > 0)
  BY <1>1, Numbers
<1>3. n <= l /\ reader.pos = End(n)
  BY <1>1, <1>2 DEF Right
<1>4. SUFFICES ASSUME n # l PROVE FALSE
  OBVIOUS
<1>5. n < l
  <2> HIDE DEF n, l
  <2> QED BY <1>2, <1>3, <1>4
<1> DEFINE p == Len(Encoded(meant, n))
           c == TokenCode(meant[n + 1], p)
           next == Len(Encoded(meant, n + 1))
           all == Len(Encoded(meant, l))
<1>6. p \in Nat /\ IsCode(c) /\ next = p + Len(c) /\ next <= all
  <2> HIDE DEF n
  <2> QED BY <1>1, <1>2, <1>5, TokenShows
<1>7. all \in Nat
  <2>1. l \in 0 .. Len(meant)
    BY <1>2
  <2> QED BY <1>1, <2>1, EncodedType
<1>8. Len(c) \in Nat /\ Len(c) > 0
  BY <1>6 DEF IsCode
<1>9. all - p <= 0
  BY <1>1, <1>3 DEF End
<1> HIDE DEF p, c, next, all
<1> QED BY <1>6, <1>7, <1>8, <1>9

(* The invariant is what was to be shown.                                   *)
LEMMA ReadPromise ==
  ASSUME ReadInv
  PROVE  TokensAsEncoded
PROOF
<1> DEFINE settled == IF raw > 0 \/ cut THEN Len(decoded) - 1 ELSE Len(decoded)
           n == Len(decoded)
<1>1. ReadTypes /\ n \in Nat /\ raw \in Nat
  <2>1. ReadTypes
    BY DEF ReadInv
  <2> QED BY <2>1, Numbers
<1>2. ASSUME NEW w, NEW e, Right(w, e)
      PROVE  AllBut(1) /\ (raw = 0 => AllBut(0))
  <2>1. AllBut(0) => AllBut(1)
    <3>1. \A k \in 1 .. n - 1 : k \in 1 .. n - 0
      BY <1>1
    <3> QED BY <3>1 DEF AllBut
  <2>2. raw > 0 => raw # 0
    BY <1>1
  <2> QED BY <1>2, <2>1, <2>2 DEF Right
<1>3. (AllBut(1) /\ (raw = 0 /\ ~cut => AllBut(0))) => \A k \in 1 .. settled : SameToken(k)
  <2>1. ASSUME AllBut(1), raw > 0 \/ cut, NEW k \in 1 .. settled PROVE SameToken(k)
    BY <2>1 DEF AllBut
  <2>2. ASSUME AllBut(0), ~ (raw > 0 \/ cut), NEW k \in 1 .. settled PROVE SameToken(k)
    <3>1. k \in 1 .. n - 0
      BY <1>1, <2>2
    <3> QED BY <2>2, <3>1 DEF AllBut
  <2>3. raw = 0 \/ raw > 0
    BY <1>1
  <2> HIDE DEF settled
  <2> QED BY <2>1, <2>2, <2>3
<1> HIDE DEF settled
<1>4. CASE \E w : ReadsTokens(w)
  <2>1. PICK w : ReadsTokens(w)
    BY <1>4
  <2>2. AllBut(1) /\ (raw = 0 /\ ~cut => AllBut(0))
    <3>1. Right(w, End(n)) \/ (cut /\ Beyond)
      BY <1>1, <2>1 DEF ReadsTokens, ReadTypes
    <3>2. CASE Right(w, End(n))
      BY <1>2, <3>2
    <3>3. CASE cut /\ Beyond
      BY <3>3 DEF Beyond
    <3> QED BY <3>1, <3>2, <3>3
  <2>3. ~cut /\ Between /\ reader.left <= 0 => n = Len(meant)
    BY <1>1, <2>1, AllDecoded DEF Between
  <2> QED BY <1>3, <2>2, <2>3 DEF TokensAsEncoded, settled
<1>5. CASE \E e : ReadsPlain(e)
  <2>1. PICK e : ReadsPlain(e)
    BY <1>5
  <2>2. Right(reader, e) /\ n = 1 /\ Len(meant) = 1
    BY <2>1 DEF ReadsPlain
  <2>3. AllBut(1) /\ (raw = 0 => AllBut(0))
    BY <1>2, <2>2
  <2> QED BY <1>3, <2>2, <2>3 DEF TokensAsEncoded, settled
<1> QED BY <1>4, <1>5 DEF ReadInv

(* Every step keeps it.                                                     *)
LEMMA ReadSteps ==
  ASSUME ReadInv, StreamNext
  PROVE  ReadInv'
PROOF
<1>1. segments \in Seq(Segments)
  BY DEF ReadInv, ReadTypes
<1>2. ASSUME NEW message \in Messages, Receive(message) PROVE ReadInv'
  <2>1. segments' \in Seq(Segments) /\ UNCHANGED <<reader, raw, meant, decoded, cut>>
    BY <1>2, MessagesAssumption DEF Receive
  <2> QED BY <2>1, ReadStays
<1>3. ASSUME NEW loses \in BOOLEAN, BeginSegment(loses) PROVE ReadInv'
  BY <1>3, SegmentRight
<1>4. CASE Copy
  <2>1. UNCHANGED <<reader, raw, segments, meant, decoded, cut>>
    BY <1>4 DEF Copy
  <2> QED BY <1>1, <2>1, ReadStays
<1>5. CASE Truncated
  <2>1. UNCHANGED <<reader, raw, segments, meant, decoded, cut>>
    BY <1>5 DEF Truncated
  <2> QED BY <1>1, <2>1, ReadStays
<1>6. CASE Garbled
  <2>1. UNCHANGED <<reader, raw, segments, meant, decoded, cut>>
    BY <1>6 DEF Garbled
  <2> QED BY <1>1, <2>1, ReadStays
<1>7. CASE Finish
  <2>1. UNCHANGED <<reader, raw, segments, meant, decoded, cut>>
    BY <1>7 DEF Finish
  <2> QED BY <1>1, <2>1, ReadStays
<1>8. DecodeLiteral => ReadInv'
  BY LiteralRight
<1>9. DecodeMatch => ReadInv'
  BY MatchRight
<1>10. DecodeRun => ReadInv'
  BY RunRight
<1>11. RunByte => ReadInv'
  BY RunByteRight
<1> QED BY <1>2, <1>3, <1>4, <1>5, <1>6, <1>7, <1>8, <1>9, <1>10, <1>11 DEF StreamNext

-----------------------------------------------------------------------------
(* What the decoder does to the ring and the text. *)
LEMMA StreamStep == ReadInv /\ [StreamNext]_streamVars => [AnyStep]_zgfxVars
PROOF
<1> SUFFICES ASSUME ReadInv, [StreamNext]_streamVars PROVE [AnyStep]_zgfxVars
  OBVIOUS
<1>0. ReadTypes /\ ReaderOK(reader)
  BY DEF ReadInv, ReadTypes
<1>1. ASSUME NEW message \in Messages, Receive(message) PROVE AnyStep
  BY <1>1 DEF Receive, AnyStep
<1>2. ASSUME NEW loses \in BOOLEAN, BeginSegment(loses) PROVE UNCHANGED zgfxVars
  BY <1>2 DEF BeginSegment
<1>3. CASE DecodeLiteral
  <2>1. PICK byte \in Bytes : Literal(byte)
    BY <1>0, <1>3, ReadsLiteral
  <2> QED BY <2>1 DEF AnyStep
<1>4. CASE DecodeMatch
  <2>1. PICK d \in Nat, n \in Nat \ {0} : Match(d, n)
    BY <1>0, <1>4, ReadsMatch
  <2> QED BY <2>1 DEF AnyStep
<1>5. CASE DecodeRun
  BY <1>5 DEF DecodeRun
<1>6. CASE RunByte
  <2>1. PICK byte \in Bytes : Literal(byte)
    BY <1>0, <1>6, RunTypes
  <2> QED BY <2>1 DEF AnyStep
<1>7. CASE Copy
  BY <1>7 DEF Copy, AnyStep
<1>8. CASE Truncated
  BY <1>8 DEF Truncated, AnyStep
<1>9. CASE Garbled
  BY <1>9 DEF Garbled, AnyStep
<1>10. CASE Finish
  BY <1>10 DEF Finish, AnyStep
<1>11. CASE UNCHANGED streamVars
  BY <1>11 DEF streamVars
<1> QED BY <1>1, <1>2, <1>3, <1>4, <1>5, <1>6, <1>7, <1>8, <1>9, <1>10, <1>11 DEF StreamNext

(* The two invariants together.                                             *)
LEMMA StreamInvariant == StreamSpec => [](ReadInv /\ ZgfxInv)
PROOF
<1>1. StreamInit => ReadInv /\ ZgfxInv
  <2> SUFFICES ASSUME StreamInit PROVE ReadInv /\ ZgfxInv
    OBVIOUS
  <2>1. Init /\ ReadInit
    BY DEF StreamInit, ReadInit
  <2> QED BY <2>1, ReadBegins, ZgfxInit
<1>2. ReadInv /\ ZgfxInv /\ [StreamNext]_streamVars => (ReadInv /\ ZgfxInv)'
  <2> SUFFICES ASSUME ReadInv, ZgfxInv, [StreamNext]_streamVars PROVE ReadInv' /\ ZgfxInv'
    OBVIOUS
  <2>1. ZgfxInv'
    BY StreamStep, ZgfxStep
  <2>2. CASE UNCHANGED streamVars
    <3>1. UNCHANGED <<reader, raw, segments, meant, decoded, cut>>
      BY <2>2 DEF streamVars
    <3>2. segments' \in Seq(Segments)
      BY <3>1 DEF ReadInv, ReadTypes
    <3>3. ReadInv'
      BY <3>1, <3>2, ReadStays
    <3> QED BY <2>1, <3>3
  <2>3. CASE StreamNext
    BY <2>1, <2>3, ReadSteps
  <2> QED BY <2>2, <2>3
<1> QED BY <1>1, <1>2, PTL DEF StreamSpec

(* The ring, its counters and outputs keep their types.                     *)
THEOREM StreamTypes == StreamSpec => []TypeOK
PROOF
  BY StreamInvariant, PTL DEF ZgfxInv

(* The ring holds the most recent text, whatever bits arrive                *)
(* (zgfx.rs:165-178).                                                       *)
THEOREM StreamHistoryStaysRecent == StreamSpec => []HistoryIsRecentText
PROOF
  BY StreamInvariant, PTL DEF ZgfxInv

(* No code of a match, of any distance and length that can be read from     *)
(* bits, copies a byte that was not written (zgfx.rs:180-198).              *)
THEOREM StreamCopiesOnlyWrittenBytes == StreamSpec => []NeverReadsUnwritten
PROOF
<1>1. ZgfxInv => NeverReadsUnwritten
  BY DEF ZgfxInv, CopyInv, NeverReadsUnwritten
<1> QED BY <1>1, StreamInvariant, PTL

(* Decoding undoes encoding: of each segment, the decoder yields the tokens *)
(* that were encoded, all of them and nothing else, wherever their bits     *)
(* begin; and of one that lost its end all but the last (zgfx.rs:81-163,    *)
(* 200-262).                                                                *)
THEOREM StreamDecodesWhatWasEncoded == StreamSpec => []TokensAsEncoded
PROOF
  BY StreamInvariant, ReadPromise, PTL

(* What is decoded from the bits implements ZgfxText.                       *)
THEOREM StreamImplementsText == StreamSpec => TextSpec
PROOF
<1>1. StreamInit => Text!TextInit
  BY TextBegins DEF StreamInit
<1>2. ReadInv /\ ZgfxInv /\ [StreamNext]_streamVars => [Text!TextNext]_(Text!textVars)
  BY StreamStep, TextStep
<1> QED BY <1>1, <1>2, StreamInvariant, PTL DEF StreamSpec, TextSpec, Text!TextSpec

=============================================================================
