--------------------------- MODULE ProgressiveBits ---------------------------
(***************************************************************************)
(* The entropy coding of RemoteFX Progressive tiles                        *)
(* (client/src/progressive.rs): RLGR1, in which a tile's first pass comes, *)
(* and the SRL and raw streams of the passes that refine it.  A stream is  *)
(* the sequence of its bits; its length is a multiple of 8.                *)
(* Each decoder stands beside the encoder of [MS-RDPRFX] 3.1.8.1.7 and     *)
(* [MS-RDPEGFX] 3.2.8.1.5, which is not in the repository.                 *)
(***************************************************************************)
EXTENDS Integers, Sequences
LOCAL INSTANCE FiniteSetsExt

AtLeast(a, b) == IF a > b THEN a ELSE b
Capped(a, b) == IF a < b THEN a ELSE b
Magnitude(v) == IF v < 0 THEN -v ELSE v
Sign(v) == IF v < 0 THEN -1 ELSE IF v > 0 THEN 1 ELSE 0

(* as i16 *)
Wrap16(v) == ((v + 32768) % 65536) - 32768

(* A sequence, of which TLC then evaluates each element once.               *)
Eager(seq) == seq \o <<>>

(* The same for any value.                                                  *)
With(value, Op(_)) == CHOOSE result \in {Op(v) : v \in {value}} : TRUE

Zeros(n) == [k \in 1 .. n |-> 0]

(* A loop that goes round n times.                                          *)
Iterate(Step(_, _), start, n) ==
  LET after[k \in 0 .. n] == IF k = 0 THEN start ELSE Step(after[k - 1], k)
  IN after[n]

-----------------------------------------------------------------------------
(* BitReader *)

(* read_bit, and beyond the end what unwrap_or makes of it.                 *)
BitAt(bits, p) == IF p <= Len(bits) THEN bits[p] ELSE 0

(* read_bits *)
ValueAt(bits, p, n) == Iterate(LAMBDA v, k : 2 * v + BitAt(bits, p + k - 1), 0, n)

(* consume_run: how many bits from p on equal b.                            *)
RunAt(bits, p, b) ==
  LET others == {q \in p .. Len(bits) : bits[q] # b}
  IN (IF others = {} THEN Len(bits) + 1 ELSE Min(others)) - p

(* The other way about (external).                                          *)
BitsOf(v, n) == [k \in 1 .. n |-> (v \div 2^(n - k)) % 2]
Padded(bits) == bits \o Zeros((-Len(bits)) % 8)

-----------------------------------------------------------------------------
(* RLGR1 *)

KpMax == 80
K(kp) == kp \div 8
KpUp(kp, by) == Capped(kp + by, KpMax)
KpDown(kp, by) == AtLeast(kp - by, 0)

(* What a Golomb-Rice code with a unary part vk makes of krp.               *)
Adapted(krp, vk) ==
  IF vk = 0 THEN KpDown(krp, 2) ELSE IF vk = 1 THEN krp ELSE KpUp(krp, vk)

(* A Golomb-Rice code at p: a unary part and K(krp) bits.                   *)
GolombRice(bits, p, krp) ==
  LET vk == RunAt(bits, p, 1)
      next == p + vk + 1 + K(krp)
  IN IF next > Len(bits) + 1 THEN [ok |-> FALSE]
     ELSE [ok |-> TRUE, pos |-> next, krp |-> Adapted(krp, vk),
           code |-> vk * 2^K(krp) + ValueAt(bits, p + vk + 1, K(krp))]

(* What vk zero bits add to a run that begins with kp.                      *)
FullRuns(kp, vk) == Iterate(LAMBDA run, j : run + 2^K(KpUp(kp, 4 * (j - 1))), 0, vk)

(* The loop of rlgr1_decode in run-length mode, once: zeros and a value.    *)
RunMode(bits, st, n) ==
  LET vk == RunAt(bits, st.pos, 0)
      kp == KpUp(st.kp, 4 * vk)
      p == st.pos + vk + 1
      run == FullRuns(st.kp, vk) + ValueAt(bits, p, K(kp))
      gr == GolombRice(bits, p + K(kp) + 1, st.krp)
      value == Wrap16(IF bits[p + K(kp)] = 1 THEN -(gr.code + 1) ELSE gr.code + 1)
      values == st.out \o Zeros(Capped(run, n - Len(st.out))) \o <<value>>
  IN IF p + K(kp) > Len(bits) \/ ~gr.ok THEN [st EXCEPT !.more = FALSE]
     ELSE [more |-> TRUE, pos |-> gr.pos, kp |-> KpDown(kp, 6), krp |-> gr.krp,
           out |-> SubSeq(values, 1, Capped(Len(values), n))]

(* The same in Golomb-Rice mode: one value.                                 *)
RiceMode(bits, st) ==
  LET gr == GolombRice(bits, st.pos, st.krp)
      half == (gr.code + 1) \div 2
  IN IF ~gr.ok THEN [st EXCEPT !.more = FALSE]
     ELSE [more |-> TRUE, pos |-> gr.pos, krp |-> gr.krp,
           kp |-> IF gr.code = 0 THEN KpUp(st.kp, 3) ELSE KpDown(st.kp, 3),
           out |-> Append(st.out, Wrap16(IF gr.code % 2 = 1 THEN -half ELSE half))]

(* rlgr1_decode: n values; those the stream does not reach are zero.        *)
RlgrDecode(bits, n) ==
  LET Step(st, k) ==
        IF ~st.more \/ st.pos > Len(bits) \/ Len(st.out) >= n THEN st
        ELSE IF K(st.kp) # 0 THEN RunMode(bits, st, n) ELSE RiceMode(bits, st)
      end == Iterate(Step, [more |-> TRUE, pos |-> 1, kp |-> 8, krp |-> 8, out |-> <<>>], n)
  IN end.out \o Zeros(n - Len(end.out))

(* Encoding (external). *)
RiceCode(code, krp) ==
  [k \in 1 .. code \div 2^K(krp) |-> 1] \o <<0>> \o BitsOf(code % 2^K(krp), K(krp))

(* One symbol: in run-length mode a run of zeros ended by a value, or by    *)
(* the end of the values, for which a 1 stands that is never reached.       *)
RlgrSymbol(values, st) ==
  LET rest == {i \in st.next .. Len(values) : values[i] # 0}
      stop == IF rest = {} THEN Len(values) + 1 ELSE Min(rest)
      zeros == stop - st.next
      full == CHOOSE j \in 0 .. zeros : /\ FullRuns(st.kp, j) <= zeros
                                        /\ FullRuns(st.kp, j + 1) > zeros
      kp == KpUp(st.kp, 4 * full)
      last == IF rest = {} THEN 1 ELSE values[stop]
      v == values[st.next]
      code == IF K(st.kp) # 0 THEN Magnitude(last) - 1
              ELSE IF v < 0 THEN 2 * Magnitude(v) - 1 ELSE 2 * v
  IN IF K(st.kp) # 0
     THEN [next |-> stop + 1, kp |-> KpDown(kp, 6),
           krp |-> Adapted(st.krp, code \div 2^K(st.krp)),
           bits |-> st.bits \o Zeros(full) \o <<1>>
                      \o BitsOf(zeros - FullRuns(st.kp, full), K(kp))
                      \o <<IF last < 0 THEN 1 ELSE 0>> \o RiceCode(code, st.krp)]
     ELSE [next |-> st.next + 1,
           kp |-> IF code = 0 THEN KpUp(st.kp, 3) ELSE KpDown(st.kp, 3),
           krp |-> Adapted(st.krp, code \div 2^K(st.krp)),
           bits |-> st.bits \o RiceCode(code, st.krp)]

RlgrEncode(values) ==
  Padded(Iterate(LAMBDA st, k : IF st.next > Len(values) THEN st ELSE RlgrSymbol(values, st),
                 [next |-> 1, kp |-> 8, krp |-> 8, bits |-> <<>>], Len(values)).bits)

-----------------------------------------------------------------------------
(* SRL *)

(* UpgradeState::new, of the SRL stream.                                    *)
NewSrl == [pos |-> 1, nz |-> 0, kp |-> 8, mode |-> 0]

(* A value: a sign, and a magnitude below 2^n in unary unless n is 1.       *)
SrlValue(bits, st, n) ==
  LET top == 2^n - 1
      ends == {m \in 1 .. top - 1 : BitAt(bits, st.pos + m) = 1}
      mag == IF ends = {} THEN top ELSE Min(ends)
  IN [value |-> Wrap16(IF BitAt(bits, st.pos) = 1 THEN -mag ELSE mag),
      st |-> [pos |-> st.pos + 1 + Capped(mag, top - 1), nz |-> 0,
              kp |-> KpDown(st.kp, 6), mode |-> 0]]

(* srl_read: the next value, n bits finer than what went before.  Zeros     *)
(* come in runs: 2^k of them behind a 0, a number given in k bits and then  *)
(* a value behind a 1.                                                      *)
SrlRead(bits, st, n) ==
  LET k == K(st.kp)
      run == ValueAt(bits, st.pos + 1, k)
      Zero(next) == [value |-> 0, st |-> next]
      ended == [st EXCEPT !.pos = @ + 1 + k, !.mode = 1]
  IN CASE st.nz > 0 -> Zero([st EXCEPT !.nz = @ - 1])
       [] st.nz = 0 /\ st.mode = 1 -> SrlValue(bits, st, n)
       [] st.nz = 0 /\ st.mode = 0 /\ BitAt(bits, st.pos) = 0 ->
            Zero([st EXCEPT !.pos = @ + 1, !.nz = 2^k - 1, !.kp = KpUp(@, 4)])
       [] st.nz = 0 /\ st.mode = 0 /\ BitAt(bits, st.pos) = 1 /\ run > 0 ->
            Zero([ended EXCEPT !.nz = run - 1])
       [] OTHER -> SrlValue(bits, ended, n)

(* Encoding (external): values with the bits each may take.  What begins at *)
(* the last value but for zeros is one run, or two.                         *)
SrlMagnitude(v, n) ==
  <<IF v < 0 THEN 1 ELSE 0>> \o
  (IF n = 1 THEN <<>>
   ELSE Zeros(Magnitude(v) - 1) \o IF Magnitude(v) = 2^n - 1 THEN <<>> ELSE <<1>>)

SrlSymbol(items, st) ==
  LET rest == {i \in st.next .. Len(items) : items[i].value # 0}
      stop == IF rest = {} THEN Len(items) + 1 ELSE Min(rest)
      zeros == stop - st.next
      k == K(st.kp)
  IN IF zeros >= 2^k \/ rest = {}
     THEN [next |-> st.next + 2^k, kp |-> KpUp(st.kp, 4), bits |-> Append(st.bits, 0)]
     ELSE [next |-> stop + 1, kp |-> KpDown(st.kp, 6),
           bits |-> st.bits \o <<1>> \o BitsOf(zeros, k)
                      \o SrlMagnitude(items[stop].value, items[stop].bits)]

SrlEncode(items) ==
  Padded(Iterate(LAMBDA st, k : IF st.next > Len(items) THEN st ELSE SrlSymbol(items, st),
                 [next |-> 1, kp |-> 8, bits |-> <<>>], Len(items)).bits)

=============================================================================
