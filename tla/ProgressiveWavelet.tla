------------------------- MODULE ProgressiveWavelet -------------------------
(***************************************************************************)
(* From the coefficients of a RemoteFX Progressive tile to its pixels      *)
(* (client/src/progressive.rs): the layout of the ten subbands, the two    *)
(* three-level inverse wavelet transforms, and the colours; beside them    *)
(* the forward transforms, which are not in the repository.                *)
(* A tile has edge by edge samples; edge is 64 in the code and a multiple  *)
(* of 8 here.  A component's coefficients are one sequence; a subband and  *)
(* a block of samples is a sequence of rows.                               *)
(***************************************************************************)
EXTENDS ProgressiveBits
LOCAL INSTANCE SequencesExt

ClampTo(v, low, high) == IF v < low THEN low ELSE IF v > high THEN high ELSE v

(* clampi16 *)
ClampI16(v) == ClampTo(v, -32768, 32767)

(* v / 2 and v >> 1 *)
Half(v) == IF v < 0 THEN -((-v) \div 2) ELSE v \div 2
Shr1(v) == v \div 2

-----------------------------------------------------------------------------
(* The layout.  Level 1 is the finest.                                      *)

LowCount(edge, level, extrapolate) ==
  edge \div 2^level + IF extrapolate THEN 1 ELSE 0

HighCount(edge, level, extrapolate) ==
  IF ~extrapolate THEN edge \div 2^level
  ELSE IF level = 1 THEN edge \div 2 - 1
  ELSE (edge + 2^(level - 1)) \div 2^level

(* The rows and columns of HL, LH, HH of a level, and of LL3 after level 3. *)
SubbandShapes(edge, extrapolate) ==
  LET Level(v) == LET l == LowCount(edge, v, extrapolate)
                      h == HighCount(edge, v, extrapolate)
                  IN <<<<l, h>>, <<h, l>>, <<h, h>>>>
      l3 == LowCount(edge, 3, extrapolate)
  IN Level(1) \o Level(2) \o Level(3) \o <<<<l3, l3>>>>

(* subband_layout: where the subbands begin and how long they are.          *)
SubbandLayout(edge, extrapolate) ==
  LET shapes == SubbandShapes(edge, extrapolate)
      Size(b) == shapes[b][1] * shapes[b][2]
  IN Eager([b \in 1 .. 10 |-> [from |-> Iterate(LAMBDA n, c : n + Size(c), 1, b - 1),
                               len |-> Size(b)]])

-----------------------------------------------------------------------------
(* One dimension: low and high samples to samples, two for each.            *)

(* A mutant of PlainEven: the first sample takes no share of a neighbour. *)
PlainEvenUnmirrored(low, high, n) ==
  Wrap16(low[n] - Shr1((IF n = 1 THEN 0 ELSE high[n - 1]) + high[n] + 1))

(* idwt_block, a row or a column of it.                                     *)
PlainEven(low, high, n) ==
  Wrap16(low[n] - Shr1(high[IF n = 1 THEN 1 ELSE n - 1] + high[n] + 1))

PlainLine(low, high) ==
  LET count == Len(low)
      even == Eager([n \in 1 .. count |-> PlainEven(low, high, n)])
      odd == [n \in 1 .. count |->
                Wrap16(2 * high[n] + Shr1(even[n] + even[IF n = count THEN n ELSE n + 1]))]
  IN Eager([x \in 1 .. 2 * count |-> IF x % 2 = 1 THEN even[(x + 1) \div 2] ELSE odd[x \div 2]])

(* idwt_x and idwt_y: there are as many high samples as low ones, or one or *)
(* two fewer.                                                               *)
ExtrapolatedLine(low, high) ==
  LET l == Len(low)
      h == Len(high)
      Even(n) == ClampI16(low[n] - CASE n = 1 -> high[1]
                                     [] n \in 2 .. h -> Half(high[n - 1] + high[n])
                                     [] n = h + 1 /\ l = n -> high[h]
                                     [] OTHER -> Half(high[h]))
      even == Eager([n \in 1 .. (IF l > h THEN h + 1 ELSE h) |-> Even(n)])
      Odd(n) == ClampI16(2 * high[n] + IF n = h /\ l <= h THEN even[n]
                                       ELSE Half(even[n] + even[n + 1]))
  IN Eager([x \in 1 .. l + h |->
              CASE x % 2 = 1 -> even[(x + 1) \div 2]
                [] x % 2 = 0 /\ x <= 2 * h -> Odd(x \div 2)
                [] OTHER -> ClampI16(Half(even[h + 1] + low[l]))])

-----------------------------------------------------------------------------
(* Two dimensions. *)

Line(low, high, extrapolate) ==
  IF extrapolate THEN ExtrapolatedLine(low, high) ELSE PlainLine(low, high)

Transposed(block) ==
  Eager([x \in 1 .. Len(block[1]) |-> Eager([y \in 1 .. Len(block) |-> block[y][x]])])

(* Line for each row of a pair of blocks.                                   *)
Lines(low, high, extrapolate) ==
  Eager([y \in 1 .. Len(low) |-> Line(low[y], high[y], extrapolate)])

(* idwt_block and idwt_block_extrapolate: rows, then columns.               *)
InverseBlock(hl, lh, hh, ll, extrapolate) ==
  LET l == Transposed(Lines(ll, hl, extrapolate))
      h == Transposed(Lines(lh, hh, extrapolate))
  IN Transposed(Lines(l, h, extrapolate))

Subband(coeffs, layout, shapes, b) ==
  LET shape == shapes[b]
      from == layout[b].from
  IN Eager([y \in 1 .. shape[1] |-> SubSeq(coeffs, from + (y - 1) * shape[2],
                                           from + y * shape[2] - 1)])

(* idwt_3level and idwt_3level_extrapolate: each level's block is the low   *)
(* one of the next.                                                         *)
InverseTransform(coeffs, edge, extrapolate) ==
  LET layout == SubbandLayout(edge, extrapolate)
      shapes == SubbandShapes(edge, extrapolate)
      Band(b) == Subband(coeffs, layout, shapes, b)
      Level(ll, b) == InverseBlock(Band(b), Band(b + 1), Band(b + 2), ll, extrapolate)
  IN Iterate(LAMBDA ll, n : Level(ll, 10 - 3 * n), Band(10), 3)

-----------------------------------------------------------------------------
(* The forward transforms (external): low and high samples of a line.       *)

PlainSplit(x) ==
  LET count == Len(x) \div 2
      Next(n) == x[IF n = count THEN 2 * n - 1 ELSE 2 * n + 1]
      high == Eager([n \in 1 .. count |-> Shr1(x[2 * n] - Shr1(x[2 * n - 1] + Next(n)))])
  IN [high |-> high,
      low |-> Eager([n \in 1 .. count |->
                x[2 * n - 1] + Shr1(high[IF n = 1 THEN 1 ELSE n - 1] + high[n] + 1)])]

(* The last of an even number of samples goes into the low ones.            *)
ExtrapolatedSplit(x) ==
  LET h == (Len(x) - 1) \div 2
      high == Eager([n \in 1 .. h |-> Half(x[2 * n] - Half(x[2 * n - 1] + x[2 * n + 1]))])
      Share(n) == CASE n = 1 -> high[1]
                    [] n \in 2 .. h -> Half(high[n - 1] + high[n])
                    [] Len(x) % 2 = 1 -> high[h]
                    [] OTHER -> Half(high[h])
      low == Eager([n \in 1 .. h + 1 |-> x[2 * n - 1] + Share(n)])
  IN [high |-> high,
      low |-> IF Len(x) % 2 = 1 THEN low
              ELSE Append(low, 2 * x[Len(x)] - x[Len(x) - 1])]

Split(x, extrapolate) == IF extrapolate THEN ExtrapolatedSplit(x) ELSE PlainSplit(x)

(* The low and the high parts of each row.                                  *)
Halves(rows, extrapolate) ==
  With(Eager([y \in DOMAIN rows |-> Split(rows[y], extrapolate)]),
       LAMBDA parts : [low |-> Eager([y \in DOMAIN parts |-> parts[y].low]),
                       high |-> Eager([y \in DOMAIN parts |-> parts[y].high])])

(* A block's subbands but the low one, level by level: columns, then rows.  *)
(* What remains is the next level's block.                                  *)
ForwardLevel(st, extrapolate) ==
  With(Halves(Transposed(st.block), extrapolate), LAMBDA columns :
  With(Eager([n \in 1 .. 2 |->
         Halves(Transposed(IF n = 1 THEN columns.low ELSE columns.high), extrapolate)]),
       LAMBDA rows : [block |-> rows[1].low,
                      bands |-> st.bands \o FlattenSeq(rows[1].high \o rows[2].low
                                                                   \o rows[2].high)]))

ForwardTransform(block, extrapolate) ==
  With(Iterate(LAMBDA st, level : ForwardLevel(st, extrapolate),
               [block |-> block, bands |-> <<>>], 3),
       LAMBDA end : end.bands \o FlattenSeq(end.block))

-----------------------------------------------------------------------------
(* ycbcr_to_bgrx: a pixel <<b, g, r>>, of planes with five fractional bits. *)
Bgr(y, cb, cr) ==
  LET luma == (y + 4096) * 65536
      Byte(v) == ClampTo(v \div 2097152, 0, 255)
  IN <<Byte(luma + cb * 115992), Byte(luma - cb * 22527 - cr * 46819),
       Byte(luma + cr * 91916)>>
=============================================================================
