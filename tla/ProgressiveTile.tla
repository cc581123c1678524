--------------------------- MODULE ProgressiveTile ---------------------------
(***************************************************************************)
(* One tile of a surface in the RemoteFX Progressive decoder               *)
(* (client/src/progressive.rs) and the server that sends it, coarse first  *)
(* and then finer and finer, as the picture at its place changes.  Every   *)
(* pass builds on what the client keeps of the passes before: nothing in   *)
(* it says what that should be.                                            *)
(* What is common to all tiles of a surface, and which of them a region    *)
(* draws, is in GfxState.  A component's coefficients and a subband's      *)
(* place among them are here as they are in the code, on a smaller tile.   *)
(***************************************************************************)
EXTENDS ProgressiveWavelet
LOCAL INSTANCE SequencesExt
LOCAL INSTANCE TLC

CONSTANTS
  Edge,        \* samples in a row of a tile: 64
  Quants,      \* quant_vals of the regions, five bytes each
  Progs,       \* their quant_prog_vals, five bytes for each component
  Headers,     \* quant indices and quality of a tile block
  Pictures,    \* planes of the tile the server may want shown
  NoTile,      \* no tile_baseline entry
  MaxPasses    \* bound on the passes sent

Components == {"y", "cb", "cr"}
Bands == 1 .. 10
LL3 == 10
Size == Edge * Edge
Full == 255

ASSUME TileAssumption ==
  /\ Edge \in 8 .. 64 /\ Edge % 8 = 0
  /\ \A q \in DOMAIN Quants : Quants[q] \in [1 .. 5 -> 0 .. 255]
  /\ \A q \in DOMAIN Progs : Progs[q] \in [Components -> [1 .. 5 -> 0 .. 255]]
  /\ \A h \in Headers : DOMAIN h = {"quant", "quality"} /\ DOMAIN h.quant = Components
  /\ \A picture \in Pictures : DOMAIN picture = Components
  /\ MaxPasses \in Nat

VARIABLES
  extrapolate,  \* RFX_DWT_REDUCE_EXTRAPOLATE, of every region
  tile,         \* TileState: current, sign and bit_pos of each component
  drawn,        \* coefficients of the tile last handed to compositing
  \* the server (external)
  picture,      \* what it wants shown
  sent,         \* what it has sent of it: base, delta and bit_pos
  \* history variables
  in_step,      \* no pass has been lost since the last one complete in itself
  passes        \* passes sent

tileVars == <<extrapolate, tile, drawn, picture, sent, in_step, passes>>

(* A value for each component, band or coefficient.                         *)
PerComponent(Value(_)) == [c \in Components |-> Value(c)] @@ <<>>
PerBand(Value(_)) == Eager([b \in Bands |-> Value(b)])
Coefficients(Value(_)) == Eager([i \in 1 .. Size |-> Value(i)])

(* The band of a coefficient, in either layout.                             *)
BandTable(e) ==
  FlattenSeq(PerBand(LAMBDA b : Eager([i \in 1 .. SubbandLayout(Edge, e)[b].len |-> b])))
BandTables == [e \in BOOLEAN |-> BandTable(e)] @@ <<>>
BandOf(i) == BandTables[extrapolate][i]

-----------------------------------------------------------------------------
(* ComponentQuant: a number for each band. *)

(* The nibbles come from the coarsest band to the finest ones.              *)
ReadQuant(bytes) ==
  LET place == <<8, 9, 10, 5, 6, 7, 2, 3, 4, 1>>
      Nibble(n) == IF n % 2 = 1 THEN bytes[(n + 1) \div 2] % 16 ELSE bytes[n \div 2] \div 16
  IN PerBand(LAMBDA b : Nibble(place[b]))

AddQuant(a, b) == PerBand(LAMBDA i : a[i] + b[i])

(* sub1 and checked_sub, and when they bail.                                *)
Underflows(quant) == \E b \in Bands : quant[b] < 1
Sub1(quant) == PerBand(LAMBDA b : quant[b] - 1)
Raises(old, new) == \E b \in Bands : old[b] < new[b]
CheckedSub(old, new) == PerBand(LAMBDA b : old[b] - new[b])

(* Whether the indices of a header are in range, and the bit positions it   *)
(* gives: quant + quantProg, which at full quality is nothing.              *)
InRange(h) ==
  /\ \A c \in Components : h.quant[c] \in DOMAIN Quants
  /\ h.quality = Full \/ h.quality \in DOMAIN Progs

BitPos(h) ==
  PerComponent(LAMBDA c :
     LET quant == ReadQuant(Quants[h.quant[c]])
     IN IF h.quality = Full THEN quant ELSE AddQuant(quant, ReadQuant(Progs[h.quality][c])))

Usable(h) == InRange(h) /\ \A c \in Components : ~Underflows(BitPos(h)[c])

-----------------------------------------------------------------------------
(* What the server sends of one component (external). *)

(* What a bit position leaves of a coefficient: the low band is rounded     *)
(* down, the others are rounded towards zero.                               *)
Left(v, b, pos) ==
  IF b = LL3 THEN v \div 2^(pos[b] - 1)
  ELSE Sign(v) * (Magnitude(v) \div 2^(pos[b] - 1))

(* What passes that began with base and sent delta down to pos add up to.   *)
Held(base, delta, pos) ==
  Coefficients(LAMBDA i : Wrap16(
    base[i] + Left(delta[i], BandOf(i), pos) * 2^(pos[BandOf(i)] - 1)))

FirstStream(delta, pos) ==
  LET Q(i) == Left(delta[i], BandOf(i), pos)
  IN RlgrEncode(Coefficients(LAMBDA i :
       Q(i) - IF i > 1 /\ BandOf(i) = LL3 /\ BandOf(i - 1) = LL3 THEN Q(i - 1) ELSE 0))

(* The bits between two positions, of the coefficients known to be nonzero  *)
(* in one stream, of the others in the other.                               *)
UpgradeStreams(delta, old, new) ==
  LET bits == CheckedSub(old, new)
      Finer(i) == bits[BandOf(i)] > 0
      Fresh(i) == BandOf(i) # LL3 /\ Left(delta[i], BandOf(i), old) = 0
      New(i) == Left(delta[i], BandOf(i), new)
      Added(i) == IF BandOf(i) = LL3 THEN New(i) ELSE Magnitude(New(i))
      indices == Coefficients(LAMBDA i : i)
      fresh == SelectSeq(indices, LAMBDA i : Finer(i) /\ Fresh(i))
      known == SelectSeq(indices, LAMBDA i : Finer(i) /\ ~Fresh(i))
  IN [srl |-> SrlEncode(Eager([j \in DOMAIN fresh |->
                [value |-> New(fresh[j]), bits |-> bits[BandOf(fresh[j])]]])),
      raw |-> Padded(FlattenSeq(Eager([j \in DOMAIN known |->
                LET n == bits[BandOf(known[j])]
                IN BitsOf(Added(known[j]) % 2^n, n)])))]

NoStreams == [srl |-> <<>>, raw |-> <<>>]

-----------------------------------------------------------------------------
(* One component of a tile in its first pass. *)

(* differential_decode, from index first on.                                *)
RunningSum(values, first) ==
  Iterate(LAMBDA sums, i : Append(sums, Wrap16(
            values[i] + IF i > first THEN sums[i - 1] ELSE 0)),
          <<>>, Len(values))

(* decode_component_coeffs and its counterpart for the other layout.        *)
DecodeComponent(stream, pos) ==
  LET values == RlgrDecode(stream, Size)
      first == SubbandLayout(Edge, extrapolate)[LL3].from
      sums == RunningSum(values, first)
      shift == Sub1(pos)
      Coefficient(i) == IF BandOf(i) = LL3 THEN sums[i] ELSE values[i]
  IN [sign |-> values,
      current |-> Coefficients(LAMBDA i :
                    Wrap16(Coefficient(i) * 2^shift[BandOf(i)]))]

-----------------------------------------------------------------------------
(* One component of a tile in a pass that refines it. *)

(* upgrade_block: coefficient i.                                            *)
Refined(st, i, streams, shift, bits) ==
  LET n == AtLeast(bits[BandOf(i)], 0)
      known == BandOf(i) = LL3 \/ st.sign[i] # 0
      raw == ValueAt(streams.raw, st.raw, n)
      srl == SrlRead(streams.srl, st.srl, n)
      input == IF ~known THEN srl.value
               ELSE IF BandOf(i) # LL3 /\ st.sign[i] < 0 THEN -raw ELSE raw
  IN IF n = 0 THEN st
     ELSE [current |-> [st.current EXCEPT ![i] = Wrap16(@ + input * 2^AtLeast(shift[BandOf(i)], 0))],
           sign |-> IF known THEN st.sign ELSE [st.sign EXCEPT ![i] = input],
           srl |-> IF known THEN st.srl ELSE srl.st,
           raw |-> IF known THEN st.raw + n ELSE st.raw]

(* upgrade_component: its bands are in the order of their coefficients.     *)
UpgradeComponent(current, sign, streams, shift, bits) ==
  Iterate(LAMBDA st, i : Refined(st, i, streams, shift, bits),
          [current |-> current, sign |-> sign, srl |-> NewSrl, raw |-> 1], Size)

-----------------------------------------------------------------------------
(* The client. *)

Sum(state) == PerComponent(LAMBDA c : Coefficients(LAMBDA i :
                Wrap16(state.current[c][i] + tile.current[c][i])))

(* A mutant of Accumulate: the sum is drawn but not kept. *)
AccumulateUnkept(state) ==
  drawn' = Sum(state) /\ tile' = [state EXCEPT !.current = tile.current]

(* accumulate_diff: the sum is what is drawn, and what is kept.             *)
Accumulate(state) ==
  \E sum \in {Sum(state)} : drawn' = sum /\ tile' = [state EXCEPT !.current = sum]

(* decode_tile: a tile complete in itself, or a difference to what is kept. *)
(* A header that cannot be used is refused; a difference to nothing is      *)
(* counted and skipped.                                                     *)
DecodeTile(h, streams, difference) ==
  IF ~Usable(h) \/ (difference /\ tile = NoTile) THEN UNCHANGED <<tile, drawn>>
  ELSE \E pos \in {BitPos(h)} :
       \E decoded \in {PerComponent(LAMBDA c : DecodeComponent(streams[c], pos[c]))} :
       \E state \in {[current |-> PerComponent(LAMBDA c : decoded[c].current),
                      sign |-> PerComponent(LAMBDA c : decoded[c].sign),
                      bit_pos |-> pos]} :
         IF difference THEN Accumulate(state)
         ELSE tile' = state /\ drawn' = state.current

(* Mutants of Planned: luma stands for all, and positions have no end. *)
PlannedOnce(new) == ~Raises(tile.bit_pos["y"], new["y"]) /\ ~Underflows(new["y"])
PlannedEndless(new) == \A c \in Components : ~Raises(tile.bit_pos[c], new[c])

(* Whether a refinement can be applied to all components.                   *)
Planned(new) ==
  \A c \in Components : ~Raises(tile.bit_pos[c], new[c]) /\ ~Underflows(new[c])

(* decode_tile_upgrade: nothing changes unless everything can.              *)
DecodeTileUpgrade(h, streams) ==
  IF ~InRange(h) \/ tile = NoTile THEN UNCHANGED <<tile, drawn>>
  ELSE IF ~Planned(BitPos(h)) THEN UNCHANGED <<tile, drawn>>
  ELSE \E new \in {BitPos(h)}, given \in {streams} :
       \E refined \in {PerComponent(LAMBDA c :
             UpgradeComponent(tile.current[c], tile.sign[c], given[c],
                              Sub1(new[c]), CheckedSub(tile.bit_pos[c], new[c])))} :
       \E current \in {PerComponent(LAMBDA c : refined[c].current)} :
         /\ tile' = [current |-> current, bit_pos |-> new,
                     sign |-> PerComponent(LAMBDA c : refined[c].sign)]
         /\ drawn' = current

(* A pass that does not arrive: a block before it in its region failed, or  *)
(* its surface was gone.                                                    *)
LosePass == UNCHANGED <<tile, drawn>>

(* reset_surface and reset_all.                                             *)
Forget ==
  /\ tile # NoTile
  /\ tile' = NoTile
  /\ in_step' = FALSE
  /\ UNCHANGED <<extrapolate, drawn, picture, sent, passes>>

-----------------------------------------------------------------------------
(* Passes. *)

Nothing == PerComponent(LAMBDA c : Coefficients(LAMBDA i : 0))
HeldNow == PerComponent(LAMBDA c : Held(sent.base[c], sent.delta[c], sent.pos[c]))

(* A picture's plane as coefficients, and what it adds to the base.         *)
Difference(plane, base) ==
  With(ForwardTransform(plane, extrapolate),
       LAMBDA whole : Coefficients(LAMBDA i : whole[i] - base[i]))

(* The streams of an upgrade; a component it cannot refine has none.        *)
Refines(c, new) == ~Raises(sent.pos[c], new[c]) /\ ~Underflows(new[c])
Refinement(new) ==
  PerComponent(LAMBDA c : IF Refines(c, new)
                          THEN UpgradeStreams(sent.delta[c], sent.pos[c], new[c])
                          ELSE NoStreams)

Pass == passes < MaxPasses /\ passes' = passes + 1 /\ UNCHANGED extrapolate

(* A tile block of either kind with coefficients of its own.                *)
WholePass(p, h, difference, arrives) ==
  /\ Pass
  /\ Usable(h)
  /\ picture' = p
  /\ \E base \in {IF difference THEN HeldNow ELSE Nothing}, pos \in {BitPos(h)} :
     \E delta \in {PerComponent(LAMBDA c : Difference(p[c], base[c]))} :
     \E streams \in {PerComponent(LAMBDA c : FirstStream(delta[c], pos[c]))} :
       /\ sent' = [base |-> base, delta |-> delta, pos |-> pos]
       /\ IF arrives THEN DecodeTile(h, streams, difference) ELSE LosePass
  /\ in_step' = (arrives /\ (in_step \/ ~difference))

(* A TILE_UPGRADE block.                                                    *)
FinerPass(h, arrives) ==
  /\ Pass
  /\ Usable(h)
  /\ \E new \in {BitPos(h)} :
     /\ new # sent.pos
     /\ \A c \in Components : ~Raises(sent.pos[c], new[c])
     /\ sent' = [sent EXCEPT !.pos = new]
     /\ IF arrives THEN DecodeTileUpgrade(h, Refinement(new)) ELSE LosePass
  /\ in_step' = (in_step /\ arrives)
  /\ UNCHANGED picture

(* A block whose header does not do, in all components or only in one.      *)
MistakenPass(h) ==
  /\ Pass
  /\ ~Usable(h)
  /\ DecodeTile(h, PerComponent(LAMBDA c : <<>>), FALSE)
  /\ UNCHANGED <<picture, sent, in_step>>

MistakenUpgrade(h) ==
  /\ Pass
  /\ InRange(h) => \E c \in Components : ~Refines(c, BitPos(h))
  /\ DecodeTileUpgrade(h, Refinement(BitPos(h)))
  /\ UNCHANGED <<picture, sent, in_step>>

-----------------------------------------------------------------------------
Init ==
  /\ extrapolate \in BOOLEAN
  /\ tile = NoTile
  /\ drawn = Nothing
  /\ picture \in Pictures
  /\ sent = [base |-> Nothing, delta |-> Nothing,
             pos |-> PerComponent(LAMBDA c : PerBand(LAMBDA b : 1))]
  /\ in_step = FALSE
  /\ passes = 0

Next ==
  \/ \E p \in Pictures, h \in Headers, difference, arrives \in BOOLEAN :
       WholePass(p, h, difference, arrives)
  \/ \E h \in Headers, arrives \in BOOLEAN : FinerPass(h, arrives)
  \/ \E h \in Headers : MistakenPass(h) \/ MistakenUpgrade(h)
  \/ Forget

Spec == Init /\ [][Next]_tileVars

-----------------------------------------------------------------------------
(* Type invariant: coefficients stay 16 bits wide, bit positions above 0.   *)
TileTypeOK ==
  tile # NoTile =>
    \A c \in Components :
      /\ DOMAIN tile.current[c] = 1 .. Size /\ DOMAIN tile.sign[c] = 1 .. Size
      /\ \A i \in 1 .. Size : {tile.current[c][i], tile.sign[c][i]} \subseteq -32768 .. 32767
      /\ \A b \in Bands : tile.bit_pos[c][b] \in 1 .. 30

(* As long as no pass is lost, what the client keeps is, in each band, what *)
(* the server has sent of the picture down to that band's bit position:     *)
(* coarse passes, refinements of some bands by several bits and of others   *)
(* by none, differences on top of refinements, refinements of differences,  *)
(* and passes refused in between because they do not fit one component.     *)
TileHoldsWhatWasSent ==
  in_step =>
    /\ tile # NoTile
    /\ tile.bit_pos = sent.pos
    /\ tile.current = HeldNow
    /\ drawn = HeldNow

(* Once every band is at the last bit, whatever passes led there, the tile  *)
(* drawn shows the picture, but for rounding in the last bit of a colour.   *)
LastBitShowsThePicture ==
  LET Pixel(planes, x, y) ==
        Bgr(planes["y"][y][x], planes["cb"][y][x], planes["cr"][y][x])
      Near(shown, meant) == \A k \in 1 .. 3 : shown[k] - meant[k] \in -1 .. 1
  IN in_step /\ (\A c \in Components, b \in Bands : sent.pos[c][b] = 1) =>
       \E samples \in {PerComponent(LAMBDA c : InverseTransform(drawn[c], Edge, extrapolate))} :
         \A x, y \in 1 .. Edge : Near(Pixel(samples, x, y), Pixel(picture, x, y))
=============================================================================
