----------------------------- MODULE TileLayers -----------------------------
(***************************************************************************)
(* The layers of a ClearCodec tile (client/src/clearcodec.rs) and the      *)
(* NSCodec planes one of them may hold (client/src/nscodec.rs).            *)
(* A tile is the sequence of its pixels, row by row; a pixel is its bytes  *)
(* <<b, g, r>>.  A stream is the sequence of its fields: a colour, a byte, *)
(* a 16- or a 32-bit number.  A plane is a sequence of bytes.              *)
(***************************************************************************)
EXTENDS Integers, Sequences, SequencesExt

Black == <<0, 0, 0>>

Blank(n) == [k \in 1 .. n |-> Black]

AtMost(a, b) == IF a < b THEN a ELSE b

Undecodable == [ok |-> FALSE, out |-> <<>>]

(* A loop that each time round takes at least one of n fields.             *)
Repeat(Step(_), start, n) == FoldLeft(LAMBDA st, k : Step(st), start, [k \in 1 .. n |-> k])

-----------------------------------------------------------------------------
(* read_run_length at field p: how many fields it takes, none if the stream *)
(* ends first.                                                              *)
RunFields(s, p) ==
  IF p <= Len(s) /\ s[p] < 255 THEN 1
  ELSE IF p + 1 <= Len(s) /\ s[p + 1] < 65535 THEN 2
  ELSE IF p + 2 <= Len(s) THEN 3 ELSE 0

RunLength(s, p) == s[p + RunFields(s, p) - 1]

(* The loop of decode_residual over n pixels, once.                         *)
ResidualRun(s, n, st) ==
  LET fields == RunFields(s, st.pos + 1)
      end == st.idx + RunLength(s, st.pos + 1)
  IN IF ~st.ok \/ st.pos > Len(s) \/ st.idx >= n THEN st
     ELSE IF fields = 0 THEN [st EXCEPT !.ok = FALSE]
     ELSE [ok |-> TRUE, pos |-> st.pos + 1 + fields, idx |-> AtMost(end, n),
           out |-> [k \in 1 .. n |->
                      IF k > st.idx /\ k <= end THEN s[st.pos] ELSE st.out[k]]]

(* decode_residual: runs of one colour over the whole tile.                 *)
DecodeResidual(s, tile) ==
  LET after[k \in 0 .. Len(s)] ==
        IF k = 0 THEN [ok |-> TRUE, pos |-> 1, idx |-> 0, out |-> tile]
        ELSE ResidualRun(s, Len(tile), after[k - 1])
  IN after[Len(s)]

-----------------------------------------------------------------------------
(* bits_needed *)
BitsNeeded(x) == IF x = 0 THEN 1 ELSE CHOOSE b \in 1 .. 32 : 2^(b - 1) <= x /\ x < 2^b

(* What the first byte of a suite divides into its depth and its end.       *)
SuiteBase(count) == 2^BitsNeeded(IF count = 0 THEN 0 ELSE count - 1)

(* The loop of decode_rlex over n pixels, once: a run of a palette entry,   *)
(* then the suite, the entries from that one to stop_index.                 *)
RlexSuite(s, palette, n, st) ==
  LET stop == s[st.pos] % SuiteBase(Len(palette))
      start == stop - s[st.pos] \div SuiteBase(Len(palette))
      fields == RunFields(s, st.pos + 1)
      run == AtMost(RunLength(s, st.pos + 1), n - Len(st.out))
      pixels == st.out \o [k \in 1 .. run |-> palette[start + 1]]
                       \o SubSeq(palette, start + 1, stop + 1)
  IN IF ~st.ok \/ st.pos > Len(s) \/ Len(st.out) >= n THEN st
     ELSE IF fields = 0 \/ start < 0 \/ stop >= Len(palette) THEN [st EXCEPT !.ok = FALSE]
     ELSE [ok |-> TRUE, pos |-> st.pos + 1 + fields,
           out |-> SubSeq(pixels, 1, AtMost(Len(pixels), n))]

(* decode_rlex: a palette and suites.  The pixels, n at most.               *)
DecodeRlex(s, n) ==
  LET count == s[1]
      after[k \in 0 .. Len(s)] ==
        IF k = 0 THEN [ok |-> TRUE, pos |-> count + 2, out |-> <<>>]
        ELSE RlexSuite(s, SubSeq(s, 2, count + 1), n, after[k - 1])
  IN IF s = <<>> \/ count > 127 \/ count + 1 > Len(s) THEN Undecodable ELSE after[Len(s)]

-----------------------------------------------------------------------------
RoundUp(n, m) == ((n + m - 1) \div m) * m

(* plane_layout *)
PlaneLayout(w, h, subsampling) ==
  LET luma == IF subsampling THEN RoundUp(w, 8) ELSE w
      chroma == IF subsampling THEN luma \div 2 ELSE w
      rows == IF subsampling THEN RoundUp(h, 2) \div 2 ELSE h
  IN [luma_stride |-> luma, chroma_stride |-> chroma,
      sizes |-> <<luma * h, chroma * rows, chroma * rows, w * h>>]

(* Whether the byte at p begins a run, when left bytes are still to come.   *)
BeginsRun(d, p, left) == left # 5 /\ p + 1 <= Len(d) /\ d[p + 1] = d[p]

(* rle_decode: two equal bytes begin a run, whose length follows in one     *)
(* byte or, behind an escape, in four; any other byte is itself.  The last  *)
(* four bytes are not encoded, and the one before them never begins a run.  *)
RleDecode(d, n) ==
  LET Step(st) ==
        LET left == n - Len(st.out)
            Has(k) == st.pos + k <= Len(d)
            long == d[st.pos + 2] = 255
            run == IF ~long THEN d[st.pos + 2] + 2
                   ELSE d[st.pos + 3] + 256 * d[st.pos + 4]
                          + 65536 * d[st.pos + 5] + 16777216 * d[st.pos + 6]
        IN IF ~st.ok \/ left <= 4 THEN st
           ELSE IF ~Has(0) THEN [st EXCEPT !.ok = FALSE]
           ELSE IF ~BeginsRun(d, st.pos, left)
                THEN [st EXCEPT !.pos = @ + 1, !.out = Append(@, d[st.pos])]
           ELSE IF ~Has(2) \/ (long /\ ~Has(6)) \/ run > left - 4
                THEN [st EXCEPT !.ok = FALSE]
           ELSE [ok |-> TRUE, pos |-> st.pos + IF long THEN 7 ELSE 3,
                 out |-> st.out \o [k \in 1 .. run |-> d[st.pos]]]
      end == Repeat(Step, [ok |-> TRUE, pos |-> 1, out |-> <<>>], Len(d) + 1)
  IN IF n < 4 \/ ~end.ok \/ Len(end.out) + 4 # n \/ end.pos + 3 > Len(d)
     THEN Undecodable
     ELSE [ok |-> TRUE, out |-> end.out \o SubSeq(d, end.pos, end.pos + 3)]

(* decode_plane: absent, raw or run-length encoded, told by its size alone. *)
DecodePlane(d, n) ==
  IF d = <<>> THEN [ok |-> TRUE, out |-> [k \in 1 .. n |-> 255]]
  ELSE IF Len(d) >= n THEN [ok |-> TRUE, out |-> SubSeq(d, 1, n)]
  ELSE RleDecode(d, n)

SignedByte(v) == ((v + 128) % 256) - 128
ClampByte(v) == IF v < 0 THEN 0 ELSE AtMost(v, 255)

(* nscodec::decompress: four planes, of which the chroma ones may have half *)
(* the rows and columns, to pixels.  The fourth has to decode but is unused.*)
DecodeNsc(planes, loss, subsampling, w, h) ==
  LET layout == PlaneLayout(w, h, subsampling)
      plane == [i \in 1 .. 4 |-> DecodePlane(planes[i], layout.sizes[i])]
      half == IF subsampling THEN 2 ELSE 1
      Chroma(i, k) == SignedByte(plane[i].out[k] * 2^(loss - 1))
      Pixel(x, y) ==
        LET c == (y \div half) * layout.chroma_stride + x \div half + 1
            luma == plane[1].out[y * layout.luma_stride + x + 1]
            co == Chroma(2, c)
            cg == Chroma(3, c)
        IN <<ClampByte(luma - co - cg), ClampByte(luma + cg), ClampByte(luma + co - cg)>>
  IN IF loss \notin 1 .. 7 \/ \E i \in 1 .. 4 : ~plane[i].ok THEN Undecodable
     ELSE [ok |-> TRUE,
           out |-> [k \in 1 .. w * h |-> Pixel((k - 1) % w, (k - 1) \div w)]]

-----------------------------------------------------------------------------
(* set_tile_pixel for each pixel of a w columns wide piece at (x, y) of a   *)
(* tile of the given width: what is off the tile is left out.               *)
PaintAt(tile, width, x, y, w, pixels) ==
  [k \in DOMAIN tile |->
     LET px == (k - 1) % width
         i == ((k - 1) \div width - y) * w + px - x + 1
     IN IF px \in x .. x + w - 1 /\ i \in 1 .. Len(pixels) THEN pixels[i] ELSE tile[k]]

(* decode_subcodecs: one of its entries.                                    *)
SubcodecPixels(sub) ==
  CASE sub.codec = "raw" ->
         [ok |-> Len(sub.data) = sub.w * sub.h, out |-> sub.data]
    [] sub.codec = "rlex" -> DecodeRlex(sub.data, sub.w * sub.h)
    [] sub.codec = "nscodec" ->
         DecodeNsc(sub.planes, sub.loss, sub.subsampling, sub.w, sub.h)
    [] OTHER -> Undecodable
=============================================================================
