----------------------------- MODULE ClearCodec -----------------------------
(***************************************************************************)
(* The ClearCodec decoder (client/src/clearcodec.rs) beside the server's   *)
(* encoder, whose copies of the decoder's caches it must follow: nothing   *)
(* in a message says what they hold.                                       *)
(* The server's side of a message and the client's are one step each: a    *)
(* message is encoded as it is decoded, which decompress cannot tell from  *)
(* finding it whole.  What the client does not read, the server still      *)
(* encodes alone.                                                          *)
(* A cache entry never written is <<>>: the code reads it so in the V-Bar  *)
(* caches, and a glyph has at least one pixel.                             *)
(***************************************************************************)
EXTENDS TileLayers, FiniteSets

CONSTANTS
  SeqModulus,      \* the number of sequence numbers: 256
  GlyphIds,        \* indices into the glyph cache
  VBarSize,        \* VBAR_SIZE
  ShortVBarSize,   \* SHORT_VBAR_SIZE
  MaxVBarHeight,   \* the height a band may have: 52
  NoSeq,           \* seq_number before the first message
  NoGlyph,         \* a message without FLAG_GLYPH_INDEX
  Headers,         \* headers of messages
  ShortVBars,      \* rows and pixels of short V-Bars a message brings
  Offsets,         \* rows at which a cached short V-Bar may begin
  Residuals,       \* residual streams
  Bands,           \* headers of bands: columns, rows, background
  Subcodecs,       \* entries of the subcodec layer
  OldServers,      \* what a server older than the connection may hold
  MaxMessages,     \* bound on the messages sent
  MaxColumns       \* bound on the V-Bars sent

VBarIndex == 0 .. VBarSize - 1
ShortVBarIndex == 0 .. ShortVBarSize - 1

Byte == 0 .. 255
Pixel == Byte \X Byte \X Byte

ASSUME ClearAssumption ==
  /\ SeqModulus \in Nat \ {0}
  /\ VBarSize \in Nat \ {0}
  /\ ShortVBarSize \in Nat \ {0}
  /\ MaxVBarHeight \in Nat
  /\ NoSeq \notin 0 .. SeqModulus - 1
  /\ NoGlyph \notin GlyphIds
  /\ Headers \subseteq [reset : BOOLEAN, glyph : GlyphIds \cup {NoGlyph}, hit : BOOLEAN,
                         w : Nat \ {0}, h : Nat \ {0}]
  /\ ShortVBars \subseteq [offset : Nat, pixels : Seq(Pixel)]
  /\ Offsets \subseteq Nat
  /\ Residuals \subseteq Seq([color : Pixel, run : Nat])
  /\ Bands \subseteq [x_start : Nat, x_end : Nat, y_start : Nat, y_end : Nat,
                      background : Pixel]
  /\ OldServers \subseteq
       [seq : 0 .. SeqModulus - 1, glyphs : [GlyphIds -> Seq(Pixel)],
        vbars : [VBarIndex -> Seq(Pixel)], vbar_cursor : VBarIndex,
        shorts : [ShortVBarIndex -> Seq(Pixel)], short_vbar_cursor : ShortVBarIndex]
  /\ MaxMessages \in Nat
  /\ MaxColumns \in Nat

-----------------------------------------------------------------------------
(* The encoder of the layers (external). *)

(* Sequences, the first j of them one behind the other.                     *)
Joined(parts) ==
  LET all[j \in 0 .. Len(parts)] == IF j = 0 THEN <<>> ELSE all[j - 1] \o parts[j]
  IN all

(* A field and the length of its run, behind escapes if it is long.         *)
RunCode(field, n) ==
  IF n < 255 THEN <<field, n>>
  ELSE IF n < 65535 THEN <<field, 255, n>> ELSE <<field, 255, 65535, n>>

(* A residual layer: colours with the lengths of their runs.                *)
ResidualCode(runs) == Joined([j \in DOMAIN runs |-> RunCode(runs[j].color, runs[j].run)])

(* RLEX: a palette, and suites of its entries each behind a run of the      *)
(* first of them; a suite's depth and end share a byte.                     *)
SuiteByte(palette, suite) ==
  (suite.stop - suite.start) * SuiteBase(Len(palette)) + suite.stop

SuitePixels(palette, suite) ==
  [k \in 1 .. suite.run |-> palette[suite.start + 1]]
    \o SubSeq(palette, suite.start + 1, suite.stop + 1)

IsRlex(palette, suites) ==
  /\ palette \in Seq(Pixel) /\ Len(palette) <= 127
  /\ suites \in Seq([run : Nat, start : Nat, stop : Nat])
  /\ \A j \in DOMAIN suites :
       /\ suites[j].start <= suites[j].stop
       /\ suites[j].stop < Len(palette)
       /\ SuiteByte(palette, suites[j]) \in Byte

RlexCode(palette, suites) ==
  <<Len(palette)>> \o palette
    \o Joined([j \in DOMAIN suites |-> RunCode(SuiteByte(palette, suites[j]), suites[j].run)])
         [Len(suites)]

RlexPixels(palette, suites, n) ==
  LET all == Joined([j \in DOMAIN suites |-> SuitePixels(palette, suites[j])])[Len(suites)]
  IN SubSeq(all, 1, AtMost(Len(all), n))

(* An entry of the subcodec layer as the server writes it, and the pixels   *)
(* it stands for.  NSCodec loses detail: what is meant is what it keeps.    *)
Raw(sub) == sub.data = sub.want /\ Len(sub.data) = sub.w * sub.h

Rlex(sub) ==
  /\ IsRlex(sub.palette, sub.suites)
  /\ sub.w * sub.h \in Nat
  /\ sub.data = RlexCode(sub.palette, sub.suites)
  /\ sub.want = RlexPixels(sub.palette, sub.suites, sub.w * sub.h)

Nsc(sub) == SubcodecPixels(sub).ok /\ SubcodecPixels(sub).out = sub.want

ASSUME SubcodecAssumption ==
  \A sub \in Subcodecs : \/ sub.codec = "raw" /\ Raw(sub)
                         \/ sub.codec = "rlex" /\ Rlex(sub)
                         \/ sub.codec = "nscodec" /\ Nsc(sub)

VARIABLES
  \* ClearCodecContext
  seq_number, glyph_cache, vbar_storage, short_vbar_storage,
  vbar_cursor, short_vbar_cursor,
  \* decompress
  pc,         \* where in the message: "idle", "hit", "residual", "bands",
              \* "subcodecs", and "painted" or "failed" when it is through
  message,    \* its header
  band,       \* the band being decoded; x_start is its next column
  reading,    \* whether the client still reads it
  tile,       \* the tile composed
  \* the server (external)
  server,     \* its caches, cursors and next sequence number
  picture,    \* the tile it wants composed
  \* history variables
  damaged,    \* this message was lost on the way, or is not readable
  in_step,    \* no V-Bar has been lost since the cursors were last reset
  agreed,     \* the cache entries both have written since then
  sound,      \* this message refers to such entries only
  missed,     \* messages not taken since the last one taken
  sent,       \* messages sent
  columns     \* V-Bars sent

contextVars == <<seq_number, glyph_cache, vbar_storage, short_vbar_storage,
                 vbar_cursor, short_vbar_cursor>>
clearVars == <<contextVars, pc, message, band, reading, tile, server, picture,
               damaged, in_step, agreed, sound, missed, sent, columns>>

-----------------------------------------------------------------------------
(* The header of a message. *)

NoneAgreed == [vbars |-> {}, shorts |-> {}, glyphs |-> agreed.glyphs]

(* The server sends a message, a hit only on a glyph it has cached itself;  *)
(* with FLAG_CACHE_RESET its cursors go back.                               *)
Encode(m) ==
  /\ pc = "idle"
  /\ sent < MaxMessages
  /\ sent' = sent + 1
  /\ m.hit => m.glyph # NoGlyph /\ Len(server.glyphs[m.glyph]) >= m.w * m.h
  /\ message' = m
  /\ server' = [server EXCEPT
                  !.seq = (@ + 1) % SeqModulus,
                  !.vbar_cursor = IF m.reset THEN 0 ELSE @,
                  !.short_vbar_cursor = IF m.reset THEN 0 ELSE @]
  /\ tile' = Blank(m.w * m.h)
  /\ picture' = Blank(m.w * m.h)
  /\ UNCHANGED columns

NoMessage == [reset |-> FALSE, glyph |-> NoGlyph, hit |-> FALSE, w |-> 0, h |-> 0]

(* Where decompress goes from the header: a hit has nothing but the header. *)
AfterHeader(m) == pc' = IF m.hit THEN "hit" ELSE "residual"

(* The message does not get as far as the codec's caches: its surface is    *)
(* gone or its rect inverted, so that decompress is never called.           *)
LoseMessage(m) ==
  /\ damaged' = TRUE
  /\ reading' = FALSE
  /\ sound' = FALSE
  /\ missed' = missed + 1
  /\ in_step' = (in_step /\ ~m.reset)
  /\ UNCHANGED <<contextVars, band, agreed>>

NotDecoded(m) ==
  /\ Encode(m)
  /\ AfterHeader(m)
  /\ LoseMessage(m)

(* A mutant of InSequence: no number follows the last one. *)
InSequenceUnwrapped(seq) == seq_number # NoSeq => seq = seq_number + 1

InSequence(seq) == seq_number # NoSeq => seq = (seq_number + 1) % SeqModulus

(* The sequence number does not follow: it is not adopted either.           *)
SequenceGap(m) ==
  /\ ~InSequence(server.seq)
  /\ Encode(m)
  /\ AfterHeader(m)
  /\ LoseMessage(m)

(* A mutant of ResetCursors: only the cursor of the V-Bars. *)
ResetCursorsHalf(reset) ==
  /\ vbar_cursor' = IF reset THEN 0 ELSE vbar_cursor
  /\ short_vbar_cursor' = short_vbar_cursor

ResetCursors(reset) ==
  /\ vbar_cursor' = IF reset THEN 0 ELSE vbar_cursor
  /\ short_vbar_cursor' = IF reset THEN 0 ELSE short_vbar_cursor

BeginMessage(m) ==
  /\ InSequence(server.seq)
  /\ Encode(m)
  /\ AfterHeader(m)
  /\ seq_number' = server.seq
  /\ ResetCursors(m.reset)
  /\ reading' = TRUE
  /\ damaged' = FALSE
  /\ sound' = TRUE
  /\ missed' = 0
  /\ in_step' = (in_step \/ m.reset)
  /\ agreed' = IF m.reset THEN NoneAgreed ELSE agreed
  /\ UNCHANGED <<glyph_cache, vbar_storage, short_vbar_storage, band>>

(* The message holds something decompress refuses: it ends early, an index, *)
(* a length or a codec is out of range.  Nothing is drawn, and what was     *)
(* stored before stays stored.                                              *)
Unreadable ==
  /\ reading
  /\ pc \in {"residual", "bands", "subcodecs"}
  /\ reading' = FALSE
  /\ damaged' = TRUE
  /\ sound' = FALSE
  /\ UNCHANGED <<contextVars, pc, message, band, tile, server, picture,
                 in_step, agreed, missed, sent, columns>>

-----------------------------------------------------------------------------
(* Glyphs. *)

(* A mutant of GlyphFits: a slot has to be larger than what is drawn. *)
GlyphFitsWithin(pixels) == Len(pixels) > message.w * message.h

(* A cached glyph is read again in the shape asked for, if it has as many   *)
(* pixels.                                                                  *)
GlyphFits(pixels) == pixels # <<>> /\ Len(pixels) >= message.w * message.h

Reshaped(pixels) == SubSeq(pixels, 1, message.w * message.h)

(* The whole of a message with FLAG_GLYPH_HIT.                              *)
GlyphHit ==
  LET g == message.glyph
  IN /\ pc = "hit"
     /\ picture' = Reshaped(server.glyphs[g])
     /\ IF reading /\ GlyphFits(glyph_cache[g])
        THEN pc' = "painted" /\ tile' = Reshaped(glyph_cache[g])
        ELSE pc' = "failed" /\ tile' = tile
     /\ sound' = (sound /\ g \in agreed.glyphs)
     /\ UNCHANGED <<contextVars, message, band, reading, server, damaged,
                    in_step, agreed, missed, sent, columns>>

-----------------------------------------------------------------------------
(* The layers. *)

NoBand == [x_start |-> 1, x_end |-> 0, y_start |-> 0, y_end |-> 0, background |-> Black]

(* Where the runs end, and the pixels they draw: pixel k has the colour of  *)
(* the run that covers it.                                                  *)
Ends(runs) ==
  LET end[j \in 0 .. Len(runs)] == IF j = 0 THEN 0 ELSE end[j - 1] + runs[j].run
  IN end

Covers(runs, j, k) == Ends(runs)[j - 1] < k /\ k <= Ends(runs)[j]

Drawn(runs, pixels) ==
  [k \in DOMAIN pixels |->
     IF \E j \in DOMAIN runs : Covers(runs, j, k)
     THEN runs[CHOOSE j \in DOMAIN runs : Covers(runs, j, k)].color ELSE pixels[k]]

(* The residual layer, which may be absent (no runs).                       *)
Residual(runs) ==
  LET decoded == DecodeResidual(ResidualCode(runs)[Len(runs)], tile)
  IN /\ pc = "residual"
     /\ pc' = "bands"
     /\ band' = NoBand
     /\ picture' = Drawn(runs, picture)
     /\ tile' = IF reading THEN decoded.out ELSE tile
     /\ reading' = (reading /\ decoded.ok)
     /\ UNCHANGED <<contextVars, message, server, damaged, in_step, agreed,
                    sound, missed, sent, columns>>

BandHeight == band.y_end - band.y_start + 1
InBand == pc = "bands" /\ band.x_start <= band.x_end

(* The header of the next band.                                             *)
BeginBand(b) ==
  /\ pc = "bands" /\ ~InBand
  /\ columns + b.x_end - b.x_start < MaxColumns
  /\ b.y_start <= b.y_end /\ b.y_end - b.y_start < MaxVBarHeight
  /\ b.x_start <= b.x_end
  /\ band' = b
  /\ UNCHANGED <<contextVars, pc, message, reading, tile, server, picture, damaged,
                 in_step, agreed, sound, missed, sent, columns>>

(* The column the server means: some pixels from a row on, the rest filled.  *)
Wanted(pixels, offset, fill) ==
  [i \in 1 .. BandHeight |->
     IF i - offset \in DOMAIN pixels THEN pixels[i - offset] ELSE fill]

(* A mutant of VBarPixels: an entry that is too short stays so. *)
VBarPixelsAsStored(entry) == SubSeq(entry, 1, AtMost(Len(entry), BandHeight))

(* VBAR_CACHE_HIT: the entry at the height of this band, cut or extended.   *)
VBarPixels(entry) ==
  SubSeq(entry, 1, AtMost(Len(entry), BandHeight))
    \o Blank(IF Len(entry) < BandHeight THEN BandHeight - Len(entry) ELSE 0)

(* A mutant of Composed: what does not fit below goes on above. *)
ComposedAround(offset, short) ==
  [i \in 1 .. BandHeight |->
     IF \E k \in DOMAIN short : (offset + k - 1) % BandHeight = i - 1
     THEN short[CHOOSE k \in DOMAIN short : (offset + k - 1) % BandHeight = i - 1]
     ELSE band.background]

(* The background with a short V-Bar over it, as far as it fits.            *)
Composed(offset, short) ==
  [i \in 1 .. BandHeight |->
     IF i > offset /\ i <= offset + Len(short) THEN short[i - offset] ELSE band.background]

(* The loop over the columns of a band, once: the server's column, the      *)
(* client's, and whether what the column refers to is agreed.               *)
Column(full, pixels, known) ==
  /\ band' = [band EXCEPT !.x_start = @ + 1]
  /\ picture' = PaintAt(picture, message.w, band.x_start, band.y_start, 1, full)
  /\ tile' = IF reading THEN PaintAt(tile, message.w, band.x_start, band.y_start, 1, pixels)
             ELSE tile
  /\ sound' = (sound /\ known)
  /\ columns' = columns + 1
  /\ UNCHANGED <<pc, message, damaged, missed, sent, seq_number, glyph_cache>>

VBarHit(i) ==
  /\ InBand
  /\ server.vbars[i] # <<>>
  /\ Column(Wanted(server.vbars[i], 0, Black), VBarPixels(vbar_storage[i]),
            in_step /\ i \in agreed.vbars)
  /\ UNCHANGED <<vbar_storage, short_vbar_storage, vbar_cursor, short_vbar_cursor,
                 reading, server, in_step, agreed>>

(* A mutant of StoreVBar: the cursor stays. *)
StoreVBarInPlace(full) ==
  /\ vbar_storage' = [vbar_storage EXCEPT ![vbar_cursor] = full]
  /\ vbar_cursor' = vbar_cursor

(* A V-Bar update: every composed column is stored.                         *)
StoreVBar(full) ==
  /\ vbar_storage' = [vbar_storage EXCEPT ![vbar_cursor] = full]
  /\ vbar_cursor' = (vbar_cursor + 1) % VBarSize

StoreShortVBar(short) ==
  /\ short_vbar_storage' = [short_vbar_storage EXCEPT ![short_vbar_cursor] = short]
  /\ short_vbar_cursor' = (short_vbar_cursor + 1) % ShortVBarSize

(* SHORT_VBAR_CACHE_HIT *)
ShortHit(i, offset) ==
  LET full == Wanted(server.shorts[i], offset, band.background)
      pixels == Composed(offset, short_vbar_storage[i])
      known == in_step /\ i \in agreed.shorts
  IN /\ InBand
     /\ server.shorts[i] # <<>>
     /\ Column(full, pixels, known)
     /\ server' = [server EXCEPT !.vbars[server.vbar_cursor] = full,
                                 !.vbar_cursor = (@ + 1) % VBarSize]
     /\ IF reading THEN StoreVBar(pixels) ELSE UNCHANGED <<vbar_storage, vbar_cursor>>
     /\ in_step' = (in_step /\ reading)
     /\ agreed' = [agreed EXCEPT !.vbars = IF reading /\ known
                                           THEN @ \cup {server.vbar_cursor}
                                           ELSE @ \ {server.vbar_cursor}]
     /\ UNCHANGED <<reading, short_vbar_storage, short_vbar_cursor>>

(* SHORT_VBAR_CACHE_MISS: the pixels are in the message.                    *)
ShortMiss(offset, short) ==
  LET full == Wanted(short, offset, band.background)
      pixels == Composed(offset, short)
  IN /\ InBand
     /\ Column(full, pixels, TRUE)
     /\ server' = [server EXCEPT !.vbars[server.vbar_cursor] = full,
                                 !.vbar_cursor = (@ + 1) % VBarSize,
                                 !.shorts[server.short_vbar_cursor] = short,
                                 !.short_vbar_cursor = (@ + 1) % ShortVBarSize]
     /\ IF reading THEN StoreVBar(pixels) /\ StoreShortVBar(short)
        ELSE UNCHANGED <<vbar_storage, vbar_cursor, short_vbar_storage, short_vbar_cursor>>
     /\ in_step' = (in_step /\ reading)
     /\ agreed' = IF reading
                  THEN [agreed EXCEPT !.vbars = @ \cup {server.vbar_cursor},
                                      !.shorts = @ \cup {server.short_vbar_cursor}]
                  ELSE [agreed EXCEPT !.vbars = @ \ {server.vbar_cursor},
                                      !.shorts = @ \ {server.short_vbar_cursor}]
     /\ UNCHANGED reading

EndBands ==
  /\ pc = "bands" /\ ~InBand
  /\ pc' = "subcodecs"
  /\ UNCHANGED <<contextVars, message, band, reading, tile, server, picture,
                 damaged, in_step, agreed, sound, missed, sent, columns>>

(* An entry of the subcodec layer; want is what the server encoded in it.   *)
Subcodec(sub) ==
  LET decoded == SubcodecPixels(sub)
  IN /\ pc = "subcodecs"
     /\ pc' = "compose"
     /\ picture' = PaintAt(picture, message.w, sub.x, sub.y, sub.w, sub.want)
     /\ tile' = IF reading /\ decoded.ok
                THEN PaintAt(tile, message.w, sub.x, sub.y, sub.w, decoded.out) ELSE tile
     /\ reading' = (reading /\ decoded.ok)
     /\ UNCHANGED <<contextVars, message, band, server, damaged, in_step, agreed,
                    sound, missed, sent, columns>>

StoreGlyph(g) == glyph_cache' = [glyph_cache EXCEPT ![g] = tile]

(* The layers are through: the tile is drawn, and cached as a glyph.        *)
Compose ==
  LET g == message.glyph
  IN /\ pc \in {"subcodecs", "compose"}
     /\ pc' = IF reading THEN "painted" ELSE "failed"
     /\ IF reading /\ g # NoGlyph THEN StoreGlyph(g) ELSE UNCHANGED glyph_cache
     /\ server' = IF g = NoGlyph THEN server ELSE [server EXCEPT !.glyphs[g] = picture]
     /\ agreed' = [agreed EXCEPT !.glyphs = IF g # NoGlyph /\ sound
                                            THEN @ \cup {g} ELSE @ \ {g}]
     /\ UNCHANGED <<seq_number, vbar_storage, short_vbar_storage, vbar_cursor,
                    short_vbar_cursor, message, band, reading, tile, picture,
                    damaged, in_step, sound, missed, sent, columns>>

(* decompress returns; what it kept for this message alone is gone.         *)
Return ==
  /\ pc \in {"painted", "failed"}
  /\ pc' = "idle"
  /\ message' = NoMessage
  /\ band' = NoBand
  /\ tile' = <<>> /\ picture' = <<>>
  /\ reading' = FALSE /\ damaged' = FALSE /\ sound' = FALSE
  /\ UNCHANGED <<contextVars, server, in_step, agreed, missed, sent, columns>>

-----------------------------------------------------------------------------
NewServer ==
  [seq |-> 0, glyphs |-> [g \in GlyphIds |-> <<>>],
   vbars |-> [i \in VBarIndex |-> <<>>], shorts |-> [i \in ShortVBarIndex |-> <<>>],
   vbar_cursor |-> 0, short_vbar_cursor |-> 0]

(* ClearCodecContext::new, with a server that begins with this connection   *)
(* or one that has served another before.                                   *)
Init ==
  /\ seq_number = NoSeq
  /\ glyph_cache = [g \in GlyphIds |-> <<>>]
  /\ vbar_storage = [i \in VBarIndex |-> <<>>]
  /\ short_vbar_storage = [i \in ShortVBarIndex |-> <<>>]
  /\ vbar_cursor = 0 /\ short_vbar_cursor = 0
  /\ pc = "idle"
  /\ message = NoMessage
  /\ band = NoBand
  /\ tile = <<>> /\ picture = <<>>
  /\ reading = FALSE /\ damaged = FALSE /\ sound = FALSE
  /\ in_step \in BOOLEAN
  /\ server \in IF in_step THEN {NewServer} ELSE OldServers
  /\ agreed = [vbars |-> {}, shorts |-> {}, glyphs |-> {}]
  /\ missed = 0 /\ sent = 0 /\ columns = 0

Next ==
  \/ \E m \in Headers : NotDecoded(m) \/ SequenceGap(m) \/ BeginMessage(m)
  \/ GlyphHit
  \/ \E runs \in Residuals : Residual(runs)
  \/ \E b \in Bands : BeginBand(b)
  \/ \E i \in VBarIndex : VBarHit(i)
  \/ \E i \in ShortVBarIndex, offset \in Offsets : ShortHit(i, offset)
  \/ \E v \in ShortVBars : ShortMiss(v.offset, v.pixels)
  \/ EndBands
  \/ \E sub \in Subcodecs : Subcodec(sub)
  \/ Unreadable \/ Compose \/ Return

Spec == Init /\ [][Next]_clearVars

-----------------------------------------------------------------------------
(* Properties *)

(* As long as every V-Bar sent since the cursors were last reset was        *)
(* decoded, the client's cursors are the server's and the entries written   *)
(* since are equal: a cache miss, a glyph that cannot be drawn, and a       *)
(* message that is lost or unreadable but stores no V-Bar cost nothing that *)
(* follows, and a reset brings both together whatever was lost before.      *)
CachesInStep ==
  in_step =>
    /\ vbar_cursor = server.vbar_cursor
    /\ short_vbar_cursor = server.short_vbar_cursor
    /\ \A i \in agreed.vbars : vbar_storage[i] = server.vbars[i]
    /\ \A i \in agreed.shorts : short_vbar_storage[i] = server.shorts[i]

(* A message that refers only to what both have cached is drawn, layer over *)
(* layer, as the server composed it: bands over residual, subcodecs over    *)
(* bands, a V-Bar at another height than it was stored with, a glyph in     *)
(* another shape.                                                           *)
PaintsWhatWasSent == pc = "painted" /\ sound => tile = picture

(* A cache entry the client does not have makes no message fail that has    *)
(* layers: only a message damaged on its way does, or a glyph that has      *)
(* nothing else to draw and that the client was never sent whole.           *)
MissesAreNotFatal ==
  [][pc' = "failed" /\ pc # "failed" =>
       damaged \/ (pc = "hit" /\ message.glyph \notin agreed.glyphs)]_clearVars

(* The next message is taken exactly if none, or a multiple of all sequence *)
(* numbers, was missed since the last one taken: after one lost message     *)
(* nothing is decoded until 255 more are, and losing 256 goes unnoticed.    *)
TakenUnlessMissed ==
  seq_number # NoSeq => (InSequence(server.seq) <=> missed % SeqModulus = 0)
=============================================================================
