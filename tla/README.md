# A TLA+ model of rdp-client

`rdp-client` (the crate in `client/`) is a Linux client for Windows Remote
Desktop: it signs in with Entra ID, connects, opens the MS-RDPEGFX graphics
channel, decodes the graphics stream into surfaces and shows them in a window.
RDP is a delta protocol: the server sends an update once and never again. An
update that is lost, applied in the wrong order or shown too early is not a
dropped frame but a permanently wrong region of the screen. The models here are
about that: what is applied, in which order, what reaches the screen, and what
happens when two threads, a slow window or a failing message get in the way.

## 1. Inventory

Two threads run in the process. The **main thread** runs the winit event loop
(`window::run`); a **session thread** (`session::run_session`), spawned by
`main`, does everything else. They share a mailbox (frames, one way; a closed
flag, the other) and an mpsc queue (user input). When `window::run` returns,
`main` returns, and the session thread ends with the process wherever it is.

| Component | Source | State | Operations | What makes it correct |
|---|---|---|---|---|
| Surfaces | `surface.rs` | pixels per surface, bitmap cache | fill, extract, blit, create, delete, cache, evict | a write touches the rect's pixels and no others, and reports what it clipped |
| Graphics state machine | `gfxstate.rs`, `gfx.rs` | surfaces, cache, output mapping, desktop, frame counter, decoders | one per graphics PDU; `apply_message`; `present_tiles` | each PDU has exactly its effect or is reported; mappings are unique; frames are numbered |
| RemoteFX Progressive | `progressive.rs` | a baseline per surface and tile position | first, simple, difference and upgrade tiles; regions; resets | a delta is only ever added to the tile it was made from; one bad tile costs only itself |
| ClearCodec | `clearcodec.rs`, `nscodec.rs` | sequence number, glyph cache, two V-Bar rings with cursors | one message | caches and cursors move in step with the server's |
| ZGFX | `zgfx.rs` | a ring of 2,500,000 bytes and a write count | one message: literals, matches, errors | the output is the text the server compressed; nothing after an error |
| Mailbox and window | `window.rs` | slot, closed flag; framebuffer, redraw request, cursor | publish, take, close; poll, blit, grow, present, resize, input events | the newest snapshot is shown, nothing older replaces it |
| Graphics loop | `session.rs` 464-494 | where the loop is, pending actions | closed check, receive, decompress, apply, acknowledge, publish | one acknowledgement per frame, in order; the loop ends with the window |
| Channel routing | `session.rs` 27-156, `vchannel.rs`, `dvc.rs` | reassembly buffers, wanted and open channels, queued data | three receive loops (I/O, open, data), DVC messages | messages reach their channel complete and in order; no loop waits for what has already come |
| Handshake | `session.rs` 246-460, `mcs.rs`, `x224.rs`, `rds_aad.rs`, `license.rs`, `capabilities.rs`, `gcc.rs`, `client_info.rs`, `tls.rs`, `errinfo.rs` | the step reached | connect, join channels, licence, Demand Active, finalization | the order of MS-RDPBCGR; no input before finalization |
| User input | `input.rs` | the queue of events | flush on every read timeout | events are sent in order, once, when the session may |
| Access tokens | `aad/` | a token, a proof-of-possession key | authorization code, token, nonce, assertion | each step in its order, and an error ends the attempt |
| Credential cache | `aad_auto/cache.rs`, `onepassword.rs` | a key file and a file per 1Password item, shared by all runs of the program | load, save, fetch | what one run has saved the next can read, whatever happened in between |
| Browser login | `aad_auto/browser.rs`, `mod.rs`, `totp.rs` | a browser process, the wait it is in | automated login, fallback to the user | it ends, with its browser closed, and never declines the consent it needs |
| Record and replay | `record.rs`, `replay.rs`, `bin/replay.rs` | a file | append, read | the replay drives the same `apply_message` |

How they interact: `run_session` calls the routing to receive a message, ZGFX to
decompress it, `GfxState::apply_message` to apply it, and for each END_FRAME
this returns it sends an acknowledgement through the routing and publishes
`present_tiles` in the mailbox. `GfxState` calls the decoders, which write to
its surfaces. The window thread takes the newest snapshot out of the mailbox at
most every 16 ms, blits it into its framebuffer and asks the window system for a
redraw, which copies the framebuffer to the screen. In the other direction the
window thread queues input events, which the session thread sends whenever a
read times out.

What is hard here: (a) the mailbox drops snapshots on purpose, which is right
only if the newer one covers the older; (b) a message may hold several frames
and parts of frames, and is applied as a whole before any of its frames is
acted on; (c) decoder state outlives messages, surfaces and frames, and has to
be dropped at exactly the right moments; (d) a failure half way through a
message leaves state behind; (e) channels are opened by the server, at a time of
its choosing, across three receive loops; (f) input is sent from inside reads;
(g) the decoders' caches and tiles have to follow copies the server keeps, of which
nothing is ever said on the wire; (h) runs of the program share files that nothing
locks, and may die between two writes; (i) a page moves on between a look at it
and the click, or never answers.
`PROJECT.json` lists each of these as a hazard at its line.

## 2. Plan

1. Surfaces, the graphics state machine and Progressive tiles (`Surface`,
   `GfxState`), with a promise beside it (`GfxPromise`). *Done.*
2. Message to screen: graphics loop, mailbox, window (`Presentation`), the
   abstract relay it implements (`FrameRelay`), the pixels the user sees
   (`PresentedPixels`). *Done.*
3. ZGFX's ring (`Zgfx`) as an implementation of an endless text (`ZgfxText`).
   *Done.*
4. Proofs for 1-3. *Done for the theorems in section 6.*
5. Channel routing (`Dvc`, `ChannelRouter`) with the pipe it promises
   (`GraphicsPipe`). *Done.*
6. The byte stream, the order of the handshake and user input (`Transport`).
   *Done.*
7. ClearCodec with its layers against the server's copy of its caches
   (`TileLayers`, `ClearCodec`). *Done.*
8. A Progressive tile down to its coefficients (`ProgressiveBits`,
   `ProgressiveWavelet`, `ProgressiveTile`), ZGFX's bits (`ZgfxStream`), the
   credential files and the login (`CredentialCache`, `BrowserLogin`, `SignIn`).
   *Done.*
9. The credential files, the login and the ClearCodec caches, proved
   (`SignIn_proofs`, `ClearCodec_proofs`). *Done.*
10. Proofs for 5 and 6 (`ChannelRouter_proofs`, `Transport_proofs`), type
    correctness of `GfxState` and `Presentation`, what the screen shows
    (`Presentation_proofs`) and the promise of every PDU (`GfxPromise_proofs`).
    *Done.*
11. The bits of ZGFX, proved: decoding undoes encoding, and what was proved of the
    ring holds of what is decoded (`Zgfx_proofs`). *Done.*
12. The layers of ClearCodec, proved: what the loops over runs and suites make of a
    stream, and with it that a tile shows what was composed (`ClearCodec_proofs`).
    *Done.*
13. Proofs about the coefficients of a Progressive tile (`TileHoldsWhatWasSent`).
    *Open*, see the end of section 6.

Abstract specifications worth stating: the pixels a PDU asks for (`GfxPromise`),
a relay of frames (`FrameRelay`), a shared text (`ZgfxText`), a
reliable pipe for the routing (`GraphicsPipe`), and the server's copy of the
decoder state for ClearCodec.
Theorems worth proving: every safety invariant of the runs, and the refinements'
safety parts.

## 3. The modules

**`Surface`** has no state. It translates `surface.rs` down to array indices:
an image is a width, a height and a row-major array of colours, and `FillRect`,
`ExtractRect` and `BlitRect` compute the same indices as the code, clip where
its loops break, and report `Outcome` as its `WriteOutcome` does. A pixel is a
colour from a small set; Black is zeroed memory.

**`GfxState`** has one action per PDU, each the whole of the matching arm of
`GfxState::apply`: the early returns are `Discard`, the `gfx_error!` calls set
`reported`. `actions` is the vector `apply_message` collects. The progressive
decoder is in `Progressive`: `Found`, `Filed` and `Pending` say which tile
blocks of a region are found, become baselines and are composited, and
`Composite` paints them clipped to the damage rects. A baseline is here not its
coefficients (they are in `ProgressiveTile`) but whether they still describe the surface they are filed under
(`Aged` ages them, in the same step in which the code drops them or ought to);
a delta on an aged baseline paints `Garbage`. `skipped` records that a delta
without a baseline was passed over, which the code counts and does not report.
`source_truncated` is left out: the callers check the length of a payload first,
and a cached rect has its own size. A loop over rectangles, points or tiles is
`Loop`, a function of how many rounds have been made; `Vec::retain` is `Kept`, the
k-th smallest of the indices that stay. `Points`, `Rectangles`, `Blocks` and
`Damage` are the types of what PDUs are made of, all unsigned, as in the code.

**`GfxPromise`** runs beside each action of `GfxState` a statement of what the
PDU asks for, pixel by pixel and without arrays, loops or order: `promised`. The
pixels of all surfaces and cached rectangles are one function there, and what is
asked for is laid `Over` it.

**`FrameRelay`** is what the user is promised of frames. **`Presentation`**
composes `GfxState` with the graphics loop, the mailbox and the window. The
session thread's program counter is `pc`; each step between two of its accesses
to shared state, or to the network, is an action. A message is as many PDUs as
the server likes up to `MaxPdus`; they are chosen when they are applied, which
nobody can tell from choosing them on arrival. `Redraw` may happen at any time,
since the window system asks for one when it likes. Numbers of snapshots
(`published`, `queued`, `drawn`, `shown`), `failed` and `late` are history: no guard reads
them. **`PresentedPixels`** adds what would be on the screen had no snapshot ever
been overwritten (`every`) and whether each overwritten one was covered
(`lossless`).

**`Zgfx`** is the ring buffer, one step per byte; a token is what it asks for (a
byte, a match, an error), not its bits. Any byte may be a literal, and every
distance and count of the constants may be asked for, wrong ones included.
**`ZgfxText`** is the shared text it implements. **`ZgfxStream`** puts the bits in
front of it: messages of segments, plain or in the code of `TOKEN_TABLE`, read by
the bit reader and decoded to the steps of `Zgfx`. The encoder is the server's and
external; what it may send includes codes of no row, lengths that are too long and
segments that lost their last byte.

**`TileLayers`** has the pure parts of a ClearCodec tile: run lengths, the residual
layer, RLEX and NSCodec, each over a stream of fields. What writes such a stream is the
server's and external (`ResidualCode`, `RlexCode` in `ClearCodec`): any division of the
picture into runs, and any row of suites, those that go on beyond the end of the
tile included. **`ClearCodec`** runs the decoder beside the server's encoder, a column of a band at a time: headers, cache
resets, glyphs, the two rings of V-Bars with their cursors, layers. A message may not reach
the decoder (its surface is gone), be refused (its sequence number does not
follow), or turn out unreadable half way; the server goes on in each case, since it
cannot know. Several things the model shows are worth knowing. A sequence number is
refused without being adopted, so after one lost message everything is refused
until 255 more have been sent (`TakenUnlessMissed`). A message that fails after
its header has had its number adopted, but leaves the cursors behind the server's
until the next reset. A lost reset does the same. And a glyph slot keeps
its earlier picture when the message that should have replaced it fails, so that a
later hit paints the old one.

**`ProgressiveBits`**, **`ProgressiveWavelet`** and **`ProgressiveTile`** are one
tile of the Progressive decoder with its coefficients: RLGR1, SRL and raw bits; the
ten subbands, both inverse transforms, colours; first, difference and upgrade
passes with quantization and sign tracking. Next to each decoding step stands the
encoder of the specification, external, so that what a client should hold is known.
A tile has 8 by 8 samples rather than 64 by 64: three levels of the transform then
still have at least one sample each, and the layouts, line ends and mirrorings are
computed by the same formulas. The block headers of the stream are in `GfxState`'s
`Progressive` (which tiles, in which order, what a failure costs).

**`CredentialCache`** is the cache directory with several runs of the program at
work in it. A file is created empty and filled in a second step (`write_private`),
and nothing is locked: a run may die between the two, or another read in between.
Any step on a file may fail. If it is a creation or a write, the run ends (`Cut`); a read that
fails counts as no file, so that the credentials are fetched again (`LoadBlob`) or
another key takes the place of the one on disk (`ReadKey`). A key is a number, a sealed file its key and its credentials. **`BrowserLogin`** is
one login: the calls to the page, one at a time, the sleeps between them, and the page,
which changes on its own some time after a click. Time is counted in polls; the
timeout around a login ends a call that does not return, and cuts off a wait that
is still within its own limit. **`SignIn`** composes them with the order of
`acquire_rdp_access_token`. Runs share only the files, so the single steps of a
login are followed in behaviours with one run at a time (`followed`); where runs
overlap, only how a login ends is said.

**`Dvc`** holds the operators of `ChannelDemux` and `DvcManager`: what a chunk or a
message makes of the state, what is written back, which events it yields. A
static-channel message is the pieces of a PDU, so that pieces put together wrongly
do not read as one. **`ChannelRouter`** is the one reader with its three loops, and
the phases of `run_session` that use them, from the licence to the graphics loop;
`pc` says which read the thread is in. `recv_dvc_data` purges its queue before it
blocks: `Purged` is part of every read in that loop, which no other actor can tell
apart. `run_session` uses one connection and blocks in one read at a time, so an
action is one MCS message. The server is not in the code: it is the part of the
module called so, which keeps to the order of the I/O conversation and is free in
everything about dynamic channels, including closing the graphics channel, opening
it again under the same id or another, and sending data on channels it knows to be
declined (whose ids it does not use again then). **`GraphicsPipe`** is what the graphics loop is promised.

**`Transport`** is the layer below: bytes, the two framings that follow each other
on one stream, the order of the handshake (`Script`), and the input that is sent
from inside the reads. `Complete` leaves open whether a message is accepted: every
reader of the handshake may refuse its content. A server's object is `Balanced`:
its quotes, backslashes and braces are counted as sets of places, not by a machine
that could make the reader's mistakes with it. The dynamic channels are left out
here, as the bytes are in `ChannelRouter`.

`MC*.tla` hold the small alphabets; the `.cfg` of the same name, or of the run's,
gives them to TLC. Operators described as mutants in their comments are not part
of the model: each is a plausible bug of one definition, named in `PROJECT.json`
with the property that it breaks.

## 4. The runs

| Run | Question | Bounds, and why they are enough |
|---|---|---|
| `gfx_copies` | Does every PDU that draws have exactly its effect, or is it reported? (`AppliedOrAccountedFor`, `TypeOK`) | two surfaces, of 2x2 (two rows: a row copied too long shows) or 3x1 (a copy that overlaps its source without being clipped); one cache slot, two colours; rects inside, over the edge and inverted; two destinations, the first of which may be the source |
| `gfx_tiles` | Is a delta ever painted from the wrong baseline, and do baselines and mappings stay consistent? (`AppliedOrAccountedFor`, `BaselinesCurrent`, `MappedOnce`) | two surfaces of one or two tiles, every kind of block alone and behind another; deletion, re-creation with another size, mapping and reset in any order |
| `presentation` | What the server sees of the graphics loop, when it ends, and whether the newest frame reaches the screen (`AcknowledgedInOrder`, `ActionsAreLatestFrames`, `StopsAfterClose`, `LatestWins`, `RelaySpec` with its liveness, `PresentationTypeOK`) | three frames and two PDUs per message, so that a message has two frames, or a frame and a change after it, and one frame can be overwritten while another is in the framebuffer; presenting may fail at any time |
| `pixels` | Does the screen show what was published? (`NothingLostWhileCovered`) | two surfaces at two origins of which one is outside the window, so that the framebuffer grows with content in it; presentation may fail; two frames |
| `zgfx` | Is the output the text that was compressed, from the bits on? (`TokensAsEncoded`, `HistoryIsRecentText`, `NeverReadsUnwritten`, `TextSpec`, `TypeOK`) | each row of the token table with its longest value behind another token, so that it begins at a bit that is no byte's first; pairs of tokens in one segment and in two; runs, empty and not; a ring of three bytes, which wraps within a message |
| `router` | Do two conversations over one connection disturb each other, does the graphics loop get exactly its messages, is every request answered, and does finalization end? (`IoAccountedFor`, `OffersAnswered`, `PendingBounded`, `GraphicsPiped` with its liveness, `EveryOfferAnswered`, `FinalizationEnds`) | two ids, two names, two requests: for two channels, for the graphics channel twice under two ids, or twice under one after a CLOSE; two messages, as one PDU or two, in one chunk or two; two messages for a declined channel and a limit of none (64 in the code), so that the purge happens with more to come; one I/O message out of order |
| `transport` | Do the readers hand over what was sent, does the handshake end, and does input go out in order and at all? (`ReadsWhatWasSent`, `FramingHolds`, `InputInOrder`, `HandshakeEnds`, `InputSent`, `TransportTypeOK`) | objects that nest, with a brace in a string and an escaped quote; packets whose body looks like filler or a header; NUL or nothing behind an object; any pieces; two input events, one packet after the handshake |
| `clearcodec` | Does the client draw what the server composed, though no message says what its caches hold? (`CachesInStep`, `PaintsWhatWasSent`, `TakenUnlessMissed`, `MissesAreNotFatal`) | three messages: with a reset, with a glyph, with a hit on it in another shape; two columns over bands of one row or two, so that a V-Bar is used again at another height; rings of two; two sequence numbers, so that they wrap; a run too long for the tile and one for a byte, an RLEX entry half off it, an NSCodec one with RLE; a server as old as the connection or older |
| `tile` | Does a tile hold what was sent of the picture, and show it in the end? (`TileHoldsWhatWasSent`, `LastBitShowsThePicture`, `TileTypeOK`) | three passes out of whole tiles, differences and upgrades, in either transform, at four qualities of which one is coarse in one component, and two that cannot be used; two pictures with an edge, a line and a dot |
| `signin` | Are cached credentials refused only for a reason, is consent given, and does every run end? (`RefusedOnlyIfDisturbed`, `ConsentGranted`, `EveryRunEnds`, `SignInTypeOK`) | two runs at once and three in all, so that one comes after two that raced; reads that fail at any time; two items with a file each and one key; one change of passwords; waits of one to three polls, chosen so that the inner waits add up to more than the outer timeout |

Two runs show a disagreement between the code and what its comments say; each is
a finding in `PROJECT.json`.

* `pixels_lost`: "superseding an unconsumed full snapshot loses nothing"
  (`window.rs:304`), but a snapshot covers only the surfaces mapped when it is
  taken. What does hold is `NothingLostWhileCovered`.
* `router_declined`: `recv_io` claims to process and queue dynamic-channel traffic
  that comes between its messages (`session.rs:87`), but the request for the
  graphics channel is declined there, and the client waits for it later.

More disagreements have no run, because no property here turns on them or the
model leaves them out:

* `decode_tile` skips a delta without a baseline with `Ok`, against "Nothing is
  dropped silently" (`gfxstate.rs:13`; `AppliedOrAccountedFor` allows it as the one
  exception), and it files a baseline before the tile is rejected for lying outside
  the surface, against "bounded by the surface's tile grid" (`progressive.rs:1391`).
* Tiles presented are "all from the same frame" (`window.rs:301`), but PDUs behind
  an END_FRAME in the same message are applied before its snapshot is taken.
* Fast-path input requires that finalization is complete (`session.rs:413`), but
  every read of the handshake that times out sends what is queued (`input.rs:141`).
* A V-Bar the cache does not have is said to fall back to the background
  (`clearcodec.rs:253`) and is painted black.
* The refusal of a channel is sent as -2147024896, which is 0x80070000 and not the
  0x80004005 its comment names (`dvc.rs:129`); the models only tell a refusal from an
  acceptance.
* The history of ZGFX is called 64 KB (`session.rs:473`) and has 2,500,000 bytes.
* The outer timeout of a login is a backstop for a browser that "became
  unresponsive" (`browser.rs:17`, `browser.rs:690`), but the inner waits add up to more than it
  allows, so that it also ends a login that makes progress (`OuterTimeout`).
* Consent must not be declined (`browser.rs:508`), and it is when the page moves on
  from "Stay signed in?" between the look at its text and the click
  (`ConsentGranted` says that this is the only way).
* The key is "generated on first use" (`cache.rs:14`), but also whenever a read of it
  fails (`cache.rs:51`), and it then replaces the key that the credentials on disk are sealed
  with. `RefusedOnlyIfDisturbed` counts this among the reasons of a refusal.
  Likewise, `load` returns `None` "when nothing is cached yet" (`cache.rs:85`) and for a
  file it cannot read.
* `launch` and the `op` command run outside every timeout; a `launch` that fails
  leaves its profile directory; items whose names differ only in characters that
  `sanitize` replaces share a file (`cache.rs:35`), which the run excludes.
* Data of a declined channel stays queued and would be read as graphics if the
  server later gave its id to the graphics channel; the server of the model does not.

All bounds are named: `MaxFrames`, `MaxPdus`, `MaxText`, `MaxWire`,
`MaxMessages`, `MaxOffers`, `MaxStray`, `MaxNoise`, `PendingLimit`, `MaxInput`,
`MaxActive`, `MaxColumns`, `MaxPasses`, `MaxStarts`, `MaxChanges`, `MaxFollowed`, the
four of the login in polls (`LoginPolls`, `FallbackPolls`, `ManualPolls`,
`SlackPolls`) and the sets of
the alphabets. Deadlock is not checked where the system may stop: a server that
sends nothing more, a session that has failed, a window that is closed.

## 5. Fairness

`PresentationSpec` assumes weak fairness of `Poll` and of a requested `Redraw`,
nothing else. `about_to_wait` sets `ControlFlow::WaitUntil` 16 ms ahead on every
pass, so the event loop polls again and again while it runs; and winit delivers a
redraw that was requested. The session thread is not fair: the server need not
send anything, and a message may never end. The two conditions are weak because
neither can be disabled by the other thread for good: a newer snapshot
leaves the slot full, and a requested redraw stays requested until it is done or
fails. After a failure nothing is promised until the next snapshot is drawn, since
the code does not ask again (`Refuse` and `Retry` of `FrameRelay`).

`ChannelRouter` assumes that the client reads while there is something to read,
since the thread does nothing else, and that the server finishes a message it has
begun to send. Everything else the server may leave undone.

`Transport` assumes that bytes on their way are read, that the server answers what
it is asked, and that a read with nothing under way times out (`READ_TIMEOUT`,
30 ms, set on the socket before the first read). It does not assume that a read
ever times out while bytes keep coming: in the code none need, and then no input
is sent. `InputSent` holds because the server of the model falls silent after
`MaxActive` packets; it says nothing of a server that never does.

`SignIn` assumes that a run goes on as long as it can, and with it that `op` and
`launch` return, which nothing in the code bounds. Nothing is assumed of the page, the
user or the browser: a call may hang, a page may never come.

## 6. What is proved

The proofs are in the eight modules whose names end in `_proofs`. They hold for
every value of the constants that satisfies the named assumptions: that PDUs are
made of unsigned numbers (`PduAssumption`, `PresentationAssumption`), that bounds
are natural numbers and names for "none" are not among the things named
(`ColorsAssumption`, `NoColorAssumption`, `GfxAssumption`, `ZgfxAssumption`,
`RouterAssumption`, `CacheAssumption`, `SignInAssumption`, `ClearAssumption`), that an
entry of ClearCodec's subcodec layer is one its codec can stand for (`SubcodecAssumption`), that
the server frames its messages well (`TransportAssumption`: balanced objects,
packets whose length fits their header), and that the wait for the code before the
fallback, 15 s, is not longer than a login's, 60 s (`LoginAssumption`).

* **Baselines** (`BaselinesStayCurrent`) and **mappings** (`SurfacesMappedOnce`)
  are inductive together with their types. The one step that needs an argument
  is `Vec::retain`: `RetainOthers` is stated without recursion, as the k-th
  smallest of the indices that stay (`Nth`), and `NthProperties` shows by a least
  counterexample that there is one for every k.
* **Images** (`SurfacesStayImages`): each primitive of `Surface` makes an image of
  an image, whatever is clipped (`FillRectImage`, `BlitRectImage`,
  `ExtractRectImage`), since the indices it computes stay inside (`IndexInside`) and are those of one
  pixel each (`IndexUnique`); so do the loops over them (`FillAllImage`,
  `BlitAllImage`, `CompositeImage`), and with them every PDU (`ApplyImages`).
  `PresentationTypes` carries this on to tiles, framebuffer and screen.
* **The promise of a PDU** (`UpdatesAppliedOrAccountedFor`). First, what a loop
  leaves in one pixel is what its last round that touched it painted (`LastWins`),
  which is stated for each loop without the loop (`FillAllAt`, `BlitAllAt`,
  `PaintTileAt`, `CompositeAt`). Second, a write that clipped nothing lies inside
  the surface (`CompleteInside`), so that what was asked for and what was painted
  are the same pixels. Third, to change one image is to lay its new pixels over
  the function of all pixels, to replace or to remove one is to leave out its old
  ones (`Repainted`, `Replaced`, `Removed`). The copies of a surface onto itself
  are right because the source is extracted first. A delta is right because its
  baseline is current, so `BaselinesStayCurrent` is part of the invariant.
* **Acknowledgements** (`FramesAcknowledgedInOrder`) need a strengthening: the
  numbers in `actions` are the last of `frames_decoded` (`ActionsStayLatest`), and
  as long as the session runs, those acknowledged and those waiting together are
  all of them.
* **The mailbox** (`MailboxLatestWins`): the number in the slot, the number drawn
  and the number shown are ordered, and a snapshot is drawn or shown late only if
  it is in the slot, a redraw is owed or the last one failed. **Closing** (`SessionStopsAfterClose`): the
  invariant says where the session may be when `late` is still 0.
* **The relay** (`PresentationImplementsRelay`): every step maps to a step of
  `FrameRelay` or to a stutter, using the mailbox invariant.
* **What the screen shows** (`NothingIsLost`): the snapshot in the mailbox, drawn
  over the framebuffer, gives what every snapshot ever published would have given
  (`PixelInv`). This is kept when a snapshot is overwritten because the
  older one lies within the newer (`OverlayTwice`), when one is taken because the
  loop over its tiles draws exactly that overlay (`BlitTilesOverlay`), and when the
  framebuffer grows because growing moves no pixel (`GrowKeeps`).
* **Framing** (`WholeMessages`, `FramingAccepted`): the bytes read and those on
  their way are the outstanding messages laid one behind the other with NULs in
  between (`Laid`, in `ReadInv`), and in the middle of an object the reader's
  state is what its bytes so far make it (`RightAfter`: the depth is the number of braces opened less
  those closed, outside of strings). `CountingStep` shows that a byte keeps that
  so. From it the object ends for the reader where it ends for the server. Input
  (`InputKeepsOrder`): what is written and what is queued are the numbers up to
  `typed`, in order (`InputInv`). `TransportTypes` follows from both.
* **Channel routing**. A chunk means one thing after another chunk and another
  alone, so what is under way is described by what it does: the
  messages on the wire are a path of steps, from the place in the conversation
  where the client is to the one where the server is (`Path`, `Way` in `WayInv`).
  The server adds a step at the far end (`PathExtend`), the client takes the first
  (`PathTail`), and `FeedStep` and `HandleMove` show that `feed` and
  `handle_message` do what that step says, whichever of the three loops reads. From
  this, answers and offers stand one for one in the server's order
  (`AnswersFollowOffers`), the messages of the open channel come whole and in order
  (`RouterIsPipe`, a refinement of `GraphicsPipe`'s steps), the queue stays
  within the limit of its purge and one more (`QueueStaysShort`), and no I/O
  message is lost (`IoNeverLost`, by counting).
* **The ring** (`HistoryStaysRecent`): a write moves one cell, and two indices
  less than `HistorySize` apart never share one (`ModDistinct`). From this,
  `CopyReads` shows that the byte a match reads is the one `distance` back in the
  text, which gives `CopiesOnlyWrittenBytes` and the refinement
  `ZgfxImplementsText`. These are about `Zgfx`, where any token may come.
* **The bits of ZGFX** (`StreamDecodesWhatWasEncoded`): for every message of segments
  and tokens, the decoder yields what was encoded. Four facts make it up. The codes
  are prefix-free (`PrefixFree`), shown from the numbers of `TOKEN_TABLE`'s forty
  rows, so that at a place of any bits at most one thing is decoded (`OneKind`). Every
  distance up to the farthest has a row (`SomeRowReaches`) and every length its ones
  (`SomeOnes`), and the code of a token is decoded to that token and to its own
  end, wherever it begins (`TokenDecodedLiteral`, `TokenDecodedMatch`,
  `TokenDecodedRun`). What is decoded depends on no bits behind its end
  (`LiteralLocal` and its likes), so that a segment cut short goes wrong only
  where it ends. And each token is encoded right behind the one before (`TokenShows`).
  The invariant (`ReadInv`) is that the reader is where the last token decoded ends
  and all decoded are those encoded; or inside a run, with the bytes so far; or,
  in a segment that was cut, beyond its bits with all but the last token
  right. No token's code is empty (`IsCode`), so the bits cannot run out before
  the tokens do (`AllDecoded`).
  With the same invariant every step on bits is a step of the ring with
  a byte or with a match of a positive length (`StreamStep`), and so the theorems about the
  ring hold of the specification that `zgfx` runs (`StreamTypes`,
  `StreamHistoryStaysRecent`, `StreamCopiesOnlyWrittenBytes`,
  `StreamImplementsText`). That bytes are 0 to 255 is assumed (`StreamAssumption`),
  and that messages consist of segments the server can encode (`MessagesAssumption`),
  bits that are no token included.
* **The credential files** (`RefusedOnlyWithReason`): that what is read can be decrypted
  takes three facts at once, each of which needs the others (`CacheInv`). A run that generates a key
  while there is one on disk, or while another run generates one, is recorded (in `clashing`),
  so that any other makes its key where there is none (`KeyMadeOnce`). A file that is neither disturbed nor
  being written is absent or sealed with the key on disk, and whoever works with
  such a file holds that key (`FilesMatchKey`). A key that takes the place of another
  breaks the second, but then every file there is or will be is disturbed (`MadeAgainIs`).
* **Consent** (`ConsentNeverDeclined`): a look that found "Stay signed in?" is still true at
  the click unless the page moved in between (`LookHolds`).
* **Bounds of a login** (`LoginsStayInBounds`): fields are waited for in the
  automated login only, whose longest wait the others do not exceed, and between
  two logins nothing is being waited for (`Timed`); keys and editions only grow
  (`Generated`).
* **The ClearCodec caches** (`CachesStayInStep`) are inductive with their types, given that
  a short V-Bar composed over the background is the column the server means
  (`ComposedAsWanted`). **Sequence numbers** (`OnlyMissesAreRefused`): the server's is as far
  ahead of the client's as messages were missed (`NumbersApart`), and counting on
  by k comes back to the same number only for multiples of the modulus (`ModSame`).
* **The picture of a ClearCodec tile** (`PaintsAsComposed`). The layers of RLE are decoded to
  what was encoded, for streams of any length. The bytes of a stream are its codes laid end to end
  (`Joined`), and at the place of code j the decoder reads code j (`ReadsPart`). So
  after j rounds the loop stands behind code j, with the pixels up to there
  (`Behind`, `PastSuites`), and at the end with all of them, cut off where the tile ends
  (`SuiteDrawn`): `ResidualDecoded` and `RlexDecoded`. What makes a suite come out
  right is that a byte's two numbers, the index and the depth, come apart again
  whatever the size of the palette (`BaseIs`). For the bands, a column of V-Bars
  is the one the server means (`VBarAsWanted`), as long as the caches are in step. The
  invariant is that while the message is sound the tile composed so far is the
  picture meant so far, and that a glyph both sides hold is the same picture
  (`TileAgrees` and `GlyphsAgree` in `PaintInv`); the second carries the first over
  to hits on glyphs in later messages. `MissesStayHarmless` follows from the same types.
  Assumed is that an entry of the subcodec layer is raw, a row of
  suites or NSCodec (`SubcodecAssumption`). NSCodec loses detail, so what is meant by such an
  entry is what its decoder makes of it: nothing is shown of its planes.

Where a proof needs induction, over the rounds of a loop, the elements of a list or the
bytes of a message, it is by a least counterexample among the numbers up to the last
(`NatMinimum`, `UpTo`, `LoopFunction` in `GfxState_proofs`, `Zgfx_proofs` and
`ClearCodec_proofs`), over a set rather than a
predicate, which is what the provers can instantiate.

Only model-checked:

* All liveness, since the provers have no rule for fairness: that of `RelaySpec` and
  `GraphicsPiped` (their safety parts are `PresentationImplementsRelay` and
  `RouterIsPipe`), `EveryOfferAnswered`, `FinalizationEnds`, `HandshakeEnds`,
  `InputSent`, `EveryRunEnds`.
* `TileTypeOK`, `TileHoldsWhatWasSent` and `LastBitShowsThePicture` of `ProgressiveTile`.
  The codes of ZGFX and the layers of ClearCodec stand one behind the other, each to be
  read by itself; the codes of a Progressive tile adapt to what went before them, and its
  coefficients go through three levels of wavelets that round.
* The planes of NSCodec: what `clearcodec` shows of them is one entry, with one plane
  in RLE and two as they are.

## 7. What is not modelled

* The bytes of every format: PDU bodies, TPKT, X.224, MCS, GCC, capability sets,
  tokens. What a parse failure does is modelled, what causes it is not.
* The tail of a tile block and the region's other lists, which the code reads and
  does not use; a surface's tiles all at once with their coefficients (`GfxState` has
  the tiles, `ProgressiveTile` the coefficients).
* The legacy bitmap decoder (`bitmap.rs`): dead code with no callers, as `capabilities.rs:292` says.
* Recording and replay: appending to a file and reading it back.
* Debugging aids (overlays, tints, tracing, `RDP_DEBUG_STRICT`, which turns every
  report into a panic) and statistics.
* `Resized`: the window keeps its size. In the code the presentation buffer
  follows the window, and `present` leaves what lies beyond the framebuffer as it
  is.
* `NetworkDriver::desktop_size`: always 1280x800, whatever was negotiated.
* HTTP requests and their bodies, the computation of a TOTP (a code is right or
  refused), how an element is found visible, where a window is placed, the
  diagnostics of a failed login.
* Theorems about liveness, and about what the Progressive decoder and NSCodec compute
  of every stream (the end of section 6).
