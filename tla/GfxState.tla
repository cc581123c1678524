------------------------------ MODULE GfxState ------------------------------
(***************************************************************************)
(* The MS-RDPEGFX surface state machine (client/src/gfxstate.rs): the      *)
(* surfaces, the bitmap cache, the output mapping, the tile baselines of   *)
(* the RemoteFX Progressive decoder, and one action per graphics PDU.      *)
(* Every action is one call of GfxState::apply.                            *)
(*                                                                         *)
(* The HashMaps of the code are functions whose domain is the set of keys  *)
(* present.  A bitmap payload is a colour.  A tile baseline is not its     *)
(* coefficients but whether they still describe the surface they are       *)
(* filed under: TRUE when the baseline was decoded for the present         *)
(* geometry of that surface, FALSE for one left over from an earlier       *)
(* geometry.  A delta on a left-over baseline decodes to Garbage.          *)
(* The debug overlays, the tint tags and current_frame_id (which only      *)
(* labels log lines) are left out.                                         *)
(***************************************************************************)
EXTENDS Surface, Sequences, SequencesExt

CONSTANTS
  SurfaceIds,    \* surface ids the server uses
  CacheSlots,    \* bitmap cache slots the server uses
  Sizes,         \* <<width, height>> of the surfaces it creates
  Rects,         \* RectU16 records it sends, inverted ones among them
  RectLists,     \* the fillRects sequences of SOLID_FILL
  PointLists,    \* the destPts sequences of the copying PDUs
  Origins,       \* <<x, y>> output origins of MAP_SURFACE_TO_OUTPUT
  Desktops,      \* <<width, height>> of RESET_GRAPHICS
  Regions,       \* progressive regions, [tiles, rects]
  TileSize,      \* the edge of a progressive tile, 64 in the code
  Garbage,       \* the colour of a delta decoded on a left-over baseline
  MaxFrames      \* bound on END_FRAMEs

ASSUME GfxAssumption ==
  /\ Garbage \in Colors
  /\ MaxFrames \in Nat
  /\ TileSize \in Nat \ {0}

(* What PDUs and regions are made of: sizes and places, RectU16, the tile   *)
(* blocks of a progressive region and its damage rects.  All are unsigned.  *)
Points == Nat \X Nat
Rectangles == [left : Nat, top : Nat, right : Nat, bottom : Nat]
Blocks == [kind : {"first", "diff", "upgrade", "bad", "cut"},
           x : Nat, y : Nat, color : Colors]
Damage == [x : Nat, y : Nat, w : Nat, h : Nat]

ASSUME PduAssumption ==
  /\ Sizes \cup Origins \subseteq Points
  /\ Rects \subseteq Rectangles
  /\ RectLists \subseteq Seq(Rectangles)
  /\ PointLists \subseteq Seq(Points)
  /\ Regions \subseteq [tiles : Seq(Blocks), rects : Seq(Damage)]

VARIABLES
  surfaces,        \* SurfaceManager.surfaces: surface id -> image
  cache,           \* SurfaceManager.cache: slot -> image
  output_map,      \* sequence of [id, origin]
  desktop,         \* desktop size, as last reset
  tile_baseline,   \* progressive decoder: [id, x, y] -> BOOLEAN
  frames_decoded,  \* END_FRAMEs applied
  saw_content,     \* some PDU has painted
  actions,         \* the GfxActions apply_message has collected so far
  reported,        \* the last PDU went through gfx_error!
  skipped          \* the last PDU raised only a without-baseline counter

gfxVars == <<surfaces, cache, output_map, desktop, tile_baseline,
             frames_decoded, saw_content, actions, reported, skipped>>

-----------------------------------------------------------------------------
(* HashMap::insert and HashMap::remove. *)
Put(f, k, v) == [x \in DOMAIN f \cup {k} |-> IF x = k THEN v ELSE f[x]]
Without(f, k) == [x \in DOMAIN f \ {k} |-> f[x]]

(* What is left of a sequence when the elements at these indices are kept:  *)
(* what SelectSeq does, stated without recursion.                           *)
Nth(S, k) == CHOOSE i \in S : Cardinality({j \in S : j <= i}) = k
Kept(seq, keep) == [k \in 1 .. Cardinality(keep) |-> seq[Nth(keep, k)]]

(* A mutant of RetainOthers: the old mapping stays. *)
RetainAll(map, s) == map

(* Vec::retain, on the output mappings of the other surfaces. *)
RetainOthers(map, s) == Kept(map, {k \in DOMAIN map : map[k].id # s})

(* A loop over 1 .. n: what it makes of start, step by step. *)
Loop(step(_, _), start, n) ==
  LET after[k \in 0 .. n] == IF k = 0 THEN start ELSE step(after[k - 1], k)
  IN  after[n]

Live(s) == s \in DOMAIN surfaces

(* Mutants of ResetSurface and ResetAll: the baselines stay. *)
ResetNoSurface(tb, s) == tb
ResetNothing(tb) == tb

(* ProgressiveContext::reset_surface and reset_all. *)
ResetSurface(tb, s) == [k \in {q \in DOMAIN tb : q.id # s} |-> tb[k]]
ResetAll(tb) == <<>>

(* Not code: what a change of geometry does to the meaning of baselines     *)
(* filed under the surfaces ids.                                            *)
Aged(tb, ids) == [k \in DOMAIN tb |-> tb[k] /\ k.id \notin ids]

(* The flags of a PDU that has been applied without complaint. *)
Quiet == reported' = FALSE /\ skipped' = FALSE
Report == reported' = TRUE /\ skipped' = FALSE

-----------------------------------------------------------------------------
(* Output geometry and surface lifetimes *)

ResetGraphics(size) ==
  /\ desktop' = size
  /\ output_map' = <<>>
  /\ tile_baseline' = Aged(ResetAll(tile_baseline), SurfaceIds)
  /\ Quiet
  /\ UNCHANGED <<surfaces, cache, frames_decoded, saw_content, actions>>

CreateSurface(s, size) ==
  /\ tile_baseline' = Aged(ResetSurface(tile_baseline, s), {s})
  /\ surfaces' = Put(surfaces, s, NewSurface(size[1], size[2]))
  /\ Quiet
  /\ UNCHANGED <<cache, output_map, desktop, frames_decoded, saw_content,
                 actions>>

DeleteSurface(s) ==
  /\ surfaces' = Without(surfaces, s)
  /\ tile_baseline' = Aged(ResetSurface(tile_baseline, s), {s})
  /\ output_map' = RetainOthers(output_map, s)
  /\ reported' = ~Live(s) /\ skipped' = FALSE
  /\ UNCHANGED <<cache, desktop, frames_decoded, saw_content, actions>>

(* A surface that does not exist is reported, and mapped all the same. *)
MapSurfaceToOutput(s, o) ==
  /\ output_map' = Append(RetainOthers(output_map, s),
                          [id |-> s, origin |-> o])
  /\ reported' = ~Live(s) /\ skipped' = FALSE
  /\ UNCHANGED <<surfaces, cache, desktop, tile_baseline, frames_decoded,
                 saw_content, actions>>

(* A mutant of EndFrame: numbered before the frame is counted. *)
EndFrameNumberedEarly ==
  /\ frames_decoded < MaxFrames
  /\ frames_decoded' = frames_decoded + 1
  /\ actions' = Append(actions, frames_decoded)
  /\ Quiet
  /\ UNCHANGED <<surfaces, cache, output_map, desktop, tile_baseline,
                 saw_content>>

EndFrame ==
  /\ frames_decoded < MaxFrames
  /\ frames_decoded' = frames_decoded + 1
  /\ actions' = Append(actions, frames_decoded + 1)
  /\ Quiet
  /\ UNCHANGED <<surfaces, cache, output_map, desktop, tile_baseline,
                 saw_content>>

(* CAPS_CONFIRM, START_FRAME, which only labels what follows, and           *)
(* DELETE_ENCODING_CONTEXT, which leaves the baselines alone on purpose.    *)
Uneventful ==
  /\ Quiet
  /\ UNCHANGED <<surfaces, cache, output_map, desktop, tile_baseline,
                 frames_decoded, saw_content, actions>>

-----------------------------------------------------------------------------
(* A PDU that paints surface s with the image painted.  ok says whether     *)
(* every part of it could be applied.                                       *)
Paint(s, painted, ok) ==
  /\ surfaces' = [surfaces EXCEPT ![s] = painted]
  /\ saw_content' = TRUE
  /\ reported' = ~ok
  /\ UNCHANGED <<cache, output_map, desktop, frames_decoded, actions>>

(* An update that is reported and discarded. *)
Discard ==
  /\ Report
  /\ UNCHANGED <<surfaces, cache, output_map, desktop, tile_baseline,
                 frames_decoded, saw_content, actions>>

(* A PDU that does not parse (SplitEntry::Failed), one without a handler    *)
(* (GfxPdu::Other), and WIRE_TO_SURFACE_2 with a codec it may not carry.    *)
RejectedPdu == Discard

(* WIRE_TO_SURFACE_1 with a decodable bitmap of colour c: the uncompressed  *)
(* codec and ClearCodec both end in one blit of the destination rect.       *)
WireToSurface1(s, r, c) ==
  IF Inverted(r) \/ ~Live(s)
  THEN Discard
  ELSE LET src == Solid(RectWidth(r), RectHeight(r), c)
       IN  /\ Paint(s, BlitRect(surfaces[s], r.left, r.top, src),
                    Complete(Outcome(surfaces[s], r.left, r.top,
                                     src.width, src.height)))
           /\ skipped' = FALSE
           /\ UNCHANGED tile_baseline

(* The same with a payload too short, a ClearCodec stream that fails or a   *)
(* codec that is not implemented: nothing is drawn, the surface is still    *)
(* counted as painted.                                                      *)
WireToSurface1Undecodable(s, r) ==
  IF Inverted(r) \/ ~Live(s)
  THEN Discard
  ELSE Paint(s, surfaces[s], FALSE) /\ skipped' = FALSE
       /\ UNCHANGED tile_baseline

FillAll(img, rects, c) ==
  LET fill(i, r) == IF Inverted(r) THEN i
                    ELSE FillRect(i, r.left, r.top, RectWidth(r),
                                  RectHeight(r), c)
  IN  Loop(LAMBDA i, k : fill(i, rects[k]), img, Len(rects))

SolidFill(s, rects, c) ==
  IF ~Live(s)
  THEN Discard
  ELSE /\ Paint(s, FillAll(surfaces[s], rects, c),
                \A k \in DOMAIN rects :
                  LET r == rects[k]
                  IN  /\ ~Inverted(r)
                      /\ Complete(Outcome(surfaces[s], r.left, r.top,
                                          RectWidth(r), RectHeight(r))))
       /\ skipped' = FALSE
       /\ UNCHANGED tile_baseline

BlitAll(img, pts, src) ==
  Loop(LAMBDA i, k : BlitRect(i, pts[k][1], pts[k][2], src), img, Len(pts))

BlitsComplete(img, pts, src) ==
  \A k \in DOMAIN pts :
    Complete(Outcome(img, pts[k][1], pts[k][2], src.width, src.height))

(* A mutant of SurfaceToSurface: the source is read anew for every          *)
(* destination, after the earlier ones have been written.                   *)
SurfaceToSurfaceInPlace(s, r, d, pts) ==
  IF Inverted(r) \/ ~Live(s) \/ ~Live(d)
  THEN Discard
  ELSE LET w == RectWidth(r)
           h == RectHeight(r)
           copy(img, k) ==
             BlitRect(img, pts[k][1], pts[k][2],
                      ExtractRect(IF s = d THEN img ELSE surfaces[s],
                                  r.left, r.top, w, h))
       IN  /\ Paint(d, Loop(copy, surfaces[d], Len(pts)),
                    /\ Complete(Outcome(surfaces[s], r.left, r.top, w, h))
                    /\ BlitsComplete(surfaces[d], pts, Solid(w, h, Black)))
           /\ skipped' = FALSE
           /\ UNCHANGED tile_baseline

(* The source is extracted before the destination is touched. *)
SurfaceToSurface(s, r, d, pts) ==
  IF Inverted(r) \/ ~Live(s) \/ ~Live(d)
  THEN Discard
  ELSE LET w   == RectWidth(r)
           h   == RectHeight(r)
           src == ExtractRect(surfaces[s], r.left, r.top, w, h)
       IN  /\ Paint(d, BlitAll(surfaces[d], pts, src),
                    /\ Complete(Outcome(surfaces[s], r.left, r.top, w, h))
                    /\ BlitsComplete(surfaces[d], pts, src))
           /\ skipped' = FALSE
           /\ UNCHANGED tile_baseline

SurfaceToCache(s, r, slot) ==
  IF Inverted(r) \/ ~Live(s)
  THEN Discard
  ELSE LET w == RectWidth(r)
           h == RectHeight(r)
       IN  /\ cache' = Put(cache, slot,
                           ExtractRect(surfaces[s], r.left, r.top, w, h))
           /\ reported' = ~Complete(Outcome(surfaces[s], r.left, r.top, w, h))
           /\ skipped' = FALSE
           /\ UNCHANGED <<surfaces, output_map, desktop, tile_baseline,
                          frames_decoded, saw_content, actions>>

CacheToSurface(slot, s, pts) ==
  IF ~Live(s) \/ slot \notin DOMAIN cache
  THEN Discard
  ELSE /\ Paint(s, BlitAll(surfaces[s], pts, cache[slot]),
                BlitsComplete(surfaces[s], pts, cache[slot]))
       /\ skipped' = FALSE
       /\ UNCHANGED tile_baseline

(* Evicting a slot that was never populated is harmless. *)
EvictCacheEntry(slot) ==
  /\ cache' = Without(cache, slot)
  /\ Quiet
  /\ UNCHANGED <<surfaces, output_map, desktop, tile_baseline,
                 frames_decoded, saw_content, actions>>

-----------------------------------------------------------------------------
(* RemoteFX Progressive.  A region is [tiles, rects]; a tile block is       *)
(* [kind, x, y, color] at grid position (x, y), with kind                   *)
(*   "first"    a tile that stands on its own and becomes the baseline,     *)
(*   "diff"     a delta on the baseline,                                    *)
(*   "upgrade"  more bits for the baseline,                                 *)
(*   "bad"      a block that does not decode,                               *)
(*   "cut"      a block whose length is invalid: no later block is found.   *)
(* color is what the server's own copy of the tile shows after the block.   *)

TileKey(s, t) == [id |-> s, x |-> t.x, y |-> t.y]

(* decode_region's loop finds no block after one whose length is invalid. *)
Found(tiles) ==
  {k \in DOMAIN tiles : \A j \in 1 .. k : tiles[j].kind # "cut"}

(* The baselines decode_tile files for the blocks before the k-th. *)
Filed(s, tiles, k) ==
  {TileKey(s, tiles[j]) :
     j \in {i \in Found(tiles) : i < k /\ tiles[i].kind = "first"}}

(* decode_tile on a difference and decode_tile_upgrade need one. *)
HasBaseline(s, tiles, k) ==
  TileKey(s, tiles[k]) \in DOMAIN tile_baseline \cup Filed(s, tiles, k)

IsDelta(t) == t.kind \in {"diff", "upgrade"}

(* The blocks that end in pending_tiles, and those skipped with a counter.  *)
Pending(s, tiles) ==
  {k \in Found(tiles) :
     \/ tiles[k].kind = "first"
     \/ IsDelta(tiles[k]) /\ HasBaseline(s, tiles, k)}

Skipped(s, tiles) ==
  \E k \in Found(tiles) : IsDelta(tiles[k]) /\ ~HasBaseline(s, tiles, k)

TileColor(s, tiles, k) ==
  LET key == TileKey(s, tiles[k])
  IN  IF \/ tiles[k].kind = "first"
         \/ key \in Filed(s, tiles, k)
         \/ tile_baseline[key]
      THEN tiles[k].color
      ELSE Garbage

TileX(t, origin) == origin[1] + t.x * TileSize
TileY(t, origin) == origin[2] + t.y * TileSize

(* A tile whose corner is off the surface is rejected, not clamped. *)
TileInside(img, t, origin) ==
  TileX(t, origin) < img.width /\ TileY(t, origin) < img.height

Larger(a, b) == IF a > b THEN a ELSE b
Smaller(a, b) == IF a < b THEN a ELSE b

(* The part of tile t that lies in the damage rect r. *)
Overlap(t, r, origin) ==
  LET x0 == Larger(TileX(t, origin), origin[1] + r.x)
      y0 == Larger(TileY(t, origin), origin[2] + r.y)
      x1 == Smaller(TileX(t, origin) + TileSize, origin[1] + r.x + r.w)
      y1 == Smaller(TileY(t, origin) + TileSize, origin[2] + r.y + r.h)
  IN  [x |-> x0, y |-> y0, w |-> Larger(x1 - x0, 0), h |-> Larger(y1 - y0, 0)]

(* composite_region_rects: every pending tile, clipped to every rect. *)
PaintTile(img, t, rects, origin, c) ==
  LET fill(i, o) == FillRect(i, o.x, o.y, o.w, o.h, c)
  IN  Loop(LAMBDA i, m : fill(i, Overlap(t, rects[m], origin)),
           img, Len(rects))

Composite(s, region, origin) ==
  LET tiles == region.tiles
      paint(i, k) ==
        IF k \in Pending(s, tiles) /\ TileInside(i, tiles[k], origin)
        THEN PaintTile(i, tiles[k], region.rects, origin,
                       TileColor(s, tiles, k))
        ELSE i
  IN  Loop(paint, surfaces[s], Len(tiles))

CompositeComplete(s, region, origin) ==
  \A k \in Pending(s, region.tiles) :
    /\ TileInside(surfaces[s], region.tiles[k], origin)
    /\ \A m \in DOMAIN region.rects :
         LET o == Overlap(region.tiles[k], region.rects[m], origin)
         IN  Complete(Outcome(surfaces[s], o.x, o.y, o.w, o.h))

(* ProgressiveContext::decompress_at for one region. *)
Progressive(s, origin, region) ==
  LET tiles == region.tiles
      filed == Filed(s, tiles, Len(tiles) + 1)
  IN  /\ Paint(s, Composite(s, region, origin),
               /\ \A k \in DOMAIN tiles : tiles[k].kind \notin {"bad", "cut"}
               /\ CompositeComplete(s, region, origin))
      /\ tile_baseline' = [key \in DOMAIN tile_baseline \cup filed |->
                             key \in filed \/ tile_baseline[key]]
      /\ skipped' = Skipped(s, tiles)

(* WIRE_TO_SURFACE_2 has no destination rect. *)
WireToSurface2(s, region) ==
  IF ~Live(s) THEN Discard ELSE Progressive(s, <<0, 0>>, region)

(* The same codec in WIRE_TO_SURFACE_1 is relative to the destination rect. *)
WireToSurface1Progressive(s, r, region) ==
  IF Inverted(r) \/ ~Live(s)
  THEN Discard
  ELSE Progressive(s, <<r.left, r.top>>, region)

-----------------------------------------------------------------------------
(* GfxState::present_tiles: a whole-surface tile for each mapped surface    *)
(* that exists, in mapping order; nothing before any PDU has painted.       *)
PresentTiles ==
  IF ~saw_content THEN <<>>
  ELSE LET shown == Kept(output_map, {k \in DOMAIN output_map :
                                        Live(output_map[k].id)})
       IN  [k \in DOMAIN shown |-> [origin |-> shown[k].origin,
                                    image |-> surfaces[shown[k].id]]]

-----------------------------------------------------------------------------
(* The state machine on its own: any PDU, in any order. *)

Init ==
  /\ surfaces = <<>>
  /\ cache = <<>>
  /\ output_map = <<>>
  /\ desktop \in Desktops
  /\ tile_baseline = <<>>
  /\ frames_decoded = 0
  /\ saw_content = FALSE
  /\ actions = <<>>
  /\ reported = FALSE
  /\ skipped = FALSE

(* apply_message returns and its caller takes the collected actions. *)
ReturnActions ==
  /\ actions # <<>>
  /\ actions' = <<>>
  /\ UNCHANGED <<surfaces, cache, output_map, desktop, tile_baseline,
                 frames_decoded, saw_content, reported, skipped>>

(* GfxState::apply *)
Apply ==
  \/ \E size \in Desktops : ResetGraphics(size)
  \/ EndFrame
  \/ Uneventful
  \/ RejectedPdu
  \/ \E slot \in CacheSlots : EvictCacheEntry(slot)
  \/ \E s \in SurfaceIds :
       \/ \E size \in Sizes : CreateSurface(s, size)
       \/ DeleteSurface(s)
       \/ \E o \in Origins : MapSurfaceToOutput(s, o)
       \/ \E r \in Rects :
            \/ \E c \in Colors : WireToSurface1(s, r, c)
            \/ WireToSurface1Undecodable(s, r)
            \/ \E region \in Regions : WireToSurface1Progressive(s, r, region)
            \/ \E d \in SurfaceIds, pts \in PointLists :
                 SurfaceToSurface(s, r, d, pts)
            \/ \E slot \in CacheSlots : SurfaceToCache(s, r, slot)
       \/ \E rects \in RectLists, c \in Colors : SolidFill(s, rects, c)
       \/ \E slot \in CacheSlots, pts \in PointLists :
            CacheToSurface(slot, s, pts)
       \/ \E region \in Regions : WireToSurface2(s, region)

Next == Apply \/ ReturnActions

Spec == Init /\ [][Next]_gfxVars

-----------------------------------------------------------------------------
(* Type invariant. *)
TypeOK ==
  /\ DOMAIN surfaces \subseteq SurfaceIds
  /\ \A s \in DOMAIN surfaces : IsImage(surfaces[s])
  /\ DOMAIN cache \subseteq CacheSlots
  /\ \A slot \in DOMAIN cache : IsImage(cache[slot])
  /\ output_map \in Seq([id : SurfaceIds, origin : Origins])
  /\ desktop \in Desktops
  /\ \A k \in DOMAIN tile_baseline :
       k.id \in SurfaceIds /\ tile_baseline[k] \in BOOLEAN
  /\ frames_decoded \in 0 .. MaxFrames
  /\ actions \in Seq(1 .. MaxFrames)
  /\ {saw_content, reported, skipped} \subseteq BOOLEAN

(* A tile baseline is only ever kept for a surface that exists, and only    *)
(* while it describes the surface's present geometry: reusing a surface id  *)
(* or resetting the output must leave none behind (gfxstate.rs:197-212,     *)
(* 224-227).  Every delta decoded on a left-over baseline would be wrong.   *)
BaselinesCurrent ==
  \A k \in DOMAIN tile_baseline : Live(k.id) /\ tile_baseline[k]

(* However often surfaces are mapped, moved, deleted, re-created and reset, *)
(* no surface is presented twice: each output region is one surface's, and  *)
(* a surface has one origin (gfxstate.rs:62-66, 240-241).                   *)
MappedOnce ==
  \A j, k \in DOMAIN output_map :
    output_map[j].id = output_map[k].id => j = k

(* The END_FRAMEs collected for the session are the latest ones, in order,  *)
(* each with the running total it is acknowledged with.                     *)
ActionsAreLatestFrames ==
  \A k \in DOMAIN actions :
    actions[k] = frames_decoded - Len(actions) + k

=============================================================================
