----------------------------- MODULE GfxPromise -----------------------------
(***************************************************************************)
(* What the server is promised.  GfxState's actions, each run beside a     *)
(* statement of what its PDU asks for, pixel by pixel, written without     *)
(* loops, buffers or array indices.  promised holds the pixels every       *)
(* surface and cache slot should have after the last PDU, given what they  *)
(* had before it.  RDP is a delta protocol: a pixel that differs is wrong  *)
(* until something else is painted over it, so a difference must at least  *)
(* have been reported.                                                     *)
(***************************************************************************)
EXTENDS GfxState

CONSTANT NoColor   \* asked for, but nothing can show it

ASSUME NoColorAssumption == NoColor \notin Colors

VARIABLE promised  \* pixel -> colour

promiseVars == <<gfxVars, promised>>

-----------------------------------------------------------------------------
(* Pixel <<plane, id, x, y>> is a pixel of a surface or of a cached rect. *)
PlanePixels(plane, f) ==
  LET keys == UNION { {plane} \X {id} \X (0 .. f[id].width - 1)
                              \X (0 .. f[id].height - 1) : id \in DOMAIN f }
  IN  [k \in keys |-> f[k[2]].pixels[k[4] * f[k[2]].width + k[3]]]

(* What f shows, and what g shows where f has nothing. *)
Over(f, g) ==
  [k \in DOMAIN f \cup DOMAIN g |-> IF k \in DOMAIN f THEN f[k] ELSE g[k]]

Pixels == Over(PlanePixels("surface", surfaces), PlanePixels("cache", cache))

Gone(plane, id) ==
  [k \in {q \in DOMAIN Pixels : ~(q[1] = plane /\ q[2] = id)} |-> Pixels[k]]

Covers(x, y, w, h, k) == k[3] \in x .. x + w - 1 /\ k[4] \in y .. y + h - 1

Area(s, x, y, w, h) ==
  {"surface"} \X {s} \X (x .. x + w - 1) \X (y .. y + h - 1)

(* The colour of pixel (x, y) of surface s before the PDU. *)
ColorAt(s, x, y) ==
  LET k == <<"surface", s, x, y>>
  IN  IF k \in DOMAIN Pixels THEN Pixels[k] ELSE NoColor

(* Something is asked for that cannot be named. *)
Unknown == Over([k \in {<<"unknown">>} |-> NoColor], Pixels)

-----------------------------------------------------------------------------
PromiseFill(s, rects, c) ==
  Over([k \in UNION { Area(s, r.left, r.top, RectWidth(r), RectHeight(r)) :
                        r \in Range(rects) } |-> c],
       Pixels)

(* Every destination point receives the source as it was; where two         *)
(* destinations overlap, the later one is on top.                           *)
PromiseCopies(d, pts, w, h, source(_, _)) ==
  LET covering(k) ==
        {n \in DOMAIN pts : Covers(pts[n][1], pts[n][2], w, h, k)}
      top(k) == CHOOSE n \in covering(k) : \A m \in covering(k) : m <= n
      under  == UNION {Area(d, pts[n][1], pts[n][2], w, h) : n \in DOMAIN pts}
  IN  Over([k \in under |->
              source(k[3] - pts[top(k)][1], k[4] - pts[top(k)][2])],
           Pixels)

PromiseSurfaceCopy(s, r, d, pts) ==
  PromiseCopies(d, pts, RectWidth(r), RectHeight(r),
                LAMBDA x, y : ColorAt(s, r.left + x, r.top + y))

PromiseCacheCopy(slot, s, pts) ==
  IF slot \notin DOMAIN cache THEN Unknown
  ELSE LET img == cache[slot]
       IN  PromiseCopies(s, pts, img.width, img.height,
                         LAMBDA x, y : img.pixels[y * img.width + x])

PromiseCache(s, r, slot) ==
  Over([k \in {"cache"} \X {slot} \X (0 .. RectWidth(r) - 1)
                        \X (0 .. RectHeight(r) - 1) |->
          ColorAt(s, r.left + k[3], r.top + k[4])],
       Gone("cache", slot))

(* Each tile shows, inside the damage rects, what the server's own copy of  *)
(* it shows; a block that cannot be decoded still asked for something.      *)
PromiseRegion(s, x0, y0, region) ==
  LET tiles == region.tiles
      cells(n) ==
        {k \in Area(s, x0 + tiles[n].x * TileSize, y0 + tiles[n].y * TileSize,
                    TileSize, TileSize) :
           \E r \in Range(region.rects) :
             Covers(x0 + r.x, y0 + r.y, r.w, r.h, k)}
      top(k) == CHOOSE n \in DOMAIN tiles :
                  k \in cells(n) /\ \A m \in DOMAIN tiles :
                                      k \in cells(m) => m <= n
  IN  IF \E n \in DOMAIN tiles : tiles[n].kind \in {"bad", "cut"}
      THEN Unknown
      ELSE Over([k \in UNION {cells(n) : n \in DOMAIN tiles} |->
                   tiles[top(k)].color],
                Pixels)

-----------------------------------------------------------------------------
PromiseInit == Init /\ promised = <<>>

PromiseNext ==
  \/ /\ \/ \E size \in Desktops : ResetGraphics(size)
        \/ EndFrame
        \/ Uneventful
        \/ ReturnActions
     /\ promised' = Pixels
  \/ RejectedPdu /\ promised' = Unknown
  \/ \E slot \in CacheSlots :
       EvictCacheEntry(slot) /\ promised' = Gone("cache", slot)
  \/ \E s \in SurfaceIds :
       \/ \E size \in Sizes :
            /\ CreateSurface(s, size)
            /\ promised' = Over([k \in Area(s, 0, 0, size[1], size[2]) |-> Black],
                                Gone("surface", s))
       \/ DeleteSurface(s) /\ promised' = Gone("surface", s)
       \/ \E o \in Origins :
            MapSurfaceToOutput(s, o) /\ promised' = Pixels
       \/ \E rects \in RectLists, c \in Colors :
            SolidFill(s, rects, c) /\ promised' = PromiseFill(s, rects, c)
       \/ \E slot \in CacheSlots, pts \in PointLists :
            /\ CacheToSurface(slot, s, pts)
            /\ promised' = PromiseCacheCopy(slot, s, pts)
       \/ \E region \in Regions :
            /\ WireToSurface2(s, region)
            /\ promised' = PromiseRegion(s, 0, 0, region)
       \/ \E r \in Rects :
            \/ \E c \in Colors :
                 /\ WireToSurface1(s, r, c)
                 /\ promised' = PromiseFill(s, <<r>>, c)
            \/ WireToSurface1Undecodable(s, r) /\ promised' = Unknown
            \/ \E region \in Regions :
                 /\ WireToSurface1Progressive(s, r, region)
                 /\ promised' = PromiseRegion(s, r.left, r.top, region)
            \/ \E d \in SurfaceIds, pts \in PointLists :
                 /\ SurfaceToSurface(s, r, d, pts)
                 /\ promised' = PromiseSurfaceCopy(s, r, d, pts)
            \/ \E slot \in CacheSlots :
                 /\ SurfaceToCache(s, r, slot)
                 /\ promised' = PromiseCache(s, r, slot)

PromiseSpec == PromiseInit /\ [][PromiseNext]_promiseVars

-----------------------------------------------------------------------------
(* An update that is not applied exactly, copies with overlaps, several     *)
(* destinations, clipping and deltas included, is reported, or counted by   *)
(* the progressive decoder as a delta or an upgrade without a baseline.     *)
(* The latter is the one exception to "every path that declines to apply a  *)
(* server update reports" (gfxstate.rs:13-15).                              *)
AppliedOrAccountedFor == reported \/ skipped \/ Pixels = promised

=============================================================================
