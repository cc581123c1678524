-------------------------- MODULE GfxPromise_proofs --------------------------
(***************************************************************************)
(* That what the server is promised is kept (GfxPromise): every PDU that   *)
(* is neither reported nor counted as skipped leaves exactly the pixels it *)
(* asked for, for surfaces of any size and whatever overlaps or clipping.  *)
(*                                                                         *)
(* The pixels of all surfaces and cached rectangles are one function, and  *)
(* what a PDU asks for is laid over it (Over).  So each proof has two      *)
(* parts: what the loops of the code leave in each pixel of one image      *)
(* (FillAllAt, BlitAllAt, CompositeAt), from GfxState_proofs' lemmas about *)
(* the primitives; and that changing one image changes that function by    *)
(* those pixels and no others (Repainted, Replaced, Removed).              *)
(***************************************************************************)
EXTENDS GfxPromise, GfxState_proofs

-----------------------------------------------------------------------------
(* Functions, and one laid over another.                                    *)
IsFunction(f) == f = [k \in DOMAIN f |-> f[k]]

LEMMA SameFunction ==
  ASSUME NEW f, NEW g, IsFunction(f), IsFunction(g), DOMAIN f = DOMAIN g,
         \A k \in DOMAIN f : f[k] = g[k]
  PROVE  f = g
PROOF
  BY DEF IsFunction

LEMMA OverKeys ==
  ASSUME NEW f, NEW g
  PROVE  /\ IsFunction(Over(f, g))
         /\ DOMAIN Over(f, g) = DOMAIN f \cup DOMAIN g
         /\ \A k \in DOMAIN f : Over(f, g)[k] = f[k]
         /\ \A k \in DOMAIN g \ DOMAIN f : Over(f, g)[k] = g[k]
PROOF
  BY DEF Over, IsFunction

-----------------------------------------------------------------------------
(* The pixels of given surfaces and cached rectangles.                      *)
PixelsOf(sf, ca) == Over(PlanePixels("surface", sf), PlanePixels("cache", ca))

(* Pixel k is pixel (k[3], k[4]) of the image f[k[2]].                      *)
Names(k, plane, f) ==
  /\ k = <<plane, k[2], k[3], k[4]>>
  /\ k[2] \in DOMAIN f
  /\ k[3] \in 0 .. f[k[2]].width - 1
  /\ k[4] \in 0 .. f[k[2]].height - 1

LEMMA PlaneKeys ==
  ASSUME NEW plane, NEW f
  PROVE  /\ \A k : k \in DOMAIN PlanePixels(plane, f) <=> Names(k, plane, f)
         /\ \A k \in DOMAIN PlanePixels(plane, f) :
              PlanePixels(plane, f)[k] = At(f[k[2]], k[3], k[4])
PROOF
<1> DEFINE keys == UNION { {plane} \X {id} \X (0 .. f[id].width - 1)
                              \X (0 .. f[id].height - 1) : id \in DOMAIN f }
<1>1. ASSUME NEW k
      PROVE  k \in keys <=> Names(k, plane, f)
  <2>1. ASSUME k \in keys PROVE Names(k, plane, f)
    <3>1. PICK id \in DOMAIN f : k \in {plane} \X {id} \X (0 .. f[id].width - 1)
                              \X (0 .. f[id].height - 1)
      BY <2>1
    <3> QED BY <3>1 DEF Names
  <2>2. ASSUME Names(k, plane, f) PROVE k \in keys
    <3>1. k \in {plane} \X {k[2]} \X (0 .. f[k[2]].width - 1)
                              \X (0 .. f[k[2]].height - 1)
      BY <2>2 DEF Names
    <3> QED BY <2>2, <3>1 DEF Names
  <2> QED BY <2>1, <2>2
<1>2. PlanePixels(plane, f) = [k \in keys |-> f[k[2]].pixels[k[4] * f[k[2]].width + k[3]]]
  BY DEF PlanePixels
<1> HIDE DEF keys
<1> QED BY <1>1, <1>2 DEF At

LEMMA PixelKeys ==
  ASSUME NEW sf, NEW ca
  PROVE  /\ IsFunction(PixelsOf(sf, ca))
         /\ \A k : k \in DOMAIN PixelsOf(sf, ca) <=>
                     Names(k, "surface", sf) \/ Names(k, "cache", ca)
         /\ \A k : /\ Names(k, "surface", sf) =>
                        /\ k[1] = "surface"
                        /\ PixelsOf(sf, ca)[k] = At(sf[k[2]], k[3], k[4])
                   /\ Names(k, "cache", ca) =>
                        /\ k[1] = "cache"
                        /\ PixelsOf(sf, ca)[k] = At(ca[k[2]], k[3], k[4])
PROOF
<1> DEFINE a == PlanePixels("surface", sf)
           b == PlanePixels("cache", ca)
<1>1. /\ \A k : k \in DOMAIN a <=> Names(k, "surface", sf)
      /\ \A k \in DOMAIN a : a[k] = At(sf[k[2]], k[3], k[4])
  BY PlaneKeys
<1>2. /\ \A k : k \in DOMAIN b <=> Names(k, "cache", ca)
      /\ \A k \in DOMAIN b : b[k] = At(ca[k[2]], k[3], k[4])
  BY PlaneKeys
<1>3. \A k : /\ Names(k, "surface", sf) => k[1] = "surface"
             /\ Names(k, "cache", ca) => k[1] = "cache"
  BY DEF Names
<1>4. PixelsOf(sf, ca) = Over(a, b)
  BY DEF PixelsOf
<1> HIDE DEF a, b
<1>5. /\ IsFunction(Over(a, b))
      /\ DOMAIN Over(a, b) = DOMAIN a \cup DOMAIN b
      /\ \A k \in DOMAIN a : Over(a, b)[k] = a[k]
      /\ \A k \in DOMAIN b \ DOMAIN a : Over(a, b)[k] = b[k]
  BY OverKeys
<1> QED BY <1>1, <1>2, <1>3, <1>4, <1>5

-----------------------------------------------------------------------------
(* One surface is drawn on: the pixels that g has change to what g says.    *)
LEMMA Repainted ==
  ASSUME NEW sf, NEW ca, NEW s \in DOMAIN sf, NEW w \in Nat, NEW h \in Nat,
         sf[s] \in ImagesOf(w, h), NEW painted \in ImagesOf(w, h), NEW g,
         \A k \in DOMAIN g : /\ k = <<"surface", s, k[3], k[4]>>
                             /\ k[3] \in 0 .. w - 1 /\ k[4] \in 0 .. h - 1,
         \A x \in 0 .. w - 1, y \in 0 .. h - 1 :
           At(painted, x, y) = IF <<"surface", s, x, y>> \in DOMAIN g
                               THEN g[<<"surface", s, x, y>>]
                               ELSE At(sf[s], x, y)
  PROVE  PixelsOf([sf EXCEPT ![s] = painted], ca) = Over(g, PixelsOf(sf, ca))
PROOF
<1> DEFINE sf2 == [sf EXCEPT ![s] = painted]
           old == PixelsOf(sf, ca)
           new == PixelsOf(sf2, ca)
           want == Over(g, old)
<1>1. /\ DOMAIN sf2 = DOMAIN sf
      /\ sf2[s] = painted
      /\ \A id \in DOMAIN sf : id # s => sf2[id] = sf[id]
  OBVIOUS
<1>2. /\ sf[s].width = w /\ sf[s].height = h
      /\ painted.width = w /\ painted.height = h
  BY DEF ImagesOf
<1> HIDE DEF sf2
<1>3. \A k : Names(k, "surface", sf2) <=> Names(k, "surface", sf)
  BY <1>1, <1>2 DEF Names
<1>4. /\ IsFunction(old) /\ IsFunction(new)
      /\ \A k : k \in DOMAIN old <=> Names(k, "surface", sf) \/ Names(k, "cache", ca)
      /\ \A k : k \in DOMAIN new <=> Names(k, "surface", sf2) \/ Names(k, "cache", ca)
      /\ \A k : /\ Names(k, "surface", sf) =>
                      k[1] = "surface" /\ old[k] = At(sf[k[2]], k[3], k[4])
                /\ Names(k, "cache", ca) =>
                      k[1] = "cache" /\ old[k] = At(ca[k[2]], k[3], k[4])
                /\ Names(k, "surface", sf2) => new[k] = At(sf2[k[2]], k[3], k[4])
                /\ Names(k, "cache", ca) => new[k] = At(ca[k[2]], k[3], k[4])
  BY PixelKeys
<1> HIDE DEF old, new
<1>5. /\ IsFunction(want) /\ DOMAIN want = DOMAIN g \cup DOMAIN old
      /\ \A k \in DOMAIN g : want[k] = g[k]
      /\ \A k \in DOMAIN old \ DOMAIN g : want[k] = old[k]
  BY OverKeys
<1> HIDE DEF want
<1>6. \A k \in DOMAIN g : Names(k, "surface", sf)
  <2>1. ASSUME NEW k \in DOMAIN g PROVE Names(k, "surface", sf)
    <3>1. k[2] = s
      OBVIOUS
    <3> QED BY <3>1, <1>2 DEF Names
  <2> QED BY <2>1
<1>7. DOMAIN new = DOMAIN want
  BY <1>3, <1>4, <1>5, <1>6
<1>8. ASSUME NEW k \in DOMAIN new
      PROVE  new[k] = want[k]
  <2>1. CASE Names(k, "cache", ca)
    <3>1. k \notin DOMAIN g /\ k \in DOMAIN old
      BY <2>1, <1>4, <1>6
    <3> QED BY <2>1, <3>1, <1>4, <1>5
  <2>2. CASE Names(k, "surface", sf) /\ k[2] # s
    <3>1. k \notin DOMAIN g
      <4>1. \A q \in DOMAIN g : q[2] = s
        OBVIOUS
      <4> QED BY <2>2, <4>1
    <3>2. new[k] = At(sf[k[2]], k[3], k[4])
      BY <2>2, <1>1, <1>3, <1>4 DEF Names
    <3> QED BY <2>2, <3>1, <3>2, <1>4, <1>5
  <2>3. CASE Names(k, "surface", sf) /\ k[2] = s
    <3> DEFINE x == k[3]
               y == k[4]
    <3>1. k = <<"surface", s, x, y>> /\ x \in 0 .. w - 1 /\ y \in 0 .. h - 1
      BY <2>3, <1>2 DEF Names
    <3>2. new[k] = At(painted, x, y) /\ old[k] = At(sf[s], x, y)
      BY <2>3, <1>1, <1>3, <1>4
    <3> HIDE DEF x, y
    <3>3. At(painted, x, y) = IF k \in DOMAIN g THEN g[k] ELSE At(sf[s], x, y)
      BY <3>1
    <3> QED BY <3>2, <3>3, <1>4, <1>5, <2>3
  <2> QED BY <2>1, <2>2, <2>3, <1>3, <1>4
<1>9. new = want
  BY <1>4, <1>5, <1>7, <1>8, SameFunction
<1> QED BY <1>9 DEF new, old, want, sf2

(* The pixels but those of one surface or one cached rectangle.             *)
Left(sf, ca, plane, id) ==
  [k \in {q \in DOMAIN PixelsOf(sf, ca) : ~(q[1] = plane /\ q[2] = id)} |->
     PixelsOf(sf, ca)[k]]

(* g is what an image shows, as the pixels of plane and id.                 *)
Shows(g, plane, id, img) ==
  /\ \A k : k \in DOMAIN g <=> /\ k = <<plane, id, k[3], k[4]>>
                               /\ k[3] \in 0 .. img.width - 1
                               /\ k[4] \in 0 .. img.height - 1
  /\ \A k \in DOMAIN g : g[k] = At(img, k[3], k[4])

(* An entry is made or replaced, or taken away.                             *)
LEMMA Replaced ==
  ASSUME NEW sf, NEW ca, NEW id, NEW img, NEW g
  PROVE  /\ Shows(g, "surface", id, img) =>
              PixelsOf(Put(sf, id, img), ca) = Over(g, Left(sf, ca, "surface", id))
         /\ Shows(g, "cache", id, img) =>
              PixelsOf(sf, Put(ca, id, img)) = Over(g, Left(sf, ca, "cache", id))
PROOF
<1> DEFINE old == PixelsOf(sf, ca)
           left(plane) == Left(sf, ca, plane, id)
           want(plane) == Over(g, left(plane))
           new(a, b) == PixelsOf(a, b)
<1>1. /\ \A k : k \in DOMAIN old <=> Names(k, "surface", sf) \/ Names(k, "cache", ca)
      /\ \A k : /\ Names(k, "surface", sf) =>
                      k[1] = "surface" /\ old[k] = At(sf[k[2]], k[3], k[4])
                /\ Names(k, "cache", ca) =>
                      k[1] = "cache" /\ old[k] = At(ca[k[2]], k[3], k[4])
  BY PixelKeys
<1>2. \A plane :
        /\ DOMAIN left(plane) = {q \in DOMAIN old : ~(q[1] = plane /\ q[2] = id)}
        /\ \A k \in DOMAIN left(plane) : left(plane)[k] = old[k]
  BY DEF Left
<1> HIDE DEF old, left
<1>3. \A plane :
        /\ IsFunction(want(plane)) /\ DOMAIN want(plane) = DOMAIN g \cup DOMAIN left(plane)
        /\ \A k \in DOMAIN g : want(plane)[k] = g[k]
        /\ \A k \in DOMAIN left(plane) \ DOMAIN g : want(plane)[k] = left(plane)[k]
  BY OverKeys
<1> HIDE DEF want
<1>6. ASSUME NEW k, NEW plane, k \in DOMAIN old, k \notin DOMAIN g,
             ~ (k[1] = plane /\ k[2] = id)
      PROVE  k \in DOMAIN want(plane) /\ want(plane)[k] = old[k]
  <2>1. k \in DOMAIN left(plane) /\ left(plane)[k] = old[k]
    BY <1>2, <1>6
  <2> QED BY <2>1, <1>3, <1>6
<1>7. ASSUME NEW plane, NEW k \in DOMAIN want(plane)
      PROVE  \/ k \in DOMAIN g
             \/ k \in DOMAIN old /\ ~ (k[1] = plane /\ k[2] = id)
  <2>1. k \in DOMAIN g \/ k \in DOMAIN left(plane)
    BY <1>3
  <2> QED BY <2>1, <1>2
<1>4. ASSUME Shows(g, "surface", id, img)
      PROVE  PixelsOf(Put(sf, id, img), ca) = want("surface")
  <2> DEFINE sf2 == Put(sf, id, img)
             now == PixelsOf(sf2, ca)
  <2>1. /\ DOMAIN sf2 = DOMAIN sf \cup {id}
        /\ \A x \in DOMAIN sf2 : sf2[x] = IF x = id THEN img ELSE sf[x]
    BY DEF Put
  <2> HIDE DEF sf2
  <2>2. /\ IsFunction(now)
        /\ \A k : k \in DOMAIN now <=> Names(k, "surface", sf2) \/ Names(k, "cache", ca)
        /\ \A k : /\ Names(k, "surface", sf2) =>
                        k[1] = "surface" /\ now[k] = At(sf2[k[2]], k[3], k[4])
                  /\ Names(k, "cache", ca) =>
                        k[1] = "cache" /\ now[k] = At(ca[k[2]], k[3], k[4])
    BY PixelKeys
  <2> HIDE DEF now
  <2>3. \A k : k[2] # id => (Names(k, "surface", sf2) <=> Names(k, "surface", sf))
    BY <2>1 DEF Names
  <2>4. \A k : k[2] = id => (Names(k, "surface", sf2) <=> k \in DOMAIN g)
    BY <2>1, <1>4 DEF Names, Shows
  <2>5. \A k \in DOMAIN g : k[1] = "surface" /\ k[2] = id /\ g[k] = At(img, k[3], k[4])
    BY <1>4 DEF Shows
  <2>6. ASSUME NEW k
        PROVE  k \in DOMAIN now <=> k \in DOMAIN want("surface")
    <3>1. CASE k \in DOMAIN g
      BY <3>1, <1>3, <2>2, <2>4, <2>5
    <3>2. CASE k \notin DOMAIN g
      <4>1. ASSUME k \in DOMAIN now PROVE k \in DOMAIN want("surface")
        <5>1. k \in DOMAIN old /\ ~ (k[1] = "surface" /\ k[2] = id)
          BY <3>2, <4>1, <1>1, <2>2, <2>3, <2>4
        <5> QED BY <3>2, <5>1, <1>6
      <4>2. ASSUME k \in DOMAIN want("surface") PROVE k \in DOMAIN now
        <5>1. k \in DOMAIN old /\ ~ (k[1] = "surface" /\ k[2] = id)
          BY <3>2, <4>2, <1>7
        <5> QED BY <5>1, <1>1, <2>2, <2>3
      <4> QED BY <4>1, <4>2
    <3> QED BY <3>1, <3>2
  <2>7. \A k \in DOMAIN now : now[k] = want("surface")[k]
    <3>1. ASSUME NEW k \in DOMAIN now PROVE now[k] = want("surface")[k]
      <4>1. CASE Names(k, "cache", ca)
        <5>1. k[1] = "cache" /\ k \in DOMAIN old /\ now[k] = old[k]
          BY <4>1, <1>1, <2>2
        <5>2. k \notin DOMAIN g
          BY <5>1, <2>5
        <5> QED BY <5>1, <5>2, <1>6
      <4>2. CASE Names(k, "surface", sf2) /\ k[2] = id
        <5>1. k \in DOMAIN g
          BY <4>2, <2>4
        <5>2. now[k] = At(img, k[3], k[4])
          BY <4>2, <2>1, <2>2
        <5> QED BY <5>1, <5>2, <1>3, <2>5
      <4>3. CASE Names(k, "surface", sf2) /\ k[2] # id
        <5>1. k \notin DOMAIN g /\ Names(k, "surface", sf)
          BY <4>3, <2>3, <2>5
        <5>2. now[k] = At(sf[k[2]], k[3], k[4])
          BY <4>3, <5>1, <2>1, <2>2 DEF Names
        <5>3. k \in DOMAIN old /\ old[k] = now[k]
          BY <5>1, <5>2, <1>1
        <5> QED BY <4>3, <5>1, <5>3, <1>6
      <4> QED BY <4>1, <4>2, <4>3, <2>2
    <3> QED BY <3>1
  <2>8. DOMAIN now = DOMAIN want("surface")
    BY <2>6
  <2>9. now = want("surface")
    BY <1>3, <2>2, <2>7, <2>8, SameFunction
  <2> QED BY <2>9 DEF now, sf2
<1>5. ASSUME Shows(g, "cache", id, img)
      PROVE  PixelsOf(sf, Put(ca, id, img)) = want("cache")
  <2> DEFINE ca2 == Put(ca, id, img)
             now == PixelsOf(sf, ca2)
  <2>1. /\ DOMAIN ca2 = DOMAIN ca \cup {id}
        /\ \A x \in DOMAIN ca2 : ca2[x] = IF x = id THEN img ELSE ca[x]
    BY DEF Put
  <2> HIDE DEF ca2
  <2>2. /\ IsFunction(now)
        /\ \A k : k \in DOMAIN now <=> Names(k, "surface", sf) \/ Names(k, "cache", ca2)
        /\ \A k : /\ Names(k, "surface", sf) =>
                        k[1] = "surface" /\ now[k] = At(sf[k[2]], k[3], k[4])
                  /\ Names(k, "cache", ca2) =>
                        k[1] = "cache" /\ now[k] = At(ca2[k[2]], k[3], k[4])
    BY PixelKeys
  <2> HIDE DEF now
  <2>3. \A k : k[2] # id => (Names(k, "cache", ca2) <=> Names(k, "cache", ca))
    BY <2>1 DEF Names
  <2>4. \A k : k[2] = id => (Names(k, "cache", ca2) <=> k \in DOMAIN g)
    BY <2>1, <1>5 DEF Names, Shows
  <2>5. \A k \in DOMAIN g : k[1] = "cache" /\ k[2] = id /\ g[k] = At(img, k[3], k[4])
    BY <1>5 DEF Shows
  <2>6. ASSUME NEW k
        PROVE  k \in DOMAIN now <=> k \in DOMAIN want("cache")
    <3>1. CASE k \in DOMAIN g
      BY <3>1, <1>3, <2>2, <2>4, <2>5
    <3>2. CASE k \notin DOMAIN g
      <4>1. ASSUME k \in DOMAIN now PROVE k \in DOMAIN want("cache")
        <5>1. k \in DOMAIN old /\ ~ (k[1] = "cache" /\ k[2] = id)
          BY <3>2, <4>1, <1>1, <2>2, <2>3, <2>4
        <5> QED BY <3>2, <5>1, <1>6
      <4>2. ASSUME k \in DOMAIN want("cache") PROVE k \in DOMAIN now
        <5>1. k \in DOMAIN old /\ ~ (k[1] = "cache" /\ k[2] = id)
          BY <3>2, <4>2, <1>7
        <5> QED BY <5>1, <1>1, <2>2, <2>3
      <4> QED BY <4>1, <4>2
    <3> QED BY <3>1, <3>2
  <2>7. \A k \in DOMAIN now : now[k] = want("cache")[k]
    <3>1. ASSUME NEW k \in DOMAIN now PROVE now[k] = want("cache")[k]
      <4>1. CASE Names(k, "surface", sf)
        <5>1. k[1] = "surface" /\ k \in DOMAIN old /\ now[k] = old[k]
          BY <4>1, <1>1, <2>2
        <5>2. k \notin DOMAIN g
          BY <5>1, <2>5
        <5> QED BY <5>1, <5>2, <1>6
      <4>2. CASE Names(k, "cache", ca2) /\ k[2] = id
        <5>1. k \in DOMAIN g
          BY <4>2, <2>4
        <5>2. now[k] = At(img, k[3], k[4])
          BY <4>2, <2>1, <2>2
        <5> QED BY <5>1, <5>2, <1>3, <2>5
      <4>3. CASE Names(k, "cache", ca2) /\ k[2] # id
        <5>1. k \notin DOMAIN g /\ Names(k, "cache", ca)
          BY <4>3, <2>3, <2>5
        <5>2. now[k] = At(ca[k[2]], k[3], k[4])
          BY <4>3, <5>1, <2>1, <2>2 DEF Names
        <5>3. k \in DOMAIN old /\ old[k] = now[k]
          BY <5>1, <5>2, <1>1
        <5> QED BY <4>3, <5>1, <5>3, <1>6
      <4> QED BY <4>1, <4>2, <4>3, <2>2
    <3> QED BY <3>1
  <2>8. DOMAIN now = DOMAIN want("cache")
    BY <2>6
  <2>9. now = want("cache")
    BY <1>3, <2>2, <2>7, <2>8, SameFunction
  <2> QED BY <2>9 DEF now, ca2
<1> QED BY <1>4, <1>5 DEF want, left

LEMMA Removed ==
  ASSUME NEW sf, NEW ca, NEW id
  PROVE  /\ PixelsOf(Without(sf, id), ca) = Left(sf, ca, "surface", id)
         /\ PixelsOf(sf, Without(ca, id)) = Left(sf, ca, "cache", id)
PROOF
<1> DEFINE old == PixelsOf(sf, ca)
           left(plane) == Left(sf, ca, plane, id)
<1>1. /\ \A k : k \in DOMAIN old <=> Names(k, "surface", sf) \/ Names(k, "cache", ca)
      /\ \A k : /\ Names(k, "surface", sf) =>
                      k[1] = "surface" /\ old[k] = At(sf[k[2]], k[3], k[4])
                /\ Names(k, "cache", ca) =>
                      k[1] = "cache" /\ old[k] = At(ca[k[2]], k[3], k[4])
  BY PixelKeys
<1>2. \A plane :
        /\ IsFunction(left(plane))
        /\ DOMAIN left(plane) = {q \in DOMAIN old : ~(q[1] = plane /\ q[2] = id)}
        /\ \A k \in DOMAIN left(plane) : left(plane)[k] = old[k]
  BY DEF Left, IsFunction
<1> HIDE DEF old, left
<1>3. PixelsOf(Without(sf, id), ca) = left("surface")
  <2> DEFINE sf2 == Without(sf, id)
             now == PixelsOf(sf2, ca)
  <2>1. /\ DOMAIN sf2 = DOMAIN sf \ {id}
        /\ \A x \in DOMAIN sf2 : sf2[x] = sf[x]
    BY DEF Without
  <2> HIDE DEF sf2
  <2>2. /\ IsFunction(now)
        /\ \A k : k \in DOMAIN now <=> Names(k, "surface", sf2) \/ Names(k, "cache", ca)
        /\ \A k : /\ Names(k, "surface", sf2) =>
                        k[1] = "surface" /\ now[k] = At(sf2[k[2]], k[3], k[4])
                  /\ Names(k, "cache", ca) =>
                        k[1] = "cache" /\ now[k] = At(ca[k[2]], k[3], k[4])
    BY PixelKeys
  <2> HIDE DEF now
  <2>3. \A k : Names(k, "surface", sf2) <=> Names(k, "surface", sf) /\ k[2] # id
    BY <2>1 DEF Names
  <2>4. ASSUME NEW k
        PROVE  k \in DOMAIN now <=> k \in DOMAIN left("surface")
    <3>1. k \in DOMAIN left("surface") <=> k \in DOMAIN old /\ ~ (k[1] = "surface" /\ k[2] = id)
      BY <1>2
    <3> QED BY <3>1, <1>1, <2>2, <2>3
  <2>5. \A k : Names(k, "surface", sf2) => sf2[k[2]] = sf[k[2]]
    BY <2>1 DEF Names
  <2>6. \A k \in DOMAIN now : now[k] = left("surface")[k]
    BY <1>1, <1>2, <2>2, <2>3, <2>4, <2>5
  <2>7. DOMAIN now = DOMAIN left("surface")
    BY <2>4
  <2>8. now = left("surface")
    BY <1>2, <2>2, <2>6, <2>7, SameFunction
  <2> QED BY <2>8 DEF now, sf2
<1>4. PixelsOf(sf, Without(ca, id)) = left("cache")
  <2> DEFINE ca2 == Without(ca, id)
             now == PixelsOf(sf, ca2)
  <2>1. /\ DOMAIN ca2 = DOMAIN ca \ {id}
        /\ \A x \in DOMAIN ca2 : ca2[x] = ca[x]
    BY DEF Without
  <2> HIDE DEF ca2
  <2>2. /\ IsFunction(now)
        /\ \A k : k \in DOMAIN now <=> Names(k, "surface", sf) \/ Names(k, "cache", ca2)
        /\ \A k : /\ Names(k, "surface", sf) =>
                        k[1] = "surface" /\ now[k] = At(sf[k[2]], k[3], k[4])
                  /\ Names(k, "cache", ca2) =>
                        k[1] = "cache" /\ now[k] = At(ca2[k[2]], k[3], k[4])
    BY PixelKeys
  <2> HIDE DEF now
  <2>3. \A k : Names(k, "cache", ca2) <=> Names(k, "cache", ca) /\ k[2] # id
    BY <2>1 DEF Names
  <2>4. ASSUME NEW k
        PROVE  k \in DOMAIN now <=> k \in DOMAIN left("cache")
    <3>1. k \in DOMAIN left("cache") <=> k \in DOMAIN old /\ ~ (k[1] = "cache" /\ k[2] = id)
      BY <1>2
    <3> QED BY <3>1, <1>1, <2>2, <2>3
  <2>5. \A k : Names(k, "cache", ca2) => ca2[k[2]] = ca[k[2]]
    BY <2>1 DEF Names
  <2>6. \A k \in DOMAIN now : now[k] = left("cache")[k]
    BY <1>1, <1>2, <2>2, <2>3, <2>4, <2>5
  <2>7. DOMAIN now = DOMAIN left("cache")
    BY <2>4
  <2>8. now = left("cache")
    BY <1>2, <2>2, <2>6, <2>7, SameFunction
  <2> QED BY <2>8 DEF now, ca2
<1> QED BY <1>3, <1>4 DEF left

-----------------------------------------------------------------------------
(* What is not clipped lies inside.                                         *)
LEMMA ClipAll ==
  ASSUME NEW a \in Nat, NEW n \in Nat, NEW limit \in Nat
  PROVE  /\ Clip(a, n, limit) \in 0 .. n
         /\ Clip(a, n, limit) = n => \A x \in a .. a + n - 1 : x < limit
PROOF
  BY DEF Clip

Inside(x, y, rw, rh, w, h) ==
  \A px \in x .. x + rw - 1, py \in y .. y + rh - 1 :
    px \in 0 .. w - 1 /\ py \in 0 .. h - 1

LEMMA CompleteInside ==
  ASSUME NEW img, NEW w \in Nat, NEW h \in Nat, img \in ImagesOf(w, h),
         NEW x \in Nat, NEW y \in Nat, NEW rw \in Nat, NEW rh \in Nat,
         Complete(Outcome(img, x, y, rw, rh))
  PROVE  Inside(x, y, rw, rh, w, h)
PROOF
<1> SUFFICES ASSUME NEW px \in x .. x + rw - 1, NEW py \in y .. y + rh - 1
             PROVE  px \in 0 .. w - 1 /\ py \in 0 .. h - 1
  BY DEF Inside
<1> DEFINE a == Clip(x, rw, w)
           b == Clip(y, rh, h)
<1>1. a * b = rw * rh
  BY DEF Complete, Outcome, ImagesOf
<1>2. /\ a \in 0 .. rw /\ b \in 0 .. rh
      /\ a = rw => px < w
      /\ b = rh => py < h
  BY ClipAll
<1> HIDE DEF a, b
<1>3. rw # 0 /\ rh # 0
  OBVIOUS
<1>4. PICK d \in Nat : rw = a + d
  <2>1. rw - a \in Nat /\ rw = a + (rw - a)
    BY <1>2
  <2> QED BY <2>1
<1>5. PICK e \in Nat : rh = b + e
  <2>1. rh - b \in Nat /\ rh = b + (rh - b)
    BY <1>2
  <2> QED BY <2>1
<1>6. a \in Nat /\ b \in Nat
  BY <1>2
<1>7. a * b = a * b + a * e + d * b + d * e
  <2>1. rw * rh = (a + d) * (b + e)
    BY <1>4, <1>5
  <2>2. (a + d) * (b + e) = a * b + a * e + d * b + d * e
    BY <1>6, Z3
  <2> QED BY <1>1, <2>1, <2>2
<1>8. a * b \in Nat /\ a * e \in Nat /\ d * b \in Nat /\ d * e \in Nat
  BY <1>6, Z3
<1>9. a * e = 0 /\ d * b = 0 /\ d * e = 0
  BY <1>7, <1>8
<1>10. ASSUME NEW i \in Nat, NEW j \in Nat, i * j = 0 PROVE i = 0 \/ j = 0
  BY <1>10, Z3
<1>11. d = 0 /\ e = 0
  <2>1. a = 0 \/ e = 0
    BY <1>6, <1>9, <1>10
  <2>2. d = 0 \/ b = 0
    BY <1>6, <1>9, <1>10
  <2>3. d = 0 \/ e = 0
    BY <1>9, <1>10
  <2> QED BY <2>1, <2>2, <2>3, <1>3, <1>4, <1>5, <1>6
<1>12. a = rw /\ b = rh
  BY <1>4, <1>5, <1>6, <1>11
<1> QED BY <1>2, <1>12

-----------------------------------------------------------------------------
(* The loops, pixel by pixel.  Rectangle r lies over (x, y).                *)
Within(r, x, y) ==
  /\ x \in r.left .. r.left + RectWidth(r) - 1
  /\ y \in r.top .. r.top + RectHeight(r) - 1

LEMMA FillAllAt ==
  ASSUME NEW w \in Nat, NEW h \in Nat, NEW img \in ImagesOf(w, h),
         NEW rects \in Seq(Rectangles), NEW c \in Colors,
         \A k \in 1 .. Len(rects) : ~ Inverted(rects[k]),
         NEW px \in 0 .. w - 1, NEW py \in 0 .. h - 1
  PROVE  At(FillAll(img, rects, c), px, py)
           = IF \E k \in 1 .. Len(rects) : Within(rects[k], px, py) THEN c
             ELSE At(img, px, py)
PROOF
<1> DEFINE n == Len(rects)
           on == {k \in 1 .. n : Within(rects[k], px, py)}
<1>1. n \in Nat
  OBVIOUS
<1>2. PICK f \in [0 .. n -> ImagesOf(w, h)] :
        Fillings(img, rects, c, f) /\ FillAll(img, rects, c) = f[n]
  BY FillAllLoop
<1> DEFINE v == [k \in 0 .. n |-> At(f[k], px, py)]
           col == [k \in 1 .. n |-> c]
<1>3. ASSUME NEW k \in 1 .. n
      PROVE  v[k] = IF k \in on THEN col[k] ELSE v[k - 1]
  <2> DEFINE r == rects[k]
  <2>1. r \in Rectangles /\ ~ Inverted(r)
    OBVIOUS
  <2>2. f[k] = FillRect(f[k - 1], r.left, r.top, RectWidth(r), RectHeight(r), c)
    BY <1>2, <2>1 DEF Fillings
  <2>3. k - 1 \in 0 .. n /\ k \in 0 .. n /\ f[k - 1] \in ImagesOf(w, h)
    BY <1>1, <1>2
  <2>4. k \in on <=> Within(r, px, py)
    OBVIOUS
  <2> HIDE DEF r, n, on
  <2>5. r.left \in Nat /\ r.top \in Nat /\ RectWidth(r) \in Nat /\ RectHeight(r) \in Nat
    BY <2>1 DEF Rectangles, Inverted, RectWidth, RectHeight
  <2>6. At(f[k], px, py) = IF Within(r, px, py) THEN c ELSE At(f[k - 1], px, py)
    BY <2>2, <2>3, <2>5, FillRectAt DEF Within
  <2> QED BY <2>3, <2>4, <2>6
<1>4. v[n] = At(FillAll(img, rects, c), px, py) /\ v[0] = At(img, px, py)
  <2>1. n \in 0 .. n /\ 0 \in 0 .. n
    BY <1>1
  <2> HIDE DEF n
  <2> QED BY <2>1, <1>2 DEF Fillings
<1> HIDE DEF v, n
<1>5. /\ on = {} => v[n] = v[0]
      /\ \A k \in on : (\A j \in on : j <= k) => v[n] = col[k]
      /\ on # {} => \E k \in on : \A j \in on : j <= k
  <2>1. on \in SUBSET (1 .. n)
    OBVIOUS
  <2> HIDE DEF on, col
  <2>2. LastOf(n, v, col, on)
    BY <1>1, <1>3, <2>1, LastWins
  <2> QED BY <2>2 DEF LastOf
<1>6. CASE on = {}
  BY <1>4, <1>5, <1>6 DEF n
<1>7. CASE on # {}
  <2>1. PICK k \in on : \A j \in on : j <= k
    BY <1>5, <1>7
  <2>2. v[n] = col[k] /\ k \in 1 .. n /\ Within(rects[k], px, py)
    BY <2>1, <1>5
  <2> QED BY <2>2, <1>4 DEF n
<1> QED BY <1>6, <1>7

(* What was drawn last stays: after is what col says of the last k in on,   *)
(* and before if there is none.                                             *)
LastDrawn(on, before, col, after) ==
  /\ on = {} => after = before
  /\ \A k \in on : (\A j \in on : j <= k) => after = col[k]
  /\ on # {} => \E k \in on : \A j \in on : j <= k

(* The points at which a copy of w by h pixels covers (x, y).               *)
Covering(pts, w, h, x, y) ==
  {n \in 1 .. Len(pts) : /\ x \in pts[n][1] .. pts[n][1] + w - 1
                         /\ y \in pts[n][2] .. pts[n][2] + h - 1}

LEMMA BlitAllAt ==
  ASSUME NEW w \in Nat, NEW h \in Nat, NEW img \in ImagesOf(w, h),
         NEW sw \in Nat, NEW sh \in Nat, NEW src \in ImagesOf(sw, sh),
         NEW pts \in Seq(Points),
         NEW px \in 0 .. w - 1, NEW py \in 0 .. h - 1
  PROVE  LastDrawn(Covering(pts, sw, sh, px, py), At(img, px, py),
                   [k \in 1 .. Len(pts) |->
                      At(src, px - pts[k][1], py - pts[k][2])],
                   At(BlitAll(img, pts, src), px, py))
PROOF
<1> DEFINE n == Len(pts)
           on == Covering(pts, sw, sh, px, py)
<1>1. n \in Nat
  OBVIOUS
<1>2. PICK f \in [0 .. n -> ImagesOf(w, h)] :
        Blittings(img, pts, src, f) /\ BlitAll(img, pts, src) = f[n]
  BY BlitAllLoop
<1> DEFINE v == [k \in 0 .. n |-> At(f[k], px, py)]
           col == [k \in 1 .. n |-> At(src, px - pts[k][1], py - pts[k][2])]
<1>3. ASSUME NEW k \in 1 .. n
      PROVE  v[k] = IF k \in on THEN col[k] ELSE v[k - 1]
  <2> DEFINE x == pts[k][1]
             y == pts[k][2]
  <2>1. x \in Nat /\ y \in Nat
    BY DEF Points
  <2>2. f[k] = BlitRect(f[k - 1], x, y, src)
    BY <1>2 DEF Blittings
  <2>3. k - 1 \in 0 .. n /\ k \in 0 .. n /\ f[k - 1] \in ImagesOf(w, h)
    BY <1>1, <1>2
  <2>4. /\ k \in on <=> px \in x .. x + sw - 1 /\ py \in y .. y + sh - 1
        /\ col[k] = At(src, px - x, py - y)
    BY DEF Covering
  <2> HIDE DEF x, y, n, on, col
  <2>5. At(f[k], px, py) = IF px \in x .. x + sw - 1 /\ py \in y .. y + sh - 1
                           THEN At(src, px - x, py - y) ELSE At(f[k - 1], px, py)
    BY <2>1, <2>2, <2>3, BlitRectAt
  <2> QED BY <2>3, <2>4, <2>5
<1>4. v[n] = At(BlitAll(img, pts, src), px, py) /\ v[0] = At(img, px, py)
  <2>1. n \in 0 .. n /\ 0 \in 0 .. n
    BY <1>1
  <2> HIDE DEF n
  <2> QED BY <2>1, <1>2 DEF Blittings
<1>5. on \in SUBSET (1 .. n)
  BY DEF Covering
<1>6. LastDrawn(on, v[0], col, v[n])
  <2> HIDE DEF v, n, on, col
  <2>1. LastOf(n, v, col, on)
    BY <1>1, <1>3, <1>5, LastWins
  <2> QED BY <2>1 DEF LastOf, LastDrawn
<1> HIDE DEF v
<1> QED BY <1>4, <1>6

(* The part of a tile that lies in a damage rectangle, in one direction:    *)
(* len places from lo on, those of both the n from a and the m from b.      *)
IsOverlap(lo, len, a, n, b, m) ==
  /\ lo \in Nat /\ len \in Nat
  /\ \A x \in Nat : x \in lo .. lo + len - 1
                      <=> x \in a .. a + n - 1 /\ x \in b .. b + m - 1

LEMMA OverlapRun ==
  ASSUME NEW a \in Nat, NEW n \in Nat, NEW b \in Nat, NEW m \in Nat
  PROVE  IsOverlap(Larger(a, b),
                   Larger(Smaller(a + n, b + m) - Larger(a, b), 0), a, n, b, m)
PROOF
  BY DEF Larger, Smaller, IsOverlap

(* Pixel (x, y) is in tile t and in damage rectangle r.                     *)
InTile(t, origin, x, y) ==
  /\ x \in TileX(t, origin) .. TileX(t, origin) + TileSize - 1
  /\ y \in TileY(t, origin) .. TileY(t, origin) + TileSize - 1

InDamage(r, origin, x, y) ==
  /\ x \in origin[1] + r.x .. origin[1] + r.x + r.w - 1
  /\ y \in origin[2] + r.y .. origin[2] + r.y + r.h - 1

TileCovers(t, rects, origin, x, y) ==
  /\ InTile(t, origin, x, y)
  /\ \E m \in 1 .. Len(rects) : InDamage(rects[m], origin, x, y)

LEMMA TilePlace ==
  ASSUME NEW t \in Blocks, NEW origin \in Points
  PROVE  TileX(t, origin) \in Nat /\ TileY(t, origin) \in Nat
PROOF
<1>1. /\ origin[1] \in Nat /\ origin[2] \in Nat /\ t.x \in Nat /\ t.y \in Nat
      /\ TileSize \in Nat
  BY GfxAssumption DEF Points, Blocks
<1>2. t.x * TileSize \in Nat /\ t.y * TileSize \in Nat
  BY <1>1, Z3
<1> QED BY <1>1, <1>2 DEF TileX, TileY

LEMMA OverlapAt ==
  ASSUME NEW t \in Blocks, NEW r \in Damage, NEW origin \in Points
  PROVE  LET o == Overlap(t, r, origin)
         IN  /\ o.x \in Nat /\ o.y \in Nat /\ o.w \in Nat /\ o.h \in Nat
             /\ \A x, y \in Nat :
                  /\ x \in o.x .. o.x + o.w - 1
                  /\ y \in o.y .. o.y + o.h - 1
                  <=> InTile(t, origin, x, y) /\ InDamage(r, origin, x, y)
PROOF
<1> DEFINE a == TileX(t, origin)
           b == TileY(t, origin)
           p == origin[1] + r.x
           q == origin[2] + r.y
           o == Overlap(t, r, origin)
<1>1. /\ a \in Nat /\ b \in Nat /\ TileSize \in Nat
      /\ p \in Nat /\ q \in Nat /\ r.w \in Nat /\ r.h \in Nat
  BY TilePlace, GfxAssumption DEF Points, Damage
<1>2. /\ o.x = Larger(a, p) /\ o.y = Larger(b, q)
      /\ o.w = Larger(Smaller(a + TileSize, p + r.w) - Larger(a, p), 0)
      /\ o.h = Larger(Smaller(b + TileSize, q + r.h) - Larger(b, q), 0)
  BY DEF Overlap
<1>3. \A x, y \in Nat : InTile(t, origin, x, y) /\ InDamage(r, origin, x, y)
        <=> /\ x \in a .. a + TileSize - 1 /\ x \in p .. p + r.w - 1
            /\ y \in b .. b + TileSize - 1 /\ y \in q .. q + r.h - 1
  BY DEF InTile, InDamage
<1> HIDE DEF a, b, p, q, o
<1>4. /\ o.x \in Nat /\ o.w \in Nat
      /\ \A x \in Nat : x \in o.x .. o.x + o.w - 1
           <=> x \in a .. a + TileSize - 1 /\ x \in p .. p + r.w - 1
  <2>1. IsOverlap(o.x, o.w, a, TileSize, p, r.w)
    BY <1>1, <1>2, OverlapRun
  <2> QED BY <2>1 DEF IsOverlap
<1>5. /\ o.y \in Nat /\ o.h \in Nat
      /\ \A y \in Nat : y \in o.y .. o.y + o.h - 1
           <=> y \in b .. b + TileSize - 1 /\ y \in q .. q + r.h - 1
  <2>1. IsOverlap(o.y, o.h, b, TileSize, q, r.h)
    BY <1>1, <1>2, OverlapRun
  <2> QED BY <2>1 DEF IsOverlap
<1>6. \A x, y \in Nat :
                  /\ x \in o.x .. o.x + o.w - 1
                  /\ y \in o.y .. o.y + o.h - 1
                  <=> InTile(t, origin, x, y) /\ InDamage(r, origin, x, y)
  BY <1>3, <1>4, <1>5
<1> QED BY <1>4, <1>5, <1>6 DEF o

LEMMA PaintTileAt ==
  ASSUME NEW w \in Nat, NEW h \in Nat, NEW img \in ImagesOf(w, h),
         NEW t \in Blocks, NEW rects \in Seq(Damage), NEW origin \in Points,
         NEW c \in Colors,
         NEW px \in 0 .. w - 1, NEW py \in 0 .. h - 1
  PROVE  At(PaintTile(img, t, rects, origin, c), px, py)
           = IF TileCovers(t, rects, origin, px, py) THEN c
             ELSE At(img, px, py)
PROOF
<1> DEFINE n == Len(rects)
           on == {k \in 1 .. n : InTile(t, origin, px, py)
                                 /\ InDamage(rects[k], origin, px, py)}
<1>1. n \in Nat
  OBVIOUS
<1>2. PICK f \in [0 .. n -> ImagesOf(w, h)] :
        /\ Paintings(img, t, rects, origin, c, f)
        /\ PaintTile(img, t, rects, origin, c) = f[n]
  BY PaintTileLoop
<1> DEFINE v == [k \in 0 .. n |-> At(f[k], px, py)]
           col == [k \in 1 .. n |-> c]
<1>3. ASSUME NEW k \in 1 .. n
      PROVE  v[k] = IF k \in on THEN col[k] ELSE v[k - 1]
  <2> DEFINE o == Overlap(t, rects[k], origin)
  <2>1. rects[k] \in Damage
    OBVIOUS
  <2>2. f[k] = FillRect(f[k - 1], o.x, o.y, o.w, o.h, c)
    BY <1>2 DEF Paintings
  <2>3. k - 1 \in 0 .. n /\ k \in 0 .. n /\ f[k - 1] \in ImagesOf(w, h)
    BY <1>1, <1>2
  <2>4. k \in on <=> InTile(t, origin, px, py) /\ InDamage(rects[k], origin, px, py)
    OBVIOUS
  <2>5. /\ o.x \in Nat /\ o.y \in Nat /\ o.w \in Nat /\ o.h \in Nat
        /\ px \in o.x .. o.x + o.w - 1 /\ py \in o.y .. o.y + o.h - 1
             <=> InTile(t, origin, px, py) /\ InDamage(rects[k], origin, px, py)
    <3>1. px \in Nat /\ py \in Nat
      OBVIOUS
    <3> QED BY <2>1, <3>1, OverlapAt
  <2> HIDE DEF o, n, on
  <2>6. At(f[k], px, py) = IF px \in o.x .. o.x + o.w - 1 /\ py \in o.y .. o.y + o.h - 1
                           THEN c ELSE At(f[k - 1], px, py)
    <3>1. o.x \in Nat /\ o.y \in Nat /\ o.w \in Nat /\ o.h \in Nat
      BY <2>5
    <3>2. \A i \in ImagesOf(w, h), x, y, rw, rh \in Nat :
            At(FillRect(i, x, y, rw, rh, c), px, py)
              = IF px \in x .. x + rw - 1 /\ py \in y .. y + rh - 1
                THEN c ELSE At(i, px, py)
      BY FillRectAt
    <3>3. PICK x \in Nat, y \in Nat, rw \in Nat, rh \in Nat :
            x = o.x /\ y = o.y /\ rw = o.w /\ rh = o.h
      BY <3>1
    <3>4. f[k] = FillRect(f[k - 1], x, y, rw, rh, c)
      BY <2>2, <3>3
    <3>5. At(f[k], px, py) = IF px \in x .. x + rw - 1 /\ py \in y .. y + rh - 1
                             THEN c ELSE At(f[k - 1], px, py)
      BY <2>3, <3>2, <3>4
    <3> QED BY <3>3, <3>5
  <2> QED BY <2>3, <2>4, <2>5, <2>6
<1>4. v[n] = At(PaintTile(img, t, rects, origin, c), px, py) /\ v[0] = At(img, px, py)
  <2>1. n \in 0 .. n /\ 0 \in 0 .. n
    BY <1>1
  <2> HIDE DEF n
  <2> QED BY <2>1, <1>2 DEF Paintings
<1>5. on \in SUBSET (1 .. n)
  OBVIOUS
<1>6. on # {} <=> TileCovers(t, rects, origin, px, py)
  BY DEF TileCovers
<1>7. \A k \in on : col[k] = c
  OBVIOUS
<1> HIDE DEF v, n, on, col
<1>8. LastOf(n, v, col, on)
  BY <1>1, <1>3, <1>5, LastWins
<1>9. CASE on = {}
  BY <1>4, <1>6, <1>8, <1>9 DEF LastOf
<1>10. CASE on # {}
  <2>1. PICK k \in on : \A j \in on : j <= k
    BY <1>8, <1>10 DEF LastOf
  <2>2. v[n] = col[k]
    BY <2>1, <1>8 DEF LastOf
  <2> QED BY <2>2, <1>4, <1>6, <1>7, <1>10
<1> QED BY <1>9, <1>10

(* The tiles of a region that cover (x, y).                                 *)
CoveringTiles(region, origin, x, y) ==
  {k \in 1 .. Len(region.tiles) :
     TileCovers(region.tiles[k], region.rects, origin, x, y)}

LEMMA CompositeAt ==
  ASSUME NEW s \in DOMAIN surfaces, NEW w \in Nat, NEW h \in Nat,
         surfaces[s] \in ImagesOf(w, h), NEW region \in Regions,
         NEW origin \in Points,
         \A k \in 1 .. Len(region.tiles) :
           /\ k \in Pending(s, region.tiles)
           /\ TileInside(surfaces[s], region.tiles[k], origin),
         NEW px \in 0 .. w - 1, NEW py \in 0 .. h - 1
  PROVE  LastDrawn(CoveringTiles(region, origin, px, py),
                   At(surfaces[s], px, py),
                   [k \in 1 .. Len(region.tiles) |->
                      TileColor(s, region.tiles, k)],
                   At(Composite(s, region, origin), px, py))
PROOF
<1> DEFINE tiles == region.tiles
           n == Len(tiles)
           on == CoveringTiles(region, origin, px, py)
<1>0. tiles \in Seq(Blocks) /\ region.rects \in Seq(Damage)
  BY PduAssumption
<1>1. n \in Nat
  BY <1>0
<1>2. PICK f \in [0 .. n -> ImagesOf(w, h)] :
        Composings(s, region, origin, f) /\ Composite(s, region, origin) = f[n]
  BY CompositeLoop
<1> DEFINE v == [k \in 0 .. n |-> At(f[k], px, py)]
           col == [k \in 1 .. n |-> TileColor(s, tiles, k)]
<1>3. ASSUME NEW k \in 1 .. n
      PROVE  v[k] = IF k \in on THEN col[k] ELSE v[k - 1]
  <2> DEFINE t == tiles[k]
             c == TileColor(s, tiles, k)
  <2>1. t \in Blocks
    BY <1>0
  <2>2. c \in Colors
    BY <2>1, GfxAssumption DEF TileColor, Blocks
  <2>3. k - 1 \in 0 .. n /\ k \in 0 .. n /\ f[k - 1] \in ImagesOf(w, h)
    BY <1>1, <1>2
  <2>4. TileInside(f[k - 1], t, origin)
    <3>1. f[k - 1].width = surfaces[s].width /\ f[k - 1].height = surfaces[s].height
      BY <2>3 DEF ImagesOf
    <3> QED BY <3>1 DEF TileInside
  <2>5. f[k] = PaintTile(f[k - 1], t, region.rects, origin, c)
    BY <1>2, <2>4 DEF Composings
  <2>6. k \in on <=> TileCovers(t, region.rects, origin, px, py)
    BY DEF CoveringTiles
  <2> HIDE DEF t, c, n, on
  <2>7. At(f[k], px, py) = IF TileCovers(t, region.rects, origin, px, py) THEN c
                           ELSE At(f[k - 1], px, py)
    BY <1>0, <2>1, <2>2, <2>3, <2>5, PaintTileAt
  <2> QED BY <2>3, <2>6, <2>7 DEF c
<1>4. v[n] = At(Composite(s, region, origin), px, py) /\ v[0] = At(surfaces[s], px, py)
  <2>1. n \in 0 .. n /\ 0 \in 0 .. n
    BY <1>1
  <2> HIDE DEF n
  <2> QED BY <2>1, <1>2 DEF Composings
<1>5. on \in SUBSET (1 .. n)
  BY DEF CoveringTiles
<1>6. LastDrawn(on, v[0], col, v[n])
  <2> HIDE DEF v, n, on, col, tiles
  <2>1. LastOf(n, v, col, on)
    BY <1>1, <1>3, <1>5, LastWins
  <2> QED BY <2>1 DEF LastOf, LastDrawn
<1> HIDE DEF v
<1> QED BY <1>4, <1>6

-----------------------------------------------------------------------------
(* Each PDU.                                                                *)
LEMMA PixelsNow ==
  /\ Pixels = PixelsOf(surfaces, cache)
  /\ Pixels' = PixelsOf(surfaces', cache')
  /\ \A plane, id : Gone(plane, id) = Left(surfaces, cache, plane, id)
PROOF
  BY DEF Pixels, PixelsOf, Gone, Left

LEMMA AreaKeys ==
  ASSUME NEW s, NEW x, NEW y, NEW w, NEW h, NEW k
  PROVE  k \in Area(s, x, y, w, h) <=> /\ k = <<"surface", s, k[3], k[4]>>
                                       /\ k[3] \in x .. x + w - 1
                                       /\ k[4] \in y .. y + h - 1
PROOF
  BY DEF Area

LEMMA ColorAtInside ==
  ASSUME NEW s \in DOMAIN surfaces, NEW w \in Nat, NEW h \in Nat,
         surfaces[s] \in ImagesOf(w, h), NEW x \in 0 .. w - 1, NEW y \in 0 .. h - 1
  PROVE  ColorAt(s, x, y) = At(surfaces[s], x, y)
PROOF
<1> DEFINE k == <<"surface", s, x, y>>
<1>1. Names(k, "surface", surfaces)
  BY DEF Names, ImagesOf
<1>2. k[2] = s /\ k[3] = x /\ k[4] = y
  OBVIOUS
<1>3. ColorAt(s, x, y) = IF k \in DOMAIN Pixels THEN Pixels[k] ELSE NoColor
  BY DEF ColorAt
<1> HIDE DEF k
<1>4. k \in DOMAIN Pixels /\ Pixels[k] = At(surfaces[k[2]], k[3], k[4])
  BY <1>1, PixelsNow, PixelKeys
<1> QED BY <1>2, <1>3, <1>4

(* Filling.                                                                 *)
Filled(s, rects) ==
  UNION { Area(s, r.left, r.top, RectWidth(r), RectHeight(r)) : r \in Range(rects) }

LEMMA FilledKeys ==
  ASSUME NEW s, NEW rects, NEW k
  PROVE  k \in Filled(s, rects) <=> /\ k = <<"surface", s, k[3], k[4]>>
                                    /\ \E i \in DOMAIN rects : Within(rects[i], k[3], k[4])
PROOF
<1>1. k \in Filled(s, rects) <=>
        \E i \in DOMAIN rects : k \in Area(s, rects[i].left, rects[i].top,
                                           RectWidth(rects[i]), RectHeight(rects[i]))
  BY DEF Filled, Range
<1>2. \A i \in DOMAIN rects :
        k \in Area(s, rects[i].left, rects[i].top,
                   RectWidth(rects[i]), RectHeight(rects[i]))
        <=> k = <<"surface", s, k[3], k[4]>> /\ Within(rects[i], k[3], k[4])
  BY AreaKeys DEF Within
<1> QED BY <1>1, <1>2

(* Whatever draws one colour over some rectangles.                          *)
LEMMA FilledOver ==
  ASSUME NEW s \in DOMAIN surfaces, NEW w \in Nat, NEW h \in Nat,
         surfaces[s] \in ImagesOf(w, h), NEW rects \in Seq(Rectangles), NEW c,
         NEW painted \in ImagesOf(w, h),
         \A i \in 1 .. Len(rects) :
           /\ ~ Inverted(rects[i])
           /\ Complete(Outcome(surfaces[s], rects[i].left, rects[i].top,
                               RectWidth(rects[i]), RectHeight(rects[i]))),
         \A x \in 0 .. w - 1, y \in 0 .. h - 1 :
           At(painted, x, y) = IF \E i \in 1 .. Len(rects) : Within(rects[i], x, y)
                               THEN c ELSE At(surfaces[s], x, y)
  PROVE  PixelsOf([surfaces EXCEPT ![s] = painted], cache) = PromiseFill(s, rects, c)
PROOF
<1> DEFINE g == [k \in Filled(s, rects) |-> c]
<1>1. PromiseFill(s, rects, c) = Over(g, PixelsOf(surfaces, cache))
  BY PixelsNow DEF PromiseFill, Filled
<1>2. DOMAIN rects = 1 .. Len(rects)
  OBVIOUS
<1>3. ASSUME NEW k \in DOMAIN g
      PROVE  k = <<"surface", s, k[3], k[4]>> /\ k[3] \in 0 .. w - 1 /\ k[4] \in 0 .. h - 1
  <2>1. PICK i \in 1 .. Len(rects) : Within(rects[i], k[3], k[4])
    BY <1>2, FilledKeys
  <2>2. /\ rects[i].left \in Nat /\ rects[i].top \in Nat
        /\ RectWidth(rects[i]) \in Nat /\ RectHeight(rects[i]) \in Nat
    <3>1. rects[i] \in Rectangles /\ ~ Inverted(rects[i])
      OBVIOUS
    <3>2. ASSUME NEW r \in Rectangles, ~ Inverted(r)
          PROVE  /\ r.left \in Nat /\ r.top \in Nat
                 /\ RectWidth(r) \in Nat /\ RectHeight(r) \in Nat
      <4>1. r.left \in Nat /\ r.top \in Nat /\ r.right \in Nat /\ r.bottom \in Nat
        BY DEF Rectangles
      <4> QED BY <3>2, <4>1 DEF Inverted, RectWidth, RectHeight
    <3> QED BY <3>1, <3>2
  <2>3. Complete(Outcome(surfaces[s], rects[i].left, rects[i].top,
                         RectWidth(rects[i]), RectHeight(rects[i])))
    OBVIOUS
  <2> DEFINE x == rects[i].left
             y == rects[i].top
             rw == RectWidth(rects[i])
             rh == RectHeight(rects[i])
             px == k[3]
             py == k[4]
  <2>4. /\ px \in x .. x + rw - 1 /\ py \in y .. y + rh - 1
        /\ x \in Nat /\ y \in Nat /\ rw \in Nat /\ rh \in Nat
        /\ Complete(Outcome(surfaces[s], x, y, rw, rh))
    BY <2>1, <2>2, <2>3 DEF Within
  <2> HIDE DEF x, y, rw, rh, px, py
  <2>5. px \in 0 .. w - 1 /\ py \in 0 .. h - 1
    <3>1. Inside(x, y, rw, rh, w, h)
      BY <2>4, CompleteInside
    <3> QED BY <2>4, <3>1 DEF Inside
  <2> QED BY <2>5, FilledKeys DEF px, py
<1>4. ASSUME NEW x \in 0 .. w - 1, NEW y \in 0 .. h - 1
      PROVE  At(painted, x, y) = IF <<"surface", s, x, y>> \in DOMAIN g
                                 THEN g[<<"surface", s, x, y>>]
                                 ELSE At(surfaces[s], x, y)
  <2> DEFINE k == <<"surface", s, x, y>>
  <2>1. k[3] = x /\ k[4] = y /\ k = <<"surface", s, k[3], k[4]>>
    OBVIOUS
  <2> HIDE DEF k
  <2>2. k \in Filled(s, rects) <=> \E i \in 1 .. Len(rects) : Within(rects[i], x, y)
    BY <1>2, <2>1, FilledKeys
  <2>3. At(painted, x, y) = IF k \in DOMAIN g THEN g[k] ELSE At(surfaces[s], x, y)
    BY <2>2
  <2> QED BY <2>3 DEF k
<1> HIDE DEF g
<1> QED BY <1>1, <1>3, <1>4, Repainted

(* Reported, or done as promised. *)
Done(promise) == reported' \/ Pixels' = promise

LEMMA DiscardDone ==
  ASSUME Discard, NEW promise PROVE Done(promise)
PROOF
  BY DEF Discard, Report, Done

LEMMA PaintDone ==
  ASSUME NEW s \in DOMAIN surfaces, NEW painted, NEW ok, NEW promise,
         Paint(s, painted, ok),
         ok => PixelsOf([surfaces EXCEPT ![s] = painted], cache) = promise
  PROVE  Done(promise)
PROOF
<1>1. surfaces' = [surfaces EXCEPT ![s] = painted] /\ cache' = cache /\ reported' = ~ ok
  BY DEF Paint
<1>2. CASE ok
  <2>1. Pixels' = PixelsOf(surfaces', cache')
    BY PixelsNow
  <2> QED BY <1>1, <1>2, <2>1 DEF Done
<1>3. CASE ~ ok
  BY <1>1, <1>3 DEF Done
<1> QED BY <1>2, <1>3

LEMMA SolidFillDone ==
  ASSUME GfxTypes, NEW s \in SurfaceIds, NEW rects \in RectLists, NEW c \in Colors,
         SolidFill(s, rects, c)
  PROVE  Done(PromiseFill(s, rects, c))
PROOF
<1> DEFINE painted == FillAll(surfaces[s], rects, c)
           ok == \A k \in DOMAIN rects :
                   LET r == rects[k]
                   IN  /\ ~Inverted(r)
                       /\ Complete(Outcome(surfaces[s], r.left, r.top,
                                           RectWidth(r), RectHeight(r)))
<1>1. CASE ~ Live(s)
  BY <1>1, DiscardDone DEF SolidFill
<1>2. CASE Live(s)
  <2>1. s \in DOMAIN surfaces /\ Paint(s, painted, ok)
    BY <1>2 DEF SolidFill, Live
  <2>2. PICK w \in Nat, h \in Nat : surfaces[s] \in ImagesOf(w, h)
    BY <2>1 DEF GfxTypes, AllImages, SomeImage
  <2>3. rects \in Seq(Rectangles) /\ DOMAIN rects = 1 .. Len(rects)
    BY PduAssumption
  <2>4. painted \in ImagesOf(w, h)
    BY <2>2, <2>3, FillAllImage
  <2>5. ASSUME ok
        PROVE  PixelsOf([surfaces EXCEPT ![s] = painted], cache) = PromiseFill(s, rects, c)
    <3>1. \A i \in 1 .. Len(rects) :
           /\ ~ Inverted(rects[i])
           /\ Complete(Outcome(surfaces[s], rects[i].left, rects[i].top,
                               RectWidth(rects[i]), RectHeight(rects[i])))
      BY <2>3, <2>5
    <3>2. \A x \in 0 .. w - 1, y \in 0 .. h - 1 :
            At(painted, x, y) = IF \E i \in 1 .. Len(rects) : Within(rects[i], x, y)
                                THEN c ELSE At(surfaces[s], x, y)
      BY <2>2, <2>3, <3>1, FillAllAt
    <3> HIDE DEF painted
    <3> QED BY <2>1, <2>2, <2>3, <2>4, <3>1, <3>2, FilledOver
  <2> HIDE DEF painted, ok
  <2> QED BY <2>1, <2>5, PaintDone
<1> QED BY <1>1, <1>2

(* A bitmap of one colour is drawn like a filled rectangle.                 *)
LEMMA WireToSurface1Done ==
  ASSUME GfxTypes, NEW s \in SurfaceIds, NEW r \in Rects, NEW c \in Colors,
         WireToSurface1(s, r, c)
  PROVE  Done(PromiseFill(s, <<r>>, c))
PROOF
<1> DEFINE sw == RectWidth(r)
           sh == RectHeight(r)
           src == Solid(sw, sh, c)
           painted == BlitRect(surfaces[s], r.left, r.top, src)
           ok == Complete(Outcome(surfaces[s], r.left, r.top, src.width, src.height))
           rects == <<r>>
<1>1. CASE Inverted(r) \/ ~ Live(s)
  BY <1>1, DiscardDone DEF WireToSurface1
<1>2. CASE ~ Inverted(r) /\ Live(s)
  <2>1. s \in DOMAIN surfaces /\ Paint(s, painted, ok)
    BY <1>2 DEF WireToSurface1, Live
  <2>2. PICK w \in Nat, h \in Nat : surfaces[s] \in ImagesOf(w, h)
    BY <2>1 DEF GfxTypes, AllImages, SomeImage
  <2>3. /\ r.left \in Nat /\ r.top \in Nat /\ sw \in Nat /\ sh \in Nat
    BY <1>2, RectangleSize
  <2>4. src \in ImagesOf(sw, sh) /\ src.width = sw /\ src.height = sh
    BY <2>3, NewImages DEF Solid, Image
  <2>5. rects \in Seq(Rectangles)
    BY PduAssumption
  <2>6. painted \in ImagesOf(w, h)
    <3> HIDE DEF src, sw, sh
    <3> QED BY <2>2, <2>3, <2>4, BlitRectImage
  <2>7. ASSUME ok
        PROVE  PixelsOf([surfaces EXCEPT ![s] = painted], cache) = PromiseFill(s, rects, c)
    <3>1. \A i \in 1 .. Len(rects) :
           /\ ~ Inverted(rects[i])
           /\ Complete(Outcome(surfaces[s], rects[i].left, rects[i].top,
                               RectWidth(rects[i]), RectHeight(rects[i])))
      <4>1. Complete(Outcome(surfaces[s], r.left, r.top, RectWidth(r), RectHeight(r)))
        BY <2>4, <2>7
      <4>2. \A i \in 1 .. Len(rects) : rects[i] = r
        OBVIOUS
      <4> HIDE DEF rects
      <4> QED BY <1>2, <4>1, <4>2
    <3>2. ASSUME NEW x \in 0 .. w - 1, NEW y \in 0 .. h - 1
          PROVE  At(painted, x, y) = IF \E i \in 1 .. Len(rects) : Within(rects[i], x, y)
                                     THEN c ELSE At(surfaces[s], x, y)
      <4>1. (\E i \in 1 .. Len(rects) : Within(rects[i], x, y)) <=> Within(r, x, y)
        OBVIOUS
      <4>2. Within(r, x, y) <=> /\ x \in r.left .. r.left + sw - 1
                                /\ y \in r.top .. r.top + sh - 1
        BY DEF Within
      <4>3. Within(r, x, y) => At(src, x - r.left, y - r.top) = c
        <5>1. ASSUME Within(r, x, y)
              PROVE  (y - r.top) * sw + (x - r.left) \in 0 .. sw * sh - 1
          <6>1. x - r.left \in 0 .. sw - 1 /\ y - r.top \in 0 .. sh - 1
            BY <2>3, <4>2, <5>1
          <6> HIDE DEF sw, sh
          <6> QED BY <2>3, <6>1, IndexInside
        <5>2. \A i \in 0 .. sw * sh - 1 : src.pixels[i] = c
          BY DEF Solid, Image
        <5> HIDE DEF src, sw, sh
        <5> QED BY <2>4, <5>1, <5>2 DEF At
      <4>4. At(painted, x, y) = IF /\ x \in r.left .. r.left + sw - 1
                                   /\ y \in r.top .. r.top + sh - 1
                                THEN At(src, x - r.left, y - r.top)
                                ELSE At(surfaces[s], x, y)
        <5> DEFINE rx == r.left
                   ry == r.top
        <5>1. rx \in Nat /\ ry \in Nat
          BY <2>3
        <5> HIDE DEF src, sw, sh, rx, ry
        <5>2. At(BlitRect(surfaces[s], rx, ry, src), x, y)
                = IF /\ x \in rx .. rx + sw - 1
                     /\ y \in ry .. ry + sh - 1
                  THEN At(src, x - rx, y - ry)
                  ELSE At(surfaces[s], x, y)
          BY <2>2, <2>3, <2>4, <5>1, BlitRectAt
        <5> QED BY <5>2 DEF rx, ry
      <4> HIDE DEF src, sw, sh, rects, painted
      <4> QED BY <4>1, <4>2, <4>3, <4>4
    <3> HIDE DEF painted, rects
    <3> QED BY <2>1, <2>2, <2>5, <2>6, <3>1, <3>2, FilledOver
  <2> HIDE DEF painted, ok
  <2> QED BY <2>1, <2>7, PaintDone
<1> QED BY <1>1, <1>2

-----------------------------------------------------------------------------
(* Copying.  The pixels of surface d under the copies, and the copy on top. *)
Under(d, pts, w, h) ==
  UNION {Area(d, pts[n][1], pts[n][2], w, h) : n \in DOMAIN pts}

Copies(pts, w, h, k) ==
  {n \in DOMAIN pts : Covers(pts[n][1], pts[n][2], w, h, k)}

TopCopy(pts, w, h, k) ==
  CHOOSE n \in Copies(pts, w, h, k) : \A m \in Copies(pts, w, h, k) : m <= n

CopiesOf(d, pts, src) ==
  [k \in Under(d, pts, src.width, src.height) |->
     LET n == TopCopy(pts, src.width, src.height, k)
     IN  At(src, k[3] - pts[n][1], k[4] - pts[n][2])]

IsUnder(d, pts, w, h, k) ==
  /\ Copies(pts, w, h, k) = Covering(pts, w, h, k[3], k[4])
  /\ k \in Under(d, pts, w, h) <=> /\ k = <<"surface", d, k[3], k[4]>>
                                   /\ Copies(pts, w, h, k) # {}

LEMMA UnderKeys ==
  ASSUME NEW d, NEW pts \in Seq(Points), NEW w, NEW h, NEW k
  PROVE  IsUnder(d, pts, w, h, k)
PROOF
<1>1. DOMAIN pts = 1 .. Len(pts)
  OBVIOUS
<1>2. Copies(pts, w, h, k) = Covering(pts, w, h, k[3], k[4])
  BY <1>1 DEF Copies, Covering, Covers
<1>3. k \in Under(d, pts, w, h) <=>
        \E n \in DOMAIN pts : k \in Area(d, pts[n][1], pts[n][2], w, h)
  BY DEF Under
<1>4. \A n \in DOMAIN pts :
        k \in Area(d, pts[n][1], pts[n][2], w, h)
        <=> k = <<"surface", d, k[3], k[4]>> /\ Covers(pts[n][1], pts[n][2], w, h, k)
  BY AreaKeys DEF Covers
<1>5. Copies(pts, w, h, k) # {} <=> \E n \in DOMAIN pts : Covers(pts[n][1], pts[n][2], w, h, k)
  BY DEF Copies
<1> QED BY <1>2, <1>3, <1>4, <1>5 DEF IsUnder

(* There is a copy on top wherever there is one.                            *)
LEMMA TopCopyIsTop ==
  ASSUME NEW pts \in Seq(Points), NEW w, NEW h, NEW k, Copies(pts, w, h, k) # {}
  PROVE  /\ TopCopy(pts, w, h, k) \in Copies(pts, w, h, k)
         /\ \A m \in Copies(pts, w, h, k) : m <= TopCopy(pts, w, h, k)
PROOF
<1> DEFINE n == Len(pts)
           on == Copies(pts, w, h, k)
           v == [i \in 0 .. n |-> IF i = 0 THEN 0 ELSE IF i \in on THEN 0 ELSE 0]
           col == [i \in 1 .. n |-> 0]
<1>1. n \in Nat /\ on \in SUBSET (1 .. n)
  BY DEF Copies
<1>2. \A i \in 1 .. n : v[i] = IF i \in on THEN col[i] ELSE v[i - 1]
  <2>1. \A i \in 1 .. n : i \in 0 .. n /\ i - 1 \in 0 .. n
    BY <1>1
  <2>2. \A i \in 0 .. n : v[i] = 0
    OBVIOUS
  <2>3. \A i \in 1 .. n : col[i] = 0
    OBVIOUS
  <2> HIDE DEF n, on, v, col
  <2> QED BY <2>1, <2>2, <2>3
<1> HIDE DEF n, v, col, on
<1>3. LastOf(n, v, col, on)
  BY <1>1, <1>2, LastWins
<1>4. \E i \in on : \A j \in on : j <= i
  BY <1>3 DEF LastOf, on
<1> QED BY <1>4 DEF TopCopy, on

LEMMA CopiedOver ==
  ASSUME NEW d \in DOMAIN surfaces, NEW w \in Nat, NEW h \in Nat,
         surfaces[d] \in ImagesOf(w, h), NEW sw \in Nat, NEW sh \in Nat,
         NEW src \in ImagesOf(sw, sh), NEW pts \in Seq(Points),
         BlitsComplete(surfaces[d], pts, src)
  PROVE  PixelsOf([surfaces EXCEPT ![d] = BlitAll(surfaces[d], pts, src)], cache)
           = Over(CopiesOf(d, pts, src), PixelsOf(surfaces, cache))
PROOF
<1> DEFINE g == CopiesOf(d, pts, src)
           painted == BlitAll(surfaces[d], pts, src)
<1>1. src.width = sw /\ src.height = sh
  BY DEF ImagesOf
<1>2. /\ DOMAIN g = Under(d, pts, sw, sh)
      /\ \A k \in DOMAIN g : g[k] = At(src, k[3] - pts[TopCopy(pts, sw, sh, k)][1],
                                            k[4] - pts[TopCopy(pts, sw, sh, k)][2])
  BY <1>1 DEF CopiesOf
<1> HIDE DEF g
<1>3. ASSUME NEW k \in DOMAIN g
      PROVE  k = <<"surface", d, k[3], k[4]>> /\ k[3] \in 0 .. w - 1 /\ k[4] \in 0 .. h - 1
  <2>1. k = <<"surface", d, k[3], k[4]>> /\ Copies(pts, sw, sh, k) # {}
    <3>1. k \in Under(d, pts, sw, sh)
      BY <1>2
    <3>2. IsUnder(d, pts, sw, sh, k)
      BY UnderKeys
    <3> QED BY <3>1, <3>2 DEF IsUnder
  <2>2. PICK n \in DOMAIN pts : Covers(pts[n][1], pts[n][2], sw, sh, k)
    BY <2>1 DEF Copies
  <2> DEFINE x == pts[n][1]
             y == pts[n][2]
  <2>3. x \in Nat /\ y \in Nat
    BY DEF Points
  <2>4. Complete(Outcome(surfaces[d], x, y, sw, sh))
    BY <1>1, <2>2 DEF BlitsComplete
  <2> HIDE DEF x, y
  <2>5. Inside(x, y, sw, sh, w, h)
    BY <2>3, <2>4, CompleteInside
  <2>6. k[3] \in x .. x + sw - 1 /\ k[4] \in y .. y + sh - 1
    BY <2>2 DEF Covers, x, y
  <2> QED BY <2>1, <2>5, <2>6 DEF Inside
<1>4. ASSUME NEW x \in 0 .. w - 1, NEW y \in 0 .. h - 1
      PROVE  At(painted, x, y) = IF <<"surface", d, x, y>> \in DOMAIN g
                                 THEN g[<<"surface", d, x, y>>]
                                 ELSE At(surfaces[d], x, y)
  <2> DEFINE k == <<"surface", d, x, y>>
             on == Covering(pts, sw, sh, x, y)
             top == TopCopy(pts, sw, sh, k)
  <2>1. k[3] = x /\ k[4] = y /\ k = <<"surface", d, k[3], k[4]>>
    OBVIOUS
  <2> HIDE DEF k
  <2>2. on = Copies(pts, sw, sh, k)
    <3>1. IsUnder(d, pts, sw, sh, k)
      BY UnderKeys
    <3> QED BY <2>1, <3>1 DEF IsUnder
  <2>3. k \in DOMAIN g <=> on # {}
    <3>1. IsUnder(d, pts, sw, sh, k)
      BY UnderKeys
    <3> QED BY <1>2, <2>1, <2>2, <3>1 DEF IsUnder
  <2> DEFINE col == [n \in 1 .. Len(pts) |-> At(src, x - pts[n][1], y - pts[n][2])]
  <2>4. /\ LastDrawn(on, At(surfaces[d], x, y), col, At(painted, x, y))
        /\ \A n \in on : col[n] = At(src, x - pts[n][1], y - pts[n][2])
    <3>1. LastDrawn(on, At(surfaces[d], x, y), col, At(painted, x, y))
      BY BlitAllAt
    <3>2. on \subseteq 1 .. Len(pts)
      BY DEF Covering
    <3> QED BY <3>1, <3>2
  <2> HIDE DEF col
  <2>5. ASSUME on # {}
        PROVE  At(painted, x, y) = g[k]
    <3>1. top \in on /\ \A j \in on : j <= top
      BY <2>2, <2>5, TopCopyIsTop
    <3> HIDE DEF top, on
    <3>2. At(painted, x, y) = At(src, x - pts[top][1], y - pts[top][2])
      BY <2>4, <3>1 DEF LastDrawn
    <3>3. k \in DOMAIN g
      BY <2>3, <2>5
    <3> HIDE DEF painted
    <3> QED BY <3>2, <3>3, <1>2, <2>1 DEF top
  <2> HIDE DEF on, painted
  <2>6. At(painted, x, y) = IF k \in DOMAIN g THEN g[k] ELSE At(surfaces[d], x, y)
    BY <2>3, <2>4, <2>5 DEF LastDrawn
  <2> QED BY <2>6 DEF k
<1>5. painted \in ImagesOf(w, h)
  BY BlitAllImage
<1> HIDE DEF painted
<1>6. PixelsOf([surfaces EXCEPT ![d] = painted], cache) = Over(g, PixelsOf(surfaces, cache))
  BY <1>3, <1>4, <1>5, Repainted
<1> QED BY <1>6 DEF g, painted

LEMMA CacheToSurfaceDone ==
  ASSUME GfxTypes, NEW slot \in CacheSlots, NEW s \in SurfaceIds,
         NEW pts \in PointLists, CacheToSurface(slot, s, pts)
  PROVE  Done(PromiseCacheCopy(slot, s, pts))
PROOF
<1> DEFINE src == cache[slot]
           painted == BlitAll(surfaces[s], pts, src)
           ok == BlitsComplete(surfaces[s], pts, src)
<1>1. CASE ~ Live(s) \/ slot \notin DOMAIN cache
  BY <1>1, DiscardDone DEF CacheToSurface
<1>2. CASE Live(s) /\ slot \in DOMAIN cache
  <2>1. s \in DOMAIN surfaces /\ Paint(s, painted, ok)
    BY <1>2 DEF CacheToSurface, Live
  <2>2. PICK w \in Nat, h \in Nat : surfaces[s] \in ImagesOf(w, h)
    BY <2>1 DEF GfxTypes, AllImages, SomeImage
  <2>3. PICK sw \in Nat, sh \in Nat : src \in ImagesOf(sw, sh)
    BY <1>2 DEF GfxTypes, AllImages, SomeImage
  <2>4. pts \in Seq(Points)
    BY PduAssumption
  <2>5. PromiseCacheCopy(slot, s, pts) = Over(CopiesOf(s, pts, src), PixelsOf(surfaces, cache))
    BY <1>2, PixelsNow DEF PromiseCacheCopy, PromiseCopies, CopiesOf, Under,
                           TopCopy, Copies, At
  <2> HIDE DEF src
  <2>6. ok => PixelsOf([surfaces EXCEPT ![s] = painted], cache) = PromiseCacheCopy(slot, s, pts)
    BY <2>1, <2>2, <2>3, <2>4, <2>5, CopiedOver
  <2> HIDE DEF painted, ok
  <2> QED BY <2>1, <2>6, PaintDone
<1> QED BY <1>1, <1>2

LEMMA SurfaceToSurfaceDone ==
  ASSUME GfxTypes, NEW s \in SurfaceIds, NEW r \in Rects, NEW d \in SurfaceIds,
         NEW pts \in PointLists, SurfaceToSurface(s, r, d, pts)
  PROVE  Done(PromiseSurfaceCopy(s, r, d, pts))
PROOF
<1> DEFINE sw == RectWidth(r)
           sh == RectHeight(r)
           src == ExtractRect(surfaces[s], r.left, r.top, sw, sh)
           painted == BlitAll(surfaces[d], pts, src)
           ok == /\ Complete(Outcome(surfaces[s], r.left, r.top, sw, sh))
                 /\ BlitsComplete(surfaces[d], pts, src)
<1>1. CASE Inverted(r) \/ ~ Live(s) \/ ~ Live(d)
  BY <1>1, DiscardDone DEF SurfaceToSurface
<1>2. CASE ~ Inverted(r) /\ Live(s) /\ Live(d)
  <2>1. s \in DOMAIN surfaces /\ d \in DOMAIN surfaces /\ Paint(d, painted, ok)
    BY <1>2 DEF SurfaceToSurface, Live
  <2>2. PICK w \in Nat, h \in Nat : surfaces[d] \in ImagesOf(w, h)
    BY <2>1 DEF GfxTypes, AllImages, SomeImage
  <2>3. PICK ow \in Nat, oh \in Nat : surfaces[s] \in ImagesOf(ow, oh)
    BY <2>1 DEF GfxTypes, AllImages, SomeImage
  <2>4. pts \in Seq(Points)
    BY PduAssumption
  <2> DEFINE left == r.left
             above == r.top
  <2>5. left \in Nat /\ above \in Nat /\ sw \in Nat /\ sh \in Nat
    BY <1>2, RectangleSize
  <2>6. src \in ImagesOf(sw, sh) /\ IsCopy(src, surfaces[s], left, above)
    <3> HIDE DEF sw, sh
    <3>1. \A x, y \in Nat : /\ ExtractRect(surfaces[s], x, y, sw, sh) \in ImagesOf(sw, sh)
                            /\ IsCopy(ExtractRect(surfaces[s], x, y, sw, sh), surfaces[s], x, y)
      BY <2>3, <2>5, ExtractRectImage
    <3> QED BY <2>5, <3>1
  <2>7. src.width = sw /\ src.height = sh
    BY <2>6 DEF ImagesOf
  <2> DEFINE asked == [k \in Under(d, pts, sw, sh) |->
                         LET n == TopCopy(pts, sw, sh, k)
                         IN  ColorAt(s, left + (k[3] - pts[n][1]), above + (k[4] - pts[n][2]))]
  <2>8. PromiseSurfaceCopy(s, r, d, pts) = Over(asked, PixelsOf(surfaces, cache))
    BY PixelsNow DEF PromiseSurfaceCopy, PromiseCopies, Under, TopCopy, Copies
  <2>9. ASSUME ok
        PROVE  asked = CopiesOf(d, pts, src)
    <3>1. Inside(left, above, sw, sh, ow, oh)
      <4>1. Complete(Outcome(surfaces[s], left, above, sw, sh))
        BY <2>9
      <4> HIDE DEF left, above, sw, sh
      <4> QED BY <2>3, <2>5, <4>1, CompleteInside
    <3>2. ASSUME NEW x \in 0 .. sw - 1, NEW y \in 0 .. sh - 1
          PROVE  ColorAt(s, left + x, above + y) = At(src, x, y)
      <4> HIDE DEF left, above, sw, sh, src
      <4>1. left + x \in left .. left + sw - 1 /\ above + y \in above .. above + sh - 1
        BY <2>5
      <4>2. left + x \in 0 .. ow - 1 /\ above + y \in 0 .. oh - 1
        BY <3>1, <4>1 DEF Inside
      <4>3. At(src, x, y) = At(surfaces[s], left + x, above + y)
        <5>1. surfaces[s].width = ow /\ surfaces[s].height = oh
          BY <2>3 DEF ImagesOf
        <5> QED BY <2>5, <2>6, <2>7, <4>2, <5>1 DEF IsCopy
      <4> QED BY <2>1, <2>3, <4>2, <4>3, ColorAtInside
    <3>3. ASSUME NEW k \in Under(d, pts, sw, sh)
          PROVE  LET n == TopCopy(pts, sw, sh, k)
                 IN  /\ k[3] - pts[n][1] \in 0 .. sw - 1
                     /\ k[4] - pts[n][2] \in 0 .. sh - 1
      <4> DEFINE n == TopCopy(pts, sw, sh, k)
      <4> HIDE DEF sw, sh
      <4>1. Copies(pts, sw, sh, k) # {}
        <5>1. IsUnder(d, pts, sw, sh, k)
          BY <2>4, UnderKeys
        <5> QED BY <5>1 DEF IsUnder
      <4>2. n \in Copies(pts, sw, sh, k)
        BY <2>4, <4>1, TopCopyIsTop
      <4> HIDE DEF n
      <4>3. n \in DOMAIN pts /\ Covers(pts[n][1], pts[n][2], sw, sh, k)
        BY <4>2 DEF Copies
      <4> DEFINE x == pts[n][1]
                 y == pts[n][2]
      <4>4. x \in Nat /\ y \in Nat
        BY <2>4, <4>3 DEF Points
      <4>5. k[3] \in x .. x + sw - 1 /\ k[4] \in y .. y + sh - 1
        BY <4>3 DEF Covers
      <4> HIDE DEF x, y
      <4>6. k[3] - x \in 0 .. sw - 1 /\ k[4] - y \in 0 .. sh - 1
        BY <2>5, <4>4, <4>5
      <4> QED BY <4>6 DEF n, x, y
    <3> HIDE DEF left, above, sw, sh, src
    <3> QED BY <2>7, <3>2, <3>3 DEF CopiesOf
  <2>10. ok => PixelsOf([surfaces EXCEPT ![d] = painted], cache) = PromiseSurfaceCopy(s, r, d, pts)
    <3>1. ok => BlitsComplete(surfaces[d], pts, src)
      OBVIOUS
    <3> HIDE DEF src, sw, sh, ok, asked
    <3>2. ok => PixelsOf([surfaces EXCEPT ![d] = painted], cache)
                  = Over(CopiesOf(d, pts, src), PixelsOf(surfaces, cache))
      BY <2>1, <2>2, <2>4, <2>5, <2>6, <3>1, CopiedOver
    <3> HIDE DEF painted
    <3> QED BY <2>8, <2>9, <3>2
  <2> HIDE DEF painted, ok
  <2> QED BY <2>1, <2>10, PaintDone
<1> QED BY <1>1, <1>2

LEMMA SurfaceToCacheDone ==
  ASSUME GfxTypes, NEW s \in SurfaceIds, NEW r \in Rects, NEW slot \in CacheSlots,
         SurfaceToCache(s, r, slot)
  PROVE  Done(PromiseCache(s, r, slot))
PROOF
<1> DEFINE sw == RectWidth(r)
           sh == RectHeight(r)
           left == r.left
           above == r.top
           src == ExtractRect(surfaces[s], left, above, sw, sh)
           ok == Complete(Outcome(surfaces[s], left, above, sw, sh))
           g == [k \in {"cache"} \X {slot} \X (0 .. sw - 1) \X (0 .. sh - 1) |->
                   ColorAt(s, left + k[3], above + k[4])]
<1>1. CASE Inverted(r) \/ ~ Live(s)
  BY <1>1, DiscardDone DEF SurfaceToCache
<1>2. CASE ~ Inverted(r) /\ Live(s)
  <2>1. /\ s \in DOMAIN surfaces /\ surfaces' = surfaces
        /\ cache' = Put(cache, slot, src) /\ reported' = ~ ok
    BY <1>2 DEF SurfaceToCache, Live
  <2>2. PICK w \in Nat, h \in Nat : surfaces[s] \in ImagesOf(w, h)
    BY <2>1 DEF GfxTypes, AllImages, SomeImage
  <2>3. left \in Nat /\ above \in Nat /\ sw \in Nat /\ sh \in Nat
    BY <1>2, RectangleSize
  <2>4. PromiseCache(s, r, slot) = Over(g, Left(surfaces, cache, "cache", slot))
    BY PixelsNow DEF PromiseCache
  <2> HIDE DEF left, above, sw, sh, ok, g
  <2>5. src \in ImagesOf(sw, sh) /\ IsCopy(src, surfaces[s], left, above)
    BY <2>2, <2>3, ExtractRectImage
  <2>6. src.width = sw /\ src.height = sh /\ surfaces[s].width = w /\ surfaces[s].height = h
    BY <2>2, <2>5 DEF ImagesOf
  <2> HIDE DEF src
  <2>7. ASSUME ok
        PROVE  Shows(g, "cache", slot, src)
    <3>1. Inside(left, above, sw, sh, w, h)
      BY <2>2, <2>3, <2>7, CompleteInside DEF ok
    <3>2. ASSUME NEW x \in 0 .. sw - 1, NEW y \in 0 .. sh - 1
          PROVE  ColorAt(s, left + x, above + y) = At(src, x, y)
      <4>1. left + x \in left .. left + sw - 1 /\ above + y \in above .. above + sh - 1
        BY <2>3
      <4>2. left + x \in 0 .. w - 1 /\ above + y \in 0 .. h - 1
        BY <3>1, <4>1 DEF Inside
      <4>3. At(src, x, y) = At(surfaces[s], left + x, above + y)
        BY <2>3, <2>5, <2>6, <4>2 DEF IsCopy
      <4> QED BY <2>1, <2>2, <4>2, <4>3, ColorAtInside
    <3>3. \A k : k \in DOMAIN g <=> /\ k = <<"cache", slot, k[3], k[4]>>
                                    /\ k[3] \in 0 .. sw - 1 /\ k[4] \in 0 .. sh - 1
      BY DEF g
    <3>4. \A k \in DOMAIN g : g[k] = ColorAt(s, left + k[3], above + k[4])
      BY DEF g
    <3> QED BY <2>6, <3>2, <3>3, <3>4 DEF Shows
  <2>8. Pixels' = PixelsOf(surfaces, Put(cache, slot, src))
    BY <2>1, PixelsNow
  <2>9. ok => PixelsOf(surfaces, Put(cache, slot, src))
                = Over(g, Left(surfaces, cache, "cache", slot))
    BY <2>7, Replaced
  <2> QED BY <2>1, <2>4, <2>8, <2>9 DEF Done
<1> QED BY <1>1, <1>2

-----------------------------------------------------------------------------
(* The tiles of a progressive region.                                       *)
Cells(s, x0, y0, region, n) ==
  {k \in Area(s, x0 + region.tiles[n].x * TileSize,
              y0 + region.tiles[n].y * TileSize, TileSize, TileSize) :
     \E r \in Range(region.rects) : Covers(x0 + r.x, y0 + r.y, r.w, r.h, k)}

TopTile(s, x0, y0, region, k) ==
  CHOOSE n \in DOMAIN region.tiles :
    k \in Cells(s, x0, y0, region, n)
      /\ \A m \in DOMAIN region.tiles : k \in Cells(s, x0, y0, region, m) => m <= n

LEMMA CellKeys ==
  ASSUME NEW s, NEW x0, NEW y0, NEW region, NEW n, NEW k, region.rects \in Seq(Damage)
  PROVE  k \in Cells(s, x0, y0, region, n) <=>
           /\ k = <<"surface", s, k[3], k[4]>>
           /\ TileCovers(region.tiles[n], region.rects, <<x0, y0>>, k[3], k[4])
PROOF
<1> DEFINE t == region.tiles[n]
           rects == region.rects
           o == <<x0, y0>>
<1>1. k \in Cells(s, x0, y0, region, n) <=>
        /\ k \in Area(s, x0 + t.x * TileSize, y0 + t.y * TileSize, TileSize, TileSize)
        /\ \E r \in Range(rects) : Covers(x0 + r.x, y0 + r.y, r.w, r.h, k)
  BY DEF Cells
<1>2. k \in Area(s, x0 + t.x * TileSize, y0 + t.y * TileSize, TileSize, TileSize)
        <=> k = <<"surface", s, k[3], k[4]>> /\ InTile(t, o, k[3], k[4])
  BY AreaKeys DEF InTile, TileX, TileY
<1>3. (\E r \in Range(rects) : Covers(x0 + r.x, y0 + r.y, r.w, r.h, k))
        <=> \E m \in 1 .. Len(rects) : InDamage(rects[m], o, k[3], k[4])
  <2>1. DOMAIN rects = 1 .. Len(rects)
    OBVIOUS
  <2>2. \A r : Covers(x0 + r.x, y0 + r.y, r.w, r.h, k) <=> InDamage(r, o, k[3], k[4])
    BY DEF Covers, InDamage
  <2>3. Range(rects) = {rects[m] : m \in DOMAIN rects}
    BY DEF Range
  <2> HIDE DEF rects, o
  <2> QED BY <2>1, <2>2, <2>3
<1> QED BY <1>1, <1>2, <1>3 DEF TileCovers

LEMMA RegionDone ==
  ASSUME GfxTypes, BaselinesCurrent, NEW s \in DOMAIN surfaces,
         NEW x0 \in Nat, NEW y0 \in Nat, NEW region \in Regions,
         Progressive(s, <<x0, y0>>, region)
  PROVE  skipped' \/ Done(PromiseRegion(s, x0, y0, region))
PROOF
<1> DEFINE o == <<x0, y0>>
           tiles == region.tiles
           n == Len(tiles)
           painted == Composite(s, region, o)
           good == \A k \in DOMAIN tiles : tiles[k].kind \notin {"bad", "cut"}
           ok == good /\ CompositeComplete(s, region, o)
           cells == UNION {Cells(s, x0, y0, region, k) : k \in DOMAIN tiles}
           g == [k \in cells |-> tiles[TopTile(s, x0, y0, region, k)].color]
<1>1. Paint(s, painted, ok) /\ skipped' = Skipped(s, tiles)
  BY DEF Progressive
<1>2. /\ tiles \in Seq(Blocks) /\ region.rects \in Seq(Damage) /\ o \in Points
      /\ DOMAIN tiles = 1 .. n /\ n \in Nat
  BY PduAssumption DEF Points
<1>3. PICK w \in Nat, h \in Nat : surfaces[s] \in ImagesOf(w, h)
  BY DEF GfxTypes, AllImages, SomeImage
<1>4. painted \in ImagesOf(w, h)
  BY <1>2, <1>3, CompositeImage
<1>5. good => PromiseRegion(s, x0, y0, region) = Over(g, PixelsOf(surfaces, cache))
  BY PixelsNow DEF PromiseRegion, Cells, TopTile
<1>6. ASSUME ok, ~ Skipped(s, tiles)
      PROVE  PixelsOf([surfaces EXCEPT ![s] = painted], cache)
               = Over(g, PixelsOf(surfaces, cache))
  <2>1. ASSUME NEW k \in 1 .. n
        PROVE  k \in Found(tiles) /\ k \in Pending(s, tiles)
    <3>1. \A j \in 1 .. n : tiles[j].kind # "cut" /\ tiles[j].kind # "bad"
      BY <1>2, <1>6
    <3>2. \A j \in 1 .. k : j \in 1 .. n
      BY <1>2
    <3>3. k \in Found(tiles)
      <4> HIDE DEF tiles, n
      <4> QED BY <1>2, <3>1, <3>2 DEF Found
    <3>4. tiles[k].kind = "first" \/ IsDelta(tiles[k])
      <4>1. tiles[k] \in Blocks
        BY <1>2
      <4> QED BY <3>1, <4>1 DEF Blocks, IsDelta
    <3>5. IsDelta(tiles[k]) => HasBaseline(s, tiles, k)
      BY <1>6, <3>3 DEF Skipped
    <3> QED BY <3>3, <3>4, <3>5 DEF Pending
  <2>2. ASSUME NEW k \in 1 .. n
        PROVE  TileInside(surfaces[s], tiles[k], o)
    BY <1>6, <2>1 DEF CompositeComplete
  <2>3. ASSUME NEW k \in 1 .. n
        PROVE  TileColor(s, tiles, k) = tiles[k].color
    <3>1. tiles[k].kind = "first" \/ HasBaseline(s, tiles, k)
      BY <2>1 DEF Pending
    <3>2. \A key \in DOMAIN tile_baseline : tile_baseline[key]
      BY DEF BaselinesCurrent
    <3> QED BY <3>1, <3>2 DEF HasBaseline, TileColor, Filed
  <2>4. ASSUME NEW k, NEW m \in 1 .. n
        PROVE  k \in Cells(s, x0, y0, region, m) <=>
                 /\ k = <<"surface", s, k[3], k[4]>>
                 /\ TileCovers(tiles[m], region.rects, o, k[3], k[4])
    BY <1>2, CellKeys
  <2>5. \A k : k \in cells <=> \E m \in 1 .. n : k \in Cells(s, x0, y0, region, m)
    BY <1>2
  <2>6. ASSUME NEW k \in DOMAIN g
        PROVE  k = <<"surface", s, k[3], k[4]>> /\ k[3] \in 0 .. w - 1 /\ k[4] \in 0 .. h - 1
    <3>1. PICK m \in 1 .. n : k \in Cells(s, x0, y0, region, m)
      BY <2>5
    <3> DEFINE t == tiles[m]
    <3>2. /\ k = <<"surface", s, k[3], k[4]>>
          /\ InTile(t, o, k[3], k[4])
          /\ \E i \in 1 .. Len(region.rects) : InDamage(region.rects[i], o, k[3], k[4])
      BY <2>4, <3>1 DEF TileCovers
    <3>3. PICK i \in 1 .. Len(region.rects) : InDamage(region.rects[i], o, k[3], k[4])
      BY <3>2
    <3> DEFINE r == region.rects[i]
               p == Overlap(t, r, o)
               px == k[3]
               py == k[4]
    <3>4. t \in Blocks /\ r \in Damage /\ i \in DOMAIN region.rects
      BY <1>2
    <3>5. Complete(Outcome(surfaces[s], p.x, p.y, p.w, p.h))
      BY <1>6, <2>1, <3>4 DEF CompositeComplete
    <3>6. px \in Nat /\ py \in Nat
      <4>1. TileX(t, o) \in Nat /\ TileY(t, o) \in Nat
        BY <1>2, <3>4, TilePlace
      <4> QED BY <3>2, <4>1 DEF InTile
    <3> HIDE DEF t, r, p, o
    <3>7. /\ p.x \in Nat /\ p.y \in Nat /\ p.w \in Nat /\ p.h \in Nat
          /\ \A x, y \in Nat :
                  /\ x \in p.x .. p.x + p.w - 1
                  /\ y \in p.y .. p.y + p.h - 1
                  <=> InTile(t, o, x, y) /\ InDamage(r, o, x, y)
      BY <1>2, <3>4, OverlapAt DEF p
    <3>8. /\ px \in p.x .. p.x + p.w - 1 /\ py \in p.y .. p.y + p.h - 1
      BY <3>2, <3>3, <3>6, <3>7 DEF r
    <3> HIDE DEF px, py
    <3>9. PICK a \in Nat, b \in Nat, c \in Nat, e \in Nat :
            a = p.x /\ b = p.y /\ c = p.w /\ e = p.h
      BY <3>7
    <3>10. Inside(a, b, c, e, w, h)
      <4>1. Complete(Outcome(surfaces[s], a, b, c, e))
        BY <3>5, <3>9
      <4> QED BY <1>3, <4>1, CompleteInside
    <3>11. px \in 0 .. w - 1 /\ py \in 0 .. h - 1
      BY <3>8, <3>9, <3>10 DEF Inside
    <3> QED BY <3>2, <3>11 DEF px, py
  <2>7. ASSUME NEW x \in 0 .. w - 1, NEW y \in 0 .. h - 1
        PROVE  At(painted, x, y) = IF <<"surface", s, x, y>> \in DOMAIN g
                                   THEN g[<<"surface", s, x, y>>]
                                   ELSE At(surfaces[s], x, y)
    <3> DEFINE k == <<"surface", s, x, y>>
               on == CoveringTiles(region, o, x, y)
               top == TopTile(s, x0, y0, region, k)
    <3>1. k[3] = x /\ k[4] = y /\ k = <<"surface", s, k[3], k[4]>>
      OBVIOUS
    <3> HIDE DEF k
    <3>2. \A m \in 1 .. n : m \in on <=> k \in Cells(s, x0, y0, region, m)
      BY <2>4, <3>1 DEF CoveringTiles
    <3>3. on \subseteq 1 .. n
      BY DEF CoveringTiles
    <3>4. k \in DOMAIN g <=> on # {}
      BY <2>5, <3>2, <3>3
    <3> DEFINE col == [i \in 1 .. n |-> TileColor(s, tiles, i)]
    <3>5. /\ LastDrawn(on, At(surfaces[s], x, y), col, At(painted, x, y))
          /\ \A i \in on : col[i] = TileColor(s, tiles, i)
      <4>1. LastDrawn(on, At(surfaces[s], x, y), col, At(painted, x, y))
        <5> HIDE DEF o
        <5> QED BY <1>2, <1>3, <2>1, <2>2, CompositeAt
      <4> QED BY <3>3, <4>1
    <3> HIDE DEF col
    <3>6. ASSUME on # {}
          PROVE  At(painted, x, y) = g[k]
      <4> HIDE DEF on, painted
      <4>1. \E i \in 1 .. n : /\ k \in Cells(s, x0, y0, region, i)
                              /\ \A m \in 1 .. n : k \in Cells(s, x0, y0, region, m) => m <= i
        BY <3>2, <3>3, <3>5, <3>6 DEF LastDrawn
      <4>2. /\ top \in 1 .. n /\ k \in Cells(s, x0, y0, region, top)
            /\ \A m \in 1 .. n : k \in Cells(s, x0, y0, region, m) => m <= top
        BY <1>2, <4>1 DEF TopTile
      <4>3. g[k] = tiles[top].color
        BY <3>4, <3>6
      <4> HIDE DEF top, g
      <4>4. top \in on /\ \A j \in on : j <= top
        BY <3>2, <3>3, <4>2
      <4>5. At(painted, x, y) = TileColor(s, tiles, top)
        BY <3>5, <4>4 DEF LastDrawn
      <4> QED BY <2>3, <4>2, <4>3, <4>5
    <3> HIDE DEF on, painted, g
    <3>7. At(painted, x, y) = IF k \in DOMAIN g THEN g[k] ELSE At(surfaces[s], x, y)
      BY <3>4, <3>5, <3>6 DEF LastDrawn
    <3> QED BY <3>7 DEF k
  <2> HIDE DEF painted, g
  <2> QED BY <1>3, <1>4, <2>6, <2>7, Repainted
<1>7. ASSUME ~ Skipped(s, tiles)
      PROVE  ok => PixelsOf([surfaces EXCEPT ![s] = painted], cache)
                     = PromiseRegion(s, x0, y0, region)
  BY <1>5, <1>6, <1>7
<1> HIDE DEF painted, ok
<1> QED BY <1>1, <1>7, PaintDone

-----------------------------------------------------------------------------
(* Every step keeps the promise or says that it did not.                    *)
LEMMA CreateSurfaceApplied ==
  ASSUME NEW s \in SurfaceIds, NEW size \in Sizes, CreateSurface(s, size)
  PROVE  Pixels' = Over([k \in Area(s, 0, 0, size[1], size[2]) |-> Black],
                        Gone("surface", s))
PROOF
<1> DEFINE w == size[1]
           h == size[2]
           img == NewSurface(w, h)
           g == [k \in Area(s, 0, 0, w, h) |-> Black]
<1>1. w \in Nat /\ h \in Nat
  BY PduAssumption DEF Points
<1>2. surfaces' = Put(surfaces, s, img) /\ cache' = cache
  BY DEF CreateSurface
<1> HIDE DEF w, h
<1>3. img.width = w /\ img.height = h /\ img.pixels = [i \in 0 .. w * h - 1 |-> Black]
  BY DEF NewSurface, Image
<1>4. \A k : k \in DOMAIN g <=> /\ k = <<"surface", s, k[3], k[4]>>
                                /\ k[3] \in 0 .. w - 1 /\ k[4] \in 0 .. h - 1
  <2>1. 0 + w - 1 = w - 1 /\ 0 + h - 1 = h - 1
    BY <1>1
  <2> QED BY <2>1, AreaKeys
<1>5. ASSUME NEW k \in DOMAIN g
      PROVE  g[k] = At(img, k[3], k[4])
  <2> DEFINE x == k[3]
             y == k[4]
  <2>1. x \in 0 .. w - 1 /\ y \in 0 .. h - 1
    BY <1>4
  <2>2. g[k] = Black
    OBVIOUS
  <2> HIDE DEF x, y, g
  <2>3. y * w + x \in 0 .. w * h - 1
    BY <1>1, <2>1, IndexInside
  <2>4. At(img, x, y) = Black
    BY <1>3, <2>3 DEF At
  <2> QED BY <2>2, <2>4 DEF x, y
<1> HIDE DEF img, g
<1>6. Shows(g, "surface", s, img)
  BY <1>3, <1>4, <1>5 DEF Shows
<1>7. PixelsOf(Put(surfaces, s, img), cache) = Over(g, Left(surfaces, cache, "surface", s))
  BY <1>6, Replaced
<1>8. Pixels' = Over(g, Gone("surface", s))
  BY <1>2, <1>7, PixelsNow
<1> QED BY <1>8 DEF g, w, h

LEMMA ProgressiveDone ==
  ASSUME GfxTypes, BaselinesCurrent, NEW s \in SurfaceIds, NEW region \in Regions
  PROVE  /\ WireToSurface2(s, region) => skipped' \/ Done(PromiseRegion(s, 0, 0, region))
         /\ \A r \in Rects : WireToSurface1Progressive(s, r, region) =>
              skipped' \/ Done(PromiseRegion(s, r.left, r.top, region))
PROOF
<1>1. ASSUME WireToSurface2(s, region)
      PROVE  skipped' \/ Done(PromiseRegion(s, 0, 0, region))
  <2>1. CASE ~ Live(s)
    BY <1>1, <2>1, DiscardDone DEF WireToSurface2
  <2>2. CASE Live(s)
    <3>1. \A z \in Nat : Progressive(s, <<z, z>>, region) =>
            skipped' \/ Done(PromiseRegion(s, z, z, region))
      BY <2>2, RegionDone DEF Live
    <3>2. Progressive(s, <<0, 0>>, region)
      BY <1>1, <2>2 DEF WireToSurface2
    <3>3. 0 \in Nat
      OBVIOUS
    <3> QED BY <3>1, <3>2, <3>3
  <2> QED BY <2>1, <2>2
<1>2. ASSUME NEW r \in Rects, WireToSurface1Progressive(s, r, region)
      PROVE  skipped' \/ Done(PromiseRegion(s, r.left, r.top, region))
  <2>1. CASE Inverted(r) \/ ~ Live(s)
    BY <1>2, <2>1, DiscardDone DEF WireToSurface1Progressive
  <2>2. CASE ~ Inverted(r) /\ Live(s)
    <3>1. r.left \in Nat /\ r.top \in Nat
      BY <2>2, RectangleSize
    <3>2. Progressive(s, <<r.left, r.top>>, region)
      BY <1>2, <2>2 DEF WireToSurface1Progressive
    <3> QED BY <2>2, <3>1, <3>2, RegionDone DEF Live
  <2> QED BY <2>1, <2>2
<1> QED BY <1>1, <1>2

LEMMA PromiseStep ==
  ASSUME GfxInv, GfxTypes, PromiseNext
  PROVE  AppliedOrAccountedFor'
PROOF
<1>1. BaselinesCurrent
  BY DEF GfxInv
<1>2. ASSUME surfaces' = surfaces, cache' = cache, promised' = Pixels
      PROVE  AppliedOrAccountedFor'
  BY <1>2, PixelsNow DEF AppliedOrAccountedFor
<1>3. ASSUME Done(promised') \/ skipped'
      PROVE  AppliedOrAccountedFor'
  BY <1>3 DEF Done, AppliedOrAccountedFor
<1>4. CASE /\ \/ \E size \in Desktops : ResetGraphics(size)
              \/ EndFrame
              \/ Uneventful
              \/ ReturnActions
           /\ promised' = Pixels
  BY <1>2, <1>4 DEF ResetGraphics, EndFrame, Uneventful, ReturnActions
<1>5. CASE RejectedPdu
  BY <1>3, <1>5, DiscardDone DEF RejectedPdu
<1>6. ASSUME NEW slot \in CacheSlots,
             EvictCacheEntry(slot) /\ promised' = Gone("cache", slot)
      PROVE  AppliedOrAccountedFor'
  <2>1. surfaces' = surfaces /\ cache' = Without(cache, slot)
    BY <1>6 DEF EvictCacheEntry
  <2>2. PixelsOf(surfaces, Without(cache, slot)) = Left(surfaces, cache, "cache", slot)
    BY Removed
  <2> QED BY <1>6, <2>1, <2>2, PixelsNow DEF AppliedOrAccountedFor
<1>7. ASSUME NEW s \in SurfaceIds
      PROVE  /\ \A size \in Sizes :
                  /\ CreateSurface(s, size)
                  /\ promised' = Over([k \in Area(s, 0, 0, size[1], size[2]) |-> Black],
                                      Gone("surface", s))
                  => AppliedOrAccountedFor'
             /\ DeleteSurface(s) /\ promised' = Gone("surface", s)
                  => AppliedOrAccountedFor'
             /\ \A o \in Origins : MapSurfaceToOutput(s, o) /\ promised' = Pixels
                  => AppliedOrAccountedFor'
             /\ \A rects \in RectLists, c \in Colors :
                  SolidFill(s, rects, c) /\ promised' = PromiseFill(s, rects, c)
                  => AppliedOrAccountedFor'
             /\ \A slot \in CacheSlots, pts \in PointLists :
                  CacheToSurface(slot, s, pts) /\ promised' = PromiseCacheCopy(slot, s, pts)
                  => AppliedOrAccountedFor'
             /\ \A region \in Regions :
                  WireToSurface2(s, region) /\ promised' = PromiseRegion(s, 0, 0, region)
                  => AppliedOrAccountedFor'
  <2>1. ASSUME NEW size \in Sizes, CreateSurface(s, size),
               promised' = Over([k \in Area(s, 0, 0, size[1], size[2]) |-> Black],
                                Gone("surface", s))
        PROVE  AppliedOrAccountedFor'
    BY <2>1, CreateSurfaceApplied DEF AppliedOrAccountedFor
  <2>2. ASSUME DeleteSurface(s), promised' = Gone("surface", s)
        PROVE  AppliedOrAccountedFor'
    <3>1. surfaces' = Without(surfaces, s) /\ cache' = cache
      BY <2>2 DEF DeleteSurface
    <3>2. PixelsOf(Without(surfaces, s), cache) = Left(surfaces, cache, "surface", s)
      BY Removed
    <3> QED BY <2>2, <3>1, <3>2, PixelsNow DEF AppliedOrAccountedFor
  <2>3. ASSUME NEW o \in Origins, MapSurfaceToOutput(s, o), promised' = Pixels
        PROVE  AppliedOrAccountedFor'
    BY <1>2, <2>3 DEF MapSurfaceToOutput
  <2>4. ASSUME NEW rects \in RectLists, NEW c \in Colors, SolidFill(s, rects, c),
               promised' = PromiseFill(s, rects, c)
        PROVE  AppliedOrAccountedFor'
    BY <1>3, <2>4, SolidFillDone
  <2>5. ASSUME NEW slot \in CacheSlots, NEW pts \in PointLists,
               CacheToSurface(slot, s, pts), promised' = PromiseCacheCopy(slot, s, pts)
        PROVE  AppliedOrAccountedFor'
    BY <1>3, <2>5, CacheToSurfaceDone
  <2>6. ASSUME NEW region \in Regions, WireToSurface2(s, region),
               promised' = PromiseRegion(s, 0, 0, region)
        PROVE  AppliedOrAccountedFor'
    <3>1. skipped' \/ Done(PromiseRegion(s, 0, 0, region))
      BY <1>1, <2>6, ProgressiveDone
    <3> QED BY <1>3, <2>6, <3>1
  <2> QED BY <2>1, <2>2, <2>3, <2>4, <2>5, <2>6
<1>8. ASSUME NEW s \in SurfaceIds, NEW r \in Rects
      PROVE  /\ \A c \in Colors :
                  WireToSurface1(s, r, c) /\ promised' = PromiseFill(s, <<r>>, c)
                  => AppliedOrAccountedFor'
             /\ WireToSurface1Undecodable(s, r) => AppliedOrAccountedFor'
             /\ \A region \in Regions :
                  /\ WireToSurface1Progressive(s, r, region)
                  /\ promised' = PromiseRegion(s, r.left, r.top, region)
                  => AppliedOrAccountedFor'
             /\ \A d \in SurfaceIds, pts \in PointLists :
                  /\ SurfaceToSurface(s, r, d, pts)
                  /\ promised' = PromiseSurfaceCopy(s, r, d, pts)
                  => AppliedOrAccountedFor'
             /\ \A slot \in CacheSlots :
                  SurfaceToCache(s, r, slot) /\ promised' = PromiseCache(s, r, slot)
                  => AppliedOrAccountedFor'
  <2>1. ASSUME NEW c \in Colors, WireToSurface1(s, r, c),
               promised' = PromiseFill(s, <<r>>, c)
        PROVE  AppliedOrAccountedFor'
    BY <1>3, <2>1, WireToSurface1Done
  <2>2. ASSUME WireToSurface1Undecodable(s, r)
        PROVE  AppliedOrAccountedFor'
    <3>1. reported'
      BY <2>2 DEF WireToSurface1Undecodable, Discard, Report, Paint
    <3> QED BY <3>1 DEF AppliedOrAccountedFor
  <2>3. ASSUME NEW region \in Regions, WireToSurface1Progressive(s, r, region),
               promised' = PromiseRegion(s, r.left, r.top, region)
        PROVE  AppliedOrAccountedFor'
    <3>1. skipped' \/ Done(PromiseRegion(s, r.left, r.top, region))
      BY <1>1, <2>3, ProgressiveDone
    <3> QED BY <1>3, <2>3, <3>1
  <2>4. ASSUME NEW d \in SurfaceIds, NEW pts \in PointLists,
               SurfaceToSurface(s, r, d, pts), promised' = PromiseSurfaceCopy(s, r, d, pts)
        PROVE  AppliedOrAccountedFor'
    BY <1>3, <2>4, SurfaceToSurfaceDone
  <2>5. ASSUME NEW slot \in CacheSlots, SurfaceToCache(s, r, slot),
               promised' = PromiseCache(s, r, slot)
        PROVE  AppliedOrAccountedFor'
    BY <1>3, <2>5, SurfaceToCacheDone
  <2> QED BY <2>1, <2>2, <2>3, <2>4, <2>5
<1> HIDE DEF AppliedOrAccountedFor
<1> QED BY <1>4, <1>5, <1>6, <1>7, <1>8, Zenon DEF PromiseNext

LEMMA PromiseNextIsNext ==
  ASSUME [PromiseNext]_promiseVars
  PROVE  [Next]_gfxVars
PROOF
<1>1. ASSUME PromiseNext PROVE Next
  BY <1>1, Zenon DEF PromiseNext, Next, Apply
<1>2. UNCHANGED promiseVars => UNCHANGED gfxVars
  BY DEF promiseVars, gfxVars
<1> QED BY <1>1, <1>2

(* Whatever surfaces, rectangles, points and regions the server names, and  *)
(* however they overlap or leave the surface: an update that is neither     *)
(* reported nor counted has had exactly the effect that was asked for, and  *)
(* no other pixel of any surface or cached rectangle has changed            *)
(* (gfxstate.rs:13-15, 180-514).                                            *)
THEOREM UpdatesAppliedOrAccountedFor == PromiseSpec => []AppliedOrAccountedFor
PROOF
<1>1. PromiseInit => AppliedOrAccountedFor
  <2>1. SUFFICES ASSUME surfaces = <<>>, cache = <<>>, promised = <<>>
                 PROVE  Pixels = promised
    BY DEF PromiseInit, Init, AppliedOrAccountedFor
  <2>2. \A k : ~ Names(k, "surface", surfaces) /\ ~ Names(k, "cache", cache)
    BY <2>1 DEF Names
  <2>3. IsFunction(Pixels) /\ DOMAIN Pixels = {}
    BY <2>2, PixelsNow, PixelKeys
  <2>4. IsFunction(promised) /\ DOMAIN promised = {}
    BY <2>1 DEF IsFunction
  <2> QED BY <2>3, <2>4, SameFunction
<1>2. PromiseInit => Init
  BY DEF PromiseInit
<1>3. GfxInv /\ GfxTypes /\ AppliedOrAccountedFor /\ [PromiseNext]_promiseVars
        => AppliedOrAccountedFor'
  <2>1. CASE UNCHANGED promiseVars
    <3>1. /\ surfaces' = surfaces /\ cache' = cache /\ promised' = promised
          /\ reported' = reported /\ skipped' = skipped
      BY <2>1 DEF promiseVars, gfxVars
    <3>2. Pixels' = Pixels
      BY <3>1, PixelsNow
    <3> QED BY <3>1, <3>2 DEF AppliedOrAccountedFor
  <2> QED BY <2>1, PromiseStep
<1> QED BY <1>1, <1>2, <1>3, PromiseNextIsNext, GfxInit, GfxNext, GfxTypesInit,
           GfxTypesNext, PTL DEF PromiseSpec

=============================================================================
