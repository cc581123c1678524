-------------------------- MODULE GfxState_proofs --------------------------
(***************************************************************************)
(* What holds of GfxState for every set of surfaces, rectangles, regions   *)
(* and colours: its bookkeeping, and the images its loops draw.            *)
(***************************************************************************)
EXTENDS GfxState, FiniteSetTheorems, SequenceTheorems, WellFoundedInduction,
        TLAPS

-----------------------------------------------------------------------------
(* A set of natural numbers that is not empty has a least element.          *)
LEMMA NatMinimum ==
  ASSUME NEW T, T \subseteq Nat, T # {}
  PROVE  \E m \in T : \A k \in T : m <= k
PROOF
<1> DEFINE R == {p \in Nat \X Nat : p[1] < p[2]}
<1>1. OpToRel(<, Nat) = R
  BY DEF OpToRel
<1>2. IsWellFoundedOn(R, Nat)
  BY <1>1, NatLessThanWellFounded
<1>3. PICK m \in T : \A y \in T : ~ (<<y, m>> \in R)
  <2> HIDE DEF R
  <2> QED BY <1>2, WFMin
<1>4. ASSUME NEW k \in T PROVE m <= k
  <2>1. k \in Nat /\ m \in Nat
    OBVIOUS
  <2>2. ~ (<<k, m>> \in R)
    BY <1>3
  <2> QED BY <2>1, <2>2
<1> QED BY <1>4

(* What holds of 0 and goes on from each number to the next holds up to n.  *)
LEMMA UpTo ==
  ASSUME NEW n \in Nat, NEW P, 0 \in P, \A k \in 1 .. n : k - 1 \in P => k \in P
  PROVE  \A k \in 0 .. n : k \in P
PROOF
<1> DEFINE T == {k \in 0 .. n : k \notin P}
<1>1. SUFFICES ASSUME T # {} PROVE FALSE
  OBVIOUS
<1>2. PICK m \in T : \A k \in T : m <= k
  <2>1. T \subseteq Nat
    OBVIOUS
  <2> HIDE DEF T
  <2> QED BY <1>1, <2>1, NatMinimum
<1>3. m \in 1 .. n /\ m - 1 \in 0 .. n
  OBVIOUS
<1>4. m - 1 \in P
  BY <1>2, <1>3
<1> QED BY <1>3, <1>4

(* A cell written to n times, or left as it was: of several writers the     *)
(* last wins, and there is a last one.                                      *)
LastOf(n, v, col, on) ==
  /\ on = {} => v[n] = v[0]
  /\ \A k \in on : (\A j \in on : j <= k) => v[n] = col[k]
  /\ on # {} => \E k \in on : \A j \in on : j <= k

LEMMA LastWins ==
  ASSUME NEW n \in Nat, NEW v, NEW col, NEW on \in SUBSET (1 .. n),
         \A k \in 1 .. n : v[k] = IF k \in on THEN col[k] ELSE v[k - 1]
  PROVE  LastOf(n, v, col, on)
PROOF
<1> DEFINE Top(m, k) == /\ k \in on /\ k <= m
                         /\ \A j \in on : j <= m => j <= k
                         /\ v[m] = col[k]
           None(m) == (\A j \in on : ~ (j <= m)) /\ v[m] = v[0]
           P == {m \in 0 .. n : None(m) \/ \E k \in on : Top(m, k)}
<1>1. 0 \in P
  OBVIOUS
<1>2. ASSUME NEW m \in 1 .. n, m - 1 \in P
      PROVE  m \in P
  <2>1. \A j \in on : j <= m <=> j <= m - 1 \/ j = m
    OBVIOUS
  <2>2. CASE m \in on
    <3>1. v[m] = col[m]
      BY <2>2
    <3>2. Top(m, m)
      BY <2>2, <3>1
    <3> HIDE DEF Top, None
    <3> QED BY <2>2, <3>2
  <2>3. CASE m \notin on
    <3>1. v[m] = v[m - 1]
      BY <2>3
    <3>2. None(m - 1) => None(m)
      BY <2>1, <2>3, <3>1
    <3>3. \A k \in on : Top(m - 1, k) => Top(m, k)
      BY <2>1, <2>3, <3>1
    <3>4. None(m - 1) \/ \E k \in on : Top(m - 1, k)
      BY <1>2
    <3> HIDE DEF Top, None
    <3> QED BY <3>2, <3>3, <3>4
  <2> QED BY <2>2, <2>3
<1>3. n \in P
  <2> HIDE DEF P
  <2> QED BY <1>1, <1>2, UpTo
<1>4. \A j \in on : j \in 1 .. n
  OBVIOUS
<1>5. CASE None(n)
  <2>1. on = {}
    BY <1>4, <1>5
  <2> QED BY <1>5, <2>1 DEF LastOf
<1>6. ASSUME NEW i \in on, Top(n, i)
      PROVE  \A k \in on : (\A j \in on : j <= k) => v[n] = col[k]
  <2>1. ASSUME NEW k \in on, \A j \in on : j <= k
        PROVE  k = i
    BY <1>4, <1>6, <2>1
  <2> QED BY <2>1, <1>6
<1>7. ASSUME NEW i \in on, Top(n, i) PROVE \A j \in on : j <= i
  BY <1>4, <1>7
<1> QED BY <1>3, <1>5, <1>6, <1>7 DEF LastOf

(* The intermediate results of a loop whose body is the function F. *)
Results(f, F, S, start, n) ==
  /\ f \in [0 .. n -> S]
  /\ f[0] = start
  /\ \A k \in 1 .. n : f[k] = F[<<f[k - 1], k>>]

LEMMA LoopFunction ==
  ASSUME NEW n \in Nat, NEW S, NEW start \in S, NEW F \in [S \X (1 .. n) -> S]
  PROVE  \E f : Results(f, F, S, start, n)
PROOF
<1> USE DEF Results
<1> DEFINE Runs(f, m) == Results(f, F, S, start, m)
           P == {m \in 0 .. n : \E f : Runs(f, m)}
<1>1. 0 \in P
  <2> DEFINE f == [k \in 0 .. 0 |-> start]
  <2>1. Runs(f, 0)
    OBVIOUS
  <2> HIDE DEF f, Runs
  <2> QED BY <2>1
<1>2. ASSUME NEW m \in 1 .. n, m - 1 \in P
      PROVE  m \in P
  <2>1. PICK f : Runs(f, m - 1)
    BY <1>2
  <2> DEFINE last == F[<<f[m - 1], m>>]
             g == [k \in 0 .. m |-> IF k = m THEN last ELSE f[k]]
  <2>2. f[m - 1] \in S /\ m - 1 \in 0 .. m - 1 /\ m \in Nat \ {0}
    BY <2>1
  <2>3. last \in S
    BY <2>2
  <2>4. g[m] = last /\ \A k \in 0 .. m - 1 : g[k] = f[k]
    <3> HIDE DEF last
    <3> QED BY <2>2
  <2>5. g \in [0 .. m -> S]
    <3> HIDE DEF last
    <3>1. \A k \in 0 .. m : k # m => k \in 0 .. m - 1
      BY <2>2
    <3> QED BY <2>1, <2>3, <3>1
  <2>6. g[0] = start
    BY <2>1, <2>4, <2>2
  <2> HIDE DEF g
  <2>7. \A k \in 1 .. m : g[k] = F[<<g[k - 1], k>>]
    <3>1. ASSUME NEW k \in 1 .. m PROVE g[k] = F[<<g[k - 1], k>>]
      <4>1. k - 1 \in 0 .. m - 1 /\ g[k - 1] = f[k - 1]
        BY <2>4, <2>2
      <4>2. CASE k = m
        BY <4>1, <4>2, <2>4
      <4>3. CASE k # m
        <5>1. k \in 1 .. m - 1 /\ k \in 0 .. m - 1
          BY <4>3, <2>2
        <5> QED BY <4>1, <5>1, <2>4, <2>1
      <4> QED BY <4>2, <4>3
    <3> QED BY <3>1
  <2>8. Runs(g, m)
    BY <2>5, <2>6, <2>7
  <2> HIDE DEF Runs
  <2> QED BY <2>8
<1>3. n \in P
  <2> HIDE DEF P
  <2> QED BY <1>1, <1>2, UpTo
<1> QED BY <1>3

(* Nth(S, k) is the k-th smallest element of S: the number of elements up   *)
(* to m grows by at most one with m, so some element of S is the k-th.      *)
LEMMA NthProperties ==
  ASSUME NEW n \in Nat, NEW S \in SUBSET (1 .. n), NEW k \in 1 .. Cardinality(S)
  PROVE  /\ Nth(S, k) \in S
         /\ Cardinality({j \in S : j <= Nth(S, k)}) = k
PROOF
<1> DEFINE Upto(m) == {j \in S : j <= m}
           T == {m \in Nat : Cardinality(Upto(m)) >= k}
<1>1. IsFiniteSet(S) /\ Cardinality(S) \in Nat /\ S \subseteq Nat
  <2>1. IsFiniteSet(1 .. n)
    BY FS_Interval
  <2>2. IsFiniteSet(S)
    BY <2>1, FS_Subset
  <2> QED BY <2>2, FS_CardinalityType
<1>2. \A m \in Nat : IsFiniteSet(Upto(m)) /\ Cardinality(Upto(m)) \in Nat
  BY <1>1, FS_Subset, FS_CardinalityType
<1>3. Upto(n) = S
  <2>1. \A j \in S : j <= n
    OBVIOUS
  <2> QED BY <2>1
<1>4. n \in T
  BY <1>1, <1>3
<1>5. PICK m \in T : \A i \in T : m <= i
  <2>1. T \subseteq Nat /\ T # {}
    BY <1>4
  <2> HIDE DEF T
  <2> QED BY <2>1, NatMinimum
<1>6. m # 0
  <2>1. \A j \in S : ~ (j <= 0)
    OBVIOUS
  <2>2. Upto(0) = {}
    BY <2>1
  <2>3. Cardinality(Upto(0)) = 0
    BY <2>2, FS_EmptySet
  <2>4. 0 \notin T
    BY <2>3
  <2> HIDE DEF T
  <2> QED BY <2>4
<1>7. m \in Nat /\ m - 1 \in Nat
  BY <1>6
<1>8. m - 1 \notin T
  <2> HIDE DEF T
  <2> QED BY <1>5, <1>7
<1>9. /\ Cardinality(Upto(m - 1)) \in Nat
      /\ Cardinality(Upto(m - 1)) < k
      /\ Cardinality(Upto(m)) >= k
      /\ IsFiniteSet(Upto(m - 1))
  <2>1. ~ (Cardinality(Upto(m - 1)) >= k)
    BY <1>7, <1>8
  <2>2. Cardinality(Upto(m)) >= k
    OBVIOUS
  <2>3. IsFiniteSet(Upto(m - 1)) /\ Cardinality(Upto(m - 1)) \in Nat
    BY <1>2, <1>7
  <2> HIDE DEF Upto, T
  <2> QED BY <2>1, <2>2, <2>3, <1>1
<1>10. \A j \in S : j <= m <=> (j <= m - 1 \/ j = m)
  BY <1>1, <1>7
<1>11. m \in S
  <2>1. SUFFICES ASSUME m \notin S PROVE FALSE
    OBVIOUS
  <2>2. Upto(m) = Upto(m - 1)
    BY <2>1, <1>10
  <2> HIDE DEF Upto, T
  <2> QED BY <2>2, <1>9
<1>12. Cardinality(Upto(m)) = k
  <2>1. Upto(m) = Upto(m - 1) \cup {m}
    <3>1. m <= m
      BY <1>7
    <3> QED BY <3>1, <1>10, <1>11
  <2>2. m \notin Upto(m - 1)
    BY <1>7
  <2> HIDE DEF Upto, T
  <2>3. Cardinality(Upto(m)) = Cardinality(Upto(m - 1)) + 1
    BY <2>1, <2>2, <1>9, FS_AddElement
  <2> QED BY <2>3, <1>9, <1>1
<1> QED BY <1>11, <1>12 DEF Nth

(* What is kept of a sequence are its elements at these indices, none of    *)
(* them taken twice.                                                        *)
LEMMA KeptProperties ==
  ASSUME NEW M, NEW seq \in Seq(M), NEW keep, keep \subseteq DOMAIN seq
  PROVE  /\ Kept(seq, keep) \in Seq(M)
         /\ \E i \in [DOMAIN Kept(seq, keep) -> keep] :
              \A j, k \in DOMAIN Kept(seq, keep) :
                /\ Kept(seq, keep)[k] = seq[i[k]]
                /\ i[j] = i[k] => j = k
PROOF
<1> DEFINE r == Kept(seq, keep)
           i == [k \in 1 .. Cardinality(keep) |-> Nth(keep, k)]
<1>1. DOMAIN seq = 1 .. Len(seq) /\ Len(seq) \in Nat
  OBVIOUS
<1>2. keep \in SUBSET (1 .. Len(seq))
  BY <1>1
<1>3. IsFiniteSet(keep) /\ Cardinality(keep) \in Nat
  <2>1. IsFiniteSet(1 .. Len(seq))
    BY <1>1, FS_Interval
  <2> QED BY <2>1, <1>2, FS_Subset, FS_CardinalityType
<1>4. \A k \in 1 .. Cardinality(keep) :
        /\ i[k] \in keep
        /\ Cardinality({j \in keep : j <= i[k]}) = k
  BY <1>1, <1>2, NthProperties
<1>5. r = [k \in 1 .. Cardinality(keep) |-> seq[Nth(keep, k)]]
  BY DEF Kept
<1> HIDE DEF r
<1>6. /\ DOMAIN r = 1 .. Cardinality(keep)
      /\ \A k \in 1 .. Cardinality(keep) : r[k] = seq[i[k]]
  BY <1>5
<1>7. r \in Seq(M)
  <2>1. \A j \in keep : seq[j] \in M
    BY <1>1, <1>2
  <2>2. \A k \in 1 .. Cardinality(keep) : seq[i[k]] \in M
    <3> HIDE DEF i
    <3> QED BY <2>1, <1>4
  <2> QED BY <2>2, <1>3, <1>5, <1>6
<1>8. i \in [DOMAIN r -> keep]
  BY <1>4, <1>6
<1>9. \A j, k \in DOMAIN r : i[j] = i[k] => j = k
  <2> HIDE DEF i
  <2>1. SUFFICES ASSUME NEW j \in DOMAIN r, NEW k \in DOMAIN r, i[j] = i[k]
                 PROVE  j = k
    OBVIOUS
  <2>2. /\ Cardinality({x \in keep : x <= i[j]}) = j
        /\ Cardinality({x \in keep : x <= i[k]}) = k
    BY <1>4, <1>6
  <2> QED BY <2>1, <2>2
<1> QED
  <2> HIDE DEF i
  <2> QED BY <1>6, <1>7, <1>8, <1>9 DEF r

(* Retaining the mappings of the other surfaces gives a sequence of         *)
(* mappings of other surfaces, none of them taken twice.                    *)
LEMMA RetainOthersProperties ==
  ASSUME NEW M, NEW map \in Seq(M), NEW s
  PROVE  /\ RetainOthers(map, s) \in Seq(M)
         /\ \E i \in [DOMAIN RetainOthers(map, s) -> DOMAIN map] :
              \A j, k \in DOMAIN RetainOthers(map, s) :
                /\ RetainOthers(map, s)[k] = map[i[k]]
                /\ RetainOthers(map, s)[k].id # s
                /\ i[j] = i[k] => j = k
PROOF
<1> DEFINE keep == {k \in DOMAIN map : map[k].id # s}
           r == RetainOthers(map, s)
<1>1. r = Kept(map, keep)
  BY DEF RetainOthers
<1>2. /\ \A k \in keep : map[k].id # s
      /\ keep \subseteq DOMAIN map
  OBVIOUS
<1> HIDE DEF keep, r
<1>3. r \in Seq(M)
  BY <1>1, <1>2, KeptProperties
<1>4. PICK i \in [DOMAIN r -> keep] :
        \A j, k \in DOMAIN r : /\ r[k] = map[i[k]]
                               /\ i[j] = i[k] => j = k
  BY <1>1, <1>2, KeptProperties
<1>5. /\ i \in [DOMAIN r -> DOMAIN map]
      /\ \A k \in DOMAIN r : r[k].id # s
  BY <1>2, <1>4
<1> QED BY <1>3, <1>4, <1>5 DEF r

-----------------------------------------------------------------------------
(* Rows and columns: the row-major index of a pixel. *)
(* Pixel (x, y) has a cell in the array.                                     *)
LEMMA IndexInside ==
  ASSUME NEW w \in Nat, NEW h \in Nat, NEW x \in 0 .. w - 1, NEW y \in 0 .. h - 1
  PROVE  y * w + x \in 0 .. w * h - 1
PROOF
<1>1. PICK d \in Nat : h = y + 1 + d
  <2>1. h - y - 1 \in Nat /\ h = y + 1 + (h - y - 1)
    OBVIOUS
  <2> QED BY <2>1
<1>2. w * h = y * w + w + d * w
  BY <1>1, Z3
<1>3. y * w \in Nat /\ d * w \in Nat /\ w * h \in Nat
  BY Z3
<1> QED BY <1>2, <1>3

(* No two pixels share a cell.                                              *)
LEMMA IndexUnique ==
  ASSUME NEW w \in Nat, NEW a \in 0 .. w - 1, NEW b \in 0 .. w - 1,
         NEW i \in Int, NEW j \in Int, i * w + a = j * w + b
  PROVE  i = j /\ a = b
PROOF
<1>1. ASSUME NEW p \in Int, NEW q \in Int, NEW c \in 0 .. w - 1, NEW d \in 0 .. w - 1,
             p < q
      PROVE  p * w + c < q * w + d
  <2>1. PICK e \in Nat : q = p + 1 + e
    <3>1. q - p - 1 \in Nat /\ q = p + 1 + (q - p - 1)
      BY <1>1
    <3> QED BY <3>1
  <2>2. q * w = p * w + w + e * w
    BY <2>1, Z3
  <2>3. p * w \in Int /\ e * w \in Nat
    BY Z3
  <2> QED BY <2>2, <2>3
<1>2. i * w \in Int /\ j * w \in Int
  BY Z3
<1>3. ~ (i < j)
  <2>1. i < j => i * w + a < j * w + b
    BY <1>1
  <2> QED BY <2>1, <1>2
<1>4. ~ (j < i)
  <2>1. j < i => j * w + b < i * w + a
    BY <1>1
  <2> QED BY <2>1, <1>2
<1>5. i = j
  BY <1>3, <1>4
<1> QED BY <1>2, <1>5

(* Every cell is some pixel's.                                              *)
LEMMA IndexBack ==
  ASSUME NEW w \in Nat, NEW h \in Nat, NEW i \in 0 .. w * h - 1
  PROVE  /\ w > 0
         /\ i % w \in 0 .. w - 1
         /\ i \div w \in 0 .. h - 1
         /\ i = (i \div w) * w + (i % w)
PROOF
<1>1. w > 0
  <2>1. w = 0 => w * h = 0
    BY Z3
  <2> QED BY <2>1
<1>2. /\ i % w \in 0 .. w - 1 /\ i \div w \in Int
      /\ i = (i \div w) * w + (i % w)
  BY <1>1, Z3
<1>3. i \div w >= 0
  <2> DEFINE q == i \div w
  <2>1. q \in Int /\ i = q * w + (i % w)
    BY <1>2
  <2> HIDE DEF q
  <2>2. SUFFICES ASSUME q < 0 PROVE FALSE
    BY <2>1 DEF q
  <2>3. PICK d \in Nat : q = - 1 - d
    <3>1. - 1 - q \in Nat /\ q = - 1 - (- 1 - q)
      BY <2>1, <2>2
    <3> QED BY <3>1
  <2>4. q * w = - w - d * w /\ d * w \in Nat
    BY <2>3, Z3
  <2>5. i \in Nat
    BY Z3
  <2> QED BY <2>1, <2>4, <2>5, <1>2
<1>4. i \div w < h
  <2> DEFINE q == i \div w
  <2>1. q \in Nat /\ i >= q * w /\ q * w \in Nat
    BY <1>2, <1>3, Z3
  <2> HIDE DEF q
  <2>2. SUFFICES ASSUME q >= h PROVE FALSE
    BY <2>1 DEF q
  <2>3. PICK d \in Nat : q = h + d
    <3>1. q - h \in Nat /\ q = h + (q - h)
      BY <2>1, <2>2
    <3> QED BY <3>1
  <2>4. q * w = w * h + d * w /\ d * w \in Nat /\ w * h \in Nat
    BY <2>3, Z3
  <2> QED BY <2>1, <2>4
<1> QED BY <1>1, <1>2, <1>3, <1>4

(* Row and column are recovered from the index.                              *)
LEMMA IndexSplit ==
  ASSUME NEW w \in Nat, NEW h \in Nat, NEW x \in 0 .. w - 1, NEW y \in 0 .. h - 1
  PROVE  /\ (y * w + x) \div w = y
         /\ (y * w + x) % w = x
PROOF
<1> DEFINE i == y * w + x
<1>1. i \in 0 .. w * h - 1
  BY IndexInside
<1>2. /\ i % w \in 0 .. w - 1 /\ i \div w \in 0 .. h - 1
      /\ i = (i \div w) * w + (i % w)
  <2> HIDE DEF i
  <2> QED BY <1>1, IndexBack
<1>3. i \div w = y /\ i % w = x
  <2> DEFINE q == i \div w
             r == i % w
  <2>1. r \in 0 .. w - 1 /\ q \in Int /\ y * w + x = q * w + r
    BY <1>2
  <2> HIDE DEF i, q, r
  <2>2. y = q /\ x = r
    BY <2>1, IndexUnique
  <2> QED BY <2>2 DEF q, r
<1> QED BY <1>3

(* The images of one size, and the pixel of an image at a place.            *)
ImagesOf(w, h) ==
  [width : {w}, height : {h}, pixels : [0 .. w * h - 1 -> Colors]]

At(img, x, y) == img.pixels[y * img.width + x]

(* Clipping leaves of a run what lies below the limit. *)
LEMMA ClipInside ==
  ASSUME NEW a \in Nat, NEW n \in Nat, NEW limit \in Nat
  PROVE  /\ Clip(a, n, limit) \in 0 .. n
         /\ \A k \in Nat : k < Clip(a, n, limit) <=> k < n /\ a + k < limit
PROOF
  BY DEF Clip

(* The three primitives: the image they return has the same size as the     *)
(* one they are given, and each pixel is the one it should be, clipping     *)
(* included.                                                                *)
LEMMA FillRectImage ==
  ASSUME NEW w \in Nat, NEW h \in Nat, NEW img \in ImagesOf(w, h), NEW c \in Colors,
         NEW x, NEW y, NEW rw, NEW rh
  PROVE  FillRect(img, x, y, rw, rh, c) \in ImagesOf(w, h)
PROOF
  BY DEF FillRect, Image, ImagesOf

LEMMA FillRectAt ==
  ASSUME NEW w \in Nat, NEW h \in Nat, NEW img \in ImagesOf(w, h), NEW c,
         NEW x \in Nat, NEW y \in Nat, NEW rw \in Nat, NEW rh \in Nat,
         NEW px \in 0 .. w - 1, NEW py \in 0 .. h - 1
  PROVE  At(FillRect(img, x, y, rw, rh, c), px, py)
           = IF px \in x .. x + rw - 1 /\ py \in y .. y + rh - 1 THEN c
             ELSE At(img, px, py)
PROOF
<1> DEFINE cols == Clip(x, rw, w)
           rows == Clip(y, rh, h)
           touched == {(y + row) * w + (x + col) :
                         row \in 0 .. rows - 1, col \in 0 .. cols - 1}
           i == py * w + px
<1>1. img.width = w /\ img.height = h
  BY DEF ImagesOf
<1>2. i \in 0 .. w * h - 1
  BY IndexInside
<1>3. At(FillRect(img, x, y, rw, rh, c), px, py)
        = IF i \in touched THEN c ELSE img.pixels[i]
  BY <1>1, <1>2 DEF At, FillRect, Image
<1>4. /\ cols \in Nat /\ rows \in Nat
      /\ \A k \in Nat : k < cols <=> k < rw /\ x + k < w
      /\ \A k \in Nat : k < rows <=> k < rh /\ y + k < h
  BY DEF Clip
<1> HIDE DEF cols, rows
<1>5. ASSUME i \in touched
      PROVE  px \in x .. x + rw - 1 /\ py \in y .. y + rh - 1
  <2>1. PICK row \in 0 .. rows - 1, col \in 0 .. cols - 1 :
          py * w + px = (y + row) * w + (x + col)
    BY <1>5
  <2>2. x + col \in 0 .. w - 1 /\ col < rw /\ row < rh /\ y + row \in Int
    BY <1>4
  <2>3. py = y + row /\ px = x + col
    BY <2>1, <2>2, IndexUnique
  <2> QED BY <2>2, <2>3
<1>6. ASSUME px \in x .. x + rw - 1 /\ py \in y .. y + rh - 1
      PROVE  i \in touched
  <2>1. py - y \in 0 .. rows - 1 /\ px - x \in 0 .. cols - 1
    BY <1>4, <1>6
  <2>2. y + (py - y) = py /\ x + (px - x) = px
    OBVIOUS
  <2> QED BY <2>1, <2>2
<1> HIDE DEF touched
<1>7. At(img, px, py) = img.pixels[i]
  BY <1>1 DEF At
<1> QED BY <1>3, <1>5, <1>6, <1>7

LEMMA BlitRectImage ==
  ASSUME NEW w \in Nat, NEW h \in Nat, NEW img \in ImagesOf(w, h),
         NEW sw \in Nat, NEW sh \in Nat, NEW src \in ImagesOf(sw, sh),
         NEW x \in Nat, NEW y \in Nat
  PROVE  BlitRect(img, x, y, src) \in ImagesOf(w, h)
PROOF
<1> DEFINE cols == Clip(x, sw, w)
           rows == Clip(y, sh, h)
           row(i) == (i \div w) - y
           col(i) == (i % w) - x
           color(i) == IF row(i) \in 0 .. rows - 1 /\ col(i) \in 0 .. cols - 1
                       THEN src.pixels[row(i) * sw + col(i)]
                       ELSE img.pixels[i]
<1>1. /\ img.width = w /\ img.height = h /\ src.width = sw /\ src.height = sh
      /\ img.pixels \in [0 .. w * h - 1 -> Colors]
      /\ src.pixels \in [0 .. sw * sh - 1 -> Colors]
  BY DEF ImagesOf
<1>2. BlitRect(img, x, y, src)
        = [width |-> w, height |-> h, pixels |-> [i \in 0 .. w * h - 1 |-> color(i)]]
  BY <1>1 DEF BlitRect, Image
<1>3. /\ cols \in 0 .. sw /\ rows \in 0 .. sh
  BY ClipInside
<1> HIDE DEF cols, rows
<1>4. ASSUME NEW i \in 0 .. w * h - 1
      PROVE  color(i) \in Colors
  <2>1. CASE row(i) \in 0 .. rows - 1 /\ col(i) \in 0 .. cols - 1
    <3>1. row(i) \in 0 .. sh - 1 /\ col(i) \in 0 .. sw - 1
      BY <2>1, <1>3
    <3> HIDE DEF row, col
    <3>2. row(i) * sw + col(i) \in 0 .. sw * sh - 1
      BY <3>1, IndexInside
    <3>3. color(i) = src.pixels[row(i) * sw + col(i)]
      BY <2>1
    <3> HIDE DEF color
    <3> QED BY <3>2, <3>3, <1>1
  <2>2. CASE ~ (row(i) \in 0 .. rows - 1 /\ col(i) \in 0 .. cols - 1)
    BY <2>2, <1>1
  <2> QED BY <2>1, <2>2
<1> HIDE DEF color
<1> QED BY <1>2, <1>4 DEF ImagesOf

LEMMA BlitRectAt ==
  ASSUME NEW w \in Nat, NEW h \in Nat, NEW img \in ImagesOf(w, h),
         NEW sw \in Nat, NEW sh \in Nat, NEW src \in ImagesOf(sw, sh),
         NEW x \in Nat, NEW y \in Nat,
         NEW px \in 0 .. w - 1, NEW py \in 0 .. h - 1
  PROVE  At(BlitRect(img, x, y, src), px, py)
           = IF px \in x .. x + sw - 1 /\ py \in y .. y + sh - 1
             THEN At(src, px - x, py - y)
             ELSE At(img, px, py)
PROOF
<1> DEFINE cols == Clip(x, sw, w)
           rows == Clip(y, sh, h)
           i == py * w + px
<1>1. img.width = w /\ img.height = h /\ src.width = sw /\ src.height = sh
  BY DEF ImagesOf
<1>2. i \in 0 .. w * h - 1
  BY IndexInside
<1>3. i \div w = py /\ i % w = px
  BY IndexSplit
<1> HIDE DEF i
<1>4. At(BlitRect(img, x, y, src), px, py)
        = IF py - y \in 0 .. rows - 1 /\ px - x \in 0 .. cols - 1
          THEN src.pixels[(py - y) * sw + (px - x)]
          ELSE img.pixels[i]
  <2>1. BlitRect(img, x, y, src).pixels[i]
          = IF (i \div w) - y \in 0 .. rows - 1 /\ (i % w) - x \in 0 .. cols - 1
            THEN src.pixels[((i \div w) - y) * sw + ((i % w) - x)]
            ELSE img.pixels[i]
    BY <1>1, <1>2 DEF BlitRect, Image
  <2>2. At(BlitRect(img, x, y, src), px, py) = BlitRect(img, x, y, src).pixels[i]
    BY <1>1 DEF At, BlitRect, Image, i
  <2> QED BY <2>1, <2>2, <1>3
<1>5. /\ cols \in Nat /\ rows \in Nat
      /\ \A k \in Nat : k < cols <=> k < sw /\ x + k < w
      /\ \A k \in Nat : k < rows <=> k < sh /\ y + k < h
  BY DEF Clip
<1> HIDE DEF cols, rows
<1>6. py - y \in 0 .. rows - 1 <=> py \in y .. y + sh - 1
  BY <1>5
<1>7. px - x \in 0 .. cols - 1 <=> px \in x .. x + sw - 1
  BY <1>5
<1>8. At(img, px, py) = img.pixels[i] /\ At(src, px - x, py - y) = src.pixels[(py - y) * sw + (px - x)]
  BY <1>1 DEF At, i
<1> QED BY <1>4, <1>6, <1>7, <1>8

(* copy has, cell by cell, what img has from (x, y) on, and Black where img *)
(* has nothing.                                                             *)
IsCopy(copy, img, x, y) ==
  \A px \in 0 .. copy.width - 1, py \in 0 .. copy.height - 1 :
    At(copy, px, py)
      = IF x + px < img.width /\ y + py < img.height
        THEN At(img, x + px, y + py) ELSE Black

LEMMA ExtractRectImage ==
  ASSUME NEW w \in Nat, NEW h \in Nat, NEW img \in ImagesOf(w, h),
         NEW x \in Nat, NEW y \in Nat, NEW rw \in Nat, NEW rh \in Nat
  PROVE  /\ ExtractRect(img, x, y, rw, rh) \in ImagesOf(rw, rh)
         /\ IsCopy(ExtractRect(img, x, y, rw, rh), img, x, y)
PROOF
<1> DEFINE row_cols == Clip(x, rw, w)
           rows == Clip(y, rh, h)
           cell(k) == IF (k \div rw) < rows /\ (k % rw) < row_cols
                      THEN img.pixels[(y + (k \div rw)) * w + x + (k % rw)]
                      ELSE Black
<1>1. /\ img.width = w /\ img.height = h
      /\ img.pixels \in [0 .. w * h - 1 -> Colors]
  BY DEF ImagesOf
<1>2. ExtractRect(img, x, y, rw, rh)
        = [width |-> rw, height |-> rh, pixels |-> [k \in 0 .. rw * rh - 1 |-> cell(k)]]
  BY <1>1 DEF ExtractRect, Image
<1>3. /\ row_cols \in Nat /\ rows \in Nat
      /\ \A k \in Nat : k < row_cols <=> k < rw /\ x + k < w
      /\ \A k \in Nat : k < rows <=> k < rh /\ y + k < h
  BY DEF Clip
<1> HIDE DEF row_cols, rows
<1>4. ASSUME NEW px \in 0 .. rw - 1, NEW py \in 0 .. rh - 1, NEW k,
             k \div rw = py, k % rw = px
      PROVE  /\ cell(k) = IF x + px < w /\ y + py < h THEN At(img, x + px, y + py) ELSE Black
             /\ cell(k) \in Colors
  <2>1. cell(k) = IF py < rows /\ px < row_cols
                  THEN img.pixels[(y + py) * w + x + px]
                  ELSE Black
    BY <1>4
  <2>2. py < rows <=> y + py < h
    BY <1>3
  <2>3. px < row_cols <=> x + px < w
    BY <1>3
  <2>4. (y + py) * w + x + px = (y + py) * w + (x + px)
    <3>1. (y + py) * w \in Nat
      BY Z3
    <3> QED BY <3>1
  <2>5. At(img, x + px, y + py) = img.pixels[(y + py) * w + (x + px)]
    BY <1>1 DEF At
  <2>6. x + px < w /\ y + py < h => (y + py) * w + (x + px) \in 0 .. w * h - 1
    <3>1. x + px < w => x + px \in 0 .. w - 1
      OBVIOUS
    <3>2. y + py < h => y + py \in 0 .. h - 1
      OBVIOUS
    <3> QED BY <3>1, <3>2, IndexInside
  <2>7. cell(k) = IF x + px < w /\ y + py < h THEN At(img, x + px, y + py) ELSE Black
    BY <2>1, <2>2, <2>3, <2>4, <2>5
  <2> HIDE DEF cell
  <2> QED BY <2>5, <2>6, <2>7, <1>1, ColorsAssumption
<1>5. \A k \in 0 .. rw * rh - 1 : cell(k) \in Colors
  <2>1. ASSUME NEW k \in 0 .. rw * rh - 1 PROVE cell(k) \in Colors
    <3>1. k % rw \in 0 .. rw - 1 /\ k \div rw \in 0 .. rh - 1
      BY IndexBack
    <3> HIDE DEF cell
    <3> QED BY <3>1, <1>4
  <2> QED BY <2>1
<1>6. ASSUME NEW px \in 0 .. rw - 1, NEW py \in 0 .. rh - 1
      PROVE  At(ExtractRect(img, x, y, rw, rh), px, py)
               = IF x + px < w /\ y + py < h THEN At(img, x + px, y + py) ELSE Black
  <2> DEFINE k == py * rw + px
  <2>1. k \in 0 .. rw * rh - 1
    BY IndexInside
  <2>2. k \div rw = py /\ k % rw = px
    BY IndexSplit
  <2>3. At(ExtractRect(img, x, y, rw, rh), px, py)
          = [j \in 0 .. rw * rh - 1 |-> cell(j)][k]
    BY <1>2 DEF At
  <2> HIDE DEF k
  <2>4. [j \in 0 .. rw * rh - 1 |-> cell(j)][k] = cell(k)
    BY <2>1
  <2> HIDE DEF cell
  <2> QED BY <2>2, <2>3, <2>4, <1>4
<1> HIDE DEF cell
<1>7. ExtractRect(img, x, y, rw, rh) \in ImagesOf(rw, rh)
  BY <1>2, <1>5 DEF ImagesOf
<1> DEFINE copy == ExtractRect(img, x, y, rw, rh)
<1>8. copy.width = rw /\ copy.height = rh
  BY <1>2
<1> HIDE DEF copy
<1>9. IsCopy(copy, img, x, y)
  BY <1>1, <1>6, <1>8 DEF IsCopy, copy
<1> QED BY <1>7, <1>9 DEF copy

-----------------------------------------------------------------------------
(* The loops.  Each is known by the images it goes through: they all have   *)
(* the size of the first, and each is drawn over the one before it.         *)
Fillings(img, rects, c, f) ==
  /\ f[0] = img
  /\ \A k \in 1 .. Len(rects) :
       f[k] = IF Inverted(rects[k]) THEN f[k - 1]
              ELSE FillRect(f[k - 1], rects[k].left, rects[k].top,
                            RectWidth(rects[k]), RectHeight(rects[k]), c)

Blittings(img, pts, src, f) ==
  /\ f[0] = img
  /\ \A k \in 1 .. Len(pts) :
       f[k] = BlitRect(f[k - 1], pts[k][1], pts[k][2], src)

Paintings(img, t, rects, origin, c, f) ==
  /\ f[0] = img
  /\ \A k \in 1 .. Len(rects) :
       LET o == Overlap(t, rects[k], origin)
       IN  f[k] = FillRect(f[k - 1], o.x, o.y, o.w, o.h, c)

Composings(s, region, origin, f) ==
  /\ f[0] = surfaces[s]
  /\ \A k \in 1 .. Len(region.tiles) :
       f[k] = IF /\ k \in Pending(s, region.tiles)
                 /\ TileInside(f[k - 1], region.tiles[k], origin)
              THEN PaintTile(f[k - 1], region.tiles[k], region.rects, origin,
                             TileColor(s, region.tiles, k))
              ELSE f[k - 1]

LEMMA FillAllLoop ==
  ASSUME NEW w \in Nat, NEW h \in Nat, NEW img \in ImagesOf(w, h),
         NEW rects \in Seq(Rectangles), NEW c \in Colors
  PROVE  \E f \in [0 .. Len(rects) -> ImagesOf(w, h)] :
           Fillings(img, rects, c, f) /\ FillAll(img, rects, c) = f[Len(rects)]
PROOF
<1> DEFINE S == ImagesOf(w, h)
           n == Len(rects)
           step(i, k) == IF Inverted(rects[k]) THEN i
                         ELSE FillRect(i, rects[k].left, rects[k].top,
                                       RectWidth(rects[k]),
                                       RectHeight(rects[k]), c)
           F == [p \in S \X (1 .. n) |-> step(p[1], p[2])]
           Eq(f) == f = [k \in 0 .. n |-> IF k = 0 THEN img
                                         ELSE step(f[k - 1], k)]
           after == CHOOSE f : Eq(f)
<1>0. n \in Nat
  OBVIOUS
<1>1. FillAll(img, rects, c) = after[n]
  BY DEF FillAll, Loop
<1>2. \A i \in S, k \in 1 .. n : step(i, k) \in S
  BY FillRectImage
<1> HIDE DEF S, step
<1>3. F \in [S \X (1 .. n) -> S]
  BY <1>2
<1>4. PICK f : Results(f, F, S, img, n)
  <2>1. img \in S
    BY DEF S
  <2> HIDE DEF F, n
  <2> QED BY <1>0, <1>3, <2>1, LoopFunction
<1>5. Eq(f)
  <2>1. /\ f[0] = img
        /\ f \in [0 .. n -> S]
        /\ \A k \in 1 .. n : f[k] = F[<<f[k - 1], k>>]
    BY <1>4 DEF Results
  <2>2. \A k \in 1 .. n : k - 1 \in 0 .. n
    OBVIOUS
  <2>3. \A k \in 1 .. n : f[k] = step(f[k - 1], k)
    <3>1. \A k \in 1 .. n : f[k - 1] \in S
      <4> HIDE DEF n
      <4> QED BY <2>1, <2>2
    <3> QED BY <2>1, <3>1
  <2> HIDE DEF n
  <2> QED BY <2>1, <2>3
<1>6. Eq(after)
  <2> HIDE DEF Eq
  <2> QED BY <1>5
<1> HIDE DEF after
<1>7. \A k \in 0 .. n : after[k] \in S
  <2> DEFINE P == {k \in 0 .. n : after[k] \in S}
  <2>1. 0 \in P
    BY <1>6 DEF S
  <2>2. ASSUME NEW k \in 1 .. n, k - 1 \in P PROVE k \in P
    BY <1>6, <2>2, <1>2
  <2> HIDE DEF P
  <2>3. \A k \in 0 .. n : k \in P
    BY <1>0, <2>1, <2>2, UpTo
  <2> QED BY <2>3 DEF P
<1>8. after \in [0 .. n -> S]
  BY <1>6, <1>7
<1>9. Fillings(img, rects, c, after)
  <2>1. after[0] = img /\ \A k \in 1 .. n : after[k] = step(after[k - 1], k)
    BY <1>6
  <2> HIDE DEF after
  <2> QED BY <2>1 DEF Fillings, step
<1> QED BY <1>1, <1>8, <1>9 DEF S

LEMMA FillAllImage ==
  ASSUME NEW w \in Nat, NEW h \in Nat, NEW img \in ImagesOf(w, h),
         NEW rects \in Seq(Rectangles), NEW c \in Colors
  PROVE  FillAll(img, rects, c) \in ImagesOf(w, h)
PROOF
<1>1. Len(rects) \in Nat
  OBVIOUS
<1>2. PICK f \in [0 .. Len(rects) -> ImagesOf(w, h)] :
        Fillings(img, rects, c, f) /\ FillAll(img, rects, c) = f[Len(rects)]
  BY FillAllLoop
<1> QED BY <1>1, <1>2

LEMMA BlitAllLoop ==
  ASSUME NEW w \in Nat, NEW h \in Nat, NEW img \in ImagesOf(w, h),
         NEW sw \in Nat, NEW sh \in Nat, NEW src \in ImagesOf(sw, sh),
         NEW pts \in Seq(Points)
  PROVE  \E f \in [0 .. Len(pts) -> ImagesOf(w, h)] :
           Blittings(img, pts, src, f) /\ BlitAll(img, pts, src) = f[Len(pts)]
PROOF
<1> DEFINE S == ImagesOf(w, h)
           n == Len(pts)
           step(i, k) == BlitRect(i, pts[k][1], pts[k][2], src)
           F == [p \in S \X (1 .. n) |-> step(p[1], p[2])]
           Eq(f) == f = [k \in 0 .. n |-> IF k = 0 THEN img
                                         ELSE step(f[k - 1], k)]
           after == CHOOSE f : Eq(f)
<1>0. n \in Nat
  OBVIOUS
<1>1. BlitAll(img, pts, src) = after[n]
  BY DEF BlitAll, Loop
<1>2. \A i \in S, k \in 1 .. n : step(i, k) \in S
  <2>1. \A k \in 1 .. n : pts[k][1] \in Nat /\ pts[k][2] \in Nat
    BY DEF Points
  <2> QED BY <2>1, BlitRectImage
<1> HIDE DEF S, step
<1>3. F \in [S \X (1 .. n) -> S]
  BY <1>2
<1>4. PICK f : Results(f, F, S, img, n)
  <2>1. img \in S
    BY DEF S
  <2> HIDE DEF F, n
  <2> QED BY <1>0, <1>3, <2>1, LoopFunction
<1>5. Eq(f)
  <2>1. /\ f[0] = img
        /\ f \in [0 .. n -> S]
        /\ \A k \in 1 .. n : f[k] = F[<<f[k - 1], k>>]
    BY <1>4 DEF Results
  <2>2. \A k \in 1 .. n : k - 1 \in 0 .. n
    OBVIOUS
  <2>3. \A k \in 1 .. n : f[k] = step(f[k - 1], k)
    <3>1. \A k \in 1 .. n : f[k - 1] \in S
      <4> HIDE DEF n
      <4> QED BY <2>1, <2>2
    <3> QED BY <2>1, <3>1
  <2> HIDE DEF n
  <2> QED BY <2>1, <2>3
<1>6. Eq(after)
  <2> HIDE DEF Eq
  <2> QED BY <1>5
<1> HIDE DEF after
<1>7. \A k \in 0 .. n : after[k] \in S
  <2> DEFINE P == {k \in 0 .. n : after[k] \in S}
  <2>1. 0 \in P
    BY <1>6 DEF S
  <2>2. ASSUME NEW k \in 1 .. n, k - 1 \in P PROVE k \in P
    BY <1>6, <2>2, <1>2
  <2> HIDE DEF P
  <2>3. \A k \in 0 .. n : k \in P
    BY <1>0, <2>1, <2>2, UpTo
  <2> QED BY <2>3 DEF P
<1>8. after \in [0 .. n -> S]
  BY <1>6, <1>7
<1>9. Blittings(img, pts, src, after)
  <2>1. after[0] = img /\ \A k \in 1 .. n : after[k] = step(after[k - 1], k)
    BY <1>6
  <2> HIDE DEF after
  <2> QED BY <2>1 DEF Blittings, step
<1> QED BY <1>1, <1>8, <1>9 DEF S

LEMMA BlitAllImage ==
  ASSUME NEW w \in Nat, NEW h \in Nat, NEW img \in ImagesOf(w, h),
         NEW sw \in Nat, NEW sh \in Nat, NEW src \in ImagesOf(sw, sh),
         NEW pts \in Seq(Points)
  PROVE  BlitAll(img, pts, src) \in ImagesOf(w, h)
PROOF
<1>1. Len(pts) \in Nat
  OBVIOUS
<1>2. PICK f \in [0 .. Len(pts) -> ImagesOf(w, h)] :
        Blittings(img, pts, src, f) /\ BlitAll(img, pts, src) = f[Len(pts)]
  BY BlitAllLoop
<1> QED BY <1>1, <1>2

LEMMA PaintTileLoop ==
  ASSUME NEW w \in Nat, NEW h \in Nat, NEW img \in ImagesOf(w, h),
         NEW t \in Blocks, NEW rects \in Seq(Damage), NEW origin \in Points,
         NEW c \in Colors
  PROVE  \E f \in [0 .. Len(rects) -> ImagesOf(w, h)] :
           Paintings(img, t, rects, origin, c, f) /\ PaintTile(img, t, rects, origin, c) = f[Len(rects)]
PROOF
<1> DEFINE S == ImagesOf(w, h)
           n == Len(rects)
           step(i, k) == LET o == Overlap(t, rects[k], origin)
                         IN  FillRect(i, o.x, o.y, o.w, o.h, c)
           F == [p \in S \X (1 .. n) |-> step(p[1], p[2])]
           Eq(f) == f = [k \in 0 .. n |-> IF k = 0 THEN img
                                         ELSE step(f[k - 1], k)]
           after == CHOOSE f : Eq(f)
<1>0. n \in Nat
  OBVIOUS
<1>1. PaintTile(img, t, rects, origin, c) = after[n]
  BY DEF PaintTile, Loop
<1>2. \A i \in S, k \in 1 .. n : step(i, k) \in S
  BY FillRectImage
<1> HIDE DEF S, step
<1>3. F \in [S \X (1 .. n) -> S]
  BY <1>2
<1>4. PICK f : Results(f, F, S, img, n)
  <2>1. img \in S
    BY DEF S
  <2> HIDE DEF F, n
  <2> QED BY <1>0, <1>3, <2>1, LoopFunction
<1>5. Eq(f)
  <2>1. /\ f[0] = img
        /\ f \in [0 .. n -> S]
        /\ \A k \in 1 .. n : f[k] = F[<<f[k - 1], k>>]
    BY <1>4 DEF Results
  <2>2. \A k \in 1 .. n : k - 1 \in 0 .. n
    OBVIOUS
  <2>3. \A k \in 1 .. n : f[k] = step(f[k - 1], k)
    <3>1. \A k \in 1 .. n : f[k - 1] \in S
      <4> HIDE DEF n
      <4> QED BY <2>1, <2>2
    <3> QED BY <2>1, <3>1
  <2> HIDE DEF n
  <2> QED BY <2>1, <2>3
<1>6. Eq(after)
  <2> HIDE DEF Eq
  <2> QED BY <1>5
<1> HIDE DEF after
<1>7. \A k \in 0 .. n : after[k] \in S
  <2> DEFINE P == {k \in 0 .. n : after[k] \in S}
  <2>1. 0 \in P
    BY <1>6 DEF S
  <2>2. ASSUME NEW k \in 1 .. n, k - 1 \in P PROVE k \in P
    BY <1>6, <2>2, <1>2
  <2> HIDE DEF P
  <2>3. \A k \in 0 .. n : k \in P
    BY <1>0, <2>1, <2>2, UpTo
  <2> QED BY <2>3 DEF P
<1>8. after \in [0 .. n -> S]
  BY <1>6, <1>7
<1>9. Paintings(img, t, rects, origin, c, after)
  <2>1. after[0] = img /\ \A k \in 1 .. n : after[k] = step(after[k - 1], k)
    BY <1>6
  <2> HIDE DEF after
  <2> QED BY <2>1 DEF Paintings, step
<1> QED BY <1>1, <1>8, <1>9 DEF S

LEMMA PaintTileImage ==
  ASSUME NEW w \in Nat, NEW h \in Nat, NEW img \in ImagesOf(w, h),
         NEW t \in Blocks, NEW rects \in Seq(Damage), NEW origin \in Points,
         NEW c \in Colors
  PROVE  PaintTile(img, t, rects, origin, c) \in ImagesOf(w, h)
PROOF
<1>1. Len(rects) \in Nat
  OBVIOUS
<1>2. PICK f \in [0 .. Len(rects) -> ImagesOf(w, h)] :
        Paintings(img, t, rects, origin, c, f) /\ PaintTile(img, t, rects, origin, c) = f[Len(rects)]
  BY PaintTileLoop
<1> QED BY <1>1, <1>2

LEMMA CompositeLoop ==
  ASSUME NEW s \in DOMAIN surfaces, NEW w \in Nat, NEW h \in Nat,
         surfaces[s] \in ImagesOf(w, h), NEW region \in Regions,
         NEW origin \in Points
  PROVE  \E f \in [0 .. Len(region.tiles) -> ImagesOf(w, h)] :
           Composings(s, region, origin, f) /\ Composite(s, region, origin) = f[Len(region.tiles)]
PROOF
<1> DEFINE S == ImagesOf(w, h)
           n == Len(region.tiles)
           step(i, k) == IF /\ k \in Pending(s, region.tiles)
                            /\ TileInside(i, region.tiles[k], origin)
                         THEN PaintTile(i, region.tiles[k], region.rects,
                                        origin, TileColor(s, region.tiles, k))
                         ELSE i
           F == [p \in S \X (1 .. n) |-> step(p[1], p[2])]
           Eq(f) == f = [k \in 0 .. n |-> IF k = 0 THEN surfaces[s]
                                         ELSE step(f[k - 1], k)]
           after == CHOOSE f : Eq(f)
<1>0. n \in Nat
  BY PduAssumption
<1>1. Composite(s, region, origin) = after[n]
  BY DEF Composite, Loop
<1>2. \A i \in S, k \in 1 .. n : step(i, k) \in S
  <2>1. region.tiles \in Seq(Blocks) /\ region.rects \in Seq(Damage)
    BY PduAssumption
  <2>2. \A k \in 1 .. n : TileColor(s, region.tiles, k) \in Colors
    <3>1. \A k \in 1 .. n : region.tiles[k] \in Blocks
      BY <2>1
    <3>2. \A t \in Blocks : t.color \in Colors
      BY DEF Blocks
    <3> QED BY <3>1, <3>2, GfxAssumption DEF TileColor
  <2>3. ASSUME NEW i \in S, NEW t \in Blocks, NEW c \in Colors
        PROVE  PaintTile(i, t, region.rects, origin, c) \in S
    BY <2>1, PaintTileImage DEF S
  <2>4. \A k \in 1 .. n : region.tiles[k] \in Blocks
    BY <2>1
  <2> HIDE DEF S
  <2> QED BY <2>2, <2>3, <2>4
<1> HIDE DEF S, step
<1>3. F \in [S \X (1 .. n) -> S]
  BY <1>2
<1>4. PICK f : Results(f, F, S, surfaces[s], n)
  <2>1. surfaces[s] \in S
    BY DEF S
  <2> HIDE DEF F, n
  <2> QED BY <1>0, <1>3, <2>1, LoopFunction
<1>5. Eq(f)
  <2>1. /\ f[0] = surfaces[s]
        /\ f \in [0 .. n -> S]
        /\ \A k \in 1 .. n : f[k] = F[<<f[k - 1], k>>]
    BY <1>4 DEF Results
  <2>2. \A k \in 1 .. n : k - 1 \in 0 .. n
    OBVIOUS
  <2>3. \A k \in 1 .. n : f[k] = step(f[k - 1], k)
    <3>1. \A k \in 1 .. n : f[k - 1] \in S
      <4> HIDE DEF n
      <4> QED BY <2>1, <2>2
    <3> QED BY <2>1, <3>1
  <2> HIDE DEF n
  <2> QED BY <2>1, <2>3
<1>6. Eq(after)
  <2> HIDE DEF Eq
  <2> QED BY <1>5
<1> HIDE DEF after
<1>7. \A k \in 0 .. n : after[k] \in S
  <2> DEFINE P == {k \in 0 .. n : after[k] \in S}
  <2>1. 0 \in P
    BY <1>6 DEF S
  <2>2. ASSUME NEW k \in 1 .. n, k - 1 \in P PROVE k \in P
    BY <1>6, <2>2, <1>2
  <2> HIDE DEF P
  <2>3. \A k \in 0 .. n : k \in P
    BY <1>0, <2>1, <2>2, UpTo
  <2> QED BY <2>3 DEF P
<1>8. after \in [0 .. n -> S]
  BY <1>6, <1>7
<1>9. Composings(s, region, origin, after)
  <2>1. after[0] = surfaces[s] /\ \A k \in 1 .. n : after[k] = step(after[k - 1], k)
    BY <1>6
  <2> HIDE DEF after
  <2> QED BY <2>1 DEF Composings, step
<1> QED BY <1>1, <1>8, <1>9 DEF S

LEMMA CompositeImage ==
  ASSUME NEW s \in DOMAIN surfaces, NEW w \in Nat, NEW h \in Nat,
         surfaces[s] \in ImagesOf(w, h), NEW region \in Regions,
         NEW origin \in Points
  PROVE  Composite(s, region, origin) \in ImagesOf(w, h)
PROOF
<1>1. Len(region.tiles) \in Nat
  BY PduAssumption
<1>2. PICK f \in [0 .. Len(region.tiles) -> ImagesOf(w, h)] :
        Composings(s, region, origin, f) /\ Composite(s, region, origin) = f[Len(region.tiles)]
  BY CompositeLoop
<1> QED BY <1>1, <1>2

-----------------------------------------------------------------------------
(* The inductive invariant: the three invariants of the bookkeeping, and    *)
(* the types they need.                                                     *)
Mappings == [id : SurfaceIds, origin : Origins]

GfxInv ==
  /\ output_map \in Seq(Mappings)
  /\ frames_decoded \in Nat
  /\ actions \in Seq(Nat)
  /\ MappedOnce
  /\ BaselinesCurrent
  /\ ActionsAreLatestFrames

-----------------------------------------------------------------------------
(* The output mapping.  Only the PDUs that create, delete and map surfaces  *)
(* and RESET_GRAPHICS touch it.                                             *)
LEMMA RetainedMappedOnce ==
  ASSUME output_map \in Seq(Mappings), MappedOnce, NEW s
  PROVE  LET r == RetainOthers(output_map, s)
         IN  /\ r \in Seq(Mappings)
             /\ \A k \in DOMAIN r : r[k].id # s
             /\ \A j, k \in DOMAIN r : r[j].id = r[k].id => j = k
PROOF
<1> DEFINE r == RetainOthers(output_map, s)
<1>1. /\ r \in Seq(Mappings)
      /\ \E i \in [DOMAIN r -> DOMAIN output_map] :
           \A j, k \in DOMAIN r :
             /\ r[k] = output_map[i[k]]
             /\ r[k].id # s
             /\ i[j] = i[k] => j = k
  BY RetainOthersProperties, Z3
<1> HIDE DEF r
<1>2. PICK i \in [DOMAIN r -> DOMAIN output_map] :
        \A j, k \in DOMAIN r : /\ r[k] = output_map[i[k]]
                               /\ r[k].id # s
                               /\ i[j] = i[k] => j = k
  BY <1>1
<1>3. \A j, k \in DOMAIN r : r[j].id = r[k].id => i[j] = i[k]
  BY <1>2 DEF MappedOnce
<1> QED BY <1>1, <1>2, <1>3 DEF r

LEMMA ApplyMapping ==
  ASSUME output_map \in Seq(Mappings), MappedOnce, Apply
  PROVE  output_map' \in Seq(Mappings) /\ MappedOnce'
PROOF
<1>1. CASE UNCHANGED output_map
  BY <1>1 DEF MappedOnce
<1>2. CASE output_map' = <<>>
  BY <1>2 DEF MappedOnce
<1>3. ASSUME NEW s \in SurfaceIds, DeleteSurface(s)
      PROVE  output_map' \in Seq(Mappings) /\ MappedOnce'
  BY <1>3, RetainedMappedOnce DEF DeleteSurface, MappedOnce
<1>4. ASSUME NEW s \in SurfaceIds, NEW o \in Origins, MapSurfaceToOutput(s, o)
      PROVE  output_map' \in Seq(Mappings) /\ MappedOnce'
  <2> DEFINE r == RetainOthers(output_map, s)
             m == [id |-> s, origin |-> o]
  <2>1. /\ r \in Seq(Mappings)
        /\ \A k \in DOMAIN r : r[k].id # s
        /\ \A j, k \in DOMAIN r : r[j].id = r[k].id => j = k
    BY RetainedMappedOnce
  <2>2. output_map' = Append(r, m)
    BY <1>4 DEF MapSurfaceToOutput
  <2>3. m \in Mappings /\ m.id = s
    BY DEF Mappings
  <2> HIDE DEF r, m, Mappings
  <2>4. /\ output_map' \in Seq(Mappings)
        /\ DOMAIN r = 1 .. Len(r) /\ Len(r) \in Nat
        /\ DOMAIN output_map' = 1 .. Len(r) + 1
        /\ \A k \in 1 .. Len(r) : output_map'[k] = r[k]
        /\ output_map'[Len(r) + 1] = m
    BY <2>1, <2>2, <2>3
  <2>5. MappedOnce'
    BY <2>1, <2>3, <2>4 DEF MappedOnce
  <2> QED BY <2>4, <2>5
<1>5. \/ UNCHANGED output_map
      \/ output_map' = <<>>
      \/ \E s \in SurfaceIds : DeleteSurface(s)
      \/ \E s \in SurfaceIds, o \in Origins : MapSurfaceToOutput(s, o)
  <2>1. ASSUME \E size \in Desktops : ResetGraphics(size)
        PROVE  output_map' = <<>>
    BY <2>1 DEF ResetGraphics
  <2>2. ASSUME \/ EndFrame \/ Uneventful \/ RejectedPdu
               \/ \E slot \in CacheSlots : EvictCacheEntry(slot)
               \/ \E s \in SurfaceIds, size \in Sizes : CreateSurface(s, size)
        PROVE  UNCHANGED output_map
    BY <2>2 DEF EndFrame, Uneventful, RejectedPdu, Discard, EvictCacheEntry, CreateSurface
  <2>3. ASSUME NEW s \in SurfaceIds, NEW r \in Rects,
               \/ \E c \in Colors : WireToSurface1(s, r, c)
               \/ WireToSurface1Undecodable(s, r)
               \/ \E region \in Regions : WireToSurface1Progressive(s, r, region)
               \/ \E d \in SurfaceIds, pts \in PointLists :
                    SurfaceToSurface(s, r, d, pts)
               \/ \E slot \in CacheSlots : SurfaceToCache(s, r, slot)
        PROVE  UNCHANGED output_map
    BY <2>3 DEF WireToSurface1, WireToSurface1Undecodable,
                WireToSurface1Progressive, Progressive, SurfaceToSurface,
                SurfaceToCache, Paint, Discard
  <2>4. ASSUME NEW s \in SurfaceIds,
               \/ \E rects \in RectLists, c \in Colors : SolidFill(s, rects, c)
               \/ \E slot \in CacheSlots, pts \in PointLists :
                    CacheToSurface(slot, s, pts)
               \/ \E region \in Regions : WireToSurface2(s, region)
        PROVE  UNCHANGED output_map
    BY <2>4 DEF SolidFill, CacheToSurface, WireToSurface2, Progressive, Paint,
                Discard
  <2> QED BY <2>1, <2>2, <2>3, <2>4, Zenon DEF Apply
<1> QED BY <1>1, <1>2, <1>3, <1>4, <1>5

-----------------------------------------------------------------------------
(* The tile baselines.  A PDU files baselines only under a live surface,    *)
(* and one that removes a surface or gives it a new geometry drops its      *)
(* baselines first.                                                         *)
LEMMA ApplyBaselines ==
  ASSUME BaselinesCurrent, Apply
  PROVE  BaselinesCurrent'
PROOF
<1> DEFINE Same == UNCHANGED tile_baseline /\ DOMAIN surfaces' = DOMAIN surfaces
<1>1. CASE Same
  BY <1>1 DEF BaselinesCurrent, Live
<1>2. ASSUME NEW size, ResetGraphics(size)
      PROVE  BaselinesCurrent'
  BY <1>2 DEF ResetGraphics, ResetAll, Aged, BaselinesCurrent
<1>3. ASSUME NEW s \in SurfaceIds, NEW size, CreateSurface(s, size)
      PROVE  BaselinesCurrent'
  <2>1. DOMAIN surfaces' = DOMAIN surfaces \cup {s}
    BY <1>3 DEF CreateSurface, Put
  <2>2. /\ DOMAIN tile_baseline' = {k \in DOMAIN tile_baseline : k.id # s}
        /\ \A k \in DOMAIN tile_baseline' :
             tile_baseline'[k] = (tile_baseline[k] /\ k.id \notin {s})
    BY <1>3 DEF CreateSurface, ResetSurface, Aged
  <2> QED BY <2>1, <2>2 DEF BaselinesCurrent, Live
<1>4. ASSUME NEW s \in SurfaceIds, DeleteSurface(s)
      PROVE  BaselinesCurrent'
  <2>1. DOMAIN surfaces' = DOMAIN surfaces \ {s}
    BY <1>4 DEF DeleteSurface, Without
  <2>2. /\ DOMAIN tile_baseline' = {k \in DOMAIN tile_baseline : k.id # s}
        /\ \A k \in DOMAIN tile_baseline' :
             tile_baseline'[k] = (tile_baseline[k] /\ k.id \notin {s})
    BY <1>4 DEF DeleteSurface, ResetSurface, Aged
  <2> QED BY <2>1, <2>2 DEF BaselinesCurrent, Live
<1>5. ASSUME NEW s, Live(s), NEW origin, NEW region,
             Progressive(s, origin, region)
      PROVE  BaselinesCurrent'
  <2> DEFINE filed == Filed(s, region.tiles, Len(region.tiles) + 1)
  <2>1. DOMAIN surfaces' = DOMAIN surfaces
    BY <1>5 DEF Progressive, Paint
  <2>2. \A k \in filed : k.id = s
    BY DEF Filed, TileKey
  <2>3. tile_baseline' = [k \in DOMAIN tile_baseline \cup filed |->
                            k \in filed \/ tile_baseline[k]]
    BY <1>5 DEF Progressive
  <2> HIDE DEF filed
  <2>4. ASSUME NEW k \in DOMAIN tile_baseline'
        PROVE  k.id \in DOMAIN surfaces' /\ tile_baseline'[k]
    <3>1. CASE k \in filed
      BY <3>1, <2>1, <2>2, <2>3, <1>5 DEF Live
    <3>2. CASE k \notin filed
      BY <3>2, <2>1, <2>3 DEF BaselinesCurrent, Live
    <3> QED BY <3>1, <3>2
  <2> QED BY <2>4 DEF BaselinesCurrent, Live
<1>6. ASSUME NEW s, NEW r,
             \/ \E c \in Colors : WireToSurface1(s, r, c)
             \/ WireToSurface1Undecodable(s, r)
             \/ \E d \in SurfaceIds, pts \in PointLists :
                  SurfaceToSurface(s, r, d, pts)
             \/ \E slot \in CacheSlots : SurfaceToCache(s, r, slot)
      PROVE  Same
  BY <1>6 DEF WireToSurface1, WireToSurface1Undecodable, SurfaceToSurface,
              SurfaceToCache, Paint, Discard
<1>7. ASSUME NEW s,
             \/ \E rects \in RectLists, c \in Colors : SolidFill(s, rects, c)
             \/ \E slot \in CacheSlots, pts \in PointLists :
                  CacheToSurface(slot, s, pts)
             \/ \E o \in Origins : MapSurfaceToOutput(s, o)
      PROVE  Same
  BY <1>7 DEF SolidFill, CacheToSurface, MapSurfaceToOutput, Paint, Discard
<1>8. ASSUME EndFrame \/ Uneventful \/ RejectedPdu
             \/ \E slot \in CacheSlots : EvictCacheEntry(slot)
      PROVE  Same
  BY <1>8 DEF EndFrame, Uneventful, RejectedPdu, Discard, EvictCacheEntry
<1>9. ASSUME NEW s, NEW region, WireToSurface2(s, region)
      PROVE  BaselinesCurrent'
  <2>1. CASE Live(s)
    BY <1>9, <2>1, <1>5 DEF WireToSurface2
  <2>2. CASE ~ Live(s)
    BY <1>9, <2>2, <1>1 DEF WireToSurface2, Discard
  <2> QED BY <2>1, <2>2
<1>10. ASSUME NEW s, NEW r, NEW region, WireToSurface1Progressive(s, r, region)
       PROVE  BaselinesCurrent'
  <2>1. CASE Live(s) /\ ~ Inverted(r)
    BY <1>10, <2>1, <1>5 DEF WireToSurface1Progressive
  <2>2. CASE ~ (Live(s) /\ ~ Inverted(r))
    BY <1>10, <2>2, <1>1 DEF WireToSurface1Progressive, Discard
  <2> QED BY <2>1, <2>2
<1> HIDE DEF Same
<1> QED BY <1>1, <1>2, <1>3, <1>4, <1>6, <1>7, <1>8, <1>9, <1>10, Zenon DEF Apply

-----------------------------------------------------------------------------
(* The frames.  Only END_FRAME counts one and asks for its acknowledgement. *)
LEMMA ApplyFrames ==
  ASSUME Apply
  PROVE  \/ UNCHANGED <<frames_decoded, actions>>
         \/ /\ frames_decoded' = frames_decoded + 1
            /\ actions' = Append(actions, frames_decoded + 1)
PROOF
<1> DEFINE Same == UNCHANGED <<frames_decoded, actions>>
<1>1. ASSUME NEW s, NEW r,
             \/ \E c \in Colors : WireToSurface1(s, r, c)
             \/ WireToSurface1Undecodable(s, r)
             \/ \E region \in Regions : WireToSurface1Progressive(s, r, region)
             \/ \E d \in SurfaceIds, pts \in PointLists :
                  SurfaceToSurface(s, r, d, pts)
             \/ \E slot \in CacheSlots : SurfaceToCache(s, r, slot)
      PROVE  Same
  BY <1>1 DEF WireToSurface1, WireToSurface1Undecodable,
              WireToSurface1Progressive, Progressive, SurfaceToSurface,
              SurfaceToCache, Paint, Discard
<1>2. ASSUME NEW s,
             \/ \E size \in Sizes : CreateSurface(s, size)
             \/ DeleteSurface(s)
             \/ \E o \in Origins : MapSurfaceToOutput(s, o)
             \/ \E rects \in RectLists, c \in Colors : SolidFill(s, rects, c)
             \/ \E slot \in CacheSlots, pts \in PointLists :
                  CacheToSurface(slot, s, pts)
             \/ \E region \in Regions : WireToSurface2(s, region)
      PROVE  Same
  BY <1>2 DEF CreateSurface, DeleteSurface, MapSurfaceToOutput, SolidFill,
              CacheToSurface, WireToSurface2, Progressive, Paint, Discard
<1>3. ASSUME \/ \E size \in Desktops : ResetGraphics(size)
             \/ Uneventful \/ RejectedPdu
             \/ \E slot \in CacheSlots : EvictCacheEntry(slot)
      PROVE  Same
  BY <1>3 DEF ResetGraphics, Uneventful, RejectedPdu, Discard, EvictCacheEntry
<1>4. ASSUME EndFrame
      PROVE  /\ frames_decoded' = frames_decoded + 1
             /\ actions' = Append(actions, frames_decoded + 1)
  BY <1>4 DEF EndFrame
<1> HIDE DEF Same
<1>5. \/ Same
      \/ /\ frames_decoded' = frames_decoded + 1
         /\ actions' = Append(actions, frames_decoded + 1)
  BY <1>1, <1>2, <1>3, <1>4, Zenon DEF Apply
<1> QED BY <1>5 DEF Same

-----------------------------------------------------------------------------
(* The types.  A PDU that paints a surface leaves it an image of its size;  *)
(* what goes into the cache has the size of the rectangle.                  *)
SomeImage(img) == \E w, h \in Nat : img \in ImagesOf(w, h)

AllImages(map, ids) ==
  DOMAIN map \subseteq ids /\ \A k \in DOMAIN map : SomeImage(map[k])

GfxTypes ==
  /\ AllImages(surfaces, SurfaceIds)
  /\ AllImages(cache, CacheSlots)
  /\ desktop \in Desktops
  /\ \A k \in DOMAIN tile_baseline : tile_baseline[k] \in BOOLEAN
  /\ frames_decoded \in 0 .. MaxFrames
  /\ Len(actions) <= frames_decoded
  /\ {saw_content, reported, skipped} \subseteq BOOLEAN

LEMMA NewImages ==
  ASSUME NEW w \in Nat, NEW h \in Nat, NEW c \in Colors
  PROVE  NewSurface(w, h) \in ImagesOf(w, h) /\ Solid(w, h, c) \in ImagesOf(w, h)
PROOF
  BY ColorsAssumption DEF NewSurface, Solid, Image, ImagesOf

LEMMA RectangleSize ==
  ASSUME NEW r \in Rects, ~ Inverted(r)
  PROVE  /\ r.left \in Nat /\ r.top \in Nat
         /\ RectWidth(r) \in Nat /\ RectHeight(r) \in Nat
PROOF
<1>1. r.left \in Nat /\ r.top \in Nat /\ r.right \in Nat /\ r.bottom \in Nat
  BY PduAssumption DEF Rectangles
<1> QED BY <1>1 DEF Inverted, RectWidth, RectHeight

(* HashMap::insert and remove, and writing to an entry that is there.       *)
LEMMA ImagesKept ==
  ASSUME NEW map, NEW ids, AllImages(map, ids), NEW k \in ids, NEW img,
         SomeImage(img)
  PROVE  /\ AllImages(Put(map, k, img), ids)
         /\ AllImages(Without(map, k), ids)
         /\ AllImages([map EXCEPT ![k] = img], ids)
PROOF
<1>1. AllImages(Put(map, k, img), ids)
  <2> DEFINE m == Put(map, k, img)
  <2>1. DOMAIN m = DOMAIN map \cup {k} /\ \A x \in DOMAIN m : m[x] = IF x = k THEN img ELSE map[x]
    BY DEF Put
  <2> HIDE DEF m
  <2>2. AllImages(m, ids)
    BY <2>1 DEF AllImages
  <2> QED BY <2>2 DEF m
<1>2. AllImages(Without(map, k), ids)
  <2> DEFINE m == Without(map, k)
  <2>1. DOMAIN m = DOMAIN map \ {k} /\ \A x \in DOMAIN m : m[x] = map[x]
    BY DEF Without
  <2> HIDE DEF m
  <2>2. AllImages(m, ids)
    BY <2>1 DEF AllImages
  <2> QED BY <2>2 DEF m
<1>3. AllImages([map EXCEPT ![k] = img], ids)
  <2> DEFINE m == [map EXCEPT ![k] = img]
  <2>1. DOMAIN m = DOMAIN map /\ \A x \in DOMAIN m : m[x] = IF x = k THEN img ELSE map[x]
    OBVIOUS
  <2> HIDE DEF m
  <2> QED BY <2>1 DEF AllImages
<1> QED BY <1>1, <1>2, <1>3

LEMMA BlitsImage ==
  ASSUME NEW img, SomeImage(img), NEW src, SomeImage(src), NEW pts \in Seq(Points)
  PROVE  SomeImage(BlitAll(img, pts, src))
PROOF
<1>1. PICK w \in Nat, h \in Nat : img \in ImagesOf(w, h)
  BY DEF SomeImage
<1>2. PICK sw \in Nat, sh \in Nat : src \in ImagesOf(sw, sh)
  BY DEF SomeImage
<1>3. BlitAll(img, pts, src) \in ImagesOf(w, h)
  BY <1>1, <1>2, BlitAllImage
<1> QED BY <1>3 DEF SomeImage

(* What each painting PDU draws. *)
LEMMA DrawnImages ==
  ASSUME GfxTypes, NEW s \in DOMAIN surfaces
  PROVE  /\ \A r \in Rects, c \in Colors : ~ Inverted(r) =>
              SomeImage(BlitRect(surfaces[s], r.left, r.top,
                                 Solid(RectWidth(r), RectHeight(r), c)))
         /\ \A rects \in RectLists, c \in Colors :
              SomeImage(FillAll(surfaces[s], rects, c))
         /\ \A r \in Rects : ~ Inverted(r) =>
              SomeImage(ExtractRect(surfaces[s], r.left, r.top,
                                    RectWidth(r), RectHeight(r)))
         /\ \A region \in Regions, origin \in Points :
              SomeImage(Composite(s, region, origin))
PROOF
<1>1. PICK w \in Nat, h \in Nat : surfaces[s] \in ImagesOf(w, h)
  BY DEF GfxTypes, AllImages, SomeImage
<1>2. ASSUME NEW r \in Rects, NEW c \in Colors, ~ Inverted(r)
      PROVE  SomeImage(BlitRect(surfaces[s], r.left, r.top,
                                Solid(RectWidth(r), RectHeight(r), c)))
  <2> DEFINE sw == RectWidth(r)
             sh == RectHeight(r)
             src == Solid(sw, sh, c)
  <2>1. r.left \in Nat /\ r.top \in Nat /\ sw \in Nat /\ sh \in Nat
    BY <1>2, RectangleSize
  <2> HIDE DEF sw, sh
  <2>2. src \in ImagesOf(sw, sh)
    BY <2>1, NewImages
  <2> HIDE DEF src
  <2>3. BlitRect(surfaces[s], r.left, r.top, src) \in ImagesOf(w, h)
    BY <1>1, <2>1, <2>2, BlitRectImage
  <2> QED BY <2>3 DEF SomeImage, src, sw, sh
<1>3. ASSUME NEW rects \in RectLists, NEW c \in Colors
      PROVE  SomeImage(FillAll(surfaces[s], rects, c))
  <2>1. rects \in Seq(Rectangles)
    BY PduAssumption
  <2>2. FillAll(surfaces[s], rects, c) \in ImagesOf(w, h)
    BY <1>1, <2>1, FillAllImage
  <2> QED BY <2>2 DEF SomeImage
<1>4. ASSUME NEW r \in Rects, ~ Inverted(r)
      PROVE  SomeImage(ExtractRect(surfaces[s], r.left, r.top,
                                   RectWidth(r), RectHeight(r)))
  <2> DEFINE rw == RectWidth(r)
             rh == RectHeight(r)
  <2>1. r.left \in Nat /\ r.top \in Nat /\ rw \in Nat /\ rh \in Nat
    BY <1>4, RectangleSize
  <2> HIDE DEF rw, rh
  <2>2. ExtractRect(surfaces[s], r.left, r.top, rw, rh) \in ImagesOf(rw, rh)
    BY <1>1, <2>1, ExtractRectImage
  <2> QED BY <2>1, <2>2 DEF SomeImage, rw, rh
<1>5. ASSUME NEW region \in Regions, NEW origin \in Points
      PROVE  SomeImage(Composite(s, region, origin))
  <2>1. Composite(s, region, origin) \in ImagesOf(w, h)
    BY <1>1, CompositeImage
  <2> QED BY <2>1 DEF SomeImage
<1> QED BY <1>2, <1>3, <1>4, <1>5

(* A PDU that paints a surface. *)
LEMMA PaintImages ==
  ASSUME GfxTypes, NEW s \in DOMAIN surfaces, NEW img, SomeImage(img), NEW ok,
         Paint(s, img, ok)
  PROVE  AllImages(surfaces, SurfaceIds)' /\ AllImages(cache, CacheSlots)'
PROOF
<1>1. surfaces' = [surfaces EXCEPT ![s] = img] /\ cache' = cache
  BY DEF Paint
<1>2. AllImages(surfaces, SurfaceIds) /\ s \in SurfaceIds
  BY DEF GfxTypes, AllImages
<1>3. AllImages([surfaces EXCEPT ![s] = img], SurfaceIds)
  BY <1>2, ImagesKept
<1>4. AllImages(surfaces', SurfaceIds)
  BY <1>1, <1>3
<1>5. AllImages(cache', CacheSlots)
  BY <1>1 DEF GfxTypes
<1> QED BY <1>4, <1>5

LEMMA ApplyImages ==
  ASSUME GfxTypes, Apply
  PROVE  AllImages(surfaces, SurfaceIds)' /\ AllImages(cache, CacheSlots)'
PROOF
<1> DEFINE Good == AllImages(surfaces', SurfaceIds) /\ AllImages(cache', CacheSlots)
<1>0. AllImages(surfaces, SurfaceIds) /\ AllImages(cache, CacheSlots)
  BY DEF GfxTypes
<1>1. CASE UNCHANGED <<surfaces, cache>>
  BY <1>0, <1>1
<1>2. ASSUME NEW s, NEW img, NEW ok, Paint(s, img, ok), Live(s), SomeImage(img)
      PROVE  Good
  BY <1>2, PaintImages DEF Live
<1>3. ASSUME NEW s \in SurfaceIds, NEW r \in Rects, NEW c \in Colors,
             WireToSurface1(s, r, c)
      PROVE  Good
  <2>1. CASE Inverted(r) \/ ~Live(s)
    BY <1>1, <1>3, <2>1 DEF WireToSurface1, Discard
  <2>2. CASE ~ Inverted(r) /\ Live(s)
    <3>1. PICK ok : Paint(s, BlitRect(surfaces[s], r.left, r.top,
                                  Solid(RectWidth(r), RectHeight(r), c)), ok)
      BY <1>3, <2>2 DEF WireToSurface1
    <3>2. SomeImage(BlitRect(surfaces[s], r.left, r.top,
                             Solid(RectWidth(r), RectHeight(r), c)))
      BY <2>2, DrawnImages DEF Live
    <3> QED BY <3>1, <3>2, <2>2, <1>2
  <2> QED BY <2>1, <2>2
<1>4. ASSUME NEW s \in SurfaceIds, NEW r \in Rects, WireToSurface1Undecodable(s, r)
      PROVE  Good
  <2>1. CASE Inverted(r) \/ ~Live(s)
    BY <1>1, <1>4, <2>1 DEF WireToSurface1Undecodable, Discard
  <2>2. CASE ~ Inverted(r) /\ Live(s)
    <3>1. PICK ok : Paint(s, surfaces[s], ok)
      BY <1>4, <2>2 DEF WireToSurface1Undecodable
    <3>2. SomeImage(surfaces[s])
      BY <2>2, <1>0 DEF Live, AllImages
    <3> QED BY <3>1, <3>2, <2>2, <1>2
  <2> QED BY <2>1, <2>2
<1>5. ASSUME NEW s \in SurfaceIds, NEW rects \in RectLists, NEW c \in Colors,
             SolidFill(s, rects, c)
      PROVE  Good
  <2>1. CASE ~Live(s)
    BY <1>1, <1>5, <2>1 DEF SolidFill, Discard
  <2>2. CASE Live(s)
    <3>1. PICK ok : Paint(s, FillAll(surfaces[s], rects, c), ok)
      BY <1>5, <2>2 DEF SolidFill
    <3>2. SomeImage(FillAll(surfaces[s], rects, c))
      BY <2>2, DrawnImages DEF Live
    <3> QED BY <3>1, <3>2, <2>2, <1>2
  <2> QED BY <2>1, <2>2
<1>6. ASSUME NEW s \in SurfaceIds, NEW d \in SurfaceIds, NEW r \in Rects,
             NEW pts \in PointLists, SurfaceToSurface(s, r, d, pts)
      PROVE  Good
  <2>1. CASE Inverted(r) \/ ~Live(s) \/ ~Live(d)
    BY <1>1, <1>6, <2>1 DEF SurfaceToSurface, Discard
  <2>2. CASE ~ Inverted(r) /\ Live(s) /\ Live(d)
    <3> DEFINE src == ExtractRect(surfaces[s], r.left, r.top, RectWidth(r), RectHeight(r))
    <3>1. PICK ok : Paint(d, BlitAll(surfaces[d], pts, src), ok)
      BY <1>6, <2>2 DEF SurfaceToSurface
    <3>2. SomeImage(src)
      BY <2>2, DrawnImages DEF Live
    <3> HIDE DEF src
    <3>3. SomeImage(surfaces[d]) /\ pts \in Seq(Points)
      BY <2>2, <1>0, PduAssumption DEF Live, AllImages
    <3>4. SomeImage(BlitAll(surfaces[d], pts, src))
      BY <3>2, <3>3, BlitsImage
    <3> QED BY <3>1, <3>4, <2>2, <1>2
  <2> QED BY <2>1, <2>2
<1>7. ASSUME NEW s \in SurfaceIds, NEW r \in Rects, NEW slot \in CacheSlots,
             SurfaceToCache(s, r, slot)
      PROVE  Good
  <2>1. CASE Inverted(r) \/ ~Live(s)
    BY <1>1, <1>7, <2>1 DEF SurfaceToCache, Discard
  <2>2. CASE ~ Inverted(r) /\ Live(s)
    <3> DEFINE src == ExtractRect(surfaces[s], r.left, r.top, RectWidth(r), RectHeight(r))
    <3>1. cache' = Put(cache, slot, src) /\ surfaces' = surfaces
      BY <1>7, <2>2 DEF SurfaceToCache
    <3>2. SomeImage(src)
      BY <2>2, DrawnImages DEF Live
    <3> HIDE DEF src
    <3>3. AllImages(Put(cache, slot, src), CacheSlots)
      BY <3>2, <1>0, ImagesKept
    <3> QED BY <3>1, <3>3, <1>0
  <2> QED BY <2>1, <2>2
<1>8. ASSUME NEW s \in SurfaceIds, NEW slot \in CacheSlots, NEW pts \in PointLists,
             CacheToSurface(slot, s, pts)
      PROVE  Good
  <2>1. CASE ~Live(s) \/ slot \notin DOMAIN cache
    BY <1>1, <1>8, <2>1 DEF CacheToSurface, Discard
  <2>2. CASE Live(s) /\ slot \in DOMAIN cache
    <3>1. PICK ok : Paint(s, BlitAll(surfaces[s], pts, cache[slot]), ok)
      BY <1>8, <2>2 DEF CacheToSurface
    <3>2. SomeImage(surfaces[s]) /\ SomeImage(cache[slot]) /\ pts \in Seq(Points)
      BY <2>2, <1>0, PduAssumption DEF Live, AllImages
    <3>3. SomeImage(BlitAll(surfaces[s], pts, cache[slot]))
      BY <3>2, BlitsImage
    <3> QED BY <3>1, <3>3, <2>2, <1>2
  <2> QED BY <2>1, <2>2
<1>9. ASSUME NEW s, Live(s), NEW region \in Regions, NEW origin \in Points,
             Progressive(s, origin, region)
      PROVE  Good
  <2>1. PICK ok : Paint(s, Composite(s, region, origin), ok)
    BY <1>9 DEF Progressive
  <2>2. SomeImage(Composite(s, region, origin))
    BY <1>9, DrawnImages DEF Live
  <2> QED BY <2>1, <2>2, <1>2, <1>9
<1>10. ASSUME NEW s \in SurfaceIds, NEW region \in Regions,
              \/ WireToSurface2(s, region)
              \/ \E r \in Rects : WireToSurface1Progressive(s, r, region)
       PROVE  Good
  <2>1. CASE Discard
    BY <2>1, <1>1 DEF Discard
  <2>2. ASSUME WireToSurface2(s, region), Live(s)
        PROVE  Good
    <3>1. <<0, 0>> \in Points
      BY DEF Points
    <3> QED BY <2>2, <3>1, <1>9 DEF WireToSurface2
  <2>3. ASSUME NEW r \in Rects, WireToSurface1Progressive(s, r, region),
               Live(s), ~ Inverted(r)
        PROVE  Good
    <3>1. <<r.left, r.top>> \in Points
      BY <2>3, RectangleSize DEF Points
    <3> QED BY <2>3, <3>1, <1>9 DEF WireToSurface1Progressive
  <2> QED BY <1>10, <2>1, <2>2, <2>3 DEF WireToSurface2, WireToSurface1Progressive
<1>11. ASSUME NEW s \in SurfaceIds, NEW size \in Sizes, CreateSurface(s, size)
       PROVE  Good
  <2>1. size[1] \in Nat /\ size[2] \in Nat
    BY PduAssumption DEF Points
  <2>2. SomeImage(NewSurface(size[1], size[2]))
    BY <2>1, NewImages, ColorsAssumption DEF SomeImage
  <2>3. /\ surfaces' = Put(surfaces, s, NewSurface(size[1], size[2]))
        /\ cache' = cache
    BY <1>11 DEF CreateSurface
  <2> QED BY <2>2, <2>3, <1>0, ImagesKept
<1>12. ASSUME NEW s \in SurfaceIds, DeleteSurface(s)
       PROVE  Good
  <2>1. SomeImage(NewSurface(0, 0))
    BY NewImages, ColorsAssumption DEF SomeImage
  <2>2. surfaces' = Without(surfaces, s) /\ cache' = cache
    BY <1>12 DEF DeleteSurface
  <2> QED BY <2>1, <2>2, <1>0, ImagesKept
<1>13. ASSUME NEW slot \in CacheSlots, EvictCacheEntry(slot)
       PROVE  Good
  <2>1. SomeImage(NewSurface(0, 0))
    BY NewImages, ColorsAssumption DEF SomeImage
  <2>2. cache' = Without(cache, slot) /\ surfaces' = surfaces
    BY <1>13 DEF EvictCacheEntry
  <2> QED BY <2>1, <2>2, <1>0, ImagesKept
<1>14. ASSUME \/ \E size \in Desktops : ResetGraphics(size)
              \/ EndFrame \/ Uneventful \/ RejectedPdu
              \/ \E s \in SurfaceIds, o \in Origins : MapSurfaceToOutput(s, o)
       PROVE  Good
  BY <1>1, <1>14 DEF ResetGraphics, EndFrame, Uneventful, RejectedPdu, Discard,
                     MapSurfaceToOutput
<1> HIDE DEF Good
<1>15. Good
  BY <1>3, <1>4, <1>5, <1>6, <1>7, <1>8, <1>10, <1>11, <1>12, <1>13, <1>14,
     Zenon DEF Apply
<1> QED BY <1>15 DEF Good

LEMMA ApplyFlags ==
  ASSUME GfxTypes, Apply
  PROVE  /\ desktop' \in Desktops
         /\ frames_decoded' \in 0 .. MaxFrames
         /\ {saw_content', reported', skipped'} \subseteq BOOLEAN
PROOF
<1> DEFINE Good == /\ desktop' \in Desktops
                   /\ frames_decoded' \in 0 .. MaxFrames
                   /\ {saw_content', reported', skipped'} \subseteq BOOLEAN
<1>0. /\ desktop \in Desktops
      /\ frames_decoded \in 0 .. MaxFrames
      /\ {saw_content, reported, skipped} \subseteq BOOLEAN
  BY DEF GfxTypes
<1>1. ASSUME Discard PROVE Good
  BY <1>0, <1>1 DEF Discard, Report
<1>2. ASSUME NEW s, NEW img, NEW ok \in BOOLEAN, Paint(s, img, ok),
             skipped' \in BOOLEAN
      PROVE  Good
  BY <1>0, <1>2 DEF Paint
<1>3. ASSUME NEW s, NEW origin, NEW region, Progressive(s, origin, region)
      PROVE  Good
  BY <1>0, <1>3 DEF Progressive, Paint, Skipped
<1>4. ASSUME NEW s, NEW r, NEW c, WireToSurface1(s, r, c)
      PROVE  Good
  BY <1>0, <1>1, <1>4 DEF WireToSurface1, Paint
<1>5. ASSUME NEW s, NEW r, WireToSurface1Undecodable(s, r)
      PROVE  Good
  BY <1>0, <1>1, <1>5 DEF WireToSurface1Undecodable, Paint
<1>6. ASSUME NEW s, NEW d, NEW r, NEW pts, SurfaceToSurface(s, r, d, pts)
      PROVE  Good
  BY <1>0, <1>1, <1>6 DEF SurfaceToSurface, Paint
<1>7. ASSUME NEW s, NEW r, NEW slot, SurfaceToCache(s, r, slot)
      PROVE  Good
  BY <1>0, <1>1, <1>7 DEF SurfaceToCache
<1>8. ASSUME NEW s, NEW pts, NEW slot, CacheToSurface(slot, s, pts)
      PROVE  Good
  BY <1>0, <1>1, <1>8 DEF CacheToSurface, Paint
<1>9. ASSUME NEW s, NEW rects, NEW c, SolidFill(s, rects, c)
      PROVE  Good
  BY <1>0, <1>1, <1>9 DEF SolidFill, Paint
<1>10. ASSUME NEW s, NEW region, WireToSurface2(s, region)
       PROVE  Good
  BY <1>1, <1>3, <1>10 DEF WireToSurface2
<1>11. ASSUME NEW s, NEW r, NEW region, WireToSurface1Progressive(s, r, region)
       PROVE  Good
  BY <1>1, <1>3, <1>11 DEF WireToSurface1Progressive
<1>12. ASSUME NEW s, \/ \E size : CreateSurface(s, size)
                     \/ DeleteSurface(s)
                     \/ \E o : MapSurfaceToOutput(s, o)
       PROVE  Good
  BY <1>0, <1>12 DEF CreateSurface, DeleteSurface, MapSurfaceToOutput, Quiet
<1>13. ASSUME NEW size \in Desktops, ResetGraphics(size)
       PROVE  Good
  BY <1>0, <1>13 DEF ResetGraphics, Quiet
<1>14. ASSUME EndFrame
       PROVE  Good
  <2>1. frames_decoded' = frames_decoded + 1 /\ frames_decoded < MaxFrames
    BY <1>14 DEF EndFrame
  <2>2. frames_decoded' \in 0 .. MaxFrames
    BY <1>0, <2>1, GfxAssumption
  <2>3. UNCHANGED <<desktop, saw_content>> /\ Quiet
    BY <1>14 DEF EndFrame
  <2> QED BY <1>0, <2>2, <2>3 DEF Quiet
<1>15. ASSUME Uneventful \/ RejectedPdu \/ \E slot : EvictCacheEntry(slot)
       PROVE  Good
  BY <1>0, <1>1, <1>15 DEF Uneventful, RejectedPdu, EvictCacheEntry, Quiet
<1> HIDE DEF Good
<1>16. Good
  BY <1>4, <1>5, <1>6, <1>7, <1>8, <1>9, <1>10, <1>11, <1>12, <1>13, <1>14,
     <1>15, Zenon DEF Apply
<1> QED BY <1>16 DEF Good

(* Whether a baseline is current is a Boolean. *)
LEMMA ApplyBaselineTypes ==
  ASSUME \A k \in DOMAIN tile_baseline : tile_baseline[k] \in BOOLEAN, Apply
  PROVE  \A k \in DOMAIN tile_baseline' : tile_baseline'[k] \in BOOLEAN
PROOF
<1> DEFINE Good == \A k \in DOMAIN tile_baseline' : tile_baseline'[k] \in BOOLEAN
<1>1. CASE UNCHANGED tile_baseline
  BY <1>1
<1>2. ASSUME NEW tb, NEW ids, tile_baseline' = Aged(tb, ids)
      PROVE  Good
  BY <1>2 DEF Aged
<1>3. ASSUME NEW s, NEW origin, NEW region, Progressive(s, origin, region)
      PROVE  Good
  BY <1>3 DEF Progressive
<1>4. ASSUME NEW s \in SurfaceIds,
             \/ \E size \in Sizes : CreateSurface(s, size)
             \/ DeleteSurface(s)
      PROVE  Good
  <2>1. \E tb : tile_baseline' = Aged(tb, {s})
    BY <1>4 DEF CreateSurface, DeleteSurface
  <2> HIDE DEF Good
  <2> QED BY <2>1, <1>2
<1>5. ASSUME NEW size \in Desktops, ResetGraphics(size)
      PROVE  Good
  <2>1. \E tb : tile_baseline' = Aged(tb, SurfaceIds)
    BY <1>5 DEF ResetGraphics
  <2> HIDE DEF Good
  <2> QED BY <2>1, <1>2
<1>6. ASSUME NEW s, NEW r,
             \/ \E c \in Colors : WireToSurface1(s, r, c)
             \/ WireToSurface1Undecodable(s, r)
             \/ \E d \in SurfaceIds, pts \in PointLists :
                  SurfaceToSurface(s, r, d, pts)
             \/ \E slot \in CacheSlots : SurfaceToCache(s, r, slot)
             \/ \E rects \in RectLists, c \in Colors : SolidFill(s, rects, c)
             \/ \E slot \in CacheSlots, pts \in PointLists :
                  CacheToSurface(slot, s, pts)
             \/ \E o \in Origins : MapSurfaceToOutput(s, o)
             \/ EndFrame \/ Uneventful \/ RejectedPdu
             \/ \E slot \in CacheSlots : EvictCacheEntry(slot)
      PROVE  UNCHANGED tile_baseline
  BY <1>6 DEF WireToSurface1, WireToSurface1Undecodable, SurfaceToSurface,
              SurfaceToCache, SolidFill, CacheToSurface, MapSurfaceToOutput,
              EndFrame, Uneventful, RejectedPdu, EvictCacheEntry, Paint, Discard
<1>7. ASSUME NEW s, NEW region,
             \/ WireToSurface2(s, region)
             \/ \E r \in Rects : WireToSurface1Progressive(s, r, region)
      PROVE  Good
  <2>1. \/ Discard \/ \E origin : Progressive(s, origin, region)
    BY <1>7 DEF WireToSurface2, WireToSurface1Progressive
  <2>2. CASE Discard
    BY <2>2, <1>1 DEF Discard
  <2> QED BY <2>1, <2>2, <1>3
<1> HIDE DEF Good
<1>8. Good \/ UNCHANGED tile_baseline
  BY <1>4, <1>5, <1>6, <1>7, Zenon DEF Apply
<1> QED BY <1>1, <1>8 DEF Good

-----------------------------------------------------------------------------
LEMMA GfxInit == Init => GfxInv
PROOF
  BY DEF Init, GfxInv, MappedOnce, BaselinesCurrent, ActionsAreLatestFrames

LEMMA GfxApply == GfxInv /\ Apply => GfxInv'
PROOF
<1> SUFFICES ASSUME GfxInv, Apply PROVE GfxInv'
  OBVIOUS
<1>1. output_map' \in Seq(Mappings) /\ MappedOnce'
  BY ApplyMapping DEF GfxInv
<1>2. BaselinesCurrent'
  BY ApplyBaselines DEF GfxInv
<1>3. /\ frames_decoded' \in Nat
      /\ actions' \in Seq(Nat)
      /\ ActionsAreLatestFrames'
  <2>1. CASE UNCHANGED <<frames_decoded, actions>>
    BY <2>1 DEF GfxInv, ActionsAreLatestFrames
  <2>2. CASE /\ frames_decoded' = frames_decoded + 1
             /\ actions' = Append(actions, frames_decoded + 1)
    <3> DEFINE n == Len(actions)
    <3>1. /\ actions \in Seq(Nat) /\ frames_decoded \in Nat
          /\ n \in Nat /\ DOMAIN actions = 1 .. n
          /\ \A k \in 1 .. n : actions[k] = frames_decoded - n + k
      BY DEF GfxInv, ActionsAreLatestFrames
    <3>2. /\ actions' \in Seq(Nat) /\ Len(actions') = n + 1
          /\ DOMAIN actions' = 1 .. n + 1
          /\ \A k \in 1 .. n : actions'[k] = actions[k]
          /\ actions'[n + 1] = frames_decoded + 1
      BY <2>2, <3>1
    <3>3. \A k \in 1 .. n + 1 : k \in 1 .. n \/ k = n + 1
      BY <3>1
    <3> HIDE DEF n
    <3>4. \A k \in 1 .. n + 1 : actions'[k] = frames_decoded' - (n + 1) + k
      BY <2>2, <3>1, <3>2, <3>3
    <3>5. ActionsAreLatestFrames'
      BY <3>2, <3>4 DEF ActionsAreLatestFrames
    <3>6. frames_decoded' \in Nat
      BY <2>2, <3>1
    <3> QED BY <3>2, <3>5, <3>6
  <2> QED BY <2>1, <2>2, ApplyFrames
<1> QED BY <1>1, <1>2, <1>3 DEF GfxInv

LEMMA GfxNext == GfxInv /\ [Next]_gfxVars => GfxInv'
PROOF
<1> SUFFICES ASSUME GfxInv, [Next]_gfxVars PROVE GfxInv'
  OBVIOUS
<1>1. CASE Apply
  BY <1>1, GfxApply
<1>2. CASE ReturnActions
  BY <1>2 DEF ReturnActions, GfxInv, MappedOnce, BaselinesCurrent, Live,
              ActionsAreLatestFrames
<1>3. CASE UNCHANGED gfxVars
  BY <1>3 DEF gfxVars, GfxInv, MappedOnce, BaselinesCurrent, Live,
              ActionsAreLatestFrames
<1> QED BY <1>1, <1>2, <1>3 DEF Next

LEMMA GfxInvariant == Spec => []GfxInv
PROOF
  BY GfxInit, GfxNext, PTL DEF Spec

(* However surface ids are reused and outputs reset, no tile baseline       *)
(* outlives the geometry it was decoded for (gfxstate.rs:188-230).          *)
THEOREM BaselinesStayCurrent == Spec => []BaselinesCurrent
PROOF
  BY GfxInvariant, PTL DEF GfxInv

(* No surface is ever presented at two places (gfxstate.rs:216-242).        *)
THEOREM SurfacesMappedOnce == Spec => []MappedOnce
PROOF
  BY GfxInvariant, PTL DEF GfxInv

(* The END_FRAMEs a message has collected carry consecutive totals that end *)
(* with the present one (gfxstate.rs:104-126, 251-258).                     *)
THEOREM ActionsStayLatest == Spec => []ActionsAreLatestFrames
PROOF
  BY GfxInvariant, PTL DEF GfxInv

LEMMA GfxTypesInit == Init => GfxTypes
PROOF
<1> SUFFICES ASSUME Init PROVE GfxTypes
  OBVIOUS
<1>1. 0 \in 0 .. MaxFrames
  BY GfxAssumption
<1>2. AllImages(<<>>, SurfaceIds) /\ AllImages(<<>>, CacheSlots)
  BY DEF AllImages
<1>3. /\ AllImages(surfaces, SurfaceIds)
      /\ AllImages(cache, CacheSlots)
  BY <1>2 DEF Init
<1>4. frames_decoded \in 0 .. MaxFrames /\ Len(actions) <= frames_decoded
  BY <1>1 DEF Init
<1>5. \A k \in DOMAIN tile_baseline : tile_baseline[k] \in BOOLEAN
  BY DEF Init
<1>6. /\ desktop \in Desktops
      /\ {saw_content, reported, skipped} \subseteq BOOLEAN
  BY DEF Init
<1> QED BY <1>3, <1>4, <1>5, <1>6 DEF GfxTypes

LEMMA GfxTypesApply == GfxInv /\ GfxTypes /\ Apply => GfxTypes'
PROOF
<1> SUFFICES ASSUME GfxInv, GfxTypes, Apply PROVE GfxTypes'
  OBVIOUS
<1>1. AllImages(surfaces, SurfaceIds)' /\ AllImages(cache, CacheSlots)'
  BY ApplyImages
<1>2. /\ desktop' \in Desktops
      /\ frames_decoded' \in 0 .. MaxFrames
      /\ {saw_content', reported', skipped'} \subseteq BOOLEAN
  BY ApplyFlags
<1>3. \A k \in DOMAIN tile_baseline' : tile_baseline'[k] \in BOOLEAN
  BY ApplyBaselineTypes DEF GfxTypes
<1>4. Len(actions') <= frames_decoded'
  <2>1. Len(actions) <= frames_decoded /\ actions \in Seq(Nat) /\ frames_decoded \in Nat
    BY DEF GfxTypes, GfxInv
  <2>2. Len(Append(actions, frames_decoded + 1)) = Len(actions) + 1 /\ Len(actions) \in Nat
    BY <2>1
  <2> QED BY <2>1, <2>2, ApplyFrames
<1> QED BY <1>1, <1>2, <1>3, <1>4 DEF GfxTypes

LEMMA GfxTypesNext == GfxInv /\ GfxTypes /\ [Next]_gfxVars => GfxTypes'
PROOF
<1> SUFFICES ASSUME GfxInv, GfxTypes, [Next]_gfxVars PROVE GfxTypes'
  OBVIOUS
<1>1. CASE Apply
  BY <1>1, GfxTypesApply
<1>2. CASE ReturnActions
  BY <1>2, GfxAssumption DEF ReturnActions, GfxTypes, AllImages
<1>3. CASE UNCHANGED gfxVars
  BY <1>3 DEF gfxVars, GfxTypes, AllImages
<1> QED BY <1>1, <1>2, <1>3 DEF Next

LEMMA TypesOK == GfxInv /\ GfxTypes => TypeOK
PROOF
<1> SUFFICES ASSUME GfxInv, GfxTypes PROVE TypeOK
  OBVIOUS
<1>1. \A img : SomeImage(img) => IsImage(img)
  BY DEF SomeImage, IsImage, ImagesOf
<1>2. /\ DOMAIN surfaces \subseteq SurfaceIds
      /\ \A s \in DOMAIN surfaces : IsImage(surfaces[s])
      /\ DOMAIN cache \subseteq CacheSlots
      /\ \A slot \in DOMAIN cache : IsImage(cache[slot])
  BY <1>1 DEF GfxTypes, AllImages
<1>3. \A k \in DOMAIN tile_baseline :
        k.id \in SurfaceIds /\ tile_baseline[k] \in BOOLEAN
  BY <1>2 DEF GfxInv, GfxTypes, BaselinesCurrent, Live
<1>4. actions \in Seq(1 .. MaxFrames)
  <2>1. /\ actions \in Seq(Nat) /\ Len(actions) \in Nat
        /\ Len(actions) <= frames_decoded /\ frames_decoded \in 0 .. MaxFrames
        /\ \A k \in 1 .. Len(actions) : actions[k] = frames_decoded - Len(actions) + k
    BY DEF GfxInv, GfxTypes, ActionsAreLatestFrames
  <2>2. \A k \in 1 .. Len(actions) : actions[k] \in 1 .. MaxFrames
    BY <2>1, GfxAssumption
  <2> DEFINE T == 1 .. MaxFrames
  <2> HIDE DEF T
  <2>3. \A k \in 1 .. Len(actions) : actions[k] \in T
    BY <2>2 DEF T
  <2>4. actions \in Seq(T)
    BY <2>1, <2>3
  <2> QED BY <2>4 DEF T
<1> QED BY <1>2, <1>3, <1>4 DEF GfxInv, GfxTypes, TypeOK, Mappings

(* Whatever PDUs arrive, in whatever order, every surface and every cached  *)
(* bitmap stays an image with a colour in each of its cells: no blit, copy  *)
(* or tile, however it is clipped, takes a cell from beyond the end of its  *)
(* source; no more frames are collected than were decoded                   *)
(* (surface.rs:60-182, gfxstate.rs:178-520).                                *)
THEOREM SurfacesStayImages == Spec => []TypeOK
PROOF
<1>1. Init => GfxInv /\ GfxTypes
  BY GfxInit, GfxTypesInit
<1>2. (GfxInv /\ GfxTypes) /\ [Next]_gfxVars => (GfxInv /\ GfxTypes)'
  BY GfxNext, GfxTypesNext
<1>3. GfxInv /\ GfxTypes => TypeOK
  BY TypesOK
<1> QED BY <1>1, <1>2, <1>3, PTL DEF Spec

=============================================================================
