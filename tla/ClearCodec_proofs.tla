-------------------------- MODULE ClearCodec_proofs --------------------------
(***************************************************************************)
(* The ClearCodec caches and sequence numbers, for rings of any size and   *)
(* any modulus, any messages and any number of them lost.                  *)
(***************************************************************************)
EXTENDS ClearCodec, SequenceTheorems, WellFoundedInduction, TLAPS

-----------------------------------------------------------------------------
(* Numbers modulo m. *)

LEMMA ModUnique ==
  ASSUME NEW m \in Nat \ {0}, NEW a \in Nat, NEW q \in Int, NEW r \in 0 .. m - 1,
         a = m * q + r
  PROVE  a % m = r
PROOF
<1> DEFINE d == q - (a \div m)
<1>1. /\ a = m * (a \div m) + (a % m) /\ a \div m \in Int
      /\ a % m \in 0 .. m - 1
  OBVIOUS
<1>2. (a % m) - r = m * d /\ d \in Int
  BY <1>1
<1> HIDE DEF d
<1>3. CASE d <= -1
  <2>1. m * d <= 0 - m
    BY <1>2, <1>3
  <2> QED BY <2>1, <1>1, <1>2
<1>4. CASE d >= 1
  <2>1. m * d >= m
    BY <1>2, <1>4
  <2> QED BY <2>1, <1>1, <1>2
<1>5. CASE d = 0
  BY <1>1, <1>2, <1>5
<1> QED BY <1>2, <1>3, <1>4, <1>5

(* Counting on from a number modulo m. *)
LEMMA ModNext ==
  ASSUME NEW m \in Nat \ {0}, NEW a \in Nat
  PROVE  ((a % m) + 1) % m = (a + 1) % m
PROOF
<1> DEFINE q == a \div m
           r == a % m
           p == (r + 1) \div m
           t == (r + 1) % m
<1>1. a = m * q + r /\ q \in Int /\ r \in 0 .. m - 1
  OBVIOUS
<1>2. r + 1 \in Nat
  BY <1>1
<1>3. r + 1 = m * p + t /\ p \in Int /\ t \in 0 .. m - 1
  BY <1>2
<1> HIDE DEF q, r, p, t
<1>4. a + 1 = m * (q + p) + t
  BY <1>1, <1>3
<1>5. (a + 1) % m = t
  BY <1>1, <1>3, <1>4, ModUnique
<1> QED BY <1>5 DEF t, r

(* After k more, the number is the same again only if k is a multiple of m. *)
LEMMA ModSame ==
  ASSUME NEW m \in Nat \ {0}, NEW a \in Nat, NEW k \in Nat
  PROVE  (a + k) % m = a % m <=> k % m = 0
PROOF
<1> DEFINE q == a \div m
           r == a % m
           p == k \div m
           t == k % m
<1>1. a = m * q + r /\ q \in Int /\ r \in 0 .. m - 1
  OBVIOUS
<1>2. k = m * p + t /\ p \in Int /\ t \in 0 .. m - 1
  OBVIOUS
<1>3. ASSUME t = 0 PROVE (a + k) % m = r
  <2> HIDE DEF q, r, p, t
  <2>1. a + k = m * (q + p) + r
    BY <1>1, <1>2, <1>3
  <2> QED BY <1>1, <1>2, <2>1, ModUnique
<1>4. ASSUME (a + k) % m = r PROVE t = 0
  <2> DEFINE b == (a + k) \div m
  <2>0. a + k \in Nat
    OBVIOUS
  <2>1. a + k = m * b + ((a + k) % m) /\ b \in Int
    BY <2>0
  <2> HIDE DEF q, r, p, t, b
  <2>2. k = m * (b - q) + 0
    BY <1>1, <1>4, <2>1
  <2>3. k % m = 0
    BY <1>1, <2>1, <2>2, ModUnique
  <2> QED BY <2>3 DEF t
<1> QED BY <1>3, <1>4
-----------------------------------------------------------------------------
(* Loops. *)
LEMMA NatMinimum ==
  ASSUME NEW T, T \subseteq Nat, T # {}
  PROVE  \E m \in T : \A k \in T : m <= k
PROOF
<1> DEFINE R == {p \in Nat \X Nat : p[1] < p[2]}
<1>1. OpToRel(<, Nat) = R
  BY DEF OpToRel
<1>2. IsWellFoundedOn(R, Nat)
  BY <1>1, NatLessThanWellFounded
<1>3. PICK m \in T : \A y \in T : ~ (<<y, m>> \in R)
  <2> HIDE DEF R
  <2> QED BY <1>2, WFMin
<1>4. ASSUME NEW k \in T PROVE m <= k
  <2>1. k \in Nat /\ m \in Nat
    OBVIOUS
  <2>2. ~ (<<k, m>> \in R)
    BY <1>3
  <2> QED BY <2>1, <2>2
<1> QED BY <1>4

(* What holds of 0 and goes on from each number to the next holds up to n.  *)
LEMMA UpTo ==
  ASSUME NEW n \in Nat, NEW P, 0 \in P, \A k \in 1 .. n : k - 1 \in P => k \in P
  PROVE  \A k \in 0 .. n : k \in P
PROOF
<1> DEFINE T == {k \in 0 .. n : k \notin P}
<1>1. SUFFICES ASSUME T # {} PROVE FALSE
  OBVIOUS
<1>2. PICK m \in T : \A k \in T : m <= k
  <2>1. T \subseteq Nat
    OBVIOUS
  <2> HIDE DEF T
  <2> QED BY <1>1, <2>1, NatMinimum
<1>3. m \in 1 .. n /\ m - 1 \in 0 .. n
  OBVIOUS
<1>4. m - 1 \in P
  BY <1>2, <1>3
<1> QED BY <1>3, <1>4

(* The intermediate results of a loop whose body is the function F. *)
Results(f, F, S, start, n) ==
  /\ f \in [0 .. n -> S]
  /\ f[0] = start
  /\ \A k \in 1 .. n : f[k] = F[<<f[k - 1], k>>]

(* There are such results.                                                  *)
LEMMA LoopFunction ==
  ASSUME NEW n \in Nat, NEW S, NEW start \in S, NEW F \in [S \X (1 .. n) -> S]
  PROVE  \E f : Results(f, F, S, start, n)
PROOF
<1> USE DEF Results
<1> DEFINE Runs(f, m) == Results(f, F, S, start, m)
           P == {m \in 0 .. n : \E f : Runs(f, m)}
<1>1. 0 \in P
  <2> DEFINE f == [k \in 0 .. 0 |-> start]
  <2>1. Runs(f, 0)
    OBVIOUS
  <2> HIDE DEF f, Runs
  <2> QED BY <2>1
<1>2. ASSUME NEW m \in 1 .. n, m - 1 \in P
      PROVE  m \in P
  <2>1. PICK f : Runs(f, m - 1)
    BY <1>2
  <2> DEFINE last == F[<<f[m - 1], m>>]
             g == [k \in 0 .. m |-> IF k = m THEN last ELSE f[k]]
  <2>2. f[m - 1] \in S /\ m - 1 \in 0 .. m - 1 /\ m \in Nat \ {0}
    BY <2>1
  <2>3. last \in S
    BY <2>2
  <2>4. g[m] = last /\ \A k \in 0 .. m - 1 : g[k] = f[k]
    <3> HIDE DEF last
    <3> QED BY <2>2
  <2>5. g \in [0 .. m -> S]
    <3> HIDE DEF last
    <3>1. \A k \in 0 .. m : k # m => k \in 0 .. m - 1
      BY <2>2
    <3> QED BY <2>1, <2>3, <3>1
  <2>6. g[0] = start
    BY <2>1, <2>4, <2>2
  <2> HIDE DEF g
  <2>7. \A k \in 1 .. m : g[k] = F[<<g[k - 1], k>>]
    <3>1. ASSUME NEW k \in 1 .. m PROVE g[k] = F[<<g[k - 1], k>>]
      <4>1. k - 1 \in 0 .. m - 1 /\ g[k - 1] = f[k - 1]
        BY <2>4, <2>2
      <4>2. CASE k = m
        BY <4>1, <4>2, <2>4
      <4>3. CASE k # m
        <5>1. k \in 1 .. m - 1 /\ k \in 0 .. m - 1
          BY <4>3, <2>2
        <5> QED BY <4>1, <5>1, <2>4, <2>1
      <4> QED BY <4>2, <4>3
    <3> QED BY <3>1
  <2>8. Runs(g, m)
    BY <2>5, <2>6, <2>7
  <2> HIDE DEF Runs
  <2> QED BY <2>8
<1>3. n \in P
  <2> HIDE DEF P
  <2> QED BY <1>1, <1>2, UpTo
<1> QED BY <1>3

-----------------------------------------------------------------------------
(* The residual layer. *)

Runs == Seq([color : Pixel, run : Nat])

LEMMA RunsAre ==
  ASSUME NEW runs \in Runs
  PROVE  /\ Len(runs) \in Nat /\ DOMAIN runs = 1 .. Len(runs)
         /\ \A j \in 1 .. Len(runs) : runs[j].run \in Nat /\ runs[j].color \in Pixel
PROOF
<1> DEFINE S == [color : Pixel, run : Nat]
<1>1. \A x \in S : x.run \in Nat /\ x.color \in Pixel
  OBVIOUS
<1>2. runs \in Seq(S)
  BY DEF Runs
<1> HIDE DEF S
<1>3. Len(runs) \in Nat /\ DOMAIN runs = 1 .. Len(runs) /\ \A j \in 1 .. Len(runs) : runs[j] \in S
  BY <1>2
<1> QED BY <1>1, <1>3

LEMMA EndsAre ==
  ASSUME NEW runs \in Runs
  PROVE  /\ Ends(runs) \in [0 .. Len(runs) -> Nat]
         /\ Ends(runs)[0] = 0
         /\ \A j \in 1 .. Len(runs) : Ends(runs)[j] = Ends(runs)[j - 1] + runs[j].run
PROOF
<1> DEFINE n == Len(runs)
           body(f, j) == IF j = 0 THEN 0 ELSE f[j - 1] + runs[j].run
           F == [a \in Nat \X (1 .. n) |-> a[1] + runs[a[2]].run]
           Eq(f) == f = [j \in 0 .. n |-> body(f, j)]
           end == CHOOSE f : Eq(f)
<1>0. n \in Nat /\ \A j \in 1 .. n : runs[j].run \in Nat
  BY RunsAre
<1> HIDE DEF n
<1>1. F \in [Nat \X (1 .. n) -> Nat]
  BY <1>0
<1>2. PICK f : Results(f, F, Nat, 0, n)
  <2> HIDE DEF F
  <2> QED BY <1>0, <1>1, LoopFunction
<1>3. \A j \in 1 .. n : f[j] = f[j - 1] + runs[j].run
  <2>1. ASSUME NEW j \in 1 .. n PROVE f[j] = f[j - 1] + runs[j].run
    <3>1. j - 1 \in 0 .. n /\ f[j - 1] \in Nat /\ f[j] = F[<<f[j - 1], j>>]
      <4> HIDE DEF F
      <4> QED BY <1>0, <1>2 DEF Results
    <3> QED BY <3>1
  <2> QED BY <2>1
<1>4. Eq(f)
  <2>1. f \in [0 .. n -> Nat] /\ f[0] = 0
    BY <1>2 DEF Results
  <2>2. \A j \in 0 .. n : j = 0 \/ j \in 1 .. n
    BY <1>0
  <2> HIDE DEF F
  <2> QED BY <1>3, <2>1, <2>2
<1>5. Eq(end)
  <2> HIDE DEF Eq
  <2> QED BY <1>4
<1>6. Ends(runs) = end
  BY DEF Ends, n
<1> HIDE DEF end
<1>7. end[0] = 0 /\ \A j \in 1 .. n : end[j] = end[j - 1] + runs[j].run
  BY <1>0, <1>5
<1>8. \A j \in 0 .. n : end[j] \in Nat
  <2> DEFINE P == {j \in 0 .. n : end[j] \in Nat}
  <2>1. 0 \in P
    BY <1>0, <1>7
  <2>2. ASSUME NEW j \in 1 .. n, j - 1 \in P PROVE j \in P
    BY <1>0, <1>7, <2>2
  <2>3. \A j \in 0 .. n : j \in P
    <3> HIDE DEF P
    <3> QED BY <1>0, <2>1, <2>2, UpTo
  <2> QED BY <2>3
<1>9. end = [j \in 0 .. n |-> end[j]]
  BY <1>5
<1> QED BY <1>6, <1>7, <1>8, <1>9 DEF n

(* The ends go up, so that one run at most covers a pixel.                  *)
LEMMA EndsGoUp ==
  ASSUME NEW runs \in Runs, NEW i \in 0 .. Len(runs), NEW j \in 0 .. Len(runs), i <= j
  PROVE  Ends(runs)[i] <= Ends(runs)[j]
PROOF
<1> DEFINE n == Len(runs)
           e == Ends(runs)
           P == {k \in 0 .. n : i <= k => e[i] <= e[k]}
<1>0. n \in Nat /\ \A k \in 1 .. n : runs[k].run \in Nat
  BY RunsAre
<1>1. /\ \A k \in 0 .. n : e[k] \in Nat
      /\ \A k \in 1 .. n : e[k] = e[k - 1] + runs[k].run
  BY EndsAre
<1>2. i \in 0 .. n /\ j \in 0 .. n
  OBVIOUS
<1> HIDE DEF n, e
<1>3. 0 \in P
  BY <1>0, <1>1, <1>2
<1>4. ASSUME NEW k \in 1 .. n, k - 1 \in P PROVE k \in P
  <2>1. k \in 0 .. n /\ k - 1 \in 0 .. n
    BY <1>0
  <2>2. CASE i = k
    BY <1>1, <2>1, <2>2
  <2>3. CASE i <= k - 1
    <3>1. e[i] <= e[k - 1]
      BY <1>4, <2>3
    <3>2. e[k] = e[k - 1] + runs[k].run /\ runs[k].run \in Nat
      BY <1>0, <1>1
    <3>3. e[i] \in Nat /\ e[k - 1] \in Nat
      BY <1>1, <1>2, <2>1
    <3> QED BY <2>1, <3>1, <3>2, <3>3
  <2>4. CASE i > k
    BY <1>2, <2>1, <2>4
  <2> QED BY <1>2, <2>1, <2>2, <2>3, <2>4
<1>5. \A k \in 0 .. n : k \in P
  <2> HIDE DEF P
  <2> QED BY <1>0, <1>3, <1>4, UpTo
<1> QED BY <1>2, <1>5 DEF e

LEMMA CoveredOnce ==
  ASSUME NEW runs \in Runs, NEW i \in 1 .. Len(runs), NEW j \in 1 .. Len(runs),
         NEW k \in Nat, Covers(runs, i, k), Covers(runs, j, k)
  PROVE  i = j
PROOF
<1>0. Len(runs) \in Nat
  BY RunsAre
<1>1. /\ i - 1 \in 0 .. Len(runs) /\ j - 1 \in 0 .. Len(runs)
      /\ i \in 0 .. Len(runs) /\ j \in 0 .. Len(runs)
  BY <1>0
<1>2. \A m \in 0 .. Len(runs) : Ends(runs)[m] \in Nat
  BY EndsAre
<1>3. CASE i < j
  <2>1. Ends(runs)[i] <= Ends(runs)[j - 1]
    BY <1>0, <1>1, <1>3, EndsGoUp
  <2> QED BY <1>1, <1>2, <2>1 DEF Covers
<1>4. CASE j < i
  <2>1. Ends(runs)[j] <= Ends(runs)[i - 1]
    BY <1>0, <1>1, <1>4, EndsGoUp
  <2> QED BY <1>1, <1>2, <2>1 DEF Covers
<1> QED BY <1>0, <1>3, <1>4

Fields == Pixel \cup Nat

LEMMA RunCodeIs ==
  ASSUME NEW c, c \in Fields, NEW n, n \in Nat
  PROVE  /\ RunCode(c, n) \in Seq(Fields)
         /\ Len(RunCode(c, n)) = IF n < 255 THEN 2 ELSE IF n < 65535 THEN 3 ELSE 4
         /\ RunCode(c, n)[1] = c
         /\ n < 255 => RunCode(c, n)[2] = n
         /\ n >= 255 => RunCode(c, n)[2] = 255
         /\ n >= 255 /\ n < 65535 => RunCode(c, n)[3] = n
         /\ n >= 65535 => RunCode(c, n)[3] = 65535 /\ RunCode(c, n)[4] = n
PROOF
<1>0. n \in Fields /\ 255 \in Fields /\ 65535 \in Fields
  BY DEF Fields
<1>1. RunCode(c, n) = IF n < 255 THEN << c, n >>
                      ELSE IF n < 65535 THEN << c, 255, n >> ELSE << c, 255, 65535, n >>
  BY DEF RunCode
<1>2. CASE n < 255
  <2>1. RunCode(c, n) = << c, n >>
    BY <1>1, <1>2
  <2>2. << c, n >> \in Seq(Fields)
    BY <1>0
  <2> QED BY <1>2, <2>1, <2>2
<1>3. CASE n >= 255 /\ n < 65535
  <2>1. RunCode(c, n) = << c, 255, n >>
    BY <1>1, <1>3
  <2>2. << c, 255, n >> \in Seq(Fields)
    BY <1>0
  <2> QED BY <1>3, <2>1, <2>2
<1>4. CASE n >= 65535
  <2>1. RunCode(c, n) = << c, 255, 65535, n >>
    BY <1>1, <1>4
  <2>2. << c, 255, 65535, n >> \in Seq(Fields)
    BY <1>0
  <2> QED BY <1>4, <2>1, <2>2
<1> QED BY <1>2, <1>3, <1>4

LEMMA JoinedAre ==
  ASSUME NEW X, NEW parts \in Seq(Seq(X))
  PROVE  /\ \A j \in 0 .. Len(parts) : Joined(parts)[j] \in Seq(X)
         /\ Joined(parts)[0] = <<>>
         /\ \A j \in 1 .. Len(parts) : Joined(parts)[j] = Joined(parts)[j - 1] \o parts[j]
PROOF
<1> DEFINE n == Len(parts)
           S == Seq(X)
           body(f, j) == IF j = 0 THEN <<>> ELSE f[j - 1] \o parts[j]
           F == [a \in S \X (1 .. n) |-> a[1] \o parts[a[2]]]
           Eq(f) == f = [j \in 0 .. n |-> body(f, j)]
           all == CHOOSE f : Eq(f)
<1>0. n \in Nat
  OBVIOUS
<1>1. \A j \in 1 .. n : parts[j] \in S
  OBVIOUS
<1>2. \A x \in S, y \in S : x \o y \in S
  OBVIOUS
<1>3. <<>> \in S
  OBVIOUS
<1> HIDE DEF n, S
<1>4. F \in [S \X (1 .. n) -> S]
  BY <1>1, <1>2
<1>5. PICK f : Results(f, F, S, <<>>, n)
  <2> HIDE DEF F
  <2> QED BY <1>0, <1>3, <1>4, LoopFunction
<1>6. \A j \in 1 .. n : f[j] = f[j - 1] \o parts[j]
  <2>1. ASSUME NEW j \in 1 .. n PROVE f[j] = f[j - 1] \o parts[j]
    <3>1. f \in [0 .. n -> S] /\ f[j] = F[<<f[j - 1], j>>]
      <4> HIDE DEF F
      <4> QED BY <1>5, Zenon DEF Results
    <3>2. j - 1 \in 0 .. n
      BY <1>0
    <3> QED BY <3>1, <3>2
  <2> QED BY <2>1
<1>7. Eq(f)
  <2>1. f \in [0 .. n -> S] /\ f[0] = <<>>
    <3> HIDE DEF F
    <3> QED BY <1>5 DEF Results
  <2>2. \A j \in 0 .. n : j = 0 \/ j \in 1 .. n
    BY <1>0
  <2> HIDE DEF F
  <2> QED BY <1>6, <2>1, <2>2
<1>8. Eq(all)
  <2> HIDE DEF Eq
  <2> QED BY <1>7
<1>9. Joined(parts) = all
  BY DEF Joined, n
<1> HIDE DEF all, F
<1>10. all[0] = <<>> /\ \A j \in 1 .. n : all[j] = all[j - 1] \o parts[j]
  <2>1. \A j \in 0 .. n : all[j] = body(all, j)
    BY <1>8
  <2>2. all[0] = <<>>
    BY <1>0, <2>1
  <2>3. ASSUME NEW j \in 1 .. n PROVE all[j] = all[j - 1] \o parts[j]
    <3>1. j \in 0 .. n /\ j # 0
      BY <1>0
    <3>2. all[j] = body(all, j)
      BY <2>1, <3>1
    <3> QED BY <3>1, <3>2
  <2> QED BY <2>2, <2>3
<1>11. \A j \in 0 .. n : all[j] \in S
  <2> DEFINE P == {j \in 0 .. n : all[j] \in S}
  <2>1. 0 \in P
    BY <1>0, <1>3, <1>10
  <2>2. ASSUME NEW j \in 1 .. n, j - 1 \in P PROVE j \in P
    <3>1. all[j - 1] \in S /\ parts[j] \in S /\ j \in 0 .. n
      BY <1>0, <1>1, <2>2
    <3> QED BY <1>2, <1>10, <3>1
  <2>3. \A j \in 0 .. n : j \in P
    <3> HIDE DEF P
    <3> QED BY <1>0, <2>1, <2>2, UpTo
  <2> QED BY <2>3
<1> QED BY <1>9, <1>10, <1>11 DEF n, S

(* The first parts joined are at the beginning of all of them.              *)
LEMMA JoinedGrow ==
  ASSUME NEW X, NEW parts \in Seq(Seq(X)),
         NEW i \in 0 .. Len(parts), NEW j \in 0 .. Len(parts), i <= j
  PROVE  LET a == Joined(parts)[i]
             b == Joined(parts)[j]
         IN  /\ Len(a) \in Nat /\ Len(b) \in Nat /\ Len(a) <= Len(b)
             /\ \A k \in 1 .. Len(a) : b[k] = a[k]
PROOF
<1> DEFINE n == Len(parts)
           c == Joined(parts)
           a == c[i]
           P == {m \in 0 .. n : i <= m => /\ Len(a) <= Len(c[m])
                                          /\ \A k \in 1 .. Len(a) : c[m][k] = a[k]}
<1>0. n \in Nat /\ i \in 0 .. n /\ j \in 0 .. n
  OBVIOUS
<1>1. /\ \A m \in 0 .. n : c[m] \in Seq(X) /\ Len(c[m]) \in Nat
      /\ \A m \in 1 .. n : c[m] = c[m - 1] \o parts[m]
  <2>1. \A x \in Seq(X) : Len(x) \in Nat
    OBVIOUS
  <2>2. /\ \A m \in 0 .. n : c[m] \in Seq(X)
        /\ \A m \in 1 .. n : c[m] = c[m - 1] \o parts[m]
    BY JoinedAre, Zenon
  <2> QED BY <2>1, <2>2
<1>2. \A m \in 1 .. n : parts[m] \in Seq(X)
  OBVIOUS
<1> HIDE DEF n, c
<1>3. 0 \in P
  <2>1. i <= 0 => i = 0
    BY <1>0
  <2> QED BY <1>0, <1>1, <2>1
<1>4. ASSUME NEW m \in 1 .. n, m - 1 \in P PROVE m \in P
  <2>1. m \in 0 .. n /\ m - 1 \in 0 .. n
    BY <1>0
  <2>2. CASE i = m
    BY <1>1, <2>1, <2>2
  <2>3. CASE i <= m - 1
    <3> DEFINE d == c[m - 1]
               e == parts[m]
    <3>1. Len(a) \in Nat /\ Len(a) <= Len(d) /\ \A k \in 1 .. Len(a) : d[k] = a[k]
      BY <1>0, <1>1, <1>4, <2>3
    <3>2. d \in Seq(X) /\ e \in Seq(X) /\ c[m] = d \o e
      BY <1>1, <1>2, <2>1
    <3> HIDE DEF a, d, e
    <3>3. Len(c[m]) = Len(d) + Len(e) /\ Len(d) \in Nat /\ Len(e) \in Nat
          /\ \A k \in 1 .. Len(d) : c[m][k] = d[k]
      BY <3>2
    <3>4. Len(a) <= Len(c[m]) /\ \A k \in 1 .. Len(a) : c[m][k] = a[k]
      BY <3>1, <3>3
    <3> QED BY <2>1, <3>4
  <2>4. CASE i > m
    BY <1>0, <2>1, <2>4
  <2> QED BY <1>0, <2>1, <2>2, <2>3, <2>4
<1>5. \A m \in 0 .. n : m \in P
  <2> HIDE DEF P
  <2> QED BY <1>0, <1>3, <1>4, UpTo
<1>6. i \in 0 .. n /\ Len(a) \in Nat /\ Len(c[j]) \in Nat
  BY <1>0, <1>1
<1> HIDE DEF a
<1>7. Len(a) <= Len(c[j]) /\ \A k \in 1 .. Len(a) : c[j][k] = a[k]
  BY <1>0, <1>5
<1> QED BY <1>6, <1>7 DEF a, c

(* Parts that are not empty have an item at least for each of them.         *)
LEMMA JoinedLong ==
  ASSUME NEW X, NEW parts \in Seq(Seq(X)), \A j \in 1 .. Len(parts) : Len(parts[j]) >= 1
  PROVE  /\ Len(Joined(parts)[Len(parts)]) \in Nat
         /\ Len(parts) <= Len(Joined(parts)[Len(parts)])
PROOF
<1> DEFINE n == Len(parts)
           c == Joined(parts)
           P == {j \in 0 .. n : j <= Len(c[j])}
<1>0. n \in Nat /\ n \in 0 .. n
  OBVIOUS
<1>1. /\ \A m \in 0 .. n : c[m] \in Seq(X) /\ Len(c[m]) \in Nat
      /\ \A m \in 1 .. n : c[m] = c[m - 1] \o parts[m]
  <2>1. \A x \in Seq(X) : Len(x) \in Nat
    OBVIOUS
  <2>2. /\ \A m \in 0 .. n : c[m] \in Seq(X)
        /\ \A m \in 1 .. n : c[m] = c[m - 1] \o parts[m]
    BY JoinedAre, Zenon
  <2> QED BY <2>1, <2>2
<1>2. \A m \in 1 .. n : parts[m] \in Seq(X) /\ Len(parts[m]) >= 1
  OBVIOUS
<1> HIDE DEF n, c
<1>3. 0 \in P
  BY <1>0, <1>1
<1>4. ASSUME NEW m \in 1 .. n, m - 1 \in P PROVE m \in P
  <2> DEFINE d == c[m - 1]
             e == parts[m]
  <2>1. m \in 0 .. n /\ m - 1 \in 0 .. n
    BY <1>0
  <2>2. d \in Seq(X) /\ e \in Seq(X) /\ c[m] = d \o e /\ Len(e) >= 1 /\ m - 1 <= Len(d)
    BY <1>1, <1>2, <1>4, <2>1
  <2> HIDE DEF d, e
  <2>3. Len(c[m]) = Len(d) + Len(e) /\ Len(d) \in Nat /\ Len(e) \in Nat
    BY <2>2
  <2>4. m <= Len(c[m])
    BY <2>1, <2>2, <2>3
  <2> QED BY <2>1, <2>4
<1>5. \A m \in 0 .. n : m \in P
  <2> HIDE DEF P
  <2> QED BY <1>0, <1>3, <1>4, UpTo
<1> QED BY <1>0, <1>1, <1>5 DEF n, c

(* Sequence e is in s, from p on.                                           *)
Lies(s, p, e) ==
  /\ Len(s) \in Nat /\ Len(e) \in Nat /\ p \in Nat \ {0} /\ p + Len(e) <= Len(s) + 1
  /\ \A k \in 1 .. Len(e) : s[p + k - 1] = e[k]

(* A field and the length of its run are read at p.                         *)
Reads(s, p, c, n) ==
  /\ p <= Len(s) /\ s[p] = c
  /\ RunFields(s, p + 1) # 0 /\ RunLength(s, p + 1) = n
  /\ p + 1 + RunFields(s, p + 1) = p + Len(RunCode(c, n))

(* The code of a run is read as its field and its length.                   *)
LEMMA ReadsCode ==
  ASSUME NEW c, c \in Fields, NEW n, n \in Nat, NEW s, NEW p, Lies(s, p, RunCode(c, n))
  PROVE  Reads(s, p, c, n)
PROOF
<1> DEFINE e == RunCode(c, n)
           f == RunFields(s, p + 1)
<1>1. /\ Len(e) = IF n < 255 THEN 2 ELSE IF n < 65535 THEN 3 ELSE 4
      /\ e[1] = c
      /\ n < 255 => e[2] = n
      /\ n >= 255 => e[2] = 255
      /\ n >= 255 /\ n < 65535 => e[3] = n
      /\ n >= 65535 => e[3] = 65535 /\ e[4] = n
  BY RunCodeIs
<1>2. /\ n \in Nat /\ p \in Nat \ {0} /\ Len(s) \in Nat /\ p + Len(e) <= Len(s) + 1
      /\ \A k \in 1 .. Len(e) : s[p + k - 1] = e[k]
  BY DEF Lies
<1>3. f = IF p + 1 <= Len(s) /\ s[p + 1] < 255 THEN 1
          ELSE IF p + 2 <= Len(s) /\ s[p + 2] < 65535 THEN 2
          ELSE IF p + 3 <= Len(s) THEN 3 ELSE 0
  <2>1. p + 1 + 1 = p + 2 /\ p + 1 + 2 = p + 3
    BY <1>2
  <2> QED BY <2>1 DEF RunFields
<1>4. RunLength(s, p + 1) = s[p + 1 + f - 1]
  BY Zenon DEF RunLength
<1> DEFINE rest == RunLength(s, p + 1)
<1> HIDE DEF e, f, rest
<1>5. s[p] = e[1] /\ s[p + 1] = e[2]
  <2>1. 1 \in 1 .. Len(e) /\ 2 \in 1 .. Len(e) /\ p + 1 - 1 = p /\ p + 2 - 1 = p + 1
    BY <1>1, <1>2
  <2> QED BY <1>2, <2>1
<1>6. n >= 255 => s[p + 2] = e[3]
  <2>1. n >= 255 => 3 \in 1 .. Len(e) /\ p + 3 - 1 = p + 2
    BY <1>1, <1>2
  <2> QED BY <1>2, <2>1
<1>7. n >= 65535 => s[p + 3] = e[4]
  <2>1. n >= 65535 => 4 \in 1 .. Len(e) /\ p + 4 - 1 = p + 3
    BY <1>1, <1>2
  <2> QED BY <1>2, <2>1
<1>8. CASE n < 255
  <2>1. f = 1 /\ p <= Len(s) /\ Len(e) = 2
    BY <1>1, <1>2, <1>3, <1>5, <1>8
  <2>2. rest = s[p + 1]
    <3>1. p + 1 + 1 - 1 = p + 1
      BY <1>2
    <3> QED BY <1>4, <2>1, <3>1 DEF rest
  <2>3. rest = n /\ s[p] = c
    BY <1>1, <1>5, <1>8, <2>2
  <2> QED BY <1>2, <2>1, <2>3 DEF e, f, rest, Reads
<1>9. CASE n >= 255 /\ n < 65535
  <2>1. f = 2 /\ p <= Len(s) /\ Len(e) = 3
    BY <1>1, <1>2, <1>3, <1>5, <1>6, <1>9
  <2>2. rest = s[p + 2]
    <3>1. p + 1 + 2 - 1 = p + 2
      BY <1>2
    <3> QED BY <1>4, <2>1, <3>1 DEF rest
  <2>3. rest = n /\ s[p] = c
    BY <1>1, <1>5, <1>6, <1>9, <2>2
  <2> QED BY <1>2, <2>1, <2>3 DEF e, f, rest, Reads
<1>10. CASE n >= 65535
  <2>1. f = 3 /\ p <= Len(s) /\ Len(e) = 4
    BY <1>1, <1>2, <1>3, <1>5, <1>6, <1>10
  <2>2. rest = s[p + 3]
    <3>1. p + 1 + 3 - 1 = p + 3
      BY <1>2
    <3> QED BY <1>4, <2>1, <3>1 DEF rest
  <2>3. rest = n /\ s[p] = c
    BY <1>1, <1>5, <1>7, <1>10, <2>2
  <2> QED BY <1>2, <2>1, <2>3 DEF e, f, rest, Reads
<1> QED BY <1>2, <1>8, <1>9, <1>10

LiesBehind(head, t, a, e) ==
  /\ Lies(head \o t, Len(head) + Len(a) + 1, e)
  /\ Len(head) + Len(a) + 1 + Len(e) = Len(head) + Len(a \o e) + 1

(* What is behind a in t is behind the head and a in the whole.             *)
LEMMA BehindHead ==
  ASSUME NEW X, NEW head, head \in Seq(X), NEW a, a \in Seq(X), NEW e, e \in Seq(X),
         NEW t, t \in Seq(X), Len(a \o e) <= Len(t),
         \A k \in 1 .. Len(a \o e) : t[k] = (a \o e)[k]
  PROVE  LiesBehind(head, t, a, e)
PROOF
<1> DEFINE h == Len(head)
           s == head \o t
           b == a \o e
           p == h + Len(a) + 1
<1>1. /\ Len(a) \in Nat /\ Len(e) \in Nat /\ Len(b) = Len(a) + Len(e)
      /\ \A k \in 1 .. Len(e) : b[Len(a) + k] = e[k]
  OBVIOUS
<1>2. /\ h \in Nat /\ Len(t) \in Nat /\ Len(s) = h + Len(t)
      /\ \A k \in 1 .. Len(t) : s[h + k] = t[k]
  OBVIOUS
<1>3. Len(b) <= Len(t) /\ \A k \in 1 .. Len(b) : t[k] = b[k]
  OBVIOUS
<1> HIDE DEF h, s, b
<1>4. ASSUME NEW k \in 1 .. Len(e) PROVE s[p + k - 1] = e[k]
  <2>1. Len(a) + k \in 1 .. Len(b) /\ p + k - 1 = h + (Len(a) + k)
    BY <1>1, <1>2
  <2>2. Len(a) + k \in 1 .. Len(t)
    BY <1>1, <1>2, <1>3, <2>1
  <2> QED BY <1>1, <1>2, <1>3, <2>1, <2>2
<1>5. /\ p \in Nat \ {0} /\ Len(s) \in Nat /\ p + Len(e) <= Len(s) + 1
      /\ p + Len(e) = h + Len(b) + 1
  BY <1>1, <1>2, <1>3
<1> HIDE DEF p
<1>6. Lies(s, p, e)
  BY <1>1, <1>4, <1>5, Zenon DEF Lies
<1> QED BY <1>5, <1>6, Zenon DEF p, s, b, h, LiesBehind

ReadsAt(head, codes, j, c, n) ==
  LET s == head \o Joined(codes)[Len(codes)]
      p == Len(head) + Len(Joined(codes)[j - 1]) + 1
  IN  /\ p \in Nat /\ Len(s) \in Nat /\ Reads(s, p, c, n)
      /\ p + Len(RunCode(c, n)) = Len(head) + Len(Joined(codes)[j]) + 1

(* Behind a head, the code that is part j of a stream is read where the     *)
(* parts before it end.                                                     *)
LEMMA ReadsPart ==
  ASSUME NEW head, head \in Seq(Fields), NEW codes, codes \in Seq(Seq(Fields)),
         NEW j, j \in 1 .. Len(codes),
         NEW c, c \in Fields, NEW n, n \in Nat, codes[j] = RunCode(c, n)
  PROVE  ReadsAt(head, codes, j, c, n)
PROOF
<1> DEFINE m == Len(codes)
           t == Joined(codes)[m]
           a == Joined(codes)[j - 1]
           b == Joined(codes)[j]
           e == RunCode(c, n)
           s == head \o t
           p == Len(head) + Len(a) + 1
<1>0. m \in Nat /\ j \in 1 .. m /\ j \in 0 .. m /\ j - 1 \in 0 .. m /\ m \in 0 .. m /\ j <= m
  OBVIOUS
<1>1. /\ \A i \in 0 .. m : Joined(codes)[i] \in Seq(Fields)
      /\ \A i \in 1 .. m : Joined(codes)[i] = Joined(codes)[i - 1] \o codes[i]
  BY JoinedAre
<1>2. Len(b) <= Len(t) /\ \A k \in 1 .. Len(b) : t[k] = b[k]
  <2>1. ASSUME NEW i \in 0 .. m, NEW l \in 0 .. m, i <= l
        PROVE  LET x == Joined(codes)[i]
                   y == Joined(codes)[l]
               IN  Len(x) <= Len(y) /\ \A k \in 1 .. Len(x) : y[k] = x[k]
    BY <2>1, JoinedGrow
  <2> HIDE DEF m
  <2> QED BY <1>0, <2>1
<1> HIDE DEF m
<1>3. a \in Seq(Fields) /\ t \in Seq(Fields) /\ b = a \o e
  BY <1>0, <1>1, Zenon
<1>4. e \in Seq(Fields) /\ head \in Seq(Fields)
  BY RunCodeIs
<1> HIDE DEF a, b, t, e
<1>5. Lies(s, p, e) /\ p + Len(e) = Len(head) + Len(b) + 1
  <2>1. Len(a \o e) <= Len(t) /\ \A k \in 1 .. Len(a \o e) : t[k] = (a \o e)[k]
    BY <1>2, <1>3, Zenon
  <2>2. LiesBehind(head, t, a, e)
    BY <1>3, <1>4, <2>1, BehindHead, Zenon
  <2> QED BY <1>3, <2>2, Zenon DEF LiesBehind
<1> HIDE DEF s, p
<1>6. p \in Nat /\ Len(s) \in Nat
  BY <1>5 DEF Lies
<1>7. Reads(s, p, c, n)
  BY <1>5, ReadsCode, Zenon DEF e
<1> QED BY <1>5, <1>6, <1>7, Zenon DEF p, s, a, b, t, e, m, ReadsAt

(* The codes of the runs of a residual layer.                               *)
ResidualCodes(runs) == [j \in DOMAIN runs |-> RunCode(runs[j].color, runs[j].run)]

LEMMA CodesAre ==
  ASSUME NEW runs \in Runs
  PROVE  /\ ResidualCode(runs) = Joined(ResidualCodes(runs))
         /\ ResidualCodes(runs) \in Seq(Seq(Fields))
         /\ Len(ResidualCodes(runs)) = Len(runs)
         /\ \A j \in 1 .. Len(runs) :
              /\ ResidualCodes(runs)[j] = RunCode(runs[j].color, runs[j].run)
              /\ Len(ResidualCodes(runs)[j]) >= 1
PROOF
<1> DEFINE codes == ResidualCodes(runs)
           code(j) == RunCode(runs[j].color, runs[j].run)
           n == Len(runs)
<1>0. n \in Nat /\ DOMAIN runs = 1 .. n
  BY RunsAre
<1>1. ASSUME NEW j \in 1 .. n PROVE code(j) \in Seq(Fields) /\ Len(code(j)) >= 1
  <2> DEFINE c == runs[j].color
             l == runs[j].run
  <2>1. c \in Fields /\ l \in Nat
    BY RunsAre DEF Fields
  <2> HIDE DEF c, l
  <2>2. RunCode(c, l) \in Seq(Fields)
        /\ Len(RunCode(c, l)) = IF l < 255 THEN 2 ELSE IF l < 65535 THEN 3 ELSE 4
    BY <2>1, RunCodeIs
  <2>3. Len(RunCode(c, l)) >= 1
    BY <2>2
  <2> QED BY <2>2, <2>3 DEF c, l
<1>2. codes = [j \in 1 .. n |-> code(j)]
  BY <1>0 DEF ResidualCodes
<1>3. ResidualCode(runs) = Joined(codes)
  BY DEF ResidualCode, ResidualCodes
<1> HIDE DEF code, codes
<1>4. codes \in Seq(Seq(Fields)) /\ Len(codes) = n /\ \A j \in 1 .. n : codes[j] = code(j)
  BY <1>0, <1>1, <1>2
<1> QED BY <1>1, <1>3, <1>4, Zenon DEF codes, code, n

(* Run j is read where its code begins.                                     *)
LEMMA ReadsRun ==
  ASSUME NEW runs \in Runs, NEW j \in 1 .. Len(runs)
  PROVE  LET s == ResidualCode(runs)[Len(runs)]
             p == Len(ResidualCode(runs)[j - 1]) + 1
         IN  /\ p \in Nat /\ p <= Len(s) /\ s[p] = runs[j].color
             /\ RunFields(s, p + 1) # 0
             /\ RunLength(s, p + 1) = runs[j].run
             /\ p + 1 + RunFields(s, p + 1) = Len(ResidualCode(runs)[j]) + 1
PROOF
<1> DEFINE codes == ResidualCodes(runs)
           joined == Joined(codes)
           c == runs[j].color
           n == runs[j].run
           t == joined[Len(codes)]
           s == <<>> \o t
           p == Len(<<>>) + Len(joined[j - 1]) + 1
<1>0. c \in Fields /\ n \in Nat /\ Len(runs) \in Nat
  BY RunsAre DEF Fields
<1>1. /\ ResidualCode(runs) = joined /\ codes \in Seq(Seq(Fields)) /\ Len(codes) = Len(runs)
      /\ codes[j] = RunCode(c, n)
  BY CodesAre
<1> HIDE DEF codes, c, n
<1>2. /\ p \in Nat /\ Reads(s, p, c, n)
      /\ p + Len(RunCode(c, n)) = Len(<<>>) + Len(joined[j]) + 1
  <2>1. <<>> \in Seq(Fields) /\ j \in 1 .. Len(codes)
    BY <1>1
  <2> HIDE DEF joined
  <2>2. ReadsAt(<<>>, codes, j, c, n)
    BY <1>0, <1>1, <2>1, ReadsPart, Zenon
  <2> QED BY <2>2, Zenon DEF ReadsAt, joined
<1>3. /\ s = t /\ \A x : Len(x) \in Nat => Len(<<>>) + Len(x) + 1 = Len(x) + 1
  <2>1. t \in Seq(Fields)
    <3>1. Len(codes) \in 0 .. Len(codes)
      BY <1>0, <1>1
    <3> QED BY <1>1, <3>1, JoinedAre
  <2> HIDE DEF t
  <2> QED BY <2>1
<1>4. Len(joined[j]) \in Nat /\ Len(joined[j - 1]) \in Nat
  <2>1. \A x \in Seq(Fields) : Len(x) \in Nat
    OBVIOUS
  <2>2. j \in 0 .. Len(codes) /\ j - 1 \in 0 .. Len(codes)
    BY <1>0, <1>1
  <2> QED BY <1>1, <2>1, <2>2, JoinedAre
<1> HIDE DEF joined, s, t
<1>5. /\ p = Len(joined[j - 1]) + 1
      /\ Len(<<>>) + Len(joined[j]) + 1 = Len(joined[j]) + 1
  BY <1>3, <1>4
<1> HIDE DEF p
<1> QED BY <1>1, <1>2, <1>3, <1>5, Zenon DEF c, n, t, Reads

(* The code of runs has a field at least for each of them.                  *)
LEMMA CodesLong ==
  ASSUME NEW runs \in Runs
  PROVE  /\ \A j \in 0 .. Len(runs) : Len(ResidualCode(runs)[j]) \in Nat
         /\ ResidualCode(runs)[0] = <<>>
         /\ Len(runs) <= Len(ResidualCode(runs)[Len(runs)])
PROOF
<1> DEFINE codes == ResidualCodes(runs)
<1>1. /\ ResidualCode(runs) = Joined(codes) /\ codes \in Seq(Seq(Fields))
      /\ Len(codes) = Len(runs) /\ \A j \in 1 .. Len(codes) : Len(codes[j]) >= 1
  BY CodesAre
<1> HIDE DEF codes
<1>2. \A x \in Seq(Fields) : Len(x) \in Nat
  OBVIOUS
<1>3. /\ \A j \in 0 .. Len(codes) : Joined(codes)[j] \in Seq(Fields)
      /\ Joined(codes)[0] = <<>>
  BY <1>1, JoinedAre
<1>4. Len(codes) <= Len(Joined(codes)[Len(codes)])
  BY <1>1, JoinedLong
<1> QED BY <1>1, <1>2, <1>3, <1>4

(* Where decode_residual is behind run j.                                   *)
Behind(runs, pixels, j) ==
  [ok |-> TRUE, pos |-> Len(ResidualCode(runs)[j]) + 1,
   idx |-> AtMost(Ends(runs)[j], Len(pixels)),
   out |-> [k \in 1 .. Len(pixels) |->
              IF k <= Ends(runs)[j] THEN Drawn(runs, pixels)[k] ELSE pixels[k]]]

LEMMA DrawnIs ==
  ASSUME NEW runs \in Runs, NEW S, NEW pixels \in Seq(S)
  PROVE  /\ Drawn(runs, pixels) = [k \in 1 .. Len(pixels) |-> Drawn(runs, pixels)[k]]
         /\ \A j \in 1 .. Len(runs), k \in 1 .. Len(pixels) :
              Covers(runs, j, k) => Drawn(runs, pixels)[k] = runs[j].color
         /\ \A k \in 1 .. Len(pixels) :
              k > Ends(runs)[Len(runs)] => Drawn(runs, pixels)[k] = pixels[k]
PROOF
<1> DEFINE n == Len(pixels)
           L == Len(runs)
           d == Drawn(runs, pixels)
           color(k) == IF \E j \in DOMAIN runs : Covers(runs, j, k)
                       THEN runs[CHOOSE j \in DOMAIN runs : Covers(runs, j, k)].color
                       ELSE pixels[k]
<1>0. n \in Nat /\ DOMAIN pixels = 1 .. n /\ L \in Nat /\ DOMAIN runs = 1 .. L
  BY RunsAre
<1>1. d = [k \in 1 .. n |-> color(k)]
  BY <1>0 DEF Drawn
<1>2. \A k \in 1 .. n : d[k] = color(k)
  BY <1>1
<1>3. d = [k \in 1 .. n |-> d[k]]
  <2> HIDE DEF color, d
  <2> QED BY <1>1, <1>2
<1>4. ASSUME NEW j \in 1 .. L, NEW k \in 1 .. n, Covers(runs, j, k)
      PROVE  d[k] = runs[j].color
  <2> DEFINE i == CHOOSE i \in DOMAIN runs : Covers(runs, i, k)
  <2>1. \E i_1 \in DOMAIN runs : Covers(runs, i_1, k)
    BY <1>0, <1>4
  <2>2. i \in DOMAIN runs /\ Covers(runs, i, k)
    BY <2>1, Zenon
  <2>3. color(k) = runs[i].color
    BY <2>1, Zenon
  <2> HIDE DEF i, color, d
  <2>4. i \in 1 .. L /\ k \in Nat
    BY <1>0, <2>2
  <2>5. i = j
    BY <1>4, <2>2, <2>4, CoveredOnce
  <2> QED BY <1>2, <2>3, <2>5
<1>5. ASSUME NEW k \in 1 .. n, k > Ends(runs)[L] PROVE d[k] = pixels[k]
  <2>1. ASSUME NEW j \in DOMAIN runs, Covers(runs, j, k) PROVE FALSE
    <3>1. j \in 1 .. L /\ j \in 0 .. L /\ L \in 0 .. L /\ j <= L
      BY <1>0
    <3>2. Ends(runs)[j] <= Ends(runs)[L]
      BY <3>1, EndsGoUp
    <3>3. Ends(runs)[j] \in Nat /\ Ends(runs)[L] \in Nat /\ k \in Nat
      <4>1. Ends(runs) \in [0 .. L -> Nat]
        BY EndsAre
      <4> HIDE DEF L
      <4> QED BY <1>0, <3>1, <4>1
    <3>4. k <= Ends(runs)[j]
      BY <2>1 DEF Covers
    <3> QED BY <1>5, <3>2, <3>3, <3>4
  <2>2. color(k) = pixels[k]
    BY <2>1, Zenon
  <2> HIDE DEF color, d
  <2> QED BY <1>2, <2>2
<1> QED BY <1>3, <1>4, <1>5, Zenon

(* Each time round, decode_residual gets behind one run more, until there   *)
(* is none or the tile is full.                                             *)
LEMMA ResidualRunIs ==
  ASSUME NEW runs \in Runs, NEW S, NEW pixels \in Seq(S), NEW j \in 0 .. Len(runs)
  PROVE  LET s == ResidualCode(runs)[Len(runs)]
         IN  ResidualRun(s, Len(pixels), Behind(runs, pixels, j)) =
               IF j < Len(runs) /\ Ends(runs)[j] < Len(pixels)
               THEN Behind(runs, pixels, j + 1) ELSE Behind(runs, pixels, j)
PROOF
<1> DEFINE n == Len(pixels)
           L == Len(runs)
           s == ResidualCode(runs)[L]
           e == Ends(runs)
           p == Len(ResidualCode(runs)[j]) + 1
           d == Drawn(runs, pixels)
           st == Behind(runs, pixels, j)
           out(i) == [k \in 1 .. n |-> IF k <= e[i] THEN d[k] ELSE pixels[k]]
<1>0. /\ n \in Nat /\ L \in Nat /\ e[j] \in Nat /\ j \in Nat
  BY RunsAre, EndsAre
<1>1. st = [ok |-> TRUE, pos |-> p, idx |-> AtMost(e[j], n), out |-> out(j)]
  BY Zenon DEF Behind
<1>2. CASE j = L
  <2>1. p = Len(s) + 1 /\ Len(s) \in Nat
    <3>1. L \in 0 .. L
      BY <1>0
    <3>2. Len(s) \in Nat
      BY <3>1, CodesLong
    <3> QED BY <1>2, <3>2
  <2> HIDE DEF s, p, out, n, L, e, d
  <2>2. st.pos > Len(s) /\ ~ (j < L)
    BY <1>0, <1>1, <1>2, <2>1
  <2> HIDE DEF st
  <2>3. ResidualRun(s, n, st) = st
    BY <2>2, Zenon DEF ResidualRun
  <2> QED BY <2>2, <2>3, Zenon DEF s, n, L, st
<1>3. CASE e[j] >= n
  <2> HIDE DEF s, p, out, n, L, e, d
  <2>1. st.idx >= n /\ ~ (e[j] < n)
    BY <1>0, <1>1, <1>3 DEF AtMost
  <2> HIDE DEF st
  <2>2. ResidualRun(s, n, st) = st
    BY <2>1, Zenon DEF ResidualRun
  <2> QED BY <2>1, <2>2, Zenon DEF s, n, L, e, st
<1>4. CASE j < L /\ e[j] < n
  <2> DEFINE i == j + 1
             f == RunFields(s, p + 1)
             end == e[j] + RunLength(s, p + 1)
             q == Len(ResidualCode(runs)[i]) + 1
  <2>1. i \in 1 .. L /\ i \in 0 .. L /\ i - 1 = j
    BY <1>0, <1>4
  <2>2. /\ p \in Nat /\ p <= Len(s) /\ s[p] = runs[i].color
        /\ f # 0 /\ RunLength(s, p + 1) = runs[i].run
        /\ p + 1 + f = q
    BY <2>1, ReadsRun
  <2>3. e[i] = e[j] + runs[i].run /\ e[i] \in Nat
    BY <2>1, EndsAre
  <2>4. Behind(runs, pixels, i) =
          [ok |-> TRUE, pos |-> q, idx |-> AtMost(e[i], n), out |-> out(i)]
    BY Zenon DEF Behind
  <2>5. \A k \in 1 .. n : Covers(runs, i, k) => d[k] = runs[i].color
    BY <2>1, DrawnIs
  <2>6. \A k \in 1 .. n : Covers(runs, i, k) <=> (e[j] < k /\ k <= e[i])
    BY <2>1 DEF Covers
  <2>7. Len(s) \in Nat
    <3>1. L \in 0 .. L
      BY <1>0
    <3> QED BY <3>1, CodesLong
  <2> DEFINE next == [k \in 1 .. n |-> IF k > e[j] /\ k <= end THEN s[p] ELSE out(j)[k]]
  <2>8. next = out(i)
    <3>1. ASSUME NEW k \in 1 .. n
          PROVE  (IF k > e[j] /\ k <= end THEN s[p] ELSE out(j)[k])
                   = IF k <= e[i] THEN d[k] ELSE pixels[k]
      <4>1. out(j)[k] = IF k <= e[j] THEN d[k] ELSE pixels[k]
        OBVIOUS
      <4>2. end = e[i]
        BY <2>2, <2>3
      <4> HIDE DEF out, s, p, d, e, end, n, L
      <4>3. k \in Nat
        BY <1>0
      <4>4. e[j] <= e[i]
        <5>1. j <= i /\ j \in 0 .. Len(runs) /\ i \in 0 .. Len(runs)
          BY <1>0, <2>1 DEF L
        <5> HIDE DEF i
        <5> QED BY <5>1, EndsGoUp DEF e
      <4> HIDE DEF i
      <4>5. CASE e[j] < k /\ k <= e[i]
        <5>1. d[k] = s[p]
          BY <2>2, <2>5, <2>6, <4>5
        <5> QED BY <4>2, <4>5, <5>1
      <4>6. CASE k <= e[j]
        BY <1>0, <2>3, <4>1, <4>2, <4>3, <4>4, <4>6
      <4>7. CASE k > e[i]
        BY <1>0, <2>3, <4>1, <4>2, <4>3, <4>4, <4>7
      <4> QED BY <1>0, <2>3, <4>3, <4>5, <4>6, <4>7
    <3> HIDE DEF s, p, d, e, end, n
    <3> QED BY <3>1
  <2>9. end = e[i]
    BY <2>2, <2>3
  <2> HIDE DEF s, p, d, e, end, n, L, f, q, out, next, i
  <2>10. st.ok = TRUE /\ st.pos = p /\ st.idx = e[j] /\ st.out = out(j)
    BY <1>0, <1>1, <1>4 DEF AtMost
  <2> HIDE DEF st
  <2>11. ~ (~st.ok \/ st.pos > Len(s) \/ st.idx >= n)
    <3>1. ~ (p > Len(s))
      BY <2>2, <2>7
    <3>2. ~ (e[j] >= n)
      BY <1>0, <1>4
    <3> QED BY <2>10, <3>1, <3>2, Zenon
  <2>12. ResidualRun(s, n, st)
           = [ok |-> TRUE, pos |-> st.pos + 1 + f, idx |-> AtMost(st.idx + RunLength(s, p + 1), n),
              out |-> [k \in 1 .. n |-> IF k > st.idx /\ k <= st.idx + RunLength(s, p + 1)
                                        THEN s[st.pos] ELSE st.out[k]]]
    BY <2>2, <2>10, <2>11, Zenon DEF ResidualRun, f
  <2>13. ResidualRun(s, n, st) = [ok |-> TRUE, pos |-> q, idx |-> AtMost(e[i], n), out |-> next]
    BY <2>2, <2>9, <2>10, <2>12, Zenon DEF end, next
  <2>14. ResidualRun(s, n, st) = Behind(runs, pixels, i)
    BY <2>4, <2>8, <2>13, Zenon
  <2> QED BY <1>4, <2>14, Zenon DEF s, n, L, e, st, i
<1> QED BY <1>0, <1>2, <1>3, <1>4

(* What decode_residual makes of a residual layer is what its runs draw.    *)
LEMMA ResidualDecoded ==
  ASSUME NEW runs \in Runs, NEW X, NEW pixels \in Seq(X)
  PROVE  LET decoded == DecodeResidual(ResidualCode(runs)[Len(runs)], pixels)
         IN  decoded.ok /\ decoded.out = Drawn(runs, pixels)
PROOF
<1> DEFINE L == Len(runs)
           n == Len(pixels)
           s == ResidualCode(runs)[L]
           m == Len(s)
           e == Ends(runs)
           B(j) == Behind(runs, pixels, j)
           S == {B(j) : j \in 0 .. L}
           start == [ok |-> TRUE, pos |-> 1, idx |-> 0, out |-> pixels]
           F == [a \in S \X (1 .. m) |-> ResidualRun(s, n, a[1])]
           body(f, k) == IF k = 0 THEN start ELSE ResidualRun(s, n, f[k - 1])
           Eq(f) == f = [k \in 0 .. m |-> body(f, k)]
           after == CHOOSE f : Eq(f)
<1>0. /\ L \in Nat /\ n \in Nat /\ m \in Nat /\ L <= m
      /\ \A j \in 0 .. L : e[j] \in Nat
      /\ pixels = [k \in 1 .. n |-> pixels[k]]
  <2>1. L \in 0 .. L
    BY RunsAre
  <2> QED BY <2>1, RunsAre, EndsAre, CodesLong
<1>1. start = B(0)
  <2>1. ResidualCode(runs)[0] = <<>> /\ e[0] = 0
    BY CodesLong, EndsAre
  <2>2. Len(<<>>) + 1 = 1 /\ AtMost(0, n) = 0
    BY <1>0 DEF AtMost
  <2>3. [k \in 1 .. n |-> IF k <= 0 THEN Drawn(runs, pixels)[k] ELSE pixels[k]] = pixels
    BY <1>0
  <2> HIDE DEF n
  <2> QED BY <2>1, <2>2, <2>3 DEF Behind, n
<1>2. \A j \in 0 .. L : ResidualRun(s, n, B(j)) = IF j < L /\ e[j] < n THEN B(j + 1) ELSE B(j)
  BY ResidualRunIs
<1> HIDE DEF L, n, s, e, B
<1>3. start \in S
  BY <1>0, <1>1
<1>4. ASSUME NEW x \in S PROVE ResidualRun(s, n, x) \in S
  <2>1. PICK j \in 0 .. L : x = B(j)
    OBVIOUS
  <2>2. ResidualRun(s, n, x) = IF j < L /\ e[j] < n THEN B(j + 1) ELSE B(j)
    BY <1>2, <2>1
  <2>3. j < L => j + 1 \in 0 .. L
    BY <1>0
  <2> QED BY <2>2, <2>3
<1> HIDE DEF m, start
<1>5. F \in [S \X (1 .. m) -> S]
  <2> HIDE DEF S
  <2> QED BY <1>4
<1>6. \E f : Eq(f)
  <2>1. PICK f : Results(f, F, S, start, m)
    <3> HIDE DEF F, S
    <3> QED BY <1>0, <1>3, <1>5, LoopFunction
  <2>2. f \in [0 .. m -> S] /\ f[0] = start
    <3> HIDE DEF F, S
    <3> QED BY <2>1 DEF Results
  <2>3. ASSUME NEW k \in 1 .. m PROVE f[k] = ResidualRun(s, n, f[k - 1])
    <3> HIDE DEF S
    <3>1. k - 1 \in 0 .. m /\ f[k - 1] \in S
      BY <1>0, <2>2
    <3>2. f[k] = F[<<f[k - 1], k>>]
      <4> HIDE DEF F
      <4> QED BY <2>1 DEF Results
    <3> QED BY <3>1, <3>2
  <2>4. \A k \in 0 .. m : k = 0 \/ k \in 1 .. m
    BY <1>0
  <2>5. Eq(f)
    <3> HIDE DEF F, S
    <3> QED BY <2>2, <2>3, <2>4
  <2> QED BY <2>5
<1>7. Eq(after)
  <2> HIDE DEF Eq
  <2> QED BY <1>6
<1>8. DecodeResidual(s, pixels) = after[m]
  BY DEF DecodeResidual, start, n, m
<1> HIDE DEF after, F
<1>9. after[0] = start /\ \A k \in 1 .. m : after[k] = ResidualRun(s, n, after[k - 1])
  <2>1. \A k \in 0 .. m : after[k] = body(after, k)
    BY <1>7
  <2>2. \A k \in 1 .. m : k \in 0 .. m /\ k # 0
    BY <1>0
  <2>3. 0 \in 0 .. m
    BY <1>0
  <2> QED BY <2>1, <2>2, <2>3
<1> DEFINE P == {k \in 0 .. m : \E j \in 0 .. L : after[k] = B(j) /\ (j >= k \/ j = L \/ e[j] >= n)}
<1>10. 0 \in P
  <2>1. 0 \in 0 .. L /\ 0 \in 0 .. m
    BY <1>0
  <2> QED BY <1>1, <1>9, <2>1
<1>11. ASSUME NEW k \in 1 .. m, k - 1 \in P PROVE k \in P
  <2>1. k \in 0 .. m /\ k \in Nat
    BY <1>0
  <2>2. PICK j \in 0 .. L : after[k - 1] = B(j) /\ (j >= k - 1 \/ j = L \/ e[j] >= n)
    BY <1>11
  <2>3. after[k] = IF j < L /\ e[j] < n THEN B(j + 1) ELSE B(j)
    BY <1>2, <1>9, <2>2
  <2>4. CASE j < L /\ e[j] < n
    <3>1. j + 1 \in 0 .. L /\ j + 1 >= k
      <4>1. e[j] \in Nat /\ n \in Nat /\ L \in Nat /\ j \in Nat
        BY <1>0
      <4>2. ~ (e[j] >= n) /\ j # L
        BY <2>4, <4>1
      <4>3. j >= k - 1
        BY <2>2, <4>2
      <4> QED BY <2>1, <2>4, <4>1, <4>3
    <3>2. after[k] = B(j + 1)
      BY <2>3, <2>4
    <3> QED BY <2>1, <3>1, <3>2
  <2>5. CASE ~ (j < L /\ e[j] < n)
    <3>1. j = L \/ e[j] >= n
      BY <1>0, <2>5
    <3>2. after[k] = B(j)
      BY <2>3, <2>5
    <3> QED BY <2>1, <3>1, <3>2
  <2> QED BY <2>4, <2>5
<1>12. \A k \in 0 .. m : k \in P
  <2> HIDE DEF P
  <2> QED BY <1>0, <1>10, <1>11, UpTo
<1>13. PICK j \in 0 .. L : after[m] = B(j) /\ (j = L \/ e[j] >= n)
  <2>1. m \in 0 .. m
    BY <1>0
  <2>2. PICK j \in 0 .. L : after[m] = B(j) /\ (j >= m \/ j = L \/ e[j] >= n)
    BY <1>12, <2>1
  <2>3. j >= m => j = L
    BY <1>0
  <2> QED BY <2>2, <2>3
<1> DEFINE d == Drawn(runs, pixels)
<1>14. B(j) = [ok |-> TRUE, pos |-> Len(ResidualCode(runs)[j]) + 1, idx |-> AtMost(e[j], n),
               out |-> [k \in 1 .. n |-> IF k <= e[j] THEN d[k] ELSE pixels[k]]]
  BY Zenon DEF B, Behind, e, n
<1>15. /\ d = [k \in 1 .. n |-> d[k]]
       /\ \A k \in 1 .. n : k > e[L] => d[k] = pixels[k]
  BY DrawnIs DEF n, e, L
<1> HIDE DEF d
<1>16. \A k \in 1 .. n : (IF k <= e[j] THEN d[k] ELSE pixels[k]) = d[k]
  <2>1. ASSUME NEW k \in 1 .. n, ~ (k <= e[j]) PROVE pixels[k] = d[k]
    <3>1. k > e[j] /\ ~ (e[j] >= n)
      BY <1>0, <2>1
    <3>2. j = L
      BY <1>13, <3>1
    <3> QED BY <1>15, <3>1, <3>2
  <2> QED BY <2>1
<1>17. B(j).ok = TRUE /\ B(j).out = d
  BY <1>14, <1>15, <1>16
<1> QED BY <1>8, <1>13, <1>17 DEF s, d, L

-----------------------------------------------------------------------------
(* RLEX. *)

LEMMA DivUnique ==
  ASSUME NEW m \in Nat \ {0}, NEW a \in Nat, NEW q \in Int, NEW r \in 0 .. m - 1,
         a = m * q + r
  PROVE  a \div m = q
PROOF
<1> DEFINE d == q - (a \div m)
<1>1. a = m * (a \div m) + (a % m) /\ a \div m \in Int
  OBVIOUS
<1>2. a % m = r
  BY ModUnique
<1>3. m * d = 0 /\ d \in Int
  BY <1>1, <1>2
<1> HIDE DEF d
<1>4. d = 0
  <2>1. CASE d <= -1
    <3>1. m * d <= 0 - m
      BY <1>3, <2>1
    <3> QED BY <1>3, <3>1
  <2>2. CASE d >= 1
    <3>1. m * d >= m
      BY <1>3, <2>2
    <3> QED BY <1>3, <3>1
  <2> QED BY <1>3, <2>1, <2>2
<1> QED BY <1>1, <1>4 DEF d

PowerOf2(n) == 2^n

(* An index into a palette fits in the bits that its size takes.            *)
LEMMA BaseIs ==
  ASSUME NEW count \in 0 .. 127
  PROVE  SuiteBase(count) \in Nat \ {0} /\ count <= SuiteBase(count)
PROOF
<1>1. /\ PowerOf2(0) = 1 /\ PowerOf2(1) = 2 /\ PowerOf2(2) = 4 /\ PowerOf2(3) = 8
      /\ PowerOf2(4) = 16 /\ PowerOf2(5) = 32 /\ PowerOf2(6) = 64 /\ PowerOf2(7) = 128
      /\ PowerOf2(8) = 256 /\ PowerOf2(9) = 512 /\ PowerOf2(10) = 1024
      /\ PowerOf2(11) = 2048 /\ PowerOf2(12) = 4096 /\ PowerOf2(13) = 8192
      /\ PowerOf2(14) = 16384 /\ PowerOf2(15) = 32768 /\ PowerOf2(16) = 65536
  BY DEF PowerOf2
<1>2. /\ PowerOf2(17) = 131072 /\ PowerOf2(18) = 262144
      /\ PowerOf2(19) = 524288 /\ PowerOf2(20) = 1048576 /\ PowerOf2(21) = 2097152
      /\ PowerOf2(22) = 4194304 /\ PowerOf2(23) = 8388608 /\ PowerOf2(24) = 16777216
      /\ PowerOf2(25) = 33554432 /\ PowerOf2(26) = 67108864 /\ PowerOf2(27) = 134217728
      /\ PowerOf2(28) = 268435456 /\ PowerOf2(29) = 536870912 /\ PowerOf2(30) = 1073741824
      /\ PowerOf2(31) = 2147483648 /\ PowerOf2(32) = 4294967296
  BY DEF PowerOf2
<1>3. \A b \in 1 .. 32 : PowerOf2(b) \in Nat \ {0}
  BY <1>1, <1>2
<1> DEFINE x == IF count = 0 THEN 0 ELSE count - 1
           Good(b) == PowerOf2(b - 1) <= x /\ x < PowerOf2(b)
           bits == BitsNeeded(x)
<1>4. SuiteBase(count) = PowerOf2(bits)
  BY DEF SuiteBase, PowerOf2
<1>5. CASE x = 0
  <2>1. bits = 1
    BY <1>5 DEF BitsNeeded
  <2> QED BY <1>1, <1>4, <1>5, <2>1
<1>6. CASE x # 0
  <2>1. \E b \in 1 .. 32 : Good(b)
    <3>1. x \in 1 .. 126
      BY <1>6
    <3> HIDE DEF x
    <3>2. /\ x < 2 => Good(1)
          /\ x >= 2 /\ x < 4 => Good(2)
          /\ x >= 4 /\ x < 8 => Good(3)
          /\ x >= 8 /\ x < 16 => Good(4)
      BY <1>1, <3>1
    <3>3. /\ x >= 16 /\ x < 32 => Good(5)
          /\ x >= 32 /\ x < 64 => Good(6)
          /\ x >= 64 => Good(7)
      BY <1>1, <3>1
    <3> HIDE DEF Good
    <3> QED BY <3>1, <3>2, <3>3
  <2>2. bits = CHOOSE b \in 1 .. 32 : Good(b)
    BY <1>6 DEF BitsNeeded, PowerOf2
  <2>3. bits \in 1 .. 32 /\ Good(bits)
    <3> HIDE DEF Good, bits
    <3> QED BY <2>1, <2>2
  <2>4. x = count - 1
    BY <1>6
  <2> HIDE DEF bits, x
  <2>5. PowerOf2(bits) \in Nat \ {0} /\ x < PowerOf2(bits)
    BY <1>3, <2>3
  <2> QED BY <1>4, <2>4, <2>5
<1> QED BY <1>5, <1>6

LEMMA SuiteIs ==
  ASSUME NEW palette, NEW suites, IsRlex(palette, suites)
  PROVE  /\ palette \in Seq(Pixel) /\ Len(palette) \in 0 .. 127
         /\ Len(suites) \in Nat /\ DOMAIN suites = 1 .. Len(suites)
         /\ \A j \in 1 .. Len(suites) :
              /\ suites[j].run \in Nat /\ suites[j].start \in Nat /\ suites[j].stop \in Nat
              /\ suites[j].start <= suites[j].stop /\ suites[j].stop < Len(palette)
              /\ SuiteByte(palette, suites[j]) \in Byte
PROOF
<1> DEFINE S == [run : Nat, start : Nat, stop : Nat]
<1>1. \A x \in S : x.run \in Nat /\ x.start \in Nat /\ x.stop \in Nat
  OBVIOUS
<1>2. suites \in Seq(S) /\ palette \in Seq(Pixel) /\ Len(palette) <= 127
  BY DEF IsRlex
<1> HIDE DEF S
<1>3. /\ Len(suites) \in Nat /\ DOMAIN suites = 1 .. Len(suites)
      /\ \A j \in 1 .. Len(suites) : suites[j] \in S
  BY <1>2
<1>4. Len(palette) \in 0 .. 127
  <2>1. palette \in Seq(Pixel) => Len(palette) \in Nat
    OBVIOUS
  <2> DEFINE l == Len(palette)
  <2>2. l \in Nat /\ l <= 127
    BY <1>2, <2>1, Zenon
  <2> HIDE DEF l
  <2>3. l \in 0 .. 127
    BY <2>2
  <2> QED BY <2>3 DEF l
<1>5. \A j \in DOMAIN suites :
        /\ suites[j].start <= suites[j].stop /\ suites[j].stop < Len(palette)
        /\ SuiteByte(palette, suites[j]) \in Byte
  BY Zenon DEF IsRlex
<1> QED BY <1>1, <1>2, <1>3, <1>4, <1>5, Zenon

(* The first byte of a suite is taken apart into what it was made of.       *)
LEMMA SuiteByteIs ==
  ASSUME NEW palette, NEW suite, Len(palette) \in 0 .. 127,
         suite.start \in Nat, suite.stop \in Nat,
         suite.start <= suite.stop, suite.stop < Len(palette)
  PROVE  LET byte == SuiteByte(palette, suite)
             base == SuiteBase(Len(palette))
         IN  byte % base = suite.stop /\ suite.stop - byte \div base = suite.start
PROOF
<1> DEFINE m == SuiteBase(Len(palette))
           q == suite.stop - suite.start
           r == suite.stop
           a == SuiteByte(palette, suite)
<1>1. m \in Nat \ {0} /\ Len(palette) <= m
  BY BaseIs
<1>2. a = q * m + r
  BY Zenon DEF SuiteByte
<1> HIDE DEF m, a
<1>3. q \in Nat /\ r \in 0 .. m - 1
  BY <1>1
<1> HIDE DEF q
<1>4. a = m * q + r /\ a \in Nat /\ q \in Int
  <2>1. q * m = m * q /\ q * m \in Nat
    BY <1>1, <1>3
  <2> QED BY <1>2, <1>3, <2>1
<1> HIDE DEF r
<1>5. a % m = r /\ a \div m = q
  BY <1>1, <1>3, <1>4, ModUnique, DivUnique
<1>6. r - q = suite.start
  BY DEF r, q
<1> QED BY <1>5, <1>6 DEF m, a, r

SuiteCodes(palette, suites) ==
  [j \in DOMAIN suites |-> RunCode(SuiteByte(palette, suites[j]), suites[j].run)]

LEMMA SuiteCodesAre ==
  ASSUME NEW palette, NEW suites, IsRlex(palette, suites)
  PROVE  LET codes == SuiteCodes(palette, suites)
         IN  /\ codes \in Seq(Seq(Fields)) /\ Len(codes) = Len(suites)
             /\ \A j \in 1 .. Len(codes) :
                  /\ codes[j] = RunCode(SuiteByte(palette, suites[j]), suites[j].run)
                  /\ Len(codes[j]) >= 1
PROOF
<1> DEFINE codes == SuiteCodes(palette, suites)
           code(j) == RunCode(SuiteByte(palette, suites[j]), suites[j].run)
           n == Len(suites)
<1>0. n \in Nat /\ DOMAIN suites = 1 .. n
  BY SuiteIs
<1>1. ASSUME NEW j \in 1 .. n PROVE code(j) \in Seq(Fields) /\ Len(code(j)) >= 1
  <2> DEFINE c == SuiteByte(palette, suites[j])
             l == suites[j].run
  <2>1. c \in Byte /\ l \in Nat
    BY SuiteIs, Zenon
  <2> HIDE DEF c, l
  <2>2. c \in Fields
    BY <2>1 DEF Byte, Fields
  <2>3. RunCode(c, l) \in Seq(Fields)
        /\ Len(RunCode(c, l)) = IF l < 255 THEN 2 ELSE IF l < 65535 THEN 3 ELSE 4
    BY <2>1, <2>2, RunCodeIs
  <2>4. Len(RunCode(c, l)) >= 1
    BY <2>3
  <2> QED BY <2>3, <2>4 DEF c, l
<1>2. codes = [j \in 1 .. n |-> code(j)]
  BY <1>0 DEF SuiteCodes
<1> HIDE DEF code, codes
<1>3. codes \in Seq(Seq(Fields)) /\ Len(codes) = n /\ \A j \in 1 .. n : codes[j] = code(j)
  BY <1>0, <1>1, <1>2
<1> QED BY <1>1, <1>3, Zenon DEF codes, code, n

SuiteParts(palette, suites) ==
  [j \in DOMAIN suites |-> SuitePixels(palette, suites[j])]

LEMMA SuitePartsAre ==
  ASSUME NEW palette, NEW suites, IsRlex(palette, suites)
  PROVE  LET parts == SuiteParts(palette, suites)
         IN  /\ parts \in Seq(Seq(Pixel)) /\ Len(parts) = Len(suites)
             /\ \A j \in 1 .. Len(suites) : parts[j] = SuitePixels(palette, suites[j])
PROOF
<1> DEFINE parts == SuiteParts(palette, suites)
           part(j) == SuitePixels(palette, suites[j])
           n == Len(suites)
<1>0. n \in Nat /\ DOMAIN suites = 1 .. n
  BY SuiteIs
<1>1. ASSUME NEW j \in 1 .. n PROVE part(j) \in Seq(Pixel)
  <2> DEFINE a == suites[j].start + 1
             b == suites[j].stop + 1
             l == suites[j].run
  <2>1. /\ palette \in Seq(Pixel) /\ l \in Nat
        /\ a \in 1 .. Len(palette) /\ b \in 1 .. Len(palette)
    BY SuiteIs
  <2>2. part(j) = [k \in 1 .. l |-> palette[a]] \o SubSeq(palette, a, b)
    BY Zenon DEF SuitePixels
  <2> HIDE DEF a, b, l
  <2>3. palette[a] \in Pixel /\ SubSeq(palette, a, b) \in Seq(Pixel)
    BY <2>1
  <2>4. [k \in 1 .. l |-> palette[a]] \in Seq(Pixel)
    BY <2>1, <2>3
  <2> QED BY <2>2, <2>3, <2>4
<1>2. parts = [j \in 1 .. n |-> part(j)]
  BY <1>0 DEF SuiteParts
<1> HIDE DEF part, parts
<1>3. parts \in Seq(Seq(Pixel)) /\ Len(parts) = n /\ \A j \in 1 .. n : parts[j] = part(j)
  BY <1>0, <1>1, <1>2
<1> QED BY <1>3, Zenon DEF parts, part, n

(* The first n items of a sequence, or all if it has no more.               *)
First(x, n) == SubSeq(x, 1, AtMost(Len(x), n))

LEMMA FirstIs ==
  ASSUME NEW X, NEW x, x \in Seq(X), NEW n, n \in Nat
  PROVE  /\ First(x, n) \in Seq(X) /\ Len(x) \in Nat
         /\ Len(First(x, n)) = AtMost(Len(x), n)
         /\ \A k \in 1 .. AtMost(Len(x), n) : First(x, n)[k] = x[k]
         /\ Len(x) <= n => First(x, n) = x
PROOF
<1> DEFINE m == AtMost(Len(x), n)
<1>1. m \in 0 .. Len(x) /\ Len(x) \in Nat /\ (Len(x) <= n => m = Len(x))
  BY DEF AtMost
<1> HIDE DEF m
<1>2. First(x, n) = SubSeq(x, 1, m)
  BY Zenon DEF First, m
<1>3. SubSeq(x, 1, m) = [k \in 1 .. m |-> x[k]]
  BY <1>1
<1>4. [k \in 1 .. m |-> x[k]] \in Seq(X) /\ Len([k \in 1 .. m |-> x[k]]) = m
  BY <1>1
<1>5. m = Len(x) => [k \in 1 .. m |-> x[k]] = x
  BY <1>1
<1> QED BY <1>1, <1>2, <1>3, <1>4, <1>5 DEF m

(* Sequences of n items at least that agree up to there.                    *)
LEMMA FirstSame ==
  ASSUME NEW X, NEW x, x \in Seq(X), NEW y, y \in Seq(X), NEW n, n \in Nat,
         Len(x) >= n, Len(y) >= n, \A k \in 1 .. n : x[k] = y[k]
  PROVE  First(x, n) = First(y, n)
PROOF
<1>1. Len(x) \in Nat /\ Len(y) \in Nat
  OBVIOUS
<1>2. AtMost(Len(x), n) = n /\ AtMost(Len(y), n) = n
  BY <1>1 DEF AtMost
<1>3. First(x, n) = SubSeq(x, 1, n) /\ First(y, n) = SubSeq(y, 1, n)
  BY <1>2, Zenon DEF First
<1>4. SubSeq(x, 1, n) = [k \in 1 .. n |-> x[k]] /\ SubSeq(y, 1, n) = [k \in 1 .. n |-> y[k]]
  BY <1>1
<1> QED BY <1>3, <1>4

(* A run cut off at n pixels, and what is cut off at n as a whole.          *)
CutAlike(drawn, c, rest, r, n) ==
  First(drawn \o [k \in 1 .. AtMost(r, n - Len(drawn)) |-> c] \o rest, n) =
    First(drawn \o ([k \in 1 .. r |-> c] \o rest), n)

LEMMA SuiteDrawn ==
  ASSUME NEW drawn, drawn \in Seq(Pixel), NEW c, c \in Pixel, NEW rest, rest \in Seq(Pixel),
         NEW r, r \in Nat, NEW n, n \in Nat, Len(drawn) < n
  PROVE  CutAlike(drawn, c, rest, r, n)
PROOF
<1> DEFINE l == Len(drawn)
           q == AtMost(r, n - l)
           short == [k \in 1 .. q |-> c]
           full == [k \in 1 .. r |-> c]
           x == (drawn \o short) \o rest
           y == drawn \o (full \o rest)
<1>1. l \in Nat /\ q \in Nat /\ n \in Nat /\ r \in Nat /\ l < n
  BY DEF AtMost
<1>2. q = IF r < n - l THEN r ELSE n - l
  BY DEF AtMost
<1> HIDE DEF q
<1>3. /\ short \in Seq(Pixel) /\ Len(short) = q /\ \A k \in 1 .. q : short[k] = c
      /\ full \in Seq(Pixel) /\ Len(full) = r /\ \A k \in 1 .. r : full[k] = c
  BY <1>1
<1> HIDE DEF short, full
<1>4. CASE r <= n - l
  <2>1. q = r
    BY <1>1, <1>2, <1>4
  <2>2. short = full
    BY <2>1 DEF short, full
  <2>3. (drawn \o full) \o rest = drawn \o (full \o rest)
    BY <1>3
  <2> QED BY <2>2, <2>3 DEF q, l, short, full, CutAlike
<1>5. CASE r > n - l
  <2>1. q = n - l
    BY <1>1, <1>2, <1>5
  <2>2. /\ drawn \o short \in Seq(Pixel) /\ Len(drawn \o short) = n
        /\ \A k \in 1 .. n : (drawn \o short)[k] = IF k <= l THEN drawn[k] ELSE c
    <3>1. /\ drawn \o short \in Seq(Pixel) /\ Len(drawn \o short) = l + q
          /\ \A k \in 1 .. l + q :
               (drawn \o short)[k] = IF k <= l THEN drawn[k] ELSE short[k - l]
      <4>1. short \in Seq(Pixel)
        BY <1>3, Zenon
      <4>2. Len(short) = q
        BY <1>3, Zenon
      <4>3. /\ drawn \o short \in Seq(Pixel) /\ Len(drawn \o short) = l + Len(short)
            /\ \A k \in 1 .. l + Len(short) :
                 (drawn \o short)[k] = IF k <= l THEN drawn[k] ELSE short[k - l]
        BY <4>1
      <4> QED BY <4>2, <4>3, Zenon
    <3>2. ASSUME NEW k \in 1 .. n, ~ (k <= l) PROVE k - l \in 1 .. q
      BY <1>1, <2>1, <3>2
    <3>3. l + q = n
      BY <1>1, <2>1
    <3> HIDE DEF l
    <3> QED BY <1>3, <3>1, <3>2, <3>3
  <2>3. /\ full \o rest \in Seq(Pixel)
        /\ Len(full \o rest) \in Nat /\ Len(full \o rest) >= r
        /\ \A k \in 1 .. r : (full \o rest)[k] = c
    BY <1>3
  <2> DEFINE a == drawn \o short
             b == full \o rest
  <2> HIDE DEF a, b
  <2>4. /\ a \o rest \in Seq(Pixel) /\ Len(a \o rest) >= n
        /\ \A k \in 1 .. n : (a \o rest)[k] = a[k]
    <3>1. a \in Seq(Pixel) /\ Len(a) = n
      BY <2>2 DEF a
    <3> QED BY <3>1
  <2>5. /\ drawn \o b \in Seq(Pixel) /\ Len(drawn \o b) >= n
        /\ \A k \in 1 .. n : (drawn \o b)[k] = IF k <= l THEN drawn[k] ELSE c
    <3>1. b \in Seq(Pixel) /\ Len(b) \in Nat /\ Len(b) >= r /\ \A k \in 1 .. r : b[k] = c
      BY <2>3 DEF b
    <3>2. /\ drawn \o b \in Seq(Pixel) /\ Len(drawn \o b) = l + Len(b)
          /\ \A k \in 1 .. l + Len(b) :
               (drawn \o b)[k] = IF k <= l THEN drawn[k] ELSE b[k - l]
      BY <3>1
    <3>3. Len(drawn \o b) >= n
      <4> HIDE DEF l
      <4> QED BY <1>1, <1>5, <3>1, <3>2
    <3>4. ASSUME NEW k \in 1 .. n
          PROVE  /\ k \in 1 .. l + Len(b)
                 /\ ~ (k <= l) => k - l \in 1 .. r
      <4> HIDE DEF l
      <4> QED BY <1>1, <1>5, <3>1, <3>2, <3>3
    <3> HIDE DEF l
    <3> QED BY <3>1, <3>2, <3>3, <3>4
  <2>6. \A k \in 1 .. n : (a \o rest)[k] = (drawn \o b)[k]
    BY <2>2, <2>4, <2>5 DEF a
  <2>7. First(a \o rest, n) = First(drawn \o b, n)
    <3> DEFINE v == a \o rest
               w == drawn \o b
    <3>1. /\ v \in Seq(Pixel) /\ w \in Seq(Pixel) /\ Len(v) >= n /\ Len(w) >= n
          /\ \A k \in 1 .. n : v[k] = w[k]
      BY <2>4, <2>5, <2>6
    <3> HIDE DEF v, w
    <3>2. First(v, n) = First(w, n)
      BY <3>1, FirstSame
    <3> QED BY <3>2 DEF v, w
  <2> QED BY <2>7 DEF a, b, q, l, short, full, CutAlike
<1> QED BY <1>1, <1>4, <1>5

(* The parts a stream of RLEX and its pixels are made of. *)
RlexHead(palette) == << Len(palette) >> \o palette

CodesTo(palette, suites, j) == Joined(SuiteCodes(palette, suites))[j]
DrawnTo(palette, suites, j) == Joined(SuiteParts(palette, suites))[j]

LEMMA RlexParts ==
  ASSUME NEW palette, NEW suites, IsRlex(palette, suites)
  PROVE  /\ RlexHead(palette) \in Seq(Fields) /\ Len(RlexHead(palette)) = Len(palette) + 1
         /\ RlexHead(palette)[1] = Len(palette)
         /\ \A k \in 1 .. Len(palette) : RlexHead(palette)[k + 1] = palette[k]
         /\ \A j \in 0 .. Len(suites) :
              /\ CodesTo(palette, suites, j) \in Seq(Fields)
              /\ Len(CodesTo(palette, suites, j)) \in Nat
              /\ DrawnTo(palette, suites, j) \in Seq(Pixel)
              /\ Len(DrawnTo(palette, suites, j)) \in Nat
         /\ CodesTo(palette, suites, 0) = <<>> /\ DrawnTo(palette, suites, 0) = <<>>
         /\ Len(suites) <= Len(CodesTo(palette, suites, Len(suites)))
         /\ \A j \in 1 .. Len(suites) :
              DrawnTo(palette, suites, j) =
                DrawnTo(palette, suites, j - 1) \o SuitePixels(palette, suites[j])
PROOF
<1> DEFINE head == RlexHead(palette)
           codes == SuiteCodes(palette, suites)
           parts == SuiteParts(palette, suites)
           one == << Len(palette) >>
<1>1. palette \in Seq(Pixel) /\ Len(palette) \in 0 .. 127 /\ Len(suites) \in Nat
  BY SuiteIs
<1>2. /\ head \in Seq(Fields) /\ Len(head) = Len(palette) + 1
      /\ head[1] = Len(palette) /\ \A k \in 1 .. Len(palette) : head[k + 1] = palette[k]
  <2>1. /\ one \in Seq(Fields) /\ Len(one) = 1 /\ one[1] = Len(palette)
    BY <1>1 DEF Fields
  <2>2. palette \in Seq(Fields)
    BY <1>1 DEF Fields
  <2>3. head = one \o palette
    BY Zenon DEF RlexHead
  <2> HIDE DEF one, head
  <2>4. one \in Seq(Fields)
    BY <2>1, Zenon
  <2>5. /\ one \o palette \in Seq(Fields) /\ Len(one \o palette) = Len(one) + Len(palette)
        /\ \A k \in 1 .. Len(one) : (one \o palette)[k] = one[k]
        /\ \A k \in 1 .. Len(palette) : (one \o palette)[Len(one) + k] = palette[k]
    BY <2>2, <2>4
  <2> DEFINE p == Len(palette)
  <2>6. /\ p \in 0 .. 127 /\ Len(one) = 1 /\ one[1] = p
        /\ head \in Seq(Fields) /\ Len(head) = Len(one) + p
        /\ \A k \in 1 .. Len(one) : head[k] = one[k]
        /\ \A k \in 1 .. p : head[Len(one) + k] = palette[k]
    BY <1>1, <2>1, <2>3, <2>5, Zenon
  <2> HIDE DEF p
  <2>7. /\ Len(head) = p + 1 /\ head[1] = p /\ \A k \in 1 .. p : head[k + 1] = palette[k]
    BY <2>6
  <2> QED BY <2>6, <2>7, Zenon DEF p
<1>3. /\ codes \in Seq(Seq(Fields)) /\ Len(codes) = Len(suites)
      /\ \A j \in 1 .. Len(codes) : Len(codes[j]) >= 1
  BY SuiteCodesAre
<1>4. /\ parts \in Seq(Seq(Pixel)) /\ Len(parts) = Len(suites)
      /\ \A j \in 1 .. Len(suites) : parts[j] = SuitePixels(palette, suites[j])
  BY SuitePartsAre
<1> HIDE DEF codes, parts
<1>5. /\ \A j \in 0 .. Len(codes) : Joined(codes)[j] \in Seq(Fields)
      /\ Joined(codes)[0] = <<>>
  BY <1>3, JoinedAre
<1>6. Len(codes) <= Len(Joined(codes)[Len(codes)])
  BY <1>3, JoinedLong
<1>7. /\ \A j \in 0 .. Len(parts) : Joined(parts)[j] \in Seq(Pixel)
      /\ Joined(parts)[0] = <<>>
      /\ \A j \in 1 .. Len(parts) : Joined(parts)[j] = Joined(parts)[j - 1] \o parts[j]
  BY <1>4, JoinedAre
<1>8. /\ \A x \in Seq(Fields) : Len(x) \in Nat
      /\ \A x \in Seq(Pixel) : Len(x) \in Nat
  OBVIOUS
<1>9. \A j : CodesTo(palette, suites, j) = Joined(codes)[j]
             /\ DrawnTo(palette, suites, j) = Joined(parts)[j]
  BY Zenon DEF CodesTo, DrawnTo, codes, parts
<1> HIDE DEF head
<1>10. \A j \in 0 .. Len(suites) :
         /\ CodesTo(palette, suites, j) \in Seq(Fields)
         /\ Len(CodesTo(palette, suites, j)) \in Nat
         /\ DrawnTo(palette, suites, j) \in Seq(Pixel)
         /\ Len(DrawnTo(palette, suites, j)) \in Nat
  BY <1>3, <1>4, <1>5, <1>7, <1>8, <1>9, Zenon
<1>11. /\ CodesTo(palette, suites, 0) = <<>> /\ DrawnTo(palette, suites, 0) = <<>>
       /\ Len(suites) <= Len(CodesTo(palette, suites, Len(suites)))
  BY <1>3, <1>5, <1>6, <1>7, <1>9, Zenon
<1>12. \A j \in 1 .. Len(suites) :
         DrawnTo(palette, suites, j) =
           DrawnTo(palette, suites, j - 1) \o SuitePixels(palette, suites[j])
  BY <1>4, <1>7, <1>9, Zenon
<1> QED BY <1>2, <1>10, <1>11, <1>12, Zenon DEF head

RlexStream(palette, suites) == RlexHead(palette) \o CodesTo(palette, suites, Len(suites))

LEMMA RlexCodeIs ==
  ASSUME NEW palette, NEW suites, IsRlex(palette, suites), NEW n, n \in Nat
  PROVE  LET s == RlexStream(palette, suites)
         IN  /\ RlexCode(palette, suites) = s
             /\ RlexPixels(palette, suites, n) = First(DrawnTo(palette, suites, Len(suites)), n)
             /\ s \in Seq(Fields)
             /\ Len(s) = Len(palette) + 1 + Len(CodesTo(palette, suites, Len(suites)))
             /\ s[1] = Len(palette) /\ SubSeq(s, 2, Len(palette) + 1) = palette
PROOF
<1> DEFINE head == RlexHead(palette)
           c == CodesTo(palette, suites, Len(suites))
           s == RlexStream(palette, suites)
           p == Len(palette)
<1>1. /\ head \in Seq(Fields) /\ Len(head) = p + 1 /\ head[1] = p
      /\ \A k \in 1 .. p : head[k + 1] = palette[k]
      /\ c \in Seq(Fields) /\ Len(c) \in Nat
  <2>1. Len(suites) \in 0 .. Len(suites)
    BY SuiteIs
  <2> QED BY <2>1, RlexParts, Zenon
<1>2. p \in 0 .. 127 /\ palette \in Seq(Pixel)
  BY SuiteIs
<1>3. s = head \o c
  BY Zenon DEF RlexStream
<1>4. /\ RlexCode(palette, suites) = s
      /\ RlexPixels(palette, suites, n) = First(DrawnTo(palette, suites, Len(suites)), n)
  BY Zenon DEF RlexCode, RlexPixels, RlexStream, RlexHead, CodesTo, DrawnTo, SuiteCodes,
     SuiteParts, First
<1> HIDE DEF head, c, s
<1>5. /\ s \in Seq(Fields) /\ Len(s) = Len(head) + Len(c)
      /\ \A k \in 1 .. Len(head) : s[k] = head[k]
  <2>1. head \in Seq(Fields) /\ c \in Seq(Fields)
    BY <1>1, Zenon
  <2> QED BY <1>3, <2>1
<1>6. s[1] = p /\ \A k \in 1 .. p : s[k + 1] = palette[k]
  BY <1>1, <1>2, <1>5
<1>7. SubSeq(s, 2, p + 1) = palette
  <2>1. p + 1 <= Len(s) /\ Len(s) \in Nat
    <3> HIDE DEF p
    <3> QED BY <1>1, <1>2, <1>5
  <2>2. SubSeq(s, 2, p + 1) = [k \in 1 .. p |-> s[k + 1]]
    <3>1. SubSeq(s, 2, p + 1) = [k \in 1 .. (p + 1) - 2 + 1 |-> s[2 + k - 1]]
      <4> HIDE DEF p
      <4> QED BY <1>2, <1>5, <2>1
    <3>2. (p + 1) - 2 + 1 = p /\ \A k \in 1 .. p : 2 + k - 1 = k + 1
      <4> HIDE DEF p
      <4> QED BY <1>2
    <3> HIDE DEF p
    <3> QED BY <3>1, <3>2
  <2>3. palette = [k \in 1 .. p |-> palette[k]]
    BY <1>2
  <2> HIDE DEF p
  <2> QED BY <1>6, <2>2, <2>3
<1>8. Len(s) = p + 1 + Len(c)
  <2> HIDE DEF p
  <2> QED BY <1>1, <1>2, <1>5
<1> QED BY <1>4, <1>5, <1>6, <1>7, <1>8, Zenon DEF s, c, p

RlexStates == [ok : BOOLEAN, pos : Nat, out : Seq(Pixel)]

(* Where decode_rlex is behind suite j of a tile of n pixels.               *)
PastSuites(palette, suites, n, j, st) ==
  LET drawn == DrawnTo(palette, suites, j)
  IN  /\ st.ok = TRUE /\ st.out = First(drawn, n)
      /\ Len(drawn) < n => st.pos = Len(palette) + 2 + Len(CodesTo(palette, suites, j))

(* Each time round, decode_rlex gets behind one suite more, or the pixels   *)
(* are all there.                                                           *)
LEMMA RlexSuiteIs ==
  ASSUME NEW palette, NEW suites, IsRlex(palette, suites), NEW n, n \in Nat,
         NEW j, j \in 0 .. Len(suites), NEW st, st \in RlexStates,
         PastSuites(palette, suites, n, j, st)
  PROVE  LET next == RlexSuite(RlexStream(palette, suites), palette, n, st)
         IN  /\ next \in RlexStates
             /\ PastSuites(palette, suites, n, IF j < Len(suites) THEN j + 1 ELSE j, next)
PROOF
<1> DEFINE L == Len(suites)
           P == Len(palette)
           s == RlexStream(palette, suites)
           i == j + 1
           d == DrawnTo(palette, suites, j)
           e == DrawnTo(palette, suites, i)
           next == RlexSuite(s, palette, n, st)
           suite == suites[i]
           part == SuitePixels(palette, suite)
<1>0. /\ L \in Nat /\ P \in 0 .. 127 /\ P \in Nat /\ palette \in Seq(Pixel) /\ j \in 0 .. L
      /\ j < L => i \in 1 .. L /\ i \in 0 .. L /\ i - 1 = j
  BY SuiteIs
<1>1. d \in Seq(Pixel) /\ Len(d) \in Nat
  BY RlexParts, Zenon
<1>2. j < L => /\ e = d \o part /\ e \in Seq(Pixel) /\ Len(e) \in Nat
  <2> SUFFICES ASSUME j < L PROVE e = d \o part /\ e \in Seq(Pixel) /\ Len(e) \in Nat
    OBVIOUS
  <2>1. i \in 1 .. Len(suites) /\ i \in 0 .. Len(suites) /\ i - 1 = j
    BY <1>0
  <2>2. /\ DrawnTo(palette, suites, i) = DrawnTo(palette, suites, i - 1) \o part
        /\ DrawnTo(palette, suites, i) \in Seq(Pixel) /\ Len(DrawnTo(palette, suites, i)) \in Nat
    <3> HIDE DEF i
    <3>1. DrawnTo(palette, suites, i) = DrawnTo(palette, suites, i - 1) \o part
      BY <2>1, RlexParts
    <3>2. DrawnTo(palette, suites, i) \in Seq(Pixel) /\ Len(DrawnTo(palette, suites, i)) \in Nat
      BY <2>1, RlexParts, Zenon
    <3> QED BY <3>1, <3>2
  <2> QED BY <2>1, <2>2, Zenon
<1>3. /\ s \in Seq(Fields) /\ Len(s) \in Nat
      /\ Len(s) = P + 1 + Len(CodesTo(palette, suites, L))
  <2>1. \A x \in Seq(Fields) : Len(x) \in Nat
    OBVIOUS
  <2>2. s \in Seq(Fields) /\ Len(s) = P + 1 + Len(CodesTo(palette, suites, L))
    BY RlexCodeIs, Zenon
  <2> QED BY <2>1, <2>2, Zenon
<1>4. /\ st.ok = TRUE /\ st.out = First(d, n)
      /\ Len(d) < n => st.pos = P + 2 + Len(CodesTo(palette, suites, j))
  BY Zenon DEF PastSuites
<1>5. st.out \in Seq(Pixel) /\ st.pos \in Nat
  BY DEF RlexStates
<1>6. /\ Len(First(d, n)) = AtMost(Len(d), n)
      /\ \A k \in 1 .. AtMost(Len(d), n) : First(d, n)[k] = d[k]
      /\ Len(d) <= n => First(d, n) = d
  BY <1>1, FirstIs
<1>7. CASE Len(d) >= n
  <2>1. Len(st.out) >= n
    BY <1>1, <1>4, <1>6, <1>7 DEF AtMost
  <2>2. next = st
    BY <2>1, Zenon DEF RlexSuite
  <2>3. j < L => PastSuites(palette, suites, n, i, st)
    <3> SUFFICES ASSUME j < L PROVE PastSuites(palette, suites, n, i, st)
      OBVIOUS
    <3>1. e = d \o part /\ e \in Seq(Pixel) /\ Len(e) \in Nat
      BY <1>2
    <3>2. part \in Seq(Pixel)
      <4>1. i \in 1 .. Len(suites)
        BY <1>0
      <4>2. /\ SuiteParts(palette, suites) \in Seq(Seq(Pixel))
            /\ Len(SuiteParts(palette, suites)) = Len(suites)
            /\ part = SuiteParts(palette, suites)[i]
        <5> HIDE DEF i
        <5> QED BY <4>1, SuitePartsAre
      <4> HIDE DEF part, i
      <4> QED BY <4>1, <4>2
    <3> HIDE DEF d, e, part, i
    <3>3. Len(e) = Len(d) + Len(part) /\ Len(part) \in Nat /\ \A k \in 1 .. Len(d) : e[k] = d[k]
      BY <1>1, <3>1, <3>2
    <3>4. Len(e) >= n /\ \A k \in 1 .. n : e[k] = d[k]
      BY <1>1, <1>7, <3>1, <3>3
    <3>5. First(e, n) = First(d, n)
      <4>1. /\ d \in Seq(Pixel) /\ e \in Seq(Pixel) /\ n \in Nat /\ Len(d) >= n /\ Len(e) >= n
            /\ \A k \in 1 .. n : e[k] = d[k]
        BY <1>1, <1>7, <3>1, <3>4, Zenon
      <4> QED BY <4>1, FirstSame
    <3>6. ~ (Len(e) < n)
      BY <3>1, <3>4
    <3> QED BY <1>4, <3>5, <3>6, Zenon DEF PastSuites, e
  <2> QED BY <1>0, <2>2, <2>3
<1>8. CASE Len(d) < n /\ j = L
  <2>1. st.pos > Len(s)
    <3>1. st.pos = P + 2 + Len(CodesTo(palette, suites, L))
      BY <1>4, <1>8
    <3>2. CodesTo(palette, suites, L) \in Seq(Fields) /\ Len(CodesTo(palette, suites, L)) \in Nat
      <4>1. L \in 0 .. Len(suites)
        BY <1>0
      <4> QED BY <4>1, RlexParts, Zenon
    <3> HIDE DEF L, P, s
    <3> QED BY <1>0, <1>3, <3>1, <3>2
  <2>2. next = st
    BY <2>1, Zenon DEF RlexSuite
  <2>3. ~ (j < L)
    BY <1>0, <1>8
  <2> QED BY <2>2, <2>3
<1>9. CASE Len(d) < n /\ j < L
  <2> DEFINE c == SuiteByte(palette, suite)
             r == suite.run
             p == P + 2 + Len(CodesTo(palette, suites, j))
             base == SuiteBase(P)
             f == RunFields(s, p + 1)
             run == AtMost(r, n - Len(d))
             a == suite.start + 1
             b == suite.stop + 1
             pixels == d \o [k \in 1 .. run |-> palette[a]] \o SubSeq(palette, a, b)
  <2>1. i \in 1 .. L /\ i \in 0 .. L /\ i - 1 = j
    BY <1>0, <1>9
  <2>2. /\ suite.run \in Nat /\ suite.start \in Nat /\ suite.stop \in Nat
        /\ suite.start <= suite.stop /\ suite.stop < P /\ c \in Byte
    <3> HIDE DEF i
    <3> QED BY <2>1, SuiteIs
  <2>3. c % base = suite.stop /\ suite.stop - c \div base = suite.start
    <3> HIDE DEF suite
    <3> QED BY <1>0, <2>2, SuiteByteIs, Zenon
  <2>4. /\ p \in Nat /\ Reads(s, p, c, r)
        /\ p + Len(RunCode(c, r)) = P + 2 + Len(CodesTo(palette, suites, i))
    <3> DEFINE head == RlexHead(palette)
               codes == SuiteCodes(palette, suites)
    <3>1. /\ codes \in Seq(Seq(Fields)) /\ Len(codes) = L /\ codes[i] = RunCode(c, r)
      <4>1. i \in 1 .. Len(suites)
        BY <2>1
      <4> HIDE DEF i
      <4> QED BY <4>1, SuiteCodesAre
    <3>2. head \in Seq(Fields) /\ Len(head) = P + 1
      BY RlexParts, Zenon
    <3>3. c \in Fields /\ r \in Nat
      <4>1. c \in Byte /\ r \in Nat
        BY <2>2, Zenon
      <4> HIDE DEF c, r
      <4> QED BY <4>1 DEF Fields, Byte
    <3>4. ReadsAt(head, codes, i, c, r)
      <4> HIDE DEF head, codes, i, c, r
      <4> QED BY <2>1, <3>1, <3>2, <3>3, ReadsPart, Zenon
    <3>5. /\ s = head \o Joined(codes)[Len(codes)]
          /\ CodesTo(palette, suites, j) = Joined(codes)[i - 1]
          /\ CodesTo(palette, suites, i) = Joined(codes)[i]
      <4> HIDE DEF i
      <4> QED BY <2>1, <3>1, Zenon DEF RlexStream, CodesTo
    <3> DEFINE u == Len(CodesTo(palette, suites, j))
               v == Len(CodesTo(palette, suites, i))
               q == Len(head) + u + 1
    <3>6. q \in Nat /\ Reads(s, q, c, r) /\ q + Len(RunCode(c, r)) = Len(head) + v + 1
      <4> HIDE DEF s, head, codes, i, c, r
      <4> QED BY <3>4, <3>5, Zenon DEF ReadsAt
    <3>7. u \in Nat /\ v \in Nat
      <4>1. j \in 0 .. Len(suites) /\ i \in 0 .. Len(suites)
        BY <2>1
      <4> HIDE DEF i
      <4> QED BY <4>1, RlexParts, Zenon
    <3>8. q = p /\ Len(head) + v + 1 = P + 2 + v
      <4> HIDE DEF u, v, P, head
      <4> QED BY <1>0, <3>2, <3>7 DEF u
    <3> HIDE DEF q, p, head
    <3> QED BY <3>6, <3>8, Zenon DEF v
  <2>5. /\ p <= Len(s) /\ s[p] = c /\ f # 0 /\ RunLength(s, p + 1) = r
        /\ p + 1 + f = P + 2 + Len(CodesTo(palette, suites, i))
    <3> HIDE DEF p, c, r
    <3> QED BY <2>4, Zenon DEF Reads
  <2>6. st.out = d /\ st.pos = p /\ st.ok
    BY <1>1, <1>4, <1>6, <1>9
  <2>7. next = [ok |-> TRUE, pos |-> p + 1 + f, out |-> SubSeq(pixels, 1, AtMost(Len(pixels), n))]
    <3>1. ~ (~st.ok \/ st.pos > Len(s) \/ Len(st.out) >= n)
      <4>1. ~ (p > Len(s))
        <5> HIDE DEF p, s
        <5> QED BY <1>3, <2>4, <2>5
      <4>2. ~ (Len(d) >= n)
        <5> HIDE DEF d
        <5> QED BY <1>1, <1>9
      <4> QED BY <2>6, <4>1, <4>2, Zenon
    <3>2. ~ (f = 0 \/ suite.start < 0 \/ suite.stop >= P)
      <4>1. /\ suite.start \in Nat /\ suite.stop \in Nat /\ suite.stop < P /\ P \in Nat
            /\ f # 0
        BY <1>0, <2>2, <2>5, Zenon
      <4> HIDE DEF f, suite, P
      <4> QED BY <4>1
    <3> HIDE DEF s, d, c, r, suite, P, base, p
    <3> QED BY <2>3, <2>5, <2>6, <3>1, <3>2, Zenon DEF RlexSuite, P, base
  <2>8. First(pixels, n) = First(e, n)
    <3> DEFINE x == palette[a]
               y == SubSeq(palette, a, b)
    <3>1. part = [k \in 1 .. r |-> x] \o y
      BY Zenon DEF SuitePixels
    <3>2. x \in Pixel /\ y \in Seq(Pixel)
      <4>1. a \in 1 .. P /\ b \in 1 .. P
        <5>1. /\ suite.start \in Nat /\ suite.stop \in Nat /\ suite.stop < P /\ P \in Nat
              /\ suite.start <= suite.stop
          BY <1>0, <2>2, Zenon
        <5> DEFINE g == suite.start
                   h == suite.stop
        <5>2. g \in Nat /\ h \in Nat /\ h < P /\ P \in Nat /\ g <= h
          BY <5>1, Zenon
        <5> HIDE DEF g, h, P
        <5>3. g + 1 \in 1 .. P /\ h + 1 \in 1 .. P
          BY <5>2
        <5> QED BY <5>3, Zenon DEF g, h
      <4> HIDE DEF a, b
      <4> QED BY <1>0, <4>1
    <3>3. e = d \o part
      BY <1>2, <1>9
    <3> HIDE DEF x, y, d, r, e, part
    <3>4. First(d \o [k \in 1 .. AtMost(r, n - Len(d)) |-> x] \o y, n)
            = First(d \o ([k \in 1 .. r |-> x] \o y), n)
      <4>1. /\ d \in Seq(Pixel) /\ x \in Pixel /\ y \in Seq(Pixel) /\ n \in Nat /\ Len(d) < n
            /\ r \in Nat
        BY <1>1, <1>9, <2>2, <3>2, Zenon DEF r
      <4>2. CutAlike(d, x, y, r, n)
        BY <4>1, SuiteDrawn, Zenon
      <4> QED BY <4>2, Zenon DEF CutAlike
    <3> QED BY <3>1, <3>3, <3>4, Zenon DEF x, y
  <2>9. next = [ok |-> TRUE, pos |-> p + 1 + f, out |-> First(e, n)]
    <3> HIDE DEF pixels, next
    <3> QED BY <2>7, <2>8, Zenon DEF First
  <2>10. First(e, n) \in Seq(Pixel)
    <3>1. e \in Seq(Pixel)
      BY <1>2, <1>9
    <3> HIDE DEF e
    <3> QED BY <3>1, FirstIs
  <2>11. p + 1 + f \in Nat
    <3>1. f \in 0 .. 3
      BY DEF RunFields
    <3> HIDE DEF f, p
    <3> QED BY <2>4, <3>1
  <2> DEFINE t == p + 1 + f
             o == First(e, n)
  <2>12. next.ok = TRUE /\ next.pos = t /\ next.out = o /\ next \in RlexStates
    <3>1. t \in Nat /\ o \in Seq(Pixel) /\ next = [ok |-> TRUE, pos |-> t, out |-> o]
      BY <2>9, <2>10, <2>11
    <3> HIDE DEF t, o, next
    <3> QED BY <3>1 DEF RlexStates
  <2>13. PastSuites(palette, suites, n, i, next)
    <3>1. t = P + 2 + Len(CodesTo(palette, suites, i))
      BY <2>5
    <3> HIDE DEF t, next, i
    <3> QED BY <2>12, <3>1, Zenon DEF PastSuites, o, e, P
  <2>14. j < Len(suites)
    BY <1>9
  <2> HIDE DEF next
  <2> QED BY <2>12, <2>13, <2>14, Zenon DEF next, s, i
<1> QED BY <1>0, <1>1, <1>7, <1>8, <1>9

(* What decode_rlex makes of a stream is what its suites draw.              *)
LEMMA RlexDecoded ==
  ASSUME NEW palette, NEW suites, IsRlex(palette, suites), NEW n, n \in Nat
  PROVE  LET decoded == DecodeRlex(RlexCode(palette, suites), n)
         IN  decoded.ok /\ decoded.out = RlexPixels(palette, suites, n)
PROOF
<1> DEFINE L == Len(suites)
           P == Len(palette)
           s == RlexStream(palette, suites)
           m == Len(s)
           Past(j, st) == PastSuites(palette, suites, n, j, st)
           S == {st \in RlexStates : \E j \in 0 .. L : Past(j, st)}
           start == [ok |-> TRUE, pos |-> P + 2, out |-> <<>>]
           Suite(st) == RlexSuite(s, palette, n, st)
           F == [a \in S \X (1 .. m) |-> Suite(a[1])]
           body(f, k) == IF k = 0 THEN start ELSE Suite(f[k - 1])
           Eq(f) == f = [k \in 0 .. m |-> body(f, k)]
           after == CHOOSE f : Eq(f)
           drawn == DrawnTo(palette, suites, L)
<1>0. L \in Nat /\ P \in 0 .. 127 /\ P \in Nat
  BY SuiteIs
<1>1. /\ RlexCode(palette, suites) = s
      /\ RlexPixels(palette, suites, n) = First(drawn, n)
      /\ s \in Seq(Fields) /\ m = P + 1 + Len(CodesTo(palette, suites, L))
      /\ s[1] = P /\ SubSeq(s, 2, P + 1) = palette
  <2>1. RlexPixels(palette, suites, n) = First(drawn, n)
    BY RlexCodeIs
  <2>2. RlexCode(palette, suites) = s /\ s \in Seq(Fields)
    BY RlexCodeIs, Zenon
  <2>3. m = P + 1 + Len(CodesTo(palette, suites, L))
    BY RlexCodeIs, Zenon
  <2>4. s[1] = P /\ SubSeq(s, 2, P + 1) = palette
    BY RlexCodeIs, Zenon
  <2> QED BY <2>1, <2>2, <2>3, <2>4, Zenon
<1>2. Len(CodesTo(palette, suites, L)) \in Nat /\ L <= Len(CodesTo(palette, suites, L))
  <2>1. L \in 0 .. Len(suites)
    BY <1>0
  <2> QED BY <2>1, RlexParts, Zenon
<1>3. m \in Nat /\ L <= m /\ P + 1 <= m /\ P <= 127
  <2> HIDE DEF L, P, m
  <2> QED BY <1>0, <1>1, <1>2
<1>4. start \in RlexStates /\ Past(0, start)
  <2>1. start \in RlexStates
    <3> HIDE DEF P
    <3> QED BY <1>0 DEF RlexStates
  <2>2. /\ DrawnTo(palette, suites, 0) = <<>> /\ CodesTo(palette, suites, 0) = <<>>
    BY RlexParts, Zenon
  <2>3. First(<<>>, n) = <<>>
    <3>1. <<>> \in Seq(Pixel) /\ Len(<<>>) <= n
      OBVIOUS
    <3> QED BY <3>1, FirstIs
  <2>4. P + 2 + Len(<<>>) = P + 2
    <3> HIDE DEF P
    <3> QED BY <1>0
  <2>5. start.ok = TRUE /\ start.out = <<>> /\ start.pos = P + 2
    OBVIOUS
  <2> HIDE DEF P, start
  <2>6. PastSuites(palette, suites, n, 0, start)
    BY <2>2, <2>3, <2>4, <2>5, Zenon DEF PastSuites, P
  <2> QED BY <2>1, <2>6
<1>5. ASSUME NEW j \in 0 .. L, NEW st \in RlexStates, Past(j, st)
      PROVE  Suite(st) \in RlexStates /\ Past(IF j < L THEN j + 1 ELSE j, Suite(st))
  BY <1>5, RlexSuiteIs, Zenon
<1> HIDE DEF L, P, s, m, Past, start, Suite
<1>6. ASSUME NEW st \in S PROVE Suite(st) \in S
  <2>1. PICK j \in 0 .. L : Past(j, st)
    OBVIOUS
  <2>2. Suite(st) \in RlexStates /\ Past(IF j < L THEN j + 1 ELSE j, Suite(st))
    BY <1>5, <2>1
  <2>3. (IF j < L THEN j + 1 ELSE j) \in 0 .. L
    BY <1>0
  <2> QED BY <2>2, <2>3
<1>7. start \in S
  <2>1. 0 \in 0 .. L
    BY <1>0
  <2> QED BY <1>4, <2>1
<1>8. F \in [S \X (1 .. m) -> S]
  <2> HIDE DEF S
  <2> QED BY <1>6
<1>9. \E f : Eq(f)
  <2>1. PICK f : Results(f, F, S, start, m)
    <3> HIDE DEF F, S
    <3> QED BY <1>3, <1>7, <1>8, LoopFunction
  <2>2. f \in [0 .. m -> S] /\ f[0] = start
    <3> HIDE DEF F, S
    <3> QED BY <2>1 DEF Results
  <2>3. ASSUME NEW k \in 1 .. m PROVE f[k] = Suite(f[k - 1])
    <3> HIDE DEF S
    <3>1. k - 1 \in 0 .. m /\ f[k - 1] \in S
      BY <1>3, <2>2
    <3>2. f[k] = F[<<f[k - 1], k>>]
      <4> HIDE DEF F
      <4> QED BY <2>1 DEF Results
    <3> QED BY <3>1, <3>2
  <2>4. \A k \in 0 .. m : k = 0 \/ k \in 1 .. m
    BY <1>3
  <2>5. Eq(f)
    <3> HIDE DEF F, S
    <3> QED BY <2>2, <2>3, <2>4
  <2> QED BY <2>5
<1>10. Eq(after)
  <2> HIDE DEF Eq
  <2> QED BY <1>9
<1>11. DecodeRlex(s, n) = after[m]
  <2>1. s # <<>> /\ ~ (P > 127) /\ ~ (P + 1 > m)
    <3>1. m # 0
      BY <1>0, <1>3
    <3>2. Len(<<>>) = 0
      OBVIOUS
    <3> QED BY <1>0, <1>3, <3>1, <3>2 DEF m
  <2>2. /\ s[1] = P /\ SubSeq(s, 2, P + 1) = palette
    BY <1>1
  <2>3. DecodeRlex(s, n) =
          LET loop[k \in 0 .. m] ==
                IF k = 0 THEN [ok |-> TRUE, pos |-> P + 2, out |-> <<>>]
                ELSE RlexSuite(s, palette, n, loop[k - 1])
          IN  loop[m]
    BY <2>1, <2>2, Zenon DEF DecodeRlex, m
  <2> QED BY <2>3 DEF start, Suite
<1> HIDE DEF after, F, S
<1>12. after[0] = start /\ \A k \in 1 .. m : after[k] = Suite(after[k - 1])
  <2>1. \A k \in 0 .. m : after[k] = body(after, k)
    BY <1>10
  <2>2. \A k \in 1 .. m : k \in 0 .. m /\ k # 0
    BY <1>3
  <2>3. 0 \in 0 .. m
    BY <1>3
  <2> QED BY <2>1, <2>2, <2>3
<1> DEFINE Good(k) == after[k] \in RlexStates /\ \E j \in 0 .. L : Past(j, after[k]) /\ (j >= k \/ j = L)
           T == {k \in 0 .. m : Good(k)}
<1>13. 0 \in T
  <2>1. 0 \in 0 .. L /\ 0 \in 0 .. m
    BY <1>0, <1>3
  <2> QED BY <1>4, <1>12, <2>1
<1>14. ASSUME NEW k \in 1 .. m, k - 1 \in T PROVE k \in T
  <2>1. k \in 0 .. m /\ k \in Nat
    BY <1>3
  <2>2. PICK j \in 0 .. L : Past(j, after[k - 1]) /\ (j >= k - 1 \/ j = L)
    BY <1>14
  <2>3. after[k - 1] \in RlexStates
    BY <1>14
  <2> DEFINE i == IF j < L THEN j + 1 ELSE j
  <2>4. i \in 0 .. L /\ (i >= k \/ i = L)
    BY <1>0, <2>1, <2>2
  <2>5. after[k] \in RlexStates /\ Past(i, after[k])
    BY <1>5, <1>12, <2>2, <2>3
  <2> HIDE DEF i
  <2> QED BY <2>1, <2>4, <2>5
<1>15. \A k \in 0 .. m : k \in T
  <2> HIDE DEF T
  <2> QED BY <1>3, <1>13, <1>14, UpTo
<1>16. Past(L, after[m])
  <2>1. m \in 0 .. m
    BY <1>3
  <2>2. PICK j \in 0 .. L : Past(j, after[m]) /\ (j >= m \/ j = L)
    BY <1>15, <2>1
  <2>3. j = L
    BY <1>0, <1>3, <2>2
  <2> QED BY <2>2, <2>3
<1>17. after[m].ok = TRUE /\ after[m].out = First(drawn, n)
  BY <1>16, Zenon DEF Past, PastSuites
<1> HIDE DEF drawn
<1> QED BY <1>1, <1>11, <1>17

-----------------------------------------------------------------------------
(* A cursor goes round its ring. *)
LEMMA CursorMoves ==
  ASSUME NEW n \in Nat \ {0}, NEW i \in 0 .. n - 1
  PROVE  (i + 1) % n \in 0 .. n - 1
OBVIOUS

(* The column the client composes is the one the server means. *)
LEMMA ComposedAsWanted ==
  ASSUME NEW short \in Seq(Pixel), NEW offset \in Nat
  PROVE  Composed(offset, short) = Wanted(short, offset, band.background)
PROOF
<1>1. DOMAIN short = 1 .. Len(short) /\ Len(short) \in Nat
  BY LenProperties
<1>2. \A i \in 1 .. BandHeight : i - offset \in DOMAIN short <=> i > offset /\ i <= offset + Len(short)
  BY <1>1
<1> QED BY <1>2 DEF Composed, Wanted

(* A cached V-Bar at the height of the band.                                *)
LEMMA VBarAsWanted ==
  ASSUME NEW entry \in Seq(Pixel), BandHeight \in Nat
  PROVE  VBarPixels(entry) = Wanted(entry, 0, Black)
PROOF
<1> DEFINE h == BandHeight
           n == Len(entry)
           a == SubSeq(entry, 1, AtMost(n, h))
           b == Blank(IF n < h THEN h - n ELSE 0)
           w == Wanted(entry, 0, Black)
<1>0. h \in Nat /\ n \in Nat /\ DOMAIN entry = 1 .. n /\ Black \in Pixel
  BY DEF Black, Pixel, Byte
<1>1. w = [i \in 1 .. h |-> IF i - 0 \in DOMAIN entry THEN entry[i - 0] ELSE Black]
  BY Zenon DEF Wanted
<1>2. /\ a \in Seq(Pixel) /\ Len(a) = AtMost(n, h)
      /\ \A i \in 1 .. AtMost(n, h) : a[i] = entry[i]
  <2>1. AtMost(n, h) \in Nat /\ AtMost(n, h) <= n
    BY <1>0 DEF AtMost
  <2> QED BY <1>0, <2>1
<1>3. /\ b \in Seq(Pixel) /\ Len(b) = IF n < h THEN h - n ELSE 0
      /\ \A i \in 1 .. Len(b) : b[i] = Black
  <2> DEFINE m == IF n < h THEN h - n ELSE 0
  <2>1. m \in Nat
    BY <1>0
  <2> HIDE DEF m
  <2>2. b = [k \in 1 .. m |-> Black]
    BY DEF Blank, m
  <2>3. b \in Seq(Pixel) /\ Len(b) = m /\ \A i \in 1 .. m : b[i] = Black
    BY <1>0, <2>1, <2>2
  <2> QED BY <2>3 DEF m
<1>4. VBarPixels(entry) = a \o b
  BY DEF VBarPixels
<1> HIDE DEF a, b, h, n, w
<1>5. Len(a) + Len(b) = h
  BY <1>0, <1>2, <1>3 DEF AtMost
<1>6. a \o b = [i \in 1 .. h |-> IF i <= Len(a) THEN a[i] ELSE b[i - Len(a)]]
  <2>1. a \o b = [i \in 1 .. Len(a) + Len(b) |->
                   IF i <= Len(a) THEN a[i] ELSE b[i - Len(a)]]
    <3> DEFINE c == a \o b
    <3>1. /\ c \in Seq(Pixel) /\ Len(c) = Len(a) + Len(b)
          /\ \A i \in 1 .. Len(c) : c[i] = IF i <= Len(a) THEN a[i] ELSE b[i - Len(a)]
      <4>1. a \in Seq(Pixel) /\ b \in Seq(Pixel)
        BY <1>2, <1>3
      <4> QED BY <4>1, ConcatProperties
    <3> HIDE DEF c
    <3>2. c = [i \in 1 .. Len(c) |-> c[i]]
      BY <3>1
    <3> QED BY <3>1, <3>2 DEF c
  <2> QED BY <1>5, <2>1
<1>7. ASSUME NEW i \in 1 .. h
      PROVE  (IF i <= Len(a) THEN a[i] ELSE b[i - Len(a)])
               = IF i - 0 \in DOMAIN entry THEN entry[i - 0] ELSE Black
  <2>1. i - 0 = i /\ i \in Nat /\ i >= 1
    BY <1>0
  <2>2. CASE i <= Len(a)
    <3>1. i \in 1 .. AtMost(n, h) /\ i \in 1 .. n
      BY <1>0, <1>2, <2>1, <2>2 DEF AtMost
    <3>2. a[i] = entry[i]
      BY <1>2, <3>1
    <3> QED BY <1>0, <2>1, <2>2, <3>1, <3>2
  <2>3. CASE ~ (i <= Len(a))
    <3>1. i \notin 1 .. n /\ i - Len(a) \in 1 .. Len(b)
      BY <1>0, <1>2, <1>3, <2>1, <2>3 DEF AtMost
    <3>2. b[i - Len(a)] = Black
      BY <1>3, <3>1
    <3> QED BY <1>0, <2>1, <2>3, <3>1, <3>2
  <2> QED BY <2>2, <2>3
<1> QED BY <1>1, <1>4, <1>6, <1>7 DEF w

LEMMA WantedType ==
  ASSUME NEW pixels \in Seq(Pixel), NEW offset \in Nat, NEW fill \in Pixel, BandHeight \in Nat
  PROVE  Wanted(pixels, offset, fill) \in Seq(Pixel)
PROOF
<1>1. \A i \in DOMAIN pixels : pixels[i] \in Pixel
  OBVIOUS
<1>2. \A i \in 1 .. BandHeight :
        (IF i - offset \in DOMAIN pixels THEN pixels[i - offset] ELSE fill) \in Pixel
  BY <1>1
<1> QED BY <1>2 DEF Wanted

-----------------------------------------------------------------------------
ServerFields == {"seq", "glyphs", "vbars", "shorts", "vbar_cursor", "short_vbar_cursor"}

CacheTypes ==
  /\ vbar_cursor \in VBarIndex /\ short_vbar_cursor \in ShortVBarIndex
  /\ DOMAIN vbar_storage = VBarIndex /\ DOMAIN short_vbar_storage = ShortVBarIndex
  /\ DOMAIN server = ServerFields
  /\ server.vbar_cursor \in VBarIndex /\ server.short_vbar_cursor \in ShortVBarIndex
  /\ DOMAIN server.vbars = VBarIndex /\ server.shorts \in [ShortVBarIndex -> Seq(Pixel)]
  /\ DOMAIN agreed = {"vbars", "shorts", "glyphs"}
  /\ agreed.vbars \subseteq VBarIndex /\ agreed.shorts \subseteq ShortVBarIndex

(* The server's number is as far ahead of the client's as messages were     *)
(* missed.                                                                  *)
NumbersApart ==
  /\ missed \in Nat
  /\ server.seq \in 0 .. SeqModulus - 1
  /\ seq_number # NoSeq => /\ seq_number \in 0 .. SeqModulus - 1
                           /\ server.seq = (seq_number + 1 + missed) % SeqModulus

ClearInv == CacheTypes /\ NumbersApart /\ CachesInStep

LEMMA ClearInitInv == Init => ClearInv
PROOF
<1> SUFFICES ASSUME Init PROVE ClearInv
  OBVIOUS
<1>0. 0 \in VBarIndex /\ 0 \in ShortVBarIndex /\ 0 \in 0 .. SeqModulus - 1
  BY ClearAssumption DEF VBarIndex, ShortVBarIndex
<1>1. <<>> \in Seq(Pixel)
  OBVIOUS
<1>2. CASE in_step
  <2>1. server = NewServer
    BY <1>2 DEF Init
  <2> QED BY <1>0, <1>1, <2>1
          DEF Init, ClearInv, CacheTypes, NumbersApart, CachesInStep, NewServer, ServerFields
<1>3. CASE ~in_step
  <2>1. server \in OldServers
    BY <1>3 DEF Init
  <2>2. server \in [seq : 0 .. SeqModulus - 1, glyphs : [GlyphIds -> Seq(Pixel)],
                    vbars : [VBarIndex -> Seq(Pixel)], vbar_cursor : VBarIndex,
                    shorts : [ShortVBarIndex -> Seq(Pixel)], short_vbar_cursor : ShortVBarIndex]
    BY <2>1, ClearAssumption
  <2> QED BY <1>0, <1>3, <2>2
          DEF Init, ClearInv, CacheTypes, NumbersApart, CachesInStep, ServerFields
<1> QED BY <1>2, <1>3

(* What Encode makes of the server. *)
LEMMA EncodeServer ==
  ASSUME ClearInv, NEW m, Encode(m)
  PROVE  /\ DOMAIN server' = ServerFields
         /\ server'.vbars = server.vbars /\ server'.shorts = server.shorts
         /\ server'.vbar_cursor = IF m.reset THEN 0 ELSE server.vbar_cursor
         /\ server'.short_vbar_cursor = IF m.reset THEN 0 ELSE server.short_vbar_cursor
         /\ server'.seq = (server.seq + 1) % SeqModulus
         /\ server'.seq \in 0 .. SeqModulus - 1
         /\ {server'.vbar_cursor} \subseteq VBarIndex
         /\ {server'.short_vbar_cursor} \subseteq ShortVBarIndex
PROOF
<1>1. 0 \in VBarIndex /\ 0 \in ShortVBarIndex
  BY ClearAssumption DEF VBarIndex, ShortVBarIndex
<1>2. (server.seq + 1) % SeqModulus \in 0 .. SeqModulus - 1
  BY ClearAssumption, CursorMoves DEF ClearInv, NumbersApart
<1> QED BY <1>1, <1>2 DEF ClearInv, CacheTypes, Encode, ServerFields

LEMMA LoseMessageInv ==
  ASSUME ClearInv, NEW m \in Headers, Encode(m), LoseMessage(m)
  PROVE  ClearInv'
PROOF
<1>0. CacheTypes /\ NumbersApart /\ CachesInStep /\ m.reset \in BOOLEAN
  BY ClearAssumption DEF ClearInv
<1>1. /\ UNCHANGED <<seq_number, vbar_storage, short_vbar_storage, vbar_cursor,
                    short_vbar_cursor, agreed>>
      /\ missed' = missed + 1
      /\ in_step' => in_step /\ ~m.reset
  BY Zenon DEF LoseMessage, contextVars
<1>2. CacheTypes'
  BY <1>0, <1>1, EncodeServer DEF CacheTypes
<1>3. CachesInStep'
  BY <1>0, <1>1, EncodeServer DEF CachesInStep
<1>4. NumbersApart'
  <2>1. missed' \in Nat /\ server'.seq \in 0 .. SeqModulus - 1
    BY <1>0, <1>1, EncodeServer DEF NumbersApart
  <2>2. ASSUME seq_number # NoSeq
        PROVE  server'.seq = (seq_number + 1 + missed') % SeqModulus
    <3>1. seq_number + 1 + missed \in Nat /\ missed \in Nat /\ seq_number \in Nat
      BY <1>0, <2>2 DEF NumbersApart
    <3>2. server'.seq = (((seq_number + 1 + missed) % SeqModulus) + 1) % SeqModulus
      BY <1>0, <2>2, EncodeServer DEF NumbersApart
    <3>3. server'.seq = (seq_number + 1 + missed + 1) % SeqModulus
      BY <3>1, <3>2, ModNext, ClearAssumption
    <3> QED BY <1>1, <3>1, <3>3
  <2> QED BY <1>0, <1>1, <2>1, <2>2 DEF NumbersApart
<1> QED BY <1>2, <1>3, <1>4 DEF ClearInv

LEMMA BeginMessageInv ==
  ASSUME ClearInv, NEW m \in Headers, BeginMessage(m)
  PROVE  ClearInv'
PROOF
<1>0. CacheTypes /\ NumbersApart /\ CachesInStep /\ m.reset \in BOOLEAN /\ Encode(m)
  BY ClearAssumption DEF ClearInv, BeginMessage
<1>1. /\ UNCHANGED <<vbar_storage, short_vbar_storage>>
      /\ seq_number' = server.seq /\ missed' = 0
      /\ vbar_cursor' = IF m.reset THEN 0 ELSE vbar_cursor
      /\ short_vbar_cursor' = IF m.reset THEN 0 ELSE short_vbar_cursor
      /\ in_step' => in_step \/ m.reset
      /\ agreed' = IF m.reset THEN NoneAgreed ELSE agreed
  BY Zenon DEF BeginMessage, ResetCursors
<1>2. 0 \in VBarIndex /\ 0 \in ShortVBarIndex
  BY ClearAssumption DEF VBarIndex, ShortVBarIndex
<1>3. CacheTypes'
  BY <1>0, <1>1, <1>2, EncodeServer DEF CacheTypes, NoneAgreed
<1>4. CachesInStep'
  BY <1>0, <1>1, EncodeServer DEF CachesInStep, NoneAgreed
<1>5. NumbersApart'
  BY <1>0, <1>1, EncodeServer, ClearAssumption DEF NumbersApart
<1> QED BY <1>3, <1>4, <1>5 DEF ClearInv

(* What both sides leave alone stays in step. *)
LEMMA CachesKeptInv ==
  ASSUME ClearInv,
         UNCHANGED <<seq_number, vbar_storage, short_vbar_storage, vbar_cursor,
                     short_vbar_cursor, in_step, missed>>,
         DOMAIN server' = ServerFields,
         server'.vbars = server.vbars, server'.shorts = server.shorts,
         server'.vbar_cursor = server.vbar_cursor,
         server'.short_vbar_cursor = server.short_vbar_cursor, server'.seq = server.seq,
         DOMAIN agreed' = {"vbars", "shorts", "glyphs"},
         agreed'.vbars = agreed.vbars, agreed'.shorts = agreed.shorts
  PROVE  ClearInv'
PROOF
BY DEF ClearInv, CacheTypes, NumbersApart, CachesInStep

LEMMA ComposeInv ==
  ASSUME ClearInv, Compose
  PROVE  ClearInv'
PROOF
<1>1. /\ UNCHANGED <<seq_number, vbar_storage, short_vbar_storage, vbar_cursor,
                    short_vbar_cursor, in_step, missed>>
      /\ DOMAIN server' = ServerFields
      /\ server'.vbars = server.vbars /\ server'.shorts = server.shorts
      /\ server'.vbar_cursor = server.vbar_cursor
      /\ server'.short_vbar_cursor = server.short_vbar_cursor /\ server'.seq = server.seq
      /\ DOMAIN agreed' = {"vbars", "shorts", "glyphs"}
      /\ agreed'.vbars = agreed.vbars /\ agreed'.shorts = agreed.shorts
  BY DEF Compose, ClearInv, CacheTypes, ServerFields
<1> QED BY <1>1, CachesKeptInv

LEMMA ShortHitInv ==
  ASSUME ClearInv, NEW j \in ShortVBarIndex, NEW offset \in Offsets, ShortHit(j, offset)
  PROVE  ClearInv'
PROOF
<1> DEFINE full == Wanted(server.shorts[j], offset, band.background)
           pixels == Composed(offset, short_vbar_storage[j])
           known == in_step /\ j \in agreed.shorts
           c == server.vbar_cursor
<1>0. CacheTypes /\ NumbersApart /\ CachesInStep /\ offset \in Nat
  BY ClearAssumption DEF ClearInv
<1>1. /\ server' = [server EXCEPT !.vbars[c] = full, !.vbar_cursor = (@ + 1) % VBarSize]
      /\ IF reading THEN StoreVBar(pixels) ELSE UNCHANGED <<vbar_storage, vbar_cursor>>
      /\ in_step' <=> in_step /\ reading
      /\ agreed' = [agreed EXCEPT !.vbars = IF reading /\ known THEN @ \cup {c} ELSE @ \ {c}]
      /\ UNCHANGED <<short_vbar_storage, short_vbar_cursor, seq_number, missed>>
  BY Zenon DEF ShortHit, Column
<1>2. known => full = pixels
  BY <1>0, ComposedAsWanted DEF CachesInStep, CacheTypes
<1> HIDE DEF full, pixels
<1>3. /\ (server.vbar_cursor + 1) % VBarSize \in VBarIndex
      /\ (vbar_cursor + 1) % VBarSize \in VBarIndex
  BY <1>0, ClearAssumption, CursorMoves DEF CacheTypes, VBarIndex
<1>4. /\ DOMAIN server' = ServerFields
      /\ server'.vbars = [server.vbars EXCEPT ![c] = full]
      /\ server'.vbar_cursor = (server.vbar_cursor + 1) % VBarSize
      /\ server'.shorts = server.shorts
      /\ server'.short_vbar_cursor = server.short_vbar_cursor /\ server'.seq = server.seq
  BY <1>0, <1>1 DEF CacheTypes, ServerFields
<1>5. /\ DOMAIN agreed' = {"vbars", "shorts", "glyphs"} /\ agreed'.shorts = agreed.shorts
      /\ agreed'.vbars = IF reading /\ known THEN agreed.vbars \cup {c} ELSE agreed.vbars \ {c}
  BY <1>0, <1>1 DEF CacheTypes
<1>6. CacheTypes'
  BY <1>0, <1>1, <1>3, <1>4, <1>5 DEF CacheTypes, StoreVBar
<1>7. NumbersApart'
  BY <1>0, <1>1, <1>4 DEF NumbersApart
<1>8. ASSUME in_step'
      PROVE  /\ vbar_cursor' = server'.vbar_cursor
             /\ short_vbar_cursor' = server'.short_vbar_cursor
             /\ \A i \in agreed'.vbars : vbar_storage'[i] = server'.vbars[i]
             /\ \A i \in agreed'.shorts : short_vbar_storage'[i] = server'.shorts[i]
  <2>1. in_step /\ reading /\ vbar_cursor = c
    BY <1>0, <1>1, <1>8 DEF CachesInStep
  <2>2. vbar_storage' = [vbar_storage EXCEPT ![c] = pixels]
        /\ vbar_cursor' = (c + 1) % VBarSize
    BY <1>1, <2>1 DEF StoreVBar
  <2>3. ASSUME NEW i \in agreed'.vbars PROVE vbar_storage'[i] = server'.vbars[i]
    <3>1. CASE i = c
      <4>1. known
        BY <1>5, <2>3, <3>1
      <4> QED BY <1>0, <1>2, <1>4, <2>2, <3>1, <4>1 DEF CacheTypes
    <3>2. CASE i # c
      BY <1>0, <1>4, <1>5, <2>1, <2>2, <3>2 DEF CacheTypes, CachesInStep
    <3> QED BY <3>1, <3>2
  <2> QED BY <1>0, <1>1, <1>4, <1>5, <2>1, <2>2, <2>3 DEF CachesInStep
<1>9. CachesInStep'
  BY <1>8 DEF CachesInStep
<1> QED BY <1>6, <1>7, <1>9 DEF ClearInv

LEMMA ShortMissInv ==
  ASSUME ClearInv, NEW offset \in Nat, NEW short \in Seq(Pixel), ShortMiss(offset, short)
  PROVE  ClearInv'
PROOF
<1> DEFINE full == Wanted(short, offset, band.background)
           pixels == Composed(offset, short)
           c == server.vbar_cursor
           d == server.short_vbar_cursor
<1>0. CacheTypes /\ NumbersApart /\ CachesInStep
  BY DEF ClearInv
<1>1. /\ server' = [server EXCEPT !.vbars[c] = full, !.vbar_cursor = (@ + 1) % VBarSize,
                                 !.shorts[d] = short,
                                 !.short_vbar_cursor = (@ + 1) % ShortVBarSize]
      /\ IF reading THEN StoreVBar(pixels) /\ StoreShortVBar(short)
         ELSE UNCHANGED <<vbar_storage, vbar_cursor, short_vbar_storage, short_vbar_cursor>>
      /\ in_step' <=> in_step /\ reading
      /\ agreed' = IF reading
                   THEN [agreed EXCEPT !.vbars = @ \cup {c}, !.shorts = @ \cup {d}]
                   ELSE [agreed EXCEPT !.vbars = @ \ {c}, !.shorts = @ \ {d}]
      /\ UNCHANGED <<seq_number, missed>>
  BY Zenon DEF ShortMiss, Column
<1>2. full = pixels
  BY ComposedAsWanted
<1> HIDE DEF full, pixels
<1>3. /\ (server.vbar_cursor + 1) % VBarSize \in VBarIndex
      /\ (vbar_cursor + 1) % VBarSize \in VBarIndex
      /\ (server.short_vbar_cursor + 1) % ShortVBarSize \in ShortVBarIndex
      /\ (short_vbar_cursor + 1) % ShortVBarSize \in ShortVBarIndex
  BY <1>0, ClearAssumption, CursorMoves DEF CacheTypes, VBarIndex, ShortVBarIndex
<1>4. /\ DOMAIN server' = ServerFields
      /\ server'.vbars = [server.vbars EXCEPT ![c] = full]
      /\ server'.vbar_cursor = (server.vbar_cursor + 1) % VBarSize
      /\ server'.shorts = [server.shorts EXCEPT ![d] = short]
      /\ server'.short_vbar_cursor = (server.short_vbar_cursor + 1) % ShortVBarSize
      /\ server'.seq = server.seq
  BY <1>0, <1>1 DEF CacheTypes, ServerFields
<1>5. /\ DOMAIN agreed' = {"vbars", "shorts", "glyphs"}
      /\ agreed'.vbars \subseteq agreed.vbars \cup {c}
      /\ agreed'.shorts \subseteq agreed.shorts \cup {d}
  BY <1>0, <1>1 DEF CacheTypes
<1>6. CacheTypes'
  BY <1>0, <1>1, <1>3, <1>4, <1>5 DEF CacheTypes, StoreVBar, StoreShortVBar
<1>7. NumbersApart'
  BY <1>0, <1>1, <1>4 DEF NumbersApart
<1>8. ASSUME in_step'
      PROVE  /\ vbar_cursor' = server'.vbar_cursor
             /\ short_vbar_cursor' = server'.short_vbar_cursor
             /\ \A i \in agreed'.vbars : vbar_storage'[i] = server'.vbars[i]
             /\ \A i \in agreed'.shorts : short_vbar_storage'[i] = server'.shorts[i]
  <2>1. in_step /\ reading /\ vbar_cursor = c /\ short_vbar_cursor = d
    BY <1>0, <1>1, <1>8 DEF CachesInStep
  <2>2. /\ vbar_storage' = [vbar_storage EXCEPT ![c] = full]
        /\ vbar_cursor' = (c + 1) % VBarSize
        /\ short_vbar_storage' = [short_vbar_storage EXCEPT ![d] = short]
        /\ short_vbar_cursor' = (d + 1) % ShortVBarSize
    BY <1>1, <1>2, <2>1 DEF StoreVBar, StoreShortVBar
  <2>3. \A i \in agreed'.vbars : vbar_storage'[i] = server'.vbars[i]
    BY <1>0, <1>4, <1>5, <2>1, <2>2 DEF CacheTypes, CachesInStep
  <2>4. \A i \in agreed'.shorts : short_vbar_storage'[i] = server'.shorts[i]
    BY <1>0, <1>4, <1>5, <2>1, <2>2 DEF CacheTypes, CachesInStep
  <2> QED BY <1>4, <2>2, <2>3, <2>4
<1>9. CachesInStep'
  BY <1>8 DEF CachesInStep
<1> QED BY <1>6, <1>7, <1>9 DEF ClearInv

-----------------------------------------------------------------------------
LEMMA ClearStepInv == ClearInv /\ [Next]_clearVars => ClearInv'
PROOF
<1> SUFFICES ASSUME ClearInv, [Next]_clearVars PROVE ClearInv'
  OBVIOUS
<1> USE DEF contextVars
<1>0. UNCHANGED <<seq_number, vbar_storage, short_vbar_storage, vbar_cursor,
                 short_vbar_cursor, in_step, missed, server, agreed>> => ClearInv'
  BY CachesKeptInv DEF ClearInv, CacheTypes
<1>1. ASSUME NEW m \in Headers, NotDecoded(m) \/ SequenceGap(m) \/ BeginMessage(m)
      PROVE  ClearInv'
  BY <1>1, LoseMessageInv, BeginMessageInv DEF NotDecoded, SequenceGap
<1>2. CASE GlyphHit
  BY <1>0, <1>2 DEF GlyphHit
<1>3. ASSUME NEW runs \in Residuals, Residual(runs) PROVE ClearInv'
  BY <1>0, <1>3 DEF Residual
<1>4. ASSUME NEW b \in Bands, BeginBand(b) PROVE ClearInv'
  BY <1>0, <1>4 DEF BeginBand
<1>5. ASSUME NEW i \in VBarIndex, VBarHit(i) PROVE ClearInv'
  BY <1>0, <1>5 DEF VBarHit, Column
<1>6. ASSUME NEW i \in ShortVBarIndex, NEW offset \in Offsets, ShortHit(i, offset)
      PROVE  ClearInv'
  BY <1>6, ShortHitInv
<1>7. ASSUME NEW v \in ShortVBars, ShortMiss(v.offset, v.pixels) PROVE ClearInv'
  <2>1. v.offset \in Nat /\ v.pixels \in Seq(Pixel)
    BY ClearAssumption
  <2> QED BY <1>7, <2>1, ShortMissInv
<1>8. CASE EndBands \/ Unreadable \/ Return
  BY <1>0, <1>8 DEF EndBands, Unreadable, Return
<1>9. ASSUME NEW sub \in Subcodecs, Subcodec(sub) PROVE ClearInv'
  BY <1>0, <1>9 DEF Subcodec
<1>10. CASE Compose
  BY <1>10, ComposeInv
<1>11. CASE UNCHANGED clearVars
  BY <1>0, <1>11 DEF clearVars
<1> QED BY <1>1, <1>2, <1>3, <1>4, <1>5, <1>6, <1>7, <1>8, <1>9, <1>10, <1>11 DEF Next

LEMMA ClearInvariant == Spec => []ClearInv
PROOF
BY ClearInitInv, ClearStepInv, PTL DEF Spec

(* Whatever the sizes of the rings and whichever messages are lost, refused *)
(* or unreadable: as long as every V-Bar since the last reset of the        *)
(* cursors was decoded, the cursors of decode_bands and the entries written *)
(* since are the server's.                                                  *)
THEOREM CachesStayInStep == Spec => []CachesInStep
PROOF
<1>1. ClearInv => CachesInStep
  BY DEF ClearInv
<1> QED BY <1>1, ClearInvariant, PTL

(* For every number of sequence numbers: a message is taken by decompress   *)
(* exactly if a multiple of them was missed since the last one taken.       *)
THEOREM OnlyMissesAreRefused == Spec => []TakenUnlessMissed
PROOF
<1>1. ASSUME ClearInv PROVE TakenUnlessMissed
  <2> SUFFICES ASSUME seq_number # NoSeq
               PROVE  InSequence(server.seq) <=> missed % SeqModulus = 0
    BY DEF TakenUnlessMissed
  <2>1. seq_number + 1 \in Nat /\ missed \in Nat
        /\ server.seq = (seq_number + 1 + missed) % SeqModulus
    BY <1>1 DEF ClearInv, NumbersApart
  <2>2. (seq_number + 1 + missed) % SeqModulus = (seq_number + 1) % SeqModulus
          <=> missed % SeqModulus = 0
    BY <2>1, ModSame, ClearAssumption
  <2> QED BY <2>1, <2>2 DEF InSequence
<1> QED BY <1>1, ClearInvariant, PTL

-----------------------------------------------------------------------------
(* What is composed. *)

BandHeaders ==
  {b \in [x_start : Nat, x_end : Nat, y_start : Nat, y_end : Nat, background : Pixel] :
     b.y_start <= b.y_end}

PaintTypes ==
  /\ DOMAIN glyph_cache = GlyphIds /\ DOMAIN server.glyphs = GlyphIds
  /\ server.vbars \in [VBarIndex -> Seq(Pixel)]
  /\ agreed.glyphs \subseteq GlyphIds
  /\ band \in BandHeaders
  /\ message.glyph \in GlyphIds \cup {NoGlyph}
  /\ pc \in {"idle", "hit", "residual", "bands", "subcodecs", "compose", "painted", "failed"}

GlyphsAgree == \A g \in agreed.glyphs : glyph_cache[g] = server.glyphs[g]

(* A message that is not read is damaged; one that refers to what both have *)
(* is read, and what is composed of it so far is the server's.              *)
TileAgrees ==
  /\ pc # "idle" => (sound => reading) /\ (reading \/ damaged)
  /\ pc = "hit" =>
       /\ message.glyph # NoGlyph /\ message.w * message.h \in Nat \ {0}
       /\ Len(server.glyphs[message.glyph]) >= message.w * message.h
  /\ pc = "residual" => \E n \in Nat : tile = Blank(n) /\ picture = Blank(n)
  /\ pc \in {"bands", "subcodecs", "compose", "painted"} /\ sound => tile = picture

PaintInv == PaintTypes /\ GlyphsAgree /\ TileAgrees

LEMMA PaintInit == Init => PaintInv
PROOF
<1> SUFFICES ASSUME Init PROVE PaintInv
  OBVIOUS
<1>1. <<>> \in Seq(Pixel)
  OBVIOUS
<1>2. NoBand \in BandHeaders
  BY DEF NoBand, BandHeaders, Black, Pixel, Byte
<1>3. server.glyphs \in [GlyphIds -> Seq(Pixel)] /\ server.vbars \in [VBarIndex -> Seq(Pixel)]
  <2>1. CASE in_step
    <3>1. server = NewServer
      BY <2>1 DEF Init
    <3> QED BY <1>1, <3>1 DEF NewServer
  <2>2. CASE ~in_step
    <3>1. server \in OldServers
      BY <2>2 DEF Init
    <3>2. server \in [seq : 0 .. SeqModulus - 1, glyphs : [GlyphIds -> Seq(Pixel)],
                      vbars : [VBarIndex -> Seq(Pixel)], vbar_cursor : VBarIndex,
                      shorts : [ShortVBarIndex -> Seq(Pixel)], short_vbar_cursor : ShortVBarIndex]
      BY <3>1, ClearAssumption
    <3> QED BY <3>2
  <2> QED BY <2>1, <2>2
<1>4. PaintTypes
  BY <1>2, <1>3 DEF Init, PaintTypes, NoMessage
<1>5. GlyphsAgree /\ TileAgrees
  BY DEF Init, GlyphsAgree, TileAgrees
<1> QED BY <1>4, <1>5 DEF PaintInv

LEMMA BandTypes ==
  ASSUME band \in BandHeaders
  PROVE  BandHeight \in Nat /\ band.background \in Pixel
BY DEF BandHeaders, BandHeight

(* A message's header, whether the client takes it or not.                  *)
LEMMA HeaderPaint ==
  ASSUME ClearInv, PaintInv, NEW m \in Headers, Encode(m), AfterHeader(m),
         glyph_cache' = glyph_cache, band' = band, agreed'.glyphs = agreed.glyphs,
         sound' => reading', reading' \/ damaged'
  PROVE  PaintInv'
PROOF
<1>1. /\ m.glyph \in GlyphIds \cup {NoGlyph} /\ m.w \in Nat \ {0} /\ m.h \in Nat \ {0}
      /\ m.hit \in BOOLEAN
  BY ClearAssumption
<1> DEFINE n == m.w * m.h
<1>2. n \in Nat \ {0}
  BY <1>1
<1>3. /\ message' = m /\ tile' = Blank(n) /\ picture' = Blank(n)
      /\ m.hit => m.glyph # NoGlyph /\ Len(server.glyphs[m.glyph]) >= n
      /\ pc' = IF m.hit THEN "hit" ELSE "residual"
  BY Zenon DEF Encode, AfterHeader
<1>4. server'.glyphs = server.glyphs /\ server'.vbars = server.vbars
  BY DEF ClearInv, CacheTypes, Encode, ServerFields
<1> HIDE DEF n
<1>5. PaintTypes'
  BY <1>1, <1>3, <1>4 DEF PaintInv, PaintTypes
<1>6. GlyphsAgree'
  BY <1>4 DEF PaintInv, GlyphsAgree
<1>7. TileAgrees'
  BY <1>1, <1>2, <1>3, <1>4 DEF TileAgrees, n
<1> QED BY <1>5, <1>6, <1>7 DEF PaintInv

LEMMA GlyphHitPaint ==
  ASSUME PaintInv, GlyphHit
  PROVE  PaintInv'
PROOF
<1> DEFINE g == message.glyph
<1>1. /\ pc = "hit" /\ picture' = Reshaped(server.glyphs[g])
      /\ \/ pc' = "painted" /\ tile' = Reshaped(glyph_cache[g])
         \/ pc' = "failed"
      /\ sound' = (sound /\ g \in agreed.glyphs)
      /\ UNCHANGED <<glyph_cache, message, band, reading, server, damaged, agreed>>
  BY Zenon DEF GlyphHit, contextVars
<1>2. PaintTypes'
  BY <1>1 DEF PaintInv, PaintTypes
<1>3. GlyphsAgree'
  BY <1>1 DEF PaintInv, GlyphsAgree
<1>4. sound' => glyph_cache[g] = server.glyphs[g]
  BY <1>1 DEF PaintInv, GlyphsAgree
<1>5. TileAgrees'
  <2>1. (sound => reading) /\ (reading \/ damaged)
    BY <1>1 DEF PaintInv, TileAgrees
  <2>2. pc' = "painted" /\ sound' => tile' = picture'
    BY <1>1, <1>4
  <2> QED BY <1>1, <2>1, <2>2 DEF TileAgrees
<1> QED BY <1>2, <1>3, <1>5 DEF PaintInv

LEMMA ResidualPaint ==
  ASSUME PaintInv, NEW runs \in Residuals, Residual(runs)
  PROVE  PaintInv'
PROOF
<1> DEFINE decoded == DecodeResidual(ResidualCode(runs)[Len(runs)], tile)
<1>1. /\ pc = "residual" /\ pc' = "bands" /\ band' = NoBand
      /\ picture' = Drawn(runs, picture)
      /\ tile' = IF reading THEN decoded.out ELSE tile
      /\ reading' = (reading /\ decoded.ok)
      /\ UNCHANGED <<glyph_cache, message, server, damaged, agreed, sound>>
  BY Zenon DEF Residual, contextVars
<1>2. runs \in Runs
  BY ClearAssumption DEF Runs
<1>3. PICK n \in Nat : tile = Blank(n) /\ picture = Blank(n)
  BY <1>1 DEF PaintInv, TileAgrees
<1>4. tile \in Seq(Pixel)
  BY <1>3 DEF Blank, Black, Pixel, Byte
<1>5. decoded.ok /\ decoded.out = Drawn(runs, tile)
  BY <1>2, <1>4, ResidualDecoded
<1> HIDE DEF decoded
<1>6. NoBand \in BandHeaders
  BY DEF NoBand, BandHeaders, Black, Pixel, Byte
<1>7. (sound => reading) /\ (reading \/ damaged)
  BY <1>1 DEF PaintInv, TileAgrees
<1>8. PaintTypes'
  BY <1>1, <1>6 DEF PaintInv, PaintTypes
<1>9. GlyphsAgree'
  BY <1>1 DEF PaintInv, GlyphsAgree
<1>10. TileAgrees'
  <2>1. sound' => tile' = picture'
    BY <1>1, <1>3, <1>5, <1>7
  <2> QED BY <1>1, <1>5, <1>7, <2>1 DEF TileAgrees
<1> QED BY <1>8, <1>9, <1>10 DEF PaintInv

(* A column is painted alike if what both paint is the same wherever what   *)
(* the column refers to is agreed.                                          *)
LEMMA ColumnPaint ==
  ASSUME PaintInv, NEW full, NEW pixels, NEW known, Column(full, pixels, known), InBand,
         sound /\ known => full = pixels,
         server'.glyphs = server.glyphs, server'.vbars \in [VBarIndex -> Seq(Pixel)],
         agreed'.glyphs = agreed.glyphs, reading' = reading
  PROVE  PaintInv'
PROOF
<1>1. /\ pc = "bands" /\ band' = [band EXCEPT !.x_start = @ + 1]
      /\ picture' = PaintAt(picture, message.w, band.x_start, band.y_start, 1, full)
      /\ tile' = IF reading
                 THEN PaintAt(tile, message.w, band.x_start, band.y_start, 1, pixels) ELSE tile
      /\ sound' = (sound /\ known)
      /\ UNCHANGED <<pc, message, damaged, glyph_cache>>
  BY Zenon DEF Column, InBand
<1>2. (sound => reading) /\ (reading \/ damaged) /\ (sound => tile = picture)
  BY <1>1 DEF PaintInv, TileAgrees
<1>3. band' \in BandHeaders
  BY <1>1 DEF PaintInv, PaintTypes, BandHeaders
<1>4. PaintTypes'
  BY <1>1, <1>3 DEF PaintInv, PaintTypes
<1>5. GlyphsAgree'
  BY <1>1 DEF PaintInv, GlyphsAgree
<1>6. sound' => tile' = picture'
  <2> SUFFICES ASSUME sound' PROVE tile' = picture'
    OBVIOUS
  <2>1. sound /\ known /\ reading /\ tile = picture /\ full = pixels
    BY <1>1, <1>2
  <2> QED BY <1>1, <2>1, Zenon
<1>7. TileAgrees'
  BY <1>1, <1>2, <1>6 DEF TileAgrees
<1> QED BY <1>4, <1>5, <1>7 DEF PaintInv

LEMMA VBarHitPaint ==
  ASSUME ClearInv, PaintInv, NEW i \in VBarIndex, VBarHit(i)
  PROVE  PaintInv'
PROOF
<1> DEFINE full == Wanted(server.vbars[i], 0, Black)
           pixels == VBarPixels(vbar_storage[i])
           known == in_step /\ i \in agreed.vbars
<1>1. InBand /\ Column(full, pixels, known) /\ UNCHANGED <<reading, server, agreed>>
  BY Zenon DEF VBarHit
<1>2. known => full = pixels
  <2> SUFFICES ASSUME known PROVE full = pixels
    OBVIOUS
  <2>1. vbar_storage[i] = server.vbars[i]
    BY DEF ClearInv, CachesInStep
  <2>2. server.vbars[i] \in Seq(Pixel) /\ BandHeight \in Nat
    BY BandTypes DEF PaintInv, PaintTypes
  <2> QED BY <2>1, <2>2, VBarAsWanted
<1>3. server.vbars \in [VBarIndex -> Seq(Pixel)]
  BY DEF PaintInv, PaintTypes
<1> HIDE DEF full, pixels, known
<1> QED BY <1>1, <1>2, <1>3, ColumnPaint

LEMMA ShortHitPaint ==
  ASSUME ClearInv, PaintInv, NEW i \in ShortVBarIndex, NEW offset \in Offsets,
         ShortHit(i, offset)
  PROVE  PaintInv'
PROOF
<1> DEFINE short == server.shorts[i]
           full == Wanted(short, offset, band.background)
           pixels == Composed(offset, short_vbar_storage[i])
           known == in_step /\ i \in agreed.shorts
           c == server.vbar_cursor
<1>0. /\ CacheTypes /\ CachesInStep /\ PaintTypes /\ offset \in Nat /\ short \in Seq(Pixel)
      /\ BandHeight \in Nat /\ band.background \in Pixel
  BY ClearAssumption, BandTypes DEF ClearInv, PaintInv, PaintTypes, CacheTypes
<1>1. /\ InBand /\ Column(full, pixels, known) /\ reading' = reading
      /\ server' = [server EXCEPT !.vbars[c] = full, !.vbar_cursor = (@ + 1) % VBarSize]
      /\ agreed' = [agreed EXCEPT !.vbars = IF reading /\ known THEN @ \cup {c} ELSE @ \ {c}]
  BY Zenon DEF ShortHit
<1>2. known => full = pixels
  BY <1>0, ComposedAsWanted DEF CachesInStep
<1>3. full \in Seq(Pixel)
  BY <1>0, WantedType
<1> HIDE DEF full, pixels, known, short
<1>4. server'.glyphs = server.glyphs /\ server'.vbars = [server.vbars EXCEPT ![c] = full]
  BY <1>0, <1>1 DEF CacheTypes, ServerFields
<1>5. server'.vbars \in [VBarIndex -> Seq(Pixel)]
  BY <1>0, <1>3, <1>4 DEF PaintTypes
<1>6. agreed'.glyphs = agreed.glyphs
  BY <1>0, <1>1 DEF CacheTypes
<1> QED BY <1>1, <1>2, <1>4, <1>5, <1>6, ColumnPaint

LEMMA ShortMissPaint ==
  ASSUME ClearInv, PaintInv, NEW offset \in Nat, NEW short \in Seq(Pixel),
         ShortMiss(offset, short)
  PROVE  PaintInv'
PROOF
<1> DEFINE full == Wanted(short, offset, band.background)
           pixels == Composed(offset, short)
           c == server.vbar_cursor
           d == server.short_vbar_cursor
<1>0. /\ CacheTypes /\ PaintTypes /\ BandHeight \in Nat /\ band.background \in Pixel
  BY BandTypes DEF ClearInv, PaintInv, PaintTypes
<1>1. /\ InBand /\ Column(full, pixels, TRUE) /\ reading' = reading
      /\ server' = [server EXCEPT !.vbars[c] = full, !.vbar_cursor = (@ + 1) % VBarSize,
                                 !.shorts[d] = short,
                                 !.short_vbar_cursor = (@ + 1) % ShortVBarSize]
      /\ agreed' = IF reading
                   THEN [agreed EXCEPT !.vbars = @ \cup {c}, !.shorts = @ \cup {d}]
                   ELSE [agreed EXCEPT !.vbars = @ \ {c}, !.shorts = @ \ {d}]
  BY Zenon DEF ShortMiss
<1>2. full = pixels
  BY ComposedAsWanted
<1>3. full \in Seq(Pixel)
  BY <1>0, WantedType
<1> HIDE DEF full, pixels
<1>4. server'.glyphs = server.glyphs /\ server'.vbars = [server.vbars EXCEPT ![c] = full]
  BY <1>0, <1>1 DEF CacheTypes, ServerFields
<1>5. server'.vbars \in [VBarIndex -> Seq(Pixel)]
  BY <1>0, <1>3, <1>4 DEF PaintTypes
<1>6. agreed'.glyphs = agreed.glyphs
  BY <1>0, <1>1 DEF CacheTypes
<1> QED BY <1>1, <1>2, <1>4, <1>5, <1>6, ColumnPaint

(* What its codec makes of an entry is what the server wrote it for.        *)
LEMMA SubcodecDecoded ==
  ASSUME NEW sub \in Subcodecs
  PROVE  SubcodecPixels(sub).ok /\ SubcodecPixels(sub).out = sub.want
PROOF
<1>1. \/ sub.codec = "raw" /\ Raw(sub)
      \/ sub.codec = "rlex" /\ Rlex(sub)
      \/ sub.codec = "nscodec" /\ Nsc(sub)
  BY SubcodecAssumption
<1>2. CASE sub.codec = "raw" /\ Raw(sub)
  <2>1. SubcodecPixels(sub) = [ok |-> Len(sub.data) = sub.w * sub.h, out |-> sub.data]
    BY <1>2 DEF SubcodecPixels
  <2>2. Len(sub.data) = sub.w * sub.h /\ sub.data = sub.want
    BY <1>2, Zenon DEF Raw
  <2> DEFINE n == sub.w * sub.h
             decoded == SubcodecPixels(sub)
  <2>3. decoded.ok = (Len(sub.data) = n) /\ decoded.out = sub.data
    BY <2>1
  <2> HIDE DEF n, decoded
  <2> QED BY <2>2, <2>3, Zenon DEF n, decoded
<1>3. CASE sub.codec = "rlex" /\ Rlex(sub)
  <2> DEFINE n == sub.w * sub.h
  <2>1. SubcodecPixels(sub) = DecodeRlex(sub.data, n)
    BY <1>3 DEF SubcodecPixels
  <2>2. /\ IsRlex(sub.palette, sub.suites) /\ n \in Nat
        /\ sub.data = RlexCode(sub.palette, sub.suites)
        /\ sub.want = RlexPixels(sub.palette, sub.suites, n)
    BY <1>3, Zenon DEF Rlex
  <2> DEFINE palette == sub.palette
             suites == sub.suites
             decoded == DecodeRlex(RlexCode(palette, suites), n)
  <2> HIDE DEF n, palette, suites
  <2>3. decoded.ok /\ decoded.out = RlexPixels(palette, suites, n)
    BY <2>2, RlexDecoded DEF palette, suites
  <2> HIDE DEF decoded
  <2> QED BY <2>1, <2>2, <2>3, Zenon DEF decoded, palette, suites
<1>4. CASE sub.codec = "nscodec" /\ Nsc(sub)
  BY <1>4 DEF Nsc
<1> QED BY <1>1, <1>2, <1>3, <1>4

LEMMA SubcodecPaint ==
  ASSUME PaintInv, NEW sub \in Subcodecs, Subcodec(sub)
  PROVE  PaintInv'
PROOF
<1> DEFINE decoded == SubcodecPixels(sub)
<1>1. decoded.ok /\ decoded.out = sub.want
  BY SubcodecDecoded, Zenon
<1>2. /\ pc = "subcodecs" /\ pc' = "compose"
      /\ picture' = PaintAt(picture, message.w, sub.x, sub.y, sub.w, sub.want)
      /\ tile' = IF reading /\ decoded.ok
                 THEN PaintAt(tile, message.w, sub.x, sub.y, sub.w, decoded.out) ELSE tile
      /\ reading' = (reading /\ decoded.ok)
      /\ UNCHANGED <<glyph_cache, message, band, server, damaged, agreed, sound>>
  BY Zenon DEF Subcodec, contextVars
<1> HIDE DEF decoded
<1>3. (sound => reading) /\ (reading \/ damaged) /\ (sound => tile = picture)
  BY <1>2 DEF PaintInv, TileAgrees
<1>4. PaintTypes'
  BY <1>2 DEF PaintInv, PaintTypes
<1>5. GlyphsAgree'
  BY <1>2 DEF PaintInv, GlyphsAgree
<1>6. sound' => tile' = picture'
  <2> SUFFICES ASSUME sound' PROVE tile' = picture'
    OBVIOUS
  <2>1. sound /\ reading /\ tile = picture
    BY <1>2, <1>3
  <2> QED BY <1>1, <1>2, <2>1, Zenon
<1>7. TileAgrees'
  BY <1>1, <1>2, <1>3, <1>6 DEF TileAgrees
<1> QED BY <1>4, <1>5, <1>7 DEF PaintInv

LEMMA ComposePaint ==
  ASSUME ClearInv, PaintInv, Compose
  PROVE  PaintInv'
PROOF
<1> DEFINE g == message.glyph
<1>1. /\ pc \in {"subcodecs", "compose"} /\ pc' = IF reading THEN "painted" ELSE "failed"
      /\ IF reading /\ g # NoGlyph THEN StoreGlyph(g) ELSE UNCHANGED glyph_cache
      /\ server' = IF g = NoGlyph THEN server ELSE [server EXCEPT !.glyphs[g] = picture]
      /\ agreed' = [agreed EXCEPT !.glyphs = IF g # NoGlyph /\ sound
                                            THEN @ \cup {g} ELSE @ \ {g}]
      /\ UNCHANGED <<message, band, reading, tile, picture, damaged, sound>>
  BY Zenon DEF Compose
<1>0. PaintTypes /\ GlyphsAgree /\ TileAgrees /\ CacheTypes
  BY DEF ClearInv, PaintInv
<1>2. (sound => reading) /\ (reading \/ damaged) /\ (sound => tile = picture)
  BY <1>0, <1>1 DEF TileAgrees
<1>3. /\ server'.vbars = server.vbars
      /\ server'.glyphs = IF g = NoGlyph THEN server.glyphs
                          ELSE [server.glyphs EXCEPT ![g] = picture]
  BY <1>0, <1>1 DEF CacheTypes, ServerFields
<1>4. agreed'.glyphs = IF g # NoGlyph /\ sound THEN agreed.glyphs \cup {g}
                       ELSE agreed.glyphs \ {g}
  BY <1>0, <1>1 DEF CacheTypes
<1>5. glyph_cache' = IF reading /\ g # NoGlyph THEN [glyph_cache EXCEPT ![g] = tile]
                     ELSE glyph_cache
  BY <1>1 DEF StoreGlyph
<1>6. g \in GlyphIds \cup {NoGlyph}
  BY <1>0 DEF PaintTypes
<1>7. PaintTypes'
  BY <1>0, <1>1, <1>3, <1>4, <1>5, <1>6 DEF PaintTypes
<1>8. ASSUME NEW f \in agreed'.glyphs PROVE glyph_cache'[f] = server'.glyphs[f]
  <2> HIDE DEF g
  <2>1. CASE f = g
    <3>1. NoGlyph \notin GlyphIds
      BY ClearAssumption
    <3>2. g # NoGlyph /\ sound
      BY <1>0, <1>4, <1>6, <1>8, <2>1, <3>1 DEF PaintTypes
    <3> QED BY <1>0, <1>2, <1>3, <1>5, <1>6, <2>1, <3>2 DEF PaintTypes
  <2>2. CASE f # g
    <3>1. f \in agreed.glyphs
      BY <1>4, <1>8, <2>2
    <3>2. glyph_cache[f] = server.glyphs[f] /\ f \in GlyphIds
      BY <1>0, <3>1 DEF GlyphsAgree, PaintTypes
    <3> QED BY <1>0, <1>3, <1>5, <2>2, <3>2 DEF PaintTypes
  <2> QED BY <2>1, <2>2
<1>9. GlyphsAgree'
  BY <1>8 DEF GlyphsAgree
<1>10. TileAgrees'
  BY <1>1, <1>2 DEF TileAgrees
<1> QED BY <1>7, <1>9, <1>10 DEF PaintInv

LEMMA PaintStep == ClearInv /\ PaintInv /\ [Next]_clearVars => PaintInv'
PROOF
<1> SUFFICES ASSUME ClearInv, PaintInv, [Next]_clearVars PROVE PaintInv'
  OBVIOUS
<1>1. ASSUME NEW m \in Headers, NotDecoded(m) \/ SequenceGap(m) PROVE PaintInv'
  <2>1. Encode(m) /\ AfterHeader(m) /\ LoseMessage(m)
    BY <1>1 DEF NotDecoded, SequenceGap
  <2>2. /\ glyph_cache' = glyph_cache /\ band' = band /\ agreed' = agreed
        /\ ~sound' /\ damaged'
    BY <2>1 DEF LoseMessage, contextVars
  <2> QED BY <2>1, <2>2, HeaderPaint
<1>2. ASSUME NEW m \in Headers, BeginMessage(m) PROVE PaintInv'
  <2>1. /\ Encode(m) /\ AfterHeader(m) /\ reading'
        /\ glyph_cache' = glyph_cache /\ band' = band
        /\ agreed' = IF m.reset THEN NoneAgreed ELSE agreed
    BY <1>2 DEF BeginMessage
  <2>2. agreed'.glyphs = agreed.glyphs
    BY <2>1 DEF NoneAgreed
  <2> QED BY <2>1, <2>2, HeaderPaint
<1>3. CASE GlyphHit
  BY <1>3, GlyphHitPaint
<1>4. ASSUME NEW runs \in Residuals, Residual(runs) PROVE PaintInv'
  BY <1>4, ResidualPaint
<1>5. ASSUME NEW b \in Bands, BeginBand(b) PROVE PaintInv'
  <2>1. /\ b.y_start <= b.y_end /\ band' = b
        /\ UNCHANGED <<glyph_cache, pc, message, reading, tile, server, picture, damaged,
                       agreed, sound>>
        /\ pc = "bands"
    BY <1>5 DEF BeginBand, contextVars
  <2>2. band' \in BandHeaders
    BY <2>1, ClearAssumption DEF BandHeaders
  <2> QED BY <2>1, <2>2 DEF PaintInv, PaintTypes, GlyphsAgree, TileAgrees
<1>6. ASSUME NEW i \in VBarIndex, VBarHit(i) PROVE PaintInv'
  BY <1>6, VBarHitPaint
<1>7. ASSUME NEW i \in ShortVBarIndex, NEW offset \in Offsets, ShortHit(i, offset)
      PROVE  PaintInv'
  BY <1>7, ShortHitPaint
<1>8. ASSUME NEW v \in ShortVBars, ShortMiss(v.offset, v.pixels) PROVE PaintInv'
  <2>1. v.offset \in Nat /\ v.pixels \in Seq(Pixel)
    BY ClearAssumption
  <2> QED BY <1>8, <2>1, ShortMissPaint
<1>9. CASE EndBands
  <2>1. /\ UNCHANGED <<glyph_cache, message, band, reading, tile, server, picture, damaged,
                       agreed, sound>>
        /\ pc = "bands" /\ pc' = "subcodecs"
    BY <1>9 DEF EndBands, contextVars
  <2> QED BY <2>1 DEF PaintInv, PaintTypes, GlyphsAgree, TileAgrees
<1>10. ASSUME NEW sub \in Subcodecs, Subcodec(sub) PROVE PaintInv'
  BY <1>10, SubcodecPaint
<1>11. CASE Unreadable
  <2>1. /\ UNCHANGED <<glyph_cache, pc, message, band, tile, server, picture, agreed>>
        /\ pc \in {"residual", "bands", "subcodecs"} /\ damaged' /\ ~sound'
    BY <1>11 DEF Unreadable, contextVars
  <2> QED BY <2>1 DEF PaintInv, PaintTypes, GlyphsAgree, TileAgrees
<1>12. CASE Compose
  BY <1>12, ComposePaint
<1>13. CASE Return
  <2>1. /\ UNCHANGED <<glyph_cache, server, agreed>>
        /\ pc' = "idle" /\ message' = NoMessage /\ band' = NoBand
    BY <1>13 DEF Return, contextVars
  <2>2. NoBand \in BandHeaders
    BY DEF NoBand, BandHeaders, Black, Pixel, Byte
  <2> QED BY <2>1, <2>2 DEF PaintInv, PaintTypes, GlyphsAgree, TileAgrees, NoMessage
<1>14. CASE UNCHANGED clearVars
  <2>1. UNCHANGED <<glyph_cache, pc, message, band, reading, tile, server, picture, damaged,
                    agreed, sound>>
    BY <1>14 DEF clearVars, contextVars
  <2> QED BY <2>1 DEF PaintInv, PaintTypes, GlyphsAgree, TileAgrees
<1> QED BY <1>1, <1>2, <1>3, <1>4, <1>5, <1>6, <1>7, <1>8, <1>9, <1>10, <1>11, <1>12,
           <1>13, <1>14, Zenon DEF Next

LEMMA PaintInvariant == Spec => [](ClearInv /\ PaintInv)
PROOF
<1>1. Init => ClearInv /\ PaintInv
  BY ClearInitInv, PaintInit
<1>2. ClearInv /\ PaintInv /\ [Next]_clearVars => (ClearInv /\ PaintInv)'
  BY ClearStepInv, PaintStep
<1> QED BY <1>1, <1>2, PTL DEF Spec

(* For any layers of any messages, decompress composes what the server      *)
(* meant, as long as the message refers to what both have cached.           *)
THEOREM PaintsAsComposed == Spec => []PaintsWhatWasSent
PROOF
<1>1. PaintInv => PaintsWhatWasSent
  BY DEF PaintInv, TileAgrees, PaintsWhatWasSent
<1> QED BY <1>1, PaintInvariant, PTL

(* Only a damaged message, or a glyph the client was never sent whole, ends *)
(* a call of decompress with an error: a cache miss never does.             *)
THEOREM MissesStayHarmless == Spec => MissesAreNotFatal
PROOF
<1> DEFINE Harmless == pc' = "failed" /\ pc # "failed" =>
                         damaged \/ (pc = "hit" /\ message.glyph \notin agreed.glyphs)
<1>1. ASSUME ClearInv, PaintInv, Next PROVE Harmless
  <2> SUFFICES ASSUME pc' = "failed", pc # "failed"
               PROVE  damaged \/ (pc = "hit" /\ message.glyph \notin agreed.glyphs)
    OBVIOUS
  <2>1. CASE GlyphHit
    <3> DEFINE g == message.glyph
               n == message.w * message.h
    <3>1. pc = "hit" /\ ~ (reading /\ GlyphFits(glyph_cache[g]))
      BY <2>1 DEF GlyphHit
    <3>2. /\ reading \/ damaged
          /\ n \in Nat \ {0} /\ Len(server.glyphs[g]) >= n
          /\ g \in agreed.glyphs => glyph_cache[g] = server.glyphs[g]
      BY <1>1, <3>1 DEF PaintInv, TileAgrees, GlyphsAgree
    <3>3. ASSUME g \in agreed.glyphs PROVE GlyphFits(glyph_cache[g])
      <4> DEFINE e == server.glyphs[g]
      <4>1. e # <<>>
        <5>1. Len(<<>>) = 0
          OBVIOUS
        <5> HIDE DEF e, n
        <5>2. e = <<>> => Len(e) = 0
          BY <5>1
        <5> QED BY <3>2, <5>2 DEF e
      <4> QED BY <3>2, <3>3, <4>1 DEF GlyphFits
    <3> QED BY <3>1, <3>2, <3>3
  <2>2. CASE Compose
    <3>1. pc \in {"subcodecs", "compose"} /\ ~reading
      BY <2>2 DEF Compose
    <3> QED BY <1>1, <3>1 DEF PaintInv, TileAgrees
  <2>3. ASSUME NEW m \in Headers, NotDecoded(m) \/ SequenceGap(m) \/ BeginMessage(m)
        PROVE  FALSE
    BY <2>3 DEF NotDecoded, SequenceGap, BeginMessage, AfterHeader
  <2>4. ASSUME NEW runs \in Residuals, Residual(runs) PROVE FALSE
    BY <2>4 DEF Residual
  <2>5. ASSUME NEW b \in Bands, BeginBand(b) PROVE FALSE
    BY <2>5 DEF BeginBand
  <2>6. ASSUME NEW i \in VBarIndex, VBarHit(i) PROVE FALSE
    BY <2>6 DEF VBarHit, Column
  <2>7. ASSUME NEW i \in ShortVBarIndex, NEW offset \in Offsets, ShortHit(i, offset) PROVE FALSE
    BY <2>7 DEF ShortHit, Column
  <2>8. ASSUME NEW v \in ShortVBars, ShortMiss(v.offset, v.pixels) PROVE FALSE
    BY <2>8 DEF ShortMiss, Column
  <2>9. ASSUME NEW sub \in Subcodecs, Subcodec(sub) PROVE FALSE
    BY <2>9 DEF Subcodec
  <2>10. CASE EndBands \/ Unreadable \/ Return
    BY <2>10 DEF EndBands, Unreadable, Return
  <2> QED BY <1>1, <2>1, <2>2, <2>3, <2>4, <2>5, <2>6, <2>7, <2>8, <2>9, <2>10, Zenon DEF Next
<1>2. ClearInv /\ PaintInv /\ [Next]_clearVars => [Harmless]_clearVars
  <2> HIDE DEF Harmless
  <2> QED BY <1>1
<1> QED BY <1>2, PaintInvariant, PTL DEF Spec, MissesAreNotFatal

=============================================================================
