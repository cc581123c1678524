------------------------------- MODULE MCTile -------------------------------
(***************************************************************************)
(* Tiles of 8 by 8 samples, and three qualities.                           *)
(***************************************************************************)
EXTENDS ProgressiveTile

Plane(Value(_, _)) == Eager([y \in 1 .. Edge |-> Eager([x \in 1 .. Edge |-> Value(x, y)])])
Flat(v) == Plane(LAMBDA x, y : v)

(* An edge, and a dark line with a bright dot; samples are 32 times a       *)
(* colour's distance from the middle.                                       *)
TwoPictures ==
  {[y |-> Plane(LAMBDA x, y : IF x + y > 9 THEN 2016 ELSE -1009),
    cb |-> Flat(300), cr |-> Plane(LAMBDA x, y : IF x > 5 THEN -400 ELSE 37)],
   [y |-> Plane(LAMBDA x, y : IF x = 2 /\ y = 7 THEN 3100
                              ELSE IF y = 6 THEN -1900 ELSE 500),
    cb |-> Flat(-64), cr |-> Flat(0)]}

(* Every band at bit position 1, at 4, and one at 0.                        *)
ThreeQuants == <<<<17, 17, 17, 17, 17>>, <<68, 68, 68, 68, 68>>, <<17, 17, 17, 17, 16>>>>

(* Some bits are left out at either quality, in Cb always the same ones.    *)
Rough == <<34, 34, 50, 82, 68>>
Fine == <<0, 1, 16, 34, 35>>
TwoProgs == <<[y |-> Rough, cb |-> Rough, cr |-> Rough],
              [y |-> Fine, cb |-> Rough, cr |-> Fine]>>

(* Two qualities that leave bits out, the full one, the full one but for a  *)
(* coarse Cb, and two that cannot be used.                                  *)
Header(y, cb, quality) ==
  [quant |-> [c \in Components |-> IF c = "cb" THEN cb ELSE y], quality |-> quality]
FewHeaders == {Header(1, 1, 1), Header(1, 1, 2), Header(1, 1, Full), Header(1, 2, Full),
               Header(3, 1, Full), Header(1, 4, Full)}
=============================================================================
