------------------------------ MODULE MCSignIn ------------------------------
(***************************************************************************)
(* Two processes for SignIn.                                               *)
(***************************************************************************)
EXTENDS SignIn
CONSTANTS first, second, work, home, workFile, homeFile
TwoRuns == {first, second}
TwoItems == {work, home}
TwoFiles == {workFile, homeFile}
EachItsOwn == [i \in TwoItems |-> IF i = work THEN workFile ELSE homeFile]
=============================================================================
