---------------------------- MODULE MCTransport -----------------------------
(***************************************************************************)
(* The messages of a small server: objects that nest, that hold a brace in *)
(* a string and a quote behind a backslash; packets whose body looks like  *)
(* filler and like a header.                                               *)
(***************************************************************************)
EXTENDS Transport
SmallObjects == { <<"{", "{", "}", "}">>,
                  <<"{", "\"", "}", "\"", "}">>,
                  <<"{", "\"", "\\", "\"", "}", "\"", "}">> }
SmallBodies == { <<"h">>, <<"h", "0", "v">> }
NulOrNothing == { <<>>, <<"0">> }
=============================================================================
