------------------------------- MODULE MCZgfx -------------------------------
(***************************************************************************)
(* Messages for ZgfxStream: each row of the token table once behind other  *)
(* tokens, and short series of tokens that reach back as far as a history  *)
(* of three bytes does, or too far.                                        *)
(***************************************************************************)
EXTENDS ZgfxStream

AllBytes == 0 .. 255

Lit(row, byte) == [kind |-> "literal", row |-> row, byte |-> byte]
Repeat(d, n) == [kind |-> "match", distance |-> d, count |-> n]
Run(bytes) == [kind |-> "run", bytes |-> bytes]
LongRow == Row(1, 0, 8, FALSE, 0)
ShortRow == Row(5, 25, 0, FALSE, 1)

(* The last distance of each row of matches, with a length of its own; and  *)
(* each byte that has a code.                                               *)
EachRow ==
  {Repeat(row.base + 2^row.bits - 1, row.bits * 16) : row \in {r \in TokenTable : r.match}}
  \cup {Lit(row, row.base) : row \in {r \in TokenTable : ~r.match}}

Few == {Lit(LongRow, 0), Lit(ShortRow, 1), Repeat(1, 3), Repeat(3, 4), Repeat(4, 8),
        Run(<<>>), Run(<<1, 0>>)}

Noise(bits) == [kind |-> "noise", bits |-> bits]

(* A code of no row, and a length of more than fifteen bits.                *)
NoTokens == {Noise(<<1, 0, 1, 1, 1, 1, 1, 1, 1>>),
             Noise(CodeOf(RowOf(1), 1) \o [k \in 1 .. 15 |-> 1])}

Stream1(tokens) == [plain |-> FALSE, tokens |-> tokens]
Plain(bytes) == [plain |-> TRUE, bytes |-> bytes]

SomeMessages ==
  {<<Stream1(<<Lit(LongRow, 255), t>>)>> : t \in EachRow}
  \cup {<<Stream1(<<t, u>>)>> : t, u \in Few}
  \cup {<<Stream1(<<Lit(ShortRow, 1), t>>)>> : t \in NoTokens}
  \cup {<<Stream1(<<t>>), Stream1(<<u>>)>> : t, u \in {Lit(ShortRow, 1), Repeat(2, 3)}}
  \cup {<<Plain(<<0, 1, 1>>), Stream1(<<Repeat(2, 5), Run(<<0>>)>>)>>, <<Plain(<<>>)>>,
        <<Stream1(<<>>)>>}
=============================================================================
