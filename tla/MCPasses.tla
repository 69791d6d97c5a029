------------------------------- MODULE MCPasses -------------------------------
(***************************************************************************)
(* Instances of Passes, on words of four bits and narrow ops of two.  A    *)
(* block is three ops that may define values, over two literals, and an    *)
(* effect; the widths of its ALU ops are all in Widths.                    *)
(***************************************************************************)
EXTENDS Passes, Arith

CONSTANTS v1, v2, v3, Widths

MCVReg == {v1, v2, v3}
MCVRegSeq == <<v1, v2, v3>>
MCKind == [name : aluNames \cup readNames \cup effectNames, wide : BOOLEAN]
MCWorld == {0, 13}
OnlyWide == {TRUE}
OnlyNarrow == {FALSE}

DefinedBy(b) == {b[n].dst : n \in 1..Len(b)} \ {NoReg}

(* b and an op of one of the names over the values defined and literals.   *)
With(b, names, widths, args) ==
  {Append(b, [kind |-> [name |-> t, wide |-> w],
              dst |-> IF t \in effectNames THEN NoReg ELSE MCVRegSeq[Len(b) + 1],
              args |-> a]) : t \in names, w \in widths, a \in args}

Pairs(S) == {<<x, y>> : x \in S, y \in S}
Single(S) == {<<x>> : x \in S}

FirstOps ==
  With(<<>>, {"get"}, {TRUE}, {<<>>}) \cup With(<<>>, aluNames, Widths, {<<14, 1>>})

SecondOps(b) ==
  With(b, {"add", "shr"}, Widths, Pairs(DefinedBy(b) \cup {1}))
    \cup With(b, {"load"}, {TRUE}, Single(DefinedBy(b) \cup {14}))

ThirdOps(b) ==
  With(b, {"sub"}, Widths, Pairs(DefinedBy(b)))
    \cup With(b, {"load", "set"}, {TRUE}, Single(DefinedBy(b)))

Effects(b) ==
  With(b, {"store"}, {TRUE}, Pairs(DefinedBy(b)))
    \cup With(b, {"branch"}, {TRUE}, Single({1}))

MCBlocks ==
  LET two   == UNION {SecondOps(b) : b \in FirstOps}
      three == UNION {ThirdOps(b) : b \in two}
  IN  UNION {Effects(b) : b \in three}
=============================================================================
