---------------------------- MODULE MCCodeCache ----------------------------
(***************************************************************************)
(* CodeCache on three guest addresses with a client that inserts and       *)
(* touches in any order.                                                   *)
(***************************************************************************)
EXTENDS CodeCache

CONSTANTS p1, p2, p3, b1, b2, b3, b4

MCPc == {p1, p2, p3}
MCBuffer == {b1, b2, b3, b4}
MCCodeLens == 1..3
=============================================================================
