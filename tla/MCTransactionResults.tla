------------------------ MODULE MCTransactionResults ------------------------
(***************************************************************************)
(* Small instances of TransactionResults for TLC.                          *)
(***************************************************************************)
EXTENDS TransactionResults

CONSTANTS c1, c2, v1, v2, e1, x1, x2

MCEvents == {<<>>, <<e1>>}
=============================================================================
