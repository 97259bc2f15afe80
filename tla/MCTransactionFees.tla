-------------------------- MODULE MCTransactionFees --------------------------
(***************************************************************************)
(* A small instance of TransactionFees for TLC: a u32 of 5 bits and a u64 *)
(* of 8, a base fee of 2 and a buffer of 8, so that the sums reach and     *)
(* pass the narrow width at every count of operations.  The server's       *)
(* prices are signed numbers: no sum reaches the wide one.                 *)
(***************************************************************************)
EXTENDS TransactionFees

\* Nothing, prices around those at which the sums leave a u32, the largest i64.
MCMinFees == {0, 20, 28, 29, 127}
=============================================================================
