----------------------------- MODULE MCAccount ------------------------------
(***************************************************************************)
(* A small instance of Account for TLC.                                    *)
(***************************************************************************)
EXTENDS Account, TLC

CONSTANTS h1, h2, c1, t0, t2, s1, s2

\* t0 calls no contract (a deployment, a payment), t2 calls c1 twice.
MCCallsIn == [tx \in Txs |-> [c \in {c1} |-> IF tx = t0 THEN 0 ELSE 2]]

\* No signer, and more than an envelope holds, for MaxSignatures = 2.
MCSignerLists == {<<>>, <<s1, s2, s2>>}

\* Half signed by somebody else, and not a transaction.
MCReceived == {[type |-> "Tx", tx |-> t2, signatures |-> <<s2>>],
               [type |-> "Other", tx |-> t0, signatures |-> <<>>]}

\* All but the result of the last call, which no action reads.
MCView == <<status, signers, guards, held, released, book, drawn, collected>>

Symmetry == Permutations(Handles)
=============================================================================
