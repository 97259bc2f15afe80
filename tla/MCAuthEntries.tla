--------------------------- MODULE MCAuthEntries ----------------------------
(***************************************************************************)
(* Small instances of AuthEntries for TLC.                                 *)
(***************************************************************************)
EXTENDS AuthEntries, TLC

CONSTANTS c1, c2, k1, k2, k3

\* pay needs the smart account, mixed also the source, foreign somebody else.
MCNeeds == [pay |-> <<Smart>>, mixed |-> <<Source, Smart, Smart>>, foreign |-> <<Smart, Other>>]
MCCalls == {"pay", "mixed", "foreign"}

MCOps == {<<"pay">>, <<Plain, "pay", "mixed">>, <<"foreign">>}

\* Both signers, one of them, one twice, and one the account does not know.
MCSigners == {<<k1, k2>>, <<k1>>, <<k2, k2>>, <<k1, k2, k3>>, <<>>}

MCRequests == [ops : MCOps, signers : MCSigners, until : 1..2]

\* One of two, two of two, no threshold, and a list with a signer twice.
MCStorages == {[signers |-> <<k1, k2>>, threshold |-> 1], [signers |-> <<k1, k2>>, threshold |-> 2],
               [signers |-> <<k1, k2>>, threshold |-> 0], [signers |-> <<k1, k1>>, threshold |-> 2]}

Symmetry == Permutations(Clients)
=============================================================================
