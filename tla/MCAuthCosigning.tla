-------------------------- MODULE MCAuthCosigning ---------------------------
(***************************************************************************)
(* A small instance of AuthCosigning for TLC: an entry of a two-of-two     *)
(* account, one of an account anyone of two can sign for, and the source's.*)
(***************************************************************************)
EXTENDS AuthCosigning, TLC

CONSTANTS p1, p2, here, there

MCStorage == [both |-> [signers |-> <<1, 2>>, threshold |-> 2],
              either |-> [signers |-> <<2, 3>>, threshold |-> 1]]
MCAddresses == {"both", "either"}
MCNeeds == <<"both", "source", "either">>
MCKeyrings == {<<2, 1>>, <<1>>, <<2>>, <<3, 3>>}

Symmetry == Permutations(Places)
=============================================================================
