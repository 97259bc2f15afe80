--------------------------- MODULE MCAccountSetup ---------------------------
(***************************************************************************)
(* Small instances of AccountSetup for TLC.                                *)
(***************************************************************************)
EXTENDS AccountSetup, TLC

CONSTANTS a1, a2, k1, k2

MCThresholds == {[low |-> 0, med |-> 1, high |-> 2]}

Symmetry == Permutations(Admins) \cup Permutations(Keys)
=============================================================================
