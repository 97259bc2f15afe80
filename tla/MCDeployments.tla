---------------------------- MODULE MCDeployments ----------------------------
(***************************************************************************)
(* Small instances of Deployments for TLC.                                 *)
(***************************************************************************)
EXTENDS Deployments, TLC

CONSTANTS n1, n2, a1, h1, h2, plain, built, arg, salt

Symmetry == Permutations(Nets) \cup Permutations(Accounts) \cup Permutations(Handles)
=============================================================================
