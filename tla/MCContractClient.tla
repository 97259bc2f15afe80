-------------------------- MODULE MCContractClient --------------------------
(***************************************************************************)
(* Small instances of ContractClient for TLC.                              *)
(***************************************************************************)
EXTENDS ContractClient, TLC

CONSTANTS t1, t2, token, a

\* No guard, or a budget of two transactions: a deployment uses both.
MCGuards == {<<>>, <<[scope |-> AnyCall, remaining |-> 2]>>}

\* One authorized call of the token contract.
MCTokenGuard == {<<[scope |-> token, remaining |-> 1]>>}

\* A budget of two transactions: a deployment that fails and is tried again runs
\* out of it half way.
MCBudget == {<<[scope |-> AnyCall, remaining |-> 2]>>}

\* One call each, and a second for one of them.
MCOneCall == [t \in Tasks |-> 1]
MCRetry == (t1 :> 2) @@ (t2 :> 1)
=============================================================================
