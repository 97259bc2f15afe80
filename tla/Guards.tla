------------------------------- MODULE Guards -------------------------------
(***************************************************************************)
(* The guards of crates/soroban-rs/src/guard.rs and the two loops over an  *)
(* account's guard list in account.rs (check_guards, update_guards).       *)
(*                                                                         *)
(* A guard is [scope, remaining].  Guard::NumberOfAllowedCalls(n) has the  *)
(* scope AnyCall, Guard::AuthorizedCallsFor(c, n) has the contract c as    *)
(* its scope.  Of a transaction a guard reads one thing: the u16 count of  *)
(* contract-function invocations of its contract in the authorization      *)
(* entries of the operations.  CallsIn[tx][c] is that count;               *)
(* InvocationTree models how the code computes it.                         *)
(***************************************************************************)
EXTENDS Integers, Sequences

CONSTANTS
    Contracts,    \* contract ids
    AnyCall,      \* the scope of NumberOfAllowedCalls
    MaxRemaining, \* u16::MAX
    Txs,          \* transactions
    CallsIn       \* extract_contract_calls, per transaction and contract

ASSUME GuardsAssumption ==
    /\ AnyCall \notin Contracts
    /\ MaxRemaining \in Nat
    /\ CallsIn \in [Txs -> [Contracts -> 0..MaxRemaining]]

Guard == [scope : Contracts \cup {AnyCall}, remaining : 0..MaxRemaining]

\* What one use of the transaction takes from the guard's budget: a whole
\* transaction counts once, a contract's calls count each.
Cost(g, tx) == IF g.scope = AnyCall THEN 1 ELSE CallsIn[tx][g.scope]

(***************************************************************************)
(* Guard::check                                                            *)
(***************************************************************************)
\* Fault: a budget one short of the cost passes.
CheckSpentCounter(g, tx) == g.remaining >= Cost(g, tx) - 1

Check(g, tx) ==
    \/ g.scope = AnyCall /\ g.remaining > 0
    \/ /\ g.scope # AnyCall
       /\ g.remaining >= CallsIn[tx][g.scope]
       /\ CallsIn[tx][g.scope] > 0

(***************************************************************************)
(* Guard::update: takes the cost when the budget has it, else nothing.     *)
(***************************************************************************)
Update(g, tx) ==
    IF Cost(g, tx) > 0 /\ g.remaining >= Cost(g, tx)
    THEN [g EXCEPT !.remaining = @ - Cost(g, tx)]
    ELSE g

(***************************************************************************)
(* Account::check_guards and Account::update_guards                        *)
(***************************************************************************)
CheckGuards(gs, tx) == \A i \in DOMAIN gs : Check(gs[i], tx)

\* Fault: the guards are updated twice, the budget unseen.
UpdateGuardsTwice(gs, tx) ==
    [i \in DOMAIN gs |-> [gs[i] EXCEPT !.remaining = @ - 2 * Cost(gs[i], tx)]]

UpdateGuards(gs, tx) == [i \in DOMAIN gs |-> Update(gs[i], tx)]
=============================================================================
