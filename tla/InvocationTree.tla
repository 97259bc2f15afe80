--------------------------- MODULE InvocationTree ---------------------------
(***************************************************************************)
(* How a contract guard counts (crates/soroban-rs/src/guard.rs:74-112):    *)
(* the contract-function nodes of its contract in the trees of invocations *)
(* that the authorization entries of a transaction carry, in u16           *)
(* arithmetic.                                                             *)
(*                                                                         *)
(* An invocation is [contract, sub]: the contract a ContractFn node calls, *)
(* or NotAContractFn for a node that creates a contract, and its           *)
(* sub-invocations.  A transaction is a sequence of operations, each the   *)
(* sequence of root invocations of its entries; an operation other than    *)
(* InvokeHostFunction carries none.  The invocations come in levels, since *)
(* what the code counts over is a finite tree.                             *)
(*                                                                         *)
(* Additions that leave u16 panic in a build with overflow checks (the dev *)
(* profile) and wrap in one without (the release profile); the workspace   *)
(* sets neither, so both builds are modelled.                              *)
(***************************************************************************)
EXTENDS Integers, Sequences, FiniteSets

CONSTANTS
    Contract,       \* contract_id of the guard
    NotAContractFn,
    Width,          \* 2^16
    Levels,         \* sets of invocations, each with sub-invocations of the sets before it
    Transactions    \* the transactions presented to the guard

Invocations == UNION {Levels[n] : n \in DOMAIN Levels}
Below(n) == UNION {Levels[m] : m \in 1..(n - 1)}

ASSUME TreeAssumption ==
    /\ Width \in Nat /\ Width >= 2
    /\ Levels \in Seq(SUBSET Invocations)
    /\ \A n \in DOMAIN Levels : \A node \in Levels[n] : node.sub \in Seq(Below(n))
    /\ Transactions \subseteq Seq(Seq(Invocations))

VARIABLES
    overflowChecks, \* the build profile
    remaining,      \* AuthorizedCallsForContract.remaining
    presented,      \* the transaction presented last
    decision,       \* what became of it
    \* Auxiliary
    granted,        \* the guard's first budget
    authorized      \* how many calls the authorized transactions made

treeVars == <<overflowChecks, remaining, presented, decision, granted, authorized>>

Panic == -1

\* a + b in u16
Plus(a, b) ==
    CASE Panic \in {a, b} \/ (overflowChecks /\ a + b >= Width) -> Panic
      [] OTHER -> (a + b) % Width

\* first + addends[1] + addends[2] + ..., one after the other
Total(first, addends) ==
    LET total[n \in 0..Len(addends)] ==
            IF n = 0 THEN first ELSE Plus(total[n - 1], addends[n])
    IN  total[Len(addends)]

IsCall(node) == node.contract = Contract

Own(node) == IF IsCall(node) THEN 1 ELSE 0

\* Fault: only the root and its children are visited.
RootAndChildren(node) == Total(Own(node), [i \in DOMAIN node.sub |-> Own(node.sub[i])])

CountAuthorizedCalls(node) ==
    LET count[n \in Invocations] ==
            Total(Own(n), [i \in DOMAIN n.sub |-> count[n.sub[i]]])
    IN  count[node]

\* What the entries of an operation add.
Counts(op) == [j \in DOMAIN op |-> CountAuthorizedCalls(op[j])]

\* Fault: the entries of the first operation only.
FirstOperationCalls(t) == IF t = <<>> THEN 0 ELSE Total(0, Counts(t[1]))

ExtractContractCalls(t) ==
    LET calls[n \in 0..Len(t)] == IF n = 0 THEN 0 ELSE Total(calls[n - 1], Counts(t[n]))
    IN  calls[Len(t)]
-----------------------------------------------------------------------------
TreeInit ==
    /\ overflowChecks \in BOOLEAN
    /\ granted \in 0..(Width - 1)
    /\ remaining = granted
    /\ presented = <<>>
    /\ decision = "none"
    /\ authorized = 0

\* The caller presents a transaction for signing.
Present(t) ==
    /\ decision # "checking"
    /\ presented' = t
    /\ decision' = "checking"
    /\ UNCHANGED <<overflowChecks, remaining, granted, authorized>>

\* The reference: how many nodes of the transaction call the contract, counted
\* as a set of positions: <<>> is a root, and <<i, p>> is p in sub-invocation i.
Positions(node) ==
    LET positions[n \in Invocations] ==
            {p \in {<<>>} : IsCall(n)}
                \cup UNION {{<<i, p>> : p \in positions[n.sub[i]]} : i \in DOMAIN n.sub}
    IN  positions[node]

CallsOf(op) == UNION {{<<j, p>> : p \in Positions(op[j])} : j \in DOMAIN op}
CallPositions(t) == UNION {{<<n, p>> : p \in CallsOf(t[n])} : n \in DOMAIN t}
Calls(t) == Cardinality(CallPositions(t))

\* check, then update: both count again.  A panic unwinds out of check.
Decide ==
    LET calls == ExtractContractCalls(presented) IN
    /\ decision = "checking"
    /\ \/ calls = Panic /\ decision' = "panicked" /\ UNCHANGED <<remaining, authorized>>
       \/ /\ calls # Panic /\ ~(remaining >= calls /\ calls > 0)
          /\ decision' = "refused"
          /\ UNCHANGED <<remaining, authorized>>
       \/ /\ remaining >= calls /\ calls > 0
          /\ decision' = "authorized"
          /\ remaining' = remaining - calls
          /\ authorized' = authorized + Calls(presented)
    /\ UNCHANGED <<overflowChecks, presented, granted>>

TreeNext == Decide \/ \E t \in Transactions : Present(t)

TreeSpec == TreeInit /\ [][TreeNext]_treeVars
-----------------------------------------------------------------------------
\* The recursive count agrees with the number of nodes, wherever in the tree
\* and in whichever operation they are; past u16 it panics or wraps, it never
\* saturates or stops early.
CountMatchesPositions ==
    ExtractContractCalls(presented) =
        IF Calls(presented) < Width THEN Calls(presented)
        ELSE IF overflowChecks THEN Panic ELSE Calls(presented) % Width

\* The budget pays for every node of every authorized tree: with overflow
\* checks exactly, without them up to multiples of 2^16 (guard.rs:82 "visit all
\* nodes in the tree of invocations").
EveryNodePaid ==
    /\ remaining \in 0..granted
    /\ overflowChecks => granted - remaining = authorized
    /\ (authorized - (granted - remaining)) % Width = 0
=============================================================================
