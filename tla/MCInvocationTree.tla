-------------------------- MODULE MCInvocationTree --------------------------
(***************************************************************************)
(* Trees of invocations of depth up to two for InvocationTree.             *)
(***************************************************************************)
EXTENDS InvocationTree, SequencesExt

CONSTANTS c1, c2

Node(contracts, subs) == [contract : contracts, sub : subs]

Leaves == Node({c1, c2, NotAContractFn}, {<<>>})
Depth1 == Node({c1, c2}, SeqOf(Node({c1, NotAContractFn}, {<<>>}), 2))
Depth2 == Node({c1, NotAContractFn}, SeqOf(Depth1, 2))

MCLevels == <<Leaves, Depth1, Depth2>>

\* Seven calls in one tree.
Leaf == [contract |-> c1, sub |-> <<>>]
Full == [contract |-> c1, sub |-> <<[contract |-> c1, sub |-> <<Leaf, Leaf>>],
                                    [contract |-> c1, sub |-> <<Leaf, Leaf>>]>>]

\* One deep tree; up to two operations with up to two entries each; two deep
\* trees in one operation, or in two, or beside a leaf: 14 and 8 calls.
MCTransactions ==
    {<<<<tree>>>> : tree \in Depth2}
    \cup SeqOf(SeqOf(Leaves, 2), 2)
    \cup {<<<<Full, Full>>>>, <<<<Full>>, <<Full>>>>, <<<<Full, Leaf>>>>}
=============================================================================
