\* Two handles, up to two guards each of budget up to 2, envelopes that hold two
\* signatures.
CONSTANTS
    h1 = h1
    h2 = h2
    c1 = c1
    t0 = t0
    t2 = t2
    s1 = s1
    s2 = s2
    AnyCall = AnyCall
    Handles = {h1, h2}
    Contracts = {c1}
    Txs = {t0, t2}
    CallsIn <- MCCallsIn
    ConfigTxs = {t0}
    MaxRemaining = 2
    Signers = {s1, s2}
    SignerLists <- MCSignerLists
    MaxSignatures = 2
    Slots = {"slot"}
    Received <- MCReceived
    MaxGuards = 2
SPECIFICATION Spec
SYMMETRY Symmetry
VIEW MCView
INVARIANTS TypeOK BudgetConserved DrawBoundedByCopies SignaturesCollected
PROPERTIES DebitAllOrNone
CHECK_DEADLOCK FALSE
