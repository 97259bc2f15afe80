\* Two places, a key ring for each way a call can be short, two ledgers, two
\* networks, one recording, three calls.
CONSTANTS
    p1 = p1
    p2 = p2
    here = here
    there = there
    Places = {p1, p2}
    Addresses <- MCAddresses
    Storage <- MCStorage
    Source = "source"
    Needs <- MCNeeds
    Keyrings <- MCKeyrings
    Nets = {here, there}
    Here = here
    Void = Void
    NotInitialized = NotInitialized
    MaxLedger = 2
    MaxDraws = 1
    MaxCalls = 3
SPECIFICATION Spec
SYMMETRY Symmetry
INVARIANTS SignedOverItself SignedForItsAccount AuthorizedInOneCall
CHECK_DEADLOCK FALSE
