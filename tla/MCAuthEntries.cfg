\* Two clients of one call each, three ledgers, two nonces to draw.
CONSTANTS
    c1 = c1
    c2 = c2
    k1 = k1
    k2 = k2
    k3 = k3
    Clients = {c1, c2}
    Keys = {k1, k2, k3}
    Smart = Smart
    Other = Other
    Source = Source
    NotInitialized = NotInitialized
    Plain = Plain
    Void = Void
    Calls <- MCCalls
    Needs <- MCNeeds
    Requests <- MCRequests
    Storages <- MCStorages
    Nonces = {0, 1}
    MaxLedger = 3
    MaxCalls = 1
SPECIFICATION Spec
SYMMETRY Symmetry
INVARIANTS TypeOK EffectsAreApproved ReturnedStaysGood ReturnedIsComplete EnoughSignersPass
CHECK_DEADLOCK FALSE
