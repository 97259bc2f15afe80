\* Two administrators, configurations of up to two signers: one key twice, a
\* signer added and removed, the other's signer removed.
CONSTANTS
    a1 = a1
    a2 = a2
    k1 = k1
    k2 = k2
    None = None
    Unset = Unset
    Admins = {a1, a2}
    Keys = {k1, k2}
    Weights = {0, 1}
    Thresholds <- MCThresholds
    BaseFee = 1
    MaxSigners = 2
SPECIFICATION Spec
SYMMETRY Symmetry
INVARIANTS TypeOK ConfigAppliedToWhatWasRead EntryIsOwn EnvelopePaysForOperations
CHECK_DEADLOCK FALSE
