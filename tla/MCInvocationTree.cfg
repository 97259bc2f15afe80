\* Counters of three bits: seven calls fit, eight do not.
CONSTANTS
    c1 = c1
    c2 = c2
    Contract = c1
    NotAContractFn = NotAContractFn
    Width = 8
    Levels <- MCLevels
    Transactions <- MCTransactions
SPECIFICATION TreeSpec
INVARIANTS CountMatchesPositions EveryNodePaid
