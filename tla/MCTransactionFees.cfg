\* Up to three operations and three answers; what the sums meet is in MCMinFees.
CONSTANTS
    BaseFee = 2
    AuthFeeBuffer = 8
    U32 = 32
    U64 = 256
    MinFees <- MCMinFees
    OperationLimit = 2
    MaxOperations = 3
    MaxAnswers = 3
SPECIFICATION Spec
INVARIANTS FeeIsOfLatestAnswer ResourcesArePaid
CHECK_DEADLOCK FALSE
