\* Two tasks, one of which makes a second call, and a budget of two transactions.
CONSTANTS
    t1 = t1
    t2 = t2
    token = token
    Tasks = {t1, t2}
    ContractIds = {token}
    NoConfigs = NoConfigs
    a = a
    Args = {a}
    AnyCall = AnyCall
    InitialGuards <- MCBudget
    MaxRemaining = 2
    MaxCalls <- MCRetry
SPECIFICATION FairSpec
INVARIANTS TypeOK CreateFollowsUpload ConfigsNameAContract LedgerWithinBudget OneWinnerPerSequence
PROPERTIES KeepsPromise CallsReturn
CHECK_DEADLOCK FALSE
