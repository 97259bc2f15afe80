\* Two tasks whose contract may be called once.
CONSTANTS
    t1 = t1
    t2 = t2
    token = token
    Tasks = {t1, t2}
    ContractIds = {token}
    NoConfigs = NoConfigs
    a = a
    Args = {a}
    AnyCall = AnyCall
    InitialGuards <- MCTokenGuard
    MaxRemaining = 2
    MaxCalls <- MCOneCall
SPECIFICATION Spec
INVARIANTS AuthorizedInvokeIsSigned
CHECK_DEADLOCK FALSE
