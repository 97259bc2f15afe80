\* Two tasks, one call each.
CONSTANTS
    t1 = t1
    t2 = t2
    token = token
    Tasks = {t1, t2}
    ContractIds = {token}
    NoConfigs = NoConfigs
    a = a
    Args = {a}
    AnyCall = AnyCall
    InitialGuards <- MCGuards
    MaxRemaining = 2
    MaxCalls <- MCOneCall
SPECIFICATION Spec
INVARIANTS SimulationErrorsStop
CHECK_DEADLOCK FALSE
