\* Two runs, of any programs.
CONSTANTS
    Runs = {r1, r2}
    Keys = {k1, k2}
    Sources <- MCSources
    Natives <- MCNatives
    Limit = 2
    Token = Token
    AnyCall = AnyCall
    MaxRemaining = 3
    None = None
SPECIFICATION Spec
SYMMETRY Symmetry
INVARIANTS TypeOK BudgetsFit DeploysItsOwn EachStepTookEffect
CHECK_DEADLOCK FALSE
