\* Two networks, one account, two Contract values, one contract without and one
\* with a constructor, four transactions.
CONSTANTS
    n1 = n1
    n2 = n2
    a1 = a1
    h1 = h1
    h2 = h2
    plain = plain
    built = built
    arg = arg
    salt = salt
    None = None
    Nets = {n1, n2}
    Accounts = {a1}
    Handles = {h1, h2}
    Wasms = {plain, built}
    Constructs = {built}
    Mentions = {built}
    Args = {arg}
    Salts = {salt}
    ExtendTo = 1
    MaxTxs = 4
SPECIFICATION Spec
SYMMETRY Symmetry
INVARIANTS NoEffectElsewhere DeployedIsAsConfigured PredictedIdsComeTrue
CHECK_DEADLOCK FALSE
