\* Two transactions, before, after or around the upgrade.
CONSTANTS
    None = None
    c1 = c1
    c2 = c2
    v1 = v1
    v2 = v2
    e1 = e1
    x1 = x1
    x2 = x2
    Hash = Hash
    Void = Void
    Txs = {x1, x2}
    ContractIds = {c1, c2}
    Values = {v1, v2}
    Events <- MCEvents
SPECIFICATION ResultsSpec
INVARIANTS ResultsTypeOK ParserFindsReturn UpgradeChangesNoResult DecodersAgree
CHECK_DEADLOCK FALSE
