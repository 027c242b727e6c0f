\* Three blocks of either shape, with forks and equal hashes, two maintenance
\* operations and a crash.
CONSTANTS
    None = None
    GasLimit = 2
    MinFee = 16
    TxCounts = {0, 2, 3}
    MaxSlot = 1
    Times = {0}
    MaxHashes = 3
    MaxUpdates = 2
    MaxCrashes = 1
SPECIFICATION Spec
CHECK_DEADLOCK FALSE
INVARIANTS TypeOK IndexSound HeightsFilled PlanSwitches BuiltIsValid FeeBounded
