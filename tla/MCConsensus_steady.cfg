\* No crash, no churn: what a healthy node achieves.
CONSTANTS
    SlotsPerEpoch = 2
    MaxSlot = 5
    Validators <- TwoValidators
    Bootstrapped <- TwoValidators
    Churners <- NoValidators
    Txs <- TwoTxs
    InvalidTxs <- NoTxs
    MaxBlockTxs = 2
    t1 = t1
    t2 = t2
SPECIFICATION SteadySpec
INVARIANTS JustifiedByTwoThirds
PROPERTIES EveryEpochFinalized EveryTxIncluded
