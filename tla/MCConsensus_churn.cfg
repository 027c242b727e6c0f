\* No crash: every validator churns, one transaction is poison, two exceed the gas limit.
CONSTANTS
    SlotsPerEpoch = 2
    MaxSlot = 5
    Validators <- TwoValidators
    Bootstrapped <- OneValidator
    Churners <- TwoValidators
    Txs <- TwoTxs
    InvalidTxs <- OneTx
    MaxBlockTxs = 1
    t1 = t1
    t2 = t2
SPECIFICATION SteadySpec
INVARIANTS NoDoubleInclusion
