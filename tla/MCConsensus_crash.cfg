\* Crashes and a second validator that joins, leaves and returns: two epochs.
CONSTANTS
    SlotsPerEpoch = 2
    MaxSlot = 3
    Validators <- TwoValidators
    Bootstrapped <- OneValidator
    Churners <- SecondValidator
    Txs <- NoTxs
    InvalidTxs <- NoTxs
    MaxBlockTxs = 1
    t1 = t1
    t2 = t2
SPECIFICATION Spec
INVARIANTS ContiguousChain RecordsOnChain
PROPERTIES DecidedStays WedgedForever
