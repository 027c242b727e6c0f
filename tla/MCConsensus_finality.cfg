\* Crashes in the finalizer: three epochs, so that an epoch can be left out.
CONSTANTS
    SlotsPerEpoch = 2
    MaxSlot = 5
    Validators <- OneValidator
    Bootstrapped <- OneValidator
    Churners <- NoValidators
    Txs <- NoTxs
    InvalidTxs <- NoTxs
    MaxBlockTxs = 1
    t1 = t1
    t2 = t2
SPECIFICATION Spec
INVARIANTS ClaimsBacked
PROPERTIES RefinesFinality
