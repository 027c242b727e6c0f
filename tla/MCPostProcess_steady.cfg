\* Every transaction succeeds; a transaction may be in two blocks.
CONSTANTS
    Wallets <- WalletSet
    Pool = "pool"
    Burn = "burn"
    NoWallet = "none"
    Users <- UserSet
    Owner <- OwnerMap
    Txs <- TxSet
    Tx <- TxMap
    Recorded <- TxSet
    Bodies <- SteadyBodies
    Opening <- Funds
    MaxBlocks = 4
    MaxRuns = 3
    Targets = TRUE
    Crashes = FALSE
SPECIFICATION SteadySpec
CHECK_DEADLOCK FALSE
INVARIANTS LedgerAsExpected
PROPERTIES FoundIsProcessed
