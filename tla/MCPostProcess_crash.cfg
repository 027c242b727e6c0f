\* Refused movements and a process that stops between any two writes.
CONSTANTS
    Wallets <- WalletSet
    Pool = "pool"
    Burn = "burn"
    NoWallet = "none"
    Users <- UserSet
    Owner <- OwnerMap
    Txs <- TxSet
    Tx <- TxMap
    Recorded <- TxSet
    Bodies <- CrashBodies
    Opening <- Funds
    MaxBlocks = 4
    MaxRuns = 3
    Targets = FALSE
    Crashes = TRUE
SPECIFICATION Spec
CHECK_DEADLOCK FALSE
INVARIANTS MarksFollowMoney NoMoneyFromNothing ConfirmedPrefix
PROPERTIES SettledIsFinal FindsAll
