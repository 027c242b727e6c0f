\* Two orders of any type, a pool with room for two, and two blocks; the process
\* stops, or a record is deleted, twice.
CONSTANTS
    None = None
    MaxPool = 2
    MaxPerAccount = 1
    MaxNonceGap = 3
    Book <- MCBook
    Unknown = "nobody"
    Pool = "P"
    Keys = {"A"}
    PeerKeys = {"C"}
    Amounts <- MCAmounts
    Fees = {"slow", "urgent"}
    Nonces = {3, 4}
    MaxOrders = 2
    MaxBlocks = 2
    MaxFaults = 2
SPECIFICATION Spec
CHECK_DEADLOCK FALSE
INVARIANTS PassesOn ConfirmNeverStuck IndexTrue
