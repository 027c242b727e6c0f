\* Two batches at two nodes, the second of which comes late.
CONSTANTS
    Nodes = {"n1", "n2"}
    Late = {"n2"}
    First = "n1"
    Senders = {"ann"}
    NoSender = NoSender
    NoNonce = NoNonce
    Book = {"ann", "bob", "pool"}
    Pool = "pool"
    Clients = {"one", "two"}
    ClientNode <- SteadyNodes
    Batch <- SteadyBatches
    Priority <- Score
    Opening <- SteadyOpening
    MaxPool = 6
    MaxPerAccount = 2
    MaxNonceGap = 1
    SettleFirst = FALSE
    MaxBlocks = 1
    MaxExpiries = 1
SPECIFICATION FairSpec
CHECK_DEADLOCK FALSE
INVARIANT NonceOnce
PROPERTIES GossipEnds HeardByAll
