\* Two runs of the bootstrap, three calls and a restart anywhere.
CONSTANTS
    Users = {"ann", "led", "shop"}
    Given <- Three
    Standard <- TwoTypes
    Others = {"savings"}
    MaxWallets = 2
    Profiles <- Runs
    Phrase = None
    None = None
    MaxBalance = 1
    MaxCalls = 3
    MaxRuns = 2
    MaxStops = 1
SPECIFICATION Spec
CHECK_DEADLOCK FALSE
INVARIANTS TypeOK IndexSound DamageConfined ValidatorsDense KeysFit
