SPECIFICATION MCSpec
CONSTANTS
    Order <- MCOrder
    Bools = {"B"}
    Texts = {"1", "12"}
    TornWrites = FALSE
    StillReferenced = FALSE
    Configs = {"old", "new"}
    Missing = "missing"
    Torn = "torn"
INVARIANTS
    SyncTypeOK
    SyncComplete
    Recoverable
