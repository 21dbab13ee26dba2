SPECIFICATION Spec
CONSTANTS
    Trees <- MCTrees
    TextValues <- MCTexts
    Files <- MCFiles
INVARIANTS
    CacheFresh
    StopIsSafe
    FileRoundTrip
    AssignableRespected
    OneMemberSelected
PROPERTIES
    ImplementsCache
CHECK_DEADLOCK FALSE
