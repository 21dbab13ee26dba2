SPECIFICATION Spec
CONSTANTS
    Trees <- MCTrees
    TextValues <- MCTexts
    Files <- MCFiles
INVARIANTS
    LoadForgets
CHECK_DEADLOCK FALSE
