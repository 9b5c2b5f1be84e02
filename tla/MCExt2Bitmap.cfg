CONSTANTS
    Groups = 2
    PerGroup = 2
    MaxCrashes = 2
SPECIFICATION Spec
INVARIANTS HeldIsMarked CleanIsConsistent NoPanic
CHECK_DEADLOCK FALSE
