SPECIFICATION LoaderSpec
CONSTANTS
    Paths = {"g", "g.a", "g.b", "c"}
    Parent <- MCParent
    Documents <- MCDocuments
    Invalid = {"bad"}
    Reads <- MCReads
    Top = Top
    None = None
    MaxJobs = 3
    MaxLost = 1
    MayCancel = TRUE
CONSTRAINT StartsAsWritten
CHECK_DEADLOCK FALSE
INVARIANTS
    
    
    RemovalsFirst
PROPERTIES
    Untouched
