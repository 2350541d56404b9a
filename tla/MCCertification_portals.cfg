SPECIFICATION Spec
CONSTANTS
    States <- AllStates
    Runs = {r1, r2}
    r1 = r1
    r2 = r2
    MaxStarts = 2
    MaxEntries = 2
INVARIANTS
    TypeOK
    CompleteIsSafe
    UnfinishedIsListed
PROPERTY CompletedStays
SYMMETRY Alike
CHECK_DEADLOCK FALSE
