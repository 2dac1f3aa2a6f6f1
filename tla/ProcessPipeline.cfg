CONSTANTS
    c1 = c1
    c2 = c2
    Calls = {c1, c2}
    Attempts = 2
    MaxJobs = 1
    Faults <- MCFaults
SPECIFICATION Spec
INVARIANTS
    PendingIsBeingSent
    InsertedOnce
PROPERTIES
    AllowedUnlessSameName
    ImplementsStatusGraph
SYMMETRY CallSymmetry
