CONSTANTS
    u1 = u1
    u2 = u2
    r1 = r1
    r2 = r2
    r3 = r3
    h1 = h1
    h2 = h2
    NoData = NoData
    Users = {u1, u2}
    Requests = {r1, r2, r3}
    Handlers = {h1}
    Caller <- MCCaller
    Outcomes <- MCOutcomes
    Faults <- CrashFaults
SPECIFICATION FairSpec
INVARIANTS
    OneExtraction
    LockCoversExtraction
PROPERTIES
    LockFreedEventually
CHECK_DEADLOCK FALSE
