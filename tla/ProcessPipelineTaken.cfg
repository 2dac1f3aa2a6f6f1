CONSTANTS
    c1 = c1
    c2 = c2
    Calls = {c1, c2}
    Attempts = 2
    MaxJobs = 1
    Faults <- NoFaults
SPECIFICATION Spec
PROPERTIES
    TakenIsNotError
