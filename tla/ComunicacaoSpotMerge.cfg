CONSTANTS
    g1 = g1
    g2 = g2
    w1 = w1
    w2 = w2
    s1 = s1
    s2 = s2
    i1 = i1
    i2 = i2
    Collector = Collector
    Nobody = Nobody
    Ids = {g1, g2}
    Results = {w1, w2}
    Bodies <- MCBodies
    Saves = {s1, s2}
    Inserts = {i1, i2}
    Faults <- MCFaults
SPECIFICATION Spec
INVARIANTS
    NotFoundMeansEmpty
    SearchEnds
PROPERTIES
    InstancesPreserved
SYMMETRY CallSymmetry
CHECK_DEADLOCK FALSE
