SPECIFICATION Spec
CONSTANTS
    D1 = D1
    D2 = D2
    C1 = C1
    C2 = C2
    S1 = S1
    M1 = M1
    Ids = {"1", "2", "3", "4"}
    Points = {D1, D2}
    Names = {C1, C2, S1, M1}
    Slots = {5, 8}
    MaxRevision = 3
    Times = {0, 1, 2, 3, 4, 5, 6, 7, 8}
    Bundles <- Assessments
INVARIANTS
    GreatestFinalIsOfficial
