CONSTANTS
    p1 = p1
    p2 = p2
    p3 = p3
    b1 = b1
    b2 = b2
    b3 = b3
    l1 = l1
    Pid = {p1, p2, p3}
    Feature = {"rum"}
    Consent = {"v1"}
    Batch = {b1, b2}
    Loose = {l1}
    NameOf <- SameName
    MaxIncidents = 4
    ReusedInPeace = TRUE
SYMMETRY Processes
SPECIFICATION Spec
INVARIANTS RootsOwned FilesKept AdoptsEverything
PROPERTIES LiveDataStays ConflictsCostTheOld
CHECK_DEADLOCK FALSE
