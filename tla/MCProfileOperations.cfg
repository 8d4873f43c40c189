SPECIFICATION Spec
CONSTANTS
    Names = {default, work}
    DefaultName = default
    Ids = {i1, i2}
    Orgs = {o1, o2}
    Keys = {k1, k2}
    Absent = Absent
    MaxGeneration = 3
    MaxCrashes = 2
    TempResidue = TRUE
    HostSockets = TRUE
SYMMETRY Symmetry
INVARIANTS
    RecoveredStateVerifies
    SecretsComplete
    NoOrphanSecrets
PROPERTIES
    ImplementsStore
    PurgeLeavesNothing

