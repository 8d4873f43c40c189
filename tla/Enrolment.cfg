CONSTANTS
    Pairers = {p1, p2}
    Names = {n1, n2}
    Ids = {i1, i2}
    Pids = {x1, x2}
    Absent = Absent
    MaxCrashes = 1
    Vaults = {v1}
    Identities = {j1, j2}
    Agents = {a1, a2, a3}
    Pairs = {q1}
    Syncs = {s1}
    MaxChanges = 1
    MaxCommands = 1
    MaxExpiries = 1
    Profiles = {"alpha", "default"}
    Main = "default"
    Spare = "spare"
    MaxCutovers = 2
    MaxKills = 2
    MaxMoves = 4
SPECIFICATION SpecOne
INVARIANTS Resumable PlanIsKept ReplacedBeforeRemoved
PROPERTY KeyChangesConfirmed
