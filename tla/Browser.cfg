CONSTANTS
    Admins = {a1, a2}
    Sessions = {s1, s2}
    MaxJobs = 4
    Ops = {a, b}
    Capacities = {1, 2}
    MaxRequests = 2
    Conforming = {TRUE, FALSE}
    Kinds = {"extension", "local"}
    Connections = {1, 2}
    MaxSequence = 2
    MaxFrames = 7
    Paths = {"b-1", "b-2"}
    Legacy = "bridge"
    Calls = {"discover", "exact", "session", "any"}
    Named = "b-1"
    Budget = 2
    MaxChanges = 3
    Procs = {p, q}
    Keys = {k, l}
    Sizes = {1, 2}
    MaxUsage = 100
    MaxCalls = 5
    NoMap = NoMap
SPECIFICATION SpecOne
INVARIANTS NoOrphanToken ConformingIsKept NoSequenceGap ReadsWhatWasSent NeverGuesses
PROPERTY RejectedStaysAway
CHECK_DEADLOCK FALSE
