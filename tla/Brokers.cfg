CONSTANTS
    Sessions <- SessionsConsent
    MaxStray = 1
    Budget = 1
    QueueSize = 1
    PipeSize = 2
    Conns = {c1, c2, c3}
    Users = {u1, u2}
    HelloKeys = {k1, k2}
    MaxActive = 2
    MaxPerUser = 2
    MaxAttempts = 2
    Window = 1
    MaxClock = 1
    MaxCrashes = 1
    Uids = {a1, a2}
    Slots = {s1, s2}
    MaxSessions = 2
    MaxPerUid = 1
    MaxPrincipals = 2
    MaxDeaths = 2
    Backends = {"linux", "windows", "keyring", "helper", "mac"}
    Secrets = {"a", "b"}
    MaxCalls = 3
    MaxFaults = 1
SPECIFICATION SpecOne
INVARIANTS DeliveredWithConsent AcceptedIsPinned RevokedIsOver PurgedIsGone 
