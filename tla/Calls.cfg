CONSTANTS
    Committers = {c1, c2}
    Revokers = {r1, r2}
    MaxCommits = 2
    Assigned = "own"
    MaxRequests = 2
    MaxCancels = 1
    MaxBatches = 1
    MaxTracked = 2
    MaxParallel = 1
    Flows = {"credential", "script"}
    OneShot = TRUE
    WaitOptions = {0, 1, 7, 12, 13}
    PollOptions = {1, 3, 8}
    MaxWait = 12
    DefaultPoll = 6
    MinPoll = 2
    DefaultHeartbeat = 3
    MinHeartbeat = 1
    DefaultPollTimeout = 3
    Attempts = 3
    SmallLimit = 1
    LargeLimit = 2
    MaxChunks = 3
    None = None
SPECIFICATION SpecOne
INVARIANTS LateNeverCommits RepliesAreOwn DeadlineHeld AppliedOnce
PROPERTY AllReturn
