CONSTANTS
    None = None
    Starts <- StartsMC
    Modes = {"command", "script", "hardened"}
    InputSize = 3
    MaxOutput = 4
    PipeCap = 2
    MaxCapture = 2
    MaxKids = 2
    MaxLines = 3
    OutputBudget = 1
    SocketSize = 1
    MaxStray = 1
    QueueSize = 1
    PipeSize = 2
    Releases = {r1, r2}
    Launchers = {l1, l2}
    MaxUpdates = 2
    MaxKills = 1
SPECIFICATION SpecOne
INVARIANTS ClaimsHold RunsTheRelease CaptureExact NothingOutlives ExitedIsComplete
PROPERTY RunEnds
