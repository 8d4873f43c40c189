\* Refuted: the event of an admitted pairing can be what run_worker finds in
\* the control channel once the worker has exited.
CONSTANTS
    Sessions <- SessionsEnds
    MaxStray = 1
    Budget = 1
    QueueSize = 1
    PipeSize = 2
SPECIFICATION Spec
INVARIANT AdmissionIsNotTerminal
