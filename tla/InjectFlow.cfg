\* A flow of up to three forms, with an extension that reports what it does and with one
\* whose replies have nothing to do with it.  OpTimeout is shorter than the lease, so a
\* reply may be late while the authorization still holds.
CONSTANTS
    MaxTime = 2
    OpTimeout = 1
    FlowTimeout = 2
    Conforming = {TRUE, FALSE}
SPECIFICATION Spec
CHECK_DEADLOCK FALSE
INVARIANTS
    NoFieldTwice
    
PROPERTIES
    RelayedInTime
