\* Shutdown interrupts a foreground build during its document scan.
CONSTANTS
    b1 = b1
    b2 = b2
    n1 = n1
    n2 = n2
    o1 = o1
    o2 = o2
    NoBuild = NoBuild
    Builds <- MCBuilds
    Names <- MCNames
    Opts <- MCOpts
    Requests <- MCRequests
    UsingReplSets = TRUE
    MemberState = "secondary"
    MaxTs = 2
    Interrupts = {"shutdown"}
SPECIFICATION Spec
INVARIANTS
    ForegroundNeverCrashes
CHECK_DEADLOCK FALSE
