\* Shutdown interrupts a background build before it signals the applier.
CONSTANTS
    b1 = b1
    b2 = b2
    n1 = n1
    n2 = n2
    o1 = o1
    o2 = o2
    NoBuild = NoBuild
    Builds <- MCBuilds
    Names <- MCNames
    Opts <- MCOpts
    Requests <- MCRequests
    UsingReplSets = TRUE
    MemberState = "secondary"
    MaxTs = 2
    Interrupts = {"shutdown"}
SPECIFICATION Spec
PROPERTIES
    WaitReturns
CHECK_DEADLOCK FALSE
