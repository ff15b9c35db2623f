\* Interruption run: killOp and shutdown delivered at any point. Shutdown can
\* leave the applier blocked forever in waitForBgIndexStarting (see the
\* applier_stranded run), so a state with nothing enabled is not an error here.
CONSTANTS
    b1 = b1
    b2 = b2
    n1 = n1
    n2 = n2
    o1 = o1
    o2 = o2
    NoBuild = NoBuild
    Builds <- MCBuilds
    Names <- MCNames
    Opts <- MCOpts
    Requests <- MCRequests
    UsingReplSets = TRUE
    MemberState = "secondary"
    MaxTs = 2
    Interrupts = {"killOp", "shutdown"}
SPECIFICATION Spec
INVARIANTS
    IndexRegistration
    NoOrphanedIndex
CHECK_DEADLOCK FALSE
