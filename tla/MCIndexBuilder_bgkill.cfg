\* A background build killed while retrying the ghost timestamp.
CONSTANTS
    b1 = b1
    b2 = b2
    n1 = n1
    n2 = n2
    o1 = o1
    o2 = o2
    NoBuild = NoBuild
    Builds <- MCBuilds
    Names <- MCNames
    Opts <- MCOpts
    Requests <- MCRequests
    UsingReplSets = TRUE
    MemberState = "secondary"
    MaxTs = 2
    Interrupts = {"killOp"}
SPECIFICATION Spec
INVARIANT
    BackgroundFailureFatal
