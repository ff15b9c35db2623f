\* Timestamp run: builds of two index names commit in either order, across
\* write conflicts and rejected setTimestamp calls; ghost stamps must follow
\* the commit order.
CONSTANTS
    b1 = b1
    b2 = b2
    n1 = n1
    n2 = n2
    o1 = o1
    o2 = o2
    NoBuild = NoBuild
    Builds <- MCBuilds
    Names <- MCStampNames
    Opts <- MCOpts
    Requests <- MCStampRequests
    UsingReplSets = TRUE
    MemberState = "secondary"
    MaxTs = 3
    Interrupts = {}
SPECIFICATION Spec
PROPERTIES
    GhostCommitTimestamp
