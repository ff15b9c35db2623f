\* Drop run: the oplog applier may drop the collection whenever the code lets
\* it, i.e. under MODE_X with no background operation in progress, and
\* killOp may interrupt any build.
CONSTANTS
    b1 = b1
    b2 = b2
    n1 = n1
    n2 = n2
    o1 = o1
    o2 = o2
    NoBuild = NoBuild
    Builds <- MCBuilds
    Names <- MCNames
    Opts <- MCOpts
    Requests <- MCRequests
    UsingReplSets = TRUE
    MemberState = "secondary"
    MaxTs = 2
    Interrupts = {"drop", "killOp"}
SPECIFICATION Spec
INVARIANTS
    CollectionStaysForBuild
PROPERTIES
    BuildsTerminate
    CatalogRefinement
