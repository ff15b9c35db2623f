--------------------------- MODULE MCIndexBuilder ---------------------------
(* IndexBuilder instantiated for TLC: two builds of one index name with two *)
(* possible option sets, on a replicated or unreplicated namespace.         *)
EXTENDS IndexBuilder

CONSTANTS b1, b2, n1, n2, o1, o2

MCBuilds == {b1, b2}
MCNames == {n1}
MCOpts == {o1, o2}

\* Every request for n1: either option set, relaxed or not, background or
\* foreground; only a foreground caller may carry a commit timestamp.
MCRequests ==
    {r \in [name: {n1}, opts: MCOpts, relax: BOOLEAN, bg: BOOLEAN,
            nss: {"replicated", "unreplicated"}, callerTs: BOOLEAN] :
        r.bg => ~r.callerTs}

\* The timestamp run: two index names, so that a ghost-timestamped commit can
\* follow another index's; one option set, replicated namespaces only.
MCStampNames == {n1, n2}

MCStampRequests ==
    {r \in [name: MCStampNames, opts: {o1}, relax: {FALSE}, bg: BOOLEAN,
            nss: {"replicated"}, callerTs: BOOLEAN] :
        r.bg => ~r.callerTs}

=============================================================================
