---------------------------- MODULE IndexBuilder ----------------------------
(***************************************************************************)
(* IndexBuilder (src/mongo/db/index_builder.cpp): one thread per index     *)
(* build, the database lock the build relocks between phases, the catalog  *)
(* entry the indexer (MultiIndexBlock) registers and commits, the          *)
(* _bgIndexStarting handshake with the oplog applier that launches         *)
(* background builds, and the ghost-commit timestamp retry loop racing     *)
(* the oldest timestamp.  Each build runs _build: init under MODE_X, a    *)
(* background build signals and relocks MODE_IX for the document scan,    *)
(* relocks MODE_X to commit, and re-checks the collection after commit.    *)
(***************************************************************************)
EXTENDS Integers, FiniteSets

CONSTANTS
    Builds,        \* IndexBuilder instances (one thread each)
    Names,         \* index names in the target collection's catalog
    Opts,          \* index options; two specs of a name conflict iff opts differ
    Requests,      \* the IndexBuilder constructor arguments a build may get
    UsingReplSets, \* replCoord->getSettings().usingReplSets()
    MemberState,   \* replCoord->getMemberState()
    MaxTs,         \* bound on the logical clock
    Interrupts,    \* what the environment delivers: killOp, shutdown, a drop
    NoBuild        \* "no thread" for lock holders and the applier

NssKinds == {"replicated", "unreplicated", "tmp.mr"}
MemberStates == {"startup", "startup2", "secondary", "primary"}
RequestShape == [name: Names, opts: Opts, relax: BOOLEAN, bg: BOOLEAN,
                 nss: NssKinds, callerTs: BOOLEAN]

ASSUME ConstantsAssumption ==
    /\ Requests \subseteq RequestShape
    /\ Requests # {}
    \* a background build runs on a fresh OperationContext: no commit timestamp
    /\ \A r \in Requests : r.bg => ~r.callerTs
    /\ UsingReplSets \in BOOLEAN
    /\ MemberState \in MemberStates
    /\ MaxTs \in Nat
    /\ Interrupts \subseteq {"killOp", "shutdown", "drop"}
    /\ NoBuild \notin Builds

Ts == 0..MaxTs
NoTs == -1
Entry == [state: {"absent", "building", "ready"}, opts: Opts, ts: Ts \cup {NoTs}]
AbsentEntry == [state |-> "absent", opts |-> CHOOSE o \in Opts : TRUE, ts |-> NoTs]

\* Thread positions in IndexBuilder::run / _build.
PCs == {"start", "lockX", "init", "downgrade", "lockIX", "scan", "relockX",
        "commit", "tsRead", "tsSet", "tsCheck", "wuCommit", "recheck", "done"}

\* Process-terminating assertions (fassert / invariant) the model can reach.
Crashes == {"none", "invariant101", "invariant170", "fassert50769", "fassert40409",
            "fassert28554"}

VARIABLES
    req,         \* req[b]: the request b was constructed with (fixed)
    pc,          \* pc[b]: where thread b is
    xHolder,     \* the thread holding the database lock in MODE_X
    ixHolders,   \* the threads holding it in MODE_IX
    catalog,     \* catalog[n]: the collection's index catalog entry for n
    registered,  \* registered[b]: b's MultiIndexBlock still has to clean up
    bgStarting,  \* _bgIndexStarting
    applier,     \* the oplog applier thread launching background builds
    readTs,      \* readTs[b]: cluster time read by tryTimestamp
    clusterTime, \* LogicalClock cluster time
    oldestTs,    \* storage engine oldest timestamp
    killed,      \* builds whose OperationContext was killed (killOp)
    shutdown,    \* shutdown has killed every OperationContext
    crash,       \* the assertion that terminated the process, or "none"
    collExists   \* the collection the builds index exists

vars == <<req, pc, xHolder, ixHolders, catalog, registered, bgStarting,
          applier, readTs, clusterTime, oldestTs, killed, shutdown, crash, collExists>>

-----------------------------------------------------------------------------
(* Helpers                                                                  *)

Bg(b) == req[b].bg
Name(b) == req[b].name

\* requiresGhostCommitTimestamp, index_builder.cpp 62-90.
RequiresGhostCommitTimestamp(nss, callerTs) ==
    /\ nss = "replicated"
    /\ UsingReplSets
    /\ ~callerTs
    /\ MemberState \notin {"startup", "startup2"}

\* Interruption statuses b's OperationContext would report.
Pending(b) ==
    (IF shutdown THEN {"InterruptedAtShutdown"} ELSE {})
      \cup (IF b \in killed THEN {"Interrupted"} ELSE {})

\* Mutant: allowBackgroundBuilding (202-203) is never called, so no build
\* holds a BackgroundOperation.
NoBackgroundOperation(b) == FALSE

\* Mutant: the indexer is released when the commit ends, before the
\* relock and the re-check of the collection at 270-275.
BgOpUntilCommit(b) ==
    /\ Bg(b)
    /\ pc[b] \in {"downgrade", "lockIX", "scan", "relockX", "commit", "tsRead", "tsSet",
                  "tsCheck", "wuCommit"}

\* The MultiIndexBlock declared at 200 lives until _build returns; a
\* background one holds a BackgroundOperation on the namespace from a
\* successful init on, which makes a drop of the collection wait.
BgOpInProgress(b) ==
    /\ Bg(b)
    /\ pc[b] \in {"downgrade", "lockIX", "scan", "relockX", "commit", "tsRead", "tsSet",
                  "tsCheck", "wuCommit", "recheck"}

\* The thread drops every lock it holds (DBLock destructor at the end of
\* run(); for a foreground build, the caller's lock after _build returns).
ReleaseLocks(b) ==
    /\ xHolder' = IF xHolder = b THEN NoBuild ELSE xHolder
    /\ ixHolders' = ixHolders \ {b}

\* _build returns to run() / buildInForeground's caller.
Exit(b) ==
    /\ ReleaseLocks(b)
    /\ pc' = [pc EXCEPT ![b] = "done"]

\* _setBgIndexStarting, 99-104: invariant(_bgIndexStarting == false).
SetBgIndexStarting ==
    /\ bgStarting' = TRUE
    /\ crash' = IF bgStarting THEN "invariant101" ELSE crash

\* Mutant: the indexer forgets to drop its unfinished entry.
CleanupNoDrop(b) ==
    /\ UNCHANGED catalog
    /\ registered' = [registered EXCEPT ![b] = FALSE]

\* ~MultiIndexBlock: an unfinished registration is dropped from the catalog.
Cleanup(b) ==
    /\ catalog' = IF registered[b]
                    THEN [catalog EXCEPT ![Name(b)] = AbsentEntry]
                    ELSE catalog
    /\ registered' = [registered EXCEPT ![b] = FALSE]

\* Mutant: every failure abandons the entry as at shutdown (171), with no
\* ~MultiIndexBlock cleanup.
FailIndexBuildNoCleanup(b, status) ==
    \/ /\ status = "InterruptedAtShutdown"
       /\ ~Bg(b)
       /\ crash' = "invariant170"
       /\ UNCHANGED <<pc, xHolder, ixHolders, catalog, registered, bgStarting>>
    \/ /\ status = "InterruptedAtShutdown" \/ ~Bg(b)
       /\ registered' = [registered EXCEPT ![b] = FALSE]
       /\ Exit(b)
       /\ UNCHANGED <<catalog, bgStarting, crash>>
    \/ /\ status # "InterruptedAtShutdown"
       /\ Bg(b)
       /\ crash' = "fassert50769"
       /\ UNCHANGED <<pc, xHolder, ixHolders, catalog, registered, bgStarting>>

\* _failIndexBuild, 165-181, and what follows it on each path.
FailIndexBuild(b, status) ==
    \/ /\ status = "InterruptedAtShutdown"
       /\ ~Bg(b)
       /\ crash' = "invariant170"
       /\ UNCHANGED <<pc, xHolder, ixHolders, catalog, registered, bgStarting>>
    \/ /\ status = "InterruptedAtShutdown"
       /\ Bg(b)
       \* abortWithoutCleanup: the unfinished entry stays for restart
       /\ registered' = [registered EXCEPT ![b] = FALSE]
       /\ Exit(b)
       /\ UNCHANGED <<catalog, bgStarting, crash>>
    \/ /\ status # "InterruptedAtShutdown"
       /\ Bg(b)
       /\ crash' = "fassert50769"
       /\ UNCHANGED <<pc, xHolder, ixHolders, catalog, registered, bgStarting>>
    \/ /\ status # "InterruptedAtShutdown"
       /\ ~Bg(b)
       /\ Cleanup(b)
       /\ Exit(b)
       /\ UNCHANGED <<bgStarting, crash>>

-----------------------------------------------------------------------------
(* The oplog applier (repl code outside this file, modelled from the spec): *)
(* it launches one background build, then blocks in waitForBgIndexStarting. *)

envVars == <<clusterTime, oldestTs, killed, shutdown, collExists>>

\* new IndexBuilder(...)->go(): the background thread starts in run().
Launch(b) ==
    /\ applier.state = "idle"
    /\ Bg(b)
    /\ pc[b] = "start"
    /\ collExists
    /\ pc' = [pc EXCEPT ![b] = "lockX"]
    /\ applier' = [state |-> "waiting", build |-> b]
    /\ UNCHANGED <<req, xHolder, ixHolders, catalog, registered, bgStarting,
                   readTs, envVars, crash>>

\* Mutant: the flag is not reset for next time (158).
WaitNoReset ==
    /\ applier.state = "waiting"
    /\ bgStarting
    /\ applier' = [applier EXCEPT !.state = "idle"]
    /\ UNCHANGED <<req, pc, xHolder, ixHolders, catalog, registered, bgStarting,
                   readTs, envVars, crash>>

\* waitForBgIndexStarting, 152-159: wait for the flag, then reset it.
WaitForBgIndexStarting ==
    /\ applier.state = "waiting"
    /\ bgStarting
    /\ bgStarting' = FALSE
    /\ applier' = [applier EXCEPT !.state = "idle"]
    /\ UNCHANGED <<req, pc, xHolder, ixHolders, catalog, registered,
                   readTs, envVars, crash>>

\* A caller that has found the collection under its MODE_X database lock
\* runs buildInForeground (148-150) on its own thread.
StartForeground(b) ==
    /\ ~Bg(b)
    /\ pc[b] = "start"
    /\ collExists
    /\ xHolder = NoBuild
    /\ ixHolders = {}
    /\ xHolder' = b
    /\ pc' = [pc EXCEPT ![b] = "init"]
    /\ UNCHANGED <<req, ixHolders, catalog, registered, bgStarting,
                   applier, readTs, envVars, crash>>

-----------------------------------------------------------------------------
(* The build thread.                                                        *)

\* Lock::DBLock dlk(..., MODE_X), 136, in the background thread's run().
LockDB(b) ==
    /\ pc[b] = "lockX"
    /\ xHolder = NoBuild
    /\ ixHolders = {}
    /\ xHolder' = b
    /\ pc' = [pc EXCEPT ![b] = "init"]
    /\ UNCHANGED <<req, ixHolders, catalog, registered, bgStarting, applier,
                   readTs, envVars, crash>>

\* Mutant: init only looks at ready indexes, not unfinished ones.
InitStatusReadyOnly(b) ==
    LET e == catalog[Name(b)] IN
    IF e.state # "ready" THEN "OK"
    ELSE IF e.opts = req[b].opts THEN "IndexAlreadyExists"
    ELSE "IndexOptionsConflict"

\* The status MultiIndexBlock::init returns for b's spec.
InitStatus(b) ==
    LET e == catalog[Name(b)] IN
    IF e.state = "absent" THEN "OK"
    ELSE IF e.opts = req[b].opts THEN "IndexAlreadyExists"
    ELSE "IndexOptionsConflict"

Ignorable(b, status) ==
    \/ status = "IndexAlreadyExists"
    \/ status = "IndexOptionsConflict" /\ req[b].relax

\* indexer.init succeeded, 221-229: the entry is registered unfinished; a
\* background build signals the applier while still holding MODE_X.
InitSucceeded(b) ==
    /\ catalog' = [catalog EXCEPT ![Name(b)] =
                     [state |-> "building", opts |-> req[b].opts, ts |-> NoTs]]
    /\ registered' = [registered EXCEPT ![b] = TRUE]
    /\ IF Bg(b) THEN SetBgIndexStarting ELSE UNCHANGED <<bgStarting, crash>>
    /\ pc' = [pc EXCEPT ![b] = IF Bg(b) THEN "downgrade" ELSE "scan"]
    /\ UNCHANGED <<xHolder, ixHolders>>

\* "Ignoring indexing error", 212-220: a background build still signals,
\* "in case anyone is waiting for this build".
InitIgnored(b) ==
    /\ IF Bg(b) THEN SetBgIndexStarting ELSE UNCHANGED <<bgStarting, crash>>
    /\ Exit(b)
    /\ UNCHANGED <<catalog, registered>>

\* Mutant: the !status.isOK() check at 221 is missing, so a failed init
\* goes on as if it had succeeded.
InitIndexNoFailCheck(b) ==
    /\ pc[b] = "init"
    /\ \/ /\ ~collExists
          /\ crash' = "fassert40409"
          /\ UNCHANGED <<pc, xHolder, ixHolders, catalog, registered, bgStarting>>
       \/ /\ collExists
          /\ \E status \in {InitStatus(b), "CannotCreateIndex"} \cup Pending(b) :
              \/ ~Ignorable(b, status) /\ InitSucceeded(b)
              \/ Ignorable(b, status) /\ InitIgnored(b)
    /\ UNCHANGED <<req, applier, readTs, envVars>>

\* writeConflictRetry(indexer.init), 205-210, and the three ways _build goes
\* on.  A write conflict rolls init back and retries it: a stutter.
InitIndex(b) ==
    /\ pc[b] = "init"
    /\ \/ /\ ~collExists
          /\ crash' = "fassert40409"
          /\ UNCHANGED <<pc, xHolder, ixHolders, catalog, registered, bgStarting>>
       \/ /\ collExists
          /\ \E status \in {InitStatus(b), "CannotCreateIndex"} \cup Pending(b) :
              \/ status = "OK" /\ InitSucceeded(b)
              \/ Ignorable(b, status) /\ InitIgnored(b)
              \/ /\ status # "OK"
                 /\ ~Ignorable(b, status)
                 /\ FailIndexBuild(b, status)
    /\ UNCHANGED <<req, applier, readTs, envVars>>

\* dbLock->relockWithMode(MODE_IX), 228: first the MODE_X lock is released ...
Downgrade(b) ==
    /\ pc[b] = "downgrade"
    /\ xHolder' = NoBuild
    /\ pc' = [pc EXCEPT ![b] = "lockIX"]
    /\ UNCHANGED <<req, ixHolders, catalog, registered, bgStarting, applier,
                   readTs, envVars, crash>>

\* ... then MODE_IX is acquired.
LockIX(b) ==
    /\ pc[b] = "lockIX"
    /\ xHolder = NoBuild
    /\ ixHolders' = ixHolders \cup {b}
    /\ pc' = [pc EXCEPT ![b] = "scan"]
    /\ UNCHANGED <<req, xHolder, catalog, registered, bgStarting, applier,
                   readTs, envVars, crash>>

\* Mutant: a background build commits without relocking MODE_X (241).
InsertAllDocumentsNoRelock(b) ==
    /\ pc[b] = "scan"
    /\ pc' = [pc EXCEPT ![b] = "commit"]
    /\ UNCHANGED <<req, xHolder, ixHolders, catalog, registered, bgStarting,
                   applier, readTs, envVars, crash>>

\* indexer.insertAllDocumentsInCollection(), 231-242; on success a
\* background build releases MODE_IX (first half of relockWithMode(MODE_X)).
InsertAllDocuments(b) ==
    /\ pc[b] = "scan"
    /\ \/ /\ Bg(b)
          /\ ixHolders' = ixHolders \ {b}
          /\ pc' = [pc EXCEPT ![b] = "relockX"]
          /\ UNCHANGED <<xHolder, catalog, registered, bgStarting, crash>>
       \/ /\ ~Bg(b)
          /\ pc' = [pc EXCEPT ![b] = "commit"]
          /\ UNCHANGED <<xHolder, ixHolders, catalog, registered, bgStarting, crash>>
       \/ \E status \in {"IndexBuildFailed"} \cup Pending(b) :
            FailIndexBuild(b, status)
    /\ UNCHANGED <<req, applier, readTs, envVars>>

\* Mutant: the relock at 241 takes MODE_X without waiting for the MODE_X
\* another build (a foreground caller) holds.
RelockXNoWait(b) ==
    /\ pc[b] = "relockX"
    /\ ixHolders = {}
    /\ xHolder' = b
    /\ pc' = [pc EXCEPT ![b] = "commit"]
    /\ UNCHANGED <<req, ixHolders, catalog, registered, bgStarting, applier,
                   readTs, envVars, crash>>

\* Second half of relockWithMode(MODE_X), 241.
RelockX(b) ==
    /\ pc[b] = "relockX"
    /\ xHolder = NoBuild
    /\ ixHolders = {}
    /\ xHolder' = b
    /\ pc' = [pc EXCEPT ![b] = "commit"]
    /\ UNCHANGED <<req, ixHolders, catalog, registered, bgStarting, applier,
                   readTs, envVars, crash>>

\* Commit lambda of writeConflictRetry, 243-247: WriteUnitOfWork,
\* indexer.commit() (not visible before wunit.commit()), ghost check.
CommitIndex(b) ==
    /\ pc[b] = "commit"
    /\ pc' = [pc EXCEPT ![b] =
                IF RequiresGhostCommitTimestamp(req[b].nss, req[b].callerTs)
                  THEN "tsRead" ELSE "wuCommit"]
    /\ readTs' = [readTs EXCEPT ![b] = NoTs]
    /\ UNCHANGED <<req, xHolder, ixHolders, catalog, registered, bgStarting,
                   applier, envVars, crash>>

\* Mutant: the timestamp read is one tick ahead of the cluster time.
ReadClusterTimeAhead(b) ==
    /\ pc[b] = "tsRead"
    /\ readTs' = [readTs EXCEPT ![b] = clusterTime + 1]
    /\ pc' = [pc EXCEPT ![b] = "tsSet"]
    /\ UNCHANGED <<req, xHolder, ixHolders, catalog, registered, bgStarting,
                   applier, envVars, crash>>

\* tryTimestamp, 249-251: LogicalClock::getClusterTime() ...
ReadClusterTime(b) ==
    /\ pc[b] = "tsRead"
    /\ readTs' = [readTs EXCEPT ![b] = clusterTime]
    /\ pc' = [pc EXCEPT ![b] = "tsSet"]
    /\ UNCHANGED <<req, xHolder, ixHolders, catalog, registered, bgStarting,
                   applier, envVars, crash>>

\* Mutant: a timestamp equal to the oldest timestamp is rejected too.
SetTimestampStrict(b) ==
    /\ pc[b] = "tsSet"
    /\ pc' = [pc EXCEPT ![b] = IF readTs[b] <= oldestTs THEN "tsCheck" ELSE "wuCommit"]
    /\ UNCHANGED <<req, xHolder, ixHolders, catalog, registered, bgStarting,
                   applier, readTs, envVars, crash>>

\* ... recoveryUnit()->setTimestamp(t), 250-258: BadValue when t is older
\* than the oldest timestamp.
SetTimestamp(b) ==
    /\ pc[b] = "tsSet"
    /\ pc' = [pc EXCEPT ![b] = IF readTs[b] < oldestTs THEN "tsCheck" ELSE "wuCommit"]
    /\ UNCHANGED <<req, xHolder, ixHolders, catalog, registered, bgStarting,
                   applier, readTs, envVars, crash>>

\* opCtx->checkForInterrupt(), 263-265: retry, or throw.  The exception
\* leaves writeConflictRetry, the unit of work rolls back, the catch at 278
\* returns the status after ~MultiIndexBlock cleaned up; run() accepts an
\* interruption (fassert 28555).
CheckForInterrupt(b) ==
    /\ pc[b] = "tsCheck"
    /\ \/ /\ Pending(b) = {}
          /\ pc' = [pc EXCEPT ![b] = "tsRead"]
          /\ UNCHANGED <<xHolder, ixHolders, catalog, registered>>
       \/ /\ Pending(b) # {}
          /\ Cleanup(b)
          /\ Exit(b)
    /\ UNCHANGED <<req, bgStarting, applier, readTs, envVars, crash>>

\* wunit.commit(), 267: the entry becomes ready with the ghost timestamp.
\* A background build then releases MODE_X (first half of
\* relockWithMode(MODE_X), 271).
CommitUnitOfWork(b) ==
    /\ pc[b] = "wuCommit"
    /\ catalog' = [catalog EXCEPT ![Name(b)] =
                     [@ EXCEPT !.state = "ready", !.ts = readTs[b]]]
    /\ registered' = [registered EXCEPT ![b] = FALSE]
    /\ IF Bg(b)
         THEN /\ xHolder' = NoBuild
              /\ pc' = [pc EXCEPT ![b] = "recheck"]
              /\ UNCHANGED ixHolders
         ELSE Exit(b)
    /\ UNCHANGED <<req, bgStarting, applier, readTs, envVars, crash>>

\* A WriteConflictException in the unit of work rolls it back and
\* writeConflictRetry runs the lambda again (243).
CommitWriteConflict(b) ==
    /\ pc[b] = "wuCommit"
    /\ pc' = [pc EXCEPT ![b] = "commit"]
    /\ UNCHANGED <<req, xHolder, ixHolders, catalog, registered, bgStarting,
                   applier, readTs, envVars, crash>>

\* Second half of relockWithMode(MODE_X), then the database and collection
\* re-check (fasserts 28553, 28554), and the DBLock released by run().
Recheck(b) ==
    /\ pc[b] = "recheck"
    /\ xHolder = NoBuild
    /\ ixHolders = {}
    /\ \/ collExists /\ pc' = [pc EXCEPT ![b] = "done"] /\ UNCHANGED crash
       \/ ~collExists /\ crash' = "fassert28554" /\ UNCHANGED pc
    /\ UNCHANGED <<req, xHolder, ixHolders, catalog, registered, bgStarting,
                   applier, readTs, envVars>>

-----------------------------------------------------------------------------
(* The environment: the clock, the storage engine, killOp and shutdown.     *)

AdvanceClusterTime ==
    /\ clusterTime < MaxTs
    /\ clusterTime' = clusterTime + 1
    /\ UNCHANGED <<oldestTs, killed, shutdown, collExists>>

AdvanceOldestTimestamp ==
    /\ oldestTs < clusterTime
    /\ oldestTs' = oldestTs + 1
    /\ UNCHANGED <<clusterTime, killed, shutdown, collExists>>

KillOp(b) ==
    /\ "killOp" \in Interrupts
    /\ pc[b] \notin {"start", "done"}
    /\ b \notin killed
    /\ killed' = killed \cup {b}
    /\ UNCHANGED <<clusterTime, oldestTs, shutdown, collExists>>

Shutdown ==
    /\ "shutdown" \in Interrupts
    /\ ~shutdown
    /\ shutdown' = TRUE
    /\ UNCHANGED <<clusterTime, oldestTs, killed, collExists>>

\* The oplog applier applies a drop of the collection: under the database
\* lock in MODE_X, once no background operation is in progress on the
\* namespace; every index of the collection goes with it.
DropCollection ==
    /\ "drop" \in Interrupts
    /\ collExists
    /\ ~shutdown
    /\ applier.state = "idle"
    /\ xHolder = NoBuild
    /\ ixHolders = {}
    /\ \A b \in Builds : ~BgOpInProgress(b)
    /\ collExists' = FALSE
    /\ catalog' = [n \in Names |-> AbsentEntry]
    /\ UNCHANGED <<req, pc, xHolder, ixHolders, registered, bgStarting, applier,
                   readTs, clusterTime, oldestTs, killed, shutdown, crash>>

Environment ==
    /\ \/ AdvanceClusterTime
       \/ AdvanceOldestTimestamp
       \/ \E b \in Builds : KillOp(b)
       \/ Shutdown
    /\ UNCHANGED <<req, pc, xHolder, ixHolders, catalog, registered, bgStarting,
                   applier, readTs, crash>>

-----------------------------------------------------------------------------

Init ==
    /\ req \in [Builds -> Requests]
    /\ pc = [b \in Builds |-> "start"]
    /\ xHolder = NoBuild
    /\ ixHolders = {}
    /\ catalog = [n \in Names |-> AbsentEntry]
    /\ registered = [b \in Builds |-> FALSE]
    /\ bgStarting = FALSE
    /\ applier = [state |-> "idle", build |-> NoBuild]
    /\ readTs = [b \in Builds |-> NoTs]
    /\ clusterTime = 0
    /\ oldestTs = 0
    /\ killed = {}
    /\ shutdown = FALSE
    /\ crash = "none"
    /\ collExists = TRUE

\* Every step of thread b.
Thread(b) ==
    \/ LockDB(b)
    \/ InitIndex(b)
    \/ Downgrade(b)
    \/ LockIX(b)
    \/ InsertAllDocuments(b)
    \/ RelockX(b)
    \/ CommitIndex(b)
    \/ ReadClusterTime(b)
    \/ SetTimestamp(b)
    \/ CheckForInterrupt(b)
    \/ CommitUnitOfWork(b)
    \/ CommitWriteConflict(b)
    \/ Recheck(b)

\* The applier and the foreground callers.
Callers ==
    \/ \E b \in Builds : Launch(b) \/ StartForeground(b)
    \/ WaitForBgIndexStarting

\* Nothing is left to run: every build returned, or was never started
\* because its collection was dropped, and the applier is free; or an
\* assertion terminated the process.
Terminated ==
    \/ crash # "none"
    \/ /\ \A b \in Builds : pc[b] = "done" \/ (pc[b] = "start" /\ ~collExists)
       /\ applier.state = "idle"

Next ==
    \/ /\ crash = "none"
       /\ \/ \E b \in Builds : Thread(b)
          \/ Callers
          \/ Environment
          \/ DropCollection
    \/ Terminated /\ UNCHANGED vars

\* Threads and the applier are scheduled (weak fairness); write conflicts
\* are transient, so a commit retried forever eventually goes through.
Fairness ==
    /\ \A b \in Builds : WF_vars(crash = "none" /\ Thread(b))
    /\ \A b \in Builds : SF_vars(crash = "none" /\ CommitUnitOfWork(b))
    /\ WF_vars(crash = "none" /\ Callers)

Spec == Init /\ [][Next]_vars /\ Fairness

-----------------------------------------------------------------------------
(* Properties                                                               *)

\* Every variable keeps its type.
TypeOK ==
    /\ req \in [Builds -> Requests]
    /\ pc \in [Builds -> PCs]
    /\ xHolder \in Builds \cup {NoBuild}
    /\ ixHolders \subseteq Builds
    /\ catalog \in [Names -> Entry]
    /\ registered \in [Builds -> BOOLEAN]
    /\ bgStarting \in BOOLEAN
    /\ applier \in [state: {"idle", "waiting"}, build: Builds \cup {NoBuild}]
    /\ readTs \in [Builds -> Ts \cup {NoTs}]
    /\ clusterTime \in Ts
    /\ oldestTs \in Ts
    /\ killed \subseteq Builds
    /\ shutdown \in BOOLEAN
    /\ crash \in Crashes
    /\ collExists \in BOOLEAN

\* The phases of _build in which thread b must hold MODE_X: init, the
\* signal before the downgrade, the whole commit, and a foreground scan.
XPhase(b) ==
    \/ pc[b] \in {"init", "downgrade", "commit", "tsRead", "tsSet", "tsCheck", "wuCommit"}
    \/ pc[b] = "scan" /\ ~Bg(b)

\* A background scan runs under MODE_IX.
IXPhase(b) == pc[b] = "scan" /\ Bg(b)

\* Across the relocks at 228, 241 and 271, each build holds exactly the lock
\* its phase needs: the catalog is only written (init, commit, cleanup) by
\* the one MODE_X holder, with no concurrent MODE_IX scan, and MODE_X and
\* MODE_IX are never held together.
LockPhase ==
    /\ \A b \in Builds : (xHolder = b) <=> XPhase(b)
    /\ \A b \in Builds : (b \in ixHolders) <=> IXPhase(b)
    /\ xHolder # NoBuild => ixHolders = {}

\* Init's catalog check serializes builds of one index: a build whose
\* MultiIndexBlock owns a registration finds its own unfinished entry in the
\* catalog, and no two live builds own a registration of the same name.
IndexRegistration ==
    /\ \A b \in Builds : registered[b] =>
          /\ catalog[Name(b)].state = "building"
          /\ catalog[Name(b)].opts = req[b].opts
    /\ \A b1, b2 \in Builds :
          (b1 # b2 /\ registered[b1] /\ registered[b2]) => Name(b1) # Name(b2)

\* Every failure path cleans up: an unfinished catalog entry belongs to a
\* running build, unless shutdown abandoned it (abortWithoutCleanup, 171).
NoOrphanedIndex ==
    \A n \in Names :
        catalog[n].state = "building" =>
            \/ \E b \in Builds : registered[b] /\ Name(b) = n
            \/ shutdown

\* The single-slot handshake never overflows: _setBgIndexStarting's
\* invariant(_bgIndexStarting == false) at 101 never fires, because the
\* applier consumes each signal before it launches the next build.
HandshakeSlotFree == crash # "invariant101"

\* Every build eventually returns, the applier is released from
\* waitForBgIndexStarting, or the process terminates.
BuildsTerminate == <>Terminated

\* Spec 4.1 / 8: waitForBgIndexStarting returns for every launched build
\* (unless an assertion has terminated the process).
WaitReturns ==
    [](applier.state = "waiting" => <>(applier.state = "idle" \/ crash # "none"))

\* Spec 4.6 / 8: a foreground build never terminates the process.
ForegroundNeverCrashes == crash # "invariant170"

\* Spec 5: when waitForBgIndexStarting returns, the launched build has
\* already given up MODE_X.
WakeAfterDowngrade ==
    [][WaitForBgIndexStarting => xHolder # applier.build]_vars

\* Spec 4.6: a background build has no caller to report to, so any failure
\* other than shutdown terminates the process (fassert 50769).  Hence a
\* background build that returns to run() has left its index in the catalog
\* (built, or found there), unless shutdown interrupted it.
BackgroundFailureFatal ==
    \A b \in Builds :
        Bg(b) /\ pc[b] = "done" /\ ~shutdown => catalog[Name(b)].state # "absent"


\* fassert 40409 (192) and fassert 28554 (275): the collection is there when
\* a build looks it up under MODE_X at init, and still there when a
\* background build re-checks it after its commit.  A drop needs MODE_X and
\* waits for the BackgroundOperation of a background MultiIndexBlock, which
\* is what protects the MODE_IX window and the unlocked gap before the
\* re-check.
CollectionStaysForBuild ==
    crash \notin {"fassert40409", "fassert28554"}


\* The abstract catalog of IndexCatalog.tla, seen through the catalog.
Cat == INSTANCE IndexCatalog WITH entries <- catalog, Stamps <- Ts, NoStamp <- NoTs

\* The builds use the catalog only as IndexCatalog allows: init registers an
\* entry only where there was none (221), wunit.commit() readies only an
\* unfinished entry with the options it was created with (267),
\* ~MultiIndexBlock removes only an unfinished one, and a drop of the
\* collection never lands under an unfinished build.
CatalogRefinement == Cat!Spec

\* A step that readies an index does so in the commit of a build of that
\* name, stamped as requiresGhostCommitTimestamp (62-90) demands of it.
\* The ghost stamps already in the catalog: those of the ready entries that
\* a ghost-timestamped build committed.
GhostStamps == {catalog[m].ts : m \in {k \in Names : catalog[k].ts # NoTs}}

StampedAtCommit ==
    \A n \in Names :
        catalog'[n].state = "ready" /\ catalog'[n] # catalog[n] =>
           \E b \in Builds :
              /\ Name(b) = n
              /\ pc[b] = "wuCommit"
              /\ IF RequiresGhostCommitTimestamp(req[b].nss, req[b].callerTs)
                   THEN /\ catalog'[n].ts \in 0..clusterTime
                        /\ \A t \in GhostStamps : t <= catalog'[n].ts
                   ELSE catalog'[n].ts = NoTs

\* The ghost commit timestamp: wunit.commit() (267) readies an index with the
\* timestamp its unit of work carries.  A build that
\* requiresGhostCommitTimestamp commits at a cluster time the clock has
\* reached and that is no earlier than the ghost timestamp of any index
\* readied before it: ghost stamps follow the commit order.  This needs the
\* read at 251 to happen on the run of the commit lambda that commits, under
\* the MODE_X that a background build re-acquires at 241 and a foreground
\* caller holds throughout, so that no other commit falls between the read
\* and wunit.commit().  Any other build commits with no timestamp.
GhostCommitTimestamp == [][StampedAtCommit]_vars

=============================================================================
