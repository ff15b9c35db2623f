------------------------- MODULE IndexBuilderProofs -------------------------
(***************************************************************************)
(* Proofs about IndexBuilder for every value of the constants: the type    *)
(* invariant, and that every build holds exactly the database lock mode    *)
(* its phase of _build requires (LockPhase).                               *)
(***************************************************************************)
EXTENDS IndexBuilder, TLAPS

\* The constants give the catalog a default option set.
LEMMA OptsNonEmpty == Opts # {} /\ AbsentEntry \in Entry
  <1>1. PICK r \in Requests : TRUE
    BY ConstantsAssumption
  <1>2. r.opts \in Opts
    BY <1>1, ConstantsAssumption DEF RequestShape
  <1>3. QED
    BY <1>2 DEF AbsentEntry, Entry, Ts, NoTs

\* Every request field has its type.
LEMMA RequestFields ==
    ASSUME TypeOK, NEW b \in Builds
    PROVE  /\ req[b] \in RequestShape
           /\ Name(b) \in Names
           /\ req[b].opts \in Opts
           /\ Bg(b) \in BOOLEAN
  BY ConstantsAssumption DEF TypeOK, RequestShape, Name, Bg

-----------------------------------------------------------------------------
(* Type correctness.  One step per action of Next.                         *)

LEMMA ExitType ==
    ASSUME TypeOK, NEW b \in Builds, Exit(b)
    PROVE  /\ pc' \in [Builds -> PCs]
           /\ xHolder' \in Builds \cup {NoBuild}
           /\ ixHolders' \subseteq Builds
  BY DEF Exit, ReleaseLocks, TypeOK, PCs

LEMMA CleanupType ==
    ASSUME TypeOK, NEW b \in Builds, Cleanup(b)
    PROVE  /\ catalog' \in [Names -> Entry]
           /\ registered' \in [Builds -> BOOLEAN]
  BY OptsNonEmpty, RequestFields DEF Cleanup, TypeOK

LEMMA FailType ==
    ASSUME TypeOK, NEW b \in Builds, NEW status, FailIndexBuild(b, status),
           UNCHANGED <<req, applier, readTs, envVars>>
    PROVE  TypeOK'
  <1>1. CASE status = "InterruptedAtShutdown" /\ ~Bg(b)
        /\ crash' = "invariant170"
        /\ UNCHANGED <<pc, xHolder, ixHolders, catalog, registered, bgStarting>>
    BY <1>1 DEF TypeOK, Crashes, envVars
  <1>2. CASE status = "InterruptedAtShutdown" /\ Bg(b)
        /\ registered' = [registered EXCEPT ![b] = FALSE]
        /\ Exit(b) /\ UNCHANGED <<catalog, bgStarting, crash>>
    BY <1>2, ExitType DEF TypeOK, envVars
  <1>3. CASE status # "InterruptedAtShutdown" /\ Bg(b)
        /\ crash' = "fassert50769"
        /\ UNCHANGED <<pc, xHolder, ixHolders, catalog, registered, bgStarting>>
    BY <1>3 DEF TypeOK, Crashes, envVars
  <1>4. CASE status # "InterruptedAtShutdown" /\ ~Bg(b)
        /\ Cleanup(b) /\ Exit(b) /\ UNCHANGED <<bgStarting, crash>>
    BY <1>4, ExitType, CleanupType DEF TypeOK, envVars
  <1>5. QED
    BY <1>1, <1>2, <1>3, <1>4 DEF FailIndexBuild

LEMMA InitIndexType ==
    ASSUME TypeOK, NEW b \in Builds, InitIndex(b)
    PROVE  TypeOK'
  <1> USE RequestFields
  <1>1. UNCHANGED <<req, applier, readTs, envVars>>
    BY DEF InitIndex
  <1>2. CASE ~collExists
    BY <1>1, <1>2 DEF InitIndex, TypeOK, Crashes, envVars
  <1>3. CASE collExists
    <2>1. PICK status \in {InitStatus(b), "CannotCreateIndex"} \cup Pending(b) :
            \/ status = "OK" /\ InitSucceeded(b)
            \/ Ignorable(b, status) /\ InitIgnored(b)
            \/ status # "OK" /\ ~Ignorable(b, status) /\ FailIndexBuild(b, status)
      BY <1>3 DEF InitIndex
    <2>2. CASE InitSucceeded(b)
      BY <1>1, <2>2 DEF InitSucceeded, SetBgIndexStarting, TypeOK, Entry, Ts, NoTs,
                        PCs, Crashes, envVars
    <2>3. CASE InitIgnored(b)
      BY <1>1, <2>3, ExitType DEF InitIgnored, SetBgIndexStarting, TypeOK, Crashes,
                                  envVars
    <2>4. CASE FailIndexBuild(b, status)
      BY <1>1, <2>4, FailType
    <2>5. QED
      BY <2>1, <2>2, <2>3, <2>4
  <1>4. QED
    BY <1>2, <1>3

LEMMA ThreadType ==
    ASSUME TypeOK, NEW b \in Builds, Thread(b)
    PROVE  TypeOK'
  <1> USE RequestFields
  <1>1. CASE LockDB(b)
    BY <1>1 DEF LockDB, TypeOK, PCs, envVars
  <1>2. CASE InitIndex(b)
    BY <1>2, InitIndexType
  <1>3. CASE Downgrade(b)
    BY <1>3 DEF Downgrade, TypeOK, PCs, envVars
  <1>4. CASE LockIX(b)
    BY <1>4 DEF LockIX, TypeOK, PCs, envVars
  <1>5. CASE InsertAllDocuments(b)
    <2>1. UNCHANGED <<req, applier, readTs, envVars>>
      BY <1>5 DEF InsertAllDocuments
    <2>2. CASE \E status \in {"IndexBuildFailed"} \cup Pending(b) : FailIndexBuild(b, status)
      BY <2>1, <2>2, FailType
    <2>3. QED
      BY <1>5, <2>1, <2>2 DEF InsertAllDocuments, TypeOK, PCs, envVars
  <1>6. CASE RelockX(b)
    BY <1>6 DEF RelockX, TypeOK, PCs, envVars
  <1>7. CASE CommitIndex(b)
    BY <1>7 DEF CommitIndex, TypeOK, PCs, Ts, NoTs, envVars
  <1>8. CASE ReadClusterTime(b)
    BY <1>8 DEF ReadClusterTime, TypeOK, PCs, envVars
  <1>9. CASE SetTimestamp(b)
    BY <1>9 DEF SetTimestamp, TypeOK, PCs, envVars
  <1>10. CASE CheckForInterrupt(b)
    BY <1>10, ExitType, CleanupType DEF CheckForInterrupt, TypeOK, PCs, envVars
  <1>11. CASE CommitUnitOfWork(b)
    <2>1. catalog' \in [Names -> Entry]
      BY <1>11 DEF CommitUnitOfWork, TypeOK, Entry
    <2>2. QED
      BY <1>11, <2>1, ExitType DEF CommitUnitOfWork, TypeOK, PCs, envVars
  <1>12. CASE CommitWriteConflict(b)
    BY <1>12 DEF CommitWriteConflict, TypeOK, PCs, envVars
  <1>13. CASE Recheck(b)
    BY <1>13 DEF Recheck, TypeOK, PCs, Crashes, envVars
  <1>14. QED
    BY <1>1, <1>2, <1>3, <1>4, <1>5, <1>6, <1>7, <1>8, <1>9, <1>10, <1>11,
       <1>12, <1>13 DEF Thread

LEMMA CallersType ==
    ASSUME TypeOK, Callers
    PROVE  TypeOK'
  <1>1. CASE \E b \in Builds : Launch(b)
    BY <1>1 DEF Launch, TypeOK, PCs, envVars
  <1>2. CASE \E b \in Builds : StartForeground(b)
    BY <1>2 DEF StartForeground, TypeOK, PCs, envVars
  <1>3. CASE WaitForBgIndexStarting
    BY <1>3 DEF WaitForBgIndexStarting, TypeOK, envVars
  <1>4. QED
    BY <1>1, <1>2, <1>3 DEF Callers

LEMMA EnvironmentType ==
    ASSUME TypeOK, Environment
    PROVE  TypeOK'
  <1>1. UNCHANGED <<req, pc, xHolder, ixHolders, catalog, registered, bgStarting,
                    applier, readTs, crash>>
    BY DEF Environment
  <1>2. CASE AdvanceClusterTime
    BY <1>1, <1>2, ConstantsAssumption DEF AdvanceClusterTime, TypeOK, Ts
  <1>3. CASE AdvanceOldestTimestamp
    BY <1>1, <1>3, ConstantsAssumption DEF AdvanceOldestTimestamp, TypeOK, Ts
  <1>4. CASE \E b \in Builds : KillOp(b)
    BY <1>1, <1>4 DEF KillOp, TypeOK
  <1>5. CASE Shutdown
    BY <1>1, <1>5 DEF Shutdown, TypeOK
  <1>6. QED
    BY <1>2, <1>3, <1>4, <1>5 DEF Environment

LEMMA DropCollectionType ==
    ASSUME TypeOK, DropCollection
    PROVE  TypeOK'
  BY OptsNonEmpty DEF DropCollection, TypeOK

\* The type invariant: every variable keeps its type in every reachable state.
THEOREM TypeCorrect == Spec => []TypeOK
  <1>1. Init => TypeOK
    <2> SUFFICES ASSUME Init PROVE TypeOK
      OBVIOUS
    <2>1. catalog \in [Names -> Entry]
      BY OptsNonEmpty DEF Init
    <2>2. readTs \in [Builds -> Ts \cup {NoTs}] /\ clusterTime \in Ts /\ oldestTs \in Ts
      BY ConstantsAssumption DEF Init, Ts, NoTs
    <2>3. QED
      BY <2>1, <2>2 DEF Init, TypeOK, PCs, Crashes
  <1>2. TypeOK /\ [Next]_vars => TypeOK'
    <2> SUFFICES ASSUME TypeOK, [Next]_vars PROVE TypeOK'
      OBVIOUS
    <2>1. CASE \E b \in Builds : crash = "none" /\ Thread(b)
      BY <2>1, ThreadType
    <2>2. CASE crash = "none" /\ Callers
      BY <2>2, CallersType
    <2>3. CASE crash = "none" /\ Environment
      BY <2>3, EnvironmentType
    <2>4. CASE crash = "none" /\ DropCollection
      BY <2>4, DropCollectionType
    <2>5. CASE UNCHANGED vars
      BY <2>5 DEF TypeOK, vars
    <2>6. QED
      BY <2>1, <2>2, <2>3, <2>4, <2>5 DEF Next
  <1>3. QED
    BY <1>1, <1>2, PTL DEF Spec

-----------------------------------------------------------------------------
(* LockPhase.  It is inductive relative to TypeOK: each step moves one     *)
(* thread between phases and acquires or releases exactly the lock that    *)
(* the move needs.  The lemmas are stated for a step of thread b.          *)

\* The strengthening LockPhase needs: only a background build signals,
\* downgrades, relocks and re-checks.
BackgroundOnlyPhases ==
    \A b \in Builds : pc[b] \in {"downgrade", "lockIX", "relockX", "recheck"} => Bg(b)

\* The inductive invariant behind LockPhaseInvariant.
LockInv == TypeOK /\ LockPhase /\ BackgroundOnlyPhases

\* A step of thread b leaves the other threads' pcs and every request alone,
\* and moves b into a background-only phase only if b is a background build.
LEMMA ThreadBackgroundOnly ==
    ASSUME TypeOK, BackgroundOnlyPhases, NEW b \in Builds, Thread(b)
    PROVE  BackgroundOnlyPhases'
  <1> DEFINE BgOnly(p) == p \in {"downgrade", "lockIX", "relockX", "recheck"}
  <1>1. UNCHANGED req
    BY DEF Thread, LockDB, InitIndex, Downgrade, LockIX, InsertAllDocuments,
           RelockX, CommitIndex, ReadClusterTime, SetTimestamp, CheckForInterrupt,
           CommitUnitOfWork, CommitWriteConflict, Recheck
  <1>2. \A c \in Builds \ {b} : pc'[c] = pc[c]
    <2>1. CASE UNCHANGED pc
      BY <2>1
    <2>2. CASE \E p : pc' = [pc EXCEPT ![b] = p]
      BY <2>2 DEF TypeOK
    <2>3. CASE Exit(b)
      BY <2>3 DEF Exit, TypeOK
    <2>4. QED
      BY <2>1, <2>2, <2>3 DEF Thread, LockDB, InitIndex, InitSucceeded, InitIgnored,
         FailIndexBuild, Downgrade, LockIX, InsertAllDocuments, RelockX, CommitIndex,
         ReadClusterTime, SetTimestamp, CheckForInterrupt, CommitUnitOfWork,
         CommitWriteConflict, Recheck
  <1>3. BgOnly(pc'[b]) => Bg(b)
    <2>1. CASE InitIndex(b)
      BY <2>1, ConstantsAssumption DEF InitIndex, InitSucceeded, InitIgnored,
         FailIndexBuild, Exit, TypeOK
    <2>2. CASE InsertAllDocuments(b)
      BY <2>2 DEF InsertAllDocuments, FailIndexBuild, Exit, TypeOK
    <2>3. CASE CommitUnitOfWork(b)
      BY <2>3 DEF CommitUnitOfWork, Exit, TypeOK
    <2>4. CASE ~InitIndex(b) /\ ~InsertAllDocuments(b) /\ ~CommitUnitOfWork(b)
      BY <2>4 DEF Thread, LockDB, Downgrade, LockIX, RelockX, CommitIndex,
         ReadClusterTime, SetTimestamp, CheckForInterrupt, CommitWriteConflict,
         Recheck, Exit, BackgroundOnlyPhases, TypeOK
    <2>5. QED
      BY <2>1, <2>2, <2>3, <2>4
  <1>4. QED
    BY <1>1, <1>2, <1>3 DEF BackgroundOnlyPhases, Bg

LEMMA BackgroundOnly == Spec => []BackgroundOnlyPhases
  <1>1. Init => BackgroundOnlyPhases
    BY DEF Init, BackgroundOnlyPhases
  <1>2. TypeOK /\ BackgroundOnlyPhases /\ [Next]_vars => BackgroundOnlyPhases'
    <2> SUFFICES ASSUME TypeOK, BackgroundOnlyPhases, [Next]_vars
                 PROVE  BackgroundOnlyPhases'
      OBVIOUS
    <2>1. CASE \E b \in Builds : crash = "none" /\ Thread(b)
      BY <2>1, ThreadBackgroundOnly
    <2>2. CASE crash = "none" /\ Callers
      BY <2>2 DEF Callers, Launch, StartForeground, WaitForBgIndexStarting,
         BackgroundOnlyPhases, Bg, TypeOK
    <2>3. CASE crash = "none" /\ Environment
      BY <2>3 DEF Environment, BackgroundOnlyPhases, Bg
    <2>4. CASE crash = "none" /\ DropCollection
      BY <2>4 DEF DropCollection, BackgroundOnlyPhases, Bg
    <2>5. CASE UNCHANGED vars
      BY <2>5 DEF vars, BackgroundOnlyPhases, Bg
    <2>6. QED
      BY <2>1, <2>2, <2>3, <2>4, <2>5 DEF Next
  <1>3. QED
    BY <1>1, <1>2, TypeCorrect, PTL DEF Spec

\* Steps that leave every pc and both lock fields alone.
LEMMA LockPhaseFrame ==
    ASSUME LockPhase, UNCHANGED <<req, pc, xHolder, ixHolders>>
    PROVE  LockPhase'
  BY DEF LockPhase, XPhase, IXPhase, Bg

\* Returning from _build: b ends in "done" and drops whatever it holds.
LEMMA ExitLockPhase ==
    ASSUME TypeOK, LockPhase, NEW b \in Builds, Exit(b), UNCHANGED req
    PROVE  LockPhase'
  <1>1. pc'[b] = "done" /\ xHolder' # b /\ b \notin ixHolders'
    BY ConstantsAssumption DEF Exit, ReleaseLocks, TypeOK
  <1>2. ASSUME NEW c \in Builds, c # b
        PROVE  /\ pc'[c] = pc[c]
               /\ (xHolder' = c) <=> (xHolder = c)
               /\ (c \in ixHolders') <=> (c \in ixHolders)
    BY <1>2, ConstantsAssumption DEF Exit, ReleaseLocks, TypeOK
  <1>3. xHolder' # NoBuild => ixHolders' = {}
    BY DEF Exit, ReleaseLocks, LockPhase
  <1>4. QED
    BY <1>1, <1>2, <1>3 DEF LockPhase, XPhase, IXPhase, Bg

LEMMA FailLockPhase ==
    ASSUME TypeOK, LockPhase, NEW b \in Builds, NEW status,
           FailIndexBuild(b, status), UNCHANGED req
    PROVE  LockPhase'
  <1>1. CASE UNCHANGED <<pc, xHolder, ixHolders>>
    BY <1>1, LockPhaseFrame
  <1>2. CASE Exit(b)
    BY <1>2, ExitLockPhase
  <1>3. QED
    BY <1>1, <1>2 DEF FailIndexBuild

\* A step of b from one MODE_X phase to another that touches no lock.
LEMMA XStepLockPhase ==
    ASSUME TypeOK, LockPhase, NEW b \in Builds, NEW p \in PCs,
           XPhase(b), p \in {"downgrade", "commit", "tsRead", "tsSet", "tsCheck", "wuCommit"}
                      \/ (p = "scan" /\ ~Bg(b)),
           pc' = [pc EXCEPT ![b] = p], UNCHANGED <<req, xHolder, ixHolders>>
    PROVE  LockPhase'
  BY DEF LockPhase, XPhase, IXPhase, Bg, TypeOK

LEMMA InitIndexLockPhase ==
    ASSUME TypeOK, LockPhase, NEW b \in Builds, InitIndex(b)
    PROVE  LockPhase'
  <1>1. UNCHANGED req /\ XPhase(b)
    BY DEF InitIndex, XPhase
  <1>2. CASE ~collExists
    BY <1>1, <1>2, LockPhaseFrame DEF InitIndex
  <1>3. CASE collExists
    <2>1. PICK status \in {InitStatus(b), "CannotCreateIndex"} \cup Pending(b) :
            \/ status = "OK" /\ InitSucceeded(b)
            \/ Ignorable(b, status) /\ InitIgnored(b)
            \/ status # "OK" /\ ~Ignorable(b, status) /\ FailIndexBuild(b, status)
      BY <1>3 DEF InitIndex
    <2>2. CASE InitSucceeded(b)
      <3>1. pc' = [pc EXCEPT ![b] = IF Bg(b) THEN "downgrade" ELSE "scan"]
        BY <2>2 DEF InitSucceeded
      <3>2. CASE Bg(b)
        BY <1>1, <2>2, <3>1, <3>2, XStepLockPhase DEF InitSucceeded, PCs
      <3>3. CASE ~Bg(b)
        BY <1>1, <2>2, <3>1, <3>3, XStepLockPhase DEF InitSucceeded, PCs
      <3>4. QED
        BY <3>2, <3>3
    <2>3. CASE InitIgnored(b)
      BY <1>1, <2>3, ExitLockPhase DEF InitIgnored
    <2>4. CASE FailIndexBuild(b, status)
      BY <1>1, <2>4, FailLockPhase
    <2>5. QED
      BY <2>1, <2>2, <2>3, <2>4
  <1>4. QED
    BY <1>2, <1>3

LEMMA ThreadLockPhase ==
    ASSUME TypeOK, LockPhase, BackgroundOnlyPhases, NEW b \in Builds, Thread(b)
    PROVE  LockPhase'
  <1> USE ConstantsAssumption, BackgroundOnlyPhases DEF BackgroundOnlyPhases
  <1>1. CASE LockDB(b)
    BY <1>1 DEF LockDB, LockPhase, XPhase, IXPhase, Bg, TypeOK
  <1>2. CASE InitIndex(b)
    BY <1>2, InitIndexLockPhase
  <1>3. CASE Downgrade(b)
    BY <1>3 DEF Downgrade, LockPhase, XPhase, IXPhase, Bg, TypeOK
  <1>4. CASE LockIX(b)
    BY <1>4 DEF LockIX, LockPhase, XPhase, IXPhase, Bg, TypeOK
  <1>5. CASE InsertAllDocuments(b)
    <2>1. UNCHANGED req /\ pc[b] = "scan"
      BY <1>5 DEF InsertAllDocuments
    <2>2. CASE /\ Bg(b)
               /\ ixHolders' = ixHolders \ {b}
               /\ pc' = [pc EXCEPT ![b] = "relockX"]
               /\ UNCHANGED xHolder
      BY <2>1, <2>2 DEF LockPhase, XPhase, IXPhase, Bg, TypeOK
    <2>3. CASE /\ ~Bg(b)
               /\ pc' = [pc EXCEPT ![b] = "commit"]
               /\ UNCHANGED <<xHolder, ixHolders>>
      BY <2>1, <2>3, XStepLockPhase DEF XPhase, PCs
    <2>4. CASE \E status \in {"IndexBuildFailed"} \cup Pending(b) : FailIndexBuild(b, status)
      BY <2>1, <2>4, FailLockPhase
    <2>5. QED
      BY <1>5, <2>2, <2>3, <2>4 DEF InsertAllDocuments
  <1>6. CASE RelockX(b)
    BY <1>6 DEF RelockX, LockPhase, XPhase, IXPhase, Bg, TypeOK
  <1>7. CASE CommitIndex(b)
    BY <1>7, XStepLockPhase DEF CommitIndex, XPhase, PCs
  <1>8. CASE ReadClusterTime(b)
    BY <1>8, XStepLockPhase DEF ReadClusterTime, XPhase, PCs
  <1>9. CASE SetTimestamp(b)
    BY <1>9, XStepLockPhase DEF SetTimestamp, XPhase, PCs
  <1>10. CASE CheckForInterrupt(b)
    <2>1. CASE pc' = [pc EXCEPT ![b] = "tsRead"] /\ UNCHANGED <<req, xHolder, ixHolders>>
      BY <1>10, <2>1, XStepLockPhase DEF CheckForInterrupt, XPhase, PCs
    <2>2. CASE Exit(b) /\ UNCHANGED req
      BY <2>2, ExitLockPhase
    <2>3. QED
      BY <1>10, <2>1, <2>2 DEF CheckForInterrupt
  <1>11. CASE CommitUnitOfWork(b)
    <2>1. UNCHANGED req /\ pc[b] = "wuCommit"
      BY <1>11 DEF CommitUnitOfWork
    <2>2. CASE Bg(b)
      BY <1>11, <2>1, <2>2 DEF CommitUnitOfWork, LockPhase, XPhase, IXPhase, Bg, TypeOK
    <2>3. CASE ~Bg(b)
      BY <1>11, <2>1, <2>3, ExitLockPhase DEF CommitUnitOfWork
    <2>4. QED
      BY <2>2, <2>3
  <1>12. CASE CommitWriteConflict(b)
    BY <1>12, XStepLockPhase DEF CommitWriteConflict, XPhase, PCs
  <1>13. CASE Recheck(b)
    <2>1. CASE collExists
      BY <1>13, <2>1 DEF Recheck, LockPhase, XPhase, IXPhase, Bg, TypeOK
    <2>2. CASE ~collExists
      BY <1>13, <2>2, LockPhaseFrame DEF Recheck
    <2>3. QED
      BY <2>1, <2>2
  <1>14. QED
    BY <1>1, <1>2, <1>3, <1>4, <1>5, <1>6, <1>7, <1>8, <1>9, <1>10, <1>11,
       <1>12, <1>13 DEF Thread

LEMMA CallersLockPhase ==
    ASSUME TypeOK, LockPhase, Callers
    PROVE  LockPhase'
  <1>1. CASE \E b \in Builds : Launch(b)
    BY <1>1 DEF Launch, LockPhase, XPhase, IXPhase, Bg, TypeOK
  <1>2. ASSUME NEW b \in Builds, StartForeground(b)
        PROVE  LockPhase'
    \* the caller's MODE_X: b moves to init and takes the free lock
    BY <1>2, ConstantsAssumption DEF StartForeground, LockPhase, XPhase, IXPhase, Bg,
                                     TypeOK
  <1>3. CASE WaitForBgIndexStarting
    BY <1>3, LockPhaseFrame DEF WaitForBgIndexStarting
  <1>4. QED
    BY <1>1, <1>2, <1>3 DEF Callers

\* Each build holds exactly the database lock mode its phase of _build
\* needs: init and commit run under MODE_X alone, a background scan under
\* MODE_IX (the property the lock_phase run checks on a small instance).
THEOREM LockPhaseInvariant == Spec => []LockPhase
  <1>1. Init => LockPhase
    BY ConstantsAssumption DEF Init, LockPhase, XPhase, IXPhase
  <1>2. LockInv /\ [Next]_vars => LockPhase'
    <2> SUFFICES ASSUME TypeOK, LockPhase, BackgroundOnlyPhases, [Next]_vars
                 PROVE  LockPhase'
      BY DEF LockInv
    <2>1. CASE \E b \in Builds : crash = "none" /\ Thread(b)
      BY <2>1, ThreadLockPhase
    <2>2. CASE crash = "none" /\ Callers
      BY <2>2, CallersLockPhase
    <2>3. CASE crash = "none" /\ Environment
      BY <2>3, LockPhaseFrame DEF Environment
    <2>4. CASE crash = "none" /\ DropCollection
      BY <2>4, LockPhaseFrame DEF DropCollection
    <2>5. CASE UNCHANGED vars
      BY <2>5, LockPhaseFrame DEF vars
    <2>6. QED
      BY <2>1, <2>2, <2>3, <2>4, <2>5 DEF Next
  <1>3. QED
    BY <1>1, <1>2, TypeCorrect, BackgroundOnly, PTL DEF Spec, LockInv

=============================================================================
