----------------------- MODULE IndexBuilderRefinement -----------------------
(***************************************************************************)
(* Proofs that the index builds keep the catalog consistent for every      *)
(* value of the constants: the registration invariant, that no unfinished  *)
(* entry is orphaned, and that IndexBuilder implements the abstract        *)
(* catalog of IndexCatalog.tla under the mapping entries <- catalog.       *)
(*                                                                         *)
(* The argument: registered[b] holds exactly while b is between a          *)
(* successful init and the end of its commit (RegisteredPhases).  Init     *)
(* registers only on an absent entry, so registrations are unique and own  *)
(* an unfinished entry; every way out of those phases either readies the   *)
(* entry, drops it, or (at shutdown) abandons it.  A drop of the           *)
(* collection needs MODE_X and no BackgroundOperation, which by LockPhase  *)
(* and BackgroundOnlyPhases means that no build is registered.             *)
(***************************************************************************)
EXTENDS IndexBuilderProofs

\* The phases in which b's MultiIndexBlock owns an unfinished entry: from a
\* successful init (221) to wunit.commit() (267).
OwnerPhases == {"downgrade", "lockIX", "scan", "relockX", "commit", "tsRead", "tsSet",
                "tsCheck", "wuCommit"}

RegisteredPhases == \A b \in Builds : registered[b] <=> pc[b] \in OwnerPhases

RegProps == RegisteredPhases /\ IndexRegistration /\ NoOrphanedIndex

\* The inductive invariant of this module.
RegInv == LockInv /\ RegProps

-----------------------------------------------------------------------------
(* Steps that leave the catalog and the registrations alone.               *)

\* A step that moves at most b, and keeps b on the same side of OwnerPhases.
LEMMA RegPcStep ==
    ASSUME TypeOK, RegProps, NEW b \in Builds,
           \A c \in Builds \ {b} : pc'[c] = pc[c],
           pc[b] \in OwnerPhases <=> pc'[b] \in OwnerPhases,
           UNCHANGED <<req, catalog, registered>>, shutdown => shutdown'
    PROVE  RegProps'
  BY DEF RegProps, RegisteredPhases, IndexRegistration, NoOrphanedIndex, Name, TypeOK

LEMMA RegFrame ==
    ASSUME TypeOK, RegProps, UNCHANGED <<req, pc, catalog, registered>>,
           shutdown => shutdown'
    PROVE  RegProps'
  BY DEF RegProps, RegisteredPhases, IndexRegistration, NoOrphanedIndex, Name

\* Exit moves b to "done" and touches no other pc.
LEMMA ExitPc ==
    ASSUME TypeOK, NEW b \in Builds, Exit(b)
    PROVE  /\ pc'[b] = "done"
           /\ \A c \in Builds \ {b} : pc'[c] = pc[c]
  BY DEF Exit, TypeOK

-----------------------------------------------------------------------------
(* The steps that end a registration.                                      *)

\* ~MultiIndexBlock on the way out of _build (a failure, an interruption).
LEMMA RegCleanupExit ==
    ASSUME TypeOK, RegProps, NEW b \in Builds, Cleanup(b),
           pc'[b] = "done", \A c \in Builds \ {b} : pc'[c] = pc[c],
           UNCHANGED <<req, shutdown>>
    PROVE  RegProps'
  <1> USE RequestFields
  <1>1. CASE registered[b]
    <2>1. /\ catalog' = [catalog EXCEPT ![Name(b)] = AbsentEntry]
          /\ registered' = [registered EXCEPT ![b] = FALSE]
      BY <1>1 DEF Cleanup
    <2>2. \A c \in Builds \ {b} : registered[c] => Name(c) # Name(b)
      BY <1>1 DEF RegProps, IndexRegistration
    <2>3. RegisteredPhases'
      BY <2>1 DEF RegProps, RegisteredPhases, OwnerPhases, TypeOK
    <2>4. IndexRegistration'
      BY <2>1, <2>2 DEF RegProps, IndexRegistration, Name, TypeOK
    <2>5. NoOrphanedIndex'
      BY <2>1, <2>2 DEF RegProps, NoOrphanedIndex, Name, AbsentEntry, TypeOK
    <2>6. QED
      BY <2>3, <2>4, <2>5 DEF RegProps
  <1>2. CASE ~registered[b]
    <2>1. UNCHANGED <<catalog, registered>>
      BY <1>2 DEF Cleanup, TypeOK
    <2>2. pc[b] \notin OwnerPhases
      BY <1>2 DEF RegProps, RegisteredPhases
    <2>3. QED
      BY <2>1, <2>2, RegPcStep DEF OwnerPhases
  <1>3. QED
    BY <1>1, <1>2

\* _failIndexBuild and what follows it.  Only an interruption at shutdown
\* abandons the entry, and then shutdown is set.
LEMMA RegFail ==
    ASSUME TypeOK, RegProps, NEW b \in Builds, NEW status, FailIndexBuild(b, status),
           status = "InterruptedAtShutdown" => shutdown, UNCHANGED <<req, shutdown>>
    PROVE  RegProps'
  <1>1. CASE UNCHANGED <<pc, catalog, registered>>
    BY <1>1, RegFrame
  <1>2. CASE /\ status = "InterruptedAtShutdown"
             /\ registered' = [registered EXCEPT ![b] = FALSE]
             /\ Exit(b)
             /\ UNCHANGED catalog
    <2>1. pc'[b] = "done" /\ \A c \in Builds \ {b} : pc'[c] = pc[c]
      BY <1>2, ExitPc
    <2>2. QED
      BY <1>2, <2>1 DEF RegProps, RegisteredPhases, IndexRegistration, NoOrphanedIndex,
                        OwnerPhases, Name, TypeOK
  <1>3. CASE Cleanup(b) /\ Exit(b)
    BY <1>3, ExitPc, RegCleanupExit
  <1>4. QED
    BY <1>1, <1>2, <1>3 DEF FailIndexBuild

-----------------------------------------------------------------------------
(* Init registers only where the catalog has no entry.                     *)

\* MultiIndexBlock::init returns OK only for an absent entry; an
\* interruption is the only other status a step of the model can carry.
LEMMA InitStatusOK ==
    ASSUME NEW b \in Builds,
           NEW status \in {InitStatus(b), "CannotCreateIndex"} \cup Pending(b)
    PROVE  /\ status = "OK" => catalog[Name(b)].state = "absent"
           /\ status = "InterruptedAtShutdown" => shutdown
  BY DEF InitStatus, Pending

LEMMA RegInitIndex ==
    ASSUME TypeOK, RegProps, NEW b \in Builds, InitIndex(b)
    PROVE  RegProps'
  <1> USE RequestFields
  <1>1. UNCHANGED <<req, shutdown>> /\ pc[b] = "init" /\ ~registered[b]
    BY DEF InitIndex, envVars, RegProps, RegisteredPhases, OwnerPhases
  <1>2. CASE ~collExists
    BY <1>1, <1>2, RegFrame DEF InitIndex
  <1>3. CASE collExists
    <2>1. PICK status \in {InitStatus(b), "CannotCreateIndex"} \cup Pending(b) :
            \/ status = "OK" /\ InitSucceeded(b)
            \/ Ignorable(b, status) /\ InitIgnored(b)
            \/ status # "OK" /\ ~Ignorable(b, status) /\ FailIndexBuild(b, status)
      BY <1>3 DEF InitIndex
    <2>2. CASE status = "OK" /\ InitSucceeded(b)
      <3>1. catalog[Name(b)].state = "absent"
        BY <2>2, InitStatusOK
      <3>2. \A c \in Builds : registered[c] => Name(c) # Name(b)
        BY <3>1 DEF RegProps, IndexRegistration
      <3>3. pc'[b] \in OwnerPhases /\ \A c \in Builds \ {b} : pc'[c] = pc[c]
        BY <2>2 DEF InitSucceeded, OwnerPhases, TypeOK
      <3>4. QED
        BY <1>1, <2>2, <3>2, <3>3 DEF InitSucceeded, RegProps, RegisteredPhases,
           IndexRegistration, NoOrphanedIndex, Name, TypeOK
    <2>3. CASE Ignorable(b, status) /\ InitIgnored(b)
      BY <1>1, <2>3, ExitPc, RegPcStep DEF InitIgnored, OwnerPhases
    <2>4. CASE status # "OK" /\ ~Ignorable(b, status) /\ FailIndexBuild(b, status)
      BY <1>1, <2>4, InitStatusOK, RegFail
    <2>5. QED
      BY <2>1, <2>2, <2>3, <2>4
  <1>4. QED
    BY <1>2, <1>3

-----------------------------------------------------------------------------
(* Every step of a build thread.                                           *)

LEMMA RegThread ==
    ASSUME TypeOK, RegProps, NEW b \in Builds, Thread(b)
    PROVE  RegProps'
  <1> DEFINE Moves == \A c \in Builds \ {b} : pc'[c] = pc[c]
  <1> USE DEF TypeOK, OwnerPhases
  <1>1. CASE LockDB(b)
    BY <1>1, RegPcStep DEF LockDB, envVars
  <1>2. CASE InitIndex(b)
    BY <1>2, RegInitIndex
  <1>3. CASE Downgrade(b)
    BY <1>3, RegPcStep DEF Downgrade, envVars
  <1>4. CASE LockIX(b)
    BY <1>4, RegPcStep DEF LockIX, envVars
  <1>5. CASE InsertAllDocuments(b)
    <2>1. UNCHANGED <<req, shutdown>> /\ pc[b] = "scan"
      BY <1>5 DEF InsertAllDocuments, envVars
    <2>2. CASE \E status \in {"IndexBuildFailed"} \cup Pending(b) : FailIndexBuild(b, status)
      BY <2>1, <2>2, RegFail DEF Pending
    <2>3. CASE ~\E status \in {"IndexBuildFailed"} \cup Pending(b) : FailIndexBuild(b, status)
      BY <1>5, <2>1, <2>3, RegPcStep DEF InsertAllDocuments
    <2>4. QED
      BY <2>2, <2>3
  <1>6. CASE RelockX(b)
    BY <1>6, RegPcStep DEF RelockX, envVars
  <1>7. CASE CommitIndex(b)
    BY <1>7, RegPcStep DEF CommitIndex, envVars
  <1>8. CASE ReadClusterTime(b)
    BY <1>8, RegPcStep DEF ReadClusterTime, envVars
  <1>9. CASE SetTimestamp(b)
    BY <1>9, RegPcStep DEF SetTimestamp, envVars
  <1>10. CASE CheckForInterrupt(b)
    <2>1. CASE Pending(b) = {}
      BY <1>10, <2>1, RegPcStep DEF CheckForInterrupt, envVars
    <2>2. CASE Pending(b) # {}
      BY <1>10, <2>2, ExitPc, RegCleanupExit DEF CheckForInterrupt, envVars
    <2>3. QED
      BY <2>1, <2>2
  <1>11. CASE CommitUnitOfWork(b)
    <2>1. registered[b] /\ pc[b] = "wuCommit"
      BY <1>11 DEF CommitUnitOfWork, RegProps, RegisteredPhases
    <2>2. \A c \in Builds \ {b} : registered[c] => Name(c) # Name(b)
      BY <2>1 DEF RegProps, IndexRegistration
    <2>3. pc'[b] \in {"recheck", "done"} /\ Moves
      BY <1>11, ExitPc DEF CommitUnitOfWork
    <2>4. QED
      BY <1>11, <2>2, <2>3, RequestFields DEF CommitUnitOfWork, envVars, RegProps,
         RegisteredPhases, IndexRegistration, NoOrphanedIndex, Name
  <1>12. CASE CommitWriteConflict(b)
    BY <1>12, RegPcStep DEF CommitWriteConflict, envVars
  <1>13. CASE Recheck(b)
    BY <1>13, RegPcStep DEF Recheck, envVars
  <1>14. QED
    BY <1>1, <1>2, <1>3, <1>4, <1>5, <1>6, <1>7, <1>8, <1>9, <1>10, <1>11,
       <1>12, <1>13 DEF Thread

-----------------------------------------------------------------------------
(* The applier, the foreground callers, the environment and the drop.      *)

LEMMA RegCallers ==
    ASSUME TypeOK, RegProps, Callers
    PROVE  RegProps'
  <1> USE DEF TypeOK, OwnerPhases, envVars
  <1>1. CASE \E b \in Builds : Launch(b)
    BY <1>1, RegPcStep DEF Launch
  <1>2. CASE \E b \in Builds : StartForeground(b)
    BY <1>2, RegPcStep DEF StartForeground
  <1>3. CASE WaitForBgIndexStarting
    BY <1>3, RegFrame DEF WaitForBgIndexStarting
  <1>4. QED
    BY <1>1, <1>2, <1>3 DEF Callers

LEMMA RegEnvironment ==
    ASSUME TypeOK, RegProps, Environment
    PROVE  RegProps'
  <1>1. shutdown => shutdown'
    BY DEF Environment, AdvanceClusterTime, AdvanceOldestTimestamp, KillOp, Shutdown
  <1>2. QED
    BY <1>1, RegFrame DEF Environment

\* The drop waits for MODE_X and for every BackgroundOperation, so it finds
\* no build registered: a registered background build holds its
\* BackgroundOperation, a registered foreground build holds MODE_X.
LEMMA NoneRegisteredAtDrop ==
    ASSUME TypeOK, LockPhase, BackgroundOnlyPhases, RegProps, DropCollection
    PROVE  \A b \in Builds : ~registered[b]
  <1> SUFFICES ASSUME NEW b \in Builds, registered[b] PROVE FALSE
    OBVIOUS
  <1>1. pc[b] \in OwnerPhases
    BY DEF RegProps, RegisteredPhases
  <1>2. CASE Bg(b)
    BY <1>1, <1>2 DEF DropCollection, BgOpInProgress, OwnerPhases
  <1>3. CASE ~Bg(b)
    <2>1. XPhase(b)
      BY <1>1, <1>3 DEF BackgroundOnlyPhases, OwnerPhases, XPhase
    <2>2. xHolder = b
      BY <2>1 DEF LockPhase
    <2>3. QED
      BY <2>2, ConstantsAssumption DEF DropCollection
  <1>4. QED
    BY <1>2, <1>3

LEMMA RegDrop ==
    ASSUME TypeOK, LockPhase, BackgroundOnlyPhases, RegProps, DropCollection
    PROVE  RegProps'
  <1>1. \A b \in Builds : ~registered[b]
    BY NoneRegisteredAtDrop
  <1>2. QED
    BY <1>1 DEF DropCollection, RegProps, RegisteredPhases, IndexRegistration,
       NoOrphanedIndex, AbsentEntry, OwnerPhases

-----------------------------------------------------------------------------
(* The invariants.                                                         *)

LEMMA RegInit ==
    Init => RegProps
  BY DEF Init, RegProps, RegisteredPhases, IndexRegistration, NoOrphanedIndex,
     AbsentEntry, OwnerPhases

LEMMA RegStep ==
    ASSUME LockInv, RegProps, [Next]_vars
    PROVE  RegProps'
  <1> USE DEF LockInv
  <1>1. CASE \E b \in Builds : crash = "none" /\ Thread(b)
    BY <1>1, RegThread
  <1>2. CASE crash = "none" /\ Callers
    BY <1>2, RegCallers
  <1>3. CASE crash = "none" /\ Environment
    BY <1>3, RegEnvironment
  <1>4. CASE crash = "none" /\ DropCollection
    BY <1>4, RegDrop
  <1>5. CASE UNCHANGED vars
    BY <1>5, RegFrame DEF vars
  <1>6. QED
    BY <1>1, <1>2, <1>3, <1>4, <1>5 DEF Next

\* The whole invariant, from the lock invariants proved in IndexBuilderProofs.
LEMMA RegInvariant == Spec => []RegInv
  <1>1. Spec => []LockInv
    BY TypeCorrect, LockPhaseInvariant, BackgroundOnly, PTL DEF LockInv
  <1>2. Spec => []RegProps
    BY <1>1, RegInit, RegStep, PTL DEF Spec
  <1>3. QED
    BY <1>1, <1>2, PTL DEF RegInv

\* Init's catalog check serialises the builds of one index (221): a build
\* that owns a registration finds its own unfinished entry, with its own
\* options, and no two builds own registrations of one name, whatever the
\* number of builds, names and option sets.
THEOREM RegistrationInvariant == Spec => []IndexRegistration
  BY RegInvariant, PTL DEF RegInv, RegProps

\* Every failure path other than shutdown drops the unfinished entry
\* (~MultiIndexBlock), so no entry stays unfinished without an owner.
THEOREM NoOrphanInvariant == Spec => []NoOrphanedIndex
  BY RegInvariant, PTL DEF RegInv, RegProps

-----------------------------------------------------------------------------
(* The refinement: every step of IndexBuilder is a step of the abstract    *)
(* catalog, or leaves the catalog alone.                                   *)

\* The entry ~MultiIndexBlock leaves is the abstract catalog's absent entry.
LEMMA AbsentAgrees == AbsentEntry = Cat!Absent
  BY DEF AbsentEntry, Cat!Absent

LEMMA CatCleanup ==
    ASSUME TypeOK, RegProps, NEW b \in Builds, Cleanup(b)
    PROVE  [Cat!Next]_catalog
  <1>1. CASE registered[b]
    <2>1. catalog[Name(b)].state = "building"
      BY <1>1 DEF RegProps, IndexRegistration
    <2>2. Cat!Abort(Name(b))
      BY <1>1, <2>1, AbsentAgrees DEF Cleanup, Cat!Abort
    <2>3. QED
      BY <2>2, RequestFields DEF Cat!Next
  <1>2. CASE ~registered[b]
    BY <1>2 DEF Cleanup
  <1>3. QED
    BY <1>1, <1>2

LEMMA CatFail ==
    ASSUME TypeOK, RegProps, NEW b \in Builds, NEW status, FailIndexBuild(b, status)
    PROVE  [Cat!Next]_catalog
  BY CatCleanup DEF FailIndexBuild

LEMMA CatInitIndex ==
    ASSUME TypeOK, RegProps, NEW b \in Builds, InitIndex(b)
    PROVE  [Cat!Next]_catalog
  <1>1. CASE ~collExists
    BY <1>1 DEF InitIndex
  <1>2. CASE collExists
    <2>1. PICK status \in {InitStatus(b), "CannotCreateIndex"} \cup Pending(b) :
            \/ status = "OK" /\ InitSucceeded(b)
            \/ Ignorable(b, status) /\ InitIgnored(b)
            \/ status # "OK" /\ ~Ignorable(b, status) /\ FailIndexBuild(b, status)
      BY <1>2 DEF InitIndex
    <2>2. CASE status = "OK" /\ InitSucceeded(b)
      <3>1. catalog[Name(b)].state = "absent"
        BY <2>2, InitStatusOK
      <3>2. Cat!Begin(Name(b), req[b].opts)
        BY <2>2, <3>1 DEF InitSucceeded, Cat!Begin, Ts
      <3>3. QED
        BY <3>2, RequestFields DEF Cat!Next
    <2>3. CASE Ignorable(b, status) /\ InitIgnored(b)
      BY <2>3 DEF InitIgnored
    <2>4. CASE status # "OK" /\ ~Ignorable(b, status) /\ FailIndexBuild(b, status)
      BY <2>4, CatFail
    <2>5. QED
      BY <2>1, <2>2, <2>3, <2>4
  <1>3. QED
    BY <1>1, <1>2

\* wunit.commit(): the committing build is registered, so its entry is
\* unfinished and becomes ready with the timestamp the build read.
LEMMA CatCommit ==
    ASSUME TypeOK, RegProps, NEW b \in Builds, CommitUnitOfWork(b)
    PROVE  [Cat!Next]_catalog
  <1>1. catalog[Name(b)].state = "building"
    BY DEF CommitUnitOfWork, RegProps, RegisteredPhases, OwnerPhases, IndexRegistration
  <1>2. Cat!Commit(Name(b), readTs[b])
    BY <1>1 DEF CommitUnitOfWork, Cat!Commit
  <1>3. readTs[b] \in Ts \cup {NoTs}
    BY DEF TypeOK
  <1>4. QED
    BY <1>2, <1>3, RequestFields DEF Cat!Next

LEMMA CatThread ==
    ASSUME TypeOK, RegProps, NEW b \in Builds, Thread(b)
    PROVE  [Cat!Next]_catalog
  <1>1. CASE InitIndex(b)
    BY <1>1, CatInitIndex
  <1>2. CASE InsertAllDocuments(b)
    BY <1>2, CatFail DEF InsertAllDocuments
  <1>3. CASE CheckForInterrupt(b)
    BY <1>3, CatCleanup DEF CheckForInterrupt
  <1>4. CASE CommitUnitOfWork(b)
    BY <1>4, CatCommit
  <1>5. CASE ~InitIndex(b) /\ ~InsertAllDocuments(b) /\ ~CheckForInterrupt(b)
             /\ ~CommitUnitOfWork(b)
    BY <1>5 DEF Thread, LockDB, Downgrade, LockIX, RelockX, CommitIndex,
       ReadClusterTime, SetTimestamp, CommitWriteConflict, Recheck
  <1>6. QED
    BY <1>1, <1>2, <1>3, <1>4, <1>5

\* A drop finds no unfinished entry: none is registered, and without a
\* shutdown none is abandoned.
LEMMA CatDrop ==
    ASSUME TypeOK, LockPhase, BackgroundOnlyPhases, RegProps, DropCollection
    PROVE  Cat!DropAll
  <1>1. \A b \in Builds : ~registered[b]
    BY NoneRegisteredAtDrop
  <1>2. \A n \in Names : catalog[n].state # "building"
    BY <1>1 DEF DropCollection, RegProps, NoOrphanedIndex
  <1>3. QED
    BY <1>2, AbsentAgrees DEF DropCollection, Cat!DropAll

LEMMA CatStep ==
    ASSUME RegInv, [Next]_vars
    PROVE  [Cat!Next]_catalog
  <1> USE DEF RegInv, LockInv
  <1>1. CASE \E b \in Builds : crash = "none" /\ Thread(b)
    BY <1>1, CatThread
  <1>2. CASE crash = "none" /\ Callers
    BY <1>2 DEF Callers, Launch, StartForeground, WaitForBgIndexStarting
  <1>3. CASE crash = "none" /\ Environment
    BY <1>3 DEF Environment
  <1>4. CASE crash = "none" /\ DropCollection
    BY <1>4, CatDrop DEF Cat!Next
  <1>5. CASE UNCHANGED vars
    BY <1>5 DEF vars
  <1>6. QED
    BY <1>1, <1>2, <1>3, <1>4, <1>5 DEF Next

\* IndexBuilder implements the abstract catalog: init creates an entry only
\* where there was none, wunit.commit() readies only an unfinished entry and
\* keeps its options, ~MultiIndexBlock removes only an unfinished entry, and
\* a drop of the collection never removes an unfinished one.
THEOREM CatalogImplemented == Spec => CatalogRefinement
  <1>1. Init => Cat!Init
    BY AbsentAgrees DEF Init, Cat!Init
  <1>2. QED
    BY <1>1, CatStep, RegInvariant, PTL DEF Spec, CatalogRefinement, Cat!Spec

=============================================================================
