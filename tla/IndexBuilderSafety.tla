------------------------- MODULE IndexBuilderSafety -------------------------
(***************************************************************************)
(* Proofs, for every value of the constants, that the two assertions the   *)
(* protocol between the builds and the oplog applier has to keep silent    *)
(* never fire: invariant(_bgIndexStarting == false) at 101, and the        *)
(* collection look-ups at 192 (fassert 40409) and 275 (fassert 28554).     *)
(*                                                                         *)
(* The argument.  The applier launches one background build and waits for  *)
(* its signal; while that build is on its way to init (Launched) the       *)
(* applier waits for it alone and the slot is empty, so its signal never   *)
(* finds the slot full (HandshakeInv).  A build needs its collection from  *)
(* launch to init, and a background build until _build returns; a drop     *)
(* needs an idle applier, MODE_X and no BackgroundOperation, which rules   *)
(* out every such build (CollectionInv).                                   *)
(***************************************************************************)
EXTENDS IndexBuilderProofs

\* A background build launched by the applier that has not reached its
\* signal yet.
Launched(b) == Bg(b) /\ pc[b] \in {"lockX", "init"}

\* Only the applier's Launch puts a thread at lockX (run()'s DBLock).
LockXOnlyBackground == \A b \in Builds : pc[b] = "lockX" => Bg(b)

HandshakeInv ==
    /\ \A b \in Builds :
          Launched(b) => applier.state = "waiting" /\ applier.build = b /\ ~bgStarting
    /\ applier.state = "idle" => ~bgStarting
    /\ HandshakeSlotFree

\* A build needs its collection from launch to init; a background build
\* needs it until _build returns.
NeedsCollection(b) == pc[b] \in {"lockX", "init"} \/ BgOpInProgress(b)

CollectionInv ==
    /\ \A b \in Builds : NeedsCollection(b) => collExists
    /\ CollectionStaysForBuild

SafetyProps == LockXOnlyBackground /\ HandshakeInv /\ CollectionInv

\* The inductive invariant of this module.
SafetyInv == LockInv /\ SafetyProps

-----------------------------------------------------------------------------
(* Steps of a build thread.                                                *)

\* The phases in which a background build holds its BackgroundOperation.
BgOpPhases == {"downgrade", "lockIX", "scan", "relockX", "commit", "tsRead", "tsSet",
               "tsCheck", "wuCommit", "recheck"}

\* A step of b to phase p that changes neither the applier nor the slot,
\* starts no launch, fires none of the three assertions, keeps collExists,
\* and enters the BackgroundOperation phases only from init or within them.
LEMMA SafetyFrame ==
    ASSUME TypeOK, SafetyProps, NEW b \in Builds, NEW p \in PCs,
           pc' = [pc EXCEPT ![b] = p],
           UNCHANGED <<req, applier, bgStarting, collExists>>,
           crash' \in {crash, "invariant170", "fassert50769"},
           p \in {"lockX", "init"} => pc[b] = "lockX" /\ p = "init",
           p \in BgOpPhases => pc[b] \in BgOpPhases \cup {"init"}
    PROVE  SafetyProps'
  BY DEF SafetyProps, LockXOnlyBackground, HandshakeInv, HandshakeSlotFree, Launched,
         CollectionInv, CollectionStaysForBuild, NeedsCollection, BgOpInProgress,
         BgOpPhases, Bg, TypeOK

\* A step that moves no thread.
LEMMA SafetyStutter ==
    ASSUME SafetyProps, UNCHANGED <<req, pc, applier, bgStarting, collExists>>,
           crash' \in {crash, "invariant170", "fassert50769"}
    PROVE  SafetyProps'
  BY DEF SafetyProps, LockXOnlyBackground, HandshakeInv, HandshakeSlotFree, Launched,
         CollectionInv, CollectionStaysForBuild, NeedsCollection, BgOpInProgress, Bg

\* _failIndexBuild and what follows it: b stays where it is (the process
\* terminates) or returns, and the slot is left alone.
LEMMA FailSafety ==
    ASSUME TypeOK, SafetyProps, NEW b \in Builds, NEW status, FailIndexBuild(b, status),
           UNCHANGED <<req, applier, collExists>>
    PROVE  SafetyProps'
  <1>1. crash' \in {crash, "invariant170", "fassert50769"} /\ UNCHANGED bgStarting
    BY DEF FailIndexBuild, Exit, Cleanup
  <1>2. CASE UNCHANGED pc
    BY <1>1, <1>2, SafetyStutter
  <1>3. CASE pc' = [pc EXCEPT ![b] = "done"]
    BY <1>1, <1>3, SafetyFrame DEF PCs, BgOpPhases
  <1>4. QED
    BY <1>2, <1>3 DEF FailIndexBuild, Exit

\* init: the signal of a launched background build finds the slot empty,
\* and the collection is there.
LEMMA InitIndexSafety ==
    ASSUME TypeOK, SafetyProps, NEW b \in Builds, InitIndex(b)
    PROVE  SafetyProps'
  <1>1. pc[b] = "init" /\ collExists /\ UNCHANGED <<req, applier, collExists>>
    BY DEF InitIndex, SafetyProps, CollectionInv, NeedsCollection, envVars
  <1>2. PICK status \in {InitStatus(b), "CannotCreateIndex"} \cup Pending(b) :
          \/ status = "OK" /\ InitSucceeded(b)
          \/ Ignorable(b, status) /\ InitIgnored(b)
          \/ status # "OK" /\ ~Ignorable(b, status) /\ FailIndexBuild(b, status)
    BY <1>1 DEF InitIndex
  <1>3. CASE status # "OK" /\ ~Ignorable(b, status) /\ FailIndexBuild(b, status)
    BY <1>1, <1>3, FailSafety
  <1>4. ASSUME InitSucceeded(b) \/ InitIgnored(b)
        PROVE  SafetyProps'
    <2>1. \/ pc' = [pc EXCEPT ![b] = "downgrade"]
          \/ pc' = [pc EXCEPT ![b] = "scan"]
          \/ pc' = [pc EXCEPT ![b] = "done"]
      BY <1>4 DEF InitSucceeded, InitIgnored, Exit
    <2>2. CASE ~Bg(b)
      <3>1. UNCHANGED <<bgStarting, crash>>
        BY <1>4, <2>2 DEF InitSucceeded, InitIgnored
      <3>2. QED
        BY <1>1, <2>1, <3>1, SafetyFrame DEF PCs, BgOpPhases
    <2>3. CASE Bg(b)
      <3>1. Launched(b)
        BY <1>1, <2>3 DEF Launched
      <3>2. applier.state = "waiting" /\ applier.build = b /\ ~bgStarting
        BY <3>1 DEF SafetyProps, HandshakeInv
      <3>3. \A c \in Builds \ {b} : ~Launched(c)
        BY <3>2 DEF SafetyProps, HandshakeInv
      <3>4. bgStarting' = TRUE /\ crash' = crash
        BY <1>4, <2>3, <3>2 DEF InitSucceeded, InitIgnored, SetBgIndexStarting
      <3>5. \A c \in Builds \ {b} : pc'[c] = pc[c]
        BY <2>1 DEF TypeOK
      <3>6. pc'[b] \in {"downgrade", "scan", "done"}
        BY <2>1 DEF TypeOK
      <3>7. HandshakeInv'
        BY <1>1, <3>2, <3>3, <3>4, <3>5, <3>6 DEF SafetyProps, HandshakeInv,
           HandshakeSlotFree, Launched, Bg
      <3>8. (LockXOnlyBackground /\ CollectionInv)'
        BY <1>1, <3>4, <3>5, <3>6 DEF SafetyProps, LockXOnlyBackground, CollectionInv,
           CollectionStaysForBuild, NeedsCollection, BgOpInProgress, Bg
      <3>9. QED
        BY <3>7, <3>8 DEF SafetyProps
    <2>4. QED
      BY <2>2, <2>3
  <1>5. QED
    BY <1>2, <1>3, <1>4

LEMMA ThreadSafety ==
    ASSUME TypeOK, BackgroundOnlyPhases, SafetyProps, NEW b \in Builds, Thread(b)
    PROVE  SafetyProps'
  <1>1. CASE LockDB(b)
    <2>1. /\ pc[b] = "lockX" /\ pc' = [pc EXCEPT ![b] = "init"]
          /\ UNCHANGED <<req, applier, bgStarting, collExists, crash>>
      BY <1>1 DEF LockDB, envVars
    <2>2. QED
      BY <2>1, SafetyFrame DEF PCs, BgOpPhases
  <1>2. CASE InitIndex(b)
    BY <1>2, InitIndexSafety
  <1>3. CASE Downgrade(b)
    <2>1. /\ pc[b] = "downgrade" /\ pc' = [pc EXCEPT ![b] = "lockIX"]
          /\ UNCHANGED <<req, applier, bgStarting, collExists, crash>>
      BY <1>3 DEF Downgrade, envVars
    <2>2. QED
      BY <2>1, SafetyFrame DEF PCs, BgOpPhases
  <1>4. CASE LockIX(b)
    <2>1. /\ pc[b] = "lockIX" /\ pc' = [pc EXCEPT ![b] = "scan"]
          /\ UNCHANGED <<req, applier, bgStarting, collExists, crash>>
      BY <1>4 DEF LockIX, envVars
    <2>2. QED
      BY <2>1, SafetyFrame DEF PCs, BgOpPhases
  <1>5. CASE InsertAllDocuments(b)
    <2>1. UNCHANGED <<req, applier, collExists>> /\ pc[b] = "scan"
      BY <1>5 DEF InsertAllDocuments, envVars
    <2>2. CASE \E status \in {"IndexBuildFailed"} \cup Pending(b) : FailIndexBuild(b, status)
      BY <2>1, <2>2, FailSafety
    <2>3. CASE /\ pc' = [pc EXCEPT ![b] = "relockX"] \/ pc' = [pc EXCEPT ![b] = "commit"]
               /\ UNCHANGED <<bgStarting, crash>>
      BY <2>1, <2>3, SafetyFrame DEF PCs, BgOpPhases
    <2>4. QED
      BY <1>5, <2>2, <2>3 DEF InsertAllDocuments
  <1>6. CASE RelockX(b)
    <2>1. /\ pc[b] = "relockX" /\ pc' = [pc EXCEPT ![b] = "commit"]
          /\ UNCHANGED <<req, applier, bgStarting, collExists, crash>>
      BY <1>6 DEF RelockX, envVars
    <2>2. QED
      BY <2>1, SafetyFrame DEF PCs, BgOpPhases
  <1>7. CASE CommitIndex(b)
    <2>1. /\ pc[b] = "commit"
          /\ UNCHANGED <<req, applier, bgStarting, collExists, crash>>
          /\ \/ pc' = [pc EXCEPT ![b] = "tsRead"]
             \/ pc' = [pc EXCEPT ![b] = "wuCommit"]
      BY <1>7 DEF CommitIndex, envVars
    <2>2. QED
      BY <2>1, SafetyFrame DEF PCs, BgOpPhases
  <1>8. CASE ReadClusterTime(b)
    <2>1. /\ pc[b] = "tsRead" /\ pc' = [pc EXCEPT ![b] = "tsSet"]
          /\ UNCHANGED <<req, applier, bgStarting, collExists, crash>>
      BY <1>8 DEF ReadClusterTime, envVars
    <2>2. QED
      BY <2>1, SafetyFrame DEF PCs, BgOpPhases
  <1>9. CASE SetTimestamp(b)
    <2>1. /\ pc[b] = "tsSet"
          /\ UNCHANGED <<req, applier, bgStarting, collExists, crash>>
          /\ \/ pc' = [pc EXCEPT ![b] = "tsCheck"]
             \/ pc' = [pc EXCEPT ![b] = "wuCommit"]
      BY <1>9 DEF SetTimestamp, envVars
    <2>2. QED
      BY <2>1, SafetyFrame DEF PCs, BgOpPhases
  <1>10. CASE CheckForInterrupt(b)
    <2>1. /\ pc[b] = "tsCheck"
          /\ UNCHANGED <<req, applier, bgStarting, collExists, crash>>
          /\ \/ pc' = [pc EXCEPT ![b] = "tsRead"]
             \/ pc' = [pc EXCEPT ![b] = "done"]
      BY <1>10 DEF CheckForInterrupt, Exit, envVars
    <2>2. QED
      BY <2>1, SafetyFrame DEF PCs, BgOpPhases
  <1>11. CASE CommitUnitOfWork(b)
    <2>1. /\ pc[b] = "wuCommit"
          /\ UNCHANGED <<req, applier, bgStarting, collExists, crash>>
          /\ \/ pc' = [pc EXCEPT ![b] = "recheck"]
             \/ pc' = [pc EXCEPT ![b] = "done"]
      BY <1>11 DEF CommitUnitOfWork, Exit, envVars
    <2>2. QED
      BY <2>1, SafetyFrame DEF PCs, BgOpPhases
  <1>12. CASE CommitWriteConflict(b)
    <2>1. /\ pc[b] = "wuCommit" /\ pc' = [pc EXCEPT ![b] = "commit"]
          /\ UNCHANGED <<req, applier, bgStarting, collExists, crash>>
      BY <1>12 DEF CommitWriteConflict, envVars
    <2>2. QED
      BY <2>1, SafetyFrame DEF PCs, BgOpPhases
  <1>13. CASE Recheck(b)
    \* a build at recheck is a background build holding its
    \* BackgroundOperation, so the collection is there
    <2>1. collExists
      BY <1>13 DEF Recheck, BackgroundOnlyPhases, SafetyProps, CollectionInv,
             NeedsCollection, BgOpInProgress
    <2>2. /\ pc[b] = "recheck" /\ pc' = [pc EXCEPT ![b] = "done"]
          /\ UNCHANGED <<req, applier, bgStarting, collExists, crash>>
      BY <1>13, <2>1 DEF Recheck, envVars
    <2>3. QED
      BY <2>2, SafetyFrame DEF PCs, BgOpPhases
  <1>14. QED
    BY <1>1, <1>2, <1>3, <1>4, <1>5, <1>6, <1>7, <1>8, <1>9, <1>10, <1>11,
       <1>12, <1>13 DEF Thread

-----------------------------------------------------------------------------
(* The applier, the foreground callers, the environment and the drop.      *)

LEMMA CallersSafety ==
    ASSUME TypeOK, SafetyProps, Callers
    PROVE  SafetyProps'
  <1>1. CASE \E b \in Builds : Launch(b)
    \* an idle applier has no launched build and an empty slot
    <2>1. PICK b \in Builds : Launch(b)
      BY <1>1
    <2>2. \A c \in Builds : ~Launched(c)
      BY <2>1 DEF Launch, SafetyProps, HandshakeInv
    <2>3. QED
      BY <2>1, <2>2 DEF Launch, SafetyProps, LockXOnlyBackground, HandshakeInv,
         HandshakeSlotFree, Launched, CollectionInv, CollectionStaysForBuild,
         NeedsCollection, BgOpInProgress, Bg, envVars, TypeOK
  <1>2. CASE \E b \in Builds : StartForeground(b)
    BY <1>2 DEF StartForeground, SafetyProps, LockXOnlyBackground, HandshakeInv,
       HandshakeSlotFree, Launched, CollectionInv, CollectionStaysForBuild,
       NeedsCollection, BgOpInProgress, Bg, envVars, TypeOK
  <1>3. CASE WaitForBgIndexStarting
    \* a full slot means no launched build is still on its way to init
    <2>1. \A c \in Builds : ~Launched(c)
      BY <1>3 DEF WaitForBgIndexStarting, SafetyProps, HandshakeInv
    <2>2. QED
      BY <1>3, <2>1 DEF WaitForBgIndexStarting, SafetyProps, LockXOnlyBackground,
         HandshakeInv, HandshakeSlotFree, Launched, CollectionInv,
         CollectionStaysForBuild, NeedsCollection, BgOpInProgress, Bg, envVars
  <1>4. QED
    BY <1>1, <1>2, <1>3 DEF Callers

LEMMA EnvironmentSafety ==
    ASSUME SafetyProps, Environment
    PROVE  SafetyProps'
  <1>1. UNCHANGED collExists
    BY DEF Environment, AdvanceClusterTime, AdvanceOldestTimestamp, KillOp, Shutdown
  <1>2. QED
    BY <1>1 DEF Environment, SafetyProps, LockXOnlyBackground, HandshakeInv,
       HandshakeSlotFree, Launched, CollectionInv, CollectionStaysForBuild,
       NeedsCollection, BgOpInProgress, Bg

\* The drop finds no build that needs the collection: a launched build keeps
\* the applier waiting, a foreground build at init holds MODE_X, and a
\* background build past init holds its BackgroundOperation.
LEMMA DropSafety ==
    ASSUME TypeOK, LockPhase, SafetyProps, DropCollection
    PROVE  SafetyProps'
  <1>1. \A b \in Builds : ~NeedsCollection(b)
    <2> SUFFICES ASSUME NEW b \in Builds, NeedsCollection(b) PROVE FALSE
      OBVIOUS
    <2>1. CASE Bg(b) /\ pc[b] \in {"lockX", "init"}
      BY <2>1 DEF DropCollection, SafetyProps, HandshakeInv, Launched
    <2>2. CASE ~Bg(b) /\ pc[b] \in {"lockX", "init"}
      <3>1. pc[b] = "init"
        BY <2>2 DEF SafetyProps, LockXOnlyBackground
      <3>2. xHolder = b
        BY <3>1 DEF LockPhase, XPhase
      <3>3. QED
        BY <3>2, ConstantsAssumption DEF DropCollection
    <2>3. CASE BgOpInProgress(b)
      BY <2>3 DEF DropCollection
    <2>4. QED
      BY <2>1, <2>2, <2>3 DEF NeedsCollection
  <1>2. QED
    BY <1>1 DEF DropCollection, SafetyProps, LockXOnlyBackground, HandshakeInv,
       HandshakeSlotFree, Launched, CollectionInv, CollectionStaysForBuild,
       NeedsCollection, BgOpInProgress, Bg

-----------------------------------------------------------------------------
(* The theorems.                                                           *)

LEMMA SafetyInit ==
    Init => SafetyProps
  BY DEF Init, SafetyProps, LockXOnlyBackground, HandshakeInv, HandshakeSlotFree,
     Launched, CollectionInv, CollectionStaysForBuild, NeedsCollection, BgOpInProgress

LEMMA SafetyStep ==
    ASSUME LockInv, SafetyProps, [Next]_vars
    PROVE  SafetyProps'
  <1> USE DEF LockInv
  <1>1. CASE \E b \in Builds : crash = "none" /\ Thread(b)
    BY <1>1, ThreadSafety
  <1>2. CASE crash = "none" /\ Callers
    BY <1>2, CallersSafety
  <1>3. CASE crash = "none" /\ Environment
    BY <1>3, EnvironmentSafety
  <1>4. CASE crash = "none" /\ DropCollection
    BY <1>4, DropSafety
  <1>5. CASE UNCHANGED vars
    BY <1>5 DEF vars, SafetyProps, LockXOnlyBackground, HandshakeInv,
       HandshakeSlotFree, Launched, CollectionInv, CollectionStaysForBuild,
       NeedsCollection, BgOpInProgress, Bg
  <1>6. QED
    BY <1>1, <1>2, <1>3, <1>4, <1>5 DEF Next

LEMMA SafetyInvariant == Spec => []SafetyInv
  <1>1. Spec => []LockInv
    BY TypeCorrect, LockPhaseInvariant, BackgroundOnly, PTL DEF LockInv
  <1>2. Spec => []SafetyProps
    BY <1>1, SafetyInit, SafetyStep, PTL DEF Spec
  <1>3. QED
    BY <1>1, <1>2, PTL DEF SafetyInv

\* The single-slot handshake never overflows, for any number of builds:
\* _setBgIndexStarting's invariant(_bgIndexStarting == false) at 101 never
\* fires, because the applier launches a background build only when it is
\* idle and then waits for that build's signal alone.
THEOREM HandshakeTheorem == Spec => []HandshakeSlotFree
  BY SafetyInvariant, PTL DEF SafetyInv, SafetyProps, HandshakeInv

\* fasserts 40409 and 28554 never fire: no drop of the collection applied
\* by the oplog applier lands between a build's launch and its init, or
\* under a background build before its re-check.
THEOREM CollectionTheorem == Spec => []CollectionStaysForBuild
  BY SafetyInvariant, PTL DEF SafetyInv, SafetyProps, CollectionInv

=============================================================================
