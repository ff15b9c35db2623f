----------------------- MODULE IndexBuilderTimestamps -----------------------
(***************************************************************************)
(* Proof, for every value of the constants, that the commit of an index    *)
(* build stamps the catalog entry as requiresGhostCommitTimestamp demands, *)
(* and that ghost stamps follow the commit order (GhostCommitTimestamp).   *)
(*                                                                         *)
(* The argument.  Only CommitUnitOfWork readies an entry, and it stamps it *)
(* with readTs[b].  So what must hold is a fact about readTs[b] whenever b *)
(* is at wuCommit, and that fact needs the whole commit lambda (243-268):  *)
(* CommitIndex clears readTs[b] and enters the tryTimestamp loop only for  *)
(* a build that requires a ghost timestamp; ReadClusterTime sets it to the *)
(* cluster time, which is no earlier than any stamp in the catalog; the    *)
(* clock only moves forward; a rejected setTimestamp and a write conflict  *)
(* go back to a point that reads or clears it again.  Between the read and *)
(* wunit.commit() no other build commits, because the reader holds MODE_X  *)
(* (LockPhase, proved in IndexBuilderProofs).                              *)
(***************************************************************************)
EXTENDS IndexBuilderProofs

\* b requiresGhostCommitTimestamp.
Ghost(b) == RequiresGhostCommitTimestamp(req[b].nss, req[b].callerTs)

\* The tryTimestamp loop, 249-265.
LoopPhases == {"tsRead", "tsSet", "tsCheck"}

\* Every stamp in the catalog is at most x.
StampedBelow(x) == \A m \in Names : catalog[m].ts # NoTs => catalog[m].ts <= x

\* The inductive invariant: the catalog's stamps are times the clock has
\* reached; only a ghost-timestamped build runs the loop; once it has read
\* the clock, the timestamp it holds is one the clock reached and no earlier
\* than any stamp in the catalog; any other build reaches wunit.commit()
\* with no timestamp.
GhostInv ==
    /\ StampedBelow(clusterTime)
    /\ \A b \in Builds :
        /\ pc[b] \in LoopPhases => Ghost(b)
        /\ pc[b] \in {"tsSet", "tsCheck", "wuCommit"} /\ Ghost(b) =>
              readTs[b] \in 0..clusterTime /\ StampedBelow(readTs[b])
        /\ pc[b] = "wuCommit" /\ ~Ghost(b) => readTs[b] = NoTs

-----------------------------------------------------------------------------
(* Frames.                                                                 *)

\* No entry becomes ready, nor does a ready entry change.
KeepsReady == \A n \in Names : catalog'[n].state = "ready" => catalog'[n] = catalog[n]

\* Every entry is left alone or left with no stamp.
Unstamps == \A n \in Names : catalog'[n] = catalog[n] \/ catalog'[n].ts = NoTs

\* A catalog that only loses stamps keeps every bound on them.
LEMMA StampsShrink ==
    ASSUME NEW x, Unstamps, StampedBelow(x)
    PROVE  \A m \in Names : catalog'[m].ts # NoTs => catalog'[m].ts <= x
  BY DEF Unstamps, StampedBelow

\* The bound StampedAtCommit asks of a new ghost stamp.
LEMMA StampsBelow ==
    ASSUME NEW x, StampedBelow(x)
    PROVE  \A t \in GhostStamps : t <= x
  BY DEF StampedBelow, GhostStamps

\* A step of b to a phase outside the commit lambda's timestamp handling,
\* with the clock and the timestamps left alone and no stamp added.
LEMMA GhostFrame ==
    ASSUME TypeOK, GhostInv, NEW b \in Builds, NEW p,
           pc' = [pc EXCEPT ![b] = p],
           p \notin LoopPhases \cup {"wuCommit"},
           UNCHANGED <<req, readTs, clusterTime>>, Unstamps
    PROVE  GhostInv'
  <1>1. StampedBelow(clusterTime)'
    BY StampsShrink DEF GhostInv, StampedBelow
  <1>2. ASSUME NEW c \in Builds, pc'[c] \in {"tsSet", "tsCheck", "wuCommit"}, Ghost(c)'
        PROVE  StampedBelow(readTs[c])'
    <2>1. c # b /\ pc'[c] = pc[c]
      BY <1>2 DEF TypeOK, LoopPhases
    <2>2. StampedBelow(readTs[c])
      BY <1>2, <2>1 DEF GhostInv, Ghost
    <2>3. QED
      BY <2>2, StampsShrink DEF StampedBelow
  <1>3. QED
    BY <1>1, <1>2 DEF GhostInv, Ghost, TypeOK, LoopPhases

\* A step that moves no thread, adds no stamp and at most advances the clock.
LEMMA GhostStutter ==
    ASSUME TypeOK, GhostInv, UNCHANGED <<req, pc, readTs>>,
           clusterTime' \in {clusterTime, clusterTime + 1}, Unstamps
    PROVE  GhostInv'
  <1>1. StampedBelow(clusterTime)'
    <2>1. \A m \in Names : catalog'[m].ts # NoTs =>
             catalog'[m].ts = catalog[m].ts /\ catalog[m].ts <= clusterTime
      BY DEF Unstamps, GhostInv, StampedBelow
    <2>2. QED
      BY <2>1 DEF StampedBelow, TypeOK, Ts, Entry
  <1>2. ASSUME NEW c \in Builds, pc'[c] \in {"tsSet", "tsCheck", "wuCommit"}, Ghost(c)'
        PROVE  StampedBelow(readTs[c])'
    <2>1. StampedBelow(readTs[c])
      BY <1>2 DEF GhostInv, Ghost
    <2>2. QED
      BY <2>1, StampsShrink DEF StampedBelow
  <1>3. QED
    BY <1>1, <1>2 DEF GhostInv, Ghost, TypeOK, Ts

\* ~MultiIndexBlock removes an entry or leaves it alone.
LEMMA CleanupKeepsReady ==
    ASSUME TypeOK, NEW b \in Builds, Cleanup(b)
    PROVE  KeepsReady /\ Unstamps
  BY RequestFields DEF Cleanup, KeepsReady, Unstamps, AbsentEntry, TypeOK

\* _failIndexBuild: b stays (the process terminates) or returns, and the
\* catalog only loses an entry.
LEMMA FailGhost ==
    ASSUME TypeOK, GhostInv, NEW b \in Builds, NEW status, FailIndexBuild(b, status),
           UNCHANGED <<req, readTs, clusterTime>>
    PROVE  GhostInv' /\ KeepsReady
  <1>1. KeepsReady /\ Unstamps
    BY CleanupKeepsReady DEF FailIndexBuild, KeepsReady, Unstamps
  <1>2. GhostInv'
    <2>1. CASE UNCHANGED pc
      BY <1>1, <2>1, GhostStutter
    <2>2. CASE pc' = [pc EXCEPT ![b] = "done"]
      BY <1>1, <2>2, GhostFrame DEF LoopPhases
    <2>3. QED
      BY <2>1, <2>2 DEF FailIndexBuild, Exit
  <1>3. QED
    BY <1>1, <1>2

\* A step that readies nothing satisfies StampedAtCommit vacuously.
LEMMA KeepsReadyStamped ==
    ASSUME KeepsReady
    PROVE  StampedAtCommit
  BY DEF KeepsReady, StampedAtCommit

-----------------------------------------------------------------------------
(* The steps of a build thread.                                            *)

\* While b is in the commit lambda it holds MODE_X, so no other build is.
LEMMA CommitExclusive ==
    ASSUME LockPhase, NEW b \in Builds, NEW c \in Builds \ {b},
           pc[b] \in {"commit"} \cup LoopPhases \cup {"wuCommit"}
    PROVE  pc[c] \notin {"commit"} \cup LoopPhases \cup {"wuCommit"}
  BY DEF LockPhase, XPhase, LoopPhases

\* wunit.commit(): the only step that readies an entry, stamped with the
\* timestamp b holds; no other build is between its read and its commit.
LEMMA CommitGhost ==
    ASSUME TypeOK, LockPhase, GhostInv, NEW b \in Builds, CommitUnitOfWork(b)
    PROVE  GhostInv' /\ StampedAtCommit
  <1>1. pc[b] = "wuCommit" /\ UNCHANGED <<req, readTs, clusterTime>>
    BY DEF CommitUnitOfWork, envVars
  <1>2. \A c \in Builds \ {b} : pc[c] \notin {"commit"} \cup LoopPhases \cup {"wuCommit"}
    BY <1>1, CommitExclusive
  <1>3. pc' = [pc EXCEPT ![b] = "recheck"] \/ pc' = [pc EXCEPT ![b] = "done"]
    BY DEF CommitUnitOfWork, Exit
  <1>4. catalog' = [catalog EXCEPT ![Name(b)] =
                      [catalog[Name(b)] EXCEPT !.state = "ready", !.ts = readTs[b]]]
    BY DEF CommitUnitOfWork
  <1>5. Name(b) \in Names
    BY RequestFields DEF TypeOK
  <1>6. IF Ghost(b) THEN readTs[b] \in 0..clusterTime /\ StampedBelow(readTs[b])
                    ELSE readTs[b] = NoTs
    BY <1>1 DEF GhostInv
  <1>7. \A m \in Names : catalog'[m].ts = IF m = Name(b) THEN readTs[b] ELSE catalog[m].ts
    BY <1>4, <1>5 DEF TypeOK, Entry
  <1>8. GhostInv'
    <2>1. StampedBelow(clusterTime)'
      BY <1>1, <1>6, <1>7 DEF GhostInv, StampedBelow, TypeOK, Ts, NoTs
    <2>2. \A c \in Builds : pc'[c] \notin LoopPhases \cup {"wuCommit"}
      BY <1>2, <1>3 DEF TypeOK, LoopPhases
    <2>3. QED
      BY <2>1, <2>2 DEF GhostInv, LoopPhases
  <1>9. StampedAtCommit
    <2> SUFFICES ASSUME NEW n \in Names,
                        catalog'[n].state = "ready", catalog'[n] # catalog[n]
                 PROVE  \E c \in Builds :
                           /\ Name(c) = n
                           /\ pc[c] = "wuCommit"
                           /\ IF RequiresGhostCommitTimestamp(req[c].nss, req[c].callerTs)
                                THEN /\ catalog'[n].ts \in 0..clusterTime
                                     /\ \A t \in GhostStamps : t <= catalog'[n].ts
                                ELSE catalog'[n].ts = NoTs
      BY DEF StampedAtCommit
    <2>1. n = Name(b)
      BY <1>4, <1>5 DEF TypeOK
    <2>2. catalog'[n].ts = readTs[b]
      BY <1>7, <2>1
    <2>3. Ghost(b) => \A t \in GhostStamps : t <= readTs[b]
      BY <1>6, StampsBelow
    <2>4. QED
      BY <1>1, <1>6, <2>1, <2>2, <2>3 DEF Ghost
  <1>10. QED
    BY <1>8, <1>9

\* CommitIndex, ReadClusterTime and SetTimestamp: the entry and the exit of
\* the tryTimestamp loop.  The read takes the clock, which no stamp in the
\* catalog is later than.
LEMMA LoopGhost ==
    ASSUME TypeOK, GhostInv, NEW b \in Builds,
           CommitIndex(b) \/ ReadClusterTime(b) \/ SetTimestamp(b)
    PROVE  GhostInv' /\ KeepsReady
  <1>1. UNCHANGED <<req, catalog, clusterTime>>
    BY DEF CommitIndex, ReadClusterTime, SetTimestamp, envVars
  <1>2. KeepsReady
    BY <1>1 DEF KeepsReady
  <1>3. \A c \in Builds \ {b} : pc'[c] = pc[c] /\ readTs'[c] = readTs[c]
    BY DEF CommitIndex, ReadClusterTime, SetTimestamp, TypeOK
  <1>5. /\ pc'[b] \in LoopPhases => Ghost(b)
        /\ pc'[b] \in {"tsSet", "tsCheck", "wuCommit"} /\ Ghost(b) =>
              readTs'[b] \in 0..clusterTime /\ StampedBelow(readTs'[b])
        /\ pc'[b] = "wuCommit" /\ ~Ghost(b) => readTs'[b] = NoTs
    <2>1. CASE CommitIndex(b)
      BY <2>1 DEF CommitIndex, Ghost, LoopPhases, TypeOK
    <2>2. CASE ReadClusterTime(b)
      BY <2>2 DEF ReadClusterTime, GhostInv, LoopPhases, TypeOK, Ts
    <2>3. CASE SetTimestamp(b)
      BY <2>3 DEF SetTimestamp, GhostInv, LoopPhases, TypeOK
    <2>4. QED
      BY <2>1, <2>2, <2>3
  <1>6. GhostInv'
    BY <1>1, <1>3, <1>5 DEF GhostInv, Ghost, StampedBelow
  <1>7. QED
    BY <1>2, <1>6

\* Every step of a build thread.
LEMMA ThreadGhost ==
    ASSUME TypeOK, LockPhase, GhostInv, NEW b \in Builds, Thread(b)
    PROVE  GhostInv' /\ StampedAtCommit
  <1>1. CASE LockDB(b) \/ Downgrade(b) \/ LockIX(b) \/ RelockX(b) \/ CommitWriteConflict(b)
    <2>1. UNCHANGED <<req, catalog, readTs, clusterTime>>
      BY <1>1 DEF LockDB, Downgrade, LockIX, RelockX, CommitWriteConflict, envVars
    <2>2. \E p \in {"init", "lockIX", "scan", "commit"} : pc' = [pc EXCEPT ![b] = p]
      BY <1>1 DEF LockDB, Downgrade, LockIX, RelockX, CommitWriteConflict
    <2>3. QED
      BY <2>1, <2>2, GhostFrame, KeepsReadyStamped DEF LoopPhases, KeepsReady, Unstamps
  <1>2. CASE InitIndex(b)
    <2>1. UNCHANGED <<req, readTs, clusterTime>>
      BY <1>2 DEF InitIndex, envVars
    <2>2. CASE UNCHANGED <<pc, catalog>>
      BY <2>1, <2>2, GhostStutter, KeepsReadyStamped DEF KeepsReady, Unstamps
    <2>3. CASE InitSucceeded(b)
      <3>1. KeepsReady /\ Unstamps
        BY <2>3, RequestFields DEF InitSucceeded, KeepsReady, Unstamps, TypeOK
      <3>2. \E p \in {"downgrade", "scan"} : pc' = [pc EXCEPT ![b] = p]
        BY <2>3 DEF InitSucceeded
      <3>3. QED
        BY <2>1, <3>1, <3>2, GhostFrame, KeepsReadyStamped DEF LoopPhases
    <2>4. CASE InitIgnored(b)
      BY <2>1, <2>4, GhostFrame, KeepsReadyStamped DEF InitIgnored, Exit, KeepsReady,
         Unstamps, LoopPhases
    <2>5. CASE \E status : FailIndexBuild(b, status)
      BY <2>1, <2>5, FailGhost, KeepsReadyStamped
    <2>6. \/ UNCHANGED <<pc, catalog>>
          \/ InitSucceeded(b)
          \/ InitIgnored(b)
          \/ \E status : FailIndexBuild(b, status)
      BY <1>2 DEF InitIndex
    <2>7. QED
      BY <2>2, <2>3, <2>4, <2>5, <2>6
  <1>3. CASE InsertAllDocuments(b)
    <2>1. UNCHANGED <<req, readTs, clusterTime>>
      BY <1>3 DEF InsertAllDocuments, envVars
    <2>2. CASE /\ pc' = [pc EXCEPT ![b] = "relockX"] \/ pc' = [pc EXCEPT ![b] = "commit"]
               /\ UNCHANGED catalog
      BY <2>1, <2>2, GhostFrame, KeepsReadyStamped DEF LoopPhases, KeepsReady, Unstamps
    <2>3. CASE \E status : FailIndexBuild(b, status)
      BY <2>1, <2>3, FailGhost, KeepsReadyStamped
    <2>4. \/ /\ pc' = [pc EXCEPT ![b] = "relockX"] \/ pc' = [pc EXCEPT ![b] = "commit"]
             /\ UNCHANGED catalog
          \/ \E status : FailIndexBuild(b, status)
      BY <1>3 DEF InsertAllDocuments
    <2>5. QED
      BY <2>2, <2>3, <2>4
  <1>4. CASE CommitIndex(b) \/ ReadClusterTime(b) \/ SetTimestamp(b)
    BY <1>4, LoopGhost, KeepsReadyStamped
  <1>5. CASE CheckForInterrupt(b)
    \* the retry re-enters the loop from inside it; the interruption returns
    <2>1. pc[b] = "tsCheck" /\ UNCHANGED <<req, readTs, clusterTime>>
      BY <1>5 DEF CheckForInterrupt, envVars
    <2>2. CASE pc' = [pc EXCEPT ![b] = "tsRead"] /\ UNCHANGED catalog
      <3>1. Ghost(b)
        BY <2>1 DEF GhostInv, LoopPhases
      <3>2. GhostInv'
        BY <2>1, <2>2, <3>1 DEF GhostInv, Ghost, LoopPhases, TypeOK, StampedBelow
      <3>3. QED
        BY <2>2, <3>2, KeepsReadyStamped DEF KeepsReady
    <2>3. CASE Cleanup(b) /\ Exit(b)
      BY <2>1, <2>3, GhostFrame, CleanupKeepsReady, KeepsReadyStamped DEF Exit, LoopPhases
    <2>4. QED
      BY <1>5, <2>2, <2>3 DEF CheckForInterrupt
  <1>6. CASE CommitUnitOfWork(b)
    BY <1>6, CommitGhost
  <1>7. CASE Recheck(b)
    <2>1. UNCHANGED <<req, catalog, readTs, clusterTime>>
      BY <1>7 DEF Recheck, envVars
    <2>2. UNCHANGED pc \/ pc' = [pc EXCEPT ![b] = "done"]
      BY <1>7 DEF Recheck
    <2>3. QED
      BY <2>1, <2>2, GhostFrame, GhostStutter, KeepsReadyStamped DEF LoopPhases, KeepsReady,
         Unstamps
  <1>8. QED
    BY <1>1, <1>2, <1>3, <1>4, <1>5, <1>6, <1>7 DEF Thread

-----------------------------------------------------------------------------
(* The applier, the foreground callers, the environment and the drop.      *)

\* Launch and StartForeground move a build out of "start" to lockX or init;
\* the applier's wake-up moves no build.
LEMMA CallersGhost ==
    ASSUME TypeOK, GhostInv, Callers
    PROVE  GhostInv' /\ StampedAtCommit
  <1>1. UNCHANGED <<req, catalog, readTs, clusterTime>>
    BY DEF Callers, Launch, StartForeground, WaitForBgIndexStarting, envVars
  <1>2. StampedAtCommit
    BY <1>1, KeepsReadyStamped DEF KeepsReady
  <1>3. GhostInv'
    <2>1. CASE \E b \in Builds : Launch(b) \/ StartForeground(b)
      <3>1. PICK b \in Builds : \E p \in {"lockX", "init"} : pc' = [pc EXCEPT ![b] = p]
        BY <2>1 DEF Launch, StartForeground
      <3>2. QED
        BY <1>1, <3>1, GhostFrame DEF LoopPhases, Unstamps
    <2>2. CASE WaitForBgIndexStarting
      BY <1>1, <2>2, GhostStutter DEF WaitForBgIndexStarting, Unstamps
    <2>3. QED
      BY <2>1, <2>2 DEF Callers
  <1>4. QED
    BY <1>2, <1>3

\* The clock only moves forward, one tick at a time.
LEMMA EnvironmentGhost ==
    ASSUME TypeOK, GhostInv, Environment
    PROVE  GhostInv' /\ StampedAtCommit
  <1>1. clusterTime' \in {clusterTime, clusterTime + 1}
    BY DEF Environment, AdvanceClusterTime, AdvanceOldestTimestamp, KillOp, Shutdown
  <1>2. QED
    BY <1>1, GhostStutter, KeepsReadyStamped DEF Environment, KeepsReady, Unstamps

\* A drop empties the catalog and moves no build.
LEMMA DropGhost ==
    ASSUME TypeOK, GhostInv, DropCollection
    PROVE  GhostInv' /\ StampedAtCommit
  <1>1. KeepsReady /\ Unstamps
    BY DEF DropCollection, KeepsReady, Unstamps, AbsentEntry
  <1>2. QED
    BY <1>1, GhostStutter, KeepsReadyStamped DEF DropCollection

-----------------------------------------------------------------------------
(* The theorem.                                                            *)

LEMMA GhostInit ==
    Init => GhostInv
  BY DEF Init, GhostInv, LoopPhases, StampedBelow, AbsentEntry

LEMMA GhostStep ==
    ASSUME TypeOK, LockPhase, GhostInv, [Next]_vars
    PROVE  GhostInv' /\ [StampedAtCommit]_vars
  <1>1. CASE \E b \in Builds : crash = "none" /\ Thread(b)
    BY <1>1, ThreadGhost
  <1>2. CASE crash = "none" /\ Callers
    BY <1>2, CallersGhost
  <1>3. CASE crash = "none" /\ Environment
    BY <1>3, EnvironmentGhost
  <1>4. CASE crash = "none" /\ DropCollection
    BY <1>4, DropGhost
  <1>5. CASE UNCHANGED vars
    BY <1>5 DEF vars, GhostInv, Ghost, StampedBelow
  <1>6. QED
    BY <1>1, <1>2, <1>3, <1>4, <1>5 DEF Next

LEMMA GhostInvariant == Spec => []GhostInv
  <1>1. TypeOK /\ LockPhase /\ GhostInv /\ [Next]_vars => GhostInv'
    BY GhostStep
  <1>2. QED
    BY <1>1, GhostInit, TypeCorrect, LockPhaseInvariant, PTL DEF Spec

\* The commit of an index build stamps its catalog entry as
\* requiresGhostCommitTimestamp demands, for every value of the constants: a
\* build on a replicated namespace of a replica set member past startup2
\* with no caller's timestamp commits at a cluster time the clock has
\* reached and no earlier than the ghost stamp of any index readied before
\* it, however often setTimestamp rejected a timestamp or a write conflict
\* ran the commit lambda (243-268) again; every other build commits
\* untimestamped.
THEOREM GhostTimestampTheorem == Spec => GhostCommitTimestamp
  <1>1. TypeOK /\ LockPhase /\ GhostInv /\ [Next]_vars => [StampedAtCommit]_vars
    BY GhostStep
  <1>2. QED
    BY <1>1, GhostInvariant, TypeCorrect, LockPhaseInvariant, PTL
    DEF Spec, GhostCommitTimestamp

=============================================================================
