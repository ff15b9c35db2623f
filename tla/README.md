# TLA+ models of the index builder and the setParameter command

This directory holds TLA+ models of the three source files of this repository.

| File | What it holds | Modelled? |
|---|---|---|
| `src/src/mongo/db/index_builder.cpp` | The `IndexBuilder` job, the core of the system. | Yes |
| `src/src/mongo/db/commands/parameters.cpp` | The `getParameter` and `setParameter` commands and the server parameters they drive. | Yes |
| `src/src/mongo/db/stats/counters.h` | Counter declarations. | No |

Each model has TLC configurations that check it on small instances. An abstract specification of the catalog (`IndexCatalog.tla`) says what the index builds promise it, and the index-builder model is shown to implement it. An abstract specification of the set loop (`SetParameterLoop.tla`) says what a setParameter command promises, and the setParameter model is shown to implement it.

TLAPS proves, for every value of the constants, eight theorems about the index builder:
- type correctness;
- the lock discipline;
- the registration invariant;
- that no unfinished index is orphaned;
- the refinement of the catalog;
- that the handshake slot never overflows;
- that no build finds its collection dropped;
- that a commit stamps the index with the ghost timestamp its build requires, and that ghost stamps follow the commit order (an action property).

It proves five about setParameter:
- type correctness;
- the ordered partial application of SERVER-8552;
- that no rejected value is stored;
- that a failing step changes no setting (an action property);
- the refinement of the set loop.

## 1. Inventory

### 1.1 IndexBuilder (`index_builder.cpp`)

**State that lives in this file:**
- `_bgIndexStarting`, a single-slot flag. Its mutex and condition variable are at lines 95-97.
- The database lock that one build holds and relocks. This is the `Lock::DBLock` at line 136, and the `relockWithMode` calls at 228, 241 and 271.
- The `MultiIndexBlock` of each build. Its `init` registers an unfinished catalog entry, `commit` makes it ready, and its destructor drops an unfinished entry.
- The ghost-commit timestamp that the commit sets from the cluster time (lines 249-265).

**Operations:**
- `run` is the background thread (120-146).
- `buildInForeground` runs on the caller's thread, under the caller's lock (148-150).
- `waitForBgIndexStarting` is called by the oplog applier after it launches a background build (152-159).
- `_setBgIndexStarting` is the signal (99-104).
- `_failIndexBuild` classifies failures (165-181).
- `_build` runs the phases:
  1. init under `writeConflictRetry`;
  2. for a background build, signal, then downgrade to MODE_IX;
  3. scan;
  4. for a background build, relock MODE_X;
  5. commit under `writeConflictRetry`, with the timestamp retry loop inside;
  6. for a background build, relock MODE_X and re-check the database and collection.

**Collaborators outside this repository, modelled from the spec:**
- the indexer (`MultiIndexBlock`);
- the oplog applier that launches background builds and applies drops of the collection;
- the logical clock;
- the storage engine's oldest timestamp;
- `killOp`;
- shutdown;
- a drop of the collection.

**What makes it hard:**
- two threads may hand over the single-slot flag;
- the lock is released and re-acquired between phases;
- the cluster time read races the oldest timestamp;
- the retry loops are unbounded;
- interruption can happen at any phase;
- a drop of the collection must never land under a build: it needs MODE_X and waits for the `BackgroundOperation` that a background `MultiIndexBlock` holds;
- failures split three ways: return the status, terminate the process, or abandon the entry for restart.

### 1.2 setParameter (`parameters.cpp`)

**`CmdSet::errmsgRun` (145-235)** validates every field first:
- generic arguments are skipped;
- an unknown, startup-only or repeated name fails the command with `errmsg` before any `set()`.

It then calls `set()` in the order of the `std::map` of parameter names. A failing `set()` throws and leaves the earlier parameters set (the comment at 203-205, SERVER-8552). A command with nothing to set ends in "no option found to set".

**The `set()` of each parameter in this file:**
- `logLevel` and `logComponentVerbosity` both write the global log domain; `logLevel` writes the default component.
- `readOnly` and `isImplicitCreateCol` accept a Bool only.
- `automationServiceDescriptor` accepts a string of at most 64 bytes and stores it under its own mutex.
- `allowCommands` splits the string with `boost::split(..., is_any_of(", "))`, which keeps empty tokens. Every token must be a disable command.
- `maxIncomingConnections` and `maxInternalIncomingConnections` take two steps: first the ServiceEntryPoint limit, then `serverGlobalParams`.

Nothing serialises two `setParameter` commands.

`CmdGet::errmsgRun` (95-116) only reads.

### 1.3 counters.h

Declarations of `OpCounters` and `NetworkCounter`. Their bodies are not in this repository, and there is no state change to model.

## 2. Modules and how they map to the code

### `IndexBuilder.tla`

**Constants:**
- `Builds` and the requests they may carry (name, options, `relaxConstraints`, background or foreground, kind of namespace, caller commit timestamp);
- `UsingReplSets` and `MemberState`;
- `MaxTs`, the bound of the clock;
- which `Interrupts` the environment delivers: `killOp`, `shutdown` and `drop`.

**Variables:**

| Variable | Models |
|---|---|
| `pc[b]` | Where thread `b` is in `run`/`_build` |
| `xHolder`, `ixHolders` | The database lock |
| `catalog` | The index's catalog entry: absent, building or ready |
| `registered[b]` | Whether `b`'s `MultiIndexBlock` still has to clean up |
| `bgStarting` | `_bgIndexStarting` |
| `applier` | The thread in `waitForBgIndexStarting` |
| `readTs` | The cluster time `tryTimestamp` read |
| `clusterTime`, `oldestTs` | The clock and the storage engine |
| `killed`, `shutdown` | Interruptions |
| `crash` | The `invariant` or `fassert` that terminated the process |
| `collExists` | Whether the collection exists (the look-ups at 190 and 274) |

`BgOpInProgress(b)` is derived from `pc`: a background `MultiIndexBlock` (200-203) holds a `BackgroundOperation` from a successful init until `_build` returns.

**Actions.** There is one action per step of the code. `PROJECT.json` "map" gives the lines of each.
- `LockDB`
- `InitIndex`, with the outcomes `InitSucceeded`, `InitIgnored` and `FailIndexBuild`
- `Downgrade` and `LockIX`: the two halves of `relockWithMode(MODE_IX)`
- `InsertAllDocuments`
- `RelockX`
- `CommitIndex`
- `ReadClusterTime`
- `SetTimestamp`
- `CheckForInterrupt`
- `CommitUnitOfWork` and `CommitWriteConflict`
- `Recheck`
- `Launch`, `WaitForBgIndexStarting` and `StartForeground`. A foreground caller already holds MODE_X when it calls `buildInForeground`, so `StartForeground` takes the lock in the same step.
- `AdvanceClusterTime`, `AdvanceOldestTimestamp`, `KillOp` and `Shutdown`
- `DropCollection`: the applier drops the collection, under MODE_X, when it is not waiting on a build and no `BackgroundOperation` is in progress. `InitIndex` fires fassert 40409 and `Recheck` fires fassert 28554 if the collection is gone.

**Where a release is folded into another step.** A lock release that ends a step is folded into that step. It is a left mover, so nothing observable depends on it being separate. This applies to:
- the release of MODE_IX after the scan;
- the release of MODE_X after `wunit.commit()`.

**Abstractions:**
- A write conflict during init rolls init back and retries it, so it is a stutter.
- Lock acquisitions are not interruptible.
- `setTimestamp`'s other errors (fassert 50701) are left out.

### `IndexCatalog.tla` and the refinement

`IndexCatalog` is the abstract catalog: one entry per index name, with the actions `Begin` (absent to unfinished), `Commit` (unfinished to ready, options unchanged, with a commit timestamp), `Abort` (unfinished to absent) and `DropAll` (every entry to absent, allowed only when no entry is unfinished). `IndexBuilder` defines `Cat == INSTANCE IndexCatalog WITH entries <- catalog, Stamps <- Ts, NoStamp <- NoTs`. `CatalogRefinement == Cat!Spec` is checked by TLC and proved by TLAPS. Every step of the builds is then a catalog step or leaves the catalog alone:
- a successful init is a `Begin`;
- `wunit.commit()` is a `Commit`;
- `~MultiIndexBlock` of a registered build is an `Abort`;
- the drop is a `DropAll`.

### `ServerParameters.tla`

**Constants:**
- the clients, and the commands they may send;
- the generic and startup-only names;
- the log components;
- the words that strings are made of;
- the disable commands.

**Elements.** A BSON element is a record with one field per type the handlers read. A string is a sequence of atoms: opaque words and the delimiters `,` and space. `Split` therefore is `boost::split`: the tokens between delimiters, empty ones kept.

**Actions.** One per handler, its error returns included:
- `Validate`: the validation loop, then the sort into map order;
- `SetLogLevel`, `SetLogComponentVerbosity`, `SetReadOnly`, `SetIsImplicitCreateCol`, `SetAutomationServiceDescriptor`, `SetAllowCommands`;
- `SetMaxNumConnections` and `PublishMaxConns`: the two steps of the connection-limit `set()`.

**Auxiliary variable.** `applied[c]` is the set form of `numSet`: the parameters whose `set()` returned OK.

**The map and the loop.**
- `todo[c]` is the `std::map parametersToSet` as a function from names to elements, less the entries the loop has passed.
- `Param(c)` is the entry under the iterator. A `std::map` iterates from `begin()`, its least key, so `Param(c)` is the name of least `Rank` left, where `Rank` is the position in the sorted list of runtime names.
- `Rest(c)` is what `++it` leaves.

**`Split`, reasoned about.** `Split` is written with the set of cut positions: the delimiters and the two ends (`Cuts`). The k-th cut is the one with k - 1 cuts before it (`CutAt`). An earlier form sorted the cuts with `SetToSortSeq`, which the provers cannot expand. TLC checked that the two forms agree on every string of up to five atoms before the change.

**CASE guards.** Each handler's `CASE` tests its error conditions in the code's order. The guards are disjoint, so a `CASE` chooses exactly the branch the code takes.

### `SetParameterLoop.tla` and the refinement

`SetParameterLoop` is what one command promises its client, with the settings left out. Each client has:
- a phase;
- the names its command carries (`named`);
- the names left to set;
- the names set;
- an outcome.

Its actions:
- `Accept`: validation passes, and every name can be set.
- `Reject`: the command ends with `errmsg` and nothing set.
- `Apply`: the least name left is set, and the last one ends the command with OK.
- `Fail`: the command ends with an error, keeping what it has set.

`ServerParameters` defines `Loop` as an instance with these substitutions:
- `phase` is `cpc`, with the second step of a connection-limit `set()` counted as still setting;
- `named` is the command's non-generic fields;
- `left` is `TodoNames`;
- `done` is `applied`;
- `outcome` is `status`.

`LoopRefinement == Loop!Spec` is checked by TLC and proved by TLAPS.

**Outcomes outside this repository:**
- the entry point may refuse a limit;
- clearing the default log component restores `Log()`.

## 3. Runs

`PROJECT.json` lists every run, with the mutant that each passing property must catch.

| Run | Expect | What it shows |
|---|---|---|
| `core` (`MCIndexBuilder.cfg`) | pass, 262,352 distinct states | See below. |
| `interrupts` | pass, 2.8M states | `killOp` and `shutdown` arrive at every point. Every failure path still drops the unfinished entry (`NoOrphanedIndex`), except at shutdown, which leaves it for restart on purpose. Registrations stay unique (`IndexRegistration`). |
| `stranded` | violation of `WaitReturns` | Shutdown during a background init. `_failIndexBuild` returns at 222 without signalling, and the applier waits forever. |
| `fgshutdown` | violation of `ForegroundNeverCrashes` | A foreground build is interruptible (201) and hits `invariant(allowBackgroundBuilding)` at 170. |
| `wake` | violation of `WakeAfterDowngrade` | The signal (226) comes before the downgrade (228), so the applier wakes while MODE_X is held. |
| `drop` | pass, 926,816 states | The applier drops the collection whenever the lock and the `BackgroundOperation` allow it, and `killOp` interrupts builds. No build finds its collection gone (`CollectionStaysForBuild`, fasserts 40409 and 28554), builds terminate, and the catalog follows `IndexCatalog`. |
| `bgkill` | violation of `BackgroundFailureFatal` | A background build killed in the ghost-timestamp retry loop throws from `checkForInterrupt` (264). The exception skips `_failIndexBuild` and is caught at 278. `~MultiIndexBlock` drops the index, and `run()`'s fassert 28555 accepts the interruption. Spec §4.6 says such a failure terminates the process. |
| `stamps` | pass, 82,540 states | See below. |
| `setparameter` | pass | See below. |
| `maxconns_race` | violation of `MaxConnsAgree` | Two `maxIncomingConnections` updates interleave. `serverGlobalParams.maxConns` ends different from the entry point's limit. |

**`core`** runs two builds with every request shape and no interruptions. It shows:
- `LockPhase`: each build holds exactly the lock its phase needs across the relocks.
- `IndexRegistration`: a second build of the same name sees the first one's registration.
- `HandshakeSlotFree`: the slot never overflows.
- `BuildsTerminate`: every build terminates, under the fairness below.
- `CatalogRefinement`: the builds implement `IndexCatalog`.

**`stamps`** (`MCIndexBuilder_stamps.cfg`) runs two builds of two different index names on replicated namespaces, in every mix of background, foreground and caller-timestamped requests. It checks one action property, `GhostCommitTimestamp`: a commit readies the index stamped as `requiresGhostCommitTimestamp` demands. A ghost-timestamped build commits at a cluster time the clock has reached, and at one no earlier than the ghost stamp of any index readied before it, so ghost stamps follow the commit order. Any other build commits untimestamped.

This holds only because the read at 251 happens under MODE_X, on the run of the commit lambda that commits. A foreground caller holds MODE_X throughout, and a background build re-acquires it at 241. So no other commit falls between a build's read and its `wunit.commit()`. The mutant whose relock at 241 does not wait for another build's MODE_X lets a second build read a later time and commit first, and TLC finds the out-of-order stamp.

The property says nothing of whether `setTimestamp` accepted the stamp. The oldest timestamp in the model may pass an accepted stamp before `wunit.commit()`, and what the storage engine then does is outside this repository. Two names are needed, because with one name a second ready entry only appears after a drop, which leaves nothing stamped to compare with. `MaxTs = 3` lets the clock tick between the two builds' reads, and lets setTimestamp reject a read.

**`setparameter`** runs two clients over 12 commands. It shows:
- A command rejected by validation sets nothing.
- A command that fails part way has set exactly the parameters that sort before the failing one (`AppliedPrefix`).
- No value a handler rejects is ever stored (`ValuesAccepted`).
- The step that fails a command changes no setting (`FailedSetChangesNothing`, an action property). Every handler checks before it stores.
- The model implements `SetParameterLoop` (`LoopRefinement`).

**Bounds:**
- Two builds of one index name with two option sets is enough for a name conflict, a second build of the same name, and two background builds competing for the handshake slot.
- `MaxTs = 2` lets the oldest timestamp overtake a read cluster time, so the retry loop runs.
- Two clients and commands with one or two parameters are enough for interleaved two-step updates and for a failure after a success.

**Fairness:**
- Weak fairness for each build thread and for the callers, because the scheduler runs every runnable thread.
- Strong fairness for `CommitUnitOfWork`, because write conflicts are transient (spec §4.3). Without it, `writeConflictRetry` could retry forever.
- The environment (clock, oldest timestamp, interruptions, drops) gets no fairness. A build whose collection was dropped before it started is never started; `Terminated` counts it as finished.

## 4. Proofs (TLAPS)

**`IndexBuilderProofs.tla`**:

**`TypeCorrect`: `Spec => []TypeOK`.** Lemmas give one step per action group.

**`LockPhaseInvariant`: `Spec => []LockPhase`.** `LockPhase` is not inductive on its own. A build at `lockIX` holds no lock, and nothing in `LockPhase` stops a foreground build from being there. The proof therefore first shows `Spec => []BackgroundOnlyPhases`: only background builds reach `downgrade`, `lockIX`, `relockX` and `recheck`. It then shows `LockInv == TypeOK /\ LockPhase /\ BackgroundOnlyPhases` is inductive. TLC checked `LockInv` on the core run first.

**`IndexBuilderRefinement.tla`** proves three more theorems from one inductive invariant, `RegInv == LockInv /\ RegisteredPhases /\ IndexRegistration /\ NoOrphanedIndex`:
- `RegistrationInvariant`: `Spec => []IndexRegistration`;
- `NoOrphanInvariant`: `Spec => []NoOrphanedIndex`;
- `CatalogImplemented`: `Spec => CatalogRefinement`.

The strengthening is `RegisteredPhases`: `registered[b]` holds exactly while `b` is between a successful init and `wunit.commit()`. The argument runs as follows:
- Init returns OK only on an absent entry, so a new registration has no rival of the same name.
- The commit step is registered, so it readies an unfinished entry.
- Every way out of those phases readies the entry, drops it, or abandons it at shutdown.
- A drop needs MODE_X and no `BackgroundOperation`. By `LockPhase` and `BackgroundOnlyPhases`, that means no build is registered, and without shutdown no entry is unfinished.

TLC checked `RegInv` on the core, interrupts and drop runs before the proof. The refinement follows the usual layout: `Init => Cat!Init`, and `RegInv /\ [Next]_vars => [Cat!Next]_catalog` by one lemma per action.

**`IndexBuilderSafety.tla`** proves two more theorems from `SafetyInv == LockInv /\ LockXOnlyBackground /\ HandshakeInv /\ CollectionInv`:
- `HandshakeTheorem`: `Spec => []HandshakeSlotFree`;
- `CollectionTheorem`: `Spec => []CollectionStaysForBuild`.

A background build is *launched* while it is at `lockX` or `init`. `HandshakeInv` says:
- a launched build is the one the applier waits for, and the slot is empty;
- an idle applier has an empty slot.

So the signal at `init` always finds the slot empty. `CollectionInv` says that a build needs its collection from launch to init, and a background build until `_build` returns (`NeedsCollection`); while any build needs it, the collection exists. A drop rules out every such build:
- a launched background build keeps the applier waiting;
- a foreground build at `init` holds MODE_X (`LockPhase`);
- a later background build holds its `BackgroundOperation`.

The proof has one lemma per group of actions. A frame lemma, `SafetyFrame`, covers the steps that only move one thread.

**`IndexBuilderTimestamps.tla`** proves `GhostTimestampTheorem`: `Spec => GhostCommitTimestamp`. Only `CommitUnitOfWork` readies an entry, and it stamps it with `readTs[b]`. So the proof needs a fact about `readTs[b]` at `wuCommit`. That fact depends on the whole commit lambda, so it is the inductive invariant `GhostInv`:
- only a ghost-timestamped build is in the `tryTimestamp` loop;
- from `tsSet` to `wuCommit`, such a build holds a timestamp between 0 and the cluster time;
- any other build reaches `wuCommit` with no timestamp.

- every stamp in the catalog is at most the cluster time (`StampedBelow(clusterTime)`);
- from `tsSet` to `wuCommit`, no stamp in the catalog is later than the one the build holds (`StampedBelow(readTs[b])`).

It is inductive relative to `LockPhase` (proved in `IndexBuilderProofs`), for these reasons:
- `CommitIndex` clears `readTs[b]` and enters the loop only when a ghost timestamp is required;
- `ReadClusterTime` sets it to the clock, which is no earlier than any catalog stamp;
- the clock only advances;
- a rejection and a write conflict both lead back to a step that reads or clears it;
- cleanup, a drop and an init only ever remove stamps (`Unstamps`);
- the one step that adds a stamp, `CommitUnitOfWork(b)`, happens while `b` holds MODE_X. By `LockPhase` no other build is then between `commit` and `wuCommit` (`CommitExclusive`), so no other build holds a read that the new stamp could overtake.

TLC checked `GhostInv` on the stamps, interrupts and drop runs first. The action property then follows from `TypeOK /\ LockPhase /\ GhostInv /\ [Next]_vars => [StampedAtCommit]_vars`.

**`ServerParametersProofs.tla`** proves:
- `TypeCorrect`;
- `AppliedPrefixTheorem`;
- `ValuesAcceptedTheorem`;
- `FailedSetTheorem`.

The inductive invariant is `IInv == TypeOK /\ (\A c : ClientInv(c)) /\ AppliedPrefix /\ ValuesAccepted`. TLC checked it on the setparameter run first.

`ClientInv` adds what `AppliedPrefix` needs:
- before validation nothing is set;
- a busy client has a non-empty map and no outcome yet;
- between the two steps of a connection-limit `set()`, the entry under the iterator is that limit, with a value the first step accepted.

The frame argument is per client. `ClientFrame` shows that a step changing only client c's entries keeps the other clients' parts, because their maps, positions and outcomes are untouched. There is then one step lemma per handler.

The lemmas about operators:
- `NatMin` and `NatMax`: a non-empty set of naturals has a least element, and a finite one a greatest, from `WFMin` of WellFoundedInduction.
- `ParamMin`: the iterator is on the least name left.
- `SplitIsSeq`: `Split` returns a sequence, by finiteness of `Cuts`.
- `VerbosityFacts`: the levels `_set` stores.

`FailedSetTheorem` is proved from `TypeOK` alone. A step of one client leaves the others' outcomes alone (`OthersStatus`). Each handler either fails with its setting untouched, or stores through `SetDone`, which never ends a command with an error (`OwnFailure`).

**`ServerParametersRefinement.tla`** proves `LoopImplemented`: `Spec => LoopRefinement`, step by step:
- `Init => Loop!Init`: the names a command carries are strings.
- `Validate` is `Accept` or `Reject`. The map built has exactly the command's non-generic names.
- Every handler step has one of three shapes (`HandlerShapes`):
  - a failing `set()` is `Fail`;
  - a successful one is `Apply` of the least name left (`ParamMin`, through `IInv`);
  - the first half of a connection-limit `set()` leaves every mapped variable unchanged, so it is a stutter.

All theorems hold for all values of the constants under each module's `ConstantsAssumption`.

**What only TLC checks:**
- The liveness properties (`BuildsTerminate`), since TLAPS does not handle fairness or ENABLED.
- The properties of the violation runs, which TLC refutes with a counterexample.
- That `Split` agrees with the sorted-cuts definition it replaced; that was a bounded check over strings of up to five atoms.

## 5. Not modelled, and the plan

**Not modelled:**
- `getParameter`, which only reads.
- The `setFromString` startup paths.
- `quiet` and `traceExceptions`, whose `set()` is in `ExportedServerParameter` outside this repository.
- `counters.h`.
- A drop of the whole database (fassert 28553). For the one collection modelled, it is the same event as the drop of the collection.
- fassert 28555 (140-145) cannot fire in the model. Every status `_build` returns to `run()` is OK or an interruption, because the other failures end in fassert 50769 first. Only an exception of another kind from code outside this file, caught at 278, could reach it, and such exceptions are not modelled. The interruption that does arrive this way is the `bgkill` finding.

**Plan for later work:**
1. A run that combines the drop with `shutdown`. Shutdown disables the drop in the model, so such a run adds little.
2. The five ghost-timestamp gates checked against their reference, for every member state and kind of namespace.
3. The concurrency of `logLevel` with `logComponentVerbosity`.
