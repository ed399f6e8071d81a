# Engraphis: formal models of its replication, storage, jobs and cloud session

Engraphis is a local-first memory for AI agents: a Python program that keeps
memories in SQLite, replicates them between a person's devices through a folder
or a relay, searches them through a vector index that may live outside SQLite,
and derives new ones from old ones under review. This directory holds TLA+ models
of the parts of it in which the order of events decides what is stored, their TLC
configurations, and proofs checked by TLAPS. Paths below are relative to `engraphis/` unless they start with `docs/`.

## 1. The system

| component | state | operations | interacts with |
|---|---|---|---|
| store (`core/store.py`, `core/schema.py`) | SQLite tables: memories, vectors, links, tombstones, export markers, sync checkpoints, repair queue, receipts, sessions | add, reinforce, close, pin, erase, mark exported, queue and acknowledge repairs | everything; one writer at a time |
| service (`service.py`) | jobs, import progress, confirmation previews | update, correct, retire, import, review | store, engine |
| engine (`core/engine.py`) | embedding space, index adapter | remember, retire, secure erase, hydrate, rebuild | store, index, embedder |
| sync engine (`core/sync.py`) | none of its own: checkpoints and markers in the store | export, apply, merge, sync round | store, transport, index |
| transports (`backends/sync_folder.py`, `backends/sync_relay.py`) | one file per device | push replaces the device's file, pull lists and reads all of them | sync engine |
| index repair (`core/vector_repair.py`) | queue in the store | repair, decide whether recall may trust the index | store, provider |
| consolidation (`core/consolidate.py`) | digests in the store | distil, inherit safety, decay | engine, store |
| recall (`core/recall.py`) and its scoring | caches | search, rank, pack | store, index |
| resolution (`core/resolve.py`) | none | choose add, update, no-op, supersede | engine |
| mutations (`core/mutations.py`) | receipts and claims in the store | validate, replay, complete | engine, store |
| relocation (`core/relocation.py`) | previews | plan and apply a move between workspaces | service, store |
| read snapshots (`core/read_snapshots.py`) | a pool of connections | lend | store |
| cloud session (`cloud_session.py`), device connection (`device_connect.py`) | session file, refresh lock, fenced credentials | refresh, retire, deny, connect | hosted control plane |
| HTTP, MCP, dashboard | the denial guard of a dashboard process | parse and call the service, report the license | service, cloud session |

What is hard in it:

* **replication**: whole-state snapshots, pulled in any order, late and
  repeatedly, merged field by field; wall clocks differ between devices;
* **freshness**: a push and the checkpoint that records it are not atomic, a
  process may die between them, a database may be put back to a copy, a pull may
  be incomplete and is followed by a push all the same;
* **erasure**: what was erased must not come back with a snapshot that is still
  in the folder, must reach the devices that hold it, and must not be abused by a
  peer to remove what was reviewed; meanwhile the operator keeps working;
* **the index**: the provider neither rolls back with SQLite nor answers reliably,
  and several processes write, repair and erase;
* **the embedding space**: processes with different embedders open one store, and
  each may take the rebuild over from another between two batches;
* **derivations**: a correction, revision, approval, promotion or merge is prepared
  without the writer, may be retried for ever, and meets edits, erasures and moves;
* **jobs**: a row that all processes see and a thread that only one of them has,
  which may be slow, die, or come back after others gave it up;
* **the cloud credential**: it can be used once, is shared by processes through a
  file, and its answer may be lost.

`PROJECT.json` lists the components with what is modelled of each, and the
hazards at the lines where they bite.

## 2. The modules

`MergeRecord` holds the pure merge, `MemoryReplicas` EXTENDS it with devices and
a folder. `ServiceJobs` is shown to implement `IndexJobs`. The other models are
independent of these and of each other; each abstracts what the others model.

### MergeRecord and MemoryReplicas: one memory on several devices

`MergeRecord(local, incoming)` is `merge_record` (`core/sync.py:269`): the payload
(`label`, one value of a set) is last-writer-wins under the HLC with a
payload-hash tie-break (`VersionKey`), closure histories are united, counters and
instants take their maximum or minimum, and the pin is a lattice of two markers
(`PinLattice`). The policy envelope (`env`: trust, scope and metadata) goes with the
version that wins; it is no part of the synchronised state that devices are compared by.

`MemoryReplicas` adds the devices' rows (`rec`), the folder with one snapshot per
device (`folder`) and the wall clock (`clock`, with a skew per device). Actions:
`UpdateMemory`, `CloseValidity`, `SetPinned`, `Reinforce` (the local writes),
`Push`, `Pull`. `Pull` is `_apply_one` for the row: the refusals of
`dict_to_record`, the closure budget and the interval check, then the merge.
`seen`, `sent` and `closes` are history variables.

### SnapshotChain: generations, checkpoints and the sync round

Rows are items of a set; a snapshot has a generation, the hash of its
predecessor, and rows. A process goes through `SyncEngine.sync`: `Start`, `Read`
(or `StaleRead`, `PullFail`), `ApplyRows` (or `ApplyFail`), `SaveCheckpoint`,
then `EndReadOnly` or `Export`, `Mark`, `Push` (or `PushFail`), `Commit`. `Crash`
loses the open transaction; `Backup` and `Restore` copy the database. SQLite's
writer is `lock`: the transaction that counts received bytes stays open while the
next file is read, and the marker transaction stays open over the push, as in the
code. Several processes may sync one store (`Owner`).

### SyncErasure: tombstones, export markers and the trust boundary

A row has a trust class (approved, secret or session, pending, quarantined,
unreviewed) and the edit it carries. The operator may `Edit`, `SecureErase`, or
restrict a digest (`InheritSafety`, the second half of a consolidation); a round
is `Start`, `ApplyTombstones`, `ApplyMemories`, `Export`, `Mark`, `Push`, `Commit`.
The points at which the code commits are the points at which other actors can
step in. `ExportClass` is the decision between `remote_erasure` and `never_export`
from the export marker, `AcceptsErasure` the authority check of `apply_bundle`,
`Admits`/`Merged` the row path, `Conflicts`/`Preserved` the conflict successors.
Which snapshots are fresh is left to SnapshotChain. `Feature[d]` says what may happen on
a device besides: rounds that die (`crash`), an operator who erases while an apply is
under way (`race`), edits of the same instant on several devices (`conflict`). `erased`,
`late`, `sent` and `unmarked` are history variables: what the operator erased, what of it
since the running apply read the tombstones, what was pushed, and what of it only by
rounds that died before their markers were committed.

### VectorIndex: the repair queue of a separate index

`vec` is `mem_vectors`, `idx` what the provider holds, `debt` the repair queue with
the generations the triggers write. `Write`, `Quarantine`, `PeerErase` are
canonical transactions; `RepairBegin`, `ReadPage`, `Select`, `Publish`, `Ack`,
`Fail`, `EndPhase` are the two phases of `repair_vector_index`; `EraseBegin`,
`EraseCall`, `EraseCommit`, `EraseFail`, `Requeue` are `MemoryEngine.secure_erase`
with a provider call in the middle of its transaction; `Startup` and `Complete`
are the hydration at start; `Lose` is the loss of the physical index. The pages of
100 keys are one page, and a compatible embedding space is assumed
(`vector_writes_ready`).

### EmbeddingSpace: one vector space per store

`active` and `target` are the two markers of `embedding_state`, `model[m]` the space
that a vector in `mem_vectors` belongs to. `Start`, `Begin`, `ReadPage`,
`PublishBatch`, `Finish` and `Superseded` are
`MemoryEngine._rebuild_versioned_embeddings`: a page is read and embedded without the
writer, a batch is published only while the marker still names the process's space.
Meanwhile `Remember`, `SyncWrite` (both prepared before the writer), `Retitle` and
`EraseRow` write, and `Stop` kills. `Accepts` is the check of `put_vector`. VectorIndex
assumes the space that this module keeps uniform.

### MemoryCommands: derivations, receipts and moves

Requests (`Ask`) of five kinds are prepared (`Prepare`), committed (`Write`) and
answered again (`AnswerRetry`) by clients. `receipt` and `claim` are the two tables of
`core/mutations.py`: the workspace and operation id of a command with its request hash
and result, and the one command that may ever have a memory as its source. `HashOf`,
`Replays`, `Valid`, `Commit` are `MemoryCommand.__init__`, `replay`, `validate`,
`complete`, with the validators that each operation adds; `DerivedTrust` is what each
operation makes of its sources' trust. `Edit`, `Retire`, `Erase` and `Move` are the
others; `Component` is the closure of `prepare_move` under origin and commands.
`answer`, `made` and `line` are history variables.

### ServiceJobs and IndexJobs: background jobs

`job` is the table, `gate` the graph that is closed to readers during a rebuild, `lease`
the age of the heartbeat in units of the two leases (60 s and 900 s). A worker of a graph
job goes through `Claim`, `Page`, `Item`, `Write`, `Audit`, `End`, one of an import through
`File` and `FinishImport`. `StartGraph`, `StartFails`, `StartImport`, `Cancel`,
`RecoverGraphJobs`, `RecoverImportJobs`, `Close` and `Closed` are the service's
operations; `Crash` takes the threads away and leaves the rows, `Expire` lets time pass,
also for a worker that is alive and slow.

`IndexJobs` is what callers of the graph index may rely on: a workspace has at most one
job, a job ends once, its result is final, and every job ends. The mapping takes the
active job and the terminal states from the rows.

### CloudSession: a credential that can be used once

`billing`, `cur`, `spent`, `family` are the control plane (external: modelled from the
answers that `cloud_session.py` distinguishes); `file` is the session file; `lock` the
refresh lock. A refresh is `BeginRefresh`, one of `Rotated`, `NoAnswerTo`, `Unreachable`,
`Lapsed`, `Refused`, then `SaveRotation`, `SaveFails` or `Retire`. A dashboard that was
denied goes through `Mark`, `Probe`, `Deny` (`record_billing_denial`), and reads the license
in two steps, `ReadLicense` and `AnswerLicense`, between which the others act. A probe may
fail to read the file, and then yields no digest. A repeated refusal marks the denial again
while no digest is known; once one is, the repetition is left out to keep the run small.
`Connect`
and `SaveBootstrap` replace the family. Credentials that nobody can present or compare any
more are reused (`Remembered`), which keeps an unbounded supply finite; a control plane
that has none left to issue (`CanIssue`) does not answer, which does not happen in the run.
`orphan` and `older` are history variables.

Assumed of the control plane: a refresh returns the entitlement; 402, other statuses and
a connection that was refused do not spend the credential. One connect at a time, and its
save does not fail.

### Modules that only instantiate or prove

`MCReplicas`, `MCChain`, `MCErasure`, `MCVectorIndex`, `MCEmbedding`, `MCCommands`, `MCJobs`
and `MCCloud` give the constants values.
`MemoryReplicasProofs` (with the algebra of `MergeRecord`), `SnapshotChainProofs`,
`SyncErasureProofs`, `VectorIndexProofs`, `EmbeddingSpaceProofs`,
`MemoryCommandsProofs`, `ServiceJobsProofs` and `CloudSessionProofs` hold the theorems. Operators marked
"Mutant" are wrong variants of a definition: each property is known to fail when
the definition is replaced by one of them.

## 3. What TLC checks

| run | instance | shows |
|---|---|---|
| `replicas_converge` | 3 devices, 2 operations, equal clocks, a bare legacy pin, ceiling of 2 closures | same incorporated operations, same row; replays change nothing; no closure is lost; peers never use up the reserved closures |
| `replicas_live` | 2 devices, one ahead, 2 operations, fair pushes and pulls | edits survive replays in spite of skew; replicas converge |
| `chain_recover` | 2 devices, 2 crashes or restores, 3 snapshots | one snapshot per generation, only extensions accepted, no file loses rows |
| `chain_faulty` | 2 devices, 2 overlapping sync processes on one of them, 2 of: crash, incomplete pull, stale read, partial application, failed push | checkpoints are covered by the store |
| `erasure_quiet` | 2 devices, 2 memories, fair rounds | erasures arrive |
| `erasure_trust` | 2 devices, one trusting the other, edits of the same instant on both, on one also rounds that die and erasures in the middle of an apply; a poisoned successor | erasure needs authority, bundles never remove reviewed rows, pushed rows are live; an erased id returns only into the apply it was erased during or as a variant of a held memory; `never_export` was never sent but by rounds that died |
| `index_repair` | 2 processes, 2 memories, attempt limit 1, 2 canonical operations, crashes, rollbacks, loss | differences are covered by debt, nothing stale is published, the index catches up |
| `embedding` | 3 processes, one with a degraded embedder, 2 memories in batches of 1, 2 writes, erasures or deaths | a published space is uniform; a rebuild that is not taken over ends |
| `commands` | 2 clients, 2 requests, 2 workspaces, 4 memories, 2 edits, retirements, erasures or moves | one successor per memory, answers belong to their request, receipts follow a move, no update is lost, trust is earned |
| `jobs` | 2 services, 2 workspaces, 2 jobs of 1 item, 1 worker, 2 faults or requests | a graph is closed exactly while an active rebuild owns its gate, workers are bounded and do not outlive a close, every job ends, IndexJobs is implemented |
| `jobs_lease` | the same | **violation**: a live import is failed by the graph lease |
| `cloud` | 2 workers, one a dashboard, 2 faults, connects or changes of billing | no credential is replayed, the saved one is current, denials outlive older grants, lapse and grant are shown |

Bounds. Two devices suffice for every pairwise merge; the third of
`replicas_converge` is there for rows that travel through an intermediary. Two
operations are the least that conflict; with a ceiling of two and one reserved they
are also enough to fill it from both sides. A fork needs two snapshots of one generation and one more,
so three snapshots; a lost checkpoint needs one fault, its interaction with
a second one two; two snapshots make one round older than another that overlaps it. In
SyncErasure one device whose rounds die and whose operator erases at any time suffices
for every case that `late` and `unmarked` tell apart: each of the exceptions in
`ErasedStaysErased` and `NeverExportNeverSent` is needed in that instance. In VectorIndex two operations allow a
write and a quarantine, erasure or rewrite of the same id; two processes and two ids make a repair overlap an erasure
of another id as well as of the same. In EmbeddingSpace batches of one make two
batches of a rebuild, the least between which it can be taken over; the third process
lets a rebuild be resumed by another one with the same embedder. In MemoryCommands
two clients prepare the same or overlapping commands at once, two requests may share an
operation id, and the two spare ids allow a derivation of a derivation. In ServiceJobs
one worker and two jobs make a slow worker that was given up meet the next job; two events
allow slow-then-crash and cancel-then-close. In CloudSession two events allow a lost
answer and a connect, a denial and a failing save, or a lapse and a payment.
The largest runs have about 3.0 million states (`erasure_trust`), 1.4 million (`embedding`),
1.0 million (`commands`), 0.7 million (`chain_faulty`) and 0.4 million (`jobs`). Bounds are constants (`MaxOps`, `MaxFaults`,
`MaxEvents`, `MaxSnapshots`, `MaxLogical`); the theorems do not depend on their values. Deadlock
is not checked: a bounded model ends, and a store may stay idle for ever.

Symmetry is used in `chain_recover` (the two devices with their processes), in
`chain_faulty` (the two processes of one device) and in `commands` (clients, requests and workspaces, which no definition tells
apart); no liveness is checked there.

Fairness. `replicas_live` and `erasure_quiet`: the users of every device keep syncing it,
and a round under way goes on. This is an assumption about the users: the package runs no
sync loop and ships no scheduler (`docs/SYNC.md:109`). Nothing is assumed of their edits
and erasures. `index_repair`: weak fairness of start and
completion; strong fairness of the steps of a repair, because SQLite's busy handler
lets a waiting writer in only between the transactions of others, and of the
provider's success, because a provider that always fails never catches up
(`docs/INDEX_REPAIR_MAINTENANCE.md` says as much). `embedding`: a process that is down is
started again and a start runs to its end; writers and deaths are not fair. `jobs`: workers
run, time passes for those that are dead, and somebody reads the graph of each workspace now
and then, which is what recovers it; no fairness of cancellations, closes or crashes. `cloud`:
dashboards poll the license and refresh in the background; strong fairness where a step
waits for the lock, which `_acquire_refresh_file_lock` asks for again and again. Crashes
are not fair anywhere.

## 4. What is proved

Every safety property that a passing run checks is also a theorem, for all values of the
constants that satisfy the modules' named assumptions. A theorem that needs more says so
in its `ASSUME`, as a condition on constants that an instance can satisfy and that a run
does satisfy; section 5 says what goes wrong in the code without it.

| theorem | beyond the module's assumptions |
|---|---|
| `SameHistory`, `ReplayChangesNothing` | `InStep`: no skew between wall clocks |
| `NoForks`, `FilesKeepRows`, `ChainsAreFollowed` | `OneProcess`: one sync process per store; `Reliable`: deaths, restores and failed pushes, but every pull yields every file |
| `QueueIsComplete` | no death inside an erasure |
| `SpentIsNotPresented`, `OldGrantsDoNotLift` | no credential in the environment (`Env = None`) |

The arguments:

* `MemoryReplicasProofs`. `MergeType`, `MergeCommutes`, `MergeAssociates`, `MergeAbsorbs` are
  the algebra of `merge_record` on the synchronised fields. They rest on the total order of
  version keys and on lemmas about the four joins; the payload hash is assumed injective, the
  assumption the code's tie-break makes. `TypeCorrect` and `HistoryNeverShrinks` follow. The
  invariant of `LocalHeadroom` adds the number of closures a device wrote itself
  to the size of its history: neither is enough alone, because a pull grows the
  history without growing the count. `SameHistory`, `ReplayChangesNothing` and
  `ReplayKeepsEdits` come from one invariant, `Joins`: there is a row for each operation
  (what it wrote) such that every row, on a device or in the folder, is the *least upper bound*
  of the captured row and the rows of the operations it incorporates, in an order `Below` of
  which the merge is the join. A local write has to be shown to lie above the row it started
  from, and that is where the clocks matter: the HLC advances in spite of skew, access and pin
  stamps only without it, so `Below` has these components only under `InStep`. `Past` says
  that stamps are older than the clock.
* `SnapshotChainProofs`. `ChainTypeCorrect`, `CheckpointsCovered`: a process about to save a
  checkpoint has the rows of the bundle, one about to commit exported rows which the store
  still holds, and a backup is covered by itself, for any number of processes on a store. `NoForks`
  and its two companions add `Gated` (what passed the freshness gate is still not older than the
  checkpoint when that is saved) and `Line`: every pushed snapshot follows a pushed snapshot of the
  generation before (`Linear`), checkpoints and backups name pushed snapshots
  (`Checkpoints`), and a round that has gone past its own file has its checkpoint where the
  file is, whatever the database was put back to before (`Rounds`). This is the argument why
  accepting one's own file before the export is enough. `ChainsAreFollowed` then shows, by a
  generation that would be minimal among the counterexamples, that a later snapshot of a
  device extends every earlier one; the gate itself does not check that across a gap.
* `SyncErasureProofs`. `ErasureTypeCorrect`; `AuthorityHolds`, inductive once bundles in files
  and in flight carry authority too; `PushIsLive`, which needs that between `Mark` and `Push` no
  writer can step in; `ReviewedRowsStay`, a case analysis of the row path and the tombstone
  path for every trust class. `ErasureIsFinal` and `NeverExportIsKept` hold for every `Feature`:
  with deaths, with erasures in the middle of an apply and with conflict successors. The first
  rests on `ErasuresKnown`: what the operator erased has a tombstone, and a round that is applying
  rows has that tombstone among those it read unless the erasure is `late`; what is left is the
  path of the conflict successors, which does not ask for tombstones. The second rests on
  `SentIsMarked`: what was sent is marked, is `unmarked`, or is in the bundle whose markers
  are about to commit under the writer.
* `VectorIndexProofs`: `IndexTypeCorrect`, `QueueIsComplete`, `PublishesCurrentVectors`.
  The invariant: provider calls are made under the writer (`CallsAreLocked`), about
  the current vector (`CallsAreCurrent`); an index that is not registered is empty
  (`FreshIndexIsEmpty`); and an id without debt is right, being erased, or queued by
  the next start (`Covered`).
* `EmbeddingSpaceProofs`. `SpaceIsUniform`: uniformity of a published space is inductive
  with the types alone, because each write checks the markers in the transaction it
  stores its vector in, and `Finish` checks the vectors in the one that publishes. The
  place where a page was left (`after`) has no part in it. `EmbeddingTypeCorrect` has that
  place among the types and shows that a page has a last id to go on after.
* `MemoryCommandsProofs`: `CommandsTypeCorrect`, `NoSecondSuccessor`, `AnswersAreRelated`,
  `ReceiptsAreFound`, `UpdatesAreNotLost`, `ApprovalIsEarned`, one invariant for all. `Claimed`:
  a memory with a successor has a claim, for good, whatever is retired, erased or moved;
  `Tables`: the result of a receipt descends from what its request named; `Unborn`: no table
  knows an id before it is created, so that a new record takes nothing over; `Prepared`: what a
  client prepared without the writer has the trust its operation starts from, which with the
  comparison in `Valid` gives the last two. A move
  that is not blocked takes a receipt and all its memories along: the proof needs the blockers
  that `Move` checks and nothing of what `Component` computes.
* `ServiceJobsProofs`: `JobsTypeCorrect`, `GateFollowsRebuild`, `WorkersStayBounded`,
  `CloseIsSafe`, `JobsImplementIndex`. The invariant adds to the properties that a
  workspace has one active graph job (`OneJobEach`), that a worker has a row, and that a
  close waits for every graph worker of its service (`CloseWaits`). Every action but the
  three starts is shown to be of one form, `Keeps(J)`: it ends the jobs `J`, opens their
  gates and starts nothing; each part of the invariant, and the refinement, is then
  proved for that form and for the starts. `JobsImplementIndex` is the refinement without
  the fairness of `IndexJobs` (`IndexSafety`); the run `jobs` checks it with fairness.
* `CloudSessionProofs`: `CloudTypeCorrect`, `SavedIsCurrent`, `SpentIsNotPresented`,
  `OldGrantsDoNotLift`. The invariant: who is between a request and the save of its answer
  has the lock, and presented what is saved (`Holds`); a connect under way has the only copy of
  the current credential (`Boots`); and what is saved, or about to be, is current or orphaned
  (`Saved`). For the denials, `Denies`: a grant older than a denial is the very record whose
  digest the denial took, since every other write leaves no grant or a newer one; a read
  of the license that began before carries the same fact with it.

The type invariants of MemoryReplicas, SnapshotChain, SyncErasure and ServiceJobs are
proved and not listed in a run. The invariants of `NoForks` and its companions
were also checked with TLC, with deaths, restores and failed pushes together; `Joins`
quantifies over functions into an infinite set and is only proved.

Only model-checked: the liveness properties (`EventuallyConverged`, `ErasureArrives`,
`IndexCatchesUp`, `RebuildEnds`, `EveryJobEnds`, `LicenseIsShown`) and the fairness of
`IndexJobs` in `ImplementsIndexJobs`. Liveness under fairness and ENABLED are out of the
prover's reach, and so are inductions over recursively defined data. The chain
of a snapshot is therefore stated without recursion, as the least set that is closed under
predecessors; arguments by a least or greatest number use the well-ordering of the naturals,
and what `Component` computes in rounds is not proved about.

## 5. Known limits of the code

`jobs_lease` is a run with a finding in `PROJECT.json`. The models reach the others when an
instance is widened, or leave them out for the reason given.

Replication and erasure:

* `Fault = {"crash", "pull"}` in SnapshotChain (`MaxSnapshots = 4`): a device that dies
  between push and checkpoint and then misses its own file reuses a generation; a peer that
  skipped that generation cannot compare hashes and accepts the fork (`core/sync.py:1024`),
  and `AcceptsOnlyExtensions` fails. `docs/SYNC.md:177` says that the gate "still rejects
  stale or forked snapshots";
* live tombstones are read once before the batches (`core/sync.py:1397`), and a row that the
  operator erases in between is written again: `late` in `ErasedStaysErased`;
* `_preserve_hlc_conflict` writes an erased successor again while its original is held
  (`core/sync.py:1996`): `HeldVariants` in `ErasedStaysErased`;
* markers commit after the push (`core/sync.py:2443`), so that a death in between makes a later
  erasure of a shared row `never_export`: `unmarked` in `NeverExportNeverSent`. A round that
  completes before the erasure repairs it;
* a digest of secret memories is committed with normal sensitivity before `_inherit_safety`
  restricts it (`core/consolidate.py:1761`), and a sync round in between exports it. No property
  says otherwise; `NeverExportNeverSent` says that its erasure still goes to the peers;
* two overlapping rounds of one store: `set_sync_state` overwrites (`core/sync.py:972`), so that
  the slower round puts a peer's checkpoint back to an older generation after the gate let a newer
  one through. The checkpoint is still covered (`chain_faulty`), and the newer file is accepted
  again in the next round; but the older one would be, too, and the theorems about forks assume
  one process per store;
* skewed clocks in MemoryReplicas: `set_pinned` and `reinforce` stamp the wall clock
  (`core/store.py:6166`), and `ReplayIsNoOp` fails for pins and `last_access`;
* a retirement at `valid_from` itself passes `close_validity` (`core/store.py:6131`)
  and is refused by every peer's `dict_to_record`: the instances close later.

The index and the embedding space:

* a death inside `secure_erase` after the provider deleted the vector rolls back the
  transaction that queued the debt (`core/engine.py:3158`): the row is live, the index lacks
  it and the queue is empty. `DebtCoversDifference` excludes that death;
* two starts can race past the guard that keeps a degraded embedder from replacing a
  semantic space (`core/engine.py:710`): the guard is read before the marker is taken;
* rows that a process pulls while its own embedder is not the active space are stored
  without a vector (`core/sync.py:2158`), and nothing adds it until the next rebuild;
* a row that is quarantined between the reading of a page and its batch gets a vector again;
* recall checks the space and searches afterwards (`core/recall.py:355`), not in one snapshot.

Derivations:

* `approve_for_prompt` takes no version of what the reviewer read (`core/engine.py:3418`), so
  that an edit between the reading and the approval is approved;
* the key of a merge contains the workspace, so that a retry after a move is refused
  ("already has a successor") instead of being answered;
* the retry of a revision whose closed source was edited in place is an operation conflict;
* the erasure of a source leaves its governed successors.

Jobs:

* imports do not look at `_closing`: one that is uploaded while `close` waits uses the store
  after it was closed, so `NoWorkerOutlivesClose` is about graph workers;
* the last update of an import has no guard, so that a failed import becomes completed; the
  refinement is therefore about graph jobs;
* a slow graph worker commits the graph of one memory after its job was failed.

Cloud session:

* the digests that define "post-denial bytes" are probed after the denial is marked
  (`routes/v2_api.py:3696`); with a connect in between, older bytes lift the guard.
  `DenialOutlivesOlderGrants` excludes reads that overlap a probe;
* a denial whose digest could not be read, or was not yet, leaves a guard that nothing lifts
  until the next denial or a restart (`routes/v2_api.py:3714` says so): `Blind` in
  `LicenseIsShown`;
* a death between the rotation and its save, or a retirement that cannot be written either,
  leaves a spent credential in the file that another process presents (`orphan` in
  `NoReplay`);
* `Env # 0`: a retired credential that comes from the environment is known only to the process
  that retired it, once another record replaced the retirement, and may be replayed.

## 6. What is not modelled

Ranking, scoring, text similarity and embeddings (floating-point arithmetic);
parsing of documents, code and specifications; encryption; the HTTP, MCP and
dashboard surfaces but for the license; graph scenes and exports; the legacy v1 stores.
They are most of the repository's lines and hold little state that outlives a call.
Within the modelled parts: links between memories, provenance and audit rows, size limits
of bundles, the pages of the repair queue, repositories other than one, the review that
releases a held row, sessions, entities and edges of a move, the legacy links that answer
retries of old merges, the decision of a promotion's conflict resolution (its outcomes are a
choice), the text that a reviewer may put in the place of the approved one
(`replacement_content`, `core/engine.py:3417`; the guards are the same), the pruning of old job rows, the "partial" outcome of an import (it is completed
here), the pairing dialogue before a connect and the compatibility cache of entitlements.

## 7. Plan

1. Done: replication, freshness, erasure, index repair, embedding space, derivations with
   receipts and moves, jobs with their refinement, the cloud credential.
2. Done: a theorem for every safety property of the runs; `ErasureIsFinal` and
   `NeverExportIsKept` without conditions. Theorems next: the refinements of item 4, and
   `NoForks` with the weakest conditions under which it holds.
3. Models next: the timelines of claims that conflict resolution keeps; sessions and the
   store's nested transactions; the relay's conditional upload; the read-snapshot pool.
4. Abstract specifications: "a set of memories with terminal erasure" that SyncErasure
   implements without races, and "index equals store or recall is canonical" that VectorIndex
   implements.
