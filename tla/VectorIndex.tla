----------------------------- MODULE VectorIndex -----------------------------
(***************************************************************************)
(* The repair queue of a separately persisted vector index                 *)
(* (engraphis/core/vector_repair.py, the triggers on mem_vectors, and the  *)
(* erasure of core/engine.py). SQLite is canonical; the index belongs to a *)
(* provider that does not roll back with it. Canonical writers leave debt  *)
(* in their own transaction; a repair publishes current canonical state    *)
(* while it holds the SQLite writer. Several processes repair and erase.   *)
(***************************************************************************)
EXTENDS Integers, FiniteSets

CONSTANTS
  MemoryCount,   \* memory ids, in their order
  Process,       \* processes with an engine on the store
  Limit,         \* the limit that repair_vector_index is called with
  Feature,       \* what may happen: a subset of FeatureKind
  MaxOps         \* bound on canonical operations, crashes and losses

Id == 1..MemoryCount

\* crash: a process dies; erase_crash: also while it erases; rollback: the
\* erasure of the rows raises; loss: the provider's index is recreated empty.
FeatureKind == {"crash", "erase_crash", "rollback", "loss"}

\* The value of lock while no process holds the writer.
Free == "free"

ASSUME IndexAssumption ==
  /\ MemoryCount \in Nat
  /\ Free \notin Process
  /\ Limit \in Nat \ {0}
  /\ Feature \subseteq FeatureKind
  /\ MaxOps \in Nat

VARIABLES
  row,         \* row[m]: the memory
  vec,         \* vec[m]: its vector in mem_vectors, 0 if none
  gen,         \* vector_store_state.generation
  debt,        \* debt[m]: generation of its vector_index_repairs row, or NoDebt
  registered,  \* is the index in vector_index_targets?
  idx,         \* idx[m]: the vector that the provider holds, 0 if none
  lost,        \* the adapter's requires_rebuild
  seeded,      \* has a start queued all rows of a lost index?
  lock,        \* the process that holds SQLite's writer, or Free
  pc,          \* where a process is
  work,        \* work[p]: the local variables of its repair call
  op,          \* op[p]: the provider call under way, or NoCall
  ops          \* canonical operations, crashes and losses so far

canonical == <<row, vec, gen, ops>>
index == <<idx, lost, seeded, registered>>
vars == <<canonical, debt, index, lock, pc, work, op>>

NoDebt == -1

\* Quarantined rows ("held") have no vector: _write deletes it.
RowState == {"none", "live", "held", "erased"}

\* A queue key: generation and id.
Key == Nat \X Id

\* ids: the ids it was called for; last: the end of the queue when it began;
\* todo: the keys of the page that it has read; left: attempts that it may make.
Work == [phase : {"none", "cleanup", "upsert"}, ids : SUBSET Id, last : Nat \X (Id \cup {0}),
         todo : SUBSET Key, left : 0..Limit]
NoWork == [phase |-> "none", ids |-> {}, last |-> <<0, 0>>, todo |-> {}, left |-> 0]

\* val: the vector to publish; done: has the provider confirmed?
Call == [id : Id \cup {0}, gen : Nat, val : 0..MaxOps, done : BOOLEAN]
NoCall == [id |-> 0, gen |-> 0, val |-> 0, done |-> FALSE]

PC == {"idle", "page", "select", "call", "ack", "erasing", "erase_commit", "requeue"}

Init ==
  /\ row = [m \in Id |-> "none"]
  /\ vec = [m \in Id |-> 0]
  /\ gen = 0
  /\ debt = [m \in Id |-> NoDebt]
  /\ registered = FALSE
  /\ idx = [m \in Id |-> 0]
  /\ lost = FALSE
  /\ seeded = FALSE
  /\ lock = Free
  /\ pc = [p \in Process |-> "idle"]
  /\ work = [p \in Process |-> NoWork]
  /\ op = [p \in Process |-> NoCall]
  /\ ops = 0

Pending == {m \in Id : debt[m] # NoDebt}

\* The queue is ordered by generation, then id.
KeyLeq(a, b) == a[1] < b[1] \/ (a[1] = b[1] /\ a[2] <= b[2])

------------------------------------------------------------------------------
\* Canonical writers: one transaction each.

\* Mutant: the generation itself is not advanced.
TriggerUnbumped(m) ==
  /\ gen' = gen
  /\ debt' = IF registered THEN [debt EXCEPT ![m] = gen + 1] ELSE debt

\* The triggers on mem_vectors: a new generation and debt for every target.
Trigger(m) ==
  /\ gen' = gen + 1
  /\ debt' = IF registered THEN [debt EXCEPT ![m] = gen + 1] ELSE debt

\* queue_vector_index_repairs, and the trigger if m has a vector to delete.
DropVector(m) ==
  /\ vec' = [vec EXCEPT ![m] = 0]
  /\ IF vec[m] # 0 THEN Trigger(m)
     ELSE /\ gen' = gen
          /\ debt' = IF registered THEN [debt EXCEPT ![m] = gen] ELSE debt

Canonical(m, states, s) ==
  /\ ops < MaxOps
  /\ ops' = ops + 1
  /\ lock = Free
  /\ row[m] \in states
  /\ row' = [row EXCEPT ![m] = s]
  /\ UNCHANGED <<index, lock, pc, work, op>>

\* A memory is added or its title edited, with its vector.
Write(m) ==
  /\ Canonical(m, {"none", "live"}, "live")
  /\ vec' = [vec EXCEPT ![m] = ops + 1]
  /\ Trigger(m)

\* A synced row is quarantined.
Quarantine(m) == Canonical(m, {"none", "live"}, "held") /\ DropVector(m)

\* A peer's tombstone erases the row.
PeerErase(m) == Canonical(m, {"live"}, "erased") /\ DropVector(m)

\* Start of an engine, _hydrate_separate_vector_index: registration queues
\* every vector if the target is new or the physical index was lost.
Startup ==
  /\ lock = Free
  /\ ~ registered \/ (lost /\ ~ seeded)
  /\ debt' = [m \in Id |-> IF vec[m] # 0 THEN gen ELSE debt[m]]
  /\ registered' = TRUE
  /\ seeded' = lost
  /\ UNCHANGED <<canonical, idx, lost, lock, pc, work, op>>

\* _mark_separate_vector_index_rebuild_complete, when nothing is pending.
Complete ==
  /\ lost /\ seeded
  /\ Pending = {}
  /\ lost' = FALSE
  /\ seeded' = FALSE
  /\ UNCHANGED <<canonical, debt, idx, registered, lock, pc, work, op>>

------------------------------------------------------------------------------
\* repair_vector_index.

RepairBegin(p, ids) ==
  /\ pc[p] = "idle"
  /\ registered
  /\ Pending \cap ids # {}
  /\ \E m \in Pending \cap ids :
       /\ \A n \in Pending \cap ids : KeyLeq(<<debt[n], n>>, <<debt[m], m>>)
       /\ work' = [work EXCEPT ![p] = [phase |-> "cleanup", ids |-> ids,
                     last |-> <<debt[m], m>>, todo |-> {}, left |-> Limit]]
  /\ pc' = [pc EXCEPT ![p] = "page"]
  /\ UNCHANGED <<canonical, debt, index, lock, op>>

\* Does m belong to p's phase?
InPhase(p, m) == (vec[m] = 0) = (work[p].phase = "cleanup")

\* Mutant: the last key of the queue is left out.
BelowCeiling(p, k) == KeyLeq(k, work[p].last) /\ k # work[p].last

\* Keys that were renewed since the call began belong to the next call.
WithinCeiling(p, k) == KeyLeq(k, work[p].last)

\* _repair_candidates reads a page of queue keys without the writer.
ReadPage(p) ==
  /\ pc[p] = "page"
  /\ work' = [work EXCEPT ![p].todo =
       {<<debt[m], m>> : m \in {n \in Pending \cap work[p].ids :
          InPhase(p, n) /\ WithinCeiling(p, <<debt[n], n>>)}}]
  /\ pc' = [pc EXCEPT ![p] = "select"]
  /\ UNCHANGED <<canonical, debt, index, lock, op>>

\* The limit bounds provider attempts.
CanAttempt(p) == work[p].todo # {} /\ work[p].left > 0

\* Mutant: the provider is called without holding the writer.
ReserveNothing(p) == UNCHANGED lock

\* write_transaction, held until the acknowledgement.
Reserve(p) == lock' = p

\* The next candidate, read again under the writer: a key that was settled or
\* renewed, or that moved to the other phase, is left to a later call.
Select(p) ==
  /\ pc[p] = "select"
  /\ CanAttempt(p)
  /\ lock = Free
  /\ \E k \in work[p].todo :
       LET m == k[2] IN
       /\ \A l \in work[p].todo : KeyLeq(k, l)
       /\ IF debt[m] = k[1] /\ InPhase(p, m)
          THEN /\ Reserve(p)
               /\ op' = [op EXCEPT ![p] =
                           [id |-> m, gen |-> k[1], val |-> vec[m], done |-> FALSE]]
               /\ work' = [work EXCEPT ![p].todo = @ \ {k}, ![p].left = @ - 1]
               /\ pc' = [pc EXCEPT ![p] = "call"]
          ELSE /\ work' = [work EXCEPT ![p].todo = @ \ {k}]
               /\ UNCHANGED <<lock, op, pc>>
  /\ UNCHANGED <<canonical, debt, index>>

\* The provider upserts the vector, or deletes it.
Publish(p) ==
  /\ pc[p] = "call"
  /\ idx' = [idx EXCEPT ![op[p].id] = op[p].val]
  /\ pc' = [pc EXCEPT ![p] = "ack"]
  /\ UNCHANGED <<canonical, debt, lost, seeded, registered, lock, work, op>>

\* acknowledge_vector_index_repairs and commit.
Ack(p) ==
  /\ pc[p] = "ack"
  /\ debt' = [debt EXCEPT ![op[p].id] = IF @ = op[p].gen THEN NoDebt ELSE @]
  /\ lock' = Free
  /\ op' = [op EXCEPT ![p] = NoCall]
  /\ pc' = [pc EXCEPT ![p] = "select"]
  /\ UNCHANGED <<canonical, index, work>>

\* The call of p returns, or p dies: its local variables are gone.
Return(p) ==
  /\ pc' = [pc EXCEPT ![p] = "idle"]
  /\ work' = [work EXCEPT ![p] = NoWork]
  /\ op' = [op EXCEPT ![p] = NoCall]

\* The provider raises, having done its work or not: rollback. A failed upsert
\* ends the call, a failed deletion does not.
Fail(p, done) ==
  /\ pc[p] = "call"
  /\ idx' = IF done THEN [idx EXCEPT ![op[p].id] = op[p].val] ELSE idx
  /\ lock' = Free
  /\ IF work[p].phase = "cleanup"
     THEN /\ pc' = [pc EXCEPT ![p] = "select"]
          /\ op' = [op EXCEPT ![p] = NoCall]
          /\ UNCHANGED work
     ELSE Return(p)
  /\ UNCHANGED <<canonical, debt, lost, seeded, registered>>

EndPhase(p) ==
  /\ pc[p] = "select"
  /\ ~ CanAttempt(p)
  /\ IF work[p].phase = "cleanup" /\ work[p].left > 0
     THEN /\ work' = [work EXCEPT ![p].phase = "upsert"]
          /\ pc' = [pc EXCEPT ![p] = "page"]
          /\ UNCHANGED op
     ELSE Return(p)
  /\ UNCHANGED <<canonical, debt, index, lock>>

------------------------------------------------------------------------------
\* MemoryEngine.secure_erase with a separate index: the provider's deletion in
\* the middle of the transaction. What it queues first is not yet committed.
EraseBegin(p, m) ==
  /\ pc[p] = "idle"
  /\ registered
  /\ ops < MaxOps
  /\ lock = Free
  /\ row[m] \in {"live", "held"}
  /\ lock' = p
  /\ op' = [op EXCEPT ![p] = [id |-> m, gen |-> gen, val |-> 0, done |-> FALSE]]
  /\ ops' = ops + 1
  /\ pc' = [pc EXCEPT ![p] = "erasing"]
  /\ UNCHANGED <<row, vec, gen, debt, index, work>>

\* The provider confirms, or raises having deleted the vector or not.
EraseCall(p, ok, done) ==
  /\ pc[p] = "erasing"
  /\ ok => done
  /\ idx' = IF done THEN [idx EXCEPT ![op[p].id] = 0] ELSE idx
  /\ op' = [op EXCEPT ![p].done = ok]
  /\ pc' = [pc EXCEPT ![p] = "erase_commit"]
  /\ UNCHANGED <<canonical, debt, lost, seeded, registered, lock, work>>

\* Mutant: what was attempted is acknowledged, confirmed or not.
SettlesAttempted(p, g) == NoDebt

\* Only the debt of a confirmed deletion is acknowledged.
Settled(p, g) == IF op[p].done THEN NoDebt ELSE g

\* Rows and vector go, with the trigger's debt.
EraseCommit(p) ==
  LET m == op[p].id IN
  /\ pc[p] = "erase_commit"
  /\ row' = [row EXCEPT ![m] = "erased"]
  /\ vec' = [vec EXCEPT ![m] = 0]
  /\ gen' = IF vec[m] # 0 THEN gen + 1 ELSE gen
  /\ debt' = [debt EXCEPT ![m] = Settled(p, gen')]
  /\ lock' = Free
  /\ Return(p)
  /\ UNCHANGED <<ops, index>>

\* The erasure of the rows raises, the transaction is rolled back ...
EraseFail(p) ==
  /\ "rollback" \in Feature
  /\ pc[p] = "erase_commit"
  /\ lock' = Free
  /\ pc' = [pc EXCEPT ![p] = "requeue"]
  /\ UNCHANGED <<canonical, debt, index, work, op>>

\* ... and the attempted ids are queued in another one.
Requeue(p) ==
  /\ pc[p] = "requeue"
  /\ lock = Free
  /\ debt' = [debt EXCEPT ![op[p].id] = gen]
  /\ Return(p)
  /\ UNCHANGED <<canonical, index, lock>>

------------------------------------------------------------------------------
EraseStates == {"erasing", "erase_commit", "requeue"}

Crash(p) ==
  /\ "crash" \in Feature
  /\ ops < MaxOps
  /\ pc[p] # "idle"
  /\ pc[p] \in EraseStates => "erase_crash" \in Feature
  /\ Return(p)
  /\ lock' = IF lock = p THEN Free ELSE lock
  /\ ops' = ops + 1
  /\ UNCHANGED <<row, vec, gen, debt, index>>

\* The provider's index is recreated while no process runs.
Lose ==
  /\ "loss" \in Feature
  /\ ops < MaxOps
  /\ \A p \in Process : pc[p] = "idle"
  /\ idx' = [m \in Id |-> 0]
  /\ lost' = TRUE
  /\ seeded' = FALSE
  /\ ops' = ops + 1
  /\ UNCHANGED <<row, vec, gen, debt, registered, lock, pc, work, op>>

RepairStep(p) == ReadPage(p) \/ Select(p) \/ Ack(p) \/ EndPhase(p)

Erase(p) ==
  \/ \E m \in Id : EraseBegin(p, m)
  \/ \E ok, done \in BOOLEAN : EraseCall(p, ok, done)
  \/ EraseCommit(p) \/ EraseFail(p) \/ Requeue(p)

\* A writer repairs the one id that it wrote, a start or an operator all.
Next ==
  \/ \E m \in Id : Write(m) \/ Quarantine(m) \/ PeerErase(m)
  \/ Startup \/ Complete \/ Lose
  \/ \E p \in Process :
       \/ \E m \in Id : RepairBegin(p, {m})
       \/ RepairBegin(p, Id)
       \/ RepairStep(p) \/ Publish(p) \/ (\E done \in BOOLEAN : Fail(p, done))
       \/ Erase(p) \/ Crash(p)

Spec == Init /\ [][Next]_vars

\* Repairs are called again and again (every start hydrates until nothing is
\* pending), SQLite's busy handler lets each of them have the writer in the
\* end, and a provider that is called for ever does not fail for ever.
FairSpec ==
  /\ Spec
  /\ WF_vars(Startup) /\ WF_vars(Complete)
  /\ \A p \in Process :
       /\ SF_vars(RepairBegin(p, Id) \/ RepairStep(p))
       /\ SF_vars(Publish(p))
       /\ SF_vars((\E ok, done \in BOOLEAN : EraseCall(p, ok, done)) \/ EraseCommit(p) \/ Requeue(p))

------------------------------------------------------------------------------
TypeOK ==
  /\ row \in [Id -> RowState]
  /\ vec \in [Id -> 0..MaxOps]
  /\ gen \in Nat
  /\ debt \in [Id -> (0..gen) \cup {NoDebt}]
  /\ registered \in BOOLEAN
  /\ idx \in [Id -> 0..MaxOps]
  /\ lost \in BOOLEAN /\ seeded \in BOOLEAN
  /\ lock \in Process \cup {Free}
  /\ pc \in [Process -> PC]
  /\ work \in [Process -> Work]
  /\ op \in [Process -> Call]
  /\ ops \in 0..MaxOps

\* Is m being erased?
Erasing(m) == \E p \in Process : pc[p] \in EraseStates /\ op[p].id = m

\* An empty queue is a proof: where the index differs from the canonical vector
\* there is debt, whatever writers, repairs, failures of the provider and losses
\* of the index came between, so that recall (canonical_search_required) may
\* trust an index without debt.
DebtCoversDifference ==
  \A m \in Id :
    registered /\ ~ lost /\ debt[m] = NoDebt /\ ~ Erasing(m) => idx[m] = vec[m]

\* What the provider is given is never stale: "Captured payloads cannot
\* overwrite newer vectors or resurrect erased records" (repair_vector_index).
NeverPublishesStale ==
  [][\A m \in Id : idx'[m] # idx[m] /\ idx'[m] # 0 => idx'[m] = vec[m]]_vars

\* When canonical operations stop, the index catches up and stays.
IndexCatchesUp == <>[](registered /\ Pending = {} /\ ~ lost /\ idx = vec)

==============================================================================
