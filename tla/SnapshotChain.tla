---------------------------- MODULE SnapshotChain ----------------------------
(***************************************************************************)
(* The freshness protocol of engraphis/core/sync.py: per-device snapshot   *)
(* generations, the hash chain over them, the checkpoints that a device    *)
(* keeps of its own and of its peers' chains, and the round of             *)
(* SyncEngine.sync that moves snapshots through a transport which holds    *)
(* one file per device (backends/sync_folder.py, sync_relay.py).           *)
(*                                                                         *)
(* Rows are items of a set that only grows; what merging does to a row is  *)
(* in MergeRecord. A snapshot is identified by its place in snaps, which   *)
(* plays its state_hash: equal snapshots have equal hashes (created_at is  *)
(* not hashed), different ones different hashes. Hash 0 is "".             *)
(***************************************************************************)
EXTENDS Integers, Sequences, FiniteSets

CONSTANTS
  Device,
  Proc,          \* processes that run sync(): dashboard, cron job, CLI
  Owner,         \* Owner[p]: the device whose store p opens
  Item,          \* rows
  Fault,         \* which faults happen: a subset of FaultKind
  MaxFaults,     \* bound on their number
  MaxSnapshots   \* bound on the snapshots of a behaviour

FaultKind == {"crash", "restore", "pull", "stale", "apply", "push"}

ASSUME ChainAssumption ==
  /\ Owner \in [Proc -> Device]
  /\ Fault \subseteq FaultKind
  /\ MaxFaults \in Nat
  /\ MaxSnapshots \in Nat

VARIABLES
  data,     \* data[d]: the rows of d's store that it exports
  ckpt,     \* ckpt[d][e]: d's checkpoint of e's chain, a hash; 0 is none
  backup,   \* backup[d]: a copy of d's database file
  snaps,    \* the snapshots exported so far; the index is the hash
  remote,   \* remote[d]: the hash of d's file in the transport, 0 if none
  pushed,   \* history: the hashes that have been in the transport
  lock,     \* lock[d]: the process in a write transaction on d's store
  pc,       \* where a process is in sync()
  todo,     \* todo[p]: the devices whose file p has still to pull
  cur,      \* cur[p]: the hash of the bundle p is applying or pushing
  faults    \* faults so far

vars == <<data, ckpt, backup, snaps, remote, pushed, lock, pc, todo, cur, faults>>

Free == "free"

Hash == 0..MaxSnapshots

Snapshot == [dev : Device, gen : Nat, prev : Hash, data : SUBSET Item]

\* The generation a checkpoint stands for; none is before generation 1.
Gen(h) == IF h = 0 THEN 0 ELSE snaps[h].gen

Rows(h) == IF h = 0 THEN {} ELSE snaps[h].data

Init ==
  /\ data = [d \in Device |-> {}]
  /\ ckpt = [d \in Device |-> [e \in Device |-> 0]]
  /\ backup = [d \in Device |-> [data |-> {}, ckpt |-> [e \in Device |-> 0]]]
  /\ snaps = <<>>
  /\ remote = [d \in Device |-> 0]
  /\ pushed = {}
  /\ lock = [d \in Device |-> Free]
  /\ pc = [p \in Proc |-> "idle"]
  /\ todo = [p \in Proc |-> {}]
  /\ cur = [p \in Proc |-> 0]
  /\ faults = 0

\* The write lock of SQLite: free, or held by this process already.
CanWrite(p) == lock[Owner[p]] \in {p, Free}

Unlocked(p) == [lock EXCEPT ![Owner[p]] = IF @ = p THEN Free ELSE @]

Happens(kind) == kind \in Fault /\ faults < MaxFaults /\ faults' = faults + 1

------------------------------------------------------------------------------
\* Local activity between the steps of a round.

\* A new row, captured on d.
Write(d, i) ==
  /\ \A e \in Device : i \notin data[e] /\ i \notin backup[e].data
  /\ \A n \in 1..Len(snaps) : i \notin snaps[n].data
  /\ lock[d] = Free
  /\ data' = [data EXCEPT ![d] = @ \cup {i}]
  /\ UNCHANGED <<ckpt, backup, snaps, remote, pushed, lock, pc, todo, cur, faults>>

\* An operator copies d's database file, and later puts the copy back; copies
\* that the bound on faults keeps from being put back are not made.
Backup(d) ==
  /\ "restore" \in Fault /\ faults < MaxFaults
  /\ lock[d] = Free
  /\ backup' = [backup EXCEPT ![d] = [data |-> data[d], ckpt |-> ckpt[d]]]
  /\ UNCHANGED <<data, ckpt, snaps, remote, pushed, lock, pc, todo, cur, faults>>

Restore(d) ==
  /\ Happens("restore")
  /\ \A p \in Proc : Owner[p] = d => pc[p] = "idle"
  /\ data' = [data EXCEPT ![d] = backup[d].data]
  /\ ckpt' = [ckpt EXCEPT ![d] = backup[d].ckpt]
  /\ UNCHANGED <<backup, snaps, remote, pushed, lock, pc, todo, cur>>

------------------------------------------------------------------------------
\* Pull.

\* sync() enters: the first export only finds the workspace's name. The
\* transport lists its files once.
Start(p) ==
  /\ pc[p] = "idle"
  /\ pc' = [pc EXCEPT ![p] = "pull"]
  /\ todo' = [todo EXCEPT ![p] = {e \in Device : remote[e] # 0}]
  /\ UNCHANGED <<data, ckpt, backup, snaps, remote, pushed, lock, cur, faults>>

\* _check_incoming_freshness: none of its errors applies.
Fresh(known, h) ==
  \/ known = 0
  \/ Gen(h) = Gen(known) /\ h = known
  \/ Gen(h) = Gen(known) + 1 /\ snaps[h].prev = known
  \/ Gen(h) > Gen(known) + 1

\* Mutant: a device ignores its own file.
ReceivePeersOnly(p, e, h) ==
  LET d == Owner[p]
      takes == e # d /\ Fresh(ckpt[d][e], h)
  IN /\ pc[p] = "pull"
     /\ e \in todo[p]
     /\ todo' = [todo EXCEPT ![p] = @ \ {e}]
     /\ pc' = [pc EXCEPT ![p] = IF takes THEN "apply" ELSE "pull"]
     /\ cur' = [cur EXCEPT ![p] = IF takes THEN h ELSE 0]
     /\ UNCHANGED <<data, ckpt, backup, snaps, remote, pushed, lock>>

\* The transport yields e's file: the bundle is checked against the checkpoint
\* (by sync() and again by apply_bundle) and refused, skipped (the device's own
\* and already known) or applied.
Receive(p, e, h) ==
  LET d == Owner[p]
      known == ckpt[d][e]
      takes == Fresh(known, h) /\ ~ (e = d /\ h = known)
  IN /\ pc[p] = "pull"
     /\ e \in todo[p]
     /\ todo' = [todo EXCEPT ![p] = @ \ {e}]
     /\ pc' = [pc EXCEPT ![p] = IF takes THEN "apply" ELSE "pull"]
     /\ cur' = [cur EXCEPT ![p] = IF takes THEN h ELSE 0]
     /\ UNCHANGED <<data, ckpt, backup, snaps, remote, pushed, lock>>

Read(p, e) == Receive(p, e, remote[e]) /\ UNCHANGED faults

\* The transport returns an earlier version of the file.
StaleRead(p, e, h) ==
  /\ h \in pushed /\ snaps[h].dev = e /\ h # remote[e]
  /\ Receive(p, e, h)
  /\ Happens("stale")

\* A file is unreadable or over a limit, or pull() raises before its last file:
\* some files are not seen, the round goes on.
PullFail(p, rest) ==
  /\ pc[p] = "pull"
  /\ rest \subseteq todo[p] /\ rest # todo[p]
  /\ Happens("pull")
  /\ todo' = [todo EXCEPT ![p] = rest]
  /\ UNCHANGED <<data, ckpt, backup, snaps, remote, pushed, lock, pc, cur>>

\* apply_bundle commits the rows of the bundle ...
ApplyRows(p) ==
  LET d == Owner[p] IN
  /\ pc[p] = "apply"
  /\ CanWrite(p)
  /\ data' = [data EXCEPT ![d] = @ \cup Rows(cur[p])]
  /\ lock' = Unlocked(p)
  /\ pc' = [pc EXCEPT ![p] = "save"]
  /\ UNCHANGED <<ckpt, backup, snaps, remote, pushed, todo, cur, faults>>

\* Mutant: the exception is swallowed and the checkpoint saved.
PartialApplySaves(p, rows) ==
  LET d == Owner[p] IN
  /\ pc[p] = "apply"
  /\ CanWrite(p)
  /\ Happens("apply")
  /\ rows \subseteq Rows(cur[p])
  /\ data' = [data EXCEPT ![d] = @ \cup rows]
  /\ lock' = Unlocked(p)
  /\ pc' = [pc EXCEPT ![p] = "save"]
  /\ UNCHANGED <<ckpt, backup, snaps, remote, pushed, todo, cur>>

\* ... or an exception leaves some batches committed and no checkpoint ...
ApplyFail(p, rows) ==
  LET d == Owner[p] IN
  /\ pc[p] = "apply"
  /\ CanWrite(p)
  /\ Happens("apply")
  /\ rows \subseteq Rows(cur[p])
  /\ data' = [data EXCEPT ![d] = @ \cup rows]
  /\ lock' = Unlocked(p)
  /\ pc' = [pc EXCEPT ![p] = "pull"]
  /\ cur' = [cur EXCEPT ![p] = 0]
  /\ UNCHANGED <<ckpt, backup, snaps, remote, pushed, todo>>

\* ... and last of all commits the checkpoint. sync() then counts the bytes in
\* a transaction that stays open while the next file is read.
SaveCheckpoint(p) ==
  LET d == Owner[p] IN
  /\ pc[p] = "save"
  /\ CanWrite(p)
  /\ ckpt' = [ckpt EXCEPT ![d][snaps[cur[p]].dev] = cur[p]]
  /\ lock' = [lock EXCEPT ![d] = p]
  /\ pc' = [pc EXCEPT ![p] = "pull"]
  /\ cur' = [cur EXCEPT ![p] = 0]
  /\ UNCHANGED <<data, backup, snaps, remote, pushed, todo, faults>>

------------------------------------------------------------------------------
\* Push.

\* push=False: a read-only round ends after the pull and the open commit.
EndReadOnly(p) ==
  /\ pc[p] = "pull"
  /\ todo[p] = {}
  /\ lock' = Unlocked(p)
  /\ pc' = [pc EXCEPT ![p] = "idle"]
  /\ UNCHANGED <<data, ckpt, backup, snaps, remote, pushed, todo, cur, faults>>

\* Mutant: previous_hash is left empty.
StampUnchained(d) ==
  [ dev |-> d, gen |-> Gen(ckpt[d][d]) + 1, prev |-> 0, data |-> data[d] ]

\* export_bundle and _stamp_snapshot: the next generation of the own chain.
Stamp(d) ==
  [ dev |-> d, gen |-> Gen(ckpt[d][d]) + 1, prev |-> ckpt[d][d], data |-> data[d] ]

\* The telemetry is committed, then the rows are read.
Export(p) ==
  LET s == Stamp(Owner[p])
      n == Len(snaps)
  IN /\ pc[p] = "pull"
     /\ todo[p] = {}
     /\ \/ \E h \in 1..n : /\ snaps[h] = s
                           /\ cur' = [cur EXCEPT ![p] = h]
                           /\ snaps' = snaps
        \/ /\ \A h \in 1..n : snaps[h] # s
           /\ n < MaxSnapshots
           /\ cur' = [cur EXCEPT ![p] = n + 1]
           /\ snaps' = Append(snaps, s)
     /\ lock' = Unlocked(p)
     /\ pc' = [pc EXCEPT ![p] = "mark"]
     /\ UNCHANGED <<data, ckpt, backup, remote, pushed, todo, faults>>

\* mark_memories_sync_exported opens the transaction that the checkpoint will
\* commit; with no row to mark there is none yet.
Mark(p) ==
  LET d == Owner[p] IN
  /\ pc[p] = "mark"
  /\ lock[d] = Free
  /\ lock' = [lock EXCEPT ![d] = IF Rows(cur[p]) = {} THEN Free ELSE p]
  /\ pc' = [pc EXCEPT ![p] = "push"]
  /\ UNCHANGED <<data, ckpt, backup, snaps, remote, pushed, todo, cur, faults>>

\* transport.push replaces the device's file.
Push(p) ==
  /\ pc[p] = "push"
  /\ remote' = [remote EXCEPT ![Owner[p]] = cur[p]]
  /\ pushed' = pushed \cup {cur[p]}
  /\ pc' = [pc EXCEPT ![p] = "commit"]
  /\ UNCHANGED <<data, ckpt, backup, snaps, lock, todo, cur, faults>>

\* An exception rolls the transaction back.
PushFail(p) ==
  /\ pc[p] = "push"
  /\ Happens("push")
  /\ lock' = Unlocked(p)
  /\ pc' = [pc EXCEPT ![p] = "idle"]
  /\ cur' = [cur EXCEPT ![p] = 0]
  /\ UNCHANGED <<data, ckpt, backup, snaps, remote, pushed, todo>>

\* _save_snapshot_checkpoint commits the markers and the own checkpoint.
Commit(p) ==
  LET d == Owner[p] IN
  /\ pc[p] = "commit"
  /\ CanWrite(p)
  /\ ckpt' = [ckpt EXCEPT ![d][d] = cur[p]]
  /\ lock' = Unlocked(p)
  /\ pc' = [pc EXCEPT ![p] = "idle"]
  /\ cur' = [cur EXCEPT ![p] = 0]
  /\ UNCHANGED <<data, backup, snaps, remote, pushed, todo, faults>>

\* The process dies; its open transaction is gone. A push whose answer was
\* lost, reported as an error, ends the same way.
Crash(p) ==
  /\ pc[p] # "idle"
  /\ Happens("crash")
  /\ lock' = Unlocked(p)
  /\ pc' = [pc EXCEPT ![p] = "idle"]
  /\ todo' = [todo EXCEPT ![p] = {}]
  /\ cur' = [cur EXCEPT ![p] = 0]
  /\ UNCHANGED <<data, ckpt, backup, snaps, remote, pushed>>

------------------------------------------------------------------------------
Next ==
  \/ \E d \in Device, i \in Item : Write(d, i)
  \/ \E d \in Device : Backup(d) \/ Restore(d)
  \/ \E p \in Proc, e \in Device : Read(p, e)
  \/ \E p \in Proc, e \in Device, h \in pushed : StaleRead(p, e, h)
  \/ \E p \in Proc, rest \in SUBSET Device : PullFail(p, rest)
  \/ \E p \in Proc, rows \in SUBSET Item : ApplyFail(p, rows)
  \/ \E p \in Proc :
       \/ Start(p) \/ ApplyRows(p) \/ SaveCheckpoint(p)
       \/ EndReadOnly(p) \/ Export(p) \/ Mark(p) \/ Push(p) \/ PushFail(p)
       \/ Commit(p) \/ Crash(p)

Spec == Init /\ [][Next]_vars

------------------------------------------------------------------------------
TypeOK ==
  /\ data \in [Device -> SUBSET Item]
  /\ ckpt \in [Device -> [Device -> 0..Len(snaps)]]
  /\ backup \in [Device -> [data : SUBSET Item, ckpt : [Device -> 0..Len(snaps)]]]
  /\ snaps \in Seq(Snapshot) /\ Len(snaps) <= MaxSnapshots
  /\ remote \in [Device -> 0..Len(snaps)]
  /\ pushed \subseteq 1..Len(snaps)
  /\ lock \in [Device -> Proc \cup {Free}]
  /\ pc \in [Proc -> {"idle", "pull", "apply", "save", "mark", "push", "commit"}]
  /\ todo \in [Proc -> SUBSET Device]
  /\ cur \in [Proc -> 0..Len(snaps)]
  /\ faults \in 0..MaxFaults

\* A generation of a device's chain names one snapshot: what peers have seen
\* under a generation is never replaced by something else under the same one.
OneSnapshotPerGeneration ==
  \A g, h \in pushed : snaps[g].dev = snaps[h].dev /\ snaps[g].gen = snaps[h].gen
                         => g = h

\* The snapshots that h extends, itself included: those in every set that has h
\* and the predecessors of its members.
Chain(h) ==
  {g \in 1..Len(snaps) :
     \A S \in SUBSET (1..Len(snaps)) :
       h \in S /\ (\A k \in S : snaps[k].prev # 0 => snaps[k].prev \in S) => g \in S}

\* A round moves from one accepted snapshot of a chain only to one that
\* extends it: the gate "still rejects stale or forked snapshots before
\* anything is applied" (docs/SYNC.md).
AcceptsOnlyExtensions ==
  [][\A d, e \in Device :
       pc' # pc /\ ckpt[d][e] # 0 /\ ckpt'[d][e] # ckpt[d][e]
         => ckpt[d][e] \in Chain(ckpt[d][e])']_vars

\* A device that has checkpointed a snapshot holds all its rows: whatever
\* fails between the batches, and whatever another round on the same store does
\* meanwhile, the checkpoint is never ahead of the data, so a snapshot that was
\* applied in part is offered and accepted again.
CheckpointCovered ==
  \A d, e \in Device : Rows(ckpt[d][e]) \subseteq data[d]

\* Replacing a device's file never takes rows away from the peers: the round
\* pulls the own file first, also after the database was put back to an older
\* state or a crash lost the checkpoint of the last push.
FileNeverLosesRows ==
  [][\A d \in Device : Rows(remote[d]) \subseteq Rows(remote[d])']_vars

==============================================================================
