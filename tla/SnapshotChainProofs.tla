------------------------ MODULE SnapshotChainProofs --------------------------
(***************************************************************************)
(* For every set of devices and sync processes, several on one store       *)
(* included, and whatever crashes, restores and transport faults happen:   *)
(* a checkpoint never stands for rows that the store does not hold. With   *)
(* one sync process on each store: a checkpoint never goes back, and with  *)
(* a transport that yields every file the chains never fork.               *)
(***************************************************************************)
EXTENDS SnapshotChain, SequenceTheorems, WellFoundedInduction, TLAPS

Late == {"save", "mark", "push", "commit"}
Sending == {"mark", "push", "commit"}

\* A round that will write a checkpoint already holds the rows of its bundle,
\* and a copy of a database file is as consistent as the file was.
RoundCovered ==
  \A p \in Proc : /\ pc[p] \in Late => Rows(cur[p]) \subseteq data[Owner[p]]
                  /\ pc[p] \in Sending => cur[p] # 0

BackupCovered ==
  \A d, e \in Device : Rows(backup[d].ckpt[e]) \subseteq backup[d].data

IInv == TypeOK /\ CheckpointCovered /\ RoundCovered /\ BackupCovered

------------------------------------------------------------------------------
\* What Gen and Rows yield of a known snapshot.
LEMMA SnapshotFields ==
  ASSUME TypeOK, NEW h \in 0..Len(snaps)
  PROVE  Gen(h) \in Nat /\ Rows(h) \subseteq Item /\ h \in Hash
<1>1. CASE h = 0
  BY <1>1, ChainAssumption DEF TypeOK, Gen, Rows, Hash
<1>2. CASE h # 0
  <2>1. h \in 1..Len(snaps)
    BY <1>2 DEF TypeOK
  <2>2. snaps[h] \in Snapshot
    BY <2>1 DEF TypeOK
  <2>3. h \in Hash
    BY <2>1, ChainAssumption DEF TypeOK, Hash
  <2>4. snaps[h].gen \in Nat /\ snaps[h].data \subseteq Item
    BY <2>2 DEF Snapshot
  <2> QED BY <1>2, <2>3, <2>4 DEF Gen, Rows
<1> QED BY <1>1, <1>2

LEMMA RecordFields ==
  ASSUME TypeOK, NEW h \in 1..Len(snaps)
  PROVE  snaps[h].dev \in Device /\ snaps[h].gen \in Nat /\ snaps[h].prev \in Hash
<1>1. snaps[h] \in Snapshot
  BY DEF TypeOK
<1> QED BY <1>1 DEF Snapshot

\* _stamp_snapshot yields a snapshot.
LEMMA StampType ==
  ASSUME TypeOK, NEW d \in Device
  PROVE  Stamp(d) \in Snapshot
<1>1. ckpt[d][d] \in 0..Len(snaps) /\ data[d] \subseteq Item
  BY DEF TypeOK
<1>2. Gen(ckpt[d][d]) \in Nat /\ ckpt[d][d] \in Hash
  BY <1>1, SnapshotFields
<1> QED BY <1>1, <1>2 DEF Stamp, Snapshot

\* An export keeps every hash's meaning.
LEMMA ExportKeeps ==
  ASSUME TypeOK, NEW p \in Proc, Export(p)
  PROVE  /\ snaps' \in Seq(Snapshot)
         /\ Len(snaps) <= Len(snaps') /\ Len(snaps') <= MaxSnapshots
         /\ \A h \in 0..Len(snaps) : Rows(h)' = Rows(h)
         /\ cur' \in [Proc -> 0..Len(snaps')]
         /\ Rows(cur[p])' = data[Owner[p]] /\ cur'[p] # 0
         /\ \A q \in Proc \ {p} : cur'[q] = cur[q]
         /\ snaps'[cur'[p]] = Stamp(Owner[p])
         /\ \A h \in 1..Len(snaps) : snaps'[h] = snaps[h]
<1> DEFINE s == Stamp(Owner[p])
           n == Len(snaps)
<1>0. Owner[p] \in Device /\ n \in Nat /\ MaxSnapshots \in Nat /\ snaps \in Seq(Snapshot)
  BY ChainAssumption DEF TypeOK
<1>1. s \in Snapshot /\ s.data = data[Owner[p]]
  BY <1>0, StampType DEF Stamp
<1>2. CASE /\ \E h \in 1..n : snaps[h] = s /\ cur' = [cur EXCEPT ![p] = h]
           /\ snaps' = snaps
  <2>1. PICK h \in 1..n : snaps[h] = s /\ cur' = [cur EXCEPT ![p] = h]
    BY <1>2
  <2>2. cur' \in [Proc -> 0..n] /\ cur'[p] = h /\ \A q \in Proc \ {p} : cur'[q] = cur[q]
    BY <1>0, <2>1 DEF TypeOK
  <2>3. Rows(cur[p])' = s.data
    BY <1>0, <1>2, <2>1, <2>2 DEF Rows
  <2> QED BY <1>0, <1>1, <1>2, <2>2, <2>3 DEF TypeOK, Rows
<1>3. CASE n < MaxSnapshots /\ cur' = [cur EXCEPT ![p] = n + 1] /\ snaps' = Append(snaps, s)
  <2>1. /\ snaps' \in Seq(Snapshot) /\ Len(snaps') = n + 1 /\ snaps'[n + 1] = s
        /\ \A h \in 1..n : snaps'[h] = snaps[h]
    BY <1>0, <1>1, <1>3, AppendProperties
  <2>2. cur' \in [Proc -> 0..(n + 1)] /\ cur'[p] = n + 1 /\ \A q \in Proc \ {p} : cur'[q] = cur[q]
    BY <1>0, <1>3 DEF TypeOK
  <2>3. Rows(cur[p])' = s.data
    BY <1>0, <2>1, <2>2 DEF Rows
  <2> QED BY <1>0, <1>1, <1>3, <2>1, <2>2, <2>3 DEF Rows
<1> QED BY <1>2, <1>3 DEF Export

------------------------------------------------------------------------------
\* The initial state is consistent: nothing is known and nothing claimed.
LEMMA InitCovered == Init => IInv
<1> SUFFICES ASSUME Init PROVE IInv
  OBVIOUS
<1>1. snaps = <<>> /\ Len(snaps) = 0 /\ snaps \in Seq(Snapshot)
  BY DEF Init
<1>2. TypeOK
  BY <1>1, ChainAssumption DEF Init, TypeOK
<1> QED BY <1>2 DEF Init, IInv, CheckpointCovered, RoundCovered, BackupCovered, Rows, Late, Sending

\* The writers of rows and of copies.
LEMMA LocalStepCovered ==
  ASSUME IInv, NEW d \in Device,
         (\E i \in Item : Write(d, i)) \/ Backup(d) \/ Restore(d)
  PROVE  IInv'
<1> USE DEF IInv
<1>0. \A h : Rows(h)' = Rows(h)
  BY DEF Rows, Write, Backup, Restore
<1>1. ASSUME NEW i \in Item, Write(d, i) PROVE IInv'
  <2>1. TypeOK'
    BY <1>1 DEF TypeOK, Write
  <2>2. \A e \in Device : data[e] \subseteq data'[e]
    BY <1>1 DEF TypeOK, Write
  <2> QED BY <1>0, <1>1, <2>1, <2>2, ChainAssumption
          DEF Write, CheckpointCovered, RoundCovered, BackupCovered
<1>2. CASE Backup(d)
  <2>1. TypeOK'
    BY <1>2 DEF TypeOK, Backup
  <2>2. \A f \in Device : \/ backup'[f] = backup[f]
                          \/ backup'[f] = [data |-> data[f], ckpt |-> ckpt[f]]
    BY <1>2 DEF TypeOK, Backup
  <2>3. BackupCovered'
    <3> SUFFICES ASSUME NEW f \in Device, NEW e \in Device
                 PROVE  Rows(backup'[f].ckpt[e]) \subseteq backup'[f].data
      BY <1>0, <1>2 DEF BackupCovered, Backup, Rows
    <3>1. CASE backup'[f] = backup[f]
      BY <3>1 DEF BackupCovered
    <3>2. CASE backup'[f] = [data |-> data[f], ckpt |-> ckpt[f]]
      BY <3>2 DEF CheckpointCovered
    <3> QED BY <2>2, <3>1, <3>2
  <2> QED BY <1>0, <1>2, <2>1, <2>3
          DEF Backup, CheckpointCovered, RoundCovered
<1>3. CASE Restore(d)
  <2>1. TypeOK'
    <3>1. backup[d].data \in SUBSET Item /\ backup[d].ckpt \in [Device -> 0..Len(snaps)]
      BY DEF TypeOK
    <3>2. /\ data' \in [Device -> SUBSET Item]
          /\ ckpt' \in [Device -> [Device -> 0..Len(snaps)]]
      BY <1>3, <3>1 DEF TypeOK, Restore
    <3>3. faults' \in 0..MaxFaults
      BY <1>3, ChainAssumption DEF TypeOK, Restore, Happens
    <3> QED BY <1>3, <3>2, <3>3 DEF TypeOK, Restore
  <2>2. \A f \in Device : \/ data'[f] = data[f] /\ ckpt'[f] = ckpt[f]
                          \/ data'[f] = backup[f].data /\ ckpt'[f] = backup[f].ckpt
    BY <1>3 DEF TypeOK, Restore
  <2>3. CheckpointCovered'
    BY <1>0, <2>2 DEF CheckpointCovered, BackupCovered
  <2>4. \A f \in Device \ {d} : data'[f] = data[f]
    BY <1>3 DEF TypeOK, Restore
  <2>5. RoundCovered'
    BY <1>0, <1>3, <2>4, ChainAssumption DEF Restore, RoundCovered, Late, Sending
  <2> QED BY <1>0, <1>3, <2>1, <2>3, <2>5 DEF Restore, BackupCovered
<1> QED BY <1>1, <1>2, <1>3

------------------------------------------------------------------------------
\* The steps that leave data, the checkpoints and the snapshots alone.
LEMMA QuietStepCovered ==
  ASSUME IInv, NEW p \in Proc,
         \/ Start(p) \/ EndReadOnly(p) \/ Push(p) \/ PushFail(p) \/ Crash(p)
         \/ \E e \in Device : Read(p, e)
         \/ \E e \in Device, h \in pushed : StaleRead(p, e, h)
         \/ \E rest \in SUBSET Device : PullFail(p, rest)
  PROVE  IInv'
<1> USE DEF IInv
<1> DEFINE Quiet == /\ UNCHANGED <<data, ckpt, backup, snaps>>
                    /\ \A q \in Proc :
                         /\ pc'[q] \in Late => pc[q] \in Late /\ cur'[q] = cur[q]
                         /\ pc'[q] \in Sending => pc[q] \in Sending
<1>0. Owner[p] \in Device
  BY ChainAssumption
<1>q. Quiet /\ TypeOK'
  <2>1. CASE Start(p)
    BY <1>0, <2>1 DEF Start, TypeOK, Late, Sending
  <2>2. CASE EndReadOnly(p)
    BY <1>0, <2>2 DEF EndReadOnly, TypeOK, Unlocked, Late, Sending
  <2>4. CASE Push(p)
    <3>1. cur[p] \in 1..Len(snaps)
      BY <2>4 DEF Push, TypeOK, RoundCovered, Late, Sending
    <3>2. Quiet
      BY <2>4 DEF Push, TypeOK, Late, Sending
    <3> QED BY <1>0, <2>4, <3>1, <3>2 DEF Push, TypeOK
  <2>5. CASE PushFail(p)
    <3>1. Quiet
      BY <2>5 DEF PushFail, TypeOK, Late, Sending
    <3>2. faults' \in 0..MaxFaults /\ cur' \in [Proc -> 0..Len(snaps)]
      BY <2>5, ChainAssumption DEF PushFail, TypeOK, Happens
    <3> QED BY <1>0, <2>5, <3>1, <3>2 DEF PushFail, TypeOK, Unlocked
  <2>6. CASE Crash(p)
    <3>1. Quiet
      BY <2>6 DEF Crash, TypeOK, Late, Sending
    <3>2. faults' \in 0..MaxFaults /\ cur' \in [Proc -> 0..Len(snaps)]
      BY <2>6, ChainAssumption DEF Crash, TypeOK, Happens
    <3> QED BY <1>0, <2>6, <3>1, <3>2 DEF Crash, TypeOK, Unlocked
  <2>10. ASSUME NEW e \in Device, NEW h \in 0..Len(snaps), Receive(p, e, h),
                faults' \in 0..MaxFaults
         PROVE  Quiet /\ TypeOK'
    <3> DEFINE takes == Fresh(ckpt[Owner[p]][e], h) /\ ~ (e = Owner[p] /\ h = ckpt[Owner[p]][e])
    <3>1. /\ pc' = [pc EXCEPT ![p] = IF takes THEN "apply" ELSE "pull"]
          /\ cur' = [cur EXCEPT ![p] = IF takes THEN h ELSE 0]
          /\ todo' = [todo EXCEPT ![p] = @ \ {e}]
          /\ UNCHANGED <<data, ckpt, backup, snaps, remote, pushed, lock>>
      BY <2>10 DEF Receive
    <3> HIDE DEF takes
    <3>2. Quiet
      BY <3>1 DEF TypeOK, Late, Sending
    <3>3. cur' \in [Proc -> 0..Len(snaps)] /\ todo' \in [Proc -> SUBSET Device]
      BY <3>1 DEF TypeOK
    <3> QED BY <2>10, <3>1, <3>2, <3>3 DEF TypeOK
  <2>7. CASE \E e \in Device : Read(p, e)
    <3>1. PICK e \in Device : Read(p, e)
      BY <2>7
    <3>2. remote[e] \in 0..Len(snaps) /\ faults' \in 0..MaxFaults
      BY <3>1 DEF TypeOK, Read
    <3> QED BY <2>10, <3>1, <3>2 DEF Read
  <2>8. CASE \E e \in Device, h \in pushed : StaleRead(p, e, h)
    <3>1. PICK e \in Device, h \in pushed : StaleRead(p, e, h)
      BY <2>8
    <3>2. h \in 0..Len(snaps) /\ faults' \in 0..MaxFaults
      BY <3>1, ChainAssumption DEF TypeOK, StaleRead, Happens
    <3> QED BY <2>10, <3>1, <3>2 DEF StaleRead
  <2>9. CASE \E rest \in SUBSET Device : PullFail(p, rest)
    <3>1. PICK rest \in SUBSET Device : PullFail(p, rest)
      BY <2>9
    <3>2. faults' \in 0..MaxFaults
      BY <3>1, ChainAssumption DEF TypeOK, PullFail, Happens
    <3>3. todo' \in [Proc -> SUBSET Device]
      BY <3>1 DEF TypeOK, PullFail
    <3> QED BY <3>1, <3>2, <3>3 DEF PullFail, TypeOK, Late, Sending
  <2> QED BY <2>1, <2>2, <2>4, <2>5, <2>6, <2>7, <2>8, <2>9
<1>1. \A h : Rows(h)' = Rows(h)
  BY <1>q DEF Rows
<1>2. RoundCovered'
  BY <1>q, <1>1 DEF RoundCovered, Late, Sending
<1> QED BY <1>q, <1>1, <1>2 DEF CheckpointCovered, BackupCovered

\* Mark leaves its bundle's rows where they are: only the lock is taken.
LEMMA MarkCovered ==
  ASSUME IInv, NEW p \in Proc, Mark(p)
  PROVE  IInv'
<1> USE DEF IInv
<1>1. TypeOK'
  <2>1. Owner[p] \in Device
    BY ChainAssumption
  <2>2. lock' \in [Device -> Proc \cup {Free}]
    BY <2>1 DEF Mark, TypeOK
  <2> QED BY <2>2 DEF Mark, TypeOK
<1>2. \A h : Rows(h)' = Rows(h)
  BY DEF Mark, Rows
<1>3. RoundCovered'
  BY <1>2 DEF Mark, TypeOK, RoundCovered, Late, Sending
<1> QED BY <1>1, <1>2, <1>3 DEF Mark, CheckpointCovered, BackupCovered

\* The steps that apply a bundle, in full or in part.
LEMMA ApplyCovered ==
  ASSUME IInv, NEW p \in Proc,
         ApplyRows(p) \/ \E rows \in SUBSET Item : ApplyFail(p, rows)
  PROVE  IInv'
<1> USE DEF IInv
<1>0. Owner[p] \in Device /\ Rows(cur[p]) \subseteq Item
  BY SnapshotFields, ChainAssumption DEF TypeOK
<1>1. \A h : Rows(h)' = Rows(h)
  BY DEF ApplyRows, ApplyFail, Rows
<1>2. CASE ApplyRows(p)
  <2>1. TypeOK'
    BY <1>0, <1>2 DEF ApplyRows, TypeOK, Unlocked
  <2>2. \A d \in Device : data[d] \subseteq data'[d]
    BY <1>0, <1>2 DEF ApplyRows, TypeOK
  <2>3. Rows(cur[p]) \subseteq data'[Owner[p]]
    BY <1>0, <1>2 DEF ApplyRows, TypeOK
  <2>4. \A q \in Proc \ {p} : pc'[q] = pc[q] /\ cur'[q] = cur[q]
    BY <1>2 DEF ApplyRows, TypeOK
  <2>5. cur'[p] = cur[p] /\ pc'[p] = "save" /\ \A q \in Proc : Owner[q] \in Device
    BY <1>2, ChainAssumption DEF ApplyRows, TypeOK
  <2>6. RoundCovered'
    BY <1>1, <2>2, <2>3, <2>4, <2>5 DEF RoundCovered, Late, Sending
  <2> QED BY <1>1, <1>2, <2>1, <2>2, <2>6 DEF ApplyRows, CheckpointCovered, BackupCovered
<1>3. ASSUME NEW rows \in SUBSET Item, ApplyFail(p, rows) PROVE IInv'
  <2>1. faults' \in 0..MaxFaults /\ cur' \in [Proc -> 0..Len(snaps)]
    BY <1>3, ChainAssumption DEF ApplyFail, TypeOK, Happens
  <2>2. data' \in [Device -> SUBSET Item] /\ \A d \in Device : data[d] \subseteq data'[d]
    BY <1>0, <1>3 DEF ApplyFail, TypeOK
  <2>3. TypeOK'
    BY <1>0, <1>3, <2>1, <2>2 DEF ApplyFail, TypeOK, Unlocked
  <2>4. \A q \in Proc \ {p} : pc'[q] = pc[q] /\ cur'[q] = cur[q]
    BY <1>3 DEF ApplyFail, TypeOK
  <2>5. pc'[p] = "pull" /\ \A q \in Proc : Owner[q] \in Device
    BY <1>3, ChainAssumption DEF ApplyFail, TypeOK
  <2>6. RoundCovered'
    BY <1>1, <2>2, <2>4, <2>5 DEF RoundCovered, Late, Sending
  <2> QED BY <1>1, <1>3, <2>2, <2>3, <2>6 DEF ApplyFail, CheckpointCovered, BackupCovered
<1> QED BY <1>2, <1>3

\* The two steps that write a checkpoint.
LEMMA CheckpointStepCovered ==
  ASSUME IInv, NEW p \in Proc, SaveCheckpoint(p) \/ Commit(p)
  PROVE  IInv'
<1> USE DEF IInv
<1> DEFINE d == Owner[p]
<1>0. d \in Device /\ cur[p] \in 0..Len(snaps) /\ Rows(cur[p]) \subseteq data[d]
  BY ChainAssumption DEF TypeOK, RoundCovered, Late, Sending, SaveCheckpoint, Commit
<1>1. \A h : Rows(h)' = Rows(h)
  BY DEF SaveCheckpoint, Commit, Rows
<1>2. \E e : ckpt' = [ckpt EXCEPT ![d][e] = cur[p]]
  BY DEF SaveCheckpoint, Commit
<1>3. /\ ckpt' \in [Device -> [Device -> 0..Len(snaps)]]
      /\ \A f, e \in Device : ckpt'[f][e] = ckpt[f][e] \/ (f = d /\ ckpt'[f][e] = cur[p])
  <2>1. PICK x : ckpt' = [ckpt EXCEPT ![d][x] = cur[p]]
    BY <1>2
  <2>2. ckpt' = [ckpt EXCEPT ![d] = [ckpt[d] EXCEPT ![x] = cur[p]]]
    BY <2>1
  <2>3. ckpt[d] \in [Device -> 0..Len(snaps)]
    BY <1>0 DEF TypeOK
  <2>4. [ckpt[d] EXCEPT ![x] = cur[p]] \in [Device -> 0..Len(snaps)]
    BY <1>0, <2>3
  <2> QED BY <1>0, <2>2, <2>3, <2>4 DEF TypeOK
<1>4. TypeOK'
  <2>1. lock' \in [Device -> Proc \cup {Free}]
    <3>1. CASE SaveCheckpoint(p)
      BY <1>0, <3>1 DEF SaveCheckpoint, TypeOK
    <3>2. CASE Commit(p)
      BY <1>0, <3>2 DEF Commit, TypeOK, Unlocked
    <3> QED BY <3>1, <3>2
  <2>2. cur' \in [Proc -> 0..Len(snaps)]
    <3>1. cur' = [cur EXCEPT ![p] = 0] /\ 0 \in 0..Len(snaps)
      BY DEF SaveCheckpoint, Commit, TypeOK
    <3> QED BY <3>1 DEF TypeOK
  <2> QED BY <1>3, <2>1, <2>2 DEF SaveCheckpoint, Commit, TypeOK
<1>5. UNCHANGED <<data, backup>>
  BY DEF SaveCheckpoint, Commit
<1>6. CheckpointCovered'
  BY <1>0, <1>1, <1>3, <1>5 DEF CheckpointCovered
<1>7. RoundCovered'
  BY <1>1, <1>5 DEF SaveCheckpoint, Commit, TypeOK, RoundCovered, Late, Sending
<1> QED BY <1>1, <1>4, <1>5, <1>6, <1>7 DEF BackupCovered

\* An export claims no more than the store holds.
LEMMA ExportCovered ==
  ASSUME IInv, NEW p \in Proc, Export(p)
  PROVE  IInv'
<1> USE DEF IInv
<1>0. Owner[p] \in Device
  BY ChainAssumption
<1>1. /\ snaps' \in Seq(Snapshot)
      /\ Len(snaps) <= Len(snaps') /\ Len(snaps') <= MaxSnapshots
      /\ \A h \in 0..Len(snaps) : Rows(h)' = Rows(h)
      /\ cur' \in [Proc -> 0..Len(snaps')]
      /\ Rows(cur[p])' = data[Owner[p]] /\ cur'[p] # 0
      /\ \A q \in Proc \ {p} : cur'[q] = cur[q]
  BY ExportKeeps
<1>2. UNCHANGED <<data, ckpt, backup>>
  BY DEF Export
<1>3. \A n : n \in 0..Len(snaps) => n \in 0..Len(snaps')
  BY <1>1 DEF TypeOK
<1>4. TypeOK'
  <2>1. ckpt' \in [Device -> [Device -> 0..Len(snaps')]]
    BY <1>2, <1>3 DEF TypeOK
  <2>2. backup' \in [Device -> [data : SUBSET Item, ckpt : [Device -> 0..Len(snaps')]]]
    <3>1. backup \in [Device -> [data : SUBSET Item, ckpt : [Device -> 0..Len(snaps)]]]
      BY DEF TypeOK
    <3>2. [Device -> 0..Len(snaps)] \subseteq [Device -> 0..Len(snaps')]
      BY <1>3
    <3>3. [data : SUBSET Item, ckpt : [Device -> 0..Len(snaps)]]
            \subseteq [data : SUBSET Item, ckpt : [Device -> 0..Len(snaps')]]
      BY <3>2
    <3> QED BY <1>2, <3>1, <3>3
  <2>3. remote' \in [Device -> 0..Len(snaps')] /\ pushed' \subseteq 1..Len(snaps')
    BY <1>1, <1>3 DEF TypeOK, Export
  <2>4. lock' \in [Device -> Proc \cup {Free}]
    BY <1>0 DEF TypeOK, Export, Unlocked
  <2> QED BY <1>1, <1>2, <2>1, <2>2, <2>3, <2>4 DEF TypeOK, Export
<1>5. CheckpointCovered' /\ BackupCovered'
  <2>1. \A d, e \in Device : ckpt[d][e] \in 0..Len(snaps) /\ backup[d].ckpt[e] \in 0..Len(snaps)
    BY DEF TypeOK
  <2> QED BY <1>1, <1>2, <2>1 DEF CheckpointCovered, BackupCovered
<1>6. RoundCovered'
  <2>1. \A q \in Proc : cur[q] \in 0..Len(snaps)
    BY DEF TypeOK
  <2>2. \A q \in Proc \ {p} : pc'[q] = pc[q]
    BY DEF Export, TypeOK
  <2>3. \A q \in Proc \ {p} : Rows(cur[q])' = Rows(cur[q])
    BY <1>1, <2>1
  <2> QED BY <1>1, <1>2, <2>2, <2>3 DEF RoundCovered, Late, Sending
<1> QED BY <1>4, <1>5, <1>6

------------------------------------------------------------------------------
\* Every step keeps the invariant.
LEMMA StepCovered == IInv /\ [Next]_vars => IInv'
<1> SUFFICES ASSUME IInv, [Next]_vars PROVE IInv'
  OBVIOUS
<1>1. CASE UNCHANGED vars
  BY <1>1 DEF vars, IInv, TypeOK, CheckpointCovered, RoundCovered, BackupCovered, Rows
<1>2. CASE Next
  BY <1>2, LocalStepCovered, QuietStepCovered, MarkCovered, ApplyCovered,
     CheckpointStepCovered, ExportCovered DEF Next
<1> QED BY <1>1, <1>2

\* TypeOK holds of every behaviour of the protocol.
THEOREM ChainTypeCorrect == Spec => []TypeOK
<1>1. IInv => TypeOK
  BY DEF IInv
<1> QED BY InitCovered, StepCovered, <1>1, PTL DEF Spec

\* Whatever crashes, restores and partial applications happen, and however many
\* rounds run at once on a store, no checkpoint stands for rows that the store
\* does not hold (apply_bundle saves the checkpoint last, sync() exports before
\* it saves its own): a snapshot applied in part is accepted again.
THEOREM CheckpointsCovered == Spec => []CheckpointCovered
<1>1. IInv => CheckpointCovered
  BY DEF IInv
<1> QED BY InitCovered, StepCovered, <1>1, PTL DEF Spec

------------------------------------------------------------------------------
\* One sync process on each store.

OneProcess == \A p, q \in Proc : Owner[p] = Owner[q] => p = q

\* The file of a device is its own, and is there once it was listed.
Files ==
  /\ \A e \in Device : remote[e] # 0 => snaps[remote[e]].dev = e
  /\ \A p \in Proc : \A e \in todo[p] : remote[e] # 0

\* A bundle that passed the gate is still not older than the checkpoint when the
\* checkpoint is saved, and what is sent is still the next generation: nobody
\* else writes the checkpoints in between.
Gated ==
  \A p \in Proc :
    /\ pc[p] \in {"apply", "save"} =>
         cur[p] # 0 /\ Gen(ckpt[Owner[p]][snaps[cur[p]].dev]) <= Gen(cur[p])
    /\ pc[p] \in Sending =>
         snaps[cur[p]].dev = Owner[p] /\ Gen(cur[p]) = Gen(ckpt[Owner[p]][Owner[p]]) + 1

GInv == IInv /\ Files /\ Gated

\* A step that exports nothing.
LEMMA KeepGated ==
  ASSUME GInv, snaps' = snaps,
         \A e \in Device : \/ remote'[e] = remote[e]
                           \/ remote'[e] # 0 /\ snaps[remote'[e]].dev = e,
         \A q \in Proc : \A e \in todo'[q] : e \in todo[q] \/ remote'[e] # 0,
         \A q \in Proc : pc'[q] \in Late \cup {"apply"} => ckpt'[Owner[q]] = ckpt[Owner[q]],
         \A q \in Proc : pc'[q] \in {"apply", "save"} =>
            \/ pc[q] \in {"apply", "save"} /\ cur'[q] = cur[q]
            \/ cur'[q] # 0 /\ Gen(ckpt[Owner[q]][snaps[cur'[q]].dev]) <= Gen(cur'[q]),
         \A q \in Proc : pc'[q] \in Sending => pc[q] \in Sending /\ cur'[q] = cur[q]
  PROVE  Files' /\ Gated'
<1>1. \A h : Gen(h)' = Gen(h)
  BY DEF Gen
<1>2. Files'
  <2>1. \A q \in Proc : todo[q] \subseteq Device
    BY DEF GInv, IInv, TypeOK
  <2> QED BY <2>1 DEF GInv, Files
<1>3. ASSUME NEW q \in Proc, pc'[q] \in {"apply", "save"}
      PROVE  cur'[q] # 0 /\ Gen(ckpt'[Owner[q]][snaps[cur'[q]].dev]) <= Gen(cur'[q])
  BY <1>3 DEF GInv, Gated, Late
<1>4. ASSUME NEW q \in Proc, pc'[q] \in Sending
      PROVE  snaps[cur'[q]].dev = Owner[q] /\ Gen(cur'[q]) = Gen(ckpt'[Owner[q]][Owner[q]]) + 1
  BY <1>4 DEF GInv, Gated, Sending, Late
<1>5. Gated'
  BY <1>1, <1>3, <1>4 DEF Gated, Gen
<1> QED BY <1>2, <1>5

LEMMA InitGated == Init => GInv
  BY InitCovered DEF Init, GInv, Files, Gated, Sending

LEMMA LocalGated ==
  ASSUME GInv, NEW d \in Device, (\E i \in Item : Write(d, i)) \/ Backup(d) \/ Restore(d)
  PROVE  Files' /\ Gated'
<1>1. CASE (\E i \in Item : Write(d, i)) \/ Backup(d)
  <2>1. UNCHANGED <<ckpt, snaps, remote, pc, todo, cur>>
    BY <1>1 DEF Write, Backup
  <2> QED BY <2>1, KeepGated
<1>2. CASE Restore(d)
  <2>1. UNCHANGED <<snaps, remote, pc, todo, cur>>
    BY <1>2 DEF Restore
  <2>2. \A q \in Proc : pc'[q] \in Late \cup {"apply"} => ckpt'[Owner[q]] = ckpt[Owner[q]]
    BY <1>2, ChainAssumption DEF Restore, Late, GInv, IInv, TypeOK
  <2> QED BY <2>1, <2>2, KeepGated
<1> QED BY <1>1, <1>2

\* The gate: what it lets through is not older than the checkpoint.
LEMMA FreshIsNewer ==
  ASSUME TypeOK, NEW k \in 0..Len(snaps), NEW h \in 0..Len(snaps), Fresh(k, h)
  PROVE  Gen(k) <= Gen(h)
<1>1. Gen(k) \in Nat /\ Gen(h) \in Nat
  BY SnapshotFields
<1>2. k = 0 => Gen(k) = 0
  BY DEF Gen
<1> QED BY <1>1, <1>2 DEF Fresh

LEMMA ReceiveGated ==
  ASSUME GInv, NEW p \in Proc, NEW e \in Device, NEW h \in 1..Len(snaps),
         snaps[h].dev = e, Receive(p, e, h)
  PROVE  Files' /\ Gated'
<1> DEFINE k == ckpt[Owner[p]][e]
<1> DEFINE takes == Fresh(k, h) /\ ~ (e = Owner[p] /\ h = k)
<1>0. TypeOK /\ Owner[p] \in Device /\ h # 0 /\ h \in 0..Len(snaps)
  <2>1. TypeOK /\ Owner[p] \in Device
    BY ChainAssumption DEF GInv, IInv
  <2>2. Len(snaps) \in Nat
    BY <2>1 DEF TypeOK
  <2> QED BY <2>1, <2>2
<1>1. /\ pc' = [pc EXCEPT ![p] = IF takes THEN "apply" ELSE "pull"]
      /\ cur' = [cur EXCEPT ![p] = IF takes THEN h ELSE 0]
      /\ todo' = [todo EXCEPT ![p] = @ \ {e}]
      /\ UNCHANGED <<ckpt, snaps, remote>>
  BY DEF Receive
<1>2. k \in 0..Len(snaps)
  BY <1>0 DEF TypeOK
<1>3. takes => Gen(k) <= Gen(h)
  BY <1>0, <1>2, FreshIsNewer
<1> HIDE DEF takes
<1>4. \A q \in Proc : /\ todo'[q] \subseteq todo[q]
                      /\ q # p => pc'[q] = pc[q] /\ cur'[q] = cur[q]
  BY <1>0, <1>1 DEF TypeOK
<1>5. /\ pc'[p] \in {"apply", "pull"}
      /\ pc'[p] = "apply" => takes /\ cur'[p] = h
  BY <1>0, <1>1 DEF TypeOK
<1>6. \A q \in Proc : pc'[q] \in {"apply", "save"} =>
            \/ pc[q] \in {"apply", "save"} /\ cur'[q] = cur[q]
            \/ cur'[q] # 0 /\ Gen(ckpt[Owner[q]][snaps[cur'[q]].dev]) <= Gen(cur'[q])
  BY <1>0, <1>3, <1>4, <1>5
<1>7. \A q \in Proc : pc'[q] \in Sending => pc[q] \in Sending /\ cur'[q] = cur[q]
  BY <1>4, <1>5 DEF Sending
<1> QED BY <1>1, <1>4, <1>6, <1>7, KeepGated

LEMMA RoundGated ==
  ASSUME OneProcess, GInv, NEW p \in Proc,
         \/ Start(p) \/ EndReadOnly(p) \/ Push(p) \/ PushFail(p) \/ Crash(p)
         \/ Mark(p) \/ ApplyRows(p) \/ SaveCheckpoint(p) \/ Commit(p)
         \/ \E rest \in SUBSET Device : PullFail(p, rest)
         \/ \E rows \in SUBSET Item : ApplyFail(p, rows)
  PROVE  Files' /\ Gated'
<1>0. TypeOK /\ Owner[p] \in Device
  BY ChainAssumption DEF GInv, IInv
<1>1. CASE Start(p)
  <2>1. UNCHANGED <<ckpt, snaps, remote, cur>>
    BY <1>1 DEF Start
  <2>2. \A q \in Proc : /\ \A e \in todo'[q] : e \in todo[q] \/ remote'[e] # 0
                        /\ pc'[q] = pc[q] \/ pc'[q] = "pull"
    BY <1>0, <1>1 DEF Start, TypeOK
  <2> QED BY <2>1, <2>2, KeepGated DEF Sending
<1>2. CASE \E rest \in SUBSET Device : PullFail(p, rest)
  <2>1. UNCHANGED <<ckpt, snaps, remote, cur, pc>>
    BY <1>2 DEF PullFail
  <2>2. \A q \in Proc : todo'[q] \subseteq todo[q]
    BY <1>0, <1>2 DEF PullFail, TypeOK
  <2> QED BY <2>1, <2>2, KeepGated
<1>3. CASE EndReadOnly(p) \/ PushFail(p) \/ Crash(p) \/ (\E rows \in SUBSET Item : ApplyFail(p, rows))
  <2>1. UNCHANGED <<ckpt, snaps, remote>>
    BY <1>3 DEF EndReadOnly, PushFail, Crash, ApplyFail
  <2>2. \A q \in Proc : todo'[q] \subseteq todo[q]
    BY <1>0, <1>3 DEF EndReadOnly, PushFail, Crash, ApplyFail, TypeOK
  <2>3. \A q \in Proc : pc'[q] \in {"idle", "pull"} \/ (pc'[q] = pc[q] /\ cur'[q] = cur[q])
    BY <1>0, <1>3 DEF EndReadOnly, PushFail, Crash, ApplyFail, TypeOK
  <2> QED BY <2>1, <2>2, <2>3, KeepGated DEF Sending
<1>4. CASE Mark(p) \/ ApplyRows(p)
  <2>1. UNCHANGED <<ckpt, snaps, remote, todo, cur>>
    BY <1>4 DEF Mark, ApplyRows
  <2>2. \A q \in Proc : \/ pc'[q] = pc[q]
                        \/ pc[q] = "mark" /\ pc'[q] = "push"
                        \/ pc[q] = "apply" /\ pc'[q] = "save"
    BY <1>0, <1>4 DEF Mark, ApplyRows, TypeOK
  <2> QED BY <2>1, <2>2, KeepGated DEF Sending
<1>5. CASE Push(p)
  <2>1. UNCHANGED <<ckpt, snaps, todo, cur>> /\ pc[p] = "push"
    BY <1>5 DEF Push
  <2>2. \A q \in Proc : pc'[q] = pc[q] \/ (pc[q] = "push" /\ pc'[q] = "commit")
    BY <1>0, <1>5 DEF Push, TypeOK
  <2>3. cur[p] # 0 /\ snaps[cur[p]].dev = Owner[p]
    BY <2>1 DEF GInv, IInv, RoundCovered, Gated, Sending
  <2>4. \A e \in Device : \/ remote'[e] = remote[e]
                          \/ remote'[e] # 0 /\ snaps[remote'[e]].dev = e
    BY <1>0, <1>5, <2>3 DEF Push, TypeOK
  <2> QED BY <2>1, <2>2, <2>4, KeepGated DEF Sending
<1>6. CASE SaveCheckpoint(p) \/ Commit(p)
  <2>1. UNCHANGED <<snaps, remote, todo>>
    BY <1>6 DEF SaveCheckpoint, Commit
  <2>2. \A q \in Proc \ {p} : pc'[q] = pc[q] /\ cur'[q] = cur[q]
    BY <1>0, <1>6 DEF SaveCheckpoint, Commit, TypeOK
  <2>3. pc'[p] \in {"idle", "pull"}
    BY <1>0, <1>6 DEF SaveCheckpoint, Commit, TypeOK
  <2>4. \A d \in Device : d # Owner[p] => ckpt'[d] = ckpt[d]
    BY <1>0, <1>6 DEF SaveCheckpoint, Commit, TypeOK
  <2>5. \A q \in Proc : q # p => Owner[q] # Owner[p] /\ Owner[q] \in Device
    BY ChainAssumption DEF OneProcess
  <2>6. \A q \in Proc : pc'[q] \in Late \cup {"apply"} => ckpt'[Owner[q]] = ckpt[Owner[q]]
    BY <2>3, <2>4, <2>5 DEF Late
  <2>7. \A q \in Proc : pc'[q] \in Sending => pc[q] \in Sending /\ cur'[q] = cur[q]
    BY <2>2, <2>3 DEF Sending
  <2>8. \A q \in Proc : pc'[q] \in {"apply", "save"} => pc[q] \in {"apply", "save"} /\ cur'[q] = cur[q]
    BY <2>2, <2>3
  <2> QED BY <2>1, <2>6, <2>7, <2>8, KeepGated
<1> QED BY <1>1, <1>2, <1>3, <1>4, <1>5, <1>6

\* An export stamps the generation after the own checkpoint's.
LEMMA ExportGated ==
  ASSUME GInv, NEW p \in Proc, Export(p)
  PROVE  Files' /\ Gated'
<1>0. TypeOK /\ Owner[p] \in Device /\ Len(snaps) \in Nat
  BY ChainAssumption DEF GInv, IInv, TypeOK
<1>1. /\ cur'[p] # 0 /\ snaps'[cur'[p]] = Stamp(Owner[p])
      /\ \A q \in Proc \ {p} : cur'[q] = cur[q]
      /\ \A h \in 1..Len(snaps) : snaps'[h] = snaps[h]
  BY <1>0, ExportKeeps
<1>2. UNCHANGED <<ckpt, remote, todo>>
  BY DEF Export
<1>3. pc'[p] = "mark" /\ \A q \in Proc \ {p} : pc'[q] = pc[q]
  BY <1>0 DEF Export, TypeOK
<1>4. \A h \in 0..Len(snaps) : Gen(h)' = Gen(h)
  BY <1>0, <1>1 DEF Gen
<1>5. Files'
  <2>1. \A e \in Device : remote[e] \in 0..Len(snaps)
    BY <1>0 DEF TypeOK
  <2>2. \A e \in Device : remote[e] # 0 => snaps'[remote[e]] = snaps[remote[e]]
    BY <1>0, <1>1, <2>1
  <2> QED BY <1>2, <2>2 DEF GInv, Files
<1>6. ASSUME NEW q \in Proc, q # p, pc'[q] \in {"apply", "save"}
      PROVE  (cur[q] # 0 /\ Gen(ckpt[Owner[q]][snaps[cur[q]].dev]) <= Gen(cur[q]))'
  <2>1. cur[q] # 0 /\ Gen(ckpt[Owner[q]][snaps[cur[q]].dev]) <= Gen(cur[q])
    BY <1>3, <1>6 DEF GInv, Gated
  <2>2. cur[q] \in 1..Len(snaps) /\ Owner[q] \in Device
    BY <1>0, <2>1, ChainAssumption DEF TypeOK
  <2>3. snaps[cur[q]].dev \in Device
    BY <1>0, <2>2, RecordFields
  <2>4. ckpt[Owner[q]][snaps[cur[q]].dev] \in 0..Len(snaps)
    BY <1>0, <2>2, <2>3 DEF TypeOK
  <2>5. cur'[q] = cur[q] /\ snaps'[cur[q]] = snaps[cur[q]]
    BY <1>1, <1>6, <2>2
  <2>6. Gen(cur[q])' = Gen(cur[q])
    BY <2>1, <2>5 DEF Gen
  <2>7. Gen(ckpt[Owner[q]][snaps[cur[q]].dev])' = Gen(ckpt[Owner[q]][snaps[cur[q]].dev])
    BY <1>2, <1>4, <2>4, <2>5 DEF Gen
  <2> QED BY <2>1, <2>5, <2>6, <2>7
<1>7. ASSUME NEW q \in Proc, q # p, pc'[q] \in Sending
      PROVE  (snaps[cur[q]].dev = Owner[q] /\ Gen(cur[q]) = Gen(ckpt[Owner[q]][Owner[q]]) + 1)'
  <2>1. /\ snaps[cur[q]].dev = Owner[q] /\ Gen(cur[q]) = Gen(ckpt[Owner[q]][Owner[q]]) + 1
        /\ cur[q] # 0
    BY <1>3, <1>7 DEF GInv, Gated, IInv, RoundCovered
  <2>2. cur[q] \in 1..Len(snaps) /\ Owner[q] \in Device
    BY <1>0, <2>1, ChainAssumption DEF TypeOK
  <2>3. ckpt[Owner[q]][Owner[q]] \in 0..Len(snaps)
    BY <1>0, <2>2 DEF TypeOK
  <2>4. cur'[q] = cur[q] /\ snaps'[cur[q]] = snaps[cur[q]]
    BY <1>1, <1>7, <2>2
  <2>5. Gen(cur[q])' = Gen(cur[q])
    BY <2>1, <2>4 DEF Gen
  <2>6. Gen(ckpt[Owner[q]][Owner[q]])' = Gen(ckpt[Owner[q]][Owner[q]])
    BY <1>2, <1>4, <2>3 DEF Gen
  <2> QED BY <2>1, <2>4, <2>5, <2>6
<1>8. (snaps[cur[p]].dev = Owner[p] /\ Gen(cur[p]) = Gen(ckpt[Owner[p]][Owner[p]]) + 1)'
  <2>1. ckpt[Owner[p]][Owner[p]] \in 0..Len(snaps)
    BY <1>0 DEF TypeOK
  <2>2. Gen(ckpt[Owner[p]][Owner[p]])' = Gen(ckpt[Owner[p]][Owner[p]])
    BY <1>2, <1>4, <2>1 DEF Gen
  <2>3. Stamp(Owner[p]).dev = Owner[p] /\ Stamp(Owner[p]).gen = Gen(ckpt[Owner[p]][Owner[p]]) + 1
    BY DEF Stamp
  <2>4. Gen(cur[p])' = Stamp(Owner[p]).gen
    BY <1>1 DEF Gen
  <2> QED BY <1>1, <2>2, <2>3, <2>4
<1>9. Gated'
  BY <1>3, <1>6, <1>7, <1>8 DEF Gated
<1> QED BY <1>5, <1>9

LEMMA StepGated ==
  ASSUME OneProcess, GInv, [Next]_vars
  PROVE  GInv'
<1>1. IInv'
  BY StepCovered DEF GInv
<1>2. Files' /\ Gated'
  <2>1. CASE UNCHANGED vars
    BY <2>1, KeepGated DEF vars
  <2>2. ASSUME NEW p \in Proc, NEW e \in Device, Read(p, e)
        PROVE  Files' /\ Gated'
    <3>1. e \in todo[p] /\ Receive(p, e, remote[e])
      BY <2>2 DEF Read, Receive
    <3>2. remote[e] # 0 /\ snaps[remote[e]].dev = e
      BY <3>1 DEF GInv, Files
    <3>3. remote[e] \in 1..Len(snaps)
      BY <3>2 DEF GInv, IInv, TypeOK
    <3> QED BY <3>1, <3>2, <3>3, ReceiveGated
  <2>3. ASSUME NEW p \in Proc, NEW e \in Device, NEW h \in pushed, StaleRead(p, e, h)
        PROVE  Files' /\ Gated'
    <3>1. h \in 1..Len(snaps) /\ snaps[h].dev = e /\ Receive(p, e, h)
      BY <2>3 DEF StaleRead, GInv, IInv, TypeOK
    <3> QED BY <3>1, ReceiveGated
  <2> QED BY <2>1, <2>2, <2>3, LocalGated, RoundGated, ExportGated DEF Next
<1> QED BY <1>1, <1>2 DEF GInv

------------------------------------------------------------------------------
\* A transport that yields every file as it is, and rounds that apply what they
\* accept: processes die, pushes fail and databases are put back to copies.

Reliable == Fault \subseteq {"crash", "restore", "push"}

\* A checkpoint of e's chain is one of the snapshots that e has pushed.
Known(h, e) == h = 0 \/ (h \in pushed /\ snaps[h].dev = e)

\* The file of a device has its latest generation, and every snapshot before it
\* has been pushed.
Linear ==
  \A h \in pushed :
    /\ remote[snaps[h].dev] # 0 /\ Gen(h) <= Gen(remote[snaps[h].dev])
    /\ Known(snaps[h].prev, snaps[h].dev) /\ Gen(h) = Gen(snaps[h].prev) + 1

Checkpoints ==
  \A d, e \in Device : Known(remote[d], d) /\ Known(ckpt[d][e], e) /\ Known(backup[d].ckpt[e], e)

\* A round that has pulled its own file is where the file is, whatever the
\* database was put back to before; what it sends extends the file.
Round(p) ==
  /\ pc[p] \in {"apply", "save"} =>
       cur[p] \in pushed /\ (snaps[cur[p]].dev = Owner[p] => cur[p] = remote[Owner[p]])
  /\ pc[p] = "pull" \/ (pc[p] \in {"apply", "save"} /\ snaps[cur[p]].dev # Owner[p]) =>
       Owner[p] \in todo[p] \/ ckpt[Owner[p]][Owner[p]] = remote[Owner[p]]
  /\ pc[p] \in {"mark", "push"} =>
       /\ ckpt[Owner[p]][Owner[p]] = remote[Owner[p]]
       /\ snaps[cur[p]].prev = remote[Owner[p]]
       /\ Rows(remote[Owner[p]]) \subseteq Rows(cur[p])
  /\ pc[p] = "commit" => cur[p] = remote[Owner[p]]

Rounds == \A p \in Proc : Round(p)

Line == OneSnapshotPerGeneration /\ Linear /\ Checkpoints /\ Rounds

LInv == GInv /\ Line

LEMMA InitLine == Init => LInv
<1>1. Init => Line
  BY DEF Init, Line, OneSnapshotPerGeneration, Linear, Checkpoints, Known, Rounds, Round
<1> QED BY <1>1, InitGated DEF LInv

\* What the types say, without the rest.
LEMMA LineTypes ==
  ASSUME LInv
  PROVE  /\ TypeOK /\ Len(snaps) \in Nat /\ pushed \subseteq 1..Len(snaps)
         /\ \A p \in Proc : Owner[p] \in Device /\ cur[p] \in 0..Len(snaps) /\ todo[p] \subseteq Device
         /\ \A d \in Device : remote[d] \in 0..Len(snaps)
         /\ \A d, e \in Device : ckpt[d][e] \in 0..Len(snaps)
<1>1. TypeOK
  BY DEF LInv, GInv, IInv
<1>2. snaps \in Seq(Snapshot) /\ pushed \subseteq 1..Len(snaps)
  BY <1>1 DEF TypeOK
<1>3. \A p \in Proc : Owner[p] \in Device /\ cur[p] \in 0..Len(snaps) /\ todo[p] \subseteq Device
  BY <1>1, ChainAssumption DEF TypeOK
<1>4. \A d \in Device : remote[d] \in 0..Len(snaps)
  BY <1>1 DEF TypeOK
<1>5. \A d, e \in Device : ckpt[d][e] \in 0..Len(snaps)
  BY <1>1 DEF TypeOK
<1>6. Len(snaps) \in Nat
  BY <1>2
<1> QED BY <1>1, <1>2, <1>3, <1>4, <1>5, <1>6

\* Of two snapshots of a chain the later one passes the gate of the earlier.
LEMMA LaterIsFresh ==
  ASSUME LInv, NEW e \in Device, NEW g, NEW h \in pushed,
         Known(g, e), snaps[h].dev = e, Gen(g) <= Gen(h)
  PROVE  Fresh(g, h)
<1>0. TypeOK /\ h \in 1..Len(snaps) /\ Len(snaps) \in Nat
  BY LineTypes
<1>1. CASE g = 0
  BY <1>1 DEF Fresh
<1>2. CASE g # 0
  <2>1. g \in pushed /\ snaps[g].dev = e /\ g \in 1..Len(snaps)
    BY <1>2, LineTypes DEF Known
  <2>2. Gen(g) = snaps[g].gen /\ Gen(h) = snaps[h].gen /\ Gen(g) \in Nat /\ Gen(h) \in Nat
    BY <1>0, <2>1, RecordFields DEF Gen
  <2>3. CASE Gen(g) = Gen(h)
    <3>1. g = h
      BY <2>1, <2>2, <2>3 DEF LInv, Line, OneSnapshotPerGeneration
    <3> QED BY <2>3, <3>1 DEF Fresh
  <2>4. CASE Gen(h) = Gen(g) + 1
    <3> DEFINE k == snaps[h].prev
    <3>1. Known(k, e) /\ Gen(h) = Gen(k) + 1
      BY DEF LInv, Line, Linear
    <3>2. k \in pushed /\ snaps[k].dev = e
      <4>1. CASE k = 0
        <5>1. Gen(k) = 0
          BY <4>1 DEF Gen
        <5>2. snaps[g].gen = 0 /\ Gen(snaps[g].prev) + 1 = 0
          BY <2>1, <2>2, <2>4, <3>1, <5>1 DEF LInv, Line, Linear
        <5>3. Known(snaps[g].prev, e)
          BY <2>1 DEF LInv, Line, Linear
        <5>4. Gen(snaps[g].prev) \in Nat
          BY <1>0, <5>3, LineTypes, RecordFields DEF Known, Gen
        <5> QED BY <5>2, <5>4
      <4>2. CASE k # 0
        BY <3>1, <4>2 DEF Known
      <4> QED BY <4>1, <4>2
    <3>3. k \in 1..Len(snaps)
      BY <3>2, LineTypes
    <3>4. Gen(k) = snaps[k].gen /\ Gen(k) \in Nat
      BY <1>0, <3>3, RecordFields DEF Gen
    <3>5. k = g
      BY <2>1, <2>2, <2>4, <3>1, <3>2, <3>4 DEF LInv, Line, OneSnapshotPerGeneration
    <3> QED BY <2>4, <3>5 DEF Fresh
  <2>5. CASE Gen(h) > Gen(g) + 1
    BY <2>5 DEF Fresh
  <2> QED BY <2>2, <2>3, <2>4, <2>5
<1> QED BY <1>1, <1>2

\* So a device always accepts its own file.
LEMMA OwnIsFresh ==
  ASSUME LInv, NEW d \in Device, remote[d] # 0
  PROVE  remote[d] \in pushed /\ snaps[remote[d]].dev = d /\ Fresh(ckpt[d][d], remote[d])
<1>1. remote[d] \in pushed /\ snaps[remote[d]].dev = d
  BY DEF LInv, Line, Checkpoints, Known
<1>2. Known(ckpt[d][d], d)
  BY DEF LInv, Line, Checkpoints
<1>3. Gen(ckpt[d][d]) <= Gen(remote[d])
  <2>1. CASE ckpt[d][d] = 0
    <3>1. Gen(remote[d]) \in Nat
      BY LineTypes, SnapshotFields
    <3> QED BY <2>1, <3>1 DEF Gen
  <2>2. CASE ckpt[d][d] # 0
    BY <1>2, <2>2 DEF Known, LInv, Line, Linear
  <2> QED BY <2>1, <2>2
<1> QED BY <1>1, <1>2, <1>3, LaterIsFresh

LEMMA SameRound ==
  ASSUME LInv, NEW q \in Proc,
         pc'[q] = pc[q], cur'[q] = cur[q], todo'[q] = todo[q],
         ckpt'[Owner[q]] = ckpt[Owner[q]], remote'[Owner[q]] = remote[Owner[q]],
         pushed \subseteq pushed', \A h \in 1..Len(snaps) : snaps'[h] = snaps[h]
  PROVE  Round(q)'
<1>1. Round(q)
  BY DEF LInv, Line, Rounds
<1>2. pc[q] \in {"apply", "save"} => cur[q] \in 1..Len(snaps)
  BY <1>1, LineTypes DEF Round
<1>3. pc[q] \in {"mark", "push"} => cur[q] \in 1..Len(snaps)
  <2>1. pc[q] \in {"mark", "push"} => cur[q] # 0
    BY DEF LInv, GInv, IInv, RoundCovered, Sending
  <2> QED BY <2>1, LineTypes
<1>4. \A h \in 0..Len(snaps) : (IF h = 0 THEN {} ELSE snaps'[h].data) = Rows(h)
  BY LineTypes DEF Rows
<1>5. Rows(remote[Owner[q]])' = Rows(remote[Owner[q]])
  BY <1>4, LineTypes DEF Rows
<1>6. pc[q] \in {"mark", "push"} => Rows(cur[q])' = Rows(cur[q])
  BY <1>3, <1>4 DEF Rows
<1>7. (pc[q] \in {"apply", "save", "mark", "push"}) => snaps'[cur[q]] = snaps[cur[q]]
  BY <1>2, <1>3
<1> QED BY <1>1, <1>5, <1>6, <1>7 DEF Round

\* A step that neither exports nor pushes.
LEMMA KeepLine ==
  ASSUME LInv, UNCHANGED <<snaps, remote, pushed>>, Rounds',
         \A d, e \in Device : /\ Known(ckpt'[d][e], e)
                              /\ \/ backup'[d].ckpt[e] = backup[d].ckpt[e]
                                 \/ backup'[d].ckpt[e] = ckpt[d][e]
  PROVE  Line'
<1>1. \A h : Gen(h)' = Gen(h)
  BY DEF Gen
<1>2. \A h, e : Known(h, e)' <=> Known(h, e)
  BY DEF Known
<1>3. OneSnapshotPerGeneration'
  BY DEF LInv, Line, OneSnapshotPerGeneration
<1>4. Linear'
  BY <1>1, <1>2 DEF LInv, Line, Linear, Gen, Known
<1>5. Checkpoints'
  BY <1>2 DEF LInv, Line, Checkpoints, Known
<1> QED BY <1>3, <1>4, <1>5 DEF Line

LEMMA LocalLine ==
  ASSUME LInv, NEW d \in Device, (\E i \in Item : Write(d, i)) \/ Backup(d) \/ Restore(d)
  PROVE  Line'
<1>0. TypeOK
  BY LineTypes
<1>1. UNCHANGED <<snaps, remote, pushed, pc, cur, todo>>
  BY DEF Write, Backup, Restore
<1>2. \A f \in Device : \/ ckpt'[f] = ckpt[f]
                        \/ /\ f = d /\ ckpt'[f] = backup[f].ckpt
                           /\ \A p \in Proc : Owner[p] = d => pc[p] = "idle"
  <2>1. CASE (\E i \in Item : Write(d, i)) \/ Backup(d)
    BY <2>1 DEF Write, Backup
  <2>2. CASE Restore(d)
    BY <1>0, <2>2 DEF Restore, TypeOK
  <2> QED BY <2>1, <2>2
<1>3. \A f \in Device : backup'[f] = backup[f] \/ backup'[f].ckpt = ckpt[f]
  <2>1. CASE (\E i \in Item : Write(d, i)) \/ Restore(d)
    BY <2>1 DEF Write, Restore
  <2>2. CASE Backup(d)
    <3>1. \A f \in Device : backup'[f] = backup[f] \/ backup'[f] = [data |-> data[f], ckpt |-> ckpt[f]]
      BY <1>0, <2>2 DEF Backup, TypeOK
    <3>2. \A f \in Device : [data |-> data[f], ckpt |-> ckpt[f]].ckpt = ckpt[f]
      OBVIOUS
    <3> QED BY <3>1, <3>2, Zenon
  <2> QED BY <2>1, <2>2
<1>4. \A f, e \in Device : Known(ckpt'[f][e], e)
  BY <1>2 DEF LInv, Line, Checkpoints
<1>5. ASSUME NEW q \in Proc PROVE Round(q)'
  <2>1. CASE ckpt'[Owner[q]] = ckpt[Owner[q]]
    BY <1>1, <2>1, SameRound
  <2>2. CASE pc[q] = "idle"
    BY <1>1, <2>2 DEF Round
  <2> QED BY <1>2, <2>1, <2>2, LineTypes
<1> QED BY <1>1, <1>3, <1>4, <1>5, KeepLine DEF Rounds

\* The steps of p's round that write no checkpoint.
LEMMA RoundLine ==
  ASSUME OneProcess, LInv, NEW p \in Proc,
         \/ Start(p) \/ EndReadOnly(p) \/ PushFail(p) \/ Crash(p) \/ Mark(p) \/ ApplyRows(p)
         \/ \E e \in Device : Read(p, e)
  PROVE  Line'
<1>0. TypeOK /\ Owner[p] \in Device
  BY LineTypes
<1>1. UNCHANGED <<snaps, remote, pushed, ckpt, backup>>
  BY DEF Start, EndReadOnly, PushFail, Crash, Mark, ApplyRows, Read, Receive
<1>2. ASSUME NEW q \in Proc, q # p
      PROVE  pc'[q] = pc[q] /\ cur'[q] = cur[q] /\ todo'[q] = todo[q]
  BY <1>0, <1>2
  DEF TypeOK, Start, EndReadOnly, PushFail, Crash, Mark, ApplyRows, Read, Receive
<1>3. \A h : Rows(h)' = Rows(h)
  BY <1>1 DEF Rows
<1>4. Round(p)
  BY DEF LInv, Line, Rounds
<1>5. Round(p)'
  <2>1. CASE Start(p)
    <3>1. pc'[p] = "pull" /\ todo'[p] = {e \in Device : remote[e] # 0}
      BY <1>0, <2>1 DEF Start, TypeOK
    <3>2. remote[Owner[p]] = 0 => ckpt[Owner[p]][Owner[p]] = 0
      <4>1. Known(ckpt[Owner[p]][Owner[p]], Owner[p])
        BY <1>0 DEF LInv, Line, Checkpoints
      <4> QED BY <4>1 DEF Known, LInv, Line, Linear
    <3> QED BY <1>0, <1>1, <3>1, <3>2 DEF Round
  <2>2. CASE EndReadOnly(p) \/ PushFail(p) \/ Crash(p)
    <3>1. pc'[p] = "idle"
      BY <1>0, <2>2 DEF EndReadOnly, PushFail, Crash, TypeOK
    <3> QED BY <3>1 DEF Round
  <2>3. CASE Mark(p) \/ ApplyRows(p)
    <3>1. /\ cur' = cur /\ todo' = todo
          /\ \/ pc[p] = "mark" /\ pc'[p] = "push"
             \/ pc[p] = "apply" /\ pc'[p] = "save"
      BY <1>0, <2>3 DEF Mark, ApplyRows, TypeOK
    <3>2. Rows(cur[p])' = Rows(cur[p]) /\ Rows(remote[Owner[p]])' = Rows(remote[Owner[p]])
      BY <1>1, <3>1 DEF Rows
    <3> QED BY <1>1, <1>4, <3>1, <3>2 DEF Round
  <2>4. ASSUME NEW e \in Device, Read(p, e)
        PROVE  Round(p)'
    <3> DEFINE h == remote[e]
               k == ckpt[Owner[p]][e]
               takes == Fresh(k, h) /\ ~ (e = Owner[p] /\ h = k)
    <3>1. /\ pc[p] = "pull" /\ e \in todo[p]
          /\ pc' = [pc EXCEPT ![p] = IF takes THEN "apply" ELSE "pull"]
          /\ cur' = [cur EXCEPT ![p] = IF takes THEN h ELSE 0]
          /\ todo' = [todo EXCEPT ![p] = @ \ {e}]
      BY <2>4 DEF Read, Receive
    <3>2. remote[e] # 0
      BY <3>1 DEF LInv, GInv, Files
    <3>3. /\ h \in pushed /\ snaps[h].dev = e
          /\ Fresh(ckpt[e][e], h)
      BY <3>2, OwnIsFresh
    <3>4. ~ takes => e # Owner[p] \/ ckpt[Owner[p]][Owner[p]] = remote[Owner[p]]
      BY <3>3
    <3> HIDE DEF takes
    <3>5. /\ todo'[p] = todo[p] \ {e}
          /\ takes => pc'[p] = "apply" /\ cur'[p] = h
          /\ ~ takes => pc'[p] = "pull"
      BY <1>0, <3>1 DEF TypeOK
    <3>6. Owner[p] \in todo[p] \/ ckpt[Owner[p]][Owner[p]] = remote[Owner[p]]
      BY <1>4, <3>1 DEF Round
    <3> HIDE DEF h, k
    <3>7. CASE takes
      <4>1. h = remote[e]
        BY DEF h
      <4> QED BY <1>1, <3>3, <3>5, <3>6, <3>7, <4>1 DEF Round
    <3>8. CASE ~ takes
      BY <1>1, <3>4, <3>5, <3>6, <3>8 DEF Round
    <3> QED BY <3>7, <3>8
  <2> QED BY <2>1, <2>2, <2>3, <2>4
<1>6. Rounds'
  <2>1. ASSUME NEW q \in Proc, q # p PROVE Round(q)'
    BY <1>1, <1>2, <2>1, SameRound
  <2> QED BY <1>5, <2>1 DEF Rounds
<1>7. \A d, e \in Device : Known(ckpt'[d][e], e)
  BY <1>1 DEF LInv, Line, Checkpoints
<1> QED BY <1>1, <1>6, <1>7, KeepLine

\* The two that write one.
LEMMA CheckpointLine ==
  ASSUME OneProcess, LInv, NEW p \in Proc, SaveCheckpoint(p) \/ Commit(p)
  PROVE  Line'
<1>0. TypeOK /\ Owner[p] \in Device
  BY LineTypes
<1>1. UNCHANGED <<snaps, remote, pushed, backup, todo>>
  BY DEF SaveCheckpoint, Commit
<1>2. \A q \in Proc \ {p} : /\ pc'[q] = pc[q] /\ cur'[q] = cur[q]
                            /\ Owner[q] \in Device /\ Owner[q] # Owner[p]
  BY <1>0, LineTypes DEF TypeOK, SaveCheckpoint, Commit, OneProcess
<1>3. Round(p)
  BY DEF LInv, Line, Rounds
<1>4. PICK f \in Device :
        /\ ckpt' = [ckpt EXCEPT ![Owner[p]][f] = cur[p]]
        /\ cur[p] \in pushed /\ snaps[cur[p]].dev = f
        /\ pc[p] = "save" \/ f = Owner[p]
        /\ f = Owner[p] => cur[p] = remote[Owner[p]]
  <2>1. CASE SaveCheckpoint(p)
    <3>1. cur[p] \in pushed /\ pc[p] = "save"
      BY <1>3, <2>1 DEF SaveCheckpoint, Round
    <3>2. snaps[cur[p]].dev \in Device
      BY <1>0, <3>1, LineTypes, RecordFields
    <3> QED BY <1>3, <2>1, <3>1, <3>2 DEF SaveCheckpoint, Round
  <2>2. CASE Commit(p)
    <3>1. cur[p] = remote[Owner[p]] /\ cur[p] # 0
      BY <1>3, <2>2 DEF Commit, Round, LInv, GInv, IInv, RoundCovered, Sending
    <3>2. cur[p] \in pushed /\ snaps[cur[p]].dev = Owner[p]
      BY <1>0, <3>1 DEF LInv, Line, Checkpoints, Known
    <3> QED BY <1>0, <2>2, <3>1, <3>2 DEF Commit
  <2> QED BY <2>1, <2>2
<1>5. \A d, e \in Device : ckpt'[d][e] = IF d = Owner[p] /\ e = f THEN cur[p] ELSE ckpt[d][e]
  BY <1>0, <1>4 DEF TypeOK
<1>6. \A d \in Device : d # Owner[p] => ckpt'[d] = ckpt[d]
  BY <1>0, <1>4 DEF TypeOK
<1>7. \A d, e \in Device : Known(ckpt'[d][e], e)
  BY <1>4, <1>5 DEF LInv, Line, Checkpoints, Known
<1>8. Round(p)'
  <2>1. \/ pc'[p] = "idle"
        \/ pc'[p] = "pull" /\ pc[p] = "save"
    BY <1>0 DEF SaveCheckpoint, Commit, TypeOK
  <2>2. CASE pc'[p] = "idle"
    BY <2>2 DEF Round
  <2>3. CASE pc'[p] = "pull" /\ pc[p] = "save"
    <3>1. Owner[p] \in todo[p] \/ ckpt'[Owner[p]][Owner[p]] = remote[Owner[p]]
      BY <1>0, <1>3, <1>4, <1>5, <2>3 DEF Round
    <3> QED BY <1>1, <2>3, <3>1 DEF Round
  <2> QED BY <2>1, <2>2, <2>3
<1>9. Rounds'
  <2>1. ASSUME NEW q \in Proc, q # p PROVE Round(q)'
    BY <1>1, <1>2, <1>6, <2>1, SameRound
  <2> QED BY <1>8, <2>1 DEF Rounds
<1> QED BY <1>1, <1>7, <1>9, KeepLine

\* An export: the hashes that were pushed keep their meaning, and the new one
\* extends the file.
LEMMA ExportLine ==
  ASSUME OneProcess, LInv, NEW p \in Proc, Export(p)
  PROVE  Line'
<1>0. TypeOK /\ Owner[p] \in Device /\ Len(snaps) \in Nat /\ pushed \subseteq 1..Len(snaps)
  BY LineTypes
<1>1. /\ cur'[p] # 0 /\ snaps'[cur'[p]] = Stamp(Owner[p])
      /\ Rows(cur[p])' = data[Owner[p]]
      /\ \A q \in Proc \ {p} : cur'[q] = cur[q]
      /\ \A h \in 1..Len(snaps) : snaps'[h] = snaps[h]
      /\ \A h \in 0..Len(snaps) : Rows(h)' = Rows(h)
  BY <1>0, ExportKeeps
<1>2. UNCHANGED <<ckpt, backup, remote, pushed, todo>>
  BY DEF Export
<1>3. pc[p] = "pull" /\ todo[p] = {} /\ pc'[p] = "mark" /\ \A q \in Proc \ {p} : pc'[q] = pc[q]
  BY <1>0 DEF Export, TypeOK
<1>4. \A h \in 0..Len(snaps) : Gen(h)' = Gen(h)
  BY <1>0, <1>1 DEF Gen
<1>5. \A h \in pushed : snaps'[h] = snaps[h]
  BY <1>0, <1>1
<1>6. \A h, e : (h = 0 \/ (h \in pushed /\ snaps'[h].dev = e)) <=> Known(h, e)
  BY <1>5 DEF Known
<1>7. OneSnapshotPerGeneration'
  BY <1>2, <1>5 DEF LInv, Line, OneSnapshotPerGeneration
<1>8. Linear'
  <2> SUFFICES ASSUME NEW h \in pushed
               PROVE  /\ remote[snaps[h].dev] # 0
                      /\ (Gen(h) <= Gen(remote[snaps[h].dev]))'
                      /\ Known(snaps[h].prev, snaps[h].dev)'
                      /\ (Gen(h) = Gen(snaps[h].prev) + 1)'
    BY <1>2, <1>5 DEF Linear
  <2>1. /\ remote[snaps[h].dev] # 0 /\ Gen(h) <= Gen(remote[snaps[h].dev])
        /\ Known(snaps[h].prev, snaps[h].dev) /\ Gen(h) = Gen(snaps[h].prev) + 1
    BY DEF LInv, Line, Linear
  <2>2. h \in 1..Len(snaps) /\ snaps[h].dev \in Device
    BY <1>0, RecordFields
  <2>3. remote[snaps[h].dev] \in 0..Len(snaps) /\ snaps[h].prev \in 0..Len(snaps)
    <3>1. snaps[h].prev = 0 \/ snaps[h].prev \in pushed
      BY <2>1 DEF Known
    <3>2. 0 \in 0..Len(snaps) /\ \A k \in pushed : k \in 0..Len(snaps)
      BY <1>0
    <3>3. snaps[h].prev \in 0..Len(snaps)
      BY <3>1, <3>2
    <3> QED BY <2>2, <3>3, LineTypes
  <2>4. Gen(h)' = Gen(h)
    BY <1>0, <1>4, <2>2
  <2>5. Gen(remote[snaps[h].dev])' = Gen(remote[snaps[h].dev])
    BY <1>2, <1>4, <1>5, <2>3 DEF Gen
  <2>6. Gen(snaps[h].prev)' = Gen(snaps[h].prev)
    BY <1>4, <1>5, <2>3 DEF Gen
  <2>7. Known(snaps[h].prev, snaps[h].dev)'
    BY <1>2, <1>5, <1>6, <2>1 DEF Known
  <2> QED BY <2>1, <2>4, <2>5, <2>6, <2>7
<1>9. Checkpoints'
  <2> SUFFICES ASSUME NEW d \in Device, NEW e \in Device
               PROVE  (Known(remote[d], d) /\ Known(ckpt[d][e], e) /\ Known(backup[d].ckpt[e], e))'
    BY DEF Checkpoints
  <2>1. Known(remote[d], d) /\ Known(ckpt[d][e], e) /\ Known(backup[d].ckpt[e], e)
    BY DEF LInv, Line, Checkpoints
  <2>2. Known(remote[d], d)' /\ Known(ckpt[d][e], e)'
    BY <1>2, <1>5, <2>1 DEF Known
  <2>3. Known(backup[d].ckpt[e], e)'
    BY <1>2, <1>5, <2>1 DEF Known
  <2> QED BY <2>2, <2>3
<1>10. Round(p)'
  <2>1. ckpt[Owner[p]][Owner[p]] = remote[Owner[p]]
    BY <1>3 DEF LInv, Line, Rounds, Round
  <2>2. Stamp(Owner[p]).prev = remote[Owner[p]]
    BY <2>1 DEF Stamp
  <2>3. Rows(remote[Owner[p]]) \subseteq data[Owner[p]]
    BY <1>0, <2>1 DEF LInv, GInv, IInv, CheckpointCovered
  <2>4. Rows(remote[Owner[p]])' = Rows(remote[Owner[p]])
    BY <1>0, <1>1, <1>2, LineTypes DEF Rows
  <2> QED BY <1>1, <1>2, <1>3, <2>1, <2>2, <2>3, <2>4 DEF Round
<1>11. Rounds'
  <2>1. ASSUME NEW q \in Proc, q # p PROVE Round(q)'
    BY <1>1, <1>2, <1>3, <2>1, SameRound
  <2> QED BY <1>10, <2>1 DEF Rounds
<1> QED BY <1>7, <1>8, <1>9, <1>11 DEF Line

\* A push adds the next generation after the latest.
LEMMA PushLine ==
  ASSUME OneProcess, LInv, NEW p \in Proc, Push(p)
  PROVE  Line'
<1>d. PICK d : d = Owner[p]
  OBVIOUS
<1>c. PICK c : c = cur[p]
  OBVIOUS
<1>0. TypeOK /\ d \in Device /\ Len(snaps) \in Nat /\ pushed \subseteq 1..Len(snaps)
  BY <1>d, LineTypes
<1>1. /\ pc[p] = "push" /\ UNCHANGED <<snaps, ckpt, backup, todo, cur>>
      /\ pushed' = pushed \cup {c}
  BY <1>c DEF Push
<1>2. /\ remote'[d] = c /\ \A e \in Device : e # d => remote'[e] = remote[e]
      /\ pc'[p] = "commit" /\ \A q \in Proc : q # p => pc'[q] = pc[q]
  BY <1>c, <1>d, <1>0 DEF Push, TypeOK
<1>3. c # 0 /\ c \in 1..Len(snaps)
  <2>1. c # 0
    BY <1>c, <1>1 DEF LInv, GInv, IInv, RoundCovered, Sending
  <2> QED BY <1>c, <1>0, <2>1, LineTypes
<1>4. /\ snaps[c].dev = d /\ Gen(c) = Gen(ckpt[d][d]) + 1
      /\ ckpt[d][d] = remote[d] /\ snaps[c].prev = remote[d]
  BY <1>c, <1>d, <1>1 DEF LInv, GInv, Gated, Sending, Line, Rounds, Round
<1>5. Gen(c) = Gen(remote[d]) + 1 /\ Gen(remote[d]) \in Nat /\ Gen(c) \in Nat
  BY <1>0, <1>3, <1>4, LineTypes, SnapshotFields
<1>6. \A h : Gen(h)' = Gen(h)
  BY <1>1 DEF Gen
<1>7. ASSUME NEW h \in pushed
      PROVE  /\ snaps[h].dev \in Device /\ Gen(h) \in Nat /\ Gen(h) = snaps[h].gen
             /\ snaps[h].dev = d => Gen(h) < Gen(c)
             /\ remote[snaps[h].dev] # 0 /\ Gen(h) <= Gen(remote[snaps[h].dev])
  <2>1. h \in 1..Len(snaps)
    BY <1>0
  <2>2. snaps[h].dev \in Device /\ snaps[h].gen \in Nat /\ Gen(h) = snaps[h].gen
    BY <1>0, <2>1, RecordFields DEF Gen
  <2>3. remote[snaps[h].dev] # 0 /\ Gen(h) <= Gen(remote[snaps[h].dev])
    BY DEF LInv, Line, Linear
  <2> QED BY <1>5, <2>2, <2>3
<1>8. OneSnapshotPerGeneration'
  <2>1. Gen(c) = snaps[c].gen
    BY <1>3 DEF Gen
  <2>2. ASSUME NEW g \in pushed', NEW h \in pushed',
               snaps[g].dev = snaps[h].dev, snaps[g].gen = snaps[h].gen
        PROVE  g = h
    <3>1. CASE g \in pushed /\ h \in pushed
      BY <2>2, <3>1 DEF LInv, Line, OneSnapshotPerGeneration
    <3>2. CASE g \in pushed /\ h = c
      BY <1>4, <1>5, <1>7, <2>1, <2>2, <3>2
    <3>3. CASE g = c /\ h \in pushed
      BY <1>4, <1>5, <1>7, <2>1, <2>2, <3>3
    <3> QED BY <1>1, <3>1, <3>2, <3>3
  <2> QED BY <1>1, <2>2 DEF OneSnapshotPerGeneration
<1>9. \A h, e : Known(h, e) => Known(h, e)'
  BY <1>1 DEF Known
<1>10. ASSUME NEW h \in pushed'
       PROVE  /\ remote'[snaps[h].dev] # 0 /\ Gen(h) <= Gen(remote'[snaps[h].dev])
              /\ Known(snaps[h].prev, snaps[h].dev)' /\ Gen(h) = Gen(snaps[h].prev) + 1
  <2>1. CASE h = c
    <3>1. Known(remote[d], d)
      BY <1>0 DEF LInv, Line, Checkpoints
    <3>3. Known(snaps[c].prev, d)'
      BY <1>1, <1>4, <3>1 DEF Known
    <3>4. /\ remote'[snaps[c].dev] = c /\ Gen(c) <= Gen(c)
          /\ Gen(c) = Gen(snaps[c].prev) + 1
      BY <1>2, <1>4, <1>5
    <3>5. Known(snaps[c].prev, snaps[c].dev)'
      BY <1>1, <1>4, <3>3 DEF Known
    <3> QED BY <1>3, <2>1, <3>4, <3>5
  <2>2. CASE h \in pushed
    <3>1. Known(snaps[h].prev, snaps[h].dev) /\ Gen(h) = Gen(snaps[h].prev) + 1
      BY <2>2 DEF LInv, Line, Linear
    <3>2. Known(snaps[h].prev, snaps[h].dev)'
      BY <1>1, <3>1 DEF Known
    <3>3. CASE snaps[h].dev = d
      BY <1>2, <1>3, <1>5, <1>7, <2>2, <3>1, <3>2, <3>3
    <3>4. CASE snaps[h].dev # d
      BY <1>2, <1>7, <2>2, <3>1, <3>2, <3>4
    <3> QED BY <3>3, <3>4
  <2> QED BY <1>1, <2>1, <2>2
<1>11. Linear'
  BY <1>1, <1>6, <1>10 DEF Linear, Gen
<1>12. Checkpoints'
  <2>1. \A x \in Device : remote'[x] = 0 \/ (remote'[x] \in pushed' /\ snaps[remote'[x]].dev = x)
    BY <1>1, <1>2, <1>4 DEF LInv, Line, Checkpoints, Known
  <2> QED BY <1>1, <2>1 DEF LInv, Line, Checkpoints, Known
<1>13. Rounds'
  <2>1. ASSUME NEW q \in Proc, q # p PROVE Round(q)'
    <3>1. Owner[q] \in Device /\ Owner[q] # d
      BY <1>d, <2>1, LineTypes DEF OneProcess
    <3> QED BY <1>1, <1>2, <2>1, <3>1, SameRound
  <2>2. Round(p)'
    BY <1>c, <1>d, <1>1, <1>2 DEF Round
  <2> QED BY <2>1, <2>2 DEF Rounds
<1> QED BY <1>8, <1>11, <1>12, <1>13 DEF Line

LEMMA StepLine ==
  ASSUME OneProcess, Reliable, LInv, [Next]_vars
  PROVE  LInv'
<1>1. GInv'
  BY StepGated DEF LInv
<1>2. Line'
  <2>1. CASE UNCHANGED vars
    <3>1. UNCHANGED <<snaps, remote, pushed, ckpt, backup, pc, cur, todo>>
      BY <2>1 DEF vars
    <3>2. Rounds'
      BY <3>1, SameRound DEF Rounds
    <3>3. \A d, e \in Device : Known(ckpt'[d][e], e)
      BY <3>1 DEF LInv, Line, Checkpoints
    <3> QED BY <3>1, <3>2, <3>3, KeepLine
  <2>2. ASSUME NEW p \in Proc,
               \/ \E e \in Device, h \in pushed : StaleRead(p, e, h)
               \/ \E rest \in SUBSET Device : PullFail(p, rest)
               \/ \E rows \in SUBSET Item : ApplyFail(p, rows)
        PROVE  FALSE
    BY <2>2 DEF Reliable, StaleRead, PullFail, ApplyFail, Happens
  <2> QED
    BY <2>1, <2>2, LocalLine, RoundLine, CheckpointLine, ExportLine, PushLine DEF Next
<1> QED BY <1>1, <1>2 DEF LInv

\* With one sync process on each store, and a transport that yields every file,
\* a generation names one snapshot, for any number of devices: whatever crashes
\* between a push and its checkpoint and whatever copy a database is put back
\* to, the next round accepts the device's own file before it exports.
THEOREM NoForks ==
  ASSUME OneProcess, Reliable
  PROVE  Spec => []OneSnapshotPerGeneration
<1>1. LInv /\ [Next]_vars => LInv'
  BY StepLine
<1>2. LInv => OneSnapshotPerGeneration
  BY DEF LInv, Line
<1> QED BY InitLine, <1>1, <1>2, PTL DEF Spec

\* Under the same assumptions no push takes rows away from the peers.
THEOREM FilesKeepRows ==
  ASSUME OneProcess, Reliable
  PROVE  Spec => FileNeverLosesRows
<1>1. LInv /\ [Next]_vars => LInv'
  BY StepLine
<1>2. ASSUME LInv, [Next]_vars, NEW d \in Device
      PROVE  Rows(remote[d]) \subseteq Rows(remote[d])'
  <2>0. TypeOK /\ remote[d] \in 0..Len(snaps)
    BY <1>2, LineTypes
  <2>1. ASSUME NEW p \in Proc, Push(p)
        PROVE  Rows(remote[d]) \subseteq Rows(remote[d])'
    <3>1. snaps' = snaps /\ pc[p] = "push"
      BY <2>1 DEF Push
    <3>2. remote'[d] = remote[d] \/ (d = Owner[p] /\ remote'[d] = cur[p])
      BY <2>0, <2>1 DEF Push, TypeOK
    <3>3. Rows(remote[Owner[p]]) \subseteq Rows(cur[p])
      BY <1>2, <3>1 DEF LInv, Line, Rounds, Round
    <3>4. Rows(remote[d])' = Rows(remote'[d])
      BY <3>1 DEF Rows
    <3> QED BY <3>2, <3>3, <3>4
  <2>2. ASSUME NEW p \in Proc, Export(p)
        PROVE  Rows(remote[d])' = Rows(remote[d])
    <3>1. remote' = remote /\ \A h \in 1..Len(snaps) : snaps'[h] = snaps[h]
      BY <2>0, <2>2, ExportKeeps DEF Export
    <3>2. remote[d] = 0 \/ remote[d] \in 1..Len(snaps)
      BY <1>2, <2>0, LineTypes
    <3> QED BY <3>1, <3>2 DEF Rows
  <2>3. ASSUME UNCHANGED <<remote, snaps>>
        PROVE  Rows(remote[d])' = Rows(remote[d])
    BY <2>3 DEF Rows
  <2>4. ASSUME NEW p \in Proc,
               \/ Start(p) \/ EndReadOnly(p) \/ PushFail(p) \/ Crash(p) \/ Commit(p)
               \/ Mark(p) \/ ApplyRows(p) \/ SaveCheckpoint(p)
               \/ \E rest \in SUBSET Device : PullFail(p, rest)
               \/ \E rows \in SUBSET Item : ApplyFail(p, rows)
               \/ \E x \in Device : Read(p, x)
               \/ \E x \in Device, h \in pushed : StaleRead(p, x, h)
        PROVE  UNCHANGED <<remote, snaps>>
    BY <2>4 DEF Start, EndReadOnly, PushFail, Crash, Commit, Mark, ApplyRows, PullFail,
                SaveCheckpoint, ApplyFail, Read, StaleRead, Receive
  <2>5. ASSUME NEW x \in Device, (\E i \in Item : Write(x, i)) \/ Backup(x) \/ Restore(x)
        PROVE  UNCHANGED <<remote, snaps>>
    BY <2>5 DEF Write, Backup, Restore
  <2>6. CASE UNCHANGED vars
    BY <2>3, <2>6 DEF vars
  <2> QED BY <1>2, <2>1, <2>2, <2>3, <2>4, <2>5, <2>6 DEF Next
<1>3. LInv /\ [Next]_vars => [\A d \in Device : Rows(remote[d]) \subseteq Rows(remote[d])']_vars
  BY <1>2
<1> QED BY InitLine, <1>1, <1>3, PTL DEF Spec, FileNeverLosesRows

------------------------------------------------------------------------------
\* Naturals are well-ordered.
LEMMA SmallestExists ==
  ASSUME NEW S \in SUBSET Nat, S # {}
  PROVE  \E n \in S : \A m \in S : n <= m
<1>1. PICK n \in S : \A m \in S : ~ (<<m, n>> \in OpToRel(<, Nat))
  BY NatLessThanWellFounded, WFMin, Zenon
<1>2. \A m \in S : ~ (m < n)
  BY <1>1 DEF OpToRel
<1> QED BY <1>2

\* Of two pushed snapshots of a device the later one extends the earlier: take
\* the least generation, from the earlier on, in a set that has the later one
\* and all predecessors.
LEMMA LaterExtends ==
  ASSUME LInv, NEW g \in pushed, NEW h \in pushed,
         snaps[g].dev = snaps[h].dev, Gen(g) <= Gen(h)
  PROVE  g \in Chain(h)
<1>0. TypeOK /\ Len(snaps) \in Nat /\ pushed \subseteq 1..Len(snaps)
  BY LineTypes
<1>1. \A k \in pushed : Gen(k) = snaps[k].gen /\ Gen(k) \in Nat
  BY <1>0, RecordFields DEF Gen
<1>2. ASSUME NEW S \in SUBSET (1..Len(snaps)), h \in S,
             \A k \in S : snaps[k].prev # 0 => snaps[k].prev \in S
      PROVE  g \in S
  <2>1. PICK T : T = {k \in S : k \in pushed /\ snaps[k].dev = snaps[h].dev /\ Gen(g) <= Gen(k)}
    OBVIOUS
  <2>2. PICK G : G = {Gen(k) : k \in T}
    OBVIOUS
  <2>3. G \in SUBSET Nat /\ G # {}
    BY <1>1, <1>2, <2>1, <2>2
  <2>4. PICK n \in G : \A m \in G : n <= m
    BY <2>3, SmallestExists
  <2>5. PICK k \in T : n = Gen(k)
    BY <2>2
  <2>6. /\ k \in S /\ k \in pushed /\ snaps[k].dev = snaps[h].dev /\ Gen(g) <= Gen(k)
        /\ Gen(k) \in Nat /\ Gen(g) \in Nat
    BY <1>1, <2>1
  <2>7. CASE Gen(k) = Gen(g)
    <3>1. k = g
      BY <1>1, <2>6, <2>7 DEF LInv, Line, OneSnapshotPerGeneration
    <3> QED BY <2>6, <3>1
  <2>8. CASE Gen(k) > Gen(g)
    <3> DEFINE j == snaps[k].prev
    <3>1. Known(j, snaps[h].dev) /\ Gen(k) = Gen(j) + 1
      BY <2>6 DEF LInv, Line, Linear
    <3>2. j # 0
      <4>1. ASSUME j = 0 PROVE Gen(k) = 1
        BY <3>1, <4>1 DEF Gen
      <4>2. Gen(g) >= 1
        <5>1. /\ Known(snaps[g].prev, snaps[g].dev)
              /\ Gen(g) = Gen(snaps[g].prev) + 1
          BY DEF LInv, Line, Linear
        <5>2. Gen(snaps[g].prev) \in Nat
          BY <1>1, <5>1 DEF Known, Gen
        <5> QED BY <5>1, <5>2
      <4> QED BY <2>6, <2>8, <4>1, <4>2
    <3>3. j \in pushed /\ snaps[j].dev = snaps[h].dev /\ j \in S
      BY <1>2, <2>6, <3>1, <3>2 DEF Known
    <3>4. Gen(j) \in Nat /\ Gen(g) <= Gen(j)
      <4>1. Gen(j) \in Nat
        BY <1>1, <3>3
      <4> QED BY <2>6, <2>8, <3>1, <4>1
    <3>5. Gen(j) \in G
      BY <2>1, <2>2, <3>3, <3>4
    <3>6. Gen(k) <= Gen(j)
      BY <2>4, <2>5, <3>5
    <3> QED BY <2>6, <3>1, <3>4, <3>6
  <2> QED BY <2>6, <2>7, <2>8
<1> QED BY <1>0, <1>2 DEF Chain

\* Under the same assumptions a round replaces a checkpoint only by a snapshot
\* that extends it, although the gate itself lets a gap of generations through.
THEOREM ChainsAreFollowed ==
  ASSUME OneProcess, Reliable
  PROVE  Spec => AcceptsOnlyExtensions
<1>1. LInv /\ [Next]_vars => LInv'
  BY StepLine
<1>2. ASSUME LInv, [Next]_vars, NEW d \in Device, NEW e \in Device,
             pc' # pc, ckpt[d][e] # 0, ckpt'[d][e] # ckpt[d][e]
      PROVE  ckpt[d][e] \in Chain(ckpt[d][e])'
  <2>0. TypeOK
    BY <1>2, LineTypes
  <2>1. PICK p \in Proc : SaveCheckpoint(p) \/ Commit(p)
    <3>1. ASSUME NEW p \in Proc,
                 \/ Start(p) \/ EndReadOnly(p) \/ Push(p) \/ PushFail(p) \/ Crash(p)
                 \/ Mark(p) \/ ApplyRows(p) \/ Export(p)
                 \/ \E rest \in SUBSET Device : PullFail(p, rest)
                 \/ \E rows \in SUBSET Item : ApplyFail(p, rows)
                 \/ \E x \in Device : Read(p, x)
                 \/ \E x \in Device, h \in pushed : StaleRead(p, x, h)
          PROVE  ckpt' = ckpt
      BY <3>1 DEF Start, EndReadOnly, Push, PushFail, Crash, Mark, ApplyRows, Export, PullFail,
                  ApplyFail, Read, StaleRead, Receive
    <3>2. ASSUME NEW x \in Device, (\E i \in Item : Write(x, i)) \/ Backup(x) \/ Restore(x)
          PROVE  pc' = pc
      BY <3>2 DEF Write, Backup, Restore
    <3>3. ~ UNCHANGED vars
      BY <1>2 DEF vars
    <3> QED BY <1>2, <3>1, <3>2, <3>3 DEF Next
  <2>2. Owner[p] \in Device /\ snaps' = snaps
    BY <1>2, <2>1, LineTypes DEF SaveCheckpoint, Commit
  <2>3. ckpt[d][e] \in pushed /\ snaps[ckpt[d][e]].dev = e
    BY <1>2 DEF LInv, Line, Checkpoints, Known
  <2>4. /\ ckpt'[d][e] = cur[p] /\ cur[p] \in pushed /\ snaps[cur[p]].dev = e
        /\ Gen(ckpt[d][e]) <= Gen(cur[p])
    <3>1. CASE SaveCheckpoint(p)
      <4>1. /\ ckpt' = [ckpt EXCEPT ![Owner[p]][snaps[cur[p]].dev] = cur[p]]
            /\ pc[p] = "save"
        BY <3>1 DEF SaveCheckpoint
      <4>2. d = Owner[p] /\ e = snaps[cur[p]].dev /\ ckpt'[d][e] = cur[p]
        BY <1>2, <2>0, <2>2, <4>1 DEF TypeOK
      <4>3. cur[p] \in pushed
        BY <1>2, <4>1 DEF LInv, Line, Rounds, Round
      <4>4. Gen(ckpt[Owner[p]][snaps[cur[p]].dev]) <= Gen(cur[p])
        BY <1>2, <4>1 DEF LInv, GInv, Gated
      <4> QED BY <4>2, <4>3, <4>4
    <3>2. CASE Commit(p)
      <4>1. ckpt' = [ckpt EXCEPT ![Owner[p]][Owner[p]] = cur[p]] /\ pc[p] = "commit"
        BY <3>2 DEF Commit
      <4>2. d = Owner[p] /\ e = d /\ ckpt'[d][e] = cur[p]
        <5>1. PICK o \in Device : o = Owner[p] /\ ckpt' = [ckpt EXCEPT ![o][o] = cur[p]]
          BY <2>2, <4>1
        <5>2. d = o /\ e = o /\ ckpt'[d][e] = cur[p]
          BY <1>2, <2>0, <5>1 DEF TypeOK
        <5> QED BY <5>1, <5>2
      <4>3. cur[p] = remote[d]
        BY <1>2, <4>1, <4>2 DEF LInv, Line, Rounds, Round
      <4>4. remote[d] # 0 /\ Gen(ckpt[d][e]) <= Gen(remote[d])
        BY <1>2, <2>3, <4>2 DEF LInv, Line, Linear
      <4>5. cur[p] \in pushed /\ snaps[cur[p]].dev = e
        BY <1>2, <4>2, <4>3, <4>4 DEF LInv, Line, Checkpoints, Known
      <4> QED BY <4>2, <4>3, <4>4, <4>5
    <3> QED BY <2>1, <3>1, <3>2
  <2>5. ckpt[d][e] \in Chain(cur[p])
    BY <1>2, <2>3, <2>4, LaterExtends
  <2>6. Chain(ckpt[d][e])' = Chain(cur[p])
    BY <2>2, <2>4 DEF Chain
  <2> QED BY <2>5, <2>6
<1>3. LInv /\ [Next]_vars
        => [\A d, e \in Device :
              pc' # pc /\ ckpt[d][e] # 0 /\ ckpt'[d][e] # ckpt[d][e]
                => ckpt[d][e] \in Chain(ckpt[d][e])']_vars
  BY <1>2
<1> QED BY InitLine, <1>1, <1>3, PTL DEF Spec, AcceptsOnlyExtensions

==============================================================================
