-------------------------- MODULE VectorIndexProofs --------------------------
(* Proofs about VectorIndex, for any number of memories, processes, provider   *)
(* attempts and canonical operations.                                          *)
EXTENDS VectorIndex, TLAPS

\* Provider calls are made under the writer, on an index that is registered.
CallsAreLocked ==
  \A p \in Process :
    /\ pc[p] \in {"call", "ack", "erasing", "erase_commit"} => lock = p
    /\ pc[p] # "idle" => registered
    /\ pc[p] \in {"call", "ack"} \cup EraseStates => op[p].id \in Id

\* A repair's call is about current debt and the current vector.
CallsAreCurrent ==
  \A p \in Process :
    /\ pc[p] \in {"call", "ack"} => op[p].val = vec[op[p].id]
    /\ pc[p] = "ack" => idx[op[p].id] = op[p].val
    /\ pc[p] = "erase_commit" /\ op[p].done => idx[op[p].id] = 0

\* Before it is registered an index is empty; only a lost one is reseeded.
FreshIndexIsEmpty ==
  /\ ~ registered => \A m \in Id : idx[m] = 0
  /\ seeded => lost /\ registered

\* An id that is not in the queue is right, or being erased, or an id that the
\* next start will queue.
Covered ==
  \A m \in Id :
    \/ idx[m] = vec[m] \/ debt[m] # NoDebt \/ Erasing(m)
    \/ idx[m] = 0 /\ (~ registered \/ (lost /\ ~ seeded))

Safe == TypeOK /\ CallsAreLocked /\ CallsAreCurrent

LEMMA LocalTypes == NoWork \in Work /\ NoCall \in Call
  BY IndexAssumption DEF NoWork, NoCall, Work, Call

LEMMA InitSafe == Init => Safe /\ FreshIndexIsEmpty /\ Covered
<1> SUFFICES ASSUME Init PROVE Safe /\ FreshIndexIsEmpty /\ Covered
  OBVIOUS
<1>1. /\ row \in [Id -> RowState] /\ gen \in Nat /\ ops \in 0..MaxOps
      /\ vec \in [Id -> 0..MaxOps] /\ idx \in [Id -> 0..MaxOps]
  BY IndexAssumption DEF Init, RowState
<1>2. debt \in [Id -> (0..gen) \cup {NoDebt}]
  BY DEF Init
<1>3. /\ registered \in BOOLEAN /\ lost \in BOOLEAN /\ seeded \in BOOLEAN
      /\ lock \in Process \cup {Free}
  BY DEF Init
<1>4. pc \in [Process -> PC] /\ work \in [Process -> Work] /\ op \in [Process -> Call]
  BY LocalTypes DEF Init, PC
<1>5. CallsAreLocked /\ CallsAreCurrent /\ FreshIndexIsEmpty /\ Covered
  BY DEF Init, CallsAreLocked, CallsAreCurrent, FreshIndexIsEmpty, Covered, EraseStates
<1> QED
  BY <1>1, <1>2, <1>3, <1>4, <1>5 DEF Safe, TypeOK

LEMMA TriggerType ==
  ASSUME TypeOK, NEW m \in Id, Trigger(m)
  PROVE  /\ gen' \in Nat
         /\ debt' \in [Id -> (0..gen') \cup {NoDebt}]
         /\ registered => debt'[m] # NoDebt
         /\ \A n \in Id : n # m => debt'[n] = debt[n]
  BY DEF TypeOK, Trigger, NoDebt

LEMMA DropType ==
  ASSUME TypeOK, NEW m \in Id, DropVector(m)
  PROVE  /\ gen' \in Nat
         /\ debt' \in [Id -> (0..gen') \cup {NoDebt}]
         /\ registered => debt'[m] # NoDebt
         /\ \A n \in Id : n # m => debt'[n] = debt[n]
         /\ vec' = [vec EXCEPT ![m] = 0]
<1>1. CASE vec[m] # 0
  BY <1>1, TriggerType DEF DropVector
<1>2. CASE vec[m] = 0
  BY <1>2 DEF TypeOK, DropVector, NoDebt
<1> QED
  BY <1>1, <1>2

\* The canonical transactions, as far as the invariants see them.
LEMMA CanonicalStep ==
  ASSUME TypeOK, NEW m \in Id, Write(m) \/ Quarantine(m) \/ PeerErase(m)
  PROVE  /\ TypeOK'
         /\ lock = Free
         /\ UNCHANGED <<index, lock, pc, work, op>>
         /\ registered => debt'[m] # NoDebt
         /\ \A n \in Id : n # m => debt'[n] = debt[n] /\ vec'[n] = vec[n]
<1>1. CASE Write(m)
  <2>1. ops + 1 \in 0..MaxOps /\ ops' = ops + 1
    BY <1>1, IndexAssumption DEF Write, Canonical, TypeOK
  <2>2. vec' \in [Id -> 0..MaxOps] /\ row' \in [Id -> RowState]
    BY <1>1, <2>1 DEF Write, Canonical, TypeOK, RowState
  <2>3. Trigger(m)
    BY <1>1 DEF Write
  <2> QED
    BY <1>1, <2>1, <2>2, <2>3, TriggerType DEF Write, Canonical, TypeOK, index
<1>2. CASE Quarantine(m) \/ PeerErase(m)
  <2>1. DropVector(m)
    BY <1>2 DEF Quarantine, PeerErase
  <2>2. ops' \in 0..MaxOps
    BY <1>2, IndexAssumption DEF Quarantine, PeerErase, Canonical, TypeOK
  <2>3. vec' \in [Id -> 0..MaxOps] /\ row' \in [Id -> RowState]
    BY <1>2, <2>1, DropType, IndexAssumption
       DEF Quarantine, PeerErase, Canonical, TypeOK, RowState
  <2> QED
    BY <1>2, <2>1, <2>2, <2>3, DropType DEF Quarantine, PeerErase, Canonical, TypeOK, index
<1> QED
  BY <1>1, <1>2

LEMMA ReturnType ==
  ASSUME TypeOK, NEW p \in Process, Return(p)
  PROVE  /\ pc' \in [Process -> PC] /\ work' \in [Process -> Work]
         /\ op' \in [Process -> Call]
         /\ pc'[p] = "idle"
         /\ \A q \in Process : q # p => pc'[q] = pc[q] /\ op'[q] = op[q]
  BY LocalTypes DEF Return, TypeOK, PC

LEMMA BeginType ==
  ASSUME TypeOK, NEW p \in Process, NEW ids \in SUBSET Id, RepairBegin(p, ids)
  PROVE  work' \in [Process -> Work] /\ pc' \in [Process -> PC]
<1>1. PICK m \in Pending \cap ids :
        work' = [work EXCEPT ![p] = [phase |-> "cleanup", ids |-> ids,
                   last |-> <<debt[m], m>>, todo |-> {}, left |-> Limit]]
  BY DEF RepairBegin
<1>2. debt[m] \in Nat /\ m \in Id
  BY <1>1 DEF Pending, TypeOK, NoDebt
<1>3. [phase |-> "cleanup", ids |-> ids, last |-> <<debt[m], m>>, todo |-> {},
       left |-> Limit] \in Work
  BY <1>2, IndexAssumption DEF Work
<1> QED
  BY <1>1, <1>3 DEF RepairBegin, TypeOK, PC

LEMMA PageType ==
  ASSUME TypeOK, NEW p \in Process, ReadPage(p)
  PROVE  work' \in [Process -> Work] /\ pc' \in [Process -> PC]
<1> DEFINE T == {<<debt[m], m>> : m \in {n \in Pending \cap work[p].ids :
                   InPhase(p, n) /\ WithinCeiling(p, <<debt[n], n>>)}}
<1>1. \A m \in Pending : m \in Id /\ debt[m] \in Nat
  BY DEF Pending, TypeOK, NoDebt
<1>2. T \in SUBSET Key
  <2>1. SUFFICES ASSUME NEW t \in T PROVE t \in Key
    OBVIOUS
  <2>2. PICK m \in Pending : t = <<debt[m], m>>
    BY <2>1
  <2> QED
    BY <1>1, <2>2 DEF Key
<1>3. work[p] \in Work
  BY DEF TypeOK
<1>4. [work[p] EXCEPT !.todo = T] \in Work
  BY <1>2, <1>3 DEF Work
<1>5. work' = [work EXCEPT ![p] = [work[p] EXCEPT !.todo = T]]
  BY DEF ReadPage, TypeOK
<1>6. pc' \in [Process -> PC]
  BY DEF ReadPage, TypeOK, PC
<1> QED
  BY <1>4, <1>5, <1>6 DEF TypeOK

LEMMA EndPhaseType ==
  ASSUME TypeOK, NEW p \in Process, EndPhase(p)
  PROVE  /\ work' \in [Process -> Work] /\ pc' \in [Process -> PC]
         /\ op' \in [Process -> Call] /\ pc'[p] \in {"idle", "page"}
         /\ \A q \in Process : q # p => pc'[q] = pc[q] /\ op'[q] = op[q]
<1>1. CASE Return(p)
  BY <1>1, ReturnType
<1>2. CASE /\ work' = [work EXCEPT ![p].phase = "upsert"]
           /\ pc' = [pc EXCEPT ![p] = "page"]
           /\ UNCHANGED op
  <2>1. work[p] \in Work
    BY DEF TypeOK
  <2>2. [work[p] EXCEPT !.phase = "upsert"] \in Work
    BY <2>1 DEF Work
  <2> QED
    BY <1>2, <2>2 DEF TypeOK, PC
<1> QED
  BY <1>1, <1>2 DEF EndPhase

LEMMA SelectType ==
  ASSUME TypeOK, NEW p \in Process, Select(p)
  PROVE  /\ work' \in [Process -> Work] /\ pc' \in [Process -> PC]
         /\ op' \in [Process -> Call] /\ lock' \in Process \cup {Free}
         /\ \/ UNCHANGED <<lock, op, pc>>
            \/ /\ lock = Free /\ lock' = p /\ pc'[p] = "call"
               /\ op'[p].id \in Id /\ op'[p].val = vec[op'[p].id]
               /\ \A q \in Process : q # p => pc'[q] = pc[q] /\ op'[q] = op[q]
<1>1. PICK k \in work[p].todo :
        LET m == k[2] IN
        IF debt[m] = k[1] /\ InPhase(p, m)
        THEN /\ Reserve(p)
             /\ op' = [op EXCEPT ![p] =
                         [id |-> m, gen |-> k[1], val |-> vec[m], done |-> FALSE]]
             /\ work' = [work EXCEPT ![p].todo = @ \ {k}, ![p].left = @ - 1]
             /\ pc' = [pc EXCEPT ![p] = "call"]
        ELSE /\ work' = [work EXCEPT ![p].todo = @ \ {k}]
             /\ UNCHANGED <<lock, op, pc>>
  BY DEF Select
<1>2. work[p] \in Work /\ work[p].left \in 0..Limit /\ work[p].left > 0
  BY DEF TypeOK, Work, Select, CanAttempt
<1>3. k \in Key /\ k[1] \in Nat /\ k[2] \in Id
  BY <1>1, <1>2 DEF Work, Key
<1>4. [work[p] EXCEPT !.todo = @ \ {k}] \in Work
  BY <1>2 DEF Work
<1>5. [work[p] EXCEPT !.todo = @ \ {k}, !.left = @ - 1] \in Work
  <2>1. work[p].left - 1 \in 0..Limit
    BY <1>2, IndexAssumption
  <2> QED
    BY <1>2, <2>1 DEF Work
<1>6. CASE debt[k[2]] = k[1] /\ InPhase(p, k[2])
  <2> DEFINE c == [id |-> k[2], gen |-> k[1], val |-> vec[k[2]], done |-> FALSE]
  <2>1. c \in Call
    BY <1>3 DEF Call, TypeOK
  <2>2. /\ lock' = p /\ op' = [op EXCEPT ![p] = c]
        /\ work' = [work EXCEPT ![p] = [work[p] EXCEPT !.todo = @ \ {k}, !.left = @ - 1]]
        /\ pc' = [pc EXCEPT ![p] = "call"]
    BY <1>1, <1>6 DEF Reserve, TypeOK
  <2>3. op' \in [Process -> Call] /\ work' \in [Process -> Work] /\ pc' \in [Process -> PC]
    BY <2>1, <2>2, <1>5 DEF TypeOK, PC
  <2>4. lock = Free
    BY DEF Select
  <2>5. op'[p] = c /\ pc'[p] = "call"
    BY <2>2 DEF TypeOK
  <2>6. \A q \in Process : q # p => pc'[q] = pc[q] /\ op'[q] = op[q]
    BY <2>2 DEF TypeOK
  <2> QED
    BY <1>3, <2>2, <2>3, <2>4, <2>5, <2>6
<1>7. CASE ~ (debt[k[2]] = k[1] /\ InPhase(p, k[2]))
  BY <1>1, <1>4, <1>7 DEF TypeOK
<1> QED
  BY <1>6, <1>7

\* A step that at most moves one process p, and takes the writer or gives it
\* back, keeps Safe if it keeps what Safe says of p.
LEMMA LocalStep ==
  ASSUME Safe, NEW p \in Process,
         UNCHANGED <<row, vec, gen, registered>>, TypeOK',
         \A q \in Process : q # p => pc'[q] = pc[q] /\ op'[q] = op[q],
         \/ UNCHANGED lock \/ (lock = Free /\ lock' = p) \/ (lock = p /\ lock' = Free),
         \A q \in Process : q # p /\ pc[q] \in {"ack", "erase_commit"} => idx' = idx,
         /\ pc'[p] \in {"call", "ack", "erasing", "erase_commit"} => lock' = p
         /\ pc'[p] # "idle" => registered
         /\ pc'[p] \in {"call", "ack"} \cup EraseStates => op'[p].id \in Id
         /\ pc'[p] \in {"call", "ack"} => op'[p].val = vec[op'[p].id]
         /\ pc'[p] = "ack" => idx'[op'[p].id] = op'[p].val
         /\ pc'[p] = "erase_commit" /\ op'[p].done => idx'[op'[p].id] = 0
  PROVE  Safe'
<1>1. vec' = vec /\ registered' = registered
  BY DEF canonical
<1>2. ASSUME NEW q \in Process, q # p
      PROVE  /\ pc'[q] \in {"call", "ack", "erasing", "erase_commit"} => lock' = q
             /\ pc'[q] # "idle" => registered'
             /\ pc'[q] \in {"call", "ack"} \cup EraseStates => op'[q].id \in Id
             /\ pc'[q] \in {"call", "ack"} => op'[q].val = vec'[op'[q].id]
             /\ pc'[q] = "ack" => idx'[op'[q].id] = op'[q].val
             /\ pc'[q] = "erase_commit" /\ op'[q].done => idx'[op'[q].id] = 0
  <2>1. pc'[q] = pc[q] /\ op'[q] = op[q]
    BY <1>2
  <2>2. Free \notin Process
    BY IndexAssumption
  <2>3. pc'[q] \in {"call", "ack", "erasing", "erase_commit"} => lock' = q
    BY <1>2, <2>1, <2>2 DEF Safe, CallsAreLocked
  <2>4. pc'[q] \in {"ack", "erase_commit"} => idx' = idx
    BY <1>2, <2>1
  <2> QED
    BY <1>1, <2>1, <2>3, <2>4 DEF Safe, CallsAreLocked, CallsAreCurrent
<1>3. CallsAreLocked'
  BY <1>1, <1>2 DEF CallsAreLocked
<1>4. CallsAreCurrent'
  BY <1>1, <1>2 DEF CallsAreCurrent
<1> QED
  BY <1>3, <1>4 DEF Safe

\* While p makes a call, no other process does.
LEMMA OneCall ==
  ASSUME Safe, NEW p \in Process, lock = p, NEW q \in Process, q # p
  PROVE  pc[q] \notin {"call", "ack", "erasing", "erase_commit"}
  BY DEF Safe, CallsAreLocked

LEMMA CanonicalSafe ==
  ASSUME Safe, NEW m \in Id, Write(m) \/ Quarantine(m) \/ PeerErase(m)
  PROVE  Safe'
<1>1. /\ TypeOK' /\ lock = Free /\ UNCHANGED <<index, lock, pc, work, op>>
  BY CanonicalStep DEF Safe
<1>2. \A p \in Process : pc[p] \notin {"call", "ack", "erasing", "erase_commit"}
  BY <1>1, IndexAssumption DEF Safe, CallsAreLocked
<1> QED
  BY <1>1, <1>2 DEF Safe, CallsAreLocked, CallsAreCurrent, index

LEMMA StartupSafe ==
  ASSUME Safe, Startup
  PROVE  Safe'
<1>1. debt' \in [Id -> (0..gen) \cup {NoDebt}]
  BY DEF Safe, TypeOK, Startup
<1> QED
  BY <1>1 DEF Safe, TypeOK, Startup, CallsAreLocked, CallsAreCurrent, canonical

LEMMA CompleteSafe ==
  ASSUME Safe, Complete
  PROVE  Safe'
  BY DEF Safe, TypeOK, Complete, CallsAreLocked, CallsAreCurrent, canonical

LEMMA LoseSafe ==
  ASSUME Safe, Lose
  PROVE  Safe'
<1>1. idx' \in [Id -> 0..MaxOps] /\ ops' \in 0..MaxOps
  BY IndexAssumption DEF Safe, TypeOK, Lose
<1> QED
  BY <1>1 DEF Safe, TypeOK, Lose, CallsAreLocked, CallsAreCurrent

LEMMA QuietSafe ==
  ASSUME Safe, NEW p \in Process,
         \/ RepairBegin(p, Id) \/ (\E m \in Id : RepairBegin(p, {m}))
         \/ ReadPage(p) \/ EndPhase(p) \/ Select(p) \/ Crash(p)
  PROVE  Safe'
<1> USE DEF Safe
<1>1. ASSUME NEW ids \in SUBSET Id, RepairBegin(p, ids) PROVE Safe'
  <2>1. /\ TypeOK' /\ pc'[p] = "page" /\ registered
        /\ \A q \in Process : q # p => pc'[q] = pc[q] /\ op'[q] = op[q]
        /\ UNCHANGED <<canonical, index, lock>>
    BY <1>1, BeginType DEF RepairBegin, TypeOK, canonical, index
  <2> QED
    BY <2>1, LocalStep DEF index, canonical, EraseStates
<1>2. CASE ReadPage(p)
  <2>1. /\ TypeOK' /\ pc'[p] = "select" /\ pc[p] = "page"
        /\ \A q \in Process : q # p => pc'[q] = pc[q] /\ op'[q] = op[q]
        /\ UNCHANGED <<canonical, index, lock>>
    BY <1>2, PageType DEF ReadPage, TypeOK, canonical, index
  <2> QED
    BY <2>1, LocalStep DEF index, canonical, EraseStates, CallsAreLocked
<1>3. CASE EndPhase(p)
  <2>1. /\ TypeOK' /\ pc'[p] \in {"idle", "page"} /\ pc[p] = "select"
        /\ \A q \in Process : q # p => pc'[q] = pc[q] /\ op'[q] = op[q]
        /\ UNCHANGED <<canonical, index, lock>>
    BY <1>3, EndPhaseType DEF EndPhase, TypeOK, canonical, index
  <2> QED
    BY <2>1, LocalStep DEF index, canonical, EraseStates, CallsAreLocked
<1>4. CASE Select(p)
  <2>1. TypeOK' /\ UNCHANGED <<canonical, index>> /\ pc[p] = "select"
    BY <1>4, SelectType DEF Select, TypeOK, canonical, index
  <2>2. CASE UNCHANGED <<lock, op, pc>>
    BY <2>1, <2>2, LocalStep DEF index, canonical, EraseStates, CallsAreLocked
  <2>3. CASE /\ lock = Free /\ lock' = p /\ pc'[p] = "call"
             /\ op'[p].id \in Id /\ op'[p].val = vec[op'[p].id]
             /\ \A q \in Process : q # p => pc'[q] = pc[q] /\ op'[q] = op[q]
    BY <2>1, <2>3, LocalStep DEF index, canonical, EraseStates, CallsAreLocked
  <2> QED
    BY <1>4, <2>2, <2>3, SelectType
<1>5. CASE Crash(p)
  <2>1. /\ TypeOK' /\ pc'[p] = "idle"
        /\ \A q \in Process : q # p => pc'[q] = pc[q] /\ op'[q] = op[q]
        /\ UNCHANGED <<row, vec, gen, index>> /\ lock' = IF lock = p THEN Free ELSE lock
    BY <1>5, ReturnType, IndexAssumption DEF Crash, TypeOK, index
  <2> QED
    BY <2>1, LocalStep DEF index, canonical, EraseStates
<1> QED
  BY <1>1, <1>2, <1>3, <1>4, <1>5

\* A provider call of a repair: Publish, Ack, Fail.
LEMMA RepairCallSafe ==
  ASSUME Safe, NEW p \in Process,
         Publish(p) \/ Ack(p) \/ (\E done \in BOOLEAN : Fail(p, done))
  PROVE  Safe'
<1>1. lock = p /\ op[p].id \in Id /\ registered /\ op[p].val = vec[op[p].id]
  BY DEF Safe, CallsAreLocked, CallsAreCurrent, Publish, Ack, Fail
<1>2. op[p].val \in 0..MaxOps /\ op[p].gen \in Nat
  BY DEF Safe, TypeOK, Call
<1>3. \A q \in Process : q # p => pc[q] \notin {"call", "ack", "erasing", "erase_commit"}
  BY <1>1, OneCall
<1>4. CASE Publish(p)
  <2>1. TypeOK'
    BY <1>1, <1>2, <1>4 DEF Publish, Safe, TypeOK, canonical, PC
  <2>2. /\ UNCHANGED <<canonical, registered, lock, op>> /\ pc'[p] = "ack"
        /\ idx'[op[p].id] = op[p].val
        /\ \A q \in Process : q # p => pc'[q] = pc[q] /\ op'[q] = op[q]
    BY <1>1, <1>4 DEF Publish, Safe, TypeOK
  <2> QED
    BY <1>1, <1>3, <2>1, <2>2, LocalStep DEF canonical
<1>5. CASE Ack(p)
  <2>1. debt' \in [Id -> (0..gen) \cup {NoDebt}]
    BY <1>1, <1>5 DEF Ack, Safe, TypeOK
  <2>2. TypeOK'
    BY <1>5, <2>1, LocalTypes DEF Ack, Safe, TypeOK, canonical, index, PC
  <2>3. /\ UNCHANGED <<canonical, index>> /\ pc'[p] = "select" /\ lock' = Free
        /\ \A q \in Process : q # p => pc'[q] = pc[q] /\ op'[q] = op[q]
    BY <1>5 DEF Ack, Safe, TypeOK
  <2> QED
    BY <1>1, <1>3, <2>2, <2>3, LocalStep DEF index, canonical, EraseStates
<1>6. CASE \E done \in BOOLEAN : Fail(p, done)
  <2>1. idx' \in [Id -> 0..MaxOps]
    BY <1>1, <1>2, <1>6 DEF Fail, Safe, TypeOK
  <2>2. /\ pc' \in [Process -> PC] /\ work' \in [Process -> Work]
        /\ op' \in [Process -> Call] /\ pc'[p] \in {"idle", "select"}
        /\ \A q \in Process : q # p => pc'[q] = pc[q] /\ op'[q] = op[q]
    <3>1. CASE Return(p)
      BY <3>1, ReturnType DEF Safe
    <3>2. CASE /\ pc' = [pc EXCEPT ![p] = "select"]
               /\ op' = [op EXCEPT ![p] = NoCall]
               /\ UNCHANGED work
      BY <3>2, LocalTypes DEF Safe, TypeOK, PC
    <3> QED
      BY <1>6, <3>1, <3>2 DEF Fail
  <2>3. UNCHANGED <<canonical, debt, lost, seeded, registered>> /\ lock' = Free
    BY <1>6 DEF Fail
  <2>4. TypeOK'
    BY <2>1, <2>2, <2>3 DEF Safe, TypeOK, canonical
  <2> QED
    BY <1>1, <1>3, <2>2, <2>3, <2>4, LocalStep DEF canonical, EraseStates
<1> QED
  BY <1>4, <1>5, <1>6

LEMMA EraseSafe ==
  ASSUME Safe, NEW p \in Process, Erase(p)
  PROVE  Safe'
<1> USE DEF Safe
<1>1. ASSUME NEW m \in Id, EraseBegin(p, m) PROVE Safe'
  <2> DEFINE c == [id |-> m, gen |-> gen, val |-> 0, done |-> FALSE]
  <2>1. c \in Call /\ ops' \in 0..MaxOps
    BY <1>1, IndexAssumption DEF Call, TypeOK, EraseBegin
  <2>2. op' = [op EXCEPT ![p] = c] /\ pc' = [pc EXCEPT ![p] = "erasing"]
    BY <1>1 DEF EraseBegin
  <2>3. op' \in [Process -> Call] /\ pc' \in [Process -> PC]
    BY <2>1, <2>2 DEF TypeOK, PC
  <2>4. /\ UNCHANGED <<row, vec, gen, debt, index, work>> /\ lock = Free /\ lock' = p
        /\ registered
    BY <1>1 DEF EraseBegin
  <2>5. TypeOK'
    BY <2>1, <2>3, <2>4 DEF TypeOK, index
  <2>6. /\ pc'[p] = "erasing" /\ op'[p].id = m
        /\ \A q \in Process : q # p => pc'[q] = pc[q] /\ op'[q] = op[q]
    BY <2>2 DEF TypeOK
  <2>7. \A q \in Process : pc[q] \notin {"call", "ack", "erasing", "erase_commit"}
    BY <2>4, IndexAssumption DEF CallsAreLocked
  <2>8. CallsAreLocked'
    BY <2>4, <2>6, <2>7 DEF CallsAreLocked, EraseStates, index
  <2>9. CallsAreCurrent'
    BY <2>6, <2>7 DEF CallsAreCurrent
  <2> QED
    BY <2>5, <2>8, <2>9
<1>2. ASSUME NEW ok \in BOOLEAN, NEW done \in BOOLEAN, EraseCall(p, ok, done) PROVE Safe'
  <2>1. lock = p /\ op[p].id \in Id /\ op[p] \in Call /\ registered
    BY <1>2 DEF EraseCall, CallsAreLocked, EraseStates, TypeOK
  <2>2. idx' \in [Id -> 0..MaxOps] /\ (ok => idx'[op[p].id] = 0)
    BY <1>2, <2>1, IndexAssumption DEF EraseCall, TypeOK
  <2>3. [op[p] EXCEPT !.done = ok] \in Call
    BY <2>1 DEF Call
  <2>4. op' = [op EXCEPT ![p] = [op[p] EXCEPT !.done = ok]]
    BY <1>2 DEF EraseCall, TypeOK
  <2>5. op' \in [Process -> Call] /\ op'[p].id = op[p].id /\ op'[p].done = ok
    BY <2>1, <2>3, <2>4 DEF TypeOK, Call
  <2>6. /\ pc' \in [Process -> PC] /\ pc'[p] = "erase_commit"
        /\ UNCHANGED <<canonical, debt, lost, seeded, registered, lock, work>>
        /\ \A q \in Process : q # p => pc'[q] = pc[q] /\ op'[q] = op[q]
    BY <1>2, <2>4 DEF EraseCall, TypeOK, PC
  <2>7. TypeOK'
    BY <2>2, <2>5, <2>6 DEF TypeOK, canonical
  <2>8. \A q \in Process : q # p => pc[q] \notin {"call", "ack", "erasing", "erase_commit"}
    BY <2>1, OneCall
  <2> QED
    BY <2>1, <2>2, <2>5, <2>6, <2>7, <2>8, LocalStep DEF canonical
<1>3. CASE EraseCommit(p)
  <2>1. lock = p /\ op[p].id \in Id
    BY <1>3 DEF EraseCommit, CallsAreLocked, EraseStates
  <2>2. /\ Return(p) /\ lock' = Free /\ UNCHANGED <<ops, index>>
        /\ row' = [row EXCEPT ![op[p].id] = "erased"]
        /\ vec' = [vec EXCEPT ![op[p].id] = 0]
        /\ gen' = IF vec[op[p].id] # 0 THEN gen + 1 ELSE gen
        /\ debt' = [debt EXCEPT ![op[p].id] = Settled(p, gen')]
    BY <1>3 DEF EraseCommit
  <2>3. gen' \in Nat /\ gen <= gen'
    BY <2>2 DEF TypeOK
  <2>4. debt' \in [Id -> (0..gen') \cup {NoDebt}]
    <3>1. Settled(p, gen') \in (0..gen') \cup {NoDebt}
      BY <2>3 DEF Settled
    <3>2. debt \in [Id -> (0..gen') \cup {NoDebt}]
      BY <2>3 DEF TypeOK
    <3> QED
      BY <2>2, <3>1, <3>2
  <2>5. row' \in [Id -> RowState] /\ vec' \in [Id -> 0..MaxOps]
    <3>1. row' \in [Id -> RowState]
      BY <2>1, <2>2 DEF TypeOK, RowState
    <3>2. 0 \in 0..MaxOps
      BY IndexAssumption
    <3>3. vec' \in [Id -> 0..MaxOps]
      BY <2>1, <2>2, <3>2 DEF TypeOK
    <3> QED
      BY <3>1, <3>3
  <2>6. TypeOK'
    BY <2>2, <2>3, <2>4, <2>5, ReturnType DEF TypeOK, index
  <2>7. \A q \in Process : q # p => pc[q] \notin {"call", "ack", "erasing", "erase_commit"}
    BY <2>1, OneCall
  <2>8. /\ pc'[p] = "idle"
        /\ \A q \in Process : q # p => pc'[q] = pc[q] /\ op'[q] = op[q]
    BY <2>2, ReturnType
  <2>9. CallsAreLocked' /\ CallsAreCurrent'
    BY <2>2, <2>7, <2>8 DEF CallsAreLocked, CallsAreCurrent, EraseStates, index
  <2> QED
    BY <2>6, <2>9
<1>4. CASE EraseFail(p)
  <2>1. lock = p /\ op[p].id \in Id /\ registered
    BY <1>4 DEF EraseFail, CallsAreLocked, EraseStates
  <2>2. /\ TypeOK' /\ pc'[p] = "requeue" /\ UNCHANGED <<canonical, index, op>> /\ lock' = Free
        /\ \A q \in Process : q # p => pc'[q] = pc[q] /\ op'[q] = op[q]
    BY <1>4 DEF EraseFail, TypeOK, PC, canonical, index
  <2> QED
    BY <2>1, <2>2, LocalStep DEF canonical, index
<1>5. CASE Requeue(p)
  <2>1. op[p].id \in Id
    BY <1>5 DEF Requeue, CallsAreLocked, EraseStates
  <2>2. debt' \in [Id -> (0..gen) \cup {NoDebt}]
    BY <1>5, <2>1 DEF Requeue, TypeOK
  <2>3. /\ pc' \in [Process -> PC] /\ work' \in [Process -> Work] /\ op' \in [Process -> Call]
        /\ pc'[p] = "idle"
        /\ \A q \in Process : q # p => pc'[q] = pc[q] /\ op'[q] = op[q]
    BY <1>5, ReturnType DEF Requeue
  <2>4. UNCHANGED <<canonical, index, lock>>
    BY <1>5 DEF Requeue
  <2>5. TypeOK'
    BY <2>2, <2>3, <2>4 DEF TypeOK, canonical, index
  <2> QED
    BY <2>3, <2>4, <2>5, LocalStep DEF index, canonical, EraseStates
<1> QED
  BY <1>1, <1>2, <1>3, <1>4, <1>5 DEF Erase

LEMMA NextSafe ==
  ASSUME Safe, [Next]_vars
  PROVE  Safe'
<1>1. CASE UNCHANGED vars
  BY <1>1 DEF Safe, TypeOK, CallsAreLocked, CallsAreCurrent, vars, canonical, index
<1>2. CASE Next
  BY <1>2, CanonicalSafe, StartupSafe, CompleteSafe, LoseSafe, QuietSafe, RepairCallSafe,
     EraseSafe DEF Next, RepairStep
<1> QED
  BY <1>1, <1>2

\* Calls are made to a registered index only, so that one which is not is empty.
LEMMA NextFresh ==
  ASSUME Safe, FreshIndexIsEmpty, [Next]_vars
  PROVE  FreshIndexIsEmpty'
<1>1. CASE UNCHANGED vars
  BY <1>1 DEF FreshIndexIsEmpty, vars, index
<1>2. ASSUME NEW m \in Id, Write(m) \/ Quarantine(m) \/ PeerErase(m) PROVE FreshIndexIsEmpty'
  BY <1>2 DEF Write, Quarantine, PeerErase, Canonical, FreshIndexIsEmpty, index
<1>3. CASE Startup \/ Complete \/ Lose
  BY <1>3 DEF Startup, Complete, Lose, FreshIndexIsEmpty
<1>4. ASSUME NEW p \in Process,
             \/ \E m \in Id : RepairBegin(p, {m})
             \/ RepairBegin(p, Id)
             \/ RepairStep(p) \/ Crash(p)
             \/ EraseCommit(p) \/ EraseFail(p) \/ Requeue(p)
             \/ \E m \in Id : EraseBegin(p, m)
      PROVE  FreshIndexIsEmpty'
  BY <1>4 DEF RepairBegin, RepairStep, ReadPage, Select, Ack, EndPhase, Crash, EraseCommit,
     EraseFail, Requeue, EraseBegin, FreshIndexIsEmpty, index
<1>5. ASSUME NEW p \in Process,
             \/ Publish(p) \/ (\E done \in BOOLEAN : Fail(p, done))
             \/ \E ok, done \in BOOLEAN : EraseCall(p, ok, done)
      PROVE  FreshIndexIsEmpty'
  <2>1. registered /\ UNCHANGED <<registered, lost, seeded>>
    BY <1>5 DEF Publish, Fail, EraseCall, Safe, CallsAreLocked
  <2> QED
    BY <2>1 DEF FreshIndexIsEmpty
<1> QED
  BY <1>1, <1>2, <1>3, <1>4, <1>5 DEF Next, Erase

\* Where the rows, the index, the debt and the erasures stay, so does Covered.
LEMMA CoveredKept ==
  ASSUME Covered, UNCHANGED <<vec, debt, index>>, \A m \in Id : Erasing(m) => Erasing(m)'
  PROVE  Covered'
  BY DEF Covered, index

\* A process that leaves no erasure keeps all of them.
LEMMA ErasingKept ==
  ASSUME NEW p \in Process, pc[p] \notin EraseStates,
         \A q \in Process : q # p => pc'[q] = pc[q] /\ op'[q] = op[q],
         NEW m, Erasing(m)
  PROVE  Erasing(m)'
  BY DEF Erasing

\* A canonical transaction queues what it changes, unless the index is fresh.
LEMMA CanonicalCovered ==
  ASSUME Safe, FreshIndexIsEmpty, Covered,
         NEW m \in Id, Write(m) \/ Quarantine(m) \/ PeerErase(m)
  PROVE  Covered'
<1>1. /\ UNCHANGED <<index, pc, op>> /\ (registered => debt'[m] # NoDebt)
      /\ \A n \in Id : n # m => debt'[n] = debt[n] /\ vec'[n] = vec[n]
  BY CanonicalStep DEF Safe
<1>2. \A n \in Id : Erasing(n) => Erasing(n)'
  BY <1>1 DEF Erasing
<1> QED
  BY <1>1, <1>2 DEF Covered, FreshIndexIsEmpty, index

LEMMA StartCovered ==
  ASSUME Safe, FreshIndexIsEmpty, Covered, Startup \/ Complete \/ Lose
  PROVE  Covered'
<1>1. CASE Startup
  <2>1. UNCHANGED <<vec, idx, pc, op>> /\ debt' = [m \in Id |-> IF vec[m] # 0 THEN gen ELSE debt[m]]
    BY <1>1 DEF Startup, canonical
  <2>2. gen # NoDebt
    BY DEF Safe, TypeOK, NoDebt
  <2>3. ASSUME NEW m \in Id PROVE idx[m] = vec[m] \/ debt'[m] # NoDebt \/ Erasing(m)'
    BY <2>1, <2>2 DEF Covered, FreshIndexIsEmpty, Erasing
  <2> QED
    BY <2>1, <2>3 DEF Covered
<1>2. CASE Complete
  <2>1. UNCHANGED <<vec, idx, debt, pc, op>> /\ lost /\ seeded /\ Pending = {}
    BY <1>2 DEF Complete, canonical
  <2>2. \A m \in Id : debt[m] = NoDebt
    BY <2>1 DEF Pending
  <2>3. ASSUME NEW m \in Id PROVE idx[m] = vec[m] \/ Erasing(m)'
    BY <2>1, <2>2 DEF Covered, FreshIndexIsEmpty, Erasing
  <2> QED
    BY <2>1, <2>3 DEF Covered
<1>3. CASE Lose
  BY <1>3 DEF Lose, Covered
<1> QED
  BY <1>1, <1>2, <1>3

LEMMA RepairCovered ==
  ASSUME Safe, Covered, "erase_crash" \notin Feature, NEW p \in Process,
         \/ \E m \in Id : RepairBegin(p, {m})
         \/ RepairBegin(p, Id)
         \/ RepairStep(p) \/ Publish(p) \/ (\E done \in BOOLEAN : Fail(p, done))
         \/ Crash(p)
  PROVE  Covered'
<1> USE DEF Safe
<1>1. CASE \/ \E m \in Id : RepairBegin(p, {m})
           \/ RepairBegin(p, Id)
           \/ ReadPage(p) \/ EndPhase(p) \/ Select(p) \/ Crash(p)
  <2>1. UNCHANGED <<vec, debt, index>> /\ pc[p] \notin EraseStates
    BY <1>1 DEF RepairBegin, ReadPage, EndPhase, Select, Crash, canonical, EraseStates
  <2>2. \A q \in Process : q # p => pc'[q] = pc[q] /\ op'[q] = op[q]
    <3>1. CASE (\E m \in Id : RepairBegin(p, {m})) \/ RepairBegin(p, Id) \/ ReadPage(p)
      BY <3>1 DEF RepairBegin, ReadPage, TypeOK
    <3>2. CASE EndPhase(p)
      BY <3>2, EndPhaseType
    <3>3. CASE Select(p)
      BY <3>3, SelectType
    <3>4. CASE Crash(p)
      BY <3>4, ReturnType DEF Crash
    <3> QED
      BY <1>1, <3>1, <3>2, <3>3, <3>4
  <2> QED
    BY <2>1, <2>2, ErasingKept, CoveredKept
<1>2. CASE Publish(p) \/ (\E done \in BOOLEAN : Fail(p, done))
  <2>1. /\ op[p].id \in Id /\ op[p].val = vec[op[p].id]
        /\ UNCHANGED <<vec, debt, lost, seeded, registered>>
        /\ pc[p] \notin EraseStates
    BY <1>2 DEF CallsAreLocked, CallsAreCurrent, Publish, Fail, canonical, EraseStates
  <2>2. idx' = idx \/ idx' = [idx EXCEPT ![op[p].id] = vec[op[p].id]]
    BY <1>2, <2>1 DEF Publish, Fail
  <2>3. \A m \in Id : idx'[m] = idx[m] \/ idx'[m] = vec'[m]
    BY <2>1, <2>2 DEF TypeOK
  <2>4. \A q \in Process : q # p => pc'[q] = pc[q] /\ op'[q] = op[q]
    BY <1>2, ReturnType DEF Publish, Fail, TypeOK
  <2>5. \A m \in Id : Erasing(m) => Erasing(m)'
    BY <2>1, <2>4, ErasingKept
  <2> QED
    BY <2>1, <2>3, <2>5 DEF Covered
<1>3. CASE Ack(p)
  <2>1. /\ op[p].id \in Id /\ idx[op[p].id] = vec[op[p].id]
        /\ UNCHANGED <<vec, index>> /\ pc[p] \notin EraseStates
    BY <1>3 DEF CallsAreLocked, CallsAreCurrent, Ack, canonical, EraseStates
  <2>2. \A m \in Id : m # op[p].id => debt'[m] = debt[m]
    BY <1>3 DEF Ack, TypeOK
  <2>3. \A q \in Process : q # p => pc'[q] = pc[q] /\ op'[q] = op[q]
    BY <1>3 DEF Ack, TypeOK
  <2>4. \A m \in Id : Erasing(m) => Erasing(m)'
    BY <2>1, <2>3, ErasingKept
  <2> QED
    BY <2>1, <2>2, <2>4 DEF Covered, index
<1> QED
  BY <1>1, <1>2, <1>3 DEF RepairStep

LEMMA EraseCovered ==
  ASSUME Safe, Covered, NEW p \in Process, Erase(p)
  PROVE  Covered'
<1> USE DEF Safe
<1>1. ASSUME NEW m \in Id, EraseBegin(p, m) PROVE Covered'
  <2>1. /\ UNCHANGED <<vec, debt, index>> /\ pc[p] \notin EraseStates
        /\ \A q \in Process : q # p => pc'[q] = pc[q] /\ op'[q] = op[q]
    BY <1>1 DEF EraseBegin, EraseStates, TypeOK
  <2> QED
    BY <2>1, ErasingKept, CoveredKept
<1>2. ASSUME NEW ok \in BOOLEAN, NEW done \in BOOLEAN, EraseCall(p, ok, done) PROVE Covered'
  <2>1. /\ UNCHANGED <<vec, debt, lost, seeded, registered>>
        /\ pc'[p] = "erase_commit" /\ op'[p].id = op[p].id
        /\ \A q \in Process : q # p => pc'[q] = pc[q] /\ op'[q] = op[q]
    BY <1>2 DEF EraseCall, TypeOK, canonical, Call
  <2>2. \A m \in Id : Erasing(m) => Erasing(m)'
    BY <2>1 DEF Erasing, EraseStates
  <2>3. Erasing(op[p].id)'
    BY <2>1 DEF Erasing, EraseStates
  <2>4. \A m \in Id : m # op[p].id => idx'[m] = idx[m]
    BY <1>2 DEF EraseCall, TypeOK
  <2> QED
    BY <2>1, <2>2, <2>3, <2>4 DEF Covered
<1>3. CASE EraseCommit(p)
  <2> DEFINE m == op[p].id
  <2>1. /\ m \in Id /\ UNCHANGED index /\ Return(p)
        /\ (op[p].done => idx[m] = 0)
    BY <1>3 DEF EraseCommit, CallsAreLocked, CallsAreCurrent, EraseStates
  <2>2. vec' = [vec EXCEPT ![m] = 0] /\ debt' = [debt EXCEPT ![m] = Settled(p, gen')]
    BY <1>3 DEF EraseCommit
  <2>3. gen' # NoDebt
    BY <1>3 DEF EraseCommit, TypeOK, NoDebt
  <2>4. \A n \in Id : n # m => vec'[n] = vec[n] /\ debt'[n] = debt[n]
    BY <2>2 DEF TypeOK
  <2>5. idx'[m] = vec'[m] \/ debt'[m] # NoDebt
    BY <2>1, <2>2, <2>3 DEF Settled, TypeOK, index
  <2>6. \A n \in Id : n # m /\ Erasing(n) => Erasing(n)'
    BY <2>1, ReturnType DEF Erasing
  <2> QED
    BY <2>1, <2>4, <2>5, <2>6 DEF Covered, index
<1>4. CASE EraseFail(p)
  <2>1. /\ UNCHANGED <<vec, debt, index, op>> /\ pc'[p] = "requeue"
        /\ \A q \in Process : q # p => pc'[q] = pc[q]
    BY <1>4 DEF EraseFail, TypeOK, canonical
  <2>2. \A m \in Id : Erasing(m) => Erasing(m)'
    BY <2>1 DEF Erasing, EraseStates
  <2> QED
    BY <2>1, <2>2, CoveredKept
<1>5. CASE Requeue(p)
  <2> DEFINE m == op[p].id
  <2>1. /\ m \in Id /\ UNCHANGED <<vec, index>> /\ Return(p)
        /\ debt' = [debt EXCEPT ![m] = gen]
    BY <1>5 DEF Requeue, CallsAreLocked, EraseStates, canonical
  <2>2. debt'[m] # NoDebt /\ \A n \in Id : n # m => debt'[n] = debt[n]
    BY <2>1 DEF TypeOK, NoDebt
  <2>3. \A n \in Id : n # m /\ Erasing(n) => Erasing(n)'
    BY <2>1, ReturnType DEF Erasing
  <2> QED
    BY <2>1, <2>2, <2>3 DEF Covered, index
<1> QED
  BY <1>1, <1>2, <1>3, <1>4, <1>5 DEF Erase

\* Every variable has its type: the generation of a queue row never runs ahead
\* of the store's, a repair never makes more attempts than its limit.
THEOREM IndexTypeCorrect == Spec => []TypeOK
<1>1. Safe /\ [Next]_vars => Safe'
  BY NextSafe
<1>2. Safe => TypeOK
  BY DEF Safe
<1> QED
  BY InitSafe, <1>1, <1>2, PTL DEF Spec

\* If no process dies in the middle of an erasure, an empty queue means that the
\* index agrees with SQLite, with any number of processes and any failures of
\* the provider (vector_repair.canonical_search_required relies on it).
THEOREM QueueIsComplete ==
  ASSUME "erase_crash" \notin Feature
  PROVE  Spec => []DebtCoversDifference
<1> DEFINE Inv == Safe /\ FreshIndexIsEmpty /\ Covered
<1>1. Init => Inv
  BY InitSafe
<1>2. Inv /\ [Next]_vars => Inv'
  <2> SUFFICES ASSUME Inv, [Next]_vars PROVE Inv'
    OBVIOUS
  <2>1. Safe' /\ FreshIndexIsEmpty'
    BY NextSafe, NextFresh
  <2>2. ASSUME UNCHANGED vars PROVE Covered'
    BY <2>2 DEF Covered, Erasing, vars, canonical, index
  <2>3. ASSUME Next PROVE Covered'
    BY <2>3, CanonicalCovered, StartCovered, RepairCovered, EraseCovered DEF Next
  <2> QED
    BY <2>1, <2>2, <2>3
<1>3. Inv => DebtCoversDifference
  BY DEF Covered, DebtCoversDifference
<1> QED
  BY <1>1, <1>2, <1>3, PTL DEF Spec

\* The provider is only ever given the current canonical vector, or a deletion:
\* the call is made under the writer that read the vector.
THEOREM PublishesCurrentVectors == Spec => NeverPublishesStale
<1>1. Safe /\ [Next]_vars =>
        [\A m \in Id : idx'[m] # idx[m] /\ idx'[m] # 0 => idx'[m] = vec[m]]_vars
  <2> SUFFICES ASSUME Safe, Next, NEW m \in Id, idx'[m] # idx[m], idx'[m] # 0
               PROVE  idx'[m] = vec[m]
    OBVIOUS
  <2>1. PICK p \in Process :
          \/ Publish(p) \/ (\E done \in BOOLEAN : Fail(p, done))
          \/ \E ok, done \in BOOLEAN : EraseCall(p, ok, done)
    BY DEF Next, Write, Quarantine, PeerErase, Canonical, Startup, Complete, Lose, RepairBegin,
       RepairStep, ReadPage, Select, Ack, EndPhase, Erase, EraseBegin, EraseCommit, EraseFail,
       Requeue, Crash, index
  <2>2. ~ \E ok, done \in BOOLEAN : EraseCall(p, ok, done)
    BY DEF EraseCall, Safe, TypeOK
  <2>3. op[p].val = vec[op[p].id] /\ op[p].id \in Id
    BY <2>1, <2>2 DEF Publish, Fail, Safe, CallsAreCurrent, CallsAreLocked
  <2> QED
    BY <2>1, <2>2, <2>3 DEF Publish, Fail, Safe, TypeOK
<1>2. Safe /\ [Next]_vars => Safe'
  BY NextSafe
<1> QED
  BY InitSafe, <1>1, <1>2, PTL DEF Spec, NeverPublishesStale

==============================================================================
