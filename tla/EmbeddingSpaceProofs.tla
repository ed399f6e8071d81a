------------------------ MODULE EmbeddingSpaceProofs ------------------------
(* Proofs about EmbeddingSpace, for any number of memories, processes and      *)
(* embedders, any batch size and any number of writes and deaths.              *)
EXTENDS EmbeddingSpace, WellFoundedInduction, TLAPS

\* The types that the argument needs; the key of the next page and the bound
\* on writes follow on their own, below.
Types ==
  /\ row \in [Id -> RowState]
  /\ model \in [Id -> Space \cup {None, Legacy}]
  /\ active \in Space \cup {None, Legacy}
  /\ target \in Space \cup {None}
  /\ pc \in [Process -> PC]
  /\ page \in [Process -> Page]
  /\ vector \in [Process -> Space \cup {None}]

IInv == Types /\ PublishedSpaceIsUniform

LEMMA InitUniform == Init => IInv
<1> SUFFICES ASSUME Init PROVE IInv
  OBVIOUS
<1>1. NoPage \in Page
  BY DEF NoPage, Page
<1>2. Types
  BY <1>1 DEF Init, Types, RowState, PC
<1>3. PublishedSpaceIsUniform
  BY SpaceAssumption DEF Init, PublishedSpaceIsUniform
<1> QED BY <1>2, <1>3 DEF IInv

LEMMA GotoTypes ==
  ASSUME Types, NEW p \in Process, NEW l \in PC, Goto(p, l)
  PROVE  pc' \in [Process -> PC]
  BY DEF Types, Goto

\* A start and its rebuild. Between the first batch and the last the marker
\* names a space, so that nothing is published; the last step counts.
LEMMA RebuildUniform ==
  ASSUME IInv, NEW p \in Process, Start(p) \/ Rebuild(p)
  PROVE  IInv'
<1> USE DEF IInv
<1>0. SpaceOf[p] \in Space /\ NoPage \in Page /\ None \notin Space
  BY SpaceAssumption DEF NoPage, Page
<1>1. CASE Start(p)
  <2>1. pc' \in [Process -> PC]
    BY <1>1, GotoTypes DEF Start, PC
  <2> QED
    BY <1>1, <2>1 DEF Start, store, Types, PublishedSpaceIsUniform
<1>2. CASE Begin(p)
  <2>1. pc' \in [Process -> PC]
    BY <1>2, GotoTypes DEF Begin, PC
  <2> QED
    BY <1>0, <1>2, <2>1 DEF Begin, Types, PublishedSpaceIsUniform
<1>3. CASE ReadPage(p)
  <2>1. pc' \in [Process -> PC]
    BY <1>3, GotoTypes DEF ReadPage, PC
  <2>2. page' \in [Process -> Page]
    <3> DEFINE ids == PageOf(Needing(SpaceOf[p], after[p]))
    <3>1. ids \subseteq Id
      BY DEF PageOf, Needing
    <3>2. [ids |-> ids, eligible |-> {m \in ids : row[m] = "live"}] \in Page
      BY <3>1 DEF Page
    <3> QED
      BY <1>3, <3>2 DEF ReadPage, Types
  <2> QED
    BY <1>3, <2>1, <2>2 DEF ReadPage, store, Types, PublishedSpaceIsUniform
<1>4. CASE PublishBatch(p)
  <2>1. pc' \in [Process -> PC]
    BY <1>4, GotoTypes DEF PublishBatch, PC
  <2>2. model' \in [Id -> Space \cup {None, Legacy}]
    BY <1>0, <1>4 DEF PublishBatch, Types
  <2>3. target' # None
    BY <1>0, <1>4 DEF PublishBatch, OwnsMarker
  <2>4. page' \in [Process -> Page]
    BY <1>0, <1>4 DEF PublishBatch, Types
  <2> QED
    BY <1>4, <2>1, <2>2, <2>3, <2>4 DEF PublishBatch, Types, PublishedSpaceIsUniform
<1>5. CASE Finish(p)
  <2>1. pc' \in [Process -> PC]
    BY <1>5, GotoTypes DEF Finish, PC
  <2>2. Types'
    BY <1>0, <1>5, <2>1 DEF Finish, Types
  <2>3. PublishedSpaceIsUniform'
    BY <1>0, <1>5 DEF Finish, OwnsMarker, Uniform, PublishedSpaceIsUniform
  <2> QED BY <2>2, <2>3
<1>6. CASE Superseded(p)
  <2>1. pc' \in [Process -> PC]
    BY <1>6, GotoTypes DEF Superseded, PC
  <2>2. page' \in [Process -> Page]
    BY <1>0, <1>6 DEF Superseded, Types
  <2> QED
    BY <1>6, <2>1, <2>2 DEF Superseded, store, Types, PublishedSpaceIsUniform
<1> QED BY <1>1, <1>2, <1>3, <1>4, <1>5, <1>6 DEF Rebuild

\* The second half of a write that embedded before it held the database: the
\* check of put_vector stands for everything that happened in between.
LEMMA StoreUniform ==
  ASSUME IInv, NEW p \in Process, NEW m \in Id, NEW s \in {"live", "held"}, Store(p, m, s)
  PROVE  IInv'
<1> USE DEF IInv
<1> DEFINE v == IF s = "held" THEN None ELSE vector[p]
<1>0. None \notin Space /\ Legacy \notin Space /\ v \in Space \cup {None}
  BY SpaceAssumption DEF Types
<1>1. pc' \in [Process -> PC] /\ vector' \in [Process -> Space \cup {None}]
  BY GotoTypes DEF Store, Types, PC
<1>2. CASE v # None /\ ~ Accepts(v)
  BY <1>1, <1>2 DEF Store, Types, PublishedSpaceIsUniform
<1>3. CASE ~ (v # None /\ ~ Accepts(v))
  <2>1. /\ row' = [row EXCEPT ![m] = s]
        /\ model' = [model EXCEPT ![m] =
                       IF s = "held" THEN None ELSE IF v = None THEN @ ELSE v]
        /\ UNCHANGED <<active, target, page>>
    BY <1>3 DEF Store
  <2>2. row' \in [Id -> RowState] /\ model' \in [Id -> Space \cup {None, Legacy}]
    BY <1>0, <2>1 DEF Types, RowState
  <2>3. ASSUME target = None, active \in Space, v # None
        PROVE  v = active
    BY <1>0, <1>3, <2>3 DEF Accepts
  <2>4. PublishedSpaceIsUniform'
    BY <1>0, <2>1, <2>3 DEF PublishedSpaceIsUniform, Types
  <2> QED BY <1>1, <2>1, <2>2, <2>4 DEF Types
<1> QED BY <1>2, <1>3

LEMMA WriteUniform ==
  ASSUME IInv, NEW p \in Process, Write(p) \/ Stop(p)
  PROVE  IInv'
<1> USE DEF IInv
<1>0. SpaceOf[p] \in Space /\ NoPage \in Page /\ None \notin Space
  BY SpaceAssumption DEF NoPage, Page
<1>1. CASE PrepareRemember(p)
  <2>1. pc' \in [Process -> PC] /\ vector' \in [Process -> Space \cup {None}]
    BY <1>0, <1>1, GotoTypes DEF PrepareRemember, Types, PC
  <2> QED
    BY <1>1, <2>1 DEF PrepareRemember, store, Types, PublishedSpaceIsUniform
<1>2. CASE PrepareSync(p)
  <2>1. pc' \in [Process -> PC] /\ vector' \in [Process -> Space \cup {None}]
    BY <1>0, <1>2, GotoTypes DEF PrepareSync, Types, PC
  <2> QED
    BY <1>2, <2>1 DEF PrepareSync, store, Types, PublishedSpaceIsUniform
<1>3. ASSUME NEW m \in Id, Remember(p, m) PROVE IInv'
  BY <1>3, StoreUniform DEF Remember
<1>4. ASSUME NEW m \in Id, NEW s \in {"live", "held"}, SyncWrite(p, m, s) PROVE IInv'
  BY <1>4, StoreUniform DEF SyncWrite
<1>5. ASSUME NEW m \in Id, Retitle(p, m) PROVE IInv'
  BY <1>0, <1>5 DEF Retitle, Ready, local, Types, PublishedSpaceIsUniform
<1>6. ASSUME NEW m \in Id, EraseRow(p, m) PROVE IInv'
  BY <1>6 DEF EraseRow, local, Types, RowState, PublishedSpaceIsUniform
<1>7. CASE Stop(p)
  <2>1. pc' \in [Process -> PC]
    BY <1>7, GotoTypes DEF Stop, PC
  <2> QED
    BY <1>0, <1>7, <2>1 DEF Stop, store, Types, PublishedSpaceIsUniform
<1> QED BY <1>1, <1>2, <1>3, <1>4, <1>5, <1>6, <1>7 DEF Write

LEMMA NextUniform ==
  ASSUME IInv, [Next]_vars
  PROVE  IInv'
<1>1. CASE Next
  BY <1>1, RebuildUniform, WriteUniform DEF Next
<1>2. CASE UNCHANGED vars
  BY <1>2 DEF vars, store, local, IInv, Types, PublishedSpaceIsUniform
<1> QED BY <1>1, <1>2

\* While no rebuild is under way every vector is of the active space, for any
\* number of processes that rebuild, take over, write and die.
THEOREM SpaceIsUniform == Spec => []PublishedSpaceIsUniform
<1>1. IInv /\ [Next]_vars => IInv'
  BY NextUniform
<1>2. IInv => PublishedSpaceIsUniform
  BY DEF IInv
<1> QED BY InitUniform, <1>1, <1>2, PTL DEF Spec

------------------------------------------------------------------------------
\* The key of the next page.

\* Naturals are well-ordered.
LEMMA SmallestExists ==
  ASSUME NEW S \in SUBSET Nat, S # {}
  PROVE  \E n \in S : \A m \in S : n <= m
<1>1. PICK n \in S : \A m \in S : ~ (<<m, n>> \in OpToRel(<, Nat))
  BY NatLessThanWellFounded, WFMin, Zenon
<1>2. \A m \in S : ~ (m < n)
  BY <1>1 DEF OpToRel
<1> QED BY <1>2

\* A page that is not empty has a last id, which is the key of the next page.
LEMMA NextAfterIsLast ==
  ASSUME NEW ids \in SUBSET Id, ids # {}
  PROVE  NextAfter(ids) \in ids /\ \A m \in ids : m <= NextAfter(ids)
<1>1. PICK T : T = {MemoryCount - m : m \in ids}
  OBVIOUS
<1>2. \A m \in ids : m \in Int /\ MemoryCount - m \in Nat
  BY SpaceAssumption DEF Id
<1>3. T \in SUBSET Nat /\ T # {}
  BY <1>1, <1>2
<1>4. PICK t \in T : \A u \in T : t <= u
  BY <1>3, SmallestExists
<1>5. PICK n \in ids : t = MemoryCount - n
  BY <1>1
<1>6. \A m \in ids : n >= m
  BY <1>1, <1>2, <1>4, <1>5, SpaceAssumption
<1>7. NextAfter(ids) \in ids /\ \A m \in ids : NextAfter(ids) >= m
  BY <1>6 DEF NextAfter, Max
<1> QED BY <1>2, <1>7

Keys == after \in [Process -> 0..MemoryCount] /\ ops \in Nat

LEMMA NextKeys ==
  ASSUME Keys, [Next]_vars
  PROVE  Keys'
<1>0. 0 \in 0..MemoryCount /\ Id \subseteq 0..MemoryCount
  BY SpaceAssumption DEF Id
<1>1. ASSUME NEW p \in Process, Rebuild(p) PROVE Keys'
  <2>1. CASE Begin(p)
    BY <2>1, <1>0 DEF Begin, Keys
  <2>2. CASE ReadPage(p)
    <3> DEFINE ids == PageOf(Needing(SpaceOf[p], after[p]))
    <3>1. ids \in SUBSET Id
      BY DEF PageOf, Needing
    <3>2. ids # {} => NextAfter(ids) \in 0..MemoryCount
      BY <1>0, <3>1, NextAfterIsLast
    <3>3. \/ after' = after
          \/ ids # {} /\ after' = [after EXCEPT ![p] = NextAfter(ids)]
      BY <2>2 DEF ReadPage
    <3>4. ops' = ops
      BY <2>2 DEF ReadPage
    <3> HIDE DEF ids
    <3> QED BY <3>2, <3>3, <3>4 DEF Keys
  <2>3. CASE PublishBatch(p) \/ Finish(p) \/ Superseded(p)
    BY <2>3 DEF PublishBatch, Finish, Superseded, Keys
  <2> QED BY <1>1, <2>1, <2>2, <2>3 DEF Rebuild
<1>2. ASSUME NEW p \in Process, Start(p) \/ Stop(p) PROVE Keys'
  BY <1>2 DEF Start, Stop, Keys
<1>3. ASSUME NEW p \in Process, Write(p) PROVE Keys'
  <2>1. after' = after /\ ops' \in {ops, ops + 1}
    BY <1>3 DEF Write, PrepareRemember, PrepareSync, Remember, Retitle, EraseRow,
                SyncWrite, Store, local
  <2> QED BY <2>1 DEF Keys
<1>4. CASE UNCHANGED vars
  BY <1>4 DEF vars, local, Keys
<1> QED BY <1>1, <1>2, <1>3, <1>4 DEF Next

\* Every variable keeps its type: a page always has a last id to continue after,
\* a batch is of memories that exist, and vectors are of spaces that exist.
THEOREM EmbeddingTypeCorrect == Spec => []TypeOK
<1>1. Init => Keys
  BY SpaceAssumption DEF Init, Keys
<1>2. Keys /\ [Next]_vars => Keys'
  BY NextKeys
<1>3. IInv /\ [Next]_vars => IInv'
  BY NextUniform
<1>4. IInv /\ Keys => TypeOK
  BY DEF IInv, Types, Keys, TypeOK
<1> QED BY InitUniform, <1>1, <1>2, <1>3, <1>4, PTL DEF Spec
==============================================================================
