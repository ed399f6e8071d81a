-------------------------- MODULE SyncErasureProofs --------------------------
(* Proofs about SyncErasure, for every set of devices and memories, every      *)
(* trust relation and every feature.                                           *)
EXTENDS SyncErasure, TLAPS

\* Set of devices that take erasures only from each other.
Closed(S) == \A e \in S : Trusted[e] \subseteq S

\* Somebody in S has erased m.
Authority(S, m) == \E e \in S : m \in erased[e]

\* The tombstones on their way have the authority that the stored ones have.
BundlesHaveAuthority ==
  \A S \in SUBSET Device : Closed(S) => \A d \in S :
    /\ \A m \in file[d].tombs : Authority(S, m)
    /\ pc[d] \in {"mark", "push"} => \A m \in cur[d].tombs : Authority(S, m)

\* From the check of the marker transaction to its end, the rows stay.
CheckedRowsStay ==
  \A d \in Device : Locked(d) => \A m \in Content(cur[d]) : Shareable(row[d][m])

Inv == TypeOK /\ ErasuresHaveAuthority /\ BundlesHaveAuthority /\ CheckedRowsStay

LEMMA NoBundleType == NoBundle \in Bundle
  BY ErasureAssumption DEF NoBundle, Bundle, Device

LEMMA ArrivedType ==
  ASSUME NEW m \in Id, NEW v \in Version
  PROVE  Arrived(m, v) \in Row
  BY DEF Arrived, Row, Trust, Version

LEMMA InitType == Init => TypeOK
<1> SUFFICES ASSUME Init PROVE TypeOK
  OBVIOUS
<1>1. \A d \in Device, m \in Id : row[d][m] \in Row \cup {NoRow}
  BY ErasureAssumption DEF Init, Row, Version
<1>2. row \in [Device -> [Id -> Row \cup {NoRow}]]
  BY <1>1 DEF Init
<1> QED
  BY <1>2, NoBundleType DEF Init, TypeOK

\* A row that the pull leaves is a row, or none.
LEMMA AppliedType ==
  ASSUME TypeOK, NEW d \in Device, NEW m \in Id, Admits(d, m)
  PROVE  Merged(d, m) \in Row \cup {NoRow}
<1> DEFINE v == cur[d].rows[m]
<1>1. v \in Version
  BY ErasureAssumption DEF TypeOK, Bundle, Version, Admits
<1>2. Arrived(m, v) \in Row
  BY <1>1, ArrivedType
<1>3. row[d][m] \in Row \cup {NoRow}
  BY DEF TypeOK
<1> HIDE DEF v
<1>4. [Arrived(m, v) EXCEPT !.trust = row[d][m].trust] \in Row
       \/ row[d][m] = NoRow
  BY <1>2, <1>3 DEF Row
<1>5. [Arrived(m, v) EXCEPT !.trust = @] \in Row
  BY <1>2 DEF Row
<1> QED
  BY <1>2, <1>3, <1>4, <1>5 DEF Merged, v

LEMMA PreservedType ==
  ASSUME TypeOK, NEW d \in Device, NEW m \in Memory, Conflicts(d, m)
  PROVE  Preserved(d, m) \in Row
<1>1. m \in Id
  BY ErasureAssumption
<1>2. cur[d].rows[m] \in Version
  BY <1>1, ErasureAssumption DEF TypeOK, Bundle, Version, Conflicts
<1>3. row[d][m].ver \in Version
  BY <1>1 DEF TypeOK, Row, Conflicts
<1> QED
  BY <1>2, <1>3 DEF Preserved, Row, Trust

LEMMA NextType == TypeOK /\ [Next]_vars => TypeOK'
<1> SUFFICES ASSUME TypeOK, [Next]_vars PROVE TypeOK'
  OBVIOUS
<1>1. ASSUME NEW d \in Device, NEW m \in Id, Edit(d, m) PROVE TypeOK'
  <2>0. row[d][m] \in Row
    BY <1>1 DEF Edit, TypeOK, Present
  <2>1. [row[d][m] EXCEPT !.ver = d] \in Row
    BY <2>0, ErasureAssumption DEF Row, Version, Device
  <2> QED
    BY <1>1, <2>1 DEF Edit, TypeOK, history
<1>2. ASSUME NEW d \in Device, NEW m \in Id, InheritSafety(d, m) PROVE TypeOK'
  <2>0. row[d][m] \in Row
    BY <1>2 DEF InheritSafety, TypeOK, Present
  <2>1. [row[d][m] EXCEPT !.trust = "secret"] \in Row
    BY <2>0 DEF Row, Trust
  <2> QED
    BY <1>2, <2>1 DEF InheritSafety, TypeOK, history
<1>3. ASSUME NEW d \in Device, NEW m \in Id, SecureErase(d, m) PROVE TypeOK'
  <2>1. EraseTargets(d, m) \subseteq Id
    BY ErasureAssumption DEF EraseTargets, Present
  <2>2. \A n \in Id : ExportClass(d, n) \in {"none", "never", "remote"}
    BY DEF ExportClass
  <2> QED
    BY <1>3, <2>1, <2>2 DEF SecureErase, TypeOK
<1>4. ASSUME NEW d \in Device, Start(d) PROVE TypeOK'
  BY <1>4 DEF Start, TypeOK, history
<1>5. ASSUME NEW d \in Device, NEW e \in Device, ApplyTombstones(d, e) PROVE TypeOK'
  BY <1>5 DEF ApplyTombstones, TypeOK, history
<1>6. ASSUME NEW d \in Device, ApplyMemories(d) PROVE TypeOK'
  <2> DEFINE conflicts == {m \in Memory : Conflicts(d, m)}
             applied == [m \in Id |-> IF Admits(d, m) THEN Merged(d, m) ELSE row[d][m]]
             left == [n \in Id |->
                        IF applied[n] = NoRow /\ \E m \in conflicts : Successor[m] = n
                        THEN Preserved(d, CHOOSE m \in conflicts : Successor[m] = n)
                        ELSE applied[n]]
  <2>1. \A n \in Id : applied[n] \in Row \cup {NoRow}
    BY AppliedType DEF TypeOK
  <2>2. ASSUME NEW n \in Id, \E m \in conflicts : Successor[m] = n
        PROVE  Preserved(d, CHOOSE m \in conflicts : Successor[m] = n) \in Row
    <3>1. (CHOOSE m \in conflicts : Successor[m] = n) \in conflicts
      BY <2>2
    <3> QED
      BY <3>1, PreservedType
  <2> HIDE DEF applied, conflicts
  <2>3. left \in [Id -> Row \cup {NoRow}]
    BY <2>1, <2>2
  <2>4. row' = [row EXCEPT ![d] = left]
    BY <1>6 DEF ApplyMemories, applied, conflicts
  <2> HIDE DEF left
  <2>5. row' \in [Device -> [Id -> Row \cup {NoRow}]]
    BY <2>3, <2>4 DEF TypeOK
  <2> QED
    BY <1>6, <2>5, NoBundleType DEF ApplyMemories, TypeOK
<1>7. ASSUME NEW d \in Device, Export(d) PROVE TypeOK'
  <2> DEFINE b == [ dev |-> d,
                    rows |-> [m \in Id |-> IF Shareable(row[d][m]) THEN row[d][m].ver ELSE -1],
                    tombs |-> {m \in Id : tomb[d][m] = "remote"} ]
  <2>1. \A m \in Id : Shareable(row[d][m]) => row[d][m].ver \in Version
    BY DEF TypeOK, Row, NoRow, Shareable
  <2>2. b \in Bundle
    BY <2>1, ErasureAssumption DEF Bundle, Version, Device
  <2>3. cur' = [cur EXCEPT ![d] = b]
    BY <1>7 DEF Export
  <2> HIDE DEF b
  <2>4. cur' \in [Device -> Bundle]
    BY <2>2, <2>3 DEF TypeOK
  <2> QED
    BY <1>7, <2>4 DEF Export, TypeOK, history
<1>8. ASSUME NEW d \in Device, Mark(d) PROVE TypeOK'
  <2>1. cur' \in [Device -> Bundle]
    BY <1>8, NoBundleType DEF Mark, TypeOK
  <2> QED
    BY <1>8, <2>1 DEF Mark, TypeOK, history
<1>9. ASSUME NEW d \in Device, Push(d) PROVE TypeOK'
  BY <1>9 DEF Push, TypeOK, Content
<1>10. ASSUME NEW d \in Device, Commit(d) PROVE TypeOK'
  BY <1>10, NoBundleType DEF Commit, TypeOK, Content
<1>11. ASSUME NEW d \in Device, Crash(d) PROVE TypeOK'
  <2>1. cur' \in [Device -> Bundle]
    BY <1>11, NoBundleType DEF Crash, TypeOK
  <2>2. unmarked' \in [Device -> SUBSET Id]
    BY <1>11 DEF Crash, TypeOK, Content
  <2> QED
    BY <1>11, <2>1, <2>2 DEF Crash, TypeOK
<1>12. CASE UNCHANGED vars
  BY <1>12 DEF vars, TypeOK
<1> QED
  BY <1>1, <1>2, <1>3, <1>4, <1>5, <1>6, <1>7, <1>8, <1>9, <1>10, <1>11, <1>12
     DEF Next, Operator, Round

------------------------------------------------------------------------------
\* Authority.

\* Erasures are never forgotten.
LEMMA ErasedGrows ==
  ASSUME TypeOK, [Next]_vars, NEW d \in Device
  PROVE  erased[d] \subseteq erased'[d]
<1>1. ASSUME NEW e \in Device, NEW m \in Id, SecureErase(e, m)
      PROVE  erased[d] \subseteq erased'[d]
  BY <1>1 DEF SecureErase, TypeOK
<1>2. ASSUME NEW e \in Device, Round(e) \/ Crash(e) PROVE erased' = erased
  BY <1>2 DEF Round, Start, ApplyTombstones, ApplyMemories, Export, Mark, Push, Commit,
              Crash, history
<1>3. ASSUME NEW e \in Device, NEW m \in Id, Edit(e, m) \/ InheritSafety(e, m)
      PROVE  erased' = erased
  BY <1>3 DEF Edit, InheritSafety, history
<1>4. CASE UNCHANGED vars
  BY <1>4 DEF vars
<1> QED
  BY <1>1, <1>2, <1>3, <1>4 DEF Next, Operator

LEMMA AuthorityStays ==
  ASSUME TypeOK, [Next]_vars, NEW S \in SUBSET Device, NEW m, Authority(S, m)
  PROVE  Authority(S, m)'
<1>1. PICK e \in S : m \in erased[e]
  BY DEF Authority
<1>2. m \in erased'[e]
  BY <1>1, ErasedGrows
<1> QED
  BY <1>2 DEF Authority

\* Each step leaves the tombstones, stored and under way, of a set of devices
\* that trusts only itself with an author in that set.
LEMMA NextAuthority ==
  ASSUME TypeOK, ErasuresHaveAuthority, BundlesHaveAuthority, [Next]_vars
  PROVE  ErasuresHaveAuthority' /\ BundlesHaveAuthority'
<1> SUFFICES ASSUME NEW S \in SUBSET Device, Closed(S), NEW d \in S
             PROVE  /\ \A m \in Id : tomb'[d][m] # "none" => Authority(S, m)'
                    /\ \A m \in file'[d].tombs : Authority(S, m)'
                    /\ pc'[d] \in {"mark", "push"} =>
                         \A m \in cur'[d].tombs : Authority(S, m)'
  BY DEF ErasuresHaveAuthority, BundlesHaveAuthority, Closed, Authority
<1>d. d \in Device
  OBVIOUS
<1>s. \A m \in Id : tomb[d][m] # "none" => Authority(S, m)
  BY DEF ErasuresHaveAuthority, Closed, Authority
<1>f. \A e \in S : \A m \in file[e].tombs : Authority(S, m)
  BY DEF BundlesHaveAuthority
<1>c. pc[d] \in {"mark", "push"} => \A m \in cur[d].tombs : Authority(S, m)
  BY DEF BundlesHaveAuthority
<1>k. \A m : Authority(S, m) => Authority(S, m)'
  BY AuthorityStays
<1> HIDE DEF Authority
<1>1. ASSUME NEW e \in Device, NEW n \in Id, Edit(e, n) \/ InheritSafety(e, n)
      PROVE  UNCHANGED <<tomb, file, pc, cur>>
  BY <1>1 DEF Edit, InheritSafety
<1>2. ASSUME NEW e \in Device, NEW n \in Id, SecureErase(e, n)
      PROVE  /\ UNCHANGED <<file, pc, cur>>
             /\ \A m \in Id : tomb'[d][m] # "none" => Authority(S, m)'
  <2>1. CASE e = d
    <3>1. \A m \in EraseTargets(d, n) : Authority(S, m)'
      BY <1>2, <2>1, <1>d DEF SecureErase, TypeOK, Authority
    <3>2. \A m \in Id : m \notin EraseTargets(d, n) => tomb'[d][m] = tomb[d][m]
      BY <1>2, <2>1, <1>d DEF SecureErase, TypeOK
    <3> QED
      BY <3>1, <3>2, <1>s, <1>k, <1>2 DEF SecureErase
  <2>2. CASE e # d
    BY <1>2, <2>2, <1>s, <1>k, <1>d DEF SecureErase, TypeOK
  <2> QED
    BY <2>1, <2>2
<1>3. ASSUME NEW e \in Device, NEW p \in Device, ApplyTombstones(e, p)
      PROVE  /\ UNCHANGED file
             /\ \A m \in Id : tomb'[d][m] # "none" => Authority(S, m)'
             /\ e = d => pc'[d] = "rows"
             /\ e # d => cur'[d] = cur[d] /\ pc'[d] = pc[d]
  <2>1. ASSUME NEW m \in Id, e = d, m \in file[p].tombs, AcceptsErasure(d, p, m)
        PROVE  Authority(S, m)
    <3>1. p \in S
      BY <2>1, <1>d DEF AcceptsErasure, Closed
    <3> QED
      BY <3>1, <2>1, <1>f
  <2>2. \A m \in Id : tomb'[d][m] # "none" => Authority(S, m)
    <3>1. CASE e = d
      <4>1. tomb'[d] = [m \in Id |->
              IF m \in {n \in file[p].tombs : AcceptsErasure(d, p, n)}
              THEN "remote" ELSE tomb[d][m]]
        BY <1>3, <3>1, <1>d DEF ApplyTombstones, TypeOK
      <4> QED
        BY <4>1, <3>1, <2>1, <1>s
    <3>2. CASE e # d
      BY <1>3, <3>2, <1>s, <1>d DEF ApplyTombstones, TypeOK
    <3> QED
      BY <3>1, <3>2
  <2>3. /\ UNCHANGED file
        /\ e = d => pc'[d] = "rows"
        /\ e # d => cur'[d] = cur[d] /\ pc'[d] = pc[d]
    BY <1>3, <1>d DEF ApplyTombstones, TypeOK
  <2> QED
    BY <2>2, <2>3, <1>k
<1>4. ASSUME NEW e \in Device, Start(e) \/ ApplyMemories(e) \/ Commit(e) \/ Crash(e)
      PROVE  /\ UNCHANGED <<tomb, file>>
             /\ e = d => pc'[d] \in {"pull", "idle"}
             /\ e # d => cur'[d] = cur[d] /\ pc'[d] = pc[d]
  BY <1>4, <1>d DEF Start, ApplyMemories, Commit, Crash, TypeOK
<1>5. ASSUME NEW e \in Device, Export(e)
      PROVE  /\ UNCHANGED <<tomb, file>>
             /\ e = d => \A m \in cur'[d].tombs : Authority(S, m)
             /\ e # d => cur'[d] = cur[d] /\ pc'[d] = pc[d]
  <2>1. CASE e = d
    <3>1. cur'[d].tombs = {m \in Id : tomb[d][m] = "remote"}
      BY <1>5, <2>1, <1>d DEF Export, TypeOK
    <3> QED
      BY <1>5, <2>1, <3>1, <1>s DEF Export
  <2>2. CASE e # d
    BY <1>5, <2>2, <1>d DEF Export, TypeOK
  <2> QED
    BY <2>1, <2>2
<1>6. ASSUME NEW e \in Device, Mark(e)
      PROVE  /\ UNCHANGED <<tomb, file>>
             /\ pc'[d] \in {"mark", "push"} =>
                  cur'[d] = cur[d] /\ pc[d] \in {"mark", "push"}
  <2>1. CASE e = d
    BY <1>6, <2>1, <1>d DEF Mark, TypeOK
  <2>2. CASE e # d
    BY <1>6, <2>2, <1>d DEF Mark, TypeOK
  <2> QED
    BY <2>1, <2>2
<1>7. ASSUME NEW e \in Device, Push(e)
      PROVE  /\ UNCHANGED <<tomb, cur>>
             /\ pc'[d] \in {"mark", "push"} => pc[d] \in {"mark", "push"}
             /\ file'[d] = file[d] \/ (pc[d] = "push" /\ file'[d] = cur[d])
  <2>1. CASE e = d
    BY <1>7, <2>1, <1>d DEF Push, TypeOK
  <2>2. CASE e # d
    BY <1>7, <2>2, <1>d DEF Push, TypeOK
  <2> QED
    BY <2>1, <2>2
<1>8. CASE UNCHANGED vars
  BY <1>8, <1>s, <1>f, <1>c, <1>k DEF vars
<1>9. CASE Next
  <2>1. CASE \E e \in Device : Operator(e)
    BY <2>1, <1>1, <1>2, <1>s, <1>f, <1>c, <1>k DEF Operator
  <2>2. CASE \E e \in Device : Start(e) \/ ApplyMemories(e) \/ Commit(e) \/ Crash(e)
    BY <2>2, <1>4, <1>s, <1>f, <1>c, <1>k
  <2>3. CASE \E e, p \in Device : ApplyTombstones(e, p)
    BY <2>3, <1>3, <1>f, <1>c, <1>k
  <2>4. CASE \E e \in Device : Export(e) \/ Mark(e)
    BY <2>4, <1>5, <1>6, <1>s, <1>f, <1>c, <1>k
  <2>5. CASE \E e \in Device : Push(e)
    BY <2>5, <1>7, <1>s, <1>f, <1>c, <1>k
  <2> QED
    BY <1>9, <2>1, <2>2, <2>3, <2>4, <2>5 DEF Next, Round
<1> QED
  BY <1>8, <1>9

------------------------------------------------------------------------------
\* The marker transaction.

LEMMA NextChecked ==
  ASSUME TypeOK, CheckedRowsStay, [Next]_vars
  PROVE  CheckedRowsStay'
<1> SUFFICES ASSUME NEW d \in Device, Locked(d)'
             PROVE  \A m \in Content(cur'[d]) : Shareable(row'[d][m])
  BY DEF CheckedRowsStay, Content
<1> DEFINE Stays == Locked(d) /\ cur'[d] = cur[d] /\ row'[d] = row[d]
<1>1. ASSUME NEW e \in Device, Operator(e) PROVE Stays
  BY <1>1 DEF Operator, Edit, InheritSafety, SecureErase, Locked, TypeOK
<1>2. ASSUME NEW e \in Device,
             \/ Start(e) \/ ApplyMemories(e) \/ Export(e) \/ Push(e) \/ Commit(e) \/ Crash(e)
             \/ \E p \in Device : ApplyTombstones(e, p)
      PROVE  Stays
  BY <1>2 DEF Start, ApplyTombstones, ApplyMemories, Export, Push, Commit, Crash, TypeOK,
              Locked
<1>3. ASSUME NEW e \in Device, Mark(e), e # d PROVE Stays
  BY <1>3 DEF Mark, TypeOK, Locked
<1>4. ASSUME Mark(d)
      PROVE  \A m \in Content(cur'[d]) : Shareable(row'[d][m])
  BY <1>4 DEF Mark, TypeOK, Content, Locked
<1>5. CASE UNCHANGED vars
  BY <1>5 DEF vars, CheckedRowsStay, Locked
<1>6. ASSUME Stays PROVE \A m \in Content(cur'[d]) : Shareable(row'[d][m])
  BY <1>6 DEF CheckedRowsStay, Content
<1> QED
  BY <1>1, <1>2, <1>3, <1>4, <1>5, <1>6 DEF Next, Round

------------------------------------------------------------------------------
LEMMA InvHolds == Spec => []Inv
<1>1. Init => Inv
  <2> SUFFICES ASSUME Init PROVE Inv
    OBVIOUS
  <2>1. TypeOK
    BY InitType
  <2>2. ErasuresHaveAuthority /\ BundlesHaveAuthority /\ CheckedRowsStay
    BY DEF Init, ErasuresHaveAuthority, BundlesHaveAuthority, CheckedRowsStay, NoBundle,
           Locked
  <2> QED
    BY <2>1, <2>2 DEF Inv
<1>2. Inv /\ [Next]_vars => Inv'
  BY NextType, NextAuthority, NextChecked DEF Inv
<1> QED
  BY <1>1, <1>2, PTL DEF Spec

\* The state of the erasure protocol keeps its type, whatever bundles arrive.
THEOREM ErasureTypeCorrect == Spec => []TypeOK
  BY InvHolds, PTL DEF Inv

\* apply_bundle's allowlist is transitive: no chain of forwarding devices brings
\* a tombstone into a set of devices that trusts nobody outside, unless one of
\* their own operators has erased the id.
THEOREM AuthorityHolds == Spec => []ErasuresHaveAuthority
  BY InvHolds, PTL DEF Inv

\* The second read of mark_memories_sync_exported, under the writer lock, is
\* what makes every pushed row one that is live and shareable at the push.
THEOREM PushIsLive == Spec => PushedRowsAreLive
<1>1. Inv /\ [Next]_vars
        => [\A d \in Device : file'[d] # file[d]
              => \A m \in Content(file'[d]) : Shareable(row[d][m])]_vars
  <2> SUFFICES ASSUME Inv, Next, NEW d \in Device, file'[d] # file[d]
               PROVE  \A m \in Content(file'[d]) : Shareable(row[d][m])
    BY DEF vars
  <2>1. PICK e \in Device : Push(e)
    BY DEF Next, Operator, Round, Edit, InheritSafety, SecureErase, Start, ApplyTombstones,
           ApplyMemories, Export, Mark, Commit, Crash
  <2>2. e = d /\ file'[d] = cur[d] /\ pc[d] = "push"
    BY <2>1 DEF Push, Inv, TypeOK
  <2> QED
    BY <2>2 DEF Inv, CheckedRowsStay, Locked
<1> QED
  BY <1>1, InvHolds, PTL DEF Spec, PushedRowsAreLive

------------------------------------------------------------------------------
\* The trust boundary of a pull.

\* What is merged into a row that is held for review stays one: a peer neither
\* removes nor approves it, and quarantine is sticky.
LEMMA MergedStaysHeld ==
  ASSUME TypeOK, NEW d \in Device, NEW m \in Id, Held(row[d][m])
  PROVE  LET r == Merged(d, m)
         IN /\ r # NoRow /\ ~ Protected(r)
            /\ row[d][m].trust = "quarantined" => r.trust = "quarantined"
<1>1. PICK r : r = row[d][m]
  OBVIOUS
<1>2. r # NoRow /\ r.trust \in {"pending", "quarantined"}
  BY <1>1 DEF Held, NoRow
<1>3. PICK in : in = Arrived(m, cur[d].rows[m])
  OBVIOUS
<1>4. \E t \in {"pending", "quarantined"} : \E v : in = [trust |-> t, ver |-> v]
  BY <1>3 DEF Arrived
<1>5. PICK t : t = IF r.trust = "quarantined" THEN r.trust ELSE in.trust
  OBVIOUS
<1>6. t \in {"pending", "quarantined"} /\ (r.trust = "quarantined" => t = "quarantined")
  BY <1>2, <1>4, <1>5
<1>7. Merged(d, m) \in {r, [in EXCEPT !.trust = t]}
  BY <1>1, <1>2, <1>3, <1>5 DEF Merged
<1>8. PICK j : j = [in EXCEPT !.trust = t]
  OBVIOUS
<1>9. j.trust = t
  BY <1>4, <1>8
<1>10. j # NoRow /\ ~ Protected(j) /\ (r.trust = "quarantined" => j.trust = "quarantined")
  BY <1>6, <1>9 DEF NoRow, Protected
<1>11. ~ Protected(r)
  BY <1>2 DEF Protected
<1> QED
  BY <1>1, <1>2, <1>7, <1>8, <1>10, <1>11

\* No pull removes, restricts or approves a row that the operator has reviewed
\* or has still to review, whoever sends the bundle and whatever it holds
\* (apply_bundle and _apply_one).
THEOREM ReviewedRowsStay == Spec => PeersNeverRemoveReviewed
<1> DEFINE Kept(d, m) ==
      /\ row'[d][m] # NoRow
      /\ Protected(row'[d][m]) <=> Protected(row[d][m])
      /\ row[d][m].trust = "quarantined" => row'[d][m].trust = "quarantined"
<1>1. TypeOK /\ [Next]_vars
        => [\A d \in Device, m \in Id :
              /\ pc[d] \in {"pull", "rows"} /\ pc'[d] # pc[d]
              /\ Protected(row[d][m]) \/ Held(row[d][m])
              => Kept(d, m)]_vars
  <2> SUFFICES ASSUME TypeOK, Next, NEW d \in Device, NEW m \in Id,
                      pc[d] \in {"pull", "rows"}, pc'[d] # pc[d],
                      Protected(row[d][m]) \/ Held(row[d][m])
               PROVE  Kept(d, m)
    OBVIOUS
  <2>1. row[d][m] # NoRow
    BY DEF Protected, Held, NoRow
  <2>2. ASSUME row'[d][m] = row[d][m] PROVE Kept(d, m)
    BY <2>1, <2>2
  <2>3. ASSUME NEW e \in Device, Operator(e) PROVE FALSE
    BY <2>3 DEF Operator, Edit, InheritSafety, SecureErase
  <2>4. ASSUME NEW e \in Device, Start(e) \/ Mark(e) \/ Push(e) \/ Commit(e) PROVE FALSE
    BY <2>4 DEF Start, Mark, Push, Commit, TypeOK
  <2>5. ASSUME NEW e \in Device, Export(e) \/ Crash(e) PROVE Kept(d, m)
    BY <2>2, <2>5 DEF Export, Crash
  <2>6. ASSUME NEW e \in Device, NEW p \in Device, ApplyTombstones(e, p) PROVE Kept(d, m)
    <3>1. e = d
      BY <2>6 DEF ApplyTombstones, TypeOK
    <3>2. row'[d][m] = IF m \in file[p].tombs /\ AcceptsErasure(d, p, m) /\ ~ Held(row[d][m])
                       THEN NoRow ELSE row[d][m]
      BY <2>6, <3>1 DEF ApplyTombstones, TypeOK
    <3>3. row'[d][m] = row[d][m]
      BY <3>2 DEF AcceptsErasure
    <3> QED
      BY <2>2, <3>3
  <2>7. ASSUME NEW e \in Device, ApplyMemories(e) PROVE Kept(d, m)
    <3>1. e = d
      BY <2>7 DEF ApplyMemories, TypeOK
    <3>2. PICK r : r = IF Admits(d, m) THEN Merged(d, m) ELSE row[d][m]
      OBVIOUS
    <3>3. /\ r # NoRow
          /\ Protected(r) <=> Protected(row[d][m])
          /\ row[d][m].trust = "quarantined" => r.trust = "quarantined"
      <4>1. CASE Admits(d, m)
        BY <3>2, <4>1, MergedStaysHeld DEF Admits
      <4>2. CASE ~ Admits(d, m)
        BY <2>1, <3>2, <4>2
      <4> QED
        BY <4>1, <4>2
    <3>4. row'[d][m] = r
      <4> DEFINE applied == [n \in Id |-> IF Admits(d, n) THEN Merged(d, n) ELSE row[d][n]]
      <4>1. applied[m] = r
        BY <3>2
      <4>2. PICK x : row'[d][m] = IF applied[m] = NoRow /\ \E n \in {n \in Memory : Conflicts(d, n)} :
                                       Successor[n] = m
                                  THEN x ELSE applied[m]
        BY <2>7, <3>1 DEF ApplyMemories, TypeOK
      <4> HIDE DEF applied
      <4> QED
        BY <3>3, <4>1, <4>2
    <3> QED
      BY <3>3, <3>4
  <2> QED
    BY <2>3, <2>4, <2>5, <2>6, <2>7 DEF Next, Round
<1> QED
  BY <1>1, ErasureTypeCorrect, PTL DEF Spec, PeersNeverRemoveReviewed

------------------------------------------------------------------------------
\* Erasures are final.

\* What is erased has a tombstone, and the apply that is writing rows knows it,
\* unless the erasure came after it had read the tombstones.
ErasuresKnown ==
  \A d \in Device :
    /\ \A m \in erased[d] : tomb[d][m] # "none"
    /\ pc[d] = "rows" => erased[d] \ late[d] \subseteq live[d]

LEMMA NextKnown ==
  ASSUME TypeOK, ErasuresKnown, [Next]_vars
  PROVE  ErasuresKnown'
<1> SUFFICES ASSUME NEW d \in Device
             PROVE  /\ \A m \in erased'[d] : tomb'[d][m] # "none"
                    /\ pc'[d] = "rows" => erased'[d] \ late'[d] \subseteq live'[d]
  BY DEF ErasuresKnown
<1>0. /\ \A m \in erased[d] : m \in Id /\ tomb[d][m] # "none"
      /\ pc[d] = "rows" => erased[d] \ late[d] \subseteq live[d]
  BY DEF ErasuresKnown, TypeOK
<1> DEFINE Same == /\ erased'[d] = erased[d] /\ tomb'[d] = tomb[d]
                   /\ pc'[d] = "rows" => /\ pc[d] = "rows"
                                         /\ live'[d] = live[d] /\ late'[d] = late[d]
           Known == /\ \A m \in erased'[d] : tomb'[d][m] # "none"
                    /\ pc'[d] = "rows" => erased'[d] \ late'[d] \subseteq live'[d]
<1>1. ASSUME Same PROVE Known
  BY <1>0, <1>1
<1>2. ASSUME NEW e \in Device, NEW n \in Id, Edit(e, n) \/ InheritSafety(e, n) PROVE Same
  BY <1>2 DEF Edit, InheritSafety, history
<1>3. ASSUME NEW e \in Device, NEW n \in Id, SecureErase(e, n) PROVE Known
  <2>1. CASE e # d
    BY <1>1, <1>3, <2>1 DEF SecureErase, TypeOK
  <2>2. CASE e = d
    <3>1. PICK targets : targets = EraseTargets(d, n)
      OBVIOUS
    <3>2. /\ pc' = pc /\ live' = live
          /\ erased'[d] = erased[d] \cup targets
          /\ pc[d] = "rows" => late'[d] = late[d] \cup targets
          /\ \A m \in Id : tomb'[d][m] = IF m \in targets THEN ExportClass(d, m) ELSE tomb[d][m]
      BY <1>3, <2>2, <3>1 DEF SecureErase, TypeOK
    <3>3. targets \subseteq Id
      BY <3>1, ErasureAssumption DEF EraseTargets, Present
    <3>4. \A m \in Id : ExportClass(d, m) # "none"
      BY DEF ExportClass
    <3> QED
      BY <1>0, <3>2, <3>3, <3>4
  <2> QED
    BY <2>1, <2>2
<1>4. ASSUME NEW e \in Device, NEW p \in Device, ApplyTombstones(e, p) PROVE Known
  <2>1. CASE e # d
    BY <1>1, <1>4, <2>1 DEF ApplyTombstones, TypeOK, history
  <2>2. CASE e = d
    <3>1. /\ erased' = erased
          /\ \A m \in Id : tomb'[d][m] \in {tomb[d][m], "remote"}
          /\ live'[d] = {m \in Id : tomb'[d][m] # "none"}
      BY <1>4, <2>2 DEF ApplyTombstones, TypeOK, history
    <3> QED
      BY <1>0, <3>1
  <2> QED
    BY <2>1, <2>2
<1>5. ASSUME NEW e \in Device,
             \/ Start(e) \/ ApplyMemories(e) \/ Export(e) \/ Mark(e) \/ Push(e)
             \/ Commit(e) \/ Crash(e)
      PROVE  Same
  BY <1>5 DEF Start, ApplyMemories, Export, Mark, Push, Commit, Crash, TypeOK, history
<1>6. ASSUME UNCHANGED vars PROVE Same
  BY <1>6 DEF vars
<1> HIDE DEF Same, Known
<1>7. Known
  BY <1>1, <1>2, <1>3, <1>4, <1>5, <1>6 DEF Next, Operator, Round
<1> QED
  BY <1>7 DEF Known

LEMMA KnownHolds == Spec => [](Inv /\ ErasuresKnown)
<1>1. Init => ErasuresKnown
  BY DEF Init, ErasuresKnown
<1>2. Inv /\ ErasuresKnown /\ [Next]_vars => ErasuresKnown'
  BY NextKnown DEF Inv
<1> QED
  BY <1>1, <1>2, InvHolds, PTL DEF Spec

\* What _apply_one leaves of a row that the bundle reaches is a row.
LEMMA MergedIsRow ==
  ASSUME NEW d, NEW m
  PROVE  Merged(d, m) # NoRow
<1>1. PICK in : in = Arrived(m, cur[d].rows[m])
  OBVIOUS
<1>2. \E t \in {"pending", "quarantined"} : \E v : in = [trust |-> t, ver |-> v]
  BY <1>1 DEF Arrived
<1>3. PICK r : r = row[d][m]
  OBVIOUS
<1>4. PICK t : t = IF r.trust = "quarantined" THEN r.trust ELSE in.trust
  OBVIOUS
<1>5. t \in {"pending", "quarantined"}
  BY <1>2, <1>4
<1>6. [in EXCEPT !.trust = t].trust = t
  BY <1>2
<1>7. in # NoRow /\ [in EXCEPT !.trust = t] # NoRow
  BY <1>2, <1>5, <1>6 DEF NoRow
<1>8. Merged(d, m) = IF r = NoRow THEN in
                     ELSE IF in.ver <= r.ver THEN r ELSE [in EXCEPT !.trust = t]
  BY <1>1, <1>3, <1>4 DEF Merged
<1> QED
  BY <1>7, <1>8

\* The rows after the row batches: added or merged, left alone, or, where there
\* is none, a variant preserved from a conflict over a row that is there.
LEMMA AppliedRows ==
  ASSUME TypeOK, NEW d \in Device, ApplyMemories(d), NEW n \in Id
  PROVE  \/ row'[d][n] = IF Admits(d, n) THEN Merged(d, n) ELSE row[d][n]
         \/ row[d][n] = NoRow /\ ~ Admits(d, n) /\ n \in HeldVariants(d)
<1> DEFINE applied == [m \in Id |-> IF Admits(d, m) THEN Merged(d, m) ELSE row[d][m]]
           conflicts == {m \in Memory : Conflicts(d, m)}
<1>1. PICK x : row'[d][n] = IF applied[n] = NoRow /\ \E m \in conflicts : Successor[m] = n
                            THEN x ELSE applied[n]
  BY DEF ApplyMemories, TypeOK
<1>2. applied[n] = IF Admits(d, n) THEN Merged(d, n) ELSE row[d][n]
  OBVIOUS
<1>3. \A m \in conflicts : m \in Memory \cap Present(d)
  BY ErasureAssumption DEF Conflicts, Present
<1>4. (\E m \in conflicts : Successor[m] = n) => n \in HeldVariants(d)
  BY <1>3 DEF HeldVariants
<1> HIDE DEF applied, conflicts
<1> QED
  BY <1>1, <1>2, <1>4, MergedIsRow

\* Rows are written in place, erased, or written by the row batches.
LEMMA RowsAppear ==
  ASSUME TypeOK, ErasuresKnown, Next, NEW d \in Device, NEW m \in erased[d],
         row[d][m] = NoRow, row'[d][m] # NoRow
  PROVE  m \in late[d] \cup HeldVariants(d)
<1>0. m \in Id
  BY DEF TypeOK
<1>1. ASSUME NEW e \in Device, NEW n \in Id, Edit(e, n) \/ InheritSafety(e, n) PROVE FALSE
  <2>1. row[e][n] # NoRow
    BY <1>1 DEF Edit, InheritSafety, Present
  <2>2. PICK x : row' = [row EXCEPT ![e] = [row[e] EXCEPT ![n] = x]]
    <3>1. CASE Edit(e, n)
      BY <3>1 DEF Edit, TypeOK
    <3>2. CASE InheritSafety(e, n)
      BY <3>2 DEF InheritSafety, TypeOK
    <3> QED
      BY <1>1, <3>1, <3>2
  <2>3. row'[d][m] = IF e = d /\ n = m THEN x ELSE row[d][m]
    BY <1>0, <2>2 DEF TypeOK
  <2> QED
    BY <2>1, <2>3
<1>2. ASSUME NEW e \in Device, NEW n \in Id, SecureErase(e, n) PROVE FALSE
  BY <1>0, <1>2 DEF SecureErase, TypeOK
<1>3. ASSUME NEW e \in Device, NEW p \in Device, ApplyTombstones(e, p) PROVE FALSE
  BY <1>0, <1>3 DEF ApplyTombstones, TypeOK
<1>4. ASSUME NEW e \in Device,
             Start(e) \/ Export(e) \/ Mark(e) \/ Push(e) \/ Commit(e) \/ Crash(e)
      PROVE  FALSE
  BY <1>4 DEF Start, Export, Mark, Push, Commit, Crash
<1>5. ASSUME NEW e \in Device, ApplyMemories(e) PROVE m \in late[d] \cup HeldVariants(d)
  <2>1. e = d /\ pc[d] = "rows"
    BY <1>5 DEF ApplyMemories, TypeOK
  <2>2. m \in late[d] \/ m \in live[d]
    BY <2>1 DEF ErasuresKnown
  <2>3. m \in live[d] => ~ Admits(d, m)
    BY DEF Admits
  <2> QED
    BY <1>0, <1>5, <2>1, <2>2, <2>3, AppliedRows
<1> QED
  BY <1>1, <1>2, <1>3, <1>4, <1>5 DEF Next, Operator, Round

\* Tombstones are terminal but for two windows: for any devices, bundles, deaths,
\* edits and erasures at any time, an erased id is stored on its device again
\* only by an apply that had read the tombstones before the erasure
\* (_apply_memories), or as the variant that _preserve_hlc_conflict keeps of a
\* memory that the device still holds.
THEOREM ErasureIsFinal == Spec => ErasedStaysErased
<1>1. Inv /\ ErasuresKnown /\ [Next]_vars
        => [\A d \in Device : (erased[d] \cap Present(d)') \ Present(d)
                                \subseteq late[d] \cup HeldVariants(d)]_vars
  <2> SUFFICES ASSUME Inv, ErasuresKnown, Next, NEW d \in Device,
                      NEW m \in (erased[d] \cap Present(d)') \ Present(d)
               PROVE  m \in late[d] \cup HeldVariants(d)
    OBVIOUS
  <2>1. TypeOK /\ m \in erased[d] /\ row[d][m] = NoRow /\ row'[d][m] # NoRow
    BY DEF Inv, Present
  <2> QED
    BY <2>1, RowsAppear
<1> QED
  BY <1>1, KnownHolds, PTL DEF Spec, ErasedStaysErased

------------------------------------------------------------------------------
\* The export class.

\* Content has left the device only if a marker says so, the round that pushed
\* it is about to commit one, or that round died.
SentIsMarked ==
  \A d \in Device :
    sent[d] \subseteq marked[d] \cup unmarked[d]
                        \cup (IF pc[d] = "commit" THEN Content(cur[d]) ELSE {})

LEMMA NextMarked ==
  ASSUME TypeOK, SentIsMarked, [Next]_vars
  PROVE  SentIsMarked'
<1> DEFINE Marked(d) == sent[d] \subseteq marked[d] \cup unmarked[d]
                          \cup (IF pc[d] = "commit" THEN Content(cur[d]) ELSE {})
<1> SUFFICES ASSUME NEW d \in Device PROVE Marked(d)'
  BY DEF SentIsMarked
<1>0. Marked(d)
  BY DEF SentIsMarked
<1> DEFINE Same == /\ sent'[d] = sent[d] /\ marked'[d] = marked[d] /\ unmarked'[d] = unmarked[d]
                   /\ pc[d] = "commit" => pc'[d] = "commit" /\ cur'[d] = cur[d]
<1>1. ASSUME Same PROVE Marked(d)'
  BY <1>0, <1>1 DEF Content
<1>2. ASSUME NEW e \in Device, Operator(e) PROVE Same
  BY <1>2 DEF Operator, Edit, InheritSafety, SecureErase, history
<1>3. ASSUME NEW e \in Device,
             \/ Start(e) \/ ApplyMemories(e) \/ Export(e) \/ Mark(e)
             \/ \E p \in Device : ApplyTombstones(e, p)
      PROVE  Same
  BY <1>3 DEF Start, ApplyTombstones, ApplyMemories, Export, Mark, TypeOK, history
<1>4. ASSUME NEW e \in Device, Push(e) \/ Commit(e) \/ Crash(e), e # d PROVE Same
  BY <1>4 DEF Push, Commit, Crash, TypeOK
<1>5. ASSUME Push(d) PROVE Marked(d)'
  BY <1>0, <1>5 DEF Push, TypeOK, Content
<1>6. ASSUME Commit(d) PROVE Marked(d)'
  BY <1>0, <1>6 DEF Commit, TypeOK
<1>7. ASSUME Crash(d) PROVE Marked(d)'
  BY <1>0, <1>7 DEF Crash, TypeOK
<1>8. ASSUME UNCHANGED vars PROVE Same
  BY <1>8 DEF vars
<1> HIDE DEF Same, Marked
<1> QED
  BY <1>1, <1>2, <1>3, <1>4, <1>5, <1>6, <1>7, <1>8 DEF Next, Round

LEMMA NextNeverSent ==
  ASSUME Inv, SentIsMarked, NeverExportNeverSent, [Next]_vars,
         NEW d \in Device, NEW m \in Id,
         m \in sent'[d], row'[d][m] = NoRow, tomb'[d][m] = "never"
  PROVE  m \in unmarked'[d]
<1>t. TypeOK
  BY DEF Inv
<1>1. ASSUME m \in sent[d], row[d][m] = NoRow, tomb[d][m] = "never", unmarked'[d] = unmarked[d]
      PROVE  m \in unmarked'[d]
  BY <1>1 DEF NeverExportNeverSent, Present
<1>r. NoRow \notin Row
  BY DEF NoRow, Row, Trust
<1>2. ASSUME NEW e \in Device, NEW n \in Id, Edit(e, n) \/ InheritSafety(e, n)
      PROVE  m \in unmarked'[d]
  <2>1. row[e][n] \in Row /\ UNCHANGED <<sent, tomb, unmarked>>
    BY <1>2, <1>t DEF Edit, InheritSafety, Present, TypeOK, history
  <2>2. PICK x \in Row : row' = [row EXCEPT ![e] = [row[e] EXCEPT ![n] = x]]
    <3>1. CASE Edit(e, n)
      <4>1. [row[e][n] EXCEPT !.ver = e] \in Row
        BY <2>1, ErasureAssumption DEF Row, Version, Device
      <4> QED
        BY <1>t, <3>1, <4>1 DEF Edit, TypeOK
    <3>2. CASE InheritSafety(e, n)
      <4>1. [row[e][n] EXCEPT !.trust = "secret"] \in Row
        BY <2>1 DEF Row, Trust
      <4> QED
        BY <1>t, <3>2, <4>1 DEF InheritSafety, TypeOK
    <3> QED
      BY <1>2, <3>1, <3>2
  <2>3. row'[d][m] = IF e = d /\ n = m THEN x ELSE row[d][m]
    BY <1>t, <2>2 DEF TypeOK
  <2> QED
    BY <1>1, <1>r, <2>1, <2>3
<1>3. ASSUME NEW e \in Device, NEW n \in Id, SecureErase(e, n) PROVE m \in unmarked'[d]
  <2>1. sent' = sent /\ unmarked' = unmarked
    BY <1>3 DEF SecureErase
  <2>2. CASE e # d
    BY <1>1, <1>3, <1>t, <2>1, <2>2 DEF SecureErase, TypeOK
  <2>3. CASE e = d
    <3>1. /\ pc[d] # "commit"
          /\ tomb'[d][m] = IF m \in EraseTargets(d, n) THEN ExportClass(d, m) ELSE tomb[d][m]
          /\ row'[d][m] = IF m \in EraseTargets(d, n) THEN NoRow ELSE row[d][m]
      BY <1>3, <1>t, <2>3 DEF SecureErase, Locked, TypeOK
    <3>2. CASE m \in EraseTargets(d, n)
      <4>1. m \notin marked[d]
        BY <3>1, <3>2 DEF ExportClass
      <4> QED
        BY <2>1, <3>1, <4>1 DEF SentIsMarked
    <3>3. CASE m \notin EraseTargets(d, n)
      BY <1>1, <2>1, <3>1, <3>3
    <3> QED
      BY <3>2, <3>3
  <2> QED
    BY <2>2, <2>3
<1>4. ASSUME NEW e \in Device, NEW p \in Device, ApplyTombstones(e, p)
      PROVE  m \in unmarked'[d]
  <2>1. /\ sent' = sent /\ unmarked' = unmarked
        /\ \/ tomb'[d][m] = "remote"
           \/ tomb'[d][m] = tomb[d][m] /\ row'[d][m] = row[d][m]
    BY <1>4, <1>t DEF ApplyTombstones, TypeOK, history
  <2> QED
    BY <1>1, <2>1
<1>5. ASSUME NEW e \in Device, ApplyMemories(e) PROVE m \in unmarked'[d]
  <2>1. UNCHANGED <<sent, tomb, unmarked>>
    BY <1>5 DEF ApplyMemories
  <2>2. e # d => row'[d][m] = row[d][m]
    BY <1>5, <1>t DEF ApplyMemories, TypeOK
  <2>3. e = d => row[d][m] = NoRow
    BY <1>5, <1>t, AppliedRows, MergedIsRow
  <2> QED
    BY <1>1, <2>1, <2>2, <2>3
<1>6. ASSUME NEW e \in Device, Start(e) \/ Export(e) \/ Mark(e) PROVE m \in unmarked'[d]
  BY <1>1, <1>6 DEF Start, Export, Mark, history
<1>7. ASSUME NEW e \in Device, Push(e) \/ Commit(e) PROVE m \in unmarked'[d]
  <2>1. tomb' = tomb /\ row' = row /\ Locked(e)
    BY <1>7 DEF Push, Commit, Locked
  <2>2. CASE e # d
    BY <1>1, <1>7, <1>t, <2>1, <2>2 DEF Push, Commit, TypeOK
  <2>3. CASE e = d
    <3>1. ~ Shareable(row[d][m])
      BY <2>1 DEF Shareable, NoRow
    <3>2. m \notin Content(cur[d])
      BY <2>1, <2>3, <3>1 DEF Inv, CheckedRowsStay
    <3>3. sent'[d] \subseteq sent[d] \cup Content(cur[d])
      BY <1>7, <1>t, <2>3 DEF Push, Commit, TypeOK
    <3>4. unmarked[d] \ Content(cur[d]) \subseteq unmarked'[d]
      BY <1>7, <1>t, <2>3 DEF Push, Commit, TypeOK
    <3>5. m \in unmarked[d]
      BY <2>1, <3>2, <3>3 DEF NeverExportNeverSent, Present
    <3> QED
      BY <3>2, <3>4, <3>5
  <2> QED
    BY <2>2, <2>3
<1>8. ASSUME NEW e \in Device, Crash(e) PROVE m \in unmarked'[d]
  <2>1. sent' = sent /\ tomb' = tomb /\ row' = row /\ unmarked[d] \subseteq unmarked'[d]
    BY <1>8, <1>t DEF Crash, TypeOK
  <2> QED
    BY <2>1 DEF NeverExportNeverSent, Present
<1>9. ASSUME UNCHANGED vars PROVE m \in unmarked'[d]
  BY <1>1, <1>9 DEF vars
<1> QED
  BY <1>2, <1>3, <1>4, <1>5, <1>6, <1>7, <1>8, <1>9 DEF Next, Operator, Round

\* A never_export tombstone of a row that is gone means that no file of the device
\* held the content, other than one of a round that died between transport.push
\* and the commit of its markers: with erasures at any time, edits of the same
\* instant, rows that come back and any number of deaths.
THEOREM NeverExportIsKept == Spec => []NeverExportNeverSent
<1>1. Init => SentIsMarked /\ NeverExportNeverSent
  BY DEF Init, SentIsMarked, NeverExportNeverSent
<1>2. Inv /\ SentIsMarked /\ [Next]_vars => SentIsMarked'
  BY NextMarked DEF Inv
<1>3. Inv /\ Inv' /\ SentIsMarked /\ NeverExportNeverSent /\ [Next]_vars
        => NeverExportNeverSent'
  <2> SUFFICES ASSUME Inv, Inv', SentIsMarked, NeverExportNeverSent, [Next]_vars,
                      NEW d \in Device, NEW m \in sent'[d] \ Present(d)', tomb'[d][m] = "never"
               PROVE  m \in unmarked'[d]
    BY DEF NeverExportNeverSent
  <2>1. m \in Id
    BY DEF Inv, TypeOK
  <2>2. row'[d][m] = NoRow
    BY <2>1 DEF Present
  <2> QED
    BY <2>1, <2>2, NextNeverSent
<1> QED
  BY <1>1, <1>2, <1>3, InvHolds, PTL DEF Spec

==============================================================================
