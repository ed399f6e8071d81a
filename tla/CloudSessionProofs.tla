------------------------- MODULE CloudSessionProofs -------------------------
(* Proofs about CloudSession, for any number of workers and of dashboards among *)
(* them, any supply of credentials and any number of lost answers, failed       *)
(* saves, deaths, connects and changes of billing.                              *)
EXTENDS CloudSession, WellFoundedInduction, TLAPS

\* A worker between the request and the save of its answer.
Held == {"post", "save", "retire", "refused"}

Boot == \E q \in Process : pc[q] = "bootstrap"

\* Such a worker has the lock, and what it presented is what is saved, unless
\* nothing is and it presented the environment's.
Holds ==
  \A p \in Process :
    /\ pc[p] \in Held <=> lock = p
    /\ pc[p] \in Held => /\ tok[p] \in Cred
                         /\ tok[p] = file.cred \/ (file.cred = None /\ tok[p] = Env)
    /\ pc[p] = "save" => got[p].cred \in Cred

\* An operator's connect has the only copy of the current credential: nobody
\* rotates it until it is saved.
Boots ==
  \A q \in Process : pc[q] = "bootstrap" =>
    /\ \A p \in Process : pc[p] = "bootstrap" => p = q
    /\ got[q].cred = cur
    /\ cur # Env /\ cur # file.cred
    /\ \A p \in Process : tok[p] # cur /\ (p # q => got[p].cred # cur)
    /\ spent = {}

\* What is saved, or about to be, is current or was orphaned by a failure.
Saved ==
  ~ Boot =>
    /\ (\A p \in Process : pc[p] \notin {"save", "retire"})
         => file.cred \in {None, cur} \cup orphan
    /\ \A p \in Process : pc[p] = "save" => got[p].cred \in {cur} \cup orphan

IInv == TypeOK /\ Holds /\ Boots /\ cur \notin spent /\ Saved

------------------------------------------------------------------------------
LEMMA SmallestExists ==
  ASSUME NEW S \in SUBSET Nat, S # {}
  PROVE  \E n \in S : \A m \in S : n <= m
<1>1. PICK n \in S : \A m \in S : ~ (<<m, n>> \in OpToRel(<, Nat))
  BY NatLessThanWellFounded, WFMin, Zenon
<1>2. \A m \in S : ~ (m < n)
  BY <1>1 DEF OpToRel
<1> QED BY <1>2

\* What the control plane issues, nobody has.
LEMMA FreshIsNew ==
  ASSUME CanIssue
  PROVE  /\ Fresh \in Cred
         /\ Fresh # cur /\ Fresh # Env /\ Fresh # file.cred /\ Fresh \notin orphan
         /\ \A p \in Process : Fresh # tok[p] /\ Fresh # got[p].cred
         /\ Fresh \notin Remembered
<1>1. PICK S : S = Cred \ Remembered
  OBVIOUS
<1>2. S \in SUBSET Nat /\ S # {}
  BY <1>1 DEF CanIssue, Cred
<1>3. \E n \in S : \A m \in S : n <= m
  BY <1>2, SmallestExists
<1>4. Min(S) \in S
  BY <1>3 DEF Min
<1>5. Fresh \in Cred /\ Fresh \notin Remembered
  BY <1>1, <1>4 DEF Fresh
<1> QED BY <1>5 DEF Remembered

LEMMA Constants ==
  /\ Free \notin Process /\ None \notin Cred /\ Env \in Cred \cup {None}
  /\ Cred \subseteq Nat /\ NoAnswer \in Answer /\ NoAnswer.cred = None
  /\ NoRead \in Read /\ NoDigest \notin Session
  BY CloudAssumption DEF Cred, None, NoAnswer, Answer, NoRead, Read, NoDigest, Session

LEMMA SessionFields ==
  ASSUME NEW f \in Session
  PROVE  /\ f.cred \in Cred \cup {None} /\ f.dead \in Cred \cup {None} /\ f.active \in BOOLEAN
         /\ \A c \in Cred \cup {None} :
              LET g == [f EXCEPT !.cred = None, !.dead = c]
              IN g \in Session /\ g.cred = None /\ g.active = f.active
         /\ LET g == [f EXCEPT !.active = FALSE]
            IN g \in Session /\ g.cred = f.cred /\ g.active = FALSE
  BY DEF Session

LEMMA AnswerFields ==
  ASSUME NEW a \in Answer
  PROVE  /\ a.cred \in Cred \cup {None} /\ a.active \in BOOLEAN
         /\ LET f == [cred |-> a.cred, dead |-> None, active |-> a.active]
            IN f \in Session /\ f.cred = a.cred
  BY DEF Answer, Session

------------------------------------------------------------------------------
LEMMA InitInv == Init => IInv
<1> SUFFICES ASSUME Init PROVE IInv
  OBVIOUS
<1>0. 1 \in Cred
  BY CloudAssumption DEF Cred
<1>1. cur \in Cred /\ file.cred \in {None, cur} /\ file \in Session
  BY <1>0, Constants DEF Init, Session
<1>2. TypeOK
  BY <1>1, Constants, CloudAssumption DEF Init, TypeOK, PC
<1>3. Holds
  BY Constants DEF Init, Holds, Held
<1>4. Boots /\ cur \notin spent /\ Saved
  BY <1>1 DEF Init, Boots, Boot, Saved
<1> QED BY <1>2, <1>3, <1>4 DEF IInv

\* A step of p that leaves the lock where it is, or lets it go.
LEMMA LockType ==
  ASSUME TypeOK, NEW p \in Process, NEW l \in PC, Goto(p, l),
         \/ lock = p /\ lock' \in {Free, IF l \in Held THEN p ELSE Free}
         \/ lock # p /\ lock' = lock
  PROVE  /\ pc' \in [Process -> PC]
         /\ lock' \in {Free} \cup {q \in Process : pc'[q] \in {"post", "save", "retire", "refused"}}
<1>1. pc' \in [Process -> PC] /\ pc'[p] = l /\ \A q \in Process \ {p} : pc'[q] = pc[q]
  BY DEF TypeOK, Goto
<1> QED BY <1>1 DEF TypeOK, Held

LEMMA DeniedIs ==
  ASSUME TypeOK, NEW p \in Process, Denied(p)
  PROVE  /\ \E l \in {"mark", "idle"} : Goto(p, l) /\ l \in PC
         /\ older' \subseteq Process
  BY DEF Denied, TypeOK, PC

\* The steps of a refresh under the lock keep the types.
LEMMA RefreshTypes ==
  ASSUME IInv, NEW p \in Process,
         \/ BeginRefresh(p) \/ Rotated(p) \/ NoAnswerTo(p) \/ Unreachable(p) \/ Lapsed(p)
         \/ Refused(p) \/ SaveRotation(p) \/ SaveFails(p) \/ Retire(p)
  PROVE  TypeOK'
<1> USE Constants DEF IInv
<1>0. TypeOK
  OBVIOUS
<1>1. CASE BeginRefresh(p)
  <2>1. Selected \in Cred
    BY <1>1, SessionFields DEF BeginRefresh, Connected, Selected, TypeOK
  <2>2. pc' = [pc EXCEPT ![p] = "post"] /\ lock' = p
    BY <1>1 DEF BeginRefresh, Goto
  <2>3. /\ pc' \in [Process -> PC]
        /\ lock' \in {Free} \cup {q \in Process : pc'[q] \in {"post", "save", "retire", "refused"}}
    BY <2>2 DEF TypeOK, PC
  <2>4. tok' \in [Process -> Cred \cup {None}]
    BY <1>1, <2>1 DEF BeginRefresh, TypeOK
  <2> QED BY <1>1, <2>3, <2>4 DEF BeginRefresh, TypeOK, cloud, denial, license
<1>2. CASE Rotated(p)
  <2>1. /\ pc' \in [Process -> PC]
        /\ lock' \in {Free} \cup {q \in Process : pc'[q] \in {"post", "save", "retire", "refused"}}
    BY <1>2, LockType DEF Rotated, PC, Held
  <2>2. [cred |-> Fresh, active |-> TRUE] \in Answer /\ cur' \in Cred /\ spent' \subseteq Cred
    BY <1>2, FreshIsNew DEF Rotated, CloudRotates, Answer, TypeOK
  <2>3. got' \in [Process -> Answer]
    BY <1>2, <2>2 DEF Rotated, TypeOK
  <2> QED BY <1>2, <2>1, <2>2, <2>3 DEF Rotated, CloudRotates, TypeOK, denial, license
<1>3. CASE NoAnswerTo(p)
  <2>1. /\ pc' \in [Process -> PC]
        /\ lock' \in {Free} \cup {q \in Process : pc'[q] \in {"post", "save", "retire", "refused"}}
    BY <1>3, LockType DEF NoAnswerTo, MaybeSpent, PC, Held
  <2>2. cur' \in Cred /\ spent' \subseteq Cred /\ billing' = billing /\ family' = family
    BY <1>3, FreshIsNew DEF NoAnswerTo, CloudRotates, cloud, TypeOK
  <2>3. events' \in 0..MaxEvents
    BY <1>3, CloudAssumption DEF NoAnswerTo, Happens, TypeOK
  <2> QED BY <1>3, <2>1, <2>2, <2>3 DEF NoAnswerTo, TypeOK, denial, license
<1>4. CASE Unreachable(p)
  <2>1. /\ pc' \in [Process -> PC]
        /\ lock' \in {Free} \cup {q \in Process : pc'[q] \in {"post", "save", "retire", "refused"}}
    BY <1>4, LockType DEF Unreachable, Release, PC, Held
  <2>2. events' \in 0..MaxEvents
    BY <1>4, CloudAssumption DEF Unreachable, Happens, TypeOK
  <2> QED BY <1>4, <2>1, <2>2 DEF Unreachable, TypeOK, cloud, denial, license
<1>5. CASE Lapsed(p)
  <2>1. PICK l \in {"mark", "idle"} : Goto(p, l) /\ l \in PC
    BY <1>5, DeniedIs DEF Lapsed
  <2>2. /\ pc' \in [Process -> PC]
        /\ lock' \in {Free} \cup {q \in Process : pc'[q] \in {"post", "save", "retire", "refused"}}
    BY <1>5, <2>1, LockType DEF Lapsed, Release, Held
  <2>3. older' \subseteq Process /\ tok' \in [Process -> Cred \cup {None}]
                                 /\ got' \in [Process -> Answer]
    BY <1>5, DeniedIs DEF Lapsed, Ended, TypeOK
  <2> QED BY <1>5, <2>2, <2>3 DEF Lapsed, TypeOK, cloud, denial, license
<1>6. CASE Refused(p)
  <2>1. /\ pc' \in [Process -> PC]
        /\ lock' \in {Free} \cup {q \in Process : pc'[q] \in {"post", "save", "retire", "refused"}}
    BY <1>6, LockType DEF Refused, PC, Held
  <2> QED BY <1>6, <2>1 DEF Refused, TypeOK, denial, license
<1>7. CASE SaveRotation(p)
  <2>1. /\ pc' \in [Process -> PC]
        /\ lock' \in {Free} \cup {q \in Process : pc'[q] \in {"post", "save", "retire", "refused"}}
    BY <1>7, LockType DEF SaveRotation, Release, PC, Held
  <2>2. file' \in Session
    BY <1>7, AnswerFields DEF SaveRotation, TypeOK
  <2>3. /\ fence' \in [Process -> SUBSET Cred] /\ orphan' \subseteq Cred
        /\ older' \subseteq Process /\ tok' \in [Process -> Cred \cup {None}]
        /\ got' \in [Process -> Answer]
    BY <1>7 DEF SaveRotation, Ended, TypeOK
  <2> QED BY <1>7, <2>1, <2>2, <2>3 DEF SaveRotation, TypeOK, cloud, denial, license
<1>8. CASE SaveFails(p)
  <2>1. /\ pc' \in [Process -> PC]
        /\ lock' \in {Free} \cup {q \in Process : pc'[q] \in {"post", "save", "retire", "refused"}}
    BY <1>8, LockType DEF SaveFails, PC, Held
  <2>2. events' \in 0..MaxEvents
    BY <1>8, CloudAssumption DEF SaveFails, Happens, TypeOK
  <2>3. tok[p] \in Cred
    BY <1>8 DEF SaveFails, Holds, Held
  <2>4. fence' \in [Process -> SUBSET Cred]
    BY <1>8, <2>3 DEF SaveFails, TypeOK
  <2> QED BY <1>8, <2>1, <2>2, <2>4 DEF SaveFails, TypeOK, cloud, denial, license
<1>9. CASE Retire(p)
  <2>1. PICK l \in {"mark", "idle"} : Goto(p, l) /\ l \in PC
    BY <1>9, DeniedIs DEF Retire, PC
  <2>2. /\ pc' \in [Process -> PC]
        /\ lock' \in {Free} \cup {q \in Process : pc'[q] \in {"post", "save", "retire", "refused"}}
    BY <1>9, <2>1, LockType DEF Retire, Release, Held
  <2>3. tok[p] \in Cred
    BY <1>9 DEF Retire, Holds, Held
  <2>4. RetiredRecord(p) \in Session
    BY <2>3, SessionFields DEF RetiredRecord, TypeOK
  <2>5. file' \in Session /\ orphan' \subseteq Cred /\ older' \subseteq Process
    BY <1>9, <2>3, <2>4, DeniedIs DEF Retire, TypeOK
  <2>6. events' \in 0..MaxEvents
    BY <1>9, CloudAssumption DEF Retire, Happens, TypeOK
  <2>7. /\ fence' \in [Process -> SUBSET Cred] /\ tok' \in [Process -> Cred \cup {None}]
        /\ got' \in [Process -> Answer]
    BY <1>9, <2>3 DEF Retire, Ended, TypeOK
  <2> QED BY <1>9, <2>2, <2>5, <2>6, <2>7 DEF Retire, TypeOK, cloud, denial, license
<1> QED BY <1>1, <1>2, <1>3, <1>4, <1>5, <1>6, <1>7, <1>8, <1>9

\* So do the denials, the reads of the license, the connects and the faults.
LEMMA OtherTypes ==
  ASSUME IInv, NEW p \in Process,
         \/ NotConnected(p) \/ Mark(p) \/ Probe(p) \/ Deny(p) \/ ReadLicense(p)
         \/ AnswerLicense(p) \/ Connect(p) \/ SaveBootstrap(p) \/ Crash(p)
  PROVE  TypeOK'
<1> USE Constants DEF IInv
<1>1. CASE NotConnected(p)
  <2>1. PICK l \in {"mark", "idle"} : Goto(p, l) /\ l \in PC
    BY <1>1, DeniedIs DEF NotConnected
  <2>2. lock # p /\ lock' = lock
    BY <1>1 DEF NotConnected, Holds, Held
  <2>3. /\ pc' \in [Process -> PC]
        /\ lock' \in {Free} \cup {q \in Process : pc'[q] \in {"post", "save", "retire", "refused"}}
    BY <2>1, <2>2, LockType
  <2> QED BY <1>1, <2>3, DeniedIs DEF NotConnected, TypeOK, cloud, denial, license
<1>2. CASE Mark(p)
  <2>1. /\ pc' \in [Process -> PC]
        /\ lock' \in {Free} \cup {q \in Process : pc'[q] \in {"post", "save", "retire", "refused"}}
    BY <1>2, LockType DEF Mark, PC, Holds, Held
  <2>2. guard' \in [Process -> BOOLEAN] /\ base' \in [Process -> Session \cup {NoDigest}]
    BY <1>2 DEF Mark, TypeOK
  <2> QED BY <1>2, <2>1, <2>2 DEF Mark, TypeOK, cloud, license
<1>3. CASE Probe(p)
  <2>1. /\ pc' \in [Process -> PC]
        /\ lock' \in {Free} \cup {q \in Process : pc'[q] \in {"post", "save", "retire", "refused"}}
    BY <1>3, LockType DEF Probe, PC, Holds, Held
  <2>2. base' \in [Process -> Session \cup {NoDigest}]
    BY <1>3 DEF Probe, TypeOK
  <2> QED BY <1>3, <2>1, <2>2 DEF Probe, TypeOK, cloud, license
<1>4. CASE Deny(p)
  <2>1. /\ pc' \in [Process -> PC]
        /\ lock' \in {Free} \cup {q \in Process : pc'[q] \in {"post", "save", "retire", "refused"}}
    BY <1>4, LockType DEF Deny, PC, Holds, Held
  <2>2. file' \in Session
    BY <1>4, SessionFields DEF Deny, TypeOK
  <2>3. events' \in 0..MaxEvents
    BY <1>4, CloudAssumption DEF Deny, Happens, TypeOK
  <2> QED BY <1>4, <2>1, <2>2, <2>3 DEF Deny, TypeOK, cloud, denial, license
<1>5. CASE ReadLicense(p)
  <2>1. view' \in [Process -> BOOLEAN]
    <3>1. PICK b \in BOOLEAN : view' = view \/ view' = [view EXCEPT ![p] = b]
      <4>1. (Connected(p) /\ file.active) \in BOOLEAN
        OBVIOUS
      <4> QED BY <1>5, <4>1, Zenon DEF ReadLicense
    <3>2. view \in [Process -> BOOLEAN]
      BY DEF TypeOK
    <3> QED BY <3>1, <3>2
  <2>2. snap' \in [Process -> Read]
    <3>1. base[p] \in Session \cup {NoDigest} /\ file \in Session
      BY DEF TypeOK
    <3>2. [session |-> file, old |-> p \in older, baseline |-> base[p]] \in Read
      BY <3>1 DEF Read
    <3> QED BY <1>5, <3>2 DEF ReadLicense, TypeOK
  <2> QED BY <1>5, <2>1, <2>2 DEF ReadLicense, TypeOK, cloud, denial
<1>6. CASE AnswerLicense(p)
  <2>1. Supersedes(p) \in BOOLEAN
    BY DEF Supersedes, TypeOK
  <2>2. view' \in [Process -> BOOLEAN] /\ snap' \in [Process -> Read]
    BY <1>6, <2>1 DEF AnswerLicense, TypeOK
  <2>3. /\ guard' \in [Process -> BOOLEAN] /\ base' \in [Process -> Session \cup {NoDigest}]
        /\ older' \subseteq Process
    BY <1>6 DEF AnswerLicense, TypeOK, denial
  <2> QED BY <1>6, <2>2, <2>3 DEF AnswerLicense, TypeOK, cloud
<1>7. CASE Connect(p)
  <2>1. /\ pc' \in [Process -> PC]
        /\ lock' \in {Free} \cup {q \in Process : pc'[q] \in {"post", "save", "retire", "refused"}}
    BY <1>7, LockType DEF Connect, PC, Holds, Held
  <2>2. [cred |-> Fresh, active |-> billing] \in Answer /\ cur' \in Cred
    BY <1>7, FreshIsNew DEF Connect, Answer, TypeOK
  <2>3. got' \in [Process -> Answer]
    BY <1>7, <2>2 DEF Connect, TypeOK
  <2>4. events' \in 0..MaxEvents
    BY <1>7, CloudAssumption DEF Connect, Happens, TypeOK
  <2> QED BY <1>7, <2>1, <2>2, <2>3, <2>4 DEF Connect, TypeOK, denial, license
<1>8. CASE SaveBootstrap(p)
  <2>1. /\ pc' \in [Process -> PC]
        /\ lock' \in {Free} \cup {q \in Process : pc'[q] \in {"post", "save", "retire", "refused"}}
    BY <1>8, LockType DEF SaveBootstrap, PC, Holds, Held
  <2>2. file' \in Session
    BY <1>8, AnswerFields DEF SaveBootstrap, TypeOK
  <2>3. /\ fence' \in [Process -> SUBSET Cred] /\ orphan' \subseteq Cred
        /\ older' \subseteq Process /\ tok' \in [Process -> Cred \cup {None}]
        /\ got' \in [Process -> Answer]
    BY <1>8 DEF SaveBootstrap, Ended, TypeOK
  <2> QED BY <1>8, <2>1, <2>2, <2>3 DEF SaveBootstrap, TypeOK, cloud, denial, license
<1>9. CASE Crash(p)
  <2>1. /\ pc' \in [Process -> PC]
        /\ lock' \in {Free} \cup {q \in Process : pc'[q] \in {"post", "save", "retire", "refused"}}
    BY <1>9, LockType DEF Crash, Release, PC
  <2>2. file.cred \in Cred \cup {None} /\ \A q \in Process : got[q].cred \in Cred \cup {None}
    BY SessionFields, AnswerFields DEF TypeOK
  <2>3. orphan' \subseteq Cred
    <3>1. \A c \in orphan' : \/ c \in orphan
                             \/ c # None /\ (c = file.cred \/ \E q \in Process : c = got[q].cred)
      BY <1>9 DEF Crash
    <3>2. orphan \subseteq Cred
      BY DEF TypeOK
    <3>3. \A c \in orphan' : c \in Cred
      BY <2>2, <3>1, <3>2
    <3> QED BY <3>3
  <2>4. /\ fence' \in [Process -> SUBSET Cred] /\ tok' \in [Process -> Cred \cup {None}]
        /\ got' \in [Process -> Answer]
    BY <1>9 DEF Crash, Ended, TypeOK
  <2>5. /\ guard' \in [Process -> BOOLEAN] /\ base' \in [Process -> Session \cup {NoDigest}]
        /\ view' \in [Process -> BOOLEAN] /\ snap' \in [Process -> Read]
        /\ older' \subseteq Process
    BY <1>9 DEF Crash, TypeOK
  <2>6. events' \in 0..MaxEvents
    BY <1>9, CloudAssumption DEF Crash, Happens, TypeOK
  <2> QED BY <1>9, <2>1, <2>3, <2>4, <2>5, <2>6 DEF Crash, TypeOK, cloud
<1> QED BY <1>1, <1>2, <1>3, <1>4, <1>5, <1>6, <1>7, <1>8, <1>9

------------------------------------------------------------------------------
\* What a step of p does to the workers: p is at l then, presents t and has the
\* answer g; the others are where they were.
Moves(p, l, t, g) ==
  /\ pc'[p] = l /\ tok'[p] = t /\ got'[p] = g
  /\ \A q \in Process \ {p} : pc'[q] = pc[q] /\ tok'[q] = tok[q] /\ got'[q] = got[q]

\* The rest of the invariant.
Rest == Holds /\ Boots /\ cur \notin spent /\ Saved

LEMMA BeginRest ==
  ASSUME IInv, NEW p \in Process, BeginRefresh(p)
  PROVE  Rest'
<1> USE Constants DEF IInv
<1>1. /\ pc[p] = "idle" /\ lock = Free /\ lock' = p
      /\ Selected # None /\ Moves(p, "post", Selected, got[p])
      /\ cur' = cur /\ spent' = spent /\ file' = file /\ orphan' = orphan
  BY DEF BeginRefresh, Connected, Goto, Moves, TypeOK, cloud
<1>2. \A q \in Process : pc[q] \notin Held
  BY <1>1 DEF Holds
<1>3. /\ file.cred \in Cred \cup {None} /\ Selected \in Cred
      /\ Selected = file.cred \/ (file.cred = None /\ Selected = Env)
  BY <1>1, SessionFields DEF TypeOK, Selected
<1>4. Holds'
  BY <1>1, <1>2, <1>3 DEF Holds, Held, Moves
<1>5. Boots'
  BY <1>1, <1>3 DEF Boots, Moves
<1>6. Saved'
  BY <1>1, <1>2 DEF Saved, Boot, Moves, Held
<1> QED BY <1>1, <1>4, <1>5, <1>6 DEF Rest

\* The control plane rotates for the worker with the lock, which then has the
\* answer, or has not.
LEMMA RotatesRest ==
  ASSUME IInv, NEW p \in Process, Rotated(p) \/ (NoAnswerTo(p) /\ CloudRotates(p))
  PROVE  Rest'
<1> USE Constants DEF IInv
<1>1. /\ pc[p] = "post" /\ lock = p /\ lock' = lock
      /\ tok[p] = cur /\ CanIssue /\ cur' = Fresh /\ cur' \notin spent'
      /\ file' = file /\ orphan' = orphan
  BY FreshIsNew DEF Rotated, NoAnswerTo, MaybeSpent, CloudRotates, Holds, Held
<1>2. \/ Moves(p, "save", tok[p], [cred |-> Fresh, active |-> TRUE])
      \/ Moves(p, "retire", tok[p], got[p])
  BY DEF Rotated, NoAnswerTo, MaybeSpent, Goto, Moves, TypeOK
<1>3. PICK l, g : /\ l \in {"save", "retire"}
                   /\ Moves(p, l, tok[p], g)
                   /\ (l = "save" => g.cred = Fresh)
  BY <1>2
<1>4. \A q \in Process \ {p} : pc[q] \notin Held
  BY <1>1 DEF Holds
<1>5. ~ Boot
  BY <1>1 DEF Boots, Boot
<1>6. Holds'
  BY <1>1, <1>3, <1>4, FreshIsNew DEF Holds, Held, Moves
<1>7. Boots'
  BY <1>3, <1>5 DEF Boots, Boot, Moves
<1>8. Saved'
  BY <1>1, <1>3, <1>4 DEF Saved, Boot, Moves, Held
<1> QED BY <1>1, <1>6, <1>7, <1>8 DEF Rest

\* Nothing was rotated: the worker lets the lock go, or keeps it to retire the
\* credential.
LEMMA UnrotatedRest ==
  ASSUME IInv, NEW p \in Process,
         \/ NoAnswerTo(p) /\ UNCHANGED cloud
         \/ Unreachable(p) \/ Lapsed(p) \/ Refused(p)
  PROVE  Rest'
<1> USE Constants DEF IInv
<1>1. /\ pc[p] = "post" /\ lock = p
      /\ cur' = cur /\ spent' = spent /\ file' = file /\ orphan' = orphan
  BY DEF NoAnswerTo, Unreachable, Lapsed, Refused, cloud, Holds, Held
<1>2. PICK l \in {"retire", "idle", "mark", "refused"}, t \in {tok[p], None}, g \in {got[p], NoAnswer} :
        /\ Moves(p, l, t, g)
        /\ l \in {"retire", "refused"} => lock' = p /\ t = tok[p]
        /\ l \in {"idle", "mark"} => lock' = Free
  <2>1. CASE NoAnswerTo(p) \/ Refused(p)
    <3>1. Moves(p, "retire", tok[p], got[p]) \/ Moves(p, "refused", tok[p], got[p])
      BY <2>1 DEF NoAnswerTo, Refused, MaybeSpent, Goto, Moves, TypeOK
    <3>2. lock' = p
      BY <1>1, <2>1 DEF NoAnswerTo, Refused, MaybeSpent
    <3> QED BY <3>1, <3>2
  <2>2. CASE Unreachable(p)
    <3>1. Moves(p, "idle", tok[p], got[p]) /\ lock' = Free
      BY <1>1, <2>2 DEF Unreachable, Release, Goto, Moves, TypeOK
    <3> QED BY <3>1
  <2>3. CASE Lapsed(p)
    <3>1. \/ Moves(p, "idle", None, NoAnswer)
          \/ Moves(p, "mark", None, NoAnswer)
      BY <2>3, DeniedIs DEF Lapsed, Goto, Ended, Moves, TypeOK
    <3>2. lock' = Free
      BY <1>1, <2>3 DEF Lapsed, Release
    <3> QED BY <3>1, <3>2
  <2> QED BY <2>1, <2>2, <2>3
<1>3. \A q \in Process \ {p} : pc[q] \notin Held
  BY <1>1 DEF Holds
<1>4. Holds'
  BY <1>1, <1>2, <1>3 DEF Holds, Held, Moves
<1>5. Boots'
  BY <1>1, <1>2 DEF Boots, Moves, TypeOK
<1>6. Saved'
  BY <1>1, <1>2, <1>3 DEF Saved, Boot, Moves, Held
<1> QED BY <1>1, <1>4, <1>5, <1>6 DEF Rest

\* The worker saves what it was given; it is still current unless a connect
\* has replaced the family, which then saves later.
LEMMA SaveRest ==
  ASSUME IInv, NEW p \in Process, SaveRotation(p)
  PROVE  Rest'
<1> USE Constants DEF IInv
<1>1. /\ pc[p] = "save" /\ lock = p /\ lock' = Free
      /\ Moves(p, "idle", None, NoAnswer)
      /\ cur' = cur /\ spent' = spent /\ file'.cred = got[p].cred
      /\ orphan' = orphan \cap {got[p].cred}
  BY DEF SaveRotation, Release, Goto, Ended, Moves, TypeOK, Holds, Held, cloud
<1>2. \A q \in Process \ {p} : pc[q] \notin Held
  BY <1>1 DEF Holds
<1>3. Holds'
  BY <1>1, <1>2 DEF Holds, Held, Moves
<1>4. Boots'
  BY <1>1 DEF Boots, Moves, TypeOK
<1>5. Boot' <=> Boot
  BY <1>1 DEF Boot, Moves
<1>6. Saved'
  BY <1>1, <1>2, <1>5 DEF Saved, Moves, Held
<1> QED BY <1>1, <1>3, <1>4, <1>6 DEF Rest

\* A rotation that cannot be saved, and the retirement that follows: the file
\* has nothing then, or what was orphaned.
LEMMA RetireRest ==
  ASSUME IInv, NEW p \in Process, SaveFails(p) \/ Retire(p)
  PROVE  Rest'
<1> USE Constants DEF IInv
<1>1. CASE SaveFails(p)
  <2>1. /\ pc[p] = "save" /\ lock = p /\ lock' = lock
        /\ Moves(p, "retire", tok[p], got[p])
        /\ cur' = cur /\ spent' = spent /\ file' = file /\ orphan' = orphan
    BY <1>1 DEF SaveFails, Goto, Moves, TypeOK, Holds, Held, cloud
  <2>2. Holds' /\ Boots' /\ Saved'
    BY <2>1 DEF Holds, Boots, Saved, Boot, Held, Moves
  <2> QED BY <2>1, <2>2 DEF Rest
<1>2. CASE Retire(p)
  <2>1. /\ pc[p] \in {"retire", "refused"} /\ lock = p /\ lock' = Free
        /\ cur' = cur /\ spent' = spent
    BY <1>2 DEF Retire, Release, Holds, Held, cloud
  <2>2. PICK l \in {"idle", "mark"} : Moves(p, l, None, NoAnswer)
    BY <1>2, DeniedIs DEF Retire, Goto, Ended, Moves, TypeOK
  <2>3. RetiredRecord(p).cred = None
    BY SessionFields DEF RetiredRecord, TypeOK
  <2>4. \/ file'.cred = None /\ orphan' = orphan
        \/ file' = file /\ orphan' = orphan \cup {tok[p]}
    BY <1>2, <2>3 DEF Retire
  <2>5. tok[p] = file.cred \/ file.cred = None
    BY <2>1 DEF Holds, Held
  <2>6. \A q \in Process \ {p} : pc[q] \notin Held
    BY <2>1 DEF Holds
  <2>7. Holds'
    BY <2>1, <2>2, <2>6 DEF Holds, Held, Moves
  <2>8. Boots'
    BY <2>1, <2>2, <2>4 DEF Boots, Moves, TypeOK
  <2>9. Saved'
    BY <2>1, <2>2, <2>4, <2>5, <2>6 DEF Saved, Boot, Moves, Held
  <2> QED BY <2>1, <2>7, <2>8, <2>9 DEF Rest
<1> QED BY <1>1, <1>2

\* A connect begins with a credential that nobody has ...
LEMMA ConnectRest ==
  ASSUME IInv, NEW p \in Process, Connect(p)
  PROVE  Rest'
<1> USE Constants DEF IInv
<1>1. /\ pc[p] = "idle" /\ lock' = lock /\ ~ Boot
      /\ CanIssue /\ cur' = Fresh /\ spent' = {} /\ file' = file /\ orphan' = orphan
  BY DEF Connect, Boot
<1>2. PICK g : Moves(p, "bootstrap", tok[p], g) /\ g.cred = Fresh
  BY DEF Connect, Goto, Moves, TypeOK
<1>3. Holds'
  BY <1>1, <1>2 DEF Holds, Held, Moves
<1>4. Boots'
  BY <1>1, <1>2, FreshIsNew DEF Boots, Boot, Moves
<1>5. Saved'
  BY <1>2 DEF Saved, Boot, Moves
<1> QED BY <1>1, <1>3, <1>4, <1>5 DEF Rest

\* ... and ends when it is saved.
LEMMA BootstrapRest ==
  ASSUME IInv, NEW p \in Process, SaveBootstrap(p)
  PROVE  Rest'
<1> USE Constants DEF IInv
<1>1. /\ pc[p] = "bootstrap" /\ lock = Free /\ lock' = Free
      /\ Moves(p, "idle", None, NoAnswer)
      /\ cur' = cur /\ spent' = spent /\ file'.cred = got[p].cred
  BY DEF SaveBootstrap, Goto, Ended, Moves, TypeOK, cloud
<1>2. \A q \in Process : pc[q] \notin Held
  BY <1>1 DEF Holds
<1>3. got[p].cred = cur /\ \A q \in Process \ {p} : pc[q] # "bootstrap"
  BY <1>1 DEF Boots
<1>4. Holds'
  BY <1>1, <1>2 DEF Holds, Held, Moves
<1>5. Boots' /\ Saved'
  BY <1>1, <1>2, <1>3 DEF Boots, Saved, Boot, Moves, Held
<1> QED BY <1>1, <1>4, <1>5 DEF Rest

\* A worker dies: what it leaves in the file is orphaned, and after a connect
\* that died, the answers of the others too.
LEMMA CrashRest ==
  ASSUME IInv, NEW p \in Process, Crash(p)
  PROVE  Rest'
<1> USE Constants DEF IInv
<1>1. /\ Moves(p, "idle", None, NoAnswer)
      /\ cur' = cur /\ spent' = spent /\ file' = file
      /\ lock' = IF lock = p THEN Free ELSE lock
  BY DEF Crash, Release, Goto, Ended, Moves, TypeOK, cloud
<1>2. orphan \subseteq orphan'
  BY DEF Crash, TypeOK
<1>3. pc[p] \in {"save", "retire", "bootstrap"} =>
        /\ file.cred \in orphan' \cup {None}
        /\ \A q \in Process \ {p} : got[q].cred \in orphan' \cup {None}
  BY DEF Crash
<1>4. Holds'
  BY <1>1 DEF Holds, Held, Moves
<1>5. Boots'
  BY <1>1 DEF Boots, Moves, TypeOK
<1>6. Saved'
  <2>1. ASSUME ~ Boot', pc[p] = "bootstrap"
        PROVE  /\ file.cred \in {None, cur} \cup orphan'
               /\ \A q \in Process \ {p} : pc[q] = "save" => got[q].cred \in {cur} \cup orphan'
    BY <1>3, <2>1 DEF Holds
  <2>2. ASSUME ~ Boot', pc[p] # "bootstrap"
        PROVE  ~ Boot
    BY <1>1, <2>2 DEF Boot, Moves
  <2>3. ASSUME ~ Boot', \A q \in Process : pc'[q] \notin {"save", "retire"}
        PROVE  file.cred \in {None, cur} \cup orphan'
    BY <1>1, <1>2, <1>3, <2>1, <2>2, <2>3 DEF Saved, Moves
  <2>4. ASSUME ~ Boot', NEW q \in Process, pc'[q] = "save"
        PROVE  got'[q].cred \in {cur} \cup orphan'
    BY <1>1, <1>2, <2>1, <2>2, <2>4 DEF Saved, Moves
  <2> QED BY <1>1, <2>3, <2>4 DEF Saved
<1> QED BY <1>1, <1>4, <1>5, <1>6 DEF Rest

\* The denials and the license touch no credential.
LEMMA QuietRest ==
  ASSUME IInv, NEW p \in Process,
         \/ NotConnected(p) \/ Mark(p) \/ Probe(p) \/ Deny(p) \/ ReadLicense(p)
         \/ AnswerLicense(p)
  PROVE  Rest'
<1> USE Constants DEF IInv
<1>1. /\ cur' = cur /\ spent' = spent /\ lock' = lock /\ orphan' = orphan
      /\ tok' = tok /\ got' = got
  BY DEF NotConnected, Mark, Probe, Deny, ReadLicense, AnswerLicense, cloud
<1>2. file'.cred = file.cred
  BY SessionFields
  DEF NotConnected, Mark, Probe, Deny, ReadLicense, AnswerLicense, TypeOK
<1>3. \/ pc' = pc
      \/ \E l \in {"idle", "mark", "probe", "deny"} :
           pc[p] \in {"idle", "mark", "probe", "deny"} /\ Goto(p, l)
  BY DeniedIs
  DEF NotConnected, Mark, Probe, Deny, ReadLicense, AnswerLicense
<1>4. \A q \in Process : \/ pc'[q] = pc[q]
                         \/ /\ pc[q] \in {"idle", "mark", "probe", "deny"}
                            /\ pc'[q] \in {"idle", "mark", "probe", "deny"}
  BY <1>3 DEF Goto, TypeOK
<1>5. Boot' <=> Boot
  BY <1>4 DEF Boot
<1>6. Holds'
  BY <1>1, <1>2, <1>4 DEF Holds, Held
<1>7. Boots'
  BY <1>1, <1>2, <1>4 DEF Boots
<1>8. Saved'
  BY <1>1, <1>2, <1>4, <1>5 DEF Saved
<1> QED BY <1>1, <1>6, <1>7, <1>8 DEF Rest

LEMMA ChangesInv ==
  ASSUME IInv, CloudChanges
  PROVE  IInv'
<1> USE DEF IInv
<1>1. events' \in 0..MaxEvents
  BY CloudAssumption DEF CloudChanges, Happens, TypeOK
<1>2. billing' \in BOOLEAN
  BY DEF CloudChanges, TypeOK
<1>3. TypeOK'
  BY <1>1, <1>2 DEF CloudChanges, TypeOK, denial, license
<1>4. Holds' /\ Boots' /\ (cur \notin spent)' /\ Saved'
  BY DEF CloudChanges, Holds, Boots, Saved, Boot
<1> QED BY <1>3, <1>4

LEMMA NextInv ==
  ASSUME IInv, [Next]_vars
  PROVE  IInv'
<1>1. CASE CloudChanges
  BY <1>1, ChangesInv
<1>2. ASSUME NEW p \in Process,
             \/ BeginRefresh(p) \/ Rotated(p) \/ NoAnswerTo(p) \/ Unreachable(p) \/ Lapsed(p)
             \/ Refused(p) \/ SaveRotation(p) \/ SaveFails(p) \/ Retire(p)
      PROVE  IInv'
  <2>1. TypeOK'
    BY <1>2, RefreshTypes
  <2>2. NoAnswerTo(p) => CloudRotates(p) \/ UNCHANGED cloud
    BY DEF NoAnswerTo
  <2>3. Rest'
    BY <1>2, <2>2, BeginRest, RotatesRest, UnrotatedRest, SaveRest, RetireRest
  <2> QED BY <2>1, <2>3 DEF IInv, Rest
<1>3. ASSUME NEW p \in Process,
             \/ NotConnected(p) \/ Mark(p) \/ Probe(p) \/ Deny(p) \/ ReadLicense(p)
             \/ AnswerLicense(p) \/ Connect(p) \/ SaveBootstrap(p) \/ Crash(p)
      PROVE  IInv'
  <2>1. TypeOK'
    BY <1>3, OtherTypes
  <2>2. Rest'
    BY <1>3, QuietRest, ConnectRest, BootstrapRest, CrashRest
  <2> QED BY <2>1, <2>2 DEF IInv, Rest
<1>4. CASE UNCHANGED vars
  BY <1>4 DEF vars, cloud, denial, license, IInv, TypeOK, Holds, Boots, Saved, Boot
<1> QED BY <1>1, <1>2, <1>3, <1>4 DEF Next, Refresh

------------------------------------------------------------------------------
\* Every variable keeps its type: in particular whoever holds the refresh lock
\* is between its request and the save of the answer, on every way out of
\* access_for_workspace.
THEOREM CloudTypeCorrect == Spec => []TypeOK
<1>1. IInv /\ [Next]_vars => IInv'
  BY NextInv
<1>2. IInv => TypeOK
  BY DEF IInv
<1> QED BY InitInv, <1>1, <1>2, PTL DEF Spec

\* While nobody refreshes and nobody connects, the saved credential is the one
\* that the control plane accepts, unless a failure left it there: for any
\* number of workers, with or without a credential in the environment.
THEOREM SavedIsCurrent == Spec => []SavedCredentialIsCurrent
<1>1. IInv /\ [Next]_vars => IInv'
  BY NextInv
<1>2. IInv => SavedCredentialIsCurrent
  BY Constants DEF IInv, Saved, Boot, Holds, Held, SavedCredentialIsCurrent
<1> QED BY InitInv, <1>1, <1>2, PTL DEF Spec

\* A spent credential is presented only if it was orphaned, in an installation
\* without a credential in its environment: what a worker presents is what is
\* saved, and that is current.
THEOREM SpentIsNotPresented ==
  ASSUME Env = None
  PROVE  Spec => NoReplay
<1>1. IInv /\ [Next]_vars => IInv'
  BY NextInv
<1>2. ASSUME IInv, [Next]_vars, family' = "replayed", family = "live"
      PROVE  \E p \in Process : pc[p] = "post" /\ tok[p] \in orphan
  <2>1. PICK p \in Process : Refused(p)
    <3>1. ASSUME CloudChanges PROVE FALSE
      BY <1>2, <3>1 DEF CloudChanges
    <3>2. ASSUME NEW p \in Process,
                 \/ BeginRefresh(p) \/ Rotated(p) \/ NoAnswerTo(p) \/ Unreachable(p) \/ Lapsed(p)
                 \/ SaveRotation(p) \/ SaveFails(p) \/ Retire(p)
                 \/ NotConnected(p) \/ Mark(p) \/ Probe(p) \/ Deny(p) \/ ReadLicense(p)
                 \/ AnswerLicense(p) \/ Connect(p) \/ SaveBootstrap(p) \/ Crash(p)
          PROVE  FALSE
      BY <1>2, <3>2
      DEF BeginRefresh, Rotated, NoAnswerTo, Unreachable, Lapsed, CloudRotates,
          SaveRotation, SaveFails, Retire, NotConnected, Mark, Probe, Deny, ReadLicense,
          AnswerLicense, Connect, SaveBootstrap, Crash, cloud
    <3>3. ~ UNCHANGED vars
      BY <1>2 DEF vars, cloud
    <3> QED BY <1>2, <3>1, <3>2, <3>3 DEF Next, Refresh
  <2>2. pc[p] = "post" /\ tok[p] \in spent
    BY <1>2, <2>1 DEF Refused
  <2>3. tok[p] \in Cred /\ tok[p] = file.cred
    BY <1>2, <2>2, Constants DEF IInv, Holds, Held
  <2>4. \A q \in Process : pc[q] \notin {"save", "retire"}
    BY <1>2, <2>2 DEF IInv, Holds, Held
  <2>5. ~ Boot
    BY <1>2, <2>2 DEF IInv, Boots, Boot
  <2>6. file.cred \in {None, cur} \cup orphan
    BY <1>2, <2>4, <2>5 DEF IInv, Saved
  <2> QED BY <1>2, <2>2, <2>3, <2>6, Constants DEF IInv
<1>3. IInv /\ [Next]_vars
        => [family' = "replayed" /\ family = "live" =>
              \E p \in Process : pc[p] = "post" /\ tok[p] \in orphan]_vars
  BY <1>2
<1> QED BY InitInv, <1>1, <1>3, PTL DEF Spec, NoReplay

------------------------------------------------------------------------------
\* The guards. A grant that is older than a denial is the record that the denial
\* is about: every other write of the file leaves no grant, or a newer one.
Denies ==
  \A p \in Process :
    /\ ~ guard[p] => base[p] = NoDigest
    /\ pc[p] = "probe" => guard[p] /\ base[p] = NoDigest
    /\ p \in older /\ base[p] # NoDigest /\ file.active /\ file.cred # None => file = base[p]
    /\ snap[p].old /\ snap[p].baseline # NoDigest => snap[p].session = snap[p].baseline

LEMMA InitDenies == Init => Denies
  BY DEF Init, Denies, NoRead

\* A denial that reaches a dashboard is newer than the grant in the file if no
\* guard is up yet, and then no digest is known yet either.
LEMMA DeniedDenies ==
  ASSUME IInv, Denies, NEW p \in Process, Denied(p),
         UNCHANGED <<guard, base, snap>>,
         file' = file \/ ~ file'.active \/ file'.cred = None
  PROVE  Denies'
<1>1. \A q \in Process : pc'[q] = "probe" => pc[q] = "probe"
  BY DEF Denied, Goto, IInv, TypeOK
<1>2. \A q \in Process : q \in older' => q \in older \/ (q = p /\ ~ guard[p])
  BY DEF Denied
<1> QED BY <1>1, <1>2 DEF Denies

LEMMA FileDenies ==
  ASSUME IInv, Denies, UNCHANGED <<guard, base, snap>>,
         \A q \in Process : pc'[q] = "probe" => pc[q] = "probe",
         older' = {} \/ (older' = older /\ (file' = file \/ ~ file'.active \/ file'.cred = None))
  PROVE  Denies'
  BY DEF Denies

LEMMA NextDenies ==
  ASSUME Env = None, IInv, Denies, [Next]_vars
  PROVE  Denies'
<1> USE DEF denial, license
<1>1. ASSUME NEW p \in Process,
             \/ BeginRefresh(p) \/ Rotated(p) \/ NoAnswerTo(p) \/ Unreachable(p)
             \/ Refused(p) \/ SaveRotation(p) \/ SaveFails(p)
             \/ Connect(p) \/ SaveBootstrap(p)
      PROVE  Denies'
  <2>1. UNCHANGED <<guard, base, snap>>
    BY <1>1 DEF BeginRefresh, Rotated, NoAnswerTo, Unreachable, Refused, SaveRotation,
                SaveFails, Connect, SaveBootstrap
  <2>2. PICK l \in {"post", "save", "retire", "idle", "refused", "bootstrap"} : Goto(p, l)
    BY <1>1 DEF BeginRefresh, Rotated, NoAnswerTo, Unreachable, Refused, SaveRotation,
                SaveFails, Connect, SaveBootstrap, MaybeSpent
  <2>3. \A q \in Process : pc'[q] = "probe" => pc[q] = "probe"
    BY <2>2 DEF Goto, IInv, TypeOK
  <2>4. older' = {} \/ (older' = older /\ file' = file)
    BY <1>1 DEF BeginRefresh, Rotated, NoAnswerTo, Unreachable, Refused, SaveRotation,
                SaveFails, Connect, SaveBootstrap
  <2> QED BY <2>1, <2>3, <2>4, FileDenies
<1>2. ASSUME NEW p \in Process, Lapsed(p) \/ NotConnected(p)
      PROVE  Denies'
  BY <1>2, DeniedDenies DEF Lapsed, NotConnected
<1>3. ASSUME NEW p \in Process, Retire(p)
      PROVE  Denies'
  <2>1. UNCHANGED <<guard, base, snap>>
    BY <1>3 DEF Retire
  <2>2. RetiredRecord(p).cred = None
    BY <1>3, SessionFields, Constants DEF RetiredRecord, IInv, TypeOK
  <2>3. file' = file \/ file'.cred = None
    BY <1>3, <2>2 DEF Retire
  <2>4. Denied(p) \/ (Goto(p, "idle") /\ older' = older)
    BY <1>3 DEF Retire
  <2>5. CASE Denied(p)
    BY <2>1, <2>3, <2>5, DeniedDenies
  <2>6. CASE Goto(p, "idle") /\ older' = older
    <3>1. \A q \in Process : pc'[q] = "probe" => pc[q] = "probe"
      BY <2>6 DEF Goto, IInv, TypeOK
    <3> QED BY <2>1, <2>3, <2>6, <3>1, FileDenies
  <2> QED BY <2>4, <2>5, <2>6
<1>4. ASSUME NEW p \in Process, Mark(p)
      PROVE  Denies'
  <2>1. /\ guard'[p] /\ base'[p] = NoDigest
        /\ \A q \in Process \ {p} : guard'[q] = guard[q] /\ base'[q] = base[q] /\ pc'[q] = pc[q]
        /\ file' = file /\ older' = older /\ snap' = snap
    BY <1>4 DEF Mark, Goto, IInv, TypeOK
  <2> QED BY <2>1 DEF Denies
<1>5. ASSUME NEW p \in Process, Probe(p)
      PROVE  Denies'
  <2>1. /\ pc[p] = "probe" /\ pc'[p] = "deny" /\ base'[p] \in {file, NoDigest}
        /\ \A q \in Process \ {p} : base'[q] = base[q] /\ pc'[q] = pc[q]
        /\ file' = file /\ older' = older /\ snap' = snap /\ guard' = guard
    BY <1>5 DEF Probe, Goto, IInv, TypeOK
  <2> QED BY <2>1 DEF Denies
<1>6. ASSUME NEW p \in Process, Deny(p)
      PROVE  Denies'
  <2>1. file' = file \/ ~ file'.active
    BY <1>6, SessionFields DEF Deny, IInv, TypeOK
  <2>2. \A q \in Process : pc'[q] = "probe" => pc[q] = "probe"
    BY <1>6 DEF Deny, Goto, IInv, TypeOK
  <2>3. UNCHANGED <<guard, base, snap>> /\ older' = older
    BY <1>6 DEF Deny
  <2> QED BY <2>1, <2>2, <2>3, FileDenies
<1>7. ASSUME NEW p \in Process, ReadLicense(p)
      PROVE  Denies'
  <2>1. UNCHANGED <<guard, base, file, older, pc>>
    BY <1>7 DEF ReadLicense
  <2>2. \/ snap' = snap
        \/ /\ Connected(p) /\ file.active
           /\ snap' = [snap EXCEPT ![p] = [session |-> file, old |-> p \in older, baseline |-> base[p]]]
    BY <1>7 DEF ReadLicense
  <2>3. Connected(p) => file.cred # None
    BY DEF Connected, Selected
  <2>4. ASSUME NEW q \in Process, snap'[q].old, snap'[q].baseline # NoDigest
        PROVE  snap'[q].session = snap'[q].baseline
    <3>1. CASE snap'[q] = snap[q]
      BY <2>4, <3>1 DEF Denies
    <3>2. CASE snap'[q] # snap[q]
      <4>1. q = p /\ snap'[p] = [session |-> file, old |-> p \in older, baseline |-> base[p]]
        BY <2>2, <3>2 DEF IInv, TypeOK
      <4>2. snap'[p].old = (p \in older) /\ snap'[p].session = file /\ snap'[p].baseline = base[p]
        BY <4>1
      <4>3. file.active /\ file.cred # None
        BY <2>2, <2>3, <3>2
      <4> QED BY <2>4, <4>1, <4>2, <4>3 DEF Denies
    <3> QED BY <3>1, <3>2
  <2> QED BY <2>1, <2>4 DEF Denies
<1>8. ASSUME NEW p \in Process, AnswerLicense(p)
      PROVE  Denies'
  <2>1. /\ \A q \in Process : q # p => guard'[q] = guard[q] /\ base'[q] = base[q] /\ snap'[q] = snap[q]
        /\ file' = file /\ pc' = pc /\ snap'[p] = NoRead /\ older' \subseteq older
    BY <1>8 DEF AnswerLicense, IInv, TypeOK
  <2>2. \/ base[p] # NoDigest /\ ~ guard'[p] /\ base'[p] = NoDigest
        \/ guard'[p] = guard[p] /\ base'[p] = base[p]
    BY <1>8 DEF AnswerLicense, Supersedes, IInv, TypeOK
  <2>3. ~ NoRead.old
    BY DEF NoRead
  <2> QED BY <2>1, <2>2, <2>3 DEF Denies
<1>9. ASSUME NEW p \in Process, Crash(p)
      PROVE  Denies'
  <2>1. /\ \A q \in Process \ {p} : /\ guard'[q] = guard[q] /\ base'[q] = base[q]
                                    /\ snap'[q] = snap[q] /\ pc'[q] = pc[q]
        /\ file' = file /\ base'[p] = NoDigest /\ pc'[p] = "idle" /\ snap'[p] = NoRead
        /\ older' \subseteq older
    BY <1>9 DEF Crash, Goto, IInv, TypeOK
  <2>2. ~ NoRead.old
    BY DEF NoRead
  <2> QED BY <2>1, <2>2 DEF Denies
<1>10. CASE CloudChanges
  BY <1>10, FileDenies DEF CloudChanges
<1>11. CASE UNCHANGED vars
  BY <1>11, FileDenies DEF vars
<1> QED
  BY <1>1, <1>2, <1>3, <1>4, <1>5, <1>6, <1>7, <1>8, <1>9, <1>10, <1>11 DEF Next, Refresh

\* No grant older than a denial lifts it, once the denial knows its bytes, in an
\* installation without a credential in its environment: for any number of
\* dashboards, whatever is written to the file during the read.
THEOREM OldGrantsDoNotLift ==
  ASSUME Env = None
  PROVE  Spec => DenialOutlivesOlderGrants
<1>1. IInv /\ [Next]_vars => IInv'
  BY NextInv
<1>2. IInv /\ Denies /\ [Next]_vars => Denies'
  BY NextDenies
<1>3. ASSUME IInv, Denies, [Next]_vars, NEW p \in Process,
             snap[p].baseline = base[p], LiftsForOldGrant(p)
      PROVE  FALSE
  <2>1. guard[p] /\ ~ guard'[p] /\ view'[p] /\ snap[p].old
    BY <1>3 DEF LiftsForOldGrant
  <2>2. AnswerLicense(p)
    <3>1. ASSUME NEW q \in Process,
                 \/ BeginRefresh(q) \/ Rotated(q) \/ NoAnswerTo(q) \/ Unreachable(q) \/ Lapsed(q)
                 \/ Refused(q) \/ SaveRotation(q) \/ SaveFails(q) \/ Retire(q)
                 \/ NotConnected(q) \/ Probe(q) \/ Deny(q) \/ ReadLicense(q)
                 \/ Connect(q) \/ SaveBootstrap(q)
          PROVE  FALSE
      BY <2>1, <3>1
      DEF BeginRefresh, Rotated, NoAnswerTo, Unreachable, Lapsed, Refused,
          SaveRotation, SaveFails, Retire, NotConnected, Probe, Deny, ReadLicense,
          Connect, SaveBootstrap, denial
    <3>2. ASSUME NEW q \in Process, Mark(q) PROVE FALSE
      BY <1>3, <2>1, <3>2 DEF Mark, IInv, TypeOK
    <3>3. ASSUME NEW q \in Process, Crash(q) PROVE FALSE
      BY <1>3, <2>1, <3>3 DEF Crash, IInv, TypeOK
    <3>4. ASSUME NEW q \in Process, AnswerLicense(q), q # p PROVE FALSE
      BY <1>3, <2>1, <3>4 DEF AnswerLicense, IInv, TypeOK, denial
    <3>5. ~ CloudChanges /\ ~ UNCHANGED vars
      BY <2>1 DEF CloudChanges, vars, denial
    <3> QED BY <1>3, <3>1, <3>2, <3>3, <3>4, <3>5 DEF Next, Refresh
  <2>3. Supersedes(p)
    BY <2>1, <2>2 DEF AnswerLicense, denial
  <2> QED BY <1>3, <2>1, <2>3 DEF Supersedes, Denies
<1>4. IInv /\ Denies /\ [Next]_vars
        => [\A p \in Process : snap[p].baseline = base[p] => ~ LiftsForOldGrant(p)]_vars
  BY <1>3
<1> QED BY InitInv, InitDenies, <1>1, <1>2, <1>4, PTL DEF Spec, DenialOutlivesOlderGrants

==============================================================================
