---------------------------- MODULE CloudSession ----------------------------
(***************************************************************************)
(* The cloud session of an installation (engraphis/cloud_session.py,       *)
(* device_connect.py) and the license that its dashboards report           *)
(* (routes/v2_api.py). Several processes share one session file. Its       *)
(* refresh credential is used once: the control plane answers with the     *)
(* next one, and treats a second use as theft of the whole family. An      *)
(* answer may be lost, a save may fail, and billing may lapse and return.  *)
(***************************************************************************)
EXTENDS Integers, FiniteSets, FiniteSetsExt

CONSTANTS
  Process,     \* workers that share the session file: dashboards, MCP servers, CLIs
  Dashboard,   \* those that serve the license and record what denies it
  Pool,        \* number of credentials that can be told apart at once
  Env,         \* ENGRAPHIS_CLOUD_REFRESH_CREDENTIAL, 0 if it is not set
  MaxEvents    \* bound on faults, connects and changes of billing

Cred == 1..Pool
None == 0

\* The value of lock while nobody holds the refresh lock.
Free == "free"

ASSUME CloudAssumption ==
  /\ Free \notin Process
  /\ Dashboard \subseteq Process
  /\ Pool \in Nat \ {0}
  /\ Env \in Cred \cup {None}
  /\ MaxEvents \in Nat

VARIABLES
  billing,   \* control plane: is the subscription active?
  cur,       \* control plane: the credential that it accepts
  spent,     \* control plane: the credentials of the family that were used
  family,    \* control plane: "live", "revoked", or "replayed" if revoked for that
  file,      \* cloud_session.json
  lock,      \* _refresh_lock
  pc,        \* where a worker's refresh or connect is
  tok,       \* tok[p]: the credential that it presents
  got,       \* got[p]: the answer that it has not saved yet
  fence,     \* fence[p]: _UNUSABLE_REFRESHES, those that can still be read
  guard,     \* guard[p]: _AUTHORITATIVE_DENIAL_PENDING
  base,      \* base[p]: the digest of the session in _denied_state_digests
  snap,      \* snap[p]: what a license read has parsed
  view,      \* view[p]: does the last license read report paid access?
  orphan,    \* history: credentials that a failure left in the file although it replaced them
  older,     \* history: guards raised after the grant in the file was given
  events     \* faults, connects and changes of billing so far

cloud == <<billing, cur, spent, family>>
denial == <<guard, base>>
license == <<snap, view>>
vars == <<cloud, file, lock, pc, tok, got, fence, denial, license, orphan, older, events>>

\* The fields of the session that matter. A digest of its bytes tells contents
\* apart and nothing else: clocks are too coarse to (saved_session_digest).
Session == [cred : Cred \cup {None}, dead : Cred \cup {None}, active : BOOLEAN]
NoDigest == [cred |-> -1, dead |-> -1, active |-> FALSE]
Read == [session : Session \cup {NoDigest}, old : BOOLEAN, baseline : Session \cup {NoDigest}]
NoRead == [session |-> NoDigest, old |-> FALSE, baseline |-> NoDigest]
Answer == [cred : Cred \cup {None}, active : BOOLEAN]
NoAnswer == [cred |-> None, active |-> FALSE]

PC == {"idle", "post", "save", "retire", "refused", "mark", "probe", "deny", "bootstrap"}

\* An installation that was connected, or one with a credential in its
\* environment.
Init ==
  /\ billing = TRUE
  /\ cur = (IF Env = None THEN 1 ELSE Env)
  /\ spent = {}
  /\ family = "live"
  /\ file = [cred |-> (IF Env = None THEN 1 ELSE None), dead |-> None, active |-> TRUE]
  /\ lock = Free
  /\ pc = [p \in Process |-> "idle"]
  /\ tok = [p \in Process |-> None]
  /\ got = [p \in Process |-> NoAnswer]
  /\ fence = [p \in Process |-> {}]
  /\ guard = [p \in Process |-> FALSE]
  /\ base = [p \in Process |-> NoDigest]
  /\ snap = [p \in Process |-> NoRead]
  /\ view = [p \in Process |-> TRUE]
  /\ orphan = {}
  /\ older = {}
  /\ events = 0

Goto(p, l) == pc' = [pc EXCEPT ![p] = l]

\* A fault, a connect or a change of billing: there are at most MaxEvents.
Happens == events < MaxEvents /\ events' = events + 1

------------------------------------------------------------------------------
\* What anybody may still present or compare. Any other credential stands for
\* one that was never issued, and its use is forgotten.
Remembered ==
  {cur, Env, file.cred, file.dead} \cup orphan
  \cup UNION {{tok[p], got[p].cred, base[p].cred, base[p].dead,
               snap[p].session.cred, snap[p].session.dead} \cup fence[p] : p \in Process}

Fresh == Min(Cred \ Remembered)

\* A credential is left to be issued: a bound of the model, which no run meets.
CanIssue == Cred \ Remembered # {}

\* _selected_refresh: the saved credential, else the environment's.
Selected == IF file.cred # None THEN file.cred ELSE Env

\* _refresh_is_unusable
IsUnusable(p, c) == c = file.dead \/ c \in fence[p]

\* configured
Connected(p) == Selected # None /\ ~ IsUnusable(p, Selected)

\* access_for_workspace up to the request. It keeps the refresh lock until the
\* answer is saved or given up; a 409 changes nothing.
BeginRefresh(p) ==
  /\ pc[p] = "idle"
  /\ lock = Free
  /\ Connected(p)
  /\ lock' = p
  /\ tok' = [tok EXCEPT ![p] = Selected]
  /\ Goto(p, "post")
  /\ UNCHANGED <<cloud, file, got, fence, denial, license, orphan, older, events>>

\* A 401 or 402 reached a dashboard, which records it.
Denied(p) ==
  /\ Goto(p, IF p \in Dashboard THEN "mark" ELSE "idle")
  /\ older' = IF p \in Dashboard /\ ~ guard[p] THEN older \cup {p} ELSE older

\* Without any credential its 401 is taken for a denial, again and again. A
\* repetition only renews the digest, and is left out while one is known.
NotConnected(p) ==
  /\ pc[p] = "idle"
  /\ p \in Dashboard
  /\ Selected = None
  /\ guard[p] => base[p] = NoDigest
  /\ Denied(p)
  /\ UNCHANGED <<cloud, file, lock, tok, got, fence, denial, license, orphan, events>>

\* The control plane rotates: the credential is spent, another one issued.
CloudRotates(p) ==
  /\ tok[p] = cur
  /\ family = "live"
  /\ billing
  /\ CanIssue
  /\ cur' = Fresh
  /\ spent' = (spent \cup {tok[p]}) \cap Remembered
  /\ UNCHANGED <<billing, family>>

Ended(p) ==
  /\ tok' = [tok EXCEPT ![p] = None]
  /\ got' = [got EXCEPT ![p] = NoAnswer]

\* Mutant: an early return forgets the lock.
KeepsLock(p) == UNCHANGED lock

Release(p) == lock' = IF lock = p THEN Free ELSE lock

Rotated(p) ==
  /\ pc[p] = "post"
  /\ CloudRotates(p)
  /\ got' = [got EXCEPT ![p] = [cred |-> Fresh, active |-> TRUE]]
  /\ Goto(p, "save")
  /\ UNCHANGED <<file, lock, tok, fence, denial, license, orphan, older, events>>

\* Mutant: a timeout is taken for an outage, and tried again.
RetriesTimeout(p) == UNCHANGED <<pc, lock>>

\* An answer that did not arrive may have spent the credential: refresh_unusable.
MaybeSpent(p) == Goto(p, "retire") /\ UNCHANGED lock

\* The answer is lost on its way, or the request was. (A 404 is taken the same way.)
NoAnswerTo(p) ==
  /\ pc[p] = "post"
  /\ \/ Happens /\ CloudRotates(p)
     \/ Happens /\ UNCHANGED cloud
  /\ MaybeSpent(p)
  /\ UNCHANGED <<file, tok, got, fence, denial, license, orphan, older>>

\* URLError, 429 and other statuses: the credential is kept.
Unreachable(p) ==
  /\ pc[p] = "post"
  /\ Happens
  /\ Release(p)
  /\ Goto(p, "idle")
  /\ UNCHANGED <<cloud, file, tok, got, fence, denial, license, orphan, older>>

\* 402: billing lapsed; nothing is rotated.
Lapsed(p) ==
  /\ pc[p] = "post"
  /\ tok[p] = cur /\ family = "live" /\ ~ billing
  /\ Release(p)
  /\ Ended(p)
  /\ Denied(p)
  /\ UNCHANGED <<cloud, file, fence, denial, license, orphan, events>>

\* 401: the family was revoked or replaced, or the credential is replayed.
Refused(p) ==
  /\ pc[p] = "post"
  /\ tok[p] # cur \/ family # "live"
  /\ family' = IF tok[p] \in spent /\ family = "live" THEN "replayed" ELSE family
  /\ Goto(p, "refused")
  /\ UNCHANGED <<billing, cur, spent, file, lock, tok, got, fence, denial, license, orphan, older, events>>

\* The record is replaced; a retirement in it is dropped.
SaveRotation(p) ==
  /\ pc[p] = "save"
  /\ file' = [cred |-> got[p].cred, dead |-> None, active |-> got[p].active]
  /\ fence' = [q \in Process |-> fence[q] \cap {Env}]
  /\ orphan' = orphan \cap {got[p].cred}
  /\ older' = {}
  /\ Release(p)
  /\ Ended(p)
  /\ Goto(p, "idle")
  /\ UNCHANGED <<cloud, denial, license, events>>

\* The rotation cannot be saved: the old credential is fenced, then retired.
SaveFails(p) ==
  /\ pc[p] = "save"
  /\ Happens
  /\ fence' = [fence EXCEPT ![p] = @ \cup {tok[p]}]
  /\ Goto(p, "retire")
  /\ UNCHANGED <<cloud, file, lock, tok, got, denial, license, orphan, older>>

\* Mutant: the spent credential stays in the record.
KeepsCredential(p) == file

\* The record without the credential, with its digest.
RetiredRecord(p) == [file EXCEPT !.cred = None, !.dead = tok[p]]

\* _mark_refresh_unusable; a refusal is also a denial.
Retire(p) ==
  /\ pc[p] \in {"retire", "refused"}
  /\ fence' = [fence EXCEPT ![p] = @ \cup {tok[p]}]
  /\ \/ /\ file' = RetiredRecord(p)
        /\ IF pc[p] = "refused" THEN Denied(p) ELSE Goto(p, "idle") /\ UNCHANGED older
        /\ UNCHANGED <<orphan, events>>
     \/ /\ Happens
        /\ orphan' = orphan \cup {tok[p]}
        /\ Goto(p, "idle")
        /\ UNCHANGED <<file, older>>
  /\ Release(p)
  /\ Ended(p)
  /\ UNCHANGED <<cloud, denial, license>>

------------------------------------------------------------------------------
\* _mark_authoritative_denial publishes the denial before it reads any file ...
Mark(p) ==
  /\ pc[p] = "mark"
  /\ guard' = [guard EXCEPT ![p] = TRUE]
  /\ base' = [base EXCEPT ![p] = NoDigest]
  /\ Goto(p, "probe")
  /\ UNCHANGED <<cloud, file, lock, tok, got, fence, license, orphan, older, events>>

\* ... and then remembers which bytes it is about. A file that cannot be read
\* leaves it without a digest (_persisted_state_digest).
Probe(p) ==
  /\ pc[p] = "probe"
  /\ \E digest \in {file, NoDigest} : base' = [base EXCEPT ![p] = digest]
  /\ Goto(p, "deny")
  /\ UNCHANGED <<cloud, file, lock, tok, got, fence, guard, license, orphan, older, events>>

\* record_billing_denial: under the lock, the credential that is there stays.
Deny(p) ==
  /\ pc[p] = "deny"
  /\ lock = Free
  /\ \/ file' = [file EXCEPT !.active = FALSE] /\ UNCHANGED events
     \/ Happens /\ UNCHANGED file
  /\ Goto(p, "idle")
  /\ UNCHANGED <<cloud, lock, tok, got, fence, denial, license, orphan, older>>

\* _plan_entitlement: without a guard the session decides; with one, an active
\* answer is compared with what the denial was about.
ReadLicense(p) ==
  /\ p \in Dashboard
  /\ snap[p] = NoRead
  /\ IF Connected(p) /\ guard[p] /\ file.active
     THEN /\ snap' = [snap EXCEPT ![p] = [session |-> file,
                                       old |-> p \in older, baseline |-> base[p]]]
          /\ UNCHANGED view
     ELSE /\ view' = [view EXCEPT ![p] = Connected(p) /\ file.active]
          /\ view' # view
          /\ UNCHANGED snap
  /\ UNCHANGED <<cloud, file, lock, pc, tok, got, fence, denial, orphan, older, events>>

\* Mutant: the status is compared and not the bytes.
SupersedesStatus(p) ==
  guard[p] /\ base[p] # NoDigest /\ snap[p].session.active # base[p].active

\* Mutant: any active record lifts the guard.
SupersedesActive(p) == guard[p]

\* _clear_superseded_denial: an active answer from other bytes than the
\* denial's, both known.
Supersedes(p) ==
  /\ guard[p]
  /\ base[p] # NoDigest
  /\ snap[p].session # base[p]

\* Without a guard nobody looks at its digests.
AnswerLicense(p) ==
  /\ snap[p] # NoRead
  /\ IF Supersedes(p)
     THEN /\ guard' = [guard EXCEPT ![p] = FALSE]
          /\ base' = [base EXCEPT ![p] = NoDigest]
          /\ older' = older \ {p}
     ELSE UNCHANGED <<denial, older>>
  /\ view' = [view EXCEPT ![p] = Supersedes(p)]
  /\ snap' = [snap EXCEPT ![p] = NoRead]
  /\ UNCHANGED <<cloud, file, lock, pc, tok, got, fence, orphan, events>>

------------------------------------------------------------------------------
\* An operator connects, one at a time: the control plane begins a family ...
Connect(p) ==
  /\ pc[p] = "idle"
  /\ \A q \in Process : pc[q] # "bootstrap"
  /\ Happens
  /\ CanIssue
  /\ cur' = Fresh
  /\ spent' = {}
  /\ family' = "live"
  /\ got' = [got EXCEPT ![p] = [cred |-> Fresh, active |-> billing]]
  /\ Goto(p, "bootstrap")
  /\ UNCHANGED <<billing, file, lock, tok, fence, denial, license, orphan, older>>

\* ... and save_bootstrap replaces the record.
SaveBootstrap(p) ==
  /\ pc[p] = "bootstrap"
  /\ lock = Free
  /\ file' = [cred |-> got[p].cred, dead |-> None, active |-> got[p].active]
  /\ fence' = [q \in Process |-> fence[q] \cap {Env}]
  /\ orphan' = orphan \cap {got[p].cred}
  /\ older' = {}
  /\ Ended(p)
  /\ Goto(p, "idle")
  /\ UNCHANGED <<cloud, lock, denial, license, events>>

\* The subscription lapses or is paid again; the account revokes the family.
CloudChanges ==
  /\ Happens
  /\ \/ billing' = ~ billing /\ UNCHANGED family
     \/ family = "live" /\ family' = "revoked" /\ UNCHANGED billing
  /\ UNCHANGED <<cur, spent, file, lock, pc, tok, got, fence, denial, license, orphan, older>>

\* A worker dies; the lock on the file goes with it. The answer that it had not
\* saved is lost, and nobody retires what is in the file.
Crash(p) ==
  /\ Happens
  /\ pc[p] # "idle"
  /\ orphan' = IF pc[p] \in {"save", "retire", "bootstrap"}
               THEN (orphan \cup {file.cred} \cup {got[q].cred : q \in Process \ {p}}) \ {None}
               ELSE orphan
  /\ Release(p)
  /\ Ended(p)
  /\ fence' = [fence EXCEPT ![p] = {}]
  /\ guard' = [guard EXCEPT ![p] = FALSE]
  /\ base' = [base EXCEPT ![p] = NoDigest]
  /\ snap' = [snap EXCEPT ![p] = NoRead]
  /\ view' = [view EXCEPT ![p] = FALSE]
  /\ older' = older \ {p}
  /\ Goto(p, "idle")
  /\ UNCHANGED <<cloud, file>>

\* The steps of a refresh that end it unless something fails.
Refresh(p) ==
  \/ Rotated(p) \/ Lapsed(p) \/ Refused(p) \/ SaveRotation(p) \/ Retire(p)
  \/ Mark(p) \/ Probe(p)

Next ==
  \/ CloudChanges
  \/ \E p \in Process :
       \/ BeginRefresh(p) \/ NotConnected(p) \/ Refresh(p) \/ Deny(p)
       \/ NoAnswerTo(p) \/ Unreachable(p) \/ SaveFails(p)
       \/ ReadLicense(p) \/ AnswerLicense(p)
       \/ Connect(p) \/ SaveBootstrap(p)
       \/ Crash(p)

Spec == Init /\ [][Next]_vars

\* Dashboards poll the license, which refreshes in the background again and
\* again; the lock is asked for until it is had (_acquire_refresh_file_lock).
FairSpec ==
  /\ Spec
  /\ \A p \in Process :
       /\ SF_vars(BeginRefresh(p)) /\ WF_vars(Refresh(p))
       /\ SF_vars(Deny(p)) /\ SF_vars(SaveBootstrap(p))
       /\ WF_vars(ReadLicense(p)) /\ WF_vars(AnswerLicense(p))

------------------------------------------------------------------------------
TypeOK ==
  /\ billing \in BOOLEAN
  /\ cur \in Cred
  /\ spent \subseteq Cred
  /\ family \in {"live", "revoked", "replayed"}
  /\ file \in Session
  /\ pc \in [Process -> PC]
  /\ lock \in {Free} \cup {p \in Process : pc[p] \in {"post", "save", "retire", "refused"}}
  /\ tok \in [Process -> Cred \cup {None}]
  /\ got \in [Process -> Answer]
  /\ fence \in [Process -> SUBSET Cred]
  /\ guard \in [Process -> BOOLEAN]
  /\ base \in [Process -> Session \cup {NoDigest}]
  /\ snap \in [Process -> Read]
  /\ view \in [Process -> BOOLEAN]
  /\ orphan \subseteq Cred
  /\ older \subseteq Process
  /\ events \in 0..MaxEvents

\* No spent credential is presented again, although answers are lost and saves
\* fail, unless its retirement could not be written either: the control plane
\* never has to revoke the family for a replay ("Retrying would replay the stale
\* credential and can revoke its whole family", _post_refresh).
NoReplay ==
  [][family' = "replayed" /\ family = "live" =>
       \E p \in Process : pc[p] = "post" /\ tok[p] \in orphan]_vars

\* While nobody holds the lock and no connect is under way, what is saved is
\* what the control plane accepts: no write of an older record survives.
SavedCredentialIsCurrent ==
  lock = Free /\ (\A p \in Process : pc[p] # "bootstrap")
    => file.cred \in {None, cur} \cup orphan

\* A grant that is older than a denial: the process lifts its guard for it.
LiftsForOldGrant(p) == guard[p] /\ ~ guard'[p] /\ view'[p] /\ snap[p].old

\* Once a denial knows the bytes that it is about, and unless they are probed
\* again during the read, no grant older than it lifts it: not the record it
\* refused, nor the write of the denial itself ("must not resurrect grants the
\* control plane just refused", _clear_superseded_denial).
DenialOutlivesOlderGrants ==
  [][\A p \in Process : snap[p].baseline = base[p] => ~ LiftsForOldGrant(p)]_vars

\* A denial that could not read the bytes it is about: "the guard sticks -
\* fail-closed - until the next denial cycle or process restart"
\* (_clear_superseded_denial).
Blind(p) == guard[p] /\ base[p] = NoDigest

\* Every dashboard ends up with what the control plane says: when billing lapses
\* for good it stops to report paid access; when billing stays active and the
\* session usable it reports it again, whatever denials came before: no guard
\* sticks but a blind one.
LicenseIsShown ==
  \A p \in Dashboard :
    /\ <>[](~ billing) => <>[](~ view[p])
    /\ <>[](billing /\ family = "live" /\ Connected(p)) => <>[](view[p] \/ Blind(p))
==============================================================================
