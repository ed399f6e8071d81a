---------------------------- MODULE MemoryReplicas ----------------------------
(***************************************************************************)
(* One memory id replicated on several devices by engraphis/core/sync.py.  *)
(* Every device holds an unapproved (pending review) copy, the kind of row *)
(* that a peer's bundle may merge into; the trust boundary that protects   *)
(* approved, secret, session and quarantined rows is another module's.     *)
(*                                                                         *)
(* A device's local operations are those of the Store and the service:     *)
(* update_memory, close_validity, set_pinned and reinforce. Push replaces  *)
(* the device's one snapshot in the shared folder, Pull applies the        *)
(* snapshot another device left there, however old it is by then.          *)
(***************************************************************************)
EXTENDS MergeRecord, FiniteSets

CONSTANTS
  Absent,           \* the device holds no row
  DeviceCount,      \* number of devices
  Origin,           \* the device that captures the memory
  Base,             \* the payload it is captured with
  ClosePoints,      \* the world times an operator may retire it at
  Skew,             \* Skew[d]: how far device d's wall clock is ahead
  LegacyPin,        \* is the row captured with the bare pinned flag?
  MaxClosures,      \* MAX_CLOSURE_OBSERVATIONS
  ReservedLocal,    \* RESERVED_LOCAL_CLOSURE_OBSERVATIONS
  MaxLogical,       \* MAX_HLC_LOGICAL
  MaxOps            \* bound on the local operations of a behaviour

\* Node ids of the HLCs, in their lexicographic order.
Device == 1..DeviceCount

ASSUME DeviceAssumption ==
  /\ DeviceCount \in Nat \ {0}
  /\ Absent \notin Record
  /\ Origin \in Device
  /\ Base \in Label
  /\ ClosePoints \subseteq Time
  /\ Skew \in [Device -> Nat]
  /\ LegacyPin \in BOOLEAN
  /\ MaxClosures \in Nat /\ ReservedLocal \in 0..MaxClosures
  /\ MaxLogical \in Nat
  /\ MaxOps \in Nat

PeerBudget == MaxClosures - ReservedLocal

LocalEnv == CHOOSE e \in Envelope : TRUE
PeerEnv == CHOOSE e \in Envelope : e # LocalEnv

VARIABLES
  rec,      \* rec[d]: device d's row, or Absent
  folder,   \* folder[d]: the row in d's snapshot in the shared folder, or Absent
  clock,    \* real time; every local operation takes some
  ops,      \* local operations so far
  seen,     \* history: the local operations that rec[d] incorporates
  sent,     \* history: the local operations that folder[d] incorporates
  closes    \* history: closures that d itself wrote

vars == <<rec, folder, clock, ops, seen, sent, closes>>

Present(d) == rec[d] # Absent

Now(d) == clock + Skew[d]

------------------------------------------------------------------------------
\* Hybrid logical clock.

\* Mutant: the wall clock alone, no hybrid clock.
WallClock(current, node, now) == <<now, 0, node>>

\* advance_modified_hlc with no observed clock, as advance_memory_modified_hlc
\* calls it: a rolled-back or late wall clock never lowers it.
AdvanceHlc(current, node, now) ==
  LET physical == MaxOf(now, current[1])
      logical  == IF physical = current[1] THEN current[2] + 1 ELSE 0
  IN IF logical > MaxLogical THEN <<physical + 1, 0, node>>
     ELSE <<physical, logical, node>>

------------------------------------------------------------------------------
\* The captured row; correct() copies the bare pinned flag and no marker.
Captured ==
  [ label |-> Base, env |-> LocalEnv,
    modified_hlc |-> AdvanceHlc(NoHlc, Origin, Skew[Origin]),
    obs |-> {}, expired_at |-> None, stability |-> 1, access_count |-> 0,
    last_access |-> Skew[Origin],
    pinned |-> LegacyPin, pinned_at |-> None, unpinned_at |-> None ]

Init ==
  /\ rec = [d \in Device |-> IF d = Origin THEN Captured ELSE Absent]
  /\ folder = [d \in Device |-> Absent]
  /\ clock = 1
  /\ ops = 0
  /\ seen = [d \in Device |-> {}]
  /\ sent = [d \in Device |-> {}]
  /\ closes = [d \in Device |-> 0]

\* Every local operation is one committed write transaction on d's row.
LocalWrite(d, r) ==
  /\ ops < MaxOps
  /\ rec' = [rec EXCEPT ![d] = r]
  /\ ops' = ops + 1
  /\ clock' = clock + 1
  /\ seen' = [seen EXCEPT ![d] = @ \cup {ops + 1}]
  /\ UNCHANGED <<folder, sent>>

\* MemoryService.update_memory: in-place edit of title, type or importance. An
\* edit that changes nothing writes nothing. Content goes through correct(),
\* which creates another memory id; valid_from and ingested_at stay.
UpdateMemory(d, l) ==
  /\ Present(d)
  /\ l # rec[d].label
  /\ ValidFrom(l) = ValidFrom(rec[d].label)
  /\ IngestedAt(l) = IngestedAt(rec[d].label)
  /\ LocalWrite(d, [rec[d] EXCEPT
       !.label = l,
       !.modified_hlc = AdvanceHlc(@, d, Now(d))])
  /\ UNCHANGED closes

\* Store.close_validity. An endpoint before valid_from raises, and so does an
\* observation past the ceiling (the memory_closures trigger).
CloseValidity(d, at) ==
  LET o == <<at, Now(d)>> IN
  /\ Present(d)
  /\ at >= ValidFrom(rec[d].label)
  /\ Cardinality(rec[d].obs \cup {o}) <= MaxClosures
  /\ LocalWrite(d, [rec[d] EXCEPT !.obs = @ \cup {o}])
  /\ closes' = [closes EXCEPT ![d] = @ + 1]

\* Store.set_pinned: only a row in the other state is updated, and the
\* transition is stamped with the wall clock.
SetPinned(d, pinned) ==
  /\ Present(d)
  /\ rec[d].pinned # pinned
  /\ LocalWrite(d,
       IF pinned THEN [rec[d] EXCEPT !.pinned = TRUE, !.pinned_at = Now(d)]
                 ELSE [rec[d] EXCEPT !.pinned = FALSE, !.unpinned_at = Now(d)])
  /\ UNCHANGED closes

\* Store.reinforce: both counters grow, last_access is the wall clock.
Reinforce(d) ==
  /\ Present(d)
  /\ LocalWrite(d, [rec[d] EXCEPT !.access_count = @ + 1,
                                  !.stability = @ + 1,
                                  !.last_access = Now(d)])
  /\ UNCHANGED closes

------------------------------------------------------------------------------
\* The push half of SyncEngine.sync: the whole state replaces the device's file.
Push(d) ==
  /\ Present(d)
  /\ folder' = [folder EXCEPT ![d] = rec[d]]
  /\ sent' = [sent EXCEPT ![d] = seen[d]]
  /\ UNCHANGED <<rec, clock, ops, seen, closes>>

\* dict_to_record refuses a row whose interval is inverted or empty.
DictToRecordAccepts(r) ==
  r.obs = {} \/ EffectiveValidTo(r) > ValidFrom(r.label)

\* _rehome_external_record: a peer cannot vouch for its own payload.
Rehome(r) == [r EXCEPT !.env = PeerEnv]

\* Mutant: one ceiling for everybody, nothing reserved.
SharedCeiling(merged, known) == Cardinality(merged) > MaxClosures

\* _peer_closure_budget_exceeded, on the joined history.
PeerClosureBudgetExceeded(merged, known) ==
  \/ Cardinality(merged) > MaxClosures
  \/ /\ ~ merged \subseteq known
     /\ Cardinality(known \cup merged) > PeerBudget

\* _has_valid_closure_interval, for rows that are not quarantined.
HasValidClosureInterval(r) ==
  EffectiveValidTo(r) = None \/ EffectiveValidTo(r) > ValidFrom(r.label)

\* The row _apply_one would store: no local row, or an unapproved one.
Joined(existing, incoming) ==
  IF existing = Absent THEN Rehome(incoming)
  ELSE MergeRecord(existing, Rehome(incoming))

\* _apply_one: the three reasons it has to refuse such a row.
Accepts(existing, incoming) ==
  LET merged == Joined(existing, incoming)
      known  == IF existing = Absent THEN {} ELSE existing.obs
  IN /\ DictToRecordAccepts(incoming)
     /\ ~ PeerClosureBudgetExceeded(merged.obs, known)
     /\ HasValidClosureInterval(merged)

\* A refused row leaves the local one as it is.
ApplyOne(existing, incoming) ==
  IF Accepts(existing, incoming) THEN Joined(existing, incoming) ELSE existing

\* The pull half of SyncEngine.sync, for one snapshot. A device also pulls the
\* file it wrote itself.
Pull(d, e) ==
  /\ folder[e] # Absent
  /\ rec' = [rec EXCEPT ![d] = ApplyOne(@, folder[e])]
  /\ seen' = [seen EXCEPT ![d] = IF Accepts(rec[d], folder[e])
                                   THEN @ \cup sent[e] ELSE @]
  /\ UNCHANGED <<folder, clock, ops, sent, closes>>

------------------------------------------------------------------------------
Next ==
  \/ \E d \in Device, l \in Label : UpdateMemory(d, l)
  \/ \E d \in Device, at \in ClosePoints : CloseValidity(d, at)
  \/ \E d \in Device, p \in BOOLEAN : SetPinned(d, p)
  \/ \E d \in Device : Reinforce(d)
  \/ \E d \in Device : Push(d)
  \/ \E d, e \in Device : Pull(d, e)

Spec == Init /\ [][Next]_vars

\* The users of every device keep syncing it, and a folder file stays readable: no
\* device stops pushing or pulling for ever. The package runs no loop of its own
\* (docs/SYNC.md), so this is an assumption about its users.
Fairness == /\ \A d \in Device : WF_vars(Push(d))
            /\ \A d, e \in Device : WF_vars(Pull(d, e))

FairSpec == Spec /\ Fairness

------------------------------------------------------------------------------
TypeOK ==
  /\ rec \in [Device -> Record \cup {Absent}]
  /\ folder \in [Device -> Record \cup {Absent}]
  /\ clock \in Nat
  /\ ops \in 0..MaxOps
  /\ seen \in [Device -> SUBSET (1..MaxOps)]
  /\ sent \in [Device -> SUBSET (1..MaxOps)]
  /\ closes \in [Device -> Nat]

\* What replicas have to agree on: all but the policy envelope, a bare pin
\* counting as one made at the epoch (the comment in _pin_lattice).
Synced(r) ==
  [ label |-> r.label, modified_hlc |-> r.modified_hlc, obs |-> r.obs,
    expired_at |-> r.expired_at, stability |-> r.stability,
    access_count |-> r.access_count, last_access |-> r.last_access,
    pinned |-> r.pinned, pinned_at |-> MaxOf(r.pinned_at, 0),
    unpinned_at |-> r.unpinned_at ]

\* Two devices that have incorporated the same local operations hold the same
\* row, in whatever order, through whatever intermediaries and however often
\* the operations reached them ("the merged state is identical regardless of
\* which device syncs first", module docstring of core/sync.py).
SameHistorySameState ==
  \A d, e \in Device :
    Present(d) /\ Present(e) /\ seen[d] = seen[e] => Synced(rec[d]) = Synced(rec[e])

\* Applying a snapshot whose operations the device has already incorporated
\* changes nothing, later local edits included ("re-applying a bundle is a
\* no-op").
ReplayIsNoOp ==
  \A d, e \in Device :
    Present(d) /\ folder[e] # Absent /\ sent[e] \subseteq seen[d]
      => Synced(ApplyOne(rec[d], folder[e])) = Synced(rec[d])

\* The same for the descriptive payload alone, whatever the wall clocks say: an
\* edit made after seeing another one wins over it even when it was made on a
\* device whose clock is behind (advance_modified_hlc).
EditSurvivesReplay ==
  \A d, e \in Device :
    Present(d) /\ folder[e] # Absent /\ sent[e] \subseteq seen[d]
      => /\ ApplyOne(rec[d], folder[e]).label = rec[d].label
         /\ ApplyOne(rec[d], folder[e]).obs = rec[d].obs

\* No step forgets a closure observation, reopens a closed interval or lets an
\* older payload replace a newer one.
HistoryGrows ==
  [][\A d \in Device : Present(d) =>
       /\ rec'[d] # Absent
       /\ rec[d].obs \subseteq rec'[d].obs
       /\ KeyGeq(VersionKey(rec'[d]), VersionKey(rec[d]))]_vars

\* A memory whose closure history is full got there by the closures of the
\* local writer: peers alone never use up the headroom reserved for it, so a
\* local retirement is refused only after ReservedLocal local ones.
PeerNeverStarvesLocal ==
  \A d \in Device : Present(d) /\ Cardinality(rec[d].obs) = MaxClosures
    => closes[d] >= ReservedLocal

\* Once the last local operation is done, every device ends up with the same
\* row and keeps it, clock skew or not.
EventuallyConverged ==
  <>[](\A d, e \in Device : Present(d) /\ Synced(rec[d]) = Synced(rec[e]))

==============================================================================
