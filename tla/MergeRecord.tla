----------------------------- MODULE MergeRecord -----------------------------
(***************************************************************************)
(* The record merge of engraphis/core/sync.py: the join that two versions  *)
(* of ONE memory id go through when a bundle is applied.                   *)
(*                                                                         *)
(* A record keeps the fields that the merge tells apart:                   *)
(*   label        the descriptive payload (_label_tuple): one value of the *)
(*                constant set Label stands for title, content, keywords,  *)
(*                ..., valid_from and ingested_at together                 *)
(*   env          the local policy envelope (provenance and the local      *)
(*                metadata fields), which _label_tuple leaves out          *)
(*   modified_hlc the HLC <<physical, logical, node>>; the string is fixed *)
(*                width, so its order is the lexicographic one; NoHlc is   *)
(*                the empty pre-v13 sentinel                               *)
(*   obs          closure_observations, a set of pairs                     *)
(*                <<valid_to, recorded_at>>; valid_to is their projection  *)
(*   expired_at, stability, access_count, last_access                      *)
(*   pinned, pinned_at, unpinned_at                                        *)
(* id, workspace_id and repo_id are those of the local record in every     *)
(* merge and are left out.                                                 *)
(***************************************************************************)
EXTENDS Integers

CONSTANTS
  Label,          \* descriptive payloads
  Envelope,       \* local policy envelopes
  PayloadHash(_), \* _stable_hash(_label_tuple(rec)), as a number
  IngestedAt(_),  \* ingested_at of a payload
  ValidFrom(_)    \* valid_from of a payload

\* sha256 is taken to be collision free; ingested_at and valid_from are part of
\* the hashed payload, so they are functions of it.
ASSUME LabelAssumption ==
  /\ \A l \in Label : /\ PayloadHash(l) \in Nat
                      /\ IngestedAt(l) \in Nat
                      /\ ValidFrom(l) \in Nat
  /\ \A l, m \in Label : PayloadHash(l) = PayloadHash(m) => l = m

\* At least the local and the peer envelope.
ASSUME EnvelopeAssumption == \E e, f \in Envelope : e # f

\* Python's None for an optional timestamp; timestamps themselves are >= 0
\* (_clamp_ts, _clamp_world_ts).
None == -1

Time == Nat
OptTime == Nat \cup {None}

\* Node ids start at 1.
Hlc == Nat \X Nat \X Nat
NoHlc == <<0, 0, 0>>

Observation == Time \X OptTime

Record ==
  [ label : Label, env : Envelope, modified_hlc : Hlc,
    obs : SUBSET Observation,
    expired_at : OptTime, stability : Nat, access_count : Nat,
    last_access : OptTime,
    pinned : BOOLEAN, pinned_at : OptTime, unpinned_at : OptTime ]

------------------------------------------------------------------------------
\* Joins of the scalar fields.

MinNonnull(a, b) == IF a = None THEN b
                    ELSE IF b = None THEN a
                    ELSE IF a <= b THEN a ELSE b

MaxNonnull(a, b) == IF a = None THEN b
                    ELSE IF b = None THEN a
                    ELSE IF a >= b THEN a ELSE b

\* Mutant: counters added up instead of joined.
AddUp(a, b) == a + b

MaxOf(a, b) == IF a >= b THEN a ELSE b

------------------------------------------------------------------------------
\* Version order of the descriptive payload.

\* _version_key: <<initialised HLC?, HLC, ingested_at, payload hash>>.
VersionKey(r) ==
  LET h == r.modified_hlc IN
  IF h # NoHlc
    THEN <<1, h[1], h[2], h[3], 0, PayloadHash(r.label)>>
    ELSE <<0, 0, 0, 0, IngestedAt(r.label), PayloadHash(r.label)>>

\* Python's >= on the key tuples: lexicographic.
KeyGeq(k, m) ==
  \/ k[1] > m[1]
  \/ /\ k[1] = m[1]
     /\ \/ k[2] > m[2]
        \/ /\ k[2] = m[2]
           /\ \/ k[3] > m[3]
              \/ /\ k[3] = m[3]
                 /\ \/ k[4] > m[4]
                    \/ /\ k[4] = m[4]
                       /\ \/ k[5] > m[5]
                          \/ k[5] = m[5] /\ k[6] >= m[6]

\* Mutants: the version order ignored on one side or the other.
LastReceivedWins(local, incoming) == incoming
LocalWins(local, incoming) == local

Winner(local, incoming) ==
  IF KeyGeq(VersionKey(local), VersionKey(incoming)) THEN local ELSE incoming

------------------------------------------------------------------------------
\* Closure history.

\* The canonical order of normalize_closure_observations: earliest endpoint,
\* then the always-known assertion (None), then increasing knowledge time.
ObsLeq(o, p) == o[1] < p[1] \/ (o[1] = p[1] /\ o[2] <= p[2])

\* _closure_projection: the first observation in canonical order.
ClosureProjection(obs) ==
  IF obs = {} THEN <<None, None>>
  ELSE CHOOSE o \in obs : \A p \in obs : ObsLeq(o, p)

\* Mutant: closures follow the last writer.
WinnerObs(local, incoming) == Winner(local, incoming).obs

MergeObs(local, incoming) == local.obs \cup incoming.obs

EffectiveValidTo(r) == ClosureProjection(r.obs)[1]

------------------------------------------------------------------------------
\* Pin state.

\* _normalise_pin_state: contradictory marker combinations are dropped.
NormalisePin(r) ==
  IF r.pinned
    THEN IF r.pinned_at = None
           THEN [pinned |-> TRUE, pinned_at |-> None, unpinned_at |-> None]
           ELSE [pinned |-> r.unpinned_at = None \/ r.pinned_at > r.unpinned_at,
                 pinned_at |-> r.pinned_at, unpinned_at |-> r.unpinned_at]
    ELSE [pinned |-> FALSE,
          pinned_at |-> IF r.pinned_at # None
                           /\ (r.unpinned_at = None \/ r.pinned_at > r.unpinned_at)
                          THEN None ELSE r.pinned_at,
          unpinned_at |-> r.unpinned_at]

\* The boolean that a pair of latest markers stands for.
PinnedBy(pinned_at, unpinned_at) ==
  IF unpinned_at = None THEN pinned_at # None
  ELSE pinned_at # None /\ pinned_at > unpinned_at

PinLattice(local, incoming) ==
  LET l  == NormalisePin(local)
      i  == NormalisePin(incoming)
      p0 == MaxNonnull(l.pinned_at, i.pinned_at)
      u  == MaxNonnull(l.unpinned_at, i.unpinned_at)
      p  == IF p0 = None /\ (l.pinned \/ i.pinned) THEN 0 ELSE p0
  IN [pinned |-> PinnedBy(p, u), pinned_at |-> p, unpinned_at |-> u]

------------------------------------------------------------------------------
MergeRecord(local, incoming) ==
  LET w   == Winner(local, incoming)
      pin == PinLattice(local, incoming)
  IN [ label        |-> w.label,
       env          |-> w.env,
       modified_hlc |-> w.modified_hlc,
       obs          |-> MergeObs(local, incoming),
       expired_at   |-> MinNonnull(local.expired_at, incoming.expired_at),
       stability    |-> MaxOf(local.stability, incoming.stability),
       access_count |-> MaxOf(local.access_count, incoming.access_count),
       last_access  |-> MaxNonnull(local.last_access, incoming.last_access),
       pinned       |-> pin.pinned,
       pinned_at    |-> pin.pinned_at,
       unpinned_at  |-> pin.unpinned_at ]

==============================================================================
