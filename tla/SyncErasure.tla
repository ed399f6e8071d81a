----------------------------- MODULE SyncErasure -----------------------------
(***************************************************************************)
(* Secure erasure and the trust boundary of engraphis/core/sync.py: export *)
(* markers, tombstones and their export class, what a peer's bundle may do *)
(* to a local row, and the conflict successors of concurrent edits. Each   *)
(* device runs one round of SyncEngine.sync at a time; its operator works  *)
(* meanwhile. Which snapshots are fresh is SnapshotChain's matter.         *)
(***************************************************************************)
EXTENDS Integers, FiniteSets

CONSTANTS
  DeviceCount,
  Memory,       \* ids captured by the devices
  Id,           \* those and the ids of their conflict successors
  Successor,    \* Successor[m]: _conflict_memory_id of the two variants of m
  Origin,       \* Origin[m]: the device that captures m
  Captured,     \* Captured[m]: the trust it is captured with
  Digest,       \* the memories that consolidation derived from others
  Poisoned,     \* ids whose content the poisoning policy quarantines
  Trusted,      \* Trusted[d]: d's erase_device_allowlist
  Feature       \* Feature[d]: what may happen on d, a subset of FeatureKind

Device == 1..DeviceCount

\* approved: provenance_is_approved; secret: also session scope; unreviewed: a
\* row without a review state, as direct writers of the Store leave it.
Trust == {"approved", "secret", "pending", "quarantined", "unreviewed"}

FeatureKind == {"crash", "race", "conflict"}

ASSUME ErasureAssumption ==
  /\ DeviceCount \in Nat
  /\ Memory \subseteq Id
  /\ Successor \in [Memory -> Id \ Memory]
  /\ Origin \in [Memory -> Device]
  /\ Captured \in [Memory -> Trust]
  /\ Digest \subseteq Memory
  /\ Poisoned \subseteq Id
  /\ Trusted \in [Device -> SUBSET Device]
  /\ Feature \in [Device -> SUBSET FeatureKind]

VARIABLES
  row,      \* row[d][m]: d's row, or NoRow
  tomb,     \* tomb[d][m]: the export class of d's tombstone, or "none"
  marked,   \* marked[d]: ids with a committed export marker
  file,     \* file[d]: d's bundle in the transport
  own,      \* own[d]: does d's own checkpoint know that bundle?
  pc,       \* where d's round is
  todo,     \* devices whose file the round has still to pull
  cur,      \* the bundle that d applies or pushes
  live,     \* live[d]: tombstoned ids as the apply has read them
  erased,   \* history: ids that d's operator has erased
  late,     \* history: those of them erased since the apply has read live[d]
  sent,     \* history: ids whose content d has pushed
  unmarked  \* history: those of them that only rounds have pushed which died

vars == <<row, tomb, marked, file, own, pc, todo, cur, live,
          erased, late, sent, unmarked>>

\* What only SecureErase, the end of an apply, Push, Commit and Crash touch.
history == <<erased, late, sent, unmarked>>

NoRow == [trust |-> "none", ver |-> 0]

\* ver is the device that made the edit; 0 is the text as captured. The edits
\* of different devices are concurrent: they carry the same HLC instant.
Version == 0..DeviceCount
Row == [trust : Trust, ver : Version]

\* What a bundle holds of a row is its version, -1 if it holds none.
Bundle == [dev : 0..DeviceCount, rows : [Id -> -1..DeviceCount], tombs : SUBSET Id]

NoBundle == [dev |-> 0, rows |-> [m \in Id |-> -1], tombs |-> {}]

Content(b) == {m \in Id : b.rows[m] >= 0}

Present(d) == {m \in Id : row[d][m] # NoRow}

Init ==
  /\ row = [d \in Device |-> [m \in Id |->
              IF m \in Memory /\ Origin[m] = d THEN [trust |-> Captured[m], ver |-> 0]
              ELSE NoRow]]
  /\ tomb = [d \in Device |-> [m \in Id |-> "none"]]
  /\ marked = [d \in Device |-> {}]
  /\ file = [d \in Device |-> NoBundle]
  /\ own = [d \in Device |-> TRUE]
  /\ pc = [d \in Device |-> "idle"]
  /\ todo = [d \in Device |-> {}]
  /\ cur = [d \in Device |-> NoBundle]
  /\ live = [d \in Device |-> {}]
  /\ erased = [d \in Device |-> {}]
  /\ late = [d \in Device |-> {}]
  /\ sent = [d \in Device |-> {}]
  /\ unmarked = [d \in Device |-> {}]

\* The marker transaction of a round excludes every other writer.
Locked(d) == pc[d] \in {"push", "commit"}

------------------------------------------------------------------------------
\* The operator.

\* An edit of m on d, in the same HLC instant as the others'.
Edit(d, m) ==
  /\ "conflict" \in Feature[d]
  /\ ~ Locked(d)
  /\ m \in Present(d)
  /\ row[d][m].ver = 0
  /\ row' = [row EXCEPT ![d][m].ver = d]
  /\ UNCHANGED <<tomb, marked, file, own, pc, todo, cur, live, history>>

\* _inherit_safety, in a transaction after the one that wrote the digest: it
\* becomes secret with a source. Only the device that derived it knows it as a
\* digest; elsewhere its provenance is "sync". The other outcome, an untrusted
\* digest, is one that is captured as pending.
InheritSafety(d, m) ==
  /\ ~ Locked(d)
  /\ m \in Digest /\ Origin[m] = d
  /\ m \in Present(d)
  /\ row[d][m].trust # "secret"
  /\ row' = [row EXCEPT ![d][m].trust = "secret"]
  /\ UNCHANGED <<tomb, marked, file, own, pc, todo, cur, live, history>>

\* _secure_erase_targets: m and the conflict successors that d holds of it.
EraseTargets(d, m) ==
  {m} \cup (IF m \in Memory THEN {Successor[m]} \cap Present(d) ELSE {})

\* Mutant: the current row is consulted, and not the export marker.
ClassByRow(d, m) ==
  IF row[d][m].trust # "secret" \/ tomb[d][m] = "remote" THEN "remote" ELSE "never"

\* The class of the tombstone of an erasure: only a marker proves that the
\* content has left the device; a remote marker is never retracted.
ExportClass(d, m) ==
  IF m \in marked[d] \/ tomb[d][m] = "remote" THEN "remote" ELSE "never"

\* MemoryService.secure_erase: rows and tombstones in one transaction, which
\* fails if add_memory_tombstone would have to export a never_export marker.
SecureErase(d, m) ==
  LET targets == EraseTargets(d, m) IN
  /\ ~ Locked(d)
  /\ pc[d] = "rows" => "race" \in Feature[d]
  /\ m \in Present(d)
  /\ \A n \in targets : n \in marked[d] => tomb[d][n] # "never"
  /\ row' = [row EXCEPT ![d] = [n \in Id |-> IF n \in targets THEN NoRow ELSE @[n]]]
  /\ tomb' = [tomb EXCEPT ![d] =
       [n \in Id |-> IF n \in targets THEN ExportClass(d, n) ELSE @[n]]]
  /\ erased' = [erased EXCEPT ![d] = @ \cup targets]
  /\ late' = [late EXCEPT ![d] = IF pc[d] = "rows" THEN @ \cup targets ELSE @]
  /\ UNCHANGED <<marked, file, own, pc, todo, cur, live, sent, unmarked>>

------------------------------------------------------------------------------
\* The pull half of a round.

Start(d) ==
  /\ pc[d] = "idle"
  /\ pc' = [pc EXCEPT ![d] = "pull"]
  /\ todo' = [todo EXCEPT ![d] = {e \in Device : file[e] # NoBundle /\ (e = d => ~ own[d])}]
  /\ UNCHANGED <<row, tomb, marked, file, own, cur, live, history>>

\* The rows that a peer's erasure may never touch.
Protected(r) == r.trust \in {"approved", "secret"}

\* _tombstone_target_is_held.
Held(r) == r.trust \in {"pending", "quarantined"}

\* Mutant: only the approval is looked at.
AcceptsAnyErasure(d, e, m) == row[d][m].trust # "approved" /\ e \in Trusted[d]

\* Mutant: the sender is not looked at.
AcceptsFromAnyone(d, e, m) == tomb[d][m] # "never" /\ ~ Protected(row[d][m])

\* apply_bundle: the tombstones of e's bundle that d records.
AcceptsErasure(d, e, m) ==
  /\ tomb[d][m] # "never"
  /\ ~ Protected(row[d][m])
  /\ e \in Trusted[d]

\* The first transaction of apply_bundle: markers, and the rows that are
\* neither protected nor held for review. _apply_memories then reads the
\* tombstones once for all batches.
ApplyTombstones(d, e) ==
  LET b == file[e]
      taken == {m \in b.tombs : AcceptsErasure(d, e, m)}
  IN /\ pc[d] = "pull"
     /\ e \in todo[d]
     /\ tomb' = [tomb EXCEPT ![d] = [m \in Id |-> IF m \in taken THEN "remote" ELSE @[m]]]
     /\ row' = [row EXCEPT ![d] =
          [m \in Id |-> IF m \in taken /\ ~ Held(@[m]) THEN NoRow ELSE @[m]]]
     /\ live' = [live EXCEPT ![d] = {m \in Id : tomb'[d][m] # "none"}]
     /\ cur' = [cur EXCEPT ![d] = b]
     /\ todo' = [todo EXCEPT ![d] = @ \ {e}]
     /\ pc' = [pc EXCEPT ![d] = "rows"]
     /\ UNCHANGED <<marked, file, own, history>>

\* _rehome_external_record: a row from a peer is untrusted.
Arrived(m, v) ==
  [trust |-> IF m \in Poisoned THEN "quarantined" ELSE "pending", ver |-> v]

\* Mutant: tombstones are not consulted.
AdmitsErased(d, m) == cur[d].rows[m] >= 0 /\ ~ Protected(row[d][m])

\* _apply_one: does the bundle's row of m reach the local one?
Admits(d, m) ==
  /\ cur[d].rows[m] >= 0
  /\ m \notin live[d]
  /\ ~ Protected(row[d][m])

\* The row that it leaves: added, or merged with quarantine sticky.
Merged(d, m) ==
  LET r == row[d][m]
      in == Arrived(m, cur[d].rows[m])
  IN IF r = NoRow THEN in
     ELSE IF in.ver <= r.ver THEN r
     ELSE [in EXCEPT !.trust = IF r.trust = "quarantined" THEN r.trust ELSE @]

\* _hlc_conflict: both sides were edited, differently. An approved row is kept
\* as it is, and the peer's variant still becomes a successor.
Conflicts(d, m) ==
  /\ m \in Memory
  /\ m \notin live[d]
  /\ row[d][m] # NoRow /\ row[d][m].trust # "secret"
  /\ row[d][m].ver > 0 /\ cur[d].rows[m] > 0
  /\ row[d][m].ver # cur[d].rows[m]

\* _preserve_hlc_conflict: the losing variant, once, as an untrusted row that
\* stays quarantined if that variant was.
Preserved(d, m) ==
  LET arrivedLoses == cur[d].rows[m] < row[d][m].ver
      isolated == row[d][m].trust = "quarantined" \/ (arrivedLoses /\ m \in Poisoned)
  IN [ trust |-> IF isolated THEN "quarantined" ELSE "pending",
       ver |-> IF arrivedLoses THEN cur[d].rows[m] ELSE row[d][m].ver ]

\* The row batches, then the checkpoint of the bundle.
ApplyMemories(d) ==
  LET conflicts == {m \in Memory : Conflicts(d, m)}
      applied == [m \in Id |-> IF Admits(d, m) THEN Merged(d, m) ELSE row[d][m]]
  IN /\ pc[d] = "rows"
     /\ row' = [row EXCEPT ![d] = [n \in Id |->
          IF applied[n] = NoRow /\ \E m \in conflicts : Successor[m] = n
          THEN Preserved(d, CHOOSE m \in conflicts : Successor[m] = n)
          ELSE applied[n]]]
     /\ own' = [own EXCEPT ![d] = @ \/ cur[d].dev = d]
     /\ live' = [live EXCEPT ![d] = {}]
     /\ late' = [late EXCEPT ![d] = {}]
     /\ cur' = [cur EXCEPT ![d] = NoBundle]
     /\ pc' = [pc EXCEPT ![d] = "pull"]
     /\ UNCHANGED <<tomb, marked, file, todo, erased, sent, unmarked>>

------------------------------------------------------------------------------
\* The push half of a round.

Shareable(r) == r.trust \notin {"none", "secret"}

\* Mutant: the bundle carries rows and no tombstones.
ExportRowsOnly(d) ==
  /\ pc[d] = "pull"
  /\ todo[d] = {}
  /\ cur' = [cur EXCEPT ![d] =
       [ dev |-> d,
         rows |-> [m \in Id |-> IF Shareable(row[d][m]) THEN row[d][m].ver ELSE -1],
         tombs |-> {} ]]
  /\ pc' = [pc EXCEPT ![d] = "mark"]
  /\ UNCHANGED <<row, tomb, marked, file, own, todo, live, history>>

\* export_bundle: shareable rows, and the tombstones classed remote_erasure.
Export(d) ==
  /\ pc[d] = "pull"
  /\ todo[d] = {}
  /\ cur' = [cur EXCEPT ![d] =
       [ dev |-> d,
         rows |-> [m \in Id |-> IF Shareable(row[d][m]) THEN row[d][m].ver ELSE -1],
         tombs |-> {m \in Id : tomb[d][m] = "remote"} ]]
  /\ pc' = [pc EXCEPT ![d] = "mark"]
  /\ UNCHANGED <<row, tomb, marked, file, own, todo, live, history>>

\* Mutant: the rows are not read again.
MarkUnchecked(d) ==
  /\ pc[d] = "mark"
  /\ pc' = [pc EXCEPT ![d] = "push"]
  /\ UNCHANGED <<row, tomb, marked, file, own, todo, cur, live, history>>

\* mark_memories_sync_exported reads every exported row again, now holding the
\* writer; one that is gone or no longer shareable aborts the round.
Mark(d) ==
  /\ pc[d] = "mark"
  /\ pc' = [pc EXCEPT ![d] =
       IF \A m \in Content(cur[d]) : Shareable(row[d][m]) THEN "push" ELSE "idle"]
  /\ cur' = [cur EXCEPT ![d] = IF pc'[d] = "push" THEN @ ELSE NoBundle]
  /\ UNCHANGED <<row, tomb, marked, file, own, todo, live, history>>

Push(d) ==
  /\ pc[d] = "push"
  /\ file' = [file EXCEPT ![d] = cur[d]]
  /\ own' = [own EXCEPT ![d] = FALSE]
  /\ sent' = [sent EXCEPT ![d] = @ \cup Content(cur[d])]
  /\ pc' = [pc EXCEPT ![d] = "commit"]
  /\ UNCHANGED <<row, tomb, marked, todo, cur, live, erased, late, unmarked>>

\* Markers and checkpoint are committed together.
Commit(d) ==
  /\ pc[d] = "commit"
  /\ marked' = [marked EXCEPT ![d] = @ \cup Content(cur[d])]
  /\ unmarked' = [unmarked EXCEPT ![d] = @ \ Content(cur[d])]
  /\ own' = [own EXCEPT ![d] = TRUE]
  /\ cur' = [cur EXCEPT ![d] = NoBundle]
  /\ pc' = [pc EXCEPT ![d] = "idle"]
  /\ UNCHANGED <<row, tomb, file, todo, live, erased, late, sent>>

\* The process dies; what it had not committed is gone.
Crash(d) ==
  /\ "crash" \in Feature[d]
  /\ pc[d] # "idle"
  /\ pc' = [pc EXCEPT ![d] = "idle"]
  /\ todo' = [todo EXCEPT ![d] = {}]
  /\ cur' = [cur EXCEPT ![d] = NoBundle]
  /\ live' = [live EXCEPT ![d] = {}]
  /\ late' = [late EXCEPT ![d] = {}]
  /\ unmarked' = [unmarked EXCEPT ![d] =
       IF pc[d] = "commit" THEN @ \cup (Content(cur[d]) \ marked[d]) ELSE @]
  /\ UNCHANGED <<row, tomb, marked, file, own, erased, sent>>

------------------------------------------------------------------------------
Operator(d) == \E m \in Id : Edit(d, m) \/ InheritSafety(d, m) \/ SecureErase(d, m)

Round(d) ==
  \/ Start(d) \/ (\E e \in Device : ApplyTombstones(d, e)) \/ ApplyMemories(d)
  \/ Export(d) \/ Mark(d) \/ Push(d) \/ Commit(d)

Next == \E d \in Device : Operator(d) \/ Round(d) \/ Crash(d)

Spec == Init /\ [][Next]_vars

\* Users keep syncing every device (from the dashboard, the command line or a
\* job of their own: the package runs no loop, docs/SYNC.md), and a round that
\* is under way goes on.
FairSpec == Spec /\ \A d \in Device : WF_vars(Round(d))

------------------------------------------------------------------------------
TypeOK ==
  /\ row \in [Device -> [Id -> Row \cup {NoRow}]]
  /\ tomb \in [Device -> [Id -> {"none", "never", "remote"}]]
  /\ marked \in [Device -> SUBSET Id]
  /\ file \in [Device -> Bundle]
  /\ own \in [Device -> BOOLEAN]
  /\ pc \in [Device -> {"idle", "pull", "rows", "mark", "push", "commit"}]
  /\ todo \in [Device -> SUBSET Device]
  /\ cur \in [Device -> Bundle]
  /\ live \in [Device -> SUBSET Id]
  /\ erased \in [Device -> SUBSET Id]
  /\ late \in [Device -> SUBSET Id]
  /\ sent \in [Device -> SUBSET Id]
  /\ unmarked \in [Device -> SUBSET Id]

\* What a device pushes is still in its store, and still shareable, when it is
\* pushed, whatever its operator erased or restricted since the export: the
\* markers "bind ... to the exact live rows selected for this push".
PushedRowsAreLive ==
  [][\A d \in Device : file'[d] # file[d]
       => \A m \in Content(file'[d]) : Shareable(row[d][m])]_vars

\* A pull never removes, restricts or approves a row that is approved, secret,
\* or held for review: "A peer assertion is not erase authority".
PeersNeverRemoveReviewed ==
  [][\A d \in Device, m \in Id :
       /\ pc[d] \in {"pull", "rows"} /\ pc'[d] # pc[d]
       /\ Protected(row[d][m]) \/ Held(row[d][m])
       => /\ row'[d][m] # NoRow
          /\ Protected(row'[d][m]) <=> Protected(row[d][m])
          /\ row[d][m].trust = "quarantined" => row'[d][m].trust = "quarantined"]_vars

\* A tombstone goes back to an operator's erasure on a device that is trusted:
\* whatever forwards it, no set of devices that trust only each other ever holds
\* the tombstone of an id that none of their operators has erased.
ErasuresHaveAuthority ==
  \A S \in SUBSET Device :
    (\A e \in S : Trusted[e] \subseteq S)
      => \A d \in S : \A m \in Id :
           tomb[d][m] # "none" => \E e \in S : m \in erased[e]

\* The conflict successors of the memories that d holds.
HeldVariants(d) == {Successor[m] : m \in Memory \cap Present(d)}

\* An erased id comes back in two ways only: it was erased after the apply that
\* brings it had read the tombstones, or it preserves a variant of a memory
\* that the device still holds. No later bundle, no forwarding peer and no
\* round that died revives it ("secure-erase tombstones are terminal",
\* core/sync.py).
ErasedStaysErased ==
  [][\A d \in Device : (erased[d] \cap Present(d)') \ Present(d)
                         \subseteq late[d] \cup HeldVariants(d)]_vars

\* An erasure that is kept from the peers is one of content that the device
\* never sent, but in a round that died before its markers were committed:
\* "never_export markers (secret, session, reserved user-scope, migrated
\* legacy) stay local" (docs/SYNC.md).
NeverExportNeverSent ==
  \A d \in Device : \A m \in sent[d] \ Present(d) :
    tomb[d][m] = "never" => m \in unmarked[d]

\* A remote erasure reaches every device that trusts its author, unless the
\* row is protected there.
ErasureArrives ==
  \A d, e \in Device : \A m \in Id :
    d \in Trusted[e] /\ tomb[d][m] = "remote"
      ~> tomb[e][m] # "none" \/ Protected(row[e][m])

==============================================================================
