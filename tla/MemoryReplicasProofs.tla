------------------------- MODULE MemoryReplicasProofs -------------------------
(***************************************************************************)
(* merge_record is a join: on everything that replicas share it is         *)
(* commutative, associative and idempotent, for every set of payloads and  *)
(* every assignment of clocks. From that, invariants of MemoryReplicas for *)
(* any number of devices and of local operations.                          *)
(***************************************************************************)
EXTENDS MemoryReplicas, FiniteSetTheorems, TLAPS

\* What replicas share: the record without the local policy envelope.
Core(r) ==
  [ label |-> r.label, modified_hlc |-> r.modified_hlc, obs |-> r.obs,
    expired_at |-> r.expired_at, stability |-> r.stability,
    access_count |-> r.access_count, last_access |-> r.last_access,
    pinned |-> r.pinned, pinned_at |-> r.pinned_at, unpinned_at |-> r.unpinned_at ]

------------------------------------------------------------------------------
(* The scalar joins. *)

\* The three scalar joins are closed, commutative and associative.
LEMMA ScalarJoins ==
  ASSUME NEW a \in OptTime, NEW b \in OptTime, NEW c \in OptTime
  PROVE  /\ MinNonnull(a, b) \in OptTime
         /\ MinNonnull(a, b) = MinNonnull(b, a)
         /\ MinNonnull(MinNonnull(a, b), c) = MinNonnull(a, MinNonnull(b, c))
         /\ MaxNonnull(a, b) \in OptTime
         /\ MaxNonnull(a, b) = MaxNonnull(b, a)
         /\ MaxNonnull(MaxNonnull(a, b), c) = MaxNonnull(a, MaxNonnull(b, c))
  BY DEF MinNonnull, MaxNonnull, OptTime, None

LEMMA CounterJoin ==
  ASSUME NEW a \in Nat, NEW b \in Nat, NEW c \in Nat
  PROVE  /\ MaxOf(a, b) \in Nat
         /\ MaxOf(a, b) = MaxOf(b, a)
         /\ MaxOf(MaxOf(a, b), c) = MaxOf(a, MaxOf(b, c))
  BY DEF MaxOf

\* Joining again with either side changes nothing.
LEMMA Absorption ==
  ASSUME NEW a \in OptTime, NEW b \in OptTime, NEW c \in {a, b}
  PROVE  /\ MinNonnull(MinNonnull(a, b), c) = MinNonnull(a, b)
         /\ MaxNonnull(MaxNonnull(a, b), c) = MaxNonnull(a, b)
  BY DEF MinNonnull, MaxNonnull, OptTime, None

LEMMA CounterAbsorption ==
  ASSUME NEW a \in Nat, NEW b \in Nat, NEW c \in {a, b}
  PROVE  MaxOf(MaxOf(a, b), c) = MaxOf(a, b)
  BY DEF MaxOf

------------------------------------------------------------------------------
(* The version order. *)

Key == Nat \X Nat \X Nat \X Nat \X Nat \X Nat

LEMMA VersionKeyType ==
  ASSUME NEW r \in Record
  PROVE  VersionKey(r) \in Key
  BY LabelAssumption DEF VersionKey, Record, Hlc, NoHlc, Key

\* The lexicographic order on keys is a total order.
LEMMA KeyOrder ==
  ASSUME NEW k \in Key, NEW m \in Key, NEW n \in Key
  PROVE  /\ KeyGeq(k, m) \/ KeyGeq(m, k)
         /\ KeyGeq(k, m) /\ KeyGeq(m, k) => k = m
         /\ KeyGeq(k, m) /\ KeyGeq(m, n) => KeyGeq(k, n)
  BY DEF KeyGeq, Key

\* Equal keys are the same version: the payload hash identifies the payload
\* and the key carries the HLC.
LEMMA EqualKeys ==
  ASSUME NEW a \in Record, NEW b \in Record, VersionKey(a) = VersionKey(b)
  PROVE  a.label = b.label /\ a.modified_hlc = b.modified_hlc
  <1>1. a.label \in Label /\ b.label \in Label
        /\ a.modified_hlc \in Hlc /\ b.modified_hlc \in Hlc
    BY DEF Record
  <1>2. PayloadHash(a.label) = PayloadHash(b.label)
    BY DEF VersionKey
  <1>3. a.label = b.label
    BY <1>1, <1>2, LabelAssumption
  <1>4. a.modified_hlc = b.modified_hlc
    BY <1>1 DEF VersionKey, Hlc, NoHlc
  <1> QED BY <1>3, <1>4

\* The winner is one of the two and its key is an upper bound of both.
LEMMA WinnerIsMax ==
  ASSUME NEW a \in Record, NEW b \in Record
  PROVE  /\ Winner(a, b) \in {a, b}
         /\ KeyGeq(VersionKey(Winner(a, b)), VersionKey(a))
         /\ KeyGeq(VersionKey(Winner(a, b)), VersionKey(b))
  BY VersionKeyType, KeyOrder DEF Winner

\* The descriptive version of a record: what last-writer-wins decides.
Version(r) == <<r.label, r.modified_hlc>>

\* A record's version key is a function of its version.
LEMMA KeyOfVersion ==
  ASSUME NEW a \in Record, NEW b \in Record, Version(a) = Version(b)
  PROVE  VersionKey(a) = VersionKey(b)
  BY DEF Version, VersionKey

\* Two records that bound each other are the same version.
LEMMA SameVersion ==
  ASSUME NEW a \in Record, NEW b \in Record,
         KeyGeq(VersionKey(a), VersionKey(b)), KeyGeq(VersionKey(b), VersionKey(a))
  PROVE  Version(a) = Version(b)
  BY VersionKeyType, KeyOrder, EqualKeys DEF Version

------------------------------------------------------------------------------
(* The pin lattice. *)

PinState == [pinned : BOOLEAN, pinned_at : OptTime, unpinned_at : OptTime]

\* The two markers that a record's pin state stands for: a bare pin is one made
\* at the epoch, a marker that its flag contradicts counts for nothing.
PinMark(r) ==
  LET n == NormalisePin(r)
  IN IF n.pinned /\ n.pinned_at = None THEN 0 ELSE n.pinned_at
UnpinMark(r) == NormalisePin(r).unpinned_at

LEMMA MarkTypes ==
  ASSUME NEW r, r.pinned \in BOOLEAN, r.pinned_at \in OptTime, r.unpinned_at \in OptTime
  PROVE  PinMark(r) \in OptTime /\ UnpinMark(r) \in OptTime
  BY DEF PinMark, UnpinMark, NormalisePin, OptTime, None

\* The lattice takes the later of each marker and derives the flag from them.
LEMMA PinLatticeIsMax ==
  ASSUME NEW a \in Record, NEW b \in Record
  PROVE  PinLattice(a, b) =
           LET p == MaxNonnull(PinMark(a), PinMark(b))
               u == MaxNonnull(UnpinMark(a), UnpinMark(b))
           IN [pinned |-> PinnedBy(p, u), pinned_at |-> p, unpinned_at |-> u]
  <1>1. /\ a.pinned \in BOOLEAN /\ b.pinned \in BOOLEAN
        /\ a.pinned_at \in OptTime /\ b.pinned_at \in OptTime
        /\ a.unpinned_at \in OptTime /\ b.unpinned_at \in OptTime
    BY DEF Record
  <1>2. LET l  == NormalisePin(a)
            i  == NormalisePin(b)
            p0 == MaxNonnull(l.pinned_at, i.pinned_at)
        IN (IF p0 = None /\ (l.pinned \/ i.pinned) THEN 0 ELSE p0)
             = MaxNonnull(PinMark(a), PinMark(b))
    BY <1>1 DEF NormalisePin, PinMark, MaxNonnull, OptTime, None
  <1> QED BY <1>2 DEF PinLattice, UnpinMark

\* A merged pin state is already normal: its markers are what it stands for.
LEMMA MergedPinIsNormal ==
  ASSUME NEW p \in OptTime, NEW u \in OptTime, NEW r,
         r.pinned = PinnedBy(p, u), r.pinned_at = p, r.unpinned_at = u
  PROVE  PinMark(r) = p /\ UnpinMark(r) = u
  BY DEF PinMark, UnpinMark, NormalisePin, PinnedBy, OptTime, None

------------------------------------------------------------------------------
(* merge_record *)

\* A merge of two records is a record.
THEOREM MergeType ==
  ASSUME NEW a \in Record, NEW b \in Record
  PROVE  MergeRecord(a, b) \in Record
  <1>1. Winner(a, b) \in Record
    BY DEF Winner
  <1>2. /\ MinNonnull(a.expired_at, b.expired_at) \in OptTime
        /\ MaxNonnull(a.last_access, b.last_access) \in OptTime
        /\ MaxOf(a.stability, b.stability) \in Nat
        /\ MaxOf(a.access_count, b.access_count) \in Nat
    BY ScalarJoins, CounterJoin DEF Record
  <1>3. MergeObs(a, b) \in SUBSET Observation
    BY DEF MergeObs, Record
  <1>4. PinLattice(a, b) \in PinState
    <2>1. /\ PinMark(a) \in OptTime /\ PinMark(b) \in OptTime
          /\ UnpinMark(a) \in OptTime /\ UnpinMark(b) \in OptTime
      BY MarkTypes DEF Record
    <2>2. /\ MaxNonnull(PinMark(a), PinMark(b)) \in OptTime
          /\ MaxNonnull(UnpinMark(a), UnpinMark(b)) \in OptTime
      BY <2>1, ScalarJoins
    <2>3. ASSUME NEW p \in OptTime, NEW u \in OptTime
          PROVE  PinnedBy(p, u) \in BOOLEAN
      BY DEF PinnedBy
    <2> QED BY <2>2, <2>3, PinLatticeIsMax DEF PinState
  <1> QED BY <1>1, <1>2, <1>3, <1>4 DEF MergeRecord, Record, PinState

\* A merged record carries the version of the winner and the later markers.
LEMMA MergeFields ==
  ASSUME NEW a \in Record, NEW b \in Record
  PROVE  /\ Version(MergeRecord(a, b)) = Version(Winner(a, b))
         /\ VersionKey(MergeRecord(a, b)) = VersionKey(Winner(a, b))
         /\ PinMark(MergeRecord(a, b)) = MaxNonnull(PinMark(a), PinMark(b))
         /\ UnpinMark(MergeRecord(a, b)) = MaxNonnull(UnpinMark(a), UnpinMark(b))
  <1> DEFINE p == MaxNonnull(PinMark(a), PinMark(b))
             u == MaxNonnull(UnpinMark(a), UnpinMark(b))
  <1>1. /\ PinMark(a) \in OptTime /\ PinMark(b) \in OptTime
        /\ UnpinMark(a) \in OptTime /\ UnpinMark(b) \in OptTime
    BY MarkTypes DEF Record
  <1>2. p \in OptTime /\ u \in OptTime
    BY <1>1, ScalarJoins
  <1>3. PinLattice(a, b) = [pinned |-> PinnedBy(p, u), pinned_at |-> p, unpinned_at |-> u]
    BY PinLatticeIsMax
  <1>4. /\ MergeRecord(a, b).pinned = PinnedBy(p, u)
        /\ MergeRecord(a, b).pinned_at = p
        /\ MergeRecord(a, b).unpinned_at = u
    BY <1>3 DEF MergeRecord
  <1>5. PinMark(MergeRecord(a, b)) = p /\ UnpinMark(MergeRecord(a, b)) = u
    <2> HIDE DEF p, u
    <2> QED BY <1>2, <1>4, MergedPinIsNormal
  <1>6. Version(MergeRecord(a, b)) = Version(Winner(a, b))
    BY DEF MergeRecord, Version
  <1>7. VersionKey(MergeRecord(a, b)) = VersionKey(Winner(a, b))
    BY <1>6, MergeType, KeyOfVersion, WinnerIsMax
  <1> QED BY <1>5, <1>6, <1>7


\* Which device merges into which makes no difference to what they then share.
THEOREM MergeCommutes ==
  ASSUME NEW a \in Record, NEW b \in Record
  PROVE  Core(MergeRecord(a, b)) = Core(MergeRecord(b, a))
  <1>1. Version(Winner(a, b)) = Version(Winner(b, a))
    BY WinnerIsMax, SameVersion
  <1>2. PinLattice(a, b) = PinLattice(b, a)
    <2>1. /\ PinMark(a) \in OptTime /\ PinMark(b) \in OptTime
          /\ UnpinMark(a) \in OptTime /\ UnpinMark(b) \in OptTime
      BY MarkTypes DEF Record
    <2>2. /\ MaxNonnull(PinMark(a), PinMark(b)) = MaxNonnull(PinMark(b), PinMark(a))
          /\ MaxNonnull(UnpinMark(a), UnpinMark(b)) = MaxNonnull(UnpinMark(b), UnpinMark(a))
      BY <2>1, ScalarJoins
    <2> QED BY <2>2, PinLatticeIsMax
  <1>3. MergeObs(a, b) = MergeObs(b, a)
    BY DEF MergeObs
  <1>4. /\ MinNonnull(a.expired_at, b.expired_at) = MinNonnull(b.expired_at, a.expired_at)
        /\ MaxNonnull(a.last_access, b.last_access) = MaxNonnull(b.last_access, a.last_access)
        /\ MaxOf(a.stability, b.stability) = MaxOf(b.stability, a.stability)
        /\ MaxOf(a.access_count, b.access_count) = MaxOf(b.access_count, a.access_count)
    BY ScalarJoins, CounterJoin DEF Record
  <1> QED BY <1>1, <1>2, <1>3, <1>4 DEF MergeRecord, Core, Version

\* Relaying through intermediaries makes no difference either.
THEOREM MergeAssociates ==
  ASSUME NEW a \in Record, NEW b \in Record, NEW c \in Record
  PROVE  Core(MergeRecord(MergeRecord(a, b), c)) = Core(MergeRecord(a, MergeRecord(b, c)))
  <1> DEFINE ab == MergeRecord(a, b)
             bc == MergeRecord(b, c)
  <1>0. ab \in Record /\ bc \in Record
    BY MergeType
  <1>1. Version(Winner(ab, c)) = Version(Winner(a, bc))
    <2> DEFINE l == Winner(ab, c)
               r == Winner(a, bc)
               K(x) == VersionKey(x)
    <2>1. l \in Record /\ r \in Record /\ Winner(a, b) \in Record /\ Winner(b, c) \in Record
      BY <1>0, WinnerIsMax
    <2>2. /\ KeyGeq(K(l), K(a)) /\ KeyGeq(K(l), K(b)) /\ KeyGeq(K(l), K(c))
          /\ KeyGeq(K(r), K(a)) /\ KeyGeq(K(r), K(b)) /\ KeyGeq(K(r), K(c))
      <3>1. /\ KeyGeq(K(l), K(ab)) /\ KeyGeq(K(l), K(c))
            /\ KeyGeq(K(r), K(a)) /\ KeyGeq(K(r), K(bc))
        BY <1>0, WinnerIsMax
      <3>2. /\ KeyGeq(K(ab), K(a)) /\ KeyGeq(K(ab), K(b))
            /\ KeyGeq(K(bc), K(b)) /\ KeyGeq(K(bc), K(c))
        BY MergeFields, WinnerIsMax
      <3> QED BY <1>0, <2>1, <3>1, <3>2, VersionKeyType, KeyOrder
    <2>3. K(l) \in {K(a), K(b), K(c)} /\ K(r) \in {K(a), K(b), K(c)}
      <3>1. K(ab) \in {K(a), K(b)} /\ K(bc) \in {K(b), K(c)}
        BY MergeFields, WinnerIsMax
      <3> QED BY <1>0, <3>1, WinnerIsMax
    <2>4. KeyGeq(K(l), K(r)) /\ KeyGeq(K(r), K(l))
      BY <2>2, <2>3
    <2> QED BY <2>1, <2>4, SameVersion
  <1>2. PinLattice(ab, c) = PinLattice(a, bc)
    <2>1. /\ PinMark(a) \in OptTime /\ PinMark(b) \in OptTime /\ PinMark(c) \in OptTime
          /\ UnpinMark(a) \in OptTime /\ UnpinMark(b) \in OptTime /\ UnpinMark(c) \in OptTime
      BY MarkTypes DEF Record
    <2>2. /\ MaxNonnull(PinMark(ab), PinMark(c)) = MaxNonnull(PinMark(a), PinMark(bc))
          /\ MaxNonnull(UnpinMark(ab), UnpinMark(c)) = MaxNonnull(UnpinMark(a), UnpinMark(bc))
      BY <2>1, MergeFields, ScalarJoins
    <2> QED BY <1>0, <2>2, PinLatticeIsMax
  <1>3. MergeObs(ab, c) = MergeObs(a, bc)
    BY DEF MergeObs, MergeRecord
  <1>4. /\ MinNonnull(ab.expired_at, c.expired_at) = MinNonnull(a.expired_at, bc.expired_at)
        /\ MaxNonnull(ab.last_access, c.last_access) = MaxNonnull(a.last_access, bc.last_access)
        /\ MaxOf(ab.stability, c.stability) = MaxOf(a.stability, bc.stability)
        /\ MaxOf(ab.access_count, c.access_count) = MaxOf(a.access_count, bc.access_count)
    <2>1. /\ ab.expired_at = MinNonnull(a.expired_at, b.expired_at)
          /\ bc.expired_at = MinNonnull(b.expired_at, c.expired_at)
          /\ ab.last_access = MaxNonnull(a.last_access, b.last_access)
          /\ bc.last_access = MaxNonnull(b.last_access, c.last_access)
          /\ ab.stability = MaxOf(a.stability, b.stability)
          /\ bc.stability = MaxOf(b.stability, c.stability)
          /\ ab.access_count = MaxOf(a.access_count, b.access_count)
          /\ bc.access_count = MaxOf(b.access_count, c.access_count)
      BY DEF MergeRecord
    <2>2. ASSUME NEW x \in {a, b, c}
          PROVE  /\ x.expired_at \in OptTime /\ x.last_access \in OptTime
                 /\ x.stability \in Nat /\ x.access_count \in Nat
      BY DEF Record
    <2> HIDE DEF ab, bc
    <2>3. MinNonnull(ab.expired_at, c.expired_at) = MinNonnull(a.expired_at, bc.expired_at)
      BY <2>1, <2>2 DEF MinNonnull, OptTime, None
    <2>4. MaxNonnull(ab.last_access, c.last_access) = MaxNonnull(a.last_access, bc.last_access)
      BY <2>1, <2>2 DEF MaxNonnull, OptTime, None
    <2>5. /\ MaxOf(ab.stability, c.stability) = MaxOf(a.stability, bc.stability)
          /\ MaxOf(ab.access_count, c.access_count) = MaxOf(a.access_count, bc.access_count)
      BY <2>1, <2>2, CounterJoin
    <2> QED BY <2>3, <2>4, <2>5
  <1> HIDE DEF ab, bc
  <1>5. Core(MergeRecord(ab, c)) = Core(MergeRecord(a, bc))
    BY <1>1, <1>2, <1>3, <1>4 DEF MergeRecord, Core, Version
  <1> QED BY <1>5 DEF ab, bc

\* Applying a bundle again, or the one that was there first, is a no-op.
THEOREM MergeAbsorbs ==
  ASSUME NEW a \in Record, NEW b \in Record
  PROVE  /\ Core(MergeRecord(MergeRecord(a, b), b)) = Core(MergeRecord(a, b))
         /\ Core(MergeRecord(MergeRecord(a, b), a)) = Core(MergeRecord(a, b))
  <1> DEFINE m == MergeRecord(a, b)
  <1>0. m \in Record
    BY MergeType
  <1>1. ASSUME NEW c \in {a, b}
        PROVE  Core(MergeRecord(m, c)) = Core(m)
    <2>1. c \in Record
      OBVIOUS
    <2>2. Version(Winner(m, c)) = Version(m)
      <3>1. KeyGeq(VersionKey(m), VersionKey(c))
        BY MergeFields, WinnerIsMax
      <3> QED BY <3>1 DEF Winner
    <2>3. /\ PinMark(m) = MaxNonnull(PinMark(a), PinMark(b))
          /\ UnpinMark(m) = MaxNonnull(UnpinMark(a), UnpinMark(b))
          /\ PinMark(a) \in OptTime /\ PinMark(b) \in OptTime
          /\ UnpinMark(a) \in OptTime /\ UnpinMark(b) \in OptTime
      BY MergeFields, MarkTypes DEF Record
    <2>4. /\ MaxNonnull(PinMark(m), PinMark(c)) = PinMark(m)
          /\ MaxNonnull(UnpinMark(m), UnpinMark(c)) = UnpinMark(m)
      BY <2>3, Absorption
    <2>5. PinLattice(m, c) = PinLattice(a, b)
      BY <1>0, <2>1, <2>3, <2>4, PinLatticeIsMax
    <2>6. MergeObs(m, c) = m.obs
      BY DEF MergeObs, MergeRecord
    <2>7. /\ MinNonnull(m.expired_at, c.expired_at) = m.expired_at
          /\ MaxNonnull(m.last_access, c.last_access) = m.last_access
          /\ MaxOf(m.stability, c.stability) = m.stability
          /\ MaxOf(m.access_count, c.access_count) = m.access_count
      <3>1. /\ m.expired_at = MinNonnull(a.expired_at, b.expired_at)
            /\ m.last_access = MaxNonnull(a.last_access, b.last_access)
            /\ m.stability = MaxOf(a.stability, b.stability)
            /\ m.access_count = MaxOf(a.access_count, b.access_count)
        BY DEF MergeRecord
      <3>2. ASSUME NEW x \in {a, b}
            PROVE  /\ x.expired_at \in OptTime /\ x.last_access \in OptTime
                   /\ x.stability \in Nat /\ x.access_count \in Nat
        BY DEF Record
      <3> HIDE DEF m
      <3>3. MinNonnull(m.expired_at, c.expired_at) = m.expired_at
        BY <3>1, <3>2, Absorption
      <3>4. MaxNonnull(m.last_access, c.last_access) = m.last_access
        BY <3>1, <3>2, Absorption
      <3>5. MaxOf(m.stability, c.stability) = m.stability
            /\ MaxOf(m.access_count, c.access_count) = m.access_count
        BY <3>1, <3>2, CounterAbsorption
      <3> QED BY <3>3, <3>4, <3>5
    <2>8. /\ m.pinned = PinLattice(a, b).pinned
          /\ m.pinned_at = PinLattice(a, b).pinned_at
          /\ m.unpinned_at = PinLattice(a, b).unpinned_at
      BY DEF MergeRecord
    <2> HIDE DEF m
    <2> QED BY <2>2, <2>5, <2>6, <2>7, <2>8 DEF MergeRecord, Core, Version
  <1> QED BY <1>1

------------------------------------------------------------------------------
(* The replicas *)

LEMMA Envelopes ==
  LocalEnv \in Envelope /\ PeerEnv \in Envelope
  BY EnvelopeAssumption DEF LocalEnv, PeerEnv

\* The hybrid clock moves strictly forward, whatever the wall clock says.
LEMMA Advance ==
  ASSUME NEW h \in Hlc, NEW node \in Device, NEW now \in Nat
  PROVE  LET g == AdvanceHlc(h, node, now)
         IN /\ g \in Hlc
            /\ g # NoHlc
            /\ g[1] > h[1] \/ (g[1] = h[1] /\ g[2] > h[2])
  <1> DEFINE g == AdvanceHlc(h, node, now)
  <1>1. h[1] \in Nat /\ h[2] \in Nat /\ h[3] \in Nat
    BY DEF Hlc
  <1>2. node \in Nat /\ node > 0 /\ MaxLogical \in Nat
    BY DeviceAssumption DEF Device
  <1>3. \E p, l \in Nat : /\ g = <<p, l, node>>
                          /\ p > h[1] \/ (p = h[1] /\ l > h[2])
    <2>1. CASE now > h[1]
      BY <1>1, <1>2, <2>1 DEF AdvanceHlc, MaxOf
    <2>2. CASE ~ (now > h[1]) /\ h[2] + 1 > MaxLogical
      <3>1. g = <<h[1] + 1, 0, node>>
        BY <1>1, <1>2, <2>2 DEF AdvanceHlc, MaxOf
      <3> QED BY <1>1, <3>1
    <2>3. CASE ~ (now > h[1]) /\ ~ (h[2] + 1 > MaxLogical)
      <3>1. g = <<h[1], h[2] + 1, node>>
        BY <1>1, <1>2, <2>3 DEF AdvanceHlc, MaxOf
      <3> QED BY <1>1, <3>1
    <2> QED BY <2>1, <2>2, <2>3
  <1> HIDE DEF g
  <1>4. g \in Hlc /\ g # NoHlc /\ (g[1] > h[1] \/ (g[1] = h[1] /\ g[2] > h[2]))
    BY <1>2, <1>3 DEF Hlc, NoHlc
  <1> QED BY <1>4 DEF g

\* Every row that an operation or a merge produces is a record.
LEMMA RehomeType ==
  ASSUME NEW r \in Record
  PROVE  Rehome(r) \in Record /\ Version(Rehome(r)) = Version(r) /\ Rehome(r).obs = r.obs
  BY Envelopes DEF Rehome, Record, Version

LEMMA ApplyType ==
  ASSUME NEW x \in Record \cup {Absent}, NEW r \in Record
  PROVE  ApplyOne(x, r) \in Record \cup {Absent}
  BY RehomeType, MergeType DEF ApplyOne, Joined

LEMMA LocalWriteType ==
  ASSUME TypeOK, NEW d \in Device, NEW r \in Record, LocalWrite(d, r),
         closes' \in [Device -> Nat]
  PROVE  TypeOK'
  <1>1. ops' \in 0..MaxOps /\ ops + 1 \in 1..MaxOps /\ clock' \in Nat
    BY DeviceAssumption DEF TypeOK, LocalWrite
  <1>2. seen' \in [Device -> SUBSET (1..MaxOps)]
    BY <1>1 DEF TypeOK, LocalWrite
  <1>3. rec' \in [Device -> Record \cup {Absent}]
    BY DEF TypeOK, LocalWrite
  <1> QED BY <1>1, <1>2, <1>3 DEF TypeOK, LocalWrite

LEMMA ReinforcedType ==
  ASSUME NEW x \in Record, NEW t \in Nat
  PROVE  LET r == [x EXCEPT !.access_count = @ + 1, !.stability = @ + 1, !.last_access = t]
         IN /\ r \in Record /\ x.obs = r.obs
            /\ r.label = x.label /\ r.modified_hlc = x.modified_hlc
  <1>1. x.access_count + 1 \in Nat /\ x.stability + 1 \in Nat
    BY DEF Record
  <1>2. ASSUME NEW a \in Nat, NEW b \in Nat
        PROVE  LET r == [x EXCEPT !.access_count = a, !.stability = b, !.last_access = t]
               IN /\ r \in Record /\ x.obs = r.obs
                  /\ r.label = x.label /\ r.modified_hlc = x.modified_hlc
    BY DEF Record, OptTime
  <1> QED BY <1>1, <1>2

LEMMA CapturedType == Captured \in Record
  <1>1. NoHlc \in Hlc /\ Skew[Origin] \in Nat
    BY DeviceAssumption DEF Hlc, NoHlc
  <1>2. AdvanceHlc(NoHlc, Origin, Skew[Origin]) \in Hlc
    BY <1>1, Advance, DeviceAssumption
  <1> QED BY <1>1, <1>2, Envelopes, DeviceAssumption DEF Captured, Record, OptTime, None


------------------------------------------------------------------------------
(* Type correctness *)

LEMMA TypeStep == TypeOK /\ [Next]_vars => TypeOK'
  <1> SUFFICES ASSUME TypeOK, [Next]_vars PROVE TypeOK'
    OBVIOUS
  <1>0. \A d \in Device : Now(d) \in Nat
    BY DeviceAssumption DEF Now, TypeOK
  <1>p. ASSUME NEW d \in Device, Present(d) PROVE rec[d] \in Record
    BY <1>p DEF TypeOK, Present
  <1>1. ASSUME NEW d \in Device, NEW l \in Label, UpdateMemory(d, l) PROVE TypeOK'
    <2> DEFINE h == AdvanceHlc(rec[d].modified_hlc, d, Now(d))
               r == [rec[d] EXCEPT !.label = l, !.modified_hlc = h]
    <2>1. rec[d] \in Record
      BY <1>1, <1>p DEF UpdateMemory
    <2>2. h \in Hlc
      BY <1>0, <2>1, Advance DEF Record
    <2> HIDE DEF h
    <2>3. r \in Record
      BY <2>1, <2>2 DEF Record
    <2>4. LocalWrite(d, r) /\ closes' = closes
      BY <1>1 DEF UpdateMemory, h
    <2> HIDE DEF r
    <2> QED BY <2>3, <2>4, LocalWriteType DEF TypeOK
  <1>2. ASSUME NEW d \in Device, NEW at \in ClosePoints, CloseValidity(d, at) PROVE TypeOK'
    <2> DEFINE r == [rec[d] EXCEPT !.obs = @ \cup {<<at, Now(d)>>}]
    <2>1. rec[d] \in Record
      BY <1>2, <1>p DEF CloseValidity
    <2>2. <<at, Now(d)>> \in Observation
      BY <1>0, DeviceAssumption DEF Observation, Time, OptTime
    <2>3. r \in Record
      BY <2>1, <2>2 DEF Record
    <2>4. LocalWrite(d, r) /\ closes' \in [Device -> Nat]
      BY <1>2 DEF CloseValidity, TypeOK
    <2> HIDE DEF r
    <2> QED BY <2>3, <2>4, LocalWriteType
  <1>3. ASSUME NEW d \in Device, NEW p \in BOOLEAN, SetPinned(d, p) PROVE TypeOK'
    <2> DEFINE r == IF p THEN [rec[d] EXCEPT !.pinned = TRUE, !.pinned_at = Now(d)]
                    ELSE [rec[d] EXCEPT !.pinned = FALSE, !.unpinned_at = Now(d)]
    <2>1. rec[d] \in Record
      BY <1>3, <1>p DEF SetPinned
    <2>2. r \in Record
      <3>1. CASE p
        BY <1>0, <2>1, <3>1 DEF Record, OptTime
      <3>2. CASE ~ p
        BY <1>0, <2>1, <3>2 DEF Record, OptTime
      <3> QED BY <3>1, <3>2
    <2>3. LocalWrite(d, r) /\ closes' = closes
      BY <1>3 DEF SetPinned
    <2> HIDE DEF r
    <2> QED BY <2>2, <2>3, LocalWriteType DEF TypeOK
  <1>4. ASSUME NEW d \in Device, Reinforce(d) PROVE TypeOK'
    <2> DEFINE r == [rec[d] EXCEPT !.access_count = @ + 1, !.stability = @ + 1,
                                   !.last_access = Now(d)]
    <2>1. rec[d] \in Record
      BY <1>4, <1>p DEF Reinforce
    <2>2. r \in Record
      BY <1>0, <2>1, ReinforcedType
    <2>3. LocalWrite(d, r) /\ closes' = closes
      BY <1>4 DEF Reinforce
    <2> HIDE DEF r
    <2> QED BY <2>2, <2>3, LocalWriteType DEF TypeOK
  <1>5. ASSUME NEW d \in Device, Push(d) PROVE TypeOK'
    BY <1>5 DEF Push, TypeOK
  <1>6. ASSUME NEW d \in Device, NEW e \in Device, Pull(d, e) PROVE TypeOK'
    <2>1. folder[e] \in Record /\ rec[d] \in Record \cup {Absent}
      BY <1>6 DEF Pull, TypeOK
    <2>2. ApplyOne(rec[d], folder[e]) \in Record \cup {Absent}
      BY <2>1, ApplyType
    <2>3. rec' \in [Device -> Record \cup {Absent}]
      BY <1>6, <2>2 DEF Pull, TypeOK
    <2>4. seen' \in [Device -> SUBSET (1..MaxOps)]
      BY <1>6 DEF Pull, TypeOK
    <2> QED BY <1>6, <2>3, <2>4 DEF Pull, TypeOK
  <1>7. CASE UNCHANGED vars
    BY <1>7 DEF vars, TypeOK
  <1> QED BY <1>1, <1>2, <1>3, <1>4, <1>5, <1>6, <1>7 DEF Next

\* Every row on every device and in the folder is a well-formed record.
THEOREM TypeCorrect == Spec => []TypeOK
  <1>1. Init => TypeOK
    BY CapturedType, DeviceAssumption DEF Init, TypeOK
  <1> QED BY <1>1, TypeStep, PTL DEF Spec


------------------------------------------------------------------------------
(* Monotone history *)

\* What a step may do to one device's row.
Grows(r, s) ==
  /\ s # Absent
  /\ r.obs \subseteq s.obs
  /\ KeyGeq(VersionKey(s), VersionKey(r))

LEMMA SameVersionGrows ==
  ASSUME NEW r \in Record, NEW s \in Record, r.obs \subseteq s.obs,
         s.label = r.label, s.modified_hlc = r.modified_hlc
  PROVE  Grows(r, s)
  <1>1. s # Absent
    BY DeviceAssumption
  <1>2. VersionKey(s) = VersionKey(r)
    BY KeyOfVersion DEF Version
  <1> QED BY <1>1, <1>2, VersionKeyType, KeyOrder DEF Grows

\* A local write touches one row: what it does to that row decides.
LEMMA LocalWriteGrows ==
  ASSUME TypeOK, NEW d \in Device, NEW r, LocalWrite(d, r), Present(d), Grows(rec[d], r),
         NEW e \in Device, Present(e)
  PROVE  Grows(rec[e], rec'[e])
  <1>1. CASE e = d
    BY <1>1 DEF LocalWrite, TypeOK
  <1>2. CASE e # d
    <2>1. rec'[e] = rec[e] /\ rec[e] \in Record
      BY <1>2 DEF LocalWrite, TypeOK, Present
    <2> QED BY <2>1, SameVersionGrows
  <1> QED BY <1>1, <1>2

\* An accepted snapshot only adds observations and only raises the version.
LEMMA ApplyGrows ==
  ASSUME NEW x \in Record, NEW r \in Record
  PROVE  Grows(x, ApplyOne(x, r))
  <1> DEFINE i == Rehome(r)
             j == MergeRecord(x, i)
  <1>0. x # Absent
    BY DeviceAssumption
  <1>1. CASE Accepts(x, r)
    <2>1. i \in Record
      BY RehomeType
    <2>2. ApplyOne(x, r) = j
      BY <1>0, <1>1 DEF ApplyOne, Joined
    <2>3. j \in Record /\ x.obs \subseteq j.obs
      BY <2>1, MergeType DEF MergeRecord, MergeObs
    <2>4. KeyGeq(VersionKey(j), VersionKey(x))
      BY <2>1, MergeFields, WinnerIsMax
    <2> HIDE DEF j
    <2> QED BY <2>2, <2>3, <2>4, DeviceAssumption DEF Grows
  <1>2. CASE ~ Accepts(x, r)
    <2>1. ApplyOne(x, r) = x
      BY <1>2 DEF ApplyOne
    <2> QED BY <2>1, SameVersionGrows
  <1> QED BY <1>1, <1>2

LEMMA GrowsStep ==
  ASSUME TypeOK, [Next]_vars, NEW d \in Device, Present(d)
  PROVE  Grows(rec[d], rec'[d])
  <1>0. \A e \in Device : Now(e) \in Nat
    BY DeviceAssumption DEF Now, TypeOK
  <1>p. ASSUME NEW e \in Device, Present(e) PROVE rec[e] \in Record
    BY <1>p DEF TypeOK, Present
  <1>1. ASSUME NEW e \in Device, NEW l \in Label, UpdateMemory(e, l)
        PROVE  Grows(rec[d], rec'[d])
    <2> DEFINE h == AdvanceHlc(rec[e].modified_hlc, e, Now(e))
               r == [rec[e] EXCEPT !.label = l, !.modified_hlc = h]
    <2>1. Present(e) /\ LocalWrite(e, r) /\ rec[e] \in Record
      BY <1>1, <1>p DEF UpdateMemory
    <2>2. /\ h \in Hlc /\ h # NoHlc /\ rec[e].modified_hlc \in Hlc
          /\ \/ h[1] > rec[e].modified_hlc[1]
             \/ h[1] = rec[e].modified_hlc[1] /\ h[2] > rec[e].modified_hlc[2]
      BY <1>0, <2>1, Advance DEF Record
    <2> HIDE DEF h
    <2>3. r \in Record /\ r.obs = rec[e].obs /\ r.modified_hlc = h
      BY <2>1, <2>2 DEF Record
    <2>4. KeyGeq(VersionKey(r), VersionKey(rec[e]))
      <3> HIDE DEF r
      <3>1. VersionKey(r) = <<1, h[1], h[2], h[3], 0, PayloadHash(r.label)>>
        BY <2>2, <2>3 DEF VersionKey
      <3> DEFINE g == rec[e].modified_hlc
      <3>2. CASE g = NoHlc
        <4>1. VersionKey(rec[e])[1] = 0
          BY <3>2 DEF VersionKey
        <4> QED BY <3>1, <4>1 DEF KeyGeq
      <3>3. CASE g # NoHlc
        <4>1. /\ VersionKey(rec[e])[1] = 1 /\ VersionKey(rec[e])[2] = g[1]
              /\ VersionKey(rec[e])[3] = g[2]
          BY <3>3 DEF VersionKey
        <4> QED BY <2>2, <3>1, <4>1 DEF KeyGeq, Hlc
      <3> QED BY <3>2, <3>3
    <2>5. Grows(rec[e], r)
      BY <2>3, <2>4, DeviceAssumption DEF Grows
    <2> HIDE DEF r
    <2> QED BY <2>1, <2>5, LocalWriteGrows
  <1>2. ASSUME NEW e \in Device, NEW at \in ClosePoints, CloseValidity(e, at)
        PROVE  Grows(rec[d], rec'[d])
    <2> DEFINE r == [rec[e] EXCEPT !.obs = @ \cup {<<at, Now(e)>>}]
    <2>1. Present(e) /\ LocalWrite(e, r) /\ rec[e] \in Record
      BY <1>2, <1>p DEF CloseValidity
    <2>2. <<at, Now(e)>> \in Observation
      BY <1>0, DeviceAssumption DEF Observation, Time, OptTime
    <2>3. /\ r \in Record /\ rec[e].obs \subseteq r.obs
          /\ r.label = rec[e].label /\ r.modified_hlc = rec[e].modified_hlc
      BY <2>1, <2>2 DEF Record
    <2> HIDE DEF r
    <2> QED BY <2>1, <2>3, SameVersionGrows, LocalWriteGrows
  <1>3. ASSUME NEW e \in Device, NEW p \in BOOLEAN, SetPinned(e, p)
        PROVE  Grows(rec[d], rec'[d])
    <2> DEFINE r == IF p THEN [rec[e] EXCEPT !.pinned = TRUE, !.pinned_at = Now(e)]
                    ELSE [rec[e] EXCEPT !.pinned = FALSE, !.unpinned_at = Now(e)]
    <2>1. Present(e) /\ LocalWrite(e, r) /\ rec[e] \in Record
      BY <1>3, <1>p DEF SetPinned
    <2>2. /\ r \in Record /\ rec[e].obs = r.obs
          /\ r.label = rec[e].label /\ r.modified_hlc = rec[e].modified_hlc
      <3>1. CASE p
        BY <1>0, <2>1, <3>1 DEF Record, OptTime
      <3>2. CASE ~ p
        BY <1>0, <2>1, <3>2 DEF Record, OptTime
      <3> QED BY <3>1, <3>2
    <2> HIDE DEF r
    <2> QED BY <2>1, <2>2, SameVersionGrows, LocalWriteGrows
  <1>4. ASSUME NEW e \in Device, Reinforce(e) PROVE Grows(rec[d], rec'[d])
    <2> DEFINE r == [rec[e] EXCEPT !.access_count = @ + 1, !.stability = @ + 1,
                                   !.last_access = Now(e)]
    <2>1. Present(e) /\ LocalWrite(e, r) /\ rec[e] \in Record
      BY <1>4, <1>p DEF Reinforce
    <2>2. /\ r \in Record /\ rec[e].obs = r.obs
          /\ r.label = rec[e].label /\ r.modified_hlc = rec[e].modified_hlc
      BY <1>0, <2>1, ReinforcedType
    <2> HIDE DEF r
    <2> QED BY <2>1, <2>2, SameVersionGrows, LocalWriteGrows
  <1>5. ASSUME rec' = rec PROVE Grows(rec[d], rec'[d])
    BY <1>5, <1>p, SameVersionGrows
  <1>6. ASSUME NEW e \in Device, NEW f \in Device, Pull(e, f) PROVE Grows(rec[d], rec'[d])
    <2>1. CASE d = e
      <3>1. folder[f] \in Record /\ rec[d] \in Record
        BY <1>6, <1>p DEF Pull, TypeOK
      <3>2. rec'[d] = ApplyOne(rec[d], folder[f])
        BY <1>6, <2>1 DEF Pull, TypeOK
      <3> QED BY <3>1, <3>2, ApplyGrows
    <2>2. CASE d # e
      <3>1. rec'[d] = rec[d]
        BY <1>6, <2>2 DEF Pull, TypeOK
      <3> QED BY <3>1, <1>p, SameVersionGrows
    <2> QED BY <2>1, <2>2
  <1> QED BY <1>1, <1>2, <1>3, <1>4, <1>5, <1>6 DEF Next, vars, Push

\* No step of any device loses a closure observation or goes back to an older
\* payload.
THEOREM HistoryNeverShrinks == Spec => HistoryGrows
  <1>1. TypeOK /\ [Next]_vars =>
          [\A d \in Device : Present(d) =>
             /\ rec'[d] # Absent
             /\ rec[d].obs \subseteq rec'[d].obs
             /\ KeyGeq(VersionKey(rec'[d]), VersionKey(rec[d]))]_vars
    BY GrowsStep DEF Grows
  <1> QED BY <1>1, TypeCorrect, PTL DEF Spec, HistoryGrows


------------------------------------------------------------------------------
(* Headroom of the local writer *)

\* What the local writer has not put there itself fits in the peers' share.
Headroom(r, n) ==
  /\ IsFiniteSet(r.obs)
  /\ Cardinality(r.obs) <= PeerBudget + n

HeadroomInv ==
  /\ \A d \in Device : Present(d) => Headroom(rec[d], closes[d])
  /\ \A d \in Device : folder[d] # Absent => IsFiniteSet(folder[d].obs)

\* A local write that leaves the closures of the row alone keeps the bound.
LEMMA LocalWriteHeadroom ==
  ASSUME TypeOK, HeadroomInv, NEW d \in Device, NEW r \in Record, LocalWrite(d, r),
         Headroom(r, closes'[d]), \A e \in Device : e # d => closes'[e] = closes[e]
  PROVE  HeadroomInv'
  <1>1. ASSUME NEW e \in Device, Present(e)' PROVE Headroom(rec'[e], closes'[e])
    <2>1. CASE e = d
      BY <2>1 DEF LocalWrite, TypeOK
    <2>2. CASE e # d
      <3>1. rec'[e] = rec[e] /\ Present(e)
        BY <1>1, <2>2 DEF LocalWrite, TypeOK, Present
      <3> QED BY <2>2, <3>1 DEF HeadroomInv
    <2> QED BY <2>1, <2>2
  <1>2. folder' = folder
    BY DEF LocalWrite
  <1> QED BY <1>1, <1>2 DEF HeadroomInv, Headroom

\* A merge either brings nothing new or ends inside the peers' share.
LEMMA ApplyHeadroom ==
  ASSUME NEW x \in Record \cup {Absent}, NEW r \in Record, NEW n \in Nat,
         IsFiniteSet(r.obs), x # Absent => Headroom(x, n),
         ApplyOne(x, r) # Absent
  PROVE  Headroom(ApplyOne(x, r), n)
  <1> DEFINE j == Joined(x, r)
             known == IF x = Absent THEN {} ELSE x.obs
  <1>0. PeerBudget \in Nat
    BY DeviceAssumption DEF PeerBudget
  <1>1. CASE ~ Accepts(x, r)
    <2>1. ApplyOne(x, r) = x
      BY <1>1 DEF ApplyOne
    <2> QED BY <2>1
  <1>2. CASE Accepts(x, r)
    <2>1. ApplyOne(x, r) = j
      BY <1>2 DEF ApplyOne
    <2>2. j.obs = known \cup r.obs
      <3>1. CASE x = Absent
        BY <3>1, RehomeType DEF Joined
      <3>2. CASE x # Absent
        BY <3>2, RehomeType DEF Joined, MergeRecord, MergeObs
      <3> QED BY <3>1, <3>2
    <2>3. IsFiniteSet(known) /\ (x # Absent => Cardinality(known) <= PeerBudget + n)
      BY FS_EmptySet DEF Headroom
    <2>4. IsFiniteSet(j.obs)
      BY <2>2, <2>3, FS_Union
    <2>5. ~ PeerClosureBudgetExceeded(j.obs, known)
      BY <1>2 DEF Accepts
    <2>6. CASE j.obs \subseteq known
      <3>1. j.obs = known
        BY <2>2, <2>6
      <3>2. CASE x # Absent
        BY <2>1, <2>4, <3>1, <3>2 DEF Headroom
      <3>3. CASE x = Absent
        <4>1. Cardinality(j.obs) = 0
          BY <3>1, <3>3, FS_EmptySet
        <4> HIDE DEF j
        <4> QED BY <1>0, <2>1, <2>4, <4>1 DEF Headroom
      <3> QED BY <3>2, <3>3
    <2>7. CASE ~ (j.obs \subseteq known)
      <3>1. known \cup j.obs = j.obs
        BY <2>2
      <3>2. Cardinality(j.obs) \in Nat
        BY <2>4, FS_CardinalityType
      <3>3. Cardinality(j.obs) <= PeerBudget
        BY <1>0, <2>5, <2>7, <3>1, <3>2 DEF PeerClosureBudgetExceeded
      <3> HIDE DEF j
      <3> QED BY <1>0, <2>1, <2>4, <3>2, <3>3 DEF Headroom
    <2> QED BY <2>6, <2>7
  <1> QED BY <1>1, <1>2

LEMMA HeadroomStep == TypeOK /\ TypeOK' /\ HeadroomInv /\ [Next]_vars => HeadroomInv'
  <1> SUFFICES ASSUME TypeOK, TypeOK', HeadroomInv, [Next]_vars PROVE HeadroomInv'
    OBVIOUS
  <1>0. PeerBudget \in Nat
    BY DeviceAssumption DEF PeerBudget
  <1>p. ASSUME NEW d \in Device, Present(d)
        PROVE  /\ rec[d] \in Record /\ Headroom(rec[d], closes[d])
               /\ Cardinality(rec[d].obs) \in Nat
    BY <1>p, FS_CardinalityType DEF TypeOK, Present, HeadroomInv, Headroom
  <1>w. ASSUME NEW d \in Device, NEW r, LocalWrite(d, r), Present(d), closes' = closes,
               r.obs = rec[d].obs
        PROVE  HeadroomInv'
    <2>1. r \in Record \/ r = Absent
      BY <1>w DEF LocalWrite, TypeOK
    <2>2. Headroom(r, closes'[d])
      BY <1>w, <1>p DEF Headroom
    <2>3. CASE r \in Record
      BY <1>w, <2>2, <2>3, LocalWriteHeadroom
    <2>4. CASE r = Absent
      <3>1. \A e \in Device : Present(e)' => e # d /\ rec'[e] = rec[e]
        BY <1>w, <2>4 DEF LocalWrite, TypeOK, Present
      <3> QED BY <1>w, <3>1 DEF LocalWrite, HeadroomInv, Present, Headroom
    <2> QED BY <2>1, <2>3, <2>4
  <1>1. ASSUME NEW d \in Device, NEW l \in Label, UpdateMemory(d, l) PROVE HeadroomInv'
    <2> DEFINE r == [rec[d] EXCEPT !.label = l,
                       !.modified_hlc = AdvanceHlc(@, d, Now(d))]
    <2>1. Present(d) /\ LocalWrite(d, r) /\ closes' = closes
      BY <1>1 DEF UpdateMemory
    <2>2. r.obs = rec[d].obs
      BY <2>1, <1>p DEF Record
    <2> HIDE DEF r
    <2> QED BY <2>1, <2>2, <1>w
  <1>2. ASSUME NEW d \in Device, NEW at \in ClosePoints, CloseValidity(d, at)
        PROVE  HeadroomInv'
    <2> DEFINE o == <<at, Now(d)>>
               r == [rec[d] EXCEPT !.obs = @ \cup {o}]
    <2>1. Present(d) /\ LocalWrite(d, r) /\ closes' = [closes EXCEPT ![d] = @ + 1]
      BY <1>2 DEF CloseValidity
    <2>2. r.obs = rec[d].obs \cup {o} /\ rec[d] \in Record
      BY <2>1, <1>p DEF Record
    <2>3. /\ IsFiniteSet(r.obs) /\ Cardinality(r.obs) \in Nat
          /\ Cardinality(r.obs) <= Cardinality(rec[d].obs) + 1
      <3>1. IsFiniteSet(rec[d].obs) /\ Cardinality(rec[d].obs) \in Nat
        BY <2>1, <1>p DEF Headroom
      <3> HIDE DEF o, r
      <3>2. /\ IsFiniteSet(rec[d].obs \cup {o})
            /\ Cardinality(rec[d].obs \cup {o}) =
                 IF o \in rec[d].obs THEN Cardinality(rec[d].obs)
                 ELSE Cardinality(rec[d].obs) + 1
        BY <3>1, FS_AddElement
      <3> QED BY <2>2, <3>1, <3>2
    <2>4. closes[d] \in Nat /\ closes'[d] = closes[d] + 1
      BY <2>1 DEF TypeOK
    <2>5. Headroom(r, closes'[d])
      <3> HIDE DEF r
      <3> QED BY <1>0, <2>1, <2>3, <2>4, <1>p DEF Headroom
    <2>6. r \in Record
      <3>1. rec'[d] = r /\ rec'[d] \in Record \cup {Absent}
        BY <2>1 DEF LocalWrite, TypeOK
      <3>2. o \in Observation
        BY DeviceAssumption DEF Observation, Time, OptTime, Now, TypeOK
      <3> HIDE DEF o
      <3> QED BY <2>2, <3>2 DEF Record
    <2>7. \A e \in Device : e # d => closes'[e] = closes[e]
      BY <2>1 DEF TypeOK
    <2> HIDE DEF r
    <2> QED BY <2>1, <2>5, <2>6, <2>7, LocalWriteHeadroom
  <1>3. ASSUME NEW d \in Device, NEW p \in BOOLEAN, SetPinned(d, p) PROVE HeadroomInv'
    <2> DEFINE r == IF p THEN [rec[d] EXCEPT !.pinned = TRUE, !.pinned_at = Now(d)]
                    ELSE [rec[d] EXCEPT !.pinned = FALSE, !.unpinned_at = Now(d)]
    <2>1. Present(d) /\ LocalWrite(d, r) /\ closes' = closes
      BY <1>3 DEF SetPinned
    <2>2. r.obs = rec[d].obs
      BY <2>1, <1>p DEF Record
    <2> HIDE DEF r
    <2> QED BY <2>1, <2>2, <1>w
  <1>4. ASSUME NEW d \in Device, Reinforce(d) PROVE HeadroomInv'
    <2> DEFINE r == [rec[d] EXCEPT !.access_count = @ + 1, !.stability = @ + 1,
                                   !.last_access = Now(d)]
    <2>1. Present(d) /\ LocalWrite(d, r) /\ closes' = closes
      BY <1>4 DEF Reinforce
    <2>2. r.obs = rec[d].obs
      BY <2>1, <1>p DEF Record
    <2> HIDE DEF r
    <2> QED BY <2>1, <2>2, <1>w
  <1>5. ASSUME NEW d \in Device, Push(d) PROVE HeadroomInv'
    <2>1. rec' = rec /\ closes' = closes
      BY <1>5 DEF Push
    <2>2. \A e \in Device : folder'[e] = (IF e = d THEN rec[d] ELSE folder[e])
      BY <1>5 DEF Push, TypeOK
    <2>3. \A e \in Device : folder'[e] # Absent => IsFiniteSet(folder'[e].obs)
      BY <1>5, <2>2, <1>p DEF Push, HeadroomInv, Headroom
    <2> QED BY <2>1, <2>3 DEF HeadroomInv, Present, Headroom
  <1>6. ASSUME NEW d \in Device, NEW e \in Device, Pull(d, e) PROVE HeadroomInv'
    <2>1. /\ folder[e] \in Record /\ IsFiniteSet(folder[e].obs)
          /\ rec[d] \in Record \cup {Absent} /\ closes[d] \in Nat
          /\ rec[d] # Absent => Headroom(rec[d], closes[d])
      BY <1>6, <1>p DEF Pull, TypeOK, HeadroomInv, Present
    <2>2. /\ folder' = folder /\ closes' = closes
          /\ \A f \in Device : rec'[f] = IF f = d THEN ApplyOne(rec[d], folder[e]) ELSE rec[f]
      BY <1>6 DEF Pull, TypeOK
    <2>3. ASSUME NEW f \in Device, Present(f)' PROVE Headroom(rec'[f], closes[f])
      <3>1. CASE f = d
        BY <2>1, <2>2, <2>3, <3>1, ApplyHeadroom DEF Present
      <3>2. CASE f # d
        BY <2>2, <2>3, <3>2 DEF HeadroomInv, Present
      <3> QED BY <3>1, <3>2
    <2> QED BY <2>2, <2>3 DEF HeadroomInv, Headroom
  <1>7. CASE UNCHANGED vars
    BY <1>7 DEF vars, HeadroomInv, Present, Headroom
  <1> QED BY <1>1, <1>2, <1>3, <1>4, <1>5, <1>6, <1>7 DEF Next

\* However many closures peers send, the local writer keeps its reserve.
THEOREM LocalHeadroom == Spec => []PeerNeverStarvesLocal
  <1>1. Init => HeadroomInv
    <2>1. Captured.obs = {} /\ PeerBudget \in Nat
      BY DeviceAssumption DEF Captured, PeerBudget
    <2> QED BY <2>1, FS_EmptySet DEF Init, HeadroomInv, Headroom, Present
  <1>2. TypeOK /\ HeadroomInv => PeerNeverStarvesLocal
    BY DeviceAssumption DEF TypeOK, HeadroomInv, Headroom, PeerNeverStarvesLocal, PeerBudget
  <1> QED BY <1>1, <1>2, TypeCorrect, HeadroomStep, PTL DEF Spec

------------------------------------------------------------------------------
(* Same history, same state: a row is the join of the rows that the local         *)
(* operations it incorporates have written, however it came about.                *)

\* The wall clocks of all devices agree.
InStep == \A d \in Device : Skew[d] = 0

CountLeq(a, b) ==
  /\ a.stability <= b.stability
  /\ a.access_count <= b.access_count
  /\ a.last_access <= b.last_access
  /\ MaxOf(a.pinned_at, 0) <= MaxOf(b.pinned_at, 0)
  /\ a.unpinned_at <= b.unpinned_at

\* The order of the join. Accesses and pins are stamped with the wall clock, so
\* they take part only while the clocks agree.
Below(a, b) ==
  /\ KeyGeq(VersionKey(b), VersionKey(a))
  /\ a.obs \subseteq b.obs
  /\ InStep => CountLeq(a, b)

\* The flag is what its markers say, and the markers are older than t.
Marks(r, t) ==
  /\ r.expired_at = None
  /\ r.last_access < t /\ r.pinned_at < t /\ r.unpinned_at < t
  /\ r.pinned_at = 0 => LegacyPin
  /\ r.pinned <=> (IF r.unpinned_at = None THEN r.pinned_at # None \/ LegacyPin
                   ELSE r.pinned_at > r.unpinned_at)

LEMMA BelowOrder ==
  ASSUME NEW a \in Record, NEW b \in Record, NEW c \in Record
  PROVE  /\ Below(a, a)
         /\ Below(a, b) /\ Below(b, c) => Below(a, c)
  <1>1. /\ KeyGeq(VersionKey(a), VersionKey(a))
        /\ KeyGeq(VersionKey(b), VersionKey(a)) /\ KeyGeq(VersionKey(c), VersionKey(b))
             => KeyGeq(VersionKey(c), VersionKey(a))
    BY VersionKeyType, KeyOrder
  <1>2. CountLeq(a, a) /\ (CountLeq(a, b) /\ CountLeq(b, c) => CountLeq(a, c))
    BY DEF CountLeq, Record, OptTime, None, MaxOf
  <1> QED BY <1>1, <1>2 DEF Below

\* Rows that bound each other are the same to every replica.
LEMMA BelowBoth ==
  ASSUME NEW a \in Record, NEW b \in Record, Below(a, b), Below(b, a)
  PROVE  /\ a.label = b.label /\ a.obs = b.obs
         /\ \A t \in Nat : InStep /\ Marks(a, t) /\ Marks(b, t) => Synced(a) = Synced(b)
  <1>1. a.label = b.label /\ a.modified_hlc = b.modified_hlc
    BY SameVersion DEF Below, Version
  <1>2. a.obs = b.obs
    BY DEF Below
  <1>3. ASSUME NEW t \in Nat, InStep, Marks(a, t), Marks(b, t)
        PROVE  Synced(a) = Synced(b)
    <2>1. CountLeq(a, b) /\ CountLeq(b, a)
      BY <1>3 DEF Below
    <2>2. /\ a.stability \in Nat /\ b.stability \in Nat
          /\ a.access_count \in Nat /\ b.access_count \in Nat
          /\ a.last_access \in OptTime /\ b.last_access \in OptTime
          /\ a.pinned_at \in OptTime /\ b.pinned_at \in OptTime
          /\ a.unpinned_at \in OptTime /\ b.unpinned_at \in OptTime
          /\ a.pinned \in BOOLEAN /\ b.pinned \in BOOLEAN
      BY DEF Record
    <2>3. /\ a.stability = b.stability /\ a.access_count = b.access_count
          /\ a.last_access = b.last_access /\ a.unpinned_at = b.unpinned_at
          /\ MaxOf(a.pinned_at, 0) = MaxOf(b.pinned_at, 0)
      BY <2>1, <2>2 DEF CountLeq, OptTime, None, MaxOf
    <2>4. a.pinned <=> b.pinned
      BY <1>3, <2>2, <2>3 DEF Marks, OptTime, None, MaxOf
    <2>5. a.pinned = b.pinned
      BY <2>2, <2>4
    <2>6. a.expired_at = b.expired_at
      BY <1>3 DEF Marks
    <2> QED BY <1>1, <1>2, <2>3, <2>5, <2>6 DEF Synced
  <1> QED BY <1>1, <1>2, <1>3

\* A row with consistent markers is normal, so its marks are its own.
LEMMA MarksAreNormal ==
  ASSUME NEW r \in Record, NEW t \in Nat, Marks(r, t)
  PROVE  /\ PinMark(r) = IF r.pinned /\ r.pinned_at = None THEN 0 ELSE r.pinned_at
         /\ UnpinMark(r) = r.unpinned_at
         /\ r.pinned /\ r.pinned_at = None => LegacyPin
         /\ LegacyPin /\ r.unpinned_at = None => PinMark(r) # None
  <1>1. r.pinned \in BOOLEAN /\ r.pinned_at \in OptTime /\ r.unpinned_at \in OptTime
    BY DEF Record
  <1> QED BY <1>1 DEF Marks, PinMark, UnpinMark, NormalisePin, OptTime, None

LEMMA MergeMarks ==
  ASSUME NEW a \in Record, NEW b \in Record, NEW t \in Nat, Marks(a, t), Marks(b, t), t > 0
  PROVE  LET m == MergeRecord(a, b)
         IN /\ Marks(m, t)
            /\ CountLeq(a, m) /\ CountLeq(b, m)
            /\ \A c \in Record : CountLeq(a, c) /\ CountLeq(b, c) => CountLeq(m, c)
  <1>1. PICK p, u : p = MaxNonnull(PinMark(a), PinMark(b)) /\ u = MaxNonnull(UnpinMark(a), UnpinMark(b))
    OBVIOUS
  <1>2. PICK m : m = MergeRecord(a, b)
    OBVIOUS
  <1>3. /\ m.pinned = PinnedBy(p, u) /\ m.pinned_at = p /\ m.unpinned_at = u
        /\ m.expired_at = MinNonnull(a.expired_at, b.expired_at)
        /\ m.stability = MaxOf(a.stability, b.stability)
        /\ m.access_count = MaxOf(a.access_count, b.access_count)
        /\ m.last_access = MaxNonnull(a.last_access, b.last_access)
    <2>1. PinLattice(a, b) = [pinned |-> PinnedBy(p, u), pinned_at |-> p, unpinned_at |-> u]
      BY <1>1, PinLatticeIsMax
    <2> QED BY <1>2, <2>1 DEF MergeRecord
  <1>4. \A x \in {a, b} : /\ x.pinned \in BOOLEAN /\ x.pinned_at \in OptTime
                          /\ x.unpinned_at \in OptTime /\ x.last_access \in OptTime
                          /\ x.stability \in Nat /\ x.access_count \in Nat
    BY DEF Record
  <1>5. /\ PinMark(a) \in OptTime /\ PinMark(b) \in OptTime
        /\ UnpinMark(a) = a.unpinned_at /\ UnpinMark(b) = b.unpinned_at
        /\ PinMark(a) = IF a.pinned /\ a.pinned_at = None THEN 0 ELSE a.pinned_at
        /\ PinMark(b) = IF b.pinned /\ b.pinned_at = None THEN 0 ELSE b.pinned_at
        /\ a.pinned /\ a.pinned_at = None => LegacyPin
        /\ b.pinned /\ b.pinned_at = None => LegacyPin
        /\ LegacyPin /\ a.unpinned_at = None => PinMark(a) # None
    BY <1>4, MarkTypes, MarksAreNormal
  <1>6. /\ p \in OptTime /\ u \in OptTime /\ p < t /\ u < t
        /\ p = 0 => LegacyPin
        /\ LegacyPin /\ u = None => p # None
        /\ MaxOf(p, 0) = MaxOf(MaxOf(a.pinned_at, 0), MaxOf(b.pinned_at, 0))
        /\ u >= a.unpinned_at /\ u >= b.unpinned_at /\ u \in {a.unpinned_at, b.unpinned_at}
    BY <1>1, <1>4, <1>5 DEF Marks, MaxNonnull, OptTime, None, MaxOf
  <1>7. m.pinned <=> (IF u = None THEN p # None \/ LegacyPin ELSE p > u)
    <2>1. PinnedBy(p, u) <=> (IF u = None THEN p # None \/ LegacyPin ELSE p > u)
      BY <1>6 DEF PinnedBy, OptTime, None
    <2> QED BY <1>3, <2>1, Zenon
  <1>8. /\ m.expired_at = None
        /\ m.last_access < t
        /\ m.last_access >= a.last_access /\ m.last_access >= b.last_access
        /\ m.last_access \in {a.last_access, b.last_access}
    BY <1>3, <1>4 DEF Marks, MinNonnull, MaxNonnull, OptTime, None
  <1>9. Marks(m, t)
    BY <1>3, <1>6, <1>7, <1>8 DEF Marks
  <1>10. CountLeq(a, m) /\ CountLeq(b, m)
    BY <1>3, <1>4, <1>6, <1>8 DEF CountLeq, MaxOf, OptTime, None
  <1>11. ASSUME NEW c \in Record, CountLeq(a, c), CountLeq(b, c)
         PROVE  CountLeq(m, c)
    <2>1. c.pinned_at \in OptTime
      BY DEF Record
    <2> QED BY <1>3, <1>4, <1>6, <1>8, <1>11, <2>1 DEF CountLeq, MaxOf, OptTime, None
  <1> QED BY <1>2, <1>9, <1>10, <1>11

\* merge_record is the least upper bound of its arguments.
LEMMA MergeIsLeast ==
  ASSUME NEW a \in Record, NEW b \in Record, NEW t \in Nat, t > 0,
         InStep => Marks(a, t) /\ Marks(b, t)
  PROVE  LET m == MergeRecord(a, b)
         IN /\ m \in Record
            /\ InStep => Marks(m, t)
            /\ Below(a, m) /\ Below(b, m)
            /\ \A c \in Record : Below(a, c) /\ Below(b, c) => Below(m, c)
  <1>1. PICK m \in Record : m = MergeRecord(a, b)
    BY MergeType
  <1>2. /\ VersionKey(m) \in {VersionKey(a), VersionKey(b)}
        /\ KeyGeq(VersionKey(m), VersionKey(a)) /\ KeyGeq(VersionKey(m), VersionKey(b))
    BY <1>1, MergeFields, WinnerIsMax
  <1>3. m.obs = a.obs \cup b.obs
    BY <1>1 DEF MergeRecord, MergeObs
  <1>4. InStep => /\ Marks(m, t)
                  /\ CountLeq(a, m) /\ CountLeq(b, m)
                  /\ \A c \in Record : CountLeq(a, c) /\ CountLeq(b, c) => CountLeq(m, c)
    BY <1>1, MergeMarks
  <1> QED BY <1>1, <1>2, <1>3, <1>4 DEF Below

\* The envelope plays no part.
LEMMA RehomeBelow ==
  ASSUME NEW r \in Record
  PROVE  /\ Rehome(r) \in Record
         /\ \A s \in Record : /\ Below(s, Rehome(r)) <=> Below(s, r)
                              /\ Below(Rehome(r), s) <=> Below(r, s)
         /\ \A t \in Nat : Marks(Rehome(r), t) <=> Marks(r, t)
  <1>1. PICK x \in Record : x = Rehome(r) /\ VersionKey(x) = VersionKey(r) /\ x.obs = r.obs
    BY RehomeType, KeyOfVersion
  <1>2. /\ x.stability = r.stability /\ x.access_count = r.access_count
        /\ x.last_access = r.last_access /\ x.pinned_at = r.pinned_at
        /\ x.unpinned_at = r.unpinned_at /\ x.pinned = r.pinned
        /\ x.expired_at = r.expired_at
    <2>1. x = [r EXCEPT !.env = PeerEnv]
      BY <1>1 DEF Rehome
    <2>2. /\ x.stability = r.stability /\ x.access_count = r.access_count
          /\ x.last_access = r.last_access /\ x.pinned_at = r.pinned_at
          /\ x.unpinned_at = r.unpinned_at /\ x.expired_at = r.expired_at
      BY <2>1 DEF Record
    <2>3. x.pinned = r.pinned
      BY <2>1, Zenon DEF Record
    <2> QED BY <2>2, <2>3
  <1>3. \A s \in Record : /\ CountLeq(s, x) <=> CountLeq(s, r)
                          /\ CountLeq(x, s) <=> CountLeq(r, s)
    BY <1>2 DEF CountLeq
  <1>4. \A t \in Nat : Marks(x, t) <=> Marks(r, t)
    BY <1>2 DEF Marks
  <1> QED BY <1>1, <1>3, <1>4 DEF Below

Sources(v, H) == {Captured} \cup {v[o] : o \in H}

\* r is the least upper bound of the rows S.
IsJoin(r, S) ==
  /\ \A s \in S : Below(s, r)
  /\ \A b \in Record : (\A s \in S : Below(s, b)) => Below(r, b)

\* Rows are joins of what the operations wrote; v is what that was.
Joins ==
  \E v \in [1..MaxOps -> Record] : \A d \in Device :
    /\ Present(d) => IsJoin(rec[d], Sources(v, seen[d]))
    /\ folder[d] # Absent => IsJoin(folder[d], Sources(v, sent[d]))

\* Histories name operations that have happened, stamps are of the past.
Past ==
  /\ clock > 0
  /\ \A d \in Device :
       /\ seen[d] \subseteq 1..ops /\ sent[d] \subseteq 1..ops
       /\ ~ Present(d) => seen[d] = {}
       /\ InStep /\ Present(d) => Marks(rec[d], clock)
       /\ InStep /\ folder[d] # Absent => Marks(folder[d], clock)

LEMMA MarksLast ==
  ASSUME NEW r \in Record, NEW t \in Nat, Marks(r, t)
  PROVE  Marks(r, t + 1)
  BY DEF Marks, Record, OptTime, None

\* What the local operations write is above what was there.
LEMMA WriteIsAbove ==
  ASSUME TypeOK, TypeOK', Past, NEW d \in Device,
         \/ \E l \in Label : UpdateMemory(d, l)
         \/ \E at \in ClosePoints : CloseValidity(d, at)
         \/ \E p \in BOOLEAN : SetPinned(d, p)
         \/ Reinforce(d)
  PROVE  /\ Present(d) /\ LocalWrite(d, rec'[d]) /\ rec'[d] \in Record
         /\ Below(rec[d], rec'[d])
         /\ InStep => Marks(rec'[d], clock + 1)
  <1>1. PICK x \in Record : x = rec[d] /\ Present(d)
    BY DEF TypeOK, Present, UpdateMemory, CloseValidity, SetPinned, Reinforce
  <1>2. Grows(x, rec'[d])
    BY <1>1, GrowsStep DEF Next
  <1>3. rec'[d] \in Record
    BY <1>2 DEF Grows, TypeOK
  <1>4. PICK r \in Record : r = rec'[d] /\ LocalWrite(d, r)
    BY <1>3 DEF TypeOK, UpdateMemory, CloseValidity, SetPinned, Reinforce, LocalWrite
  <1>5. ASSUME InStep PROVE CountLeq(x, r) /\ Marks(r, clock + 1)
    <2>1. Now(d) = clock /\ clock \in Nat /\ Marks(x, clock) /\ clock > 0
      BY <1>1, <1>5 DEF InStep, Now, Past, TypeOK
    <2>2. /\ x.pinned \in BOOLEAN /\ x.pinned_at \in OptTime
          /\ x.unpinned_at \in OptTime /\ x.last_access \in OptTime
          /\ x.stability \in Nat /\ x.access_count \in Nat
      BY DEF Record
    <2>3. ASSUME r.pinned = x.pinned, r.pinned_at = x.pinned_at, r.unpinned_at = x.unpinned_at,
                 r.expired_at = x.expired_at, r.stability \in Nat, r.stability >= x.stability,
                 r.access_count \in Nat, r.access_count >= x.access_count,
                 r.last_access \in {x.last_access, clock}
          PROVE  CountLeq(x, r) /\ Marks(r, clock + 1)
      <3>1. CountLeq(x, r)
        BY <2>1, <2>2, <2>3 DEF CountLeq, Marks, OptTime, None, MaxOf
      <3>2. /\ r.expired_at = None /\ r.last_access < clock + 1 /\ r.pinned_at < clock + 1
            /\ r.unpinned_at < clock + 1 /\ (r.pinned_at = 0 => LegacyPin)
        BY <2>1, <2>2, <2>3 DEF Marks, OptTime, None
      <3>3. r.pinned <=> (IF r.unpinned_at = None THEN r.pinned_at # None \/ LegacyPin
                          ELSE r.pinned_at > r.unpinned_at)
        BY <2>1, <2>3 DEF Marks
      <3> QED BY <3>1, <3>2, <3>3 DEF Marks
    <2>4. ASSUME NEW l \in Label, UpdateMemory(d, l)
          PROVE  CountLeq(x, r) /\ Marks(r, clock + 1)
      <3>1. PICK h : r = [x EXCEPT !.label = l, !.modified_hlc = h]
        BY <1>1, <1>4, <2>4 DEF UpdateMemory, LocalWrite, TypeOK
      <3>2. /\ r.pinned_at = x.pinned_at /\ r.unpinned_at = x.unpinned_at
            /\ r.expired_at = x.expired_at /\ r.stability = x.stability
            /\ r.access_count = x.access_count /\ r.last_access = x.last_access
        BY <3>1 DEF Record
      <3>3. r.pinned = x.pinned
        BY <3>1, Zenon DEF Record
      <3> QED BY <2>2, <2>3, <3>2, <3>3
    <2>5. ASSUME NEW at \in ClosePoints, CloseValidity(d, at)
          PROVE  CountLeq(x, r) /\ Marks(r, clock + 1)
      <3>1. PICK o : r = [x EXCEPT !.obs = o]
        BY <1>1, <1>4, <2>5 DEF CloseValidity, LocalWrite, TypeOK
      <3>2. /\ r.pinned_at = x.pinned_at /\ r.unpinned_at = x.unpinned_at
            /\ r.expired_at = x.expired_at /\ r.stability = x.stability
            /\ r.access_count = x.access_count /\ r.last_access = x.last_access
        BY <3>1 DEF Record
      <3>3. r.pinned = x.pinned
        BY <3>1, Zenon DEF Record
      <3> QED BY <2>2, <2>3, <3>2, <3>3
    <2>6. ASSUME Reinforce(d) PROVE CountLeq(x, r) /\ Marks(r, clock + 1)
      <3>1. r = [x EXCEPT !.access_count = @ + 1, !.stability = @ + 1, !.last_access = clock]
        BY <1>1, <1>4, <2>1, <2>6 DEF Reinforce, LocalWrite, TypeOK
      <3>2. /\ r.pinned_at = x.pinned_at /\ r.unpinned_at = x.unpinned_at
            /\ r.expired_at = x.expired_at /\ r.stability = x.stability + 1
            /\ r.access_count = x.access_count + 1 /\ r.last_access = clock
        BY <3>1 DEF Record
      <3>3. r.pinned = x.pinned
        BY <3>1, Zenon DEF Record
      <3> QED BY <2>2, <2>3, <3>2, <3>3
    <2>7. ASSUME SetPinned(d, TRUE) PROVE CountLeq(x, r) /\ Marks(r, clock + 1)
      <3>1. r = [x EXCEPT !.pinned = TRUE, !.pinned_at = clock] /\ ~ x.pinned
        BY <1>1, <1>4, <2>1, <2>2, <2>7 DEF SetPinned, LocalWrite, TypeOK
      <3>2. /\ r.pinned_at = clock /\ r.unpinned_at = x.unpinned_at
            /\ r.expired_at = x.expired_at /\ r.stability = x.stability
            /\ r.access_count = x.access_count /\ r.last_access = x.last_access
        BY <3>1 DEF Record
      <3>3. r.pinned
        BY <3>1, Zenon DEF Record
      <3> QED BY <2>1, <2>2, <3>2, <3>3 DEF CountLeq, Marks, OptTime, None, MaxOf
    <2>8. ASSUME SetPinned(d, FALSE) PROVE CountLeq(x, r) /\ Marks(r, clock + 1)
      <3>1. r = [x EXCEPT !.pinned = FALSE, !.unpinned_at = clock]
        BY <1>1, <1>4, <2>1, <2>8 DEF SetPinned, LocalWrite, TypeOK
      <3>2. /\ r.pinned_at = x.pinned_at /\ r.unpinned_at = clock
            /\ r.expired_at = x.expired_at /\ r.stability = x.stability
            /\ r.access_count = x.access_count /\ r.last_access = x.last_access
        BY <3>1 DEF Record
      <3>3. ~ r.pinned
        BY <3>1, Zenon DEF Record
      <3> QED BY <2>1, <2>2, <3>2, <3>3 DEF CountLeq, Marks, OptTime, None, MaxOf
    <2>9. \A p \in BOOLEAN : SetPinned(d, p) => SetPinned(d, TRUE) \/ SetPinned(d, FALSE)
      OBVIOUS
    <2> QED BY <2>4, <2>5, <2>6, <2>7, <2>8, <2>9
  <1> QED BY <1>1, <1>2, <1>4, <1>5 DEF Below, Grows

\* A local operation is a new source of its own row.
LEMMA WriteJoins ==
  ASSUME TypeOK, TypeOK', Past, Joins, NEW d \in Device, Present(d),
         NEW r \in Record, LocalWrite(d, r), Below(rec[d], r), InStep => Marks(r, clock + 1)
  PROVE  Past' /\ Joins'
  <1>1. /\ ops + 1 \in 1..MaxOps /\ ops \in Nat /\ ops' = ops + 1 /\ clock' = clock + 1
        /\ clock \in Nat
        /\ folder' = folder /\ sent' = sent
        /\ seen' = [seen EXCEPT ![d] = seen[d] \cup {ops + 1}]
        /\ rec' = [rec EXCEPT ![d] = r]
    BY DeviceAssumption DEF LocalWrite, TypeOK
  <1>2. r # Absent
    BY DeviceAssumption
  <1>3. \A e \in Device : /\ rec'[e] = IF e = d THEN r ELSE rec[e]
                          /\ seen'[e] = IF e = d THEN seen[d] \cup {ops + 1} ELSE seen[e]
                          /\ seen[e] \subseteq 1..ops /\ sent[e] \subseteq 1..ops
                          /\ rec[e] \in Record \cup {Absent}
                          /\ folder[e] \in Record \cup {Absent}
    BY <1>1 DEF TypeOK, Past
  <1>4. Past'
    <2>1. clock' > 0
      BY <1>1
    <2> SUFFICES ASSUME NEW e \in Device
                 PROVE  /\ seen'[e] \subseteq 1..ops' /\ sent'[e] \subseteq 1..ops'
                        /\ ~ Present(e)' => seen'[e] = {}
                        /\ InStep /\ Present(e)' => Marks(rec'[e], clock + 1)
                        /\ InStep /\ folder'[e] # Absent => Marks(folder'[e], clock + 1)
      BY <1>1, <2>1 DEF Past
    <2>2. seen'[e] \subseteq 1..ops' /\ sent'[e] \subseteq 1..ops'
      BY <1>1, <1>3
    <2>3. ~ Present(e)' => seen'[e] = {}
      BY <1>2, <1>3 DEF Past, Present
    <2>4. InStep /\ Present(e)' => Marks(rec'[e], clock + 1)
      BY <1>1, <1>3, MarksLast DEF Past, Present
    <2>5. InStep /\ folder'[e] # Absent => Marks(folder'[e], clock + 1)
      BY <1>1, <1>3, MarksLast DEF Past
    <2> QED BY <2>2, <2>3, <2>4, <2>5
  <1>5. PICK v \in [1..MaxOps -> Record] : \A e \in Device :
          /\ Present(e) => IsJoin(rec[e], Sources(v, seen[e]))
          /\ folder[e] # Absent => IsJoin(folder[e], Sources(v, sent[e]))
    BY DEF Joins
  <1>6. PICK w \in [1..MaxOps -> Record] :
          /\ w[ops + 1] = r
          /\ \A o \in 1..ops : w[o] = v[o]
    <2>1. PICK w : w = [v EXCEPT ![ops + 1] = r]
      OBVIOUS
    <2>2. w \in [1..MaxOps -> Record] /\ w[ops + 1] = r
      BY <1>1, <2>1
    <2>3. \A o \in 1..ops : o \in 1..MaxOps /\ o # ops + 1
      BY <1>1, DeviceAssumption
    <2> QED BY <2>1, <2>2, <2>3
  <1>7. \A H \in SUBSET (1..ops) : Sources(w, H) = Sources(v, H)
    BY <1>6 DEF Sources
  <1>8. Sources(w, seen[d] \cup {ops + 1}) = Sources(v, seen[d]) \cup {r}
    <2>1. Sources(w, seen[d] \cup {ops + 1}) = Sources(w, seen[d]) \cup {r}
      BY <1>6 DEF Sources
    <2> QED BY <1>3, <1>7, <2>1
  <1>9. IsJoin(r, Sources(v, seen[d]) \cup {r})
    <2>1. rec[d] \in Record
      BY <1>3 DEF Present
    <2>2. Sources(v, seen[d]) \subseteq Record
      BY <1>3, <1>1, CapturedType DEF Sources, TypeOK
    <2>3. \A s \in Sources(v, seen[d]) : Below(s, rec[d])
      BY <1>5 DEF IsJoin
    <2>4. \A s \in Sources(v, seen[d]) : Below(s, r)
      BY <2>1, <2>2, <2>3, BelowOrder
    <2>5. Below(r, r)
      BY BelowOrder
    <2> QED BY <2>4, <2>5 DEF IsJoin
  <1>10. \A e \in Device :
           /\ Present(e)' => IsJoin(rec'[e], Sources(w, seen'[e]))
           /\ folder'[e] # Absent => IsJoin(folder'[e], Sources(w, sent'[e]))
    <2> SUFFICES ASSUME NEW e \in Device
                 PROVE  /\ Present(e)' => IsJoin(rec'[e], Sources(w, seen'[e]))
                        /\ folder'[e] # Absent => IsJoin(folder'[e], Sources(w, sent'[e]))
      OBVIOUS
    <2>1. folder'[e] # Absent => IsJoin(folder'[e], Sources(w, sent'[e]))
      BY <1>1, <1>3, <1>5, <1>7
    <2>2. CASE e = d
      BY <1>3, <1>8, <1>9, <2>1, <2>2
    <2>3. CASE e # d
      BY <1>3, <1>5, <1>7, <2>1, <2>3 DEF Present
    <2> QED BY <2>2, <2>3
  <1> QED BY <1>4, <1>10 DEF Joins

\* An accepted snapshot joins two histories.
LEMMA PullJoins ==
  ASSUME TypeOK, TypeOK', Past, Joins, NEW d \in Device, NEW e \in Device, Pull(d, e)
  PROVE  Past' /\ Joins'
  <1>1. /\ folder[e] # Absent /\ folder' = folder /\ clock' = clock /\ ops' = ops /\ sent' = sent
        /\ clock \in Nat /\ clock > 0
        /\ \A f \in Device :
             /\ rec'[f] = IF f = d THEN ApplyOne(rec[d], folder[e]) ELSE rec[f]
             /\ seen'[f] = IF f = d /\ Accepts(rec[d], folder[e])
                           THEN seen[d] \cup sent[e] ELSE seen[f]
    BY DEF Pull, TypeOK, Past
  <1>2. PICK b \in Record : b = folder[e] /\ (InStep => Marks(b, clock))
    BY <1>1 DEF TypeOK, Past
  <1>3. CASE ~ Accepts(rec[d], folder[e])
    <2>1. \A f \in Device : rec'[f] = rec[f] /\ seen'[f] = seen[f]
      BY <1>1, <1>3 DEF ApplyOne
    <2>2. rec' = rec /\ seen' = seen
      BY <2>1 DEF TypeOK
    <2> QED BY <1>1, <2>2 DEF Past, Joins, Present
  <1>4. CASE Accepts(rec[d], folder[e])
    <2>1. PICK v \in [1..MaxOps -> Record] : \A f \in Device :
            /\ Present(f) => IsJoin(rec[f], Sources(v, seen[f]))
            /\ folder[f] # Absent => IsJoin(folder[f], Sources(v, sent[f]))
      BY DEF Joins
    <2>2. PICK j : j = Joined(rec[d], b)
      OBVIOUS
    <2>3. rec'[d] = j /\ seen'[d] = seen[d] \cup sent[e]
      BY <1>1, <1>2, <1>4, <2>2 DEF ApplyOne
    <2>4. IsJoin(b, Sources(v, sent[e]))
      BY <1>1, <1>2, <2>1
    <2>5. Sources(v, seen[d]) \subseteq Record /\ Sources(v, sent[e]) \subseteq Record
      BY CapturedType DEF Sources, TypeOK
    <2>6. Rehome(b) \in Record /\ (InStep => Marks(Rehome(b), clock))
          /\ \A s \in Record : /\ Below(s, Rehome(b)) <=> Below(s, b)
                               /\ Below(Rehome(b), s) <=> Below(b, s)
      BY <1>1, <1>2, RehomeBelow
    <2>7. /\ j \in Record /\ (InStep => Marks(j, clock))
          /\ IsJoin(j, Sources(v, seen[d] \cup sent[e]))
      <3>1. CASE rec[d] = Absent
        <4>1. j = Rehome(b) /\ seen[d] \cup sent[e] = sent[e]
          BY <2>2, <3>1 DEF Joined, Past, Present
        <4>2. IsJoin(Rehome(b), Sources(v, sent[e]))
          BY <2>4, <2>5, <2>6 DEF IsJoin
        <4> QED BY <2>6, <4>1, <4>2
      <3>2. CASE rec[d] # Absent
        <4>1. PICK a \in Record : /\ a = rec[d] /\ (InStep => Marks(a, clock))
                                  /\ IsJoin(a, Sources(v, seen[d]))
          BY <2>1, <3>2 DEF TypeOK, Past, Present
        <4>2. j = MergeRecord(a, Rehome(b))
          BY <2>2, <3>2, <4>1 DEF Joined
        <4>3. /\ j \in Record /\ (InStep => Marks(j, clock))
              /\ Below(a, j) /\ Below(Rehome(b), j)
              /\ \A c \in Record : Below(a, c) /\ Below(Rehome(b), c) => Below(j, c)
          BY <1>1, <2>6, <4>1, <4>2, MergeIsLeast
        <4>4. Below(b, j) /\ \A c \in Record : Below(a, c) /\ Below(b, c) => Below(j, c)
          BY <2>6, <4>3
        <4>5. Sources(v, seen[d] \cup sent[e]) = Sources(v, seen[d]) \cup Sources(v, sent[e])
          BY DEF Sources
        <4>6. /\ \A s \in Sources(v, seen[d]) : Below(s, a)
              /\ \A s \in Sources(v, sent[e]) : Below(s, b)
          BY <2>4, <4>1 DEF IsJoin
        <4>7. \A s \in Sources(v, seen[d]) \cup Sources(v, sent[e]) : Below(s, j)
          BY <2>5, <4>3, <4>4, <4>6, BelowOrder
        <4>8. ASSUME NEW c \in Record,
                     \A s \in Sources(v, seen[d]) \cup Sources(v, sent[e]) : Below(s, c)
              PROVE  Below(j, c)
          BY <2>4, <4>1, <4>4, <4>8 DEF IsJoin
        <4> QED BY <4>3, <4>5, <4>7, <4>8 DEF IsJoin
      <3> QED BY <3>1, <3>2
    <2>8. \A f \in Device :
            /\ Present(f)' => IsJoin(rec'[f], Sources(v, seen'[f]))
            /\ folder'[f] # Absent => IsJoin(folder'[f], Sources(v, sent'[f]))
      BY <1>1, <2>1, <2>3, <2>7 DEF Present
    <2>9. Past'
      <3>1. \A f \in Device : InStep /\ Present(f)' => Marks(rec'[f], clock)
        BY <1>1, <2>3, <2>7 DEF Past, Present
      <3>2. j # Absent
        BY <2>7, DeviceAssumption
      <3>3. \A f \in Device : ~ Present(f)' => seen'[f] = {}
        BY <1>1, <2>3, <3>2 DEF Past, Present
      <3>4. \A f \in Device : seen'[f] \subseteq 1..ops
        BY <1>1 DEF Past
      <3> QED BY <1>1, <3>1, <3>3, <3>4 DEF Past
    <2> QED BY <2>8, <2>9 DEF Joins
  <1> QED BY <1>3, <1>4

LEMMA JoinsStep == TypeOK /\ TypeOK' /\ Past /\ Joins /\ [Next]_vars => Past' /\ Joins'
  <1> SUFFICES ASSUME TypeOK, TypeOK', Past, Joins, [Next]_vars PROVE Past' /\ Joins'
    OBVIOUS
  <1>1. ASSUME NEW d \in Device,
               \/ \E l \in Label : UpdateMemory(d, l)
               \/ \E at \in ClosePoints : CloseValidity(d, at)
               \/ \E p \in BOOLEAN : SetPinned(d, p)
               \/ Reinforce(d)
        PROVE  Past' /\ Joins'
    <2>1. PICK r : r = rec'[d]
      OBVIOUS
    <2>2. /\ Present(d) /\ r \in Record /\ LocalWrite(d, r) /\ Below(rec[d], r)
          /\ (InStep => Marks(r, clock + 1))
      BY <1>1, <2>1, WriteIsAbove
    <2> QED BY <2>2, WriteJoins
  <1>2. ASSUME NEW d \in Device, Push(d) PROVE Past' /\ Joins'
    <2>1. /\ Present(d) /\ rec' = rec /\ clock' = clock /\ ops' = ops /\ seen' = seen
          /\ \A f \in Device : /\ folder'[f] = IF f = d THEN rec[d] ELSE folder[f]
                               /\ sent'[f] = IF f = d THEN seen[d] ELSE sent[f]
      BY <1>2 DEF Push, TypeOK
    <2>2. Past'
      BY <2>1 DEF Past, Present
    <2>3. Joins'
      BY <2>1 DEF Joins, Present
    <2> QED BY <2>2, <2>3
  <1>3. ASSUME NEW d \in Device, NEW e \in Device, Pull(d, e) PROVE Past' /\ Joins'
    BY <1>3, PullJoins
  <1>4. CASE UNCHANGED vars
    BY <1>4 DEF vars, Past, Joins, Present
  <1> QED BY <1>1, <1>2, <1>3, <1>4 DEF Next

LEMMA JoinsInvariant == Spec => [](TypeOK /\ Past /\ Joins)
  <1>1. Init => Past /\ Joins
    <2> SUFFICES ASSUME Init PROVE Past /\ Joins
      OBVIOUS
    <2>1. InStep => Marks(Captured, 1)
      BY DeviceAssumption DEF InStep, Marks, Captured, None
    <2>2. Past
      BY <2>1, DeviceAssumption DEF Init, Past, Present
    <2>3. PICK v \in [1..MaxOps -> Record] : TRUE
      <3>1. [o \in 1..MaxOps |-> Captured] \in [1..MaxOps -> Record]
        BY CapturedType
      <3> QED BY <3>1
    <2>4. IsJoin(Captured, Sources(v, {}))
      BY CapturedType, BelowOrder DEF IsJoin, Sources
    <2>5. Joins
      BY <2>3, <2>4 DEF Init, Joins, Present
    <2> QED BY <2>2, <2>5
  <1> QED BY <1>1, TypeCorrect, JoinsStep, PTL DEF Spec

\* A row that incorporates the operations of another is above it.
LEMMA MoreHistoryIsAbove ==
  ASSUME NEW v \in [1..MaxOps -> Record], NEW a \in Record, NEW b \in Record,
         NEW H \in SUBSET (1..MaxOps), NEW K \in SUBSET (1..MaxOps), H \subseteq K,
         IsJoin(a, Sources(v, H)), IsJoin(b, Sources(v, K))
  PROVE  Below(a, b)
  <1>1. Sources(v, H) \subseteq Sources(v, K)
    BY DEF Sources
  <1> QED BY <1>1 DEF IsJoin

\* What a snapshot without news does to a row.
LEMMA ReplayAbsorbed ==
  ASSUME TypeOK, Past, Joins, NEW d \in Device, NEW e \in Device,
         Present(d), folder[e] # Absent, sent[e] \subseteq seen[d]
  PROVE  LET j == ApplyOne(rec[d], folder[e])
         IN /\ j \in Record /\ rec[d] \in Record
            /\ Below(rec[d], j) /\ Below(j, rec[d])
            /\ InStep => Marks(j, clock) /\ Marks(rec[d], clock)
  <1>1. PICK a \in Record, b \in Record : a = rec[d] /\ b = folder[e] /\ a # Absent
    BY DEF TypeOK, Present
  <1>2. /\ clock \in Nat /\ clock > 0
        /\ InStep => Marks(a, clock) /\ Marks(b, clock)
    BY <1>1 DEF TypeOK, Past
  <1>3. Below(b, a)
    <2>1. PICK v \in [1..MaxOps -> Record] :
            IsJoin(a, Sources(v, seen[d])) /\ IsJoin(b, Sources(v, sent[e]))
      BY <1>1 DEF Joins
    <2>2. seen[d] \in SUBSET (1..MaxOps) /\ sent[e] \in SUBSET (1..MaxOps)
      BY DEF TypeOK
    <2> QED BY <2>1, <2>2, MoreHistoryIsAbove
  <1>4. PICK j : j = ApplyOne(a, b)
    OBVIOUS
  <1>5. CASE ~ Accepts(a, b)
    <2>1. j = a
      BY <1>4, <1>5 DEF ApplyOne
    <2> QED BY <1>1, <1>2, <1>4, <2>1, BelowOrder
  <1>6. CASE Accepts(a, b)
    <2>1. j = MergeRecord(a, Rehome(b))
      BY <1>1, <1>4, <1>6 DEF ApplyOne, Joined
    <2>2. /\ Rehome(b) \in Record /\ Below(Rehome(b), a)
          /\ InStep => Marks(Rehome(b), clock)
      BY <1>2, <1>3, RehomeBelow
    <2>3. /\ j \in Record /\ (InStep => Marks(j, clock)) /\ Below(a, j)
          /\ \A c \in Record : Below(a, c) /\ Below(Rehome(b), c) => Below(j, c)
      BY <1>2, <2>1, <2>2, MergeIsLeast
    <2>4. Below(j, a)
      BY <2>2, <2>3, BelowOrder
    <2> QED BY <1>1, <1>2, <1>4, <2>3, <2>4
  <1> QED BY <1>5, <1>6

\* Devices that have incorporated the same local operations hold the same row,
\* as long as their wall clocks agree: accesses and pins are ordered by them.
THEOREM SameHistory ==
  ASSUME InStep
  PROVE  Spec => []SameHistorySameState
  <1>1. TypeOK /\ Past /\ Joins => SameHistorySameState
    <2> SUFFICES ASSUME TypeOK, Past, Joins, NEW d \in Device, NEW e \in Device,
                        Present(d), Present(e), seen[d] = seen[e]
                 PROVE  Synced(rec[d]) = Synced(rec[e])
      BY DEF SameHistorySameState
    <2>1. PICK a \in Record, b \in Record : a = rec[d] /\ b = rec[e]
      BY DEF TypeOK, Present
    <2>2. PICK v \in [1..MaxOps -> Record] :
            IsJoin(a, Sources(v, seen[d])) /\ IsJoin(b, Sources(v, seen[e]))
      BY <2>1 DEF Joins
    <2>3. Below(a, b) /\ Below(b, a)
      BY <2>2, MoreHistoryIsAbove DEF TypeOK
    <2>4. clock \in Nat /\ Marks(a, clock) /\ Marks(b, clock)
      BY <2>1 DEF TypeOK, Past
    <2> QED BY <2>1, <2>3, <2>4, BelowBoth
  <1> QED BY <1>1, JoinsInvariant, PTL

\* Applying a snapshot again changes nothing, under the same condition.
THEOREM ReplayChangesNothing ==
  ASSUME InStep
  PROVE  Spec => []ReplayIsNoOp
  <1>1. TypeOK /\ Past /\ Joins => ReplayIsNoOp
    <2> SUFFICES ASSUME TypeOK, Past, Joins, NEW d \in Device, NEW e \in Device,
                        Present(d), folder[e] # Absent, sent[e] \subseteq seen[d]
                 PROVE  Synced(ApplyOne(rec[d], folder[e])) = Synced(rec[d])
      BY DEF ReplayIsNoOp
    <2>1. clock \in Nat
      BY DEF TypeOK
    <2> QED BY <2>1, ReplayAbsorbed, BelowBoth
  <1> QED BY <1>1, JoinsInvariant, PTL

\* Whatever the wall clocks say, a snapshot without news leaves the payload and
\* the closures of a row alone (advance_modified_hlc never goes back).
THEOREM ReplayKeepsEdits == Spec => []EditSurvivesReplay
  <1>1. TypeOK /\ Past /\ Joins => EditSurvivesReplay
    <2> SUFFICES ASSUME TypeOK, Past, Joins, NEW d \in Device, NEW e \in Device,
                        Present(d), folder[e] # Absent, sent[e] \subseteq seen[d]
                 PROVE  /\ ApplyOne(rec[d], folder[e]).label = rec[d].label
                        /\ ApplyOne(rec[d], folder[e]).obs = rec[d].obs
      BY DEF EditSurvivesReplay
    <2> QED BY ReplayAbsorbed, BelowBoth
  <1> QED BY <1>1, JoinsInvariant, PTL

==============================================================================
