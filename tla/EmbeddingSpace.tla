--------------------------- MODULE EmbeddingSpace ---------------------------
(***************************************************************************)
(* The vector space of a store (embedding_state and mem_vectors) and the   *)
(* rebuild that a start runs when the configured embedder maps texts       *)
(* differently (MemoryEngine._rebuild_versioned_embeddings). Processes     *)
(* with different embedders share one database: each embeds outside the    *)
(* writer and publishes afterwards, and each may take the rebuild over     *)
(* from another between two batches.                                       *)
(***************************************************************************)
EXTENDS Integers, FiniteSets, FiniteSetsExt

CONSTANTS
  MemoryCount,   \* memory ids, in their order
  Process,       \* processes that open the store
  Space,         \* fingerprints of embedding spaces
  SpaceOf,       \* SpaceOf[p]: the fingerprint of p's embedder
  Degraded,      \* the spaces of embedders without semantic support
  Batch,         \* EMBEDDING_REBUILD_BATCH
  MaxOps         \* bound on writes, erasures and crashes

Id == 1..MemoryCount

\* No marker or vector; the marker and the vectors of a store before schema 11.
None == "none"
Legacy == "legacy-unverified"

ASSUME SpaceAssumption ==
  /\ MemoryCount \in Nat
  /\ SpaceOf \in [Process -> Space]
  /\ Degraded \subseteq Space
  /\ None \notin Space /\ Legacy \notin Space
  /\ Batch \in Nat \ {0}
  /\ MaxOps \in Nat

VARIABLES
  row,      \* row[m]: the memory
  model,    \* model[m]: the space of its vector in mem_vectors, or None
  active,   \* embedding_state.__active__
  target,   \* embedding_state.__rebuilding__
  pc,       \* where a process is
  page,     \* page[p]: records that its rebuild has read and is embedding
  after,    \* after[p]: the id after which its next page begins
  vector,   \* vector[p]: the space of the vector that a write has prepared
  ops       \* writes, erasures and crashes so far

store == <<row, model, active, target>>
local == <<pc, page, after, vector>>
vars == <<store, local, ops>>

\* Rows that are not inspection_eligible ("held") must not have a vector.
RowState == {"none", "live", "held", "erased"}

PC == {"down", "begin", "read", "embedded", "finish", "up", "remember", "sync"}

\* What a page holds: ids, and which of them were eligible when they were read.
Page == [ids : SUBSET Id, eligible : SUBSET Id]
NoPage == [ids |-> {}, eligible |-> {}]

\* A new store, or one that was migrated from an older schema.
Init ==
  /\ row \in [Id -> {"none", "live", "held"}]
  /\ active \in {None, Legacy}
  /\ \A m \in Id : active = None => row[m] = "none"
  /\ model = [m \in Id |-> IF row[m] = "none" THEN None ELSE Legacy]
  /\ target = None
  /\ pc = [p \in Process |-> "down"]
  /\ page = [p \in Process |-> NoPage]
  /\ after = [p \in Process |-> 0]
  /\ vector = [p \in Process |-> None]
  /\ ops = 0

------------------------------------------------------------------------------
\* embedding_space_ready: the markers say so, and no vector contradicts them.
Ready(f) ==
  /\ target = None
  /\ active = f
  /\ \A m \in Id : model[m] \in {None, f}

\* The check of put_vector: vectors belong to the target of a rebuild or, if
\* there is none, to the active space.
Accepts(f) == IF target # None THEN target = f ELSE active \in {None, f}

\* Rows with a missing or foreign vector, of which a page is the first few.
Needing(f, from) == {m \in Id : /\ row[m] \in {"live", "held"}
                                /\ model[m] # f
                                /\ m > from}

\* Mutant: an id too far.
AfterSkips(ids) == Max(ids) + 1

\* Mutant: every page begins at the first id.
AfterStays(ids) == 0

\* The key after which the next page begins.
NextAfter(ids) == Max(ids)

PageOf(ids) == {m \in ids : Cardinality({n \in ids : n < m}) < Batch}

Goto(p, l) == pc' = [pc EXCEPT ![p] = l]

\* MemoryEngine.create: the guards of _rebuild_versioned_embeddings. A degraded
\* embedder leaves a space alone that another embedder has built.
Start(p) ==
  /\ pc[p] = "down"
  /\ LET f == SpaceOf[p] IN
     IF Ready(f) \/ (f \in Degraded /\ active \in Space \ {f})
     THEN Goto(p, "up")
     ELSE Goto(p, "begin")
  /\ UNCHANGED <<store, page, after, vector, ops>>

\* begin_embedding_rebuild takes the marker, whoever had it.
Begin(p) ==
  /\ pc[p] = "begin"
  /\ target' = SpaceOf[p]
  /\ after' = [after EXCEPT ![p] = 0]
  /\ Goto(p, "read")
  /\ UNCHANGED <<row, model, active, page, vector, ops>>

\* list_memories_needing_vectors_page, and the embedder, without the writer.
ReadPage(p) ==
  /\ pc[p] = "read"
  /\ LET ids == PageOf(Needing(SpaceOf[p], after[p])) IN
     /\ page' = [page EXCEPT ![p] =
          [ids |-> ids, eligible |-> {m \in ids : row[m] = "live"}]]
     /\ IF ids = {}
        THEN Goto(p, "finish") /\ UNCHANGED after
        ELSE Goto(p, "embedded") /\ after' = [after EXCEPT ![p] = NextAfter(ids)]
  /\ UNCHANGED <<store, vector, ops>>

\* The rebuild was taken over: fine if the other has finished the same space,
\* else the start fails.
Superseded(p) ==
  /\ target # SpaceOf[p]
  /\ Goto(p, IF Ready(SpaceOf[p]) THEN "up" ELSE "down")
  /\ page' = [page EXCEPT ![p] = NoPage]
  /\ UNCHANGED <<store, after, vector, ops>>

\* Mutant: a batch is published without asking who owns the marker.
OwnsAlways(p) == TRUE

\* Does the marker still name p's space?
OwnsMarker(p) == target = SpaceOf[p]

\* One batch under the writer. A row that was erased meanwhile violates the
\* foreign key of its vector: rollback, and the start fails.
PublishBatch(p) ==
  /\ pc[p] = "embedded"
  /\ OwnsMarker(p)
  /\ IF \A m \in page[p].eligible : row[m] # "erased"
     THEN /\ model' = [m \in Id |->
               IF m \in page[p].eligible THEN SpaceOf[p]
               ELSE IF m \in page[p].ids THEN None ELSE model[m]]
          /\ Goto(p, "read")
     ELSE /\ UNCHANGED model
          /\ Goto(p, "down")
  /\ page' = [page EXCEPT ![p] = NoPage]
  /\ UNCHANGED <<row, active, target, after, vector, ops>>

\* No vector of another space is left.
Uniform(p) == \A m \in Id : model[m] \in {None, SpaceOf[p]}

\* finish_embedding_rebuild in the transaction that counted.
Finish(p) ==
  /\ pc[p] = "finish"
  /\ OwnsMarker(p)
  /\ IF Uniform(p)
     THEN /\ active' = SpaceOf[p]
          /\ target' = None
          /\ Goto(p, "up")
     ELSE /\ UNCHANGED <<active, target>>
          /\ Goto(p, "down")
  /\ UNCHANGED <<row, model, page, after, vector, ops>>

Rebuild(p) ==
  \/ Begin(p) \/ ReadPage(p) \/ PublishBatch(p) \/ Finish(p)
  \/ pc[p] \in {"embedded", "finish"} /\ Superseded(p)

------------------------------------------------------------------------------
\* remember and remember_batch check the space and embed before the writer.
PrepareRemember(p) ==
  /\ pc[p] = "up"
  /\ ops < MaxOps
  /\ Ready(SpaceOf[p])
  /\ vector' = [vector EXCEPT ![p] = SpaceOf[p]]
  /\ Goto(p, "remember")
  /\ UNCHANGED <<store, page, after, ops>>

\* SyncEngine._write: raises if another space is being rebuilt, and writes
\* without a vector if its own space is neither ready nor being rebuilt.
PrepareSync(p) ==
  /\ pc[p] = "up"
  /\ ops < MaxOps
  /\ target \in {None, SpaceOf[p]}
  /\ vector' = [vector EXCEPT ![p] =
       IF Ready(SpaceOf[p]) \/ target = SpaceOf[p] THEN SpaceOf[p] ELSE None]
  /\ Goto(p, "sync")
  /\ UNCHANGED <<store, page, after, ops>>

\* put_vector raises and the transaction is rolled back, or the row is written
\* with its vector; without one the row keeps the vector that it had.
Store(p, m, s) ==
  /\ Goto(p, "up")
  /\ vector' = [vector EXCEPT ![p] = None]
  /\ ops' = ops + 1
  /\ LET v == IF s = "held" THEN None ELSE vector[p] IN
     IF v # None /\ ~ Accepts(v)
     THEN UNCHANGED <<row, model>>
     ELSE /\ row' = [row EXCEPT ![m] = s]
          /\ model' = [model EXCEPT ![m] =
                         IF s = "held" THEN None ELSE IF v = None THEN @ ELSE v]
  /\ UNCHANGED <<active, target, page, after>>

Remember(p, m) == pc[p] = "remember" /\ row[m] = "none" /\ Store(p, m, "live")

\* A new row or another version of a row, quarantined or not.
SyncWrite(p, m, s) == pc[p] = "sync" /\ row[m] # "erased" /\ Store(p, m, s)

\* A title is changed: the space is checked again in the transaction.
Retitle(p, m) ==
  /\ pc[p] = "up"
  /\ ops < MaxOps
  /\ row[m] = "live"
  /\ Ready(SpaceOf[p])
  /\ model' = [model EXCEPT ![m] = SpaceOf[p]]
  /\ ops' = ops + 1
  /\ UNCHANGED <<row, active, target, local>>

\* An erasure needs no embedder; the vector goes with the row.
EraseRow(p, m) ==
  /\ pc[p] = "up"
  /\ ops < MaxOps
  /\ row[m] \in {"live", "held"}
  /\ row' = [row EXCEPT ![m] = "erased"]
  /\ model' = [model EXCEPT ![m] = None]
  /\ ops' = ops + 1
  /\ UNCHANGED <<active, target, local>>

\* p dies or is closed.
Stop(p) ==
  /\ pc[p] # "down"
  /\ ops < MaxOps
  /\ Goto(p, "down")
  /\ page' = [page EXCEPT ![p] = NoPage]
  /\ vector' = [vector EXCEPT ![p] = None]
  /\ ops' = ops + 1
  /\ UNCHANGED <<store, after>>

Write(p) ==
  \/ PrepareRemember(p) \/ PrepareSync(p)
  \/ \E m \in Id : \/ Remember(p, m) \/ Retitle(p, m) \/ EraseRow(p, m)
                   \/ \E s \in {"live", "held"} : SyncWrite(p, m, s)

Next == \E p \in Process : Start(p) \/ Rebuild(p) \/ Write(p) \/ Stop(p)

Spec == Init /\ [][Next]_vars

\* A process that is down is started again, and a start runs.
FairSpec == Spec /\ \A p \in Process : WF_vars(Start(p)) /\ WF_vars(Rebuild(p))

------------------------------------------------------------------------------
TypeOK ==
  /\ row \in [Id -> RowState]
  /\ model \in [Id -> Space \cup {None, Legacy}]
  /\ active \in Space \cup {None, Legacy}
  /\ target \in Space \cup {None}
  /\ pc \in [Process -> PC]
  /\ page \in [Process -> Page]
  /\ after \in [Process -> 0..MemoryCount]
  /\ vector \in [Process -> Space \cup {None}]
  /\ ops \in Nat

\* A published space is uniform: while no rebuild is under way, every vector
\* is of the active space, although rebuilds are taken over between batches and
\* writers embed before they hold the database ("the loser cannot write vectors
\* or clear the winner's rebuild gate", _rebuild_versioned_embeddings).
PublishedSpaceIsUniform ==
  target = None /\ active \in Space => \A m \in Id : model[m] \in {None, active}

\* A rebuild to a semantic space that no other space takes over any more ends,
\* whatever writers do and wherever processes stopped: recall does not stay
\* disabled. (A degraded embedder that died in a rebuild does not resume it.)
RebuildEnds ==
  \A f \in Space \ Degraded : <>[](target \in {None, f}) => []<>(target = None)

==============================================================================
