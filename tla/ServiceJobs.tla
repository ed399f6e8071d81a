---------------------------- MODULE ServiceJobs ------------------------------
(***************************************************************************)
(* Background jobs of the memory service (engraphis/service.py): graph     *)
(* index jobs, which close a workspace's graph to readers while they       *)
(* rebuild it, and document imports (obsidian_import.py). A job is a row   *)
(* that every process sees; its worker is a thread of one process, which   *)
(* may be slow, be asked to stop, or die with the process. A heartbeat     *)
(* lease tells the others.                                                 *)
(***************************************************************************)
EXTENDS Integers, FiniteSets

CONSTANTS
  Process,     \* services that share the database
  Workspace,
  Job,         \* the ids of the jobs that are ever created
  Items,       \* memories, or documents, of a job
  MaxWorkers,  \* MAX_GRAPH_INDEX_WORKERS
  MaxEvents    \* bound on cancellations, closes, crashes, failures and slow items

ASSUME JobsAssumption ==
  /\ Job \subseteq Nat \ {0} /\ IsFiniteSet(Job)
  /\ Items \in Nat
  /\ MaxWorkers \in Nat
  /\ MaxEvents \in Nat

NoJob == 0

VARIABLES
  job,       \* table jobs
  gate,      \* gate[w]: active_job_id while graph_index_state is rebuilding, or NoJob
  lease,     \* lease[j]: 0 if the heartbeat is recent, 1 past the graph lease, 2 past the import lease
  pc,        \* pc[j]: where the worker of j is
  final,     \* final[j]: the worker's final_state
  left,      \* left[j]: items that the worker has not done
  life,      \* life[p]: is the service open, closing or closed?
  joined,    \* joined[p]: the workers that close waits for
  events     \* faults and requests so far

vars == <<job, gate, lease, pc, final, left, life, joined, events>>

Kind == {"graph", "dry", "import"}
Terminal == {"completed", "cancelled", "failed"}
NoRow == [kind |-> "none", ws |-> "none", runner |-> "none", state |-> "none", cancel |-> FALSE]
Row == [kind : Kind, ws : Workspace, runner : Process,
        state : {"queued", "running"} \cup Terminal, cancel : BOOLEAN]
PC == {"none", "claim", "page", "item", "write", "file", "finish", "end", "gone"}

Init ==
  /\ job = [j \in Job |-> NoRow]
  /\ gate = [w \in Workspace |-> NoJob]
  /\ lease = [j \in Job |-> 0]
  /\ pc = [j \in Job |-> "none"]
  /\ final = [j \in Job |-> "failed"]
  /\ left = [j \in Job |-> Items]
  /\ life = [p \in Process |-> "open"]
  /\ joined = [p \in Process |-> {}]
  /\ events = 0

Happens == events < MaxEvents /\ events' = events + 1

Goto(j, l) == pc' = [pc EXCEPT ![j] = l]
Alive(j) == pc[j] \notin {"none", "gone"}
Active(j) == job[j].state \in {"queued", "running"}
Graph == {j \in Job : job[j].kind \in {"graph", "dry"}}

\* _graph_job_threads of a process; the threads that ended are dropped.
Threads(p) == {j \in Graph : job[j].runner = p /\ Alive(j)}

------------------------------------------------------------------------------
\* Mutant: the end of any job of a workspace opens its gate.
OpensWorkspace(J) ==
  [w \in Workspace |-> IF \E j \in J : job[j].ws = w THEN NoJob ELSE gate[w]]

\* The gate of a job that ended is opened.
OpenGate(J) == [w \in Workspace |-> IF gate[w] \in J THEN NoJob ELSE gate[w]]

\* Mutant: a job that no worker claimed is not looked at.
StaleRunning(W) ==
  {j \in Job : job[j].state = "running" /\ lease[j] >= 1 /\ job[j].ws \in W}

\* Jobs of any kind whose heartbeat is older than the graph lease.
Stale(W) == {j \in Job : Active(j) /\ lease[j] >= 1 /\ job[j].ws \in W}

SetState(J, s) == job' = [j \in Job |-> IF j \in J THEN [job[j] EXCEPT !.state = s] ELSE job[j]]
Touch(J) == lease' = [j \in Job |-> IF j \in J THEN 0 ELSE lease[j]]

\* _recover_stale_graph_jobs, of one workspace or of all: one transaction, by
\* whoever reads the graph or starts a job.
RecoverGraphJobs(W) ==
  /\ Stale(W) # {}
  /\ SetState(Stale(W), "failed")
  /\ Touch(Stale(W))
  /\ gate' = OpenGate(Stale(W))
  /\ UNCHANGED <<pc, final, left, life, joined, events>>

\* _recover_stale_import_jobs, by whoever polls an import.
RecoverImportJobs ==
  LET stale == {j \in Job : job[j].kind = "import" /\ Active(j) /\ lease[j] = 2}
  IN /\ stale # {}
     /\ SetState(stale, "failed")
     /\ Touch(stale)
     /\ UNCHANGED <<gate, pc, final, left, life, joined, events>>

\* An active job of the workspace is returned instead of a new one.
Busy(w) == \E j \in Graph : job[j].ws = w /\ Active(j)

\* Mutant: threads of jobs that were given up are not counted.
RoomByRows(p) == Cardinality({j \in Graph : Active(j)}) < MaxWorkers

Room(p) ==
  /\ Cardinality({j \in Graph : Active(j)}) < MaxWorkers
  /\ Cardinality(Threads(p)) < MaxWorkers

\* Ids are new; which one does not matter.
New(j) == job[j] = NoRow /\ \A i \in Job : job[i] = NoRow => j <= i

NewRow(p, w, k, s) == [kind |-> k, ws |-> w, runner |-> p, state |-> s, cancel |-> FALSE]

\* start_graph_index_job after its recovery (RecoverGraphJobs, a transaction of its
\* own): one transaction under _graph_job_lock creates the row and closes the gate.
StartGraph(p, w, k, j) ==
  /\ life[p] = "open"
  /\ ~ Busy(w)
  /\ Room(p)
  /\ New(j)
  /\ k \in {"graph", "dry"}
  /\ job' = [job EXCEPT ![j] = NewRow(p, w, k, "queued")]
  /\ gate' = IF k = "graph" THEN [gate EXCEPT ![w] = j] ELSE gate
  /\ Goto(j, "claim")
  /\ UNCHANGED <<lease, final, left, life, joined, events>>

\* The thread cannot be started: the row and the gate are taken back.
StartFails(p, w, k, j) ==
  /\ life[p] = "open"
  /\ ~ Busy(w)
  /\ Room(p)
  /\ New(j)
  /\ Happens
  /\ job' = [job EXCEPT ![j] = NewRow(p, w, k, "failed")]
  /\ UNCHANGED <<gate, lease, pc, final, left, life, joined>>

\* import_document_upload and import_obsidian_upload; neither looks at _closing.
StartImport(p, w, j) ==
  /\ life[p] # "closed"
  /\ New(j)
  /\ job' = [job EXCEPT ![j] = NewRow(p, w, "import", "running")]
  /\ Goto(j, "file")
  /\ UNCHANGED <<gate, lease, final, left, life, joined, events>>

\* cancel_graph_index_job, cancel_document_import_job, cancel_obsidian_import_job
Cancel(j) ==
  /\ Active(j)
  /\ ~ job[j].cancel
  /\ Happens
  /\ job' = [job EXCEPT ![j].cancel = TRUE]
  /\ UNCHANGED <<gate, lease, pc, final, left, life, joined>>

------------------------------------------------------------------------------
Closing(j) == life[job[j].runner] # "open"

\* The thread ends, its variables with it.
Ends(J) ==
  /\ pc' = [j \in Job |-> IF j \in J THEN "gone" ELSE pc[j]]
  /\ final' = [j \in Job |-> IF j \in J THEN "failed" ELSE final[j]]
  /\ left' = [j \in Job |-> IF j \in J THEN 0 ELSE left[j]]

Done(j) == left[j] = 0

\* The worker leaves its loop with a final state.
Leave(j, s) == final' = [final EXCEPT ![j] = s] /\ Goto(j, "finish")

\* _run_graph_index_job: the worker claims its job, unless it was given up.
Claim(j) ==
  /\ pc[j] = "claim"
  /\ IF Closing(j)
     THEN Leave(j, "cancelled") /\ UNCHANGED <<job, lease>>
     ELSE IF job[j].state = "queued"
     THEN SetState({j}, "running") /\ Touch({j}) /\ Goto(j, "page") /\ UNCHANGED final
     ELSE Leave(j, "failed") /\ UNCHANGED <<job, lease>>
  /\ UNCHANGED <<gate, left, life, joined, events>>

\* Before a batch: stop if asked to, if the job was given up, or if reading
\* raises.
Page(j) ==
  /\ pc[j] = "page"
  /\ \/ /\ IF Closing(j) \/ job[j].cancel \/ job[j].state # "running"
           THEN Leave(j, "cancelled")
           ELSE IF Done(j) THEN Leave(j, "completed")
           ELSE Goto(j, "item") /\ UNCHANGED final
        /\ UNCHANGED events
     \/ Happens /\ Leave(j, "failed")
  /\ UNCHANGED <<job, gate, lease, left, life, joined>>

\* The same before a memory ...
Item(j) ==
  /\ pc[j] = "item"
  /\ IF Closing(j) \/ job[j].cancel \/ ~ Active(j)
     THEN Leave(j, "cancelled")
     ELSE Goto(j, "write") /\ UNCHANGED final
  /\ UNCHANGED <<job, gate, lease, left, life, joined, events>>

\* ... whose graph and heartbeat are one transaction. It is committed before
\* the worker looks whether the job was still running; after an error it does
\* not look.
Write(j) ==
  /\ pc[j] = "write"
  /\ Touch({j} \cap {i \in Job : job[i].state = "running"})
  /\ left' = [left EXCEPT ![j] = @ - 1]
  /\ \/ /\ job[j].state # "running"
        /\ Leave(j, "cancelled")
        /\ UNCHANGED events
     \/ /\ \/ job[j].state = "running" /\ UNCHANGED events
           \/ Happens
        /\ Goto(j, IF left[j] > 1 THEN "item" ELSE "page")
        /\ UNCHANGED final
  /\ UNCHANGED <<job, gate, life, joined>>

\* Auditing the end may fail, which fails the job.
Audit(j) ==
  /\ pc[j] = "finish"
  /\ job[j].kind # "import"
  /\ \/ UNCHANGED <<final, events>>
     \/ Happens /\ final' = [final EXCEPT ![j] = "failed"]
  /\ Goto(j, "end")
  /\ UNCHANGED <<job, gate, lease, left, life, joined>>

\* Mutant: the last update does not look at the state.
AlwaysEnds(j) == TRUE

\* The last update changes only a job that nobody ended.
MayEnd(j) == Active(j)

\* The terminal transaction.
End(j) ==
  /\ pc[j] = "end"
  /\ IF MayEnd(j)
     THEN /\ SetState({j}, final[j])
          /\ Touch({j})
          /\ gate' = OpenGate({j})
     ELSE UNCHANGED <<job, lease, gate>>
  /\ Ends({j})
  /\ UNCHANGED <<life, joined, events>>

------------------------------------------------------------------------------
\* import_scan: a document at a time; its progress is a heartbeat, written
\* whatever the state of the row.
File(j) ==
  /\ pc[j] = "file"
  /\ IF job[j].cancel THEN Leave(j, "cancelled") /\ UNCHANGED <<lease, left>>
     ELSE IF Done(j) THEN Leave(j, "completed") /\ UNCHANGED <<lease, left>>
     ELSE /\ Touch({j})
          /\ left' = [left EXCEPT ![j] = @ - 1]
          /\ UNCHANGED <<pc, final>>
  /\ UNCHANGED <<job, gate, life, joined, events>>

\* _finish_job, or the worker's handler if the import raised.
FinishImport(j) ==
  /\ pc[j] = "finish"
  /\ job[j].kind = "import"
  /\ \/ SetState({j}, final[j]) /\ UNCHANGED events
     \/ Happens /\ SetState({j}, "failed")
  /\ Touch({j})
  /\ Ends({j})
  /\ UNCHANGED <<gate, life, joined>>

------------------------------------------------------------------------------
\* Mutant: only the workers of imports are waited for.
JoinsImports(p) == {j \in Job : job[j].kind = "import" /\ job[j].runner = p /\ Alive(j)}

\* _graph_job_threads and _obsidian_job_threads
JoinsAll(p) == {j \in Job : job[j].runner = p /\ Alive(j)}

\* close: _closing is set, imports are asked to stop, the workers listed.
Close(p) ==
  /\ life[p] # "closed"
  /\ Happens
  /\ life' = [life EXCEPT ![p] = "closing"]
  /\ joined' = [joined EXCEPT ![p] = JoinsAll(p)]
  /\ job' = [j \in Job |->
               IF job[j].kind = "import" /\ job[j].state = "running" /\ j \in JoinsAll(p)
               THEN [job[j] EXCEPT !.cancel = TRUE] ELSE job[j]]
  /\ UNCHANGED <<gate, lease, pc, final, left>>

\* The listed workers are gone: the store is closed. A worker that is too slow
\* makes close fail instead, and the store stays open.
Closed(p) ==
  /\ life[p] = "closing"
  /\ \A j \in joined[p] : ~ Alive(j)
  /\ life' = [life EXCEPT ![p] = "closed"]
  /\ UNCHANGED <<job, gate, lease, pc, final, left, joined, events>>

\* The process ends, with its threads; another takes its place.
Crash(p) ==
  /\ Happens
  /\ Ends({j \in Job : job[j].runner = p /\ Alive(j)})
  /\ life' = [life EXCEPT ![p] = "open"]
  /\ joined' = [joined EXCEPT ![p] = {}]
  /\ UNCHANGED <<job, gate, lease>>

\* Time passes. A live worker may be slow with an item, longer than the graph
\* lease and shorter than that of imports.
Expire(j) ==
  /\ Active(j)
  /\ IF Alive(j) THEN lease[j] = 0 /\ Happens ELSE lease[j] < 2 /\ UNCHANGED events
  /\ lease' = [lease EXCEPT ![j] = @ + 1]
  /\ UNCHANGED <<job, gate, pc, final, left, life, joined>>

Work(j) ==
  Claim(j) \/ Page(j) \/ Item(j) \/ Write(j) \/ Audit(j) \/ End(j) \/ File(j) \/ FinishImport(j)

Next ==
  \/ \E W \in {{w} : w \in Workspace} \cup {Workspace} : RecoverGraphJobs(W)
  \/ RecoverImportJobs
  \/ \E p \in Process, w \in Workspace, j \in Job :
       \/ \E k \in {"graph", "dry"} : StartGraph(p, w, k, j) \/ StartFails(p, w, k, j)
       \/ StartImport(p, w, j)
  \/ \E j \in Job : Cancel(j) \/ Work(j) \/ Expire(j)
  \/ \E p \in Process : Close(p) \/ Closed(p) \/ Crash(p)

Spec == Init /\ [][Next]_vars

\* Workers run, time passes, and graphs and imports are asked for again.
FairSpec ==
  /\ Spec
  /\ \A j \in Job : WF_vars(Work(j)) /\ WF_vars(~ Alive(j) /\ Expire(j))
  /\ \A w \in Workspace : WF_vars(RecoverGraphJobs({w}))

------------------------------------------------------------------------------
TypeOK ==
  /\ job \in [Job -> Row \cup {NoRow}]
  /\ gate \in [Workspace -> Job \cup {NoJob}]
  /\ lease \in [Job -> 0..2]
  /\ pc \in [Job -> PC]
  /\ final \in [Job -> Terminal]
  /\ left \in [Job -> 0..Items]
  /\ life \in [Process -> {"open", "closing", "closed"}]
  /\ joined \in [Process -> SUBSET Job]
  /\ events \in 0..MaxEvents

\* A graph is closed to its readers exactly while a rebuild of it is under way,
\* on behalf of that job, so that its end opens it: not by a job that a recovery
\* failed, nor by the late end of an older worker, and no reader sees the half
\* built index of a job that is neither ended nor recovered.
ClosedWhileRebuilt ==
  /\ \A w \in Workspace :
       gate[w] # NoJob => /\ Active(gate[w])
                          /\ job[gate[w]].kind = "graph"
                          /\ job[gate[w]].ws = w
  /\ \A j \in Job : job[j].kind = "graph" /\ Active(j) => gate[job[j].ws] = j

\* No process has more graph workers than MaxWorkers, those of jobs that were
\* given up while they were slow included.
WorkersBounded ==
  /\ \A p \in Process : Cardinality(Threads(p)) <= MaxWorkers
  /\ Cardinality({j \in Graph : Active(j)}) <= MaxWorkers

\* The store is not closed beneath a graph worker (close).
NoWorkerOutlivesClose ==
  \A p \in Process : life[p] = "closed" => Threads(p) = {}

\* A live import worker "is never failed" by others (_recover_stale_import_jobs).
LiveImportIsNeverFailed ==
  [][\A j \in Job :
       /\ job[j].kind = "import"
       /\ job[j].state = "running"
       /\ Alive(j) /\ pc'[j] = pc[j]
       => job'[j].state # "failed"]_vars

\* Every job ends, whatever happens to its worker.
EveryJobEnds == \A j \in Job : Active(j) ~> ~ Active(j)

\* The graph jobs are what IndexJobs promises: one per workspace, each of which
\* ends, once and for good.
Index == INSTANCE IndexJobs WITH
  active <- [w \in Workspace |->
               IF Busy(w) THEN CHOOSE j \in Graph : job[j].ws = w /\ Active(j) ELSE NoJob],
  result <- [j \in Job |->
               IF j \in Graph /\ job[j].state \in Terminal THEN job[j].state ELSE "none"]

ImplementsIndexJobs == Index!Spec
==============================================================================
