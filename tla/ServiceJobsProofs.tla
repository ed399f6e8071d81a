-------------------------- MODULE ServiceJobsProofs --------------------------
(* Proofs about ServiceJobs, for any number of services, workspaces, jobs,     *)
(* items and faults and any limit of workers.                                  *)
EXTENDS ServiceJobs, FiniteSetTheorems, TLAPS

\* A worker that is about to write has something to write.
Working == \A j \in Job : pc[j] \in {"item", "write"} => left[j] > 0

\* A worker has a row.
WorkersHaveRows == \A j \in Job : Alive(j) => job[j].kind # "none"

\* A workspace has one active graph job.
OneJobEach ==
  \A i, j \in Graph : Active(i) /\ Active(j) /\ job[i].ws = job[j].ws => i = j

\* A close waits for every graph worker of its service: none is started
\* after the list was made.
CloseWaits ==
  \A p \in Process :
    /\ life[p] = "closing" => Threads(p) \subseteq joined[p]
    /\ life[p] = "closed" => Threads(p) = {}

Types == TypeOK /\ Working
IInv ==
  /\ Types /\ ClosedWhileRebuilt /\ OneJobEach /\ WorkersHaveRows
  /\ WorkersBounded /\ CloseWaits

\* A step that ends the jobs J, opens their gates, and starts neither jobs nor
\* workers.
Keeps(J) ==
  /\ J \subseteq Job
  /\ \A i \in Job : /\ job'[i].kind = job[i].kind
                    /\ job'[i].ws = job[i].ws
                    /\ job'[i].runner = job[i].runner
                    /\ Alive(i)' => Alive(i)
  /\ \A i \in Job \ J : job'[i].state = job[i].state \/ (Active(i) /\ Active(i)')
  /\ \A i \in J : /\ ~ Active(i)'
                  /\ i \in Graph => Active(i) /\ job'[i].state \in Terminal
  /\ gate' = OpenGate(J)

------------------------------------------------------------------------------
LEMMA InitTypes == Init => Types
<1> SUFFICES ASSUME Init PROVE Types
  OBVIOUS
<1> QED
  BY JobsAssumption DEF Init, Types, TypeOK, Working, Terminal, PC, NoJob

LEMMA ActiveRow ==
  ASSUME TypeOK, NEW j \in Job, Active(j) \/ job[j].kind \in Kind
  PROVE  job[j] \in Row
  BY DEF TypeOK, Active, NoRow, Kind, Row

\* Changing the state or the request to cancel of rows that exist.
LEMMA SetStateType ==
  ASSUME TypeOK, NEW J \in SUBSET Job, \A j \in J : job[j] \in Row,
         NEW s \in {"queued", "running"} \cup Terminal, SetState(J, s)
  PROVE  /\ job' \in [Job -> Row \cup {NoRow}]
         /\ \A i \in Job : /\ job'[i].kind = job[i].kind
                           /\ job'[i].ws = job[i].ws
                           /\ job'[i].runner = job[i].runner
                           /\ job'[i].state = IF i \in J THEN s ELSE job[i].state
<1>1. \A j \in J : [job[j] EXCEPT !.state = s] \in Row
  BY DEF Row
<1> QED
  BY <1>1 DEF SetState, TypeOK, Row

LEMMA StaleRows ==
  ASSUME TypeOK, NEW W
  PROVE  Stale(W) \subseteq Job /\ \A j \in Stale(W) : Active(j) /\ job[j] \in Row
  BY ActiveRow DEF Stale

LEMMA TouchType ==
  ASSUME TypeOK, NEW J, Touch(J)
  PROVE  lease' \in [Job -> 0..2]
  BY DEF TypeOK, Touch

LEMMA OpenGateType ==
  ASSUME TypeOK, NEW J
  PROVE  OpenGate(J) \in [Workspace -> Job \cup {NoJob}]
  BY DEF TypeOK, OpenGate

LEMMA HappensType ==
  ASSUME TypeOK, Happens
  PROVE  events' \in 0..MaxEvents
  BY JobsAssumption DEF TypeOK, Happens

LEMMA EndsType ==
  ASSUME Types, NEW J, Ends(J)
  PROVE  /\ pc' \in [Job -> PC] /\ final' \in [Job -> Terminal] /\ left' \in [Job -> 0..Items]
         /\ Working'
         /\ \A i \in Job : Alive(i)' => Alive(i)
<1>1. /\ pc' \in [Job -> PC] /\ final' \in [Job -> Terminal] /\ left' \in [Job -> 0..Items]
  BY JobsAssumption DEF Types, TypeOK, Ends, PC, Terminal
<1> QED
  BY <1>1 DEF Types, TypeOK, Working, Ends, Alive

\* A worker that goes on, and is not about to write.
LEMMA GotoType ==
  ASSUME Types, NEW j \in Job, NEW l \in PC \ {"none", "item", "write"}, Goto(j, l),
         Alive(j), UNCHANGED left
  PROVE  pc' \in [Job -> PC] /\ Working' /\ \A i \in Job : Alive(i)' => Alive(i)
  BY DEF Types, TypeOK, Working, Goto, Alive

LEMMA LeaveType ==
  ASSUME Types, NEW j \in Job, NEW s \in Terminal, Leave(j, s)
  PROVE  final' \in [Job -> Terminal] /\ Goto(j, "finish")
  BY DEF Types, TypeOK, Leave

------------------------------------------------------------------------------
\* The steps of a worker and the operations on its row keep the types, and end
\* at most that job.
LEMMA ClaimStep ==
  ASSUME Types, NEW j \in Job, Claim(j)
  PROVE  Types' /\ Keeps({}) /\ UNCHANGED <<life, joined>>
<1>0. Alive(j) /\ OpenGate({}) = gate
  BY DEF Claim, Alive, OpenGate, Types, TypeOK
<1>1. /\ pc' \in [Job -> PC] /\ Working' /\ final' \in [Job -> Terminal]
      /\ \A i \in Job : Alive(i)' => Alive(i)
  BY <1>0, GotoType, LeaveType DEF Claim, Terminal, PC, Types, TypeOK
<1>2. CASE UNCHANGED <<job, lease>>
  BY <1>0, <1>1, <1>2 DEF Claim, Types, TypeOK, Keeps
<1>3. CASE job[j].state = "queued" /\ SetState({j}, "running") /\ Touch({j})
  <2>1. Active(j) /\ job[j] \in Row
    BY <1>3, ActiveRow DEF Active, Types
  <2>2. /\ job' \in [Job -> Row \cup {NoRow}]
        /\ \A i \in Job : /\ job'[i].kind = job[i].kind
                          /\ job'[i].ws = job[i].ws
                          /\ job'[i].runner = job[i].runner
                          /\ job'[i].state = IF i \in {j} THEN "running" ELSE job[i].state
    BY <1>3, <2>1, SetStateType DEF Types
  <2>3. lease' \in [Job -> 0..2]
    BY <1>3, TouchType DEF Types
  <2>4. Types'
    BY <1>1, <2>2, <2>3 DEF Claim, Types, TypeOK
  <2>5. Keeps({})
    BY <1>0, <1>1, <2>1, <2>2 DEF Claim, Keeps, Active
  <2> QED BY <2>4, <2>5 DEF Claim
<1> QED BY <1>2, <1>3 DEF Claim

LEMMA PageStep ==
  ASSUME Types, NEW j \in Job, Page(j) \/ Item(j) \/ (pc[j] = "finish" /\ Audit(j))
  PROVE  Types' /\ Keeps({}) /\ UNCHANGED <<life, joined>>
<1>0. Alive(j) /\ OpenGate({}) = gate
  BY DEF Page, Item, Alive, OpenGate, Types, TypeOK
<1>1. final' \in [Job -> Terminal] /\ events' \in 0..MaxEvents
  BY LeaveType, HappensType DEF Page, Item, Audit, Terminal, Types, TypeOK
<1>2. pc' \in [Job -> PC] /\ \A i \in Job : Alive(i)' => Alive(i)
  BY <1>0 DEF Page, Item, Audit, Leave, Goto, PC, Alive, Types, TypeOK
<1>3. Working'
  BY DEF Page, Item, Audit, Leave, Goto, Done, Working, Types, TypeOK
<1> QED
  BY <1>0, <1>1, <1>2, <1>3 DEF Page, Item, Audit, Types, TypeOK, Keeps

LEMMA WriteStep ==
  ASSUME Types, NEW j \in Job, Write(j)
  PROVE  Types' /\ Keeps({}) /\ UNCHANGED <<life, joined>>
<1>0. Alive(j) /\ OpenGate({}) = gate /\ left[j] \in 1..Items
  BY JobsAssumption DEF Write, Alive, OpenGate, Types, TypeOK, Working
<1>1. final' \in [Job -> Terminal] /\ events' \in 0..MaxEvents
  BY LeaveType, HappensType DEF Write, Terminal, Types, TypeOK
<1>2. pc' \in [Job -> PC] /\ \A i \in Job : Alive(i)' => Alive(i)
  BY <1>0 DEF Write, Leave, Goto, PC, Alive, Types, TypeOK
<1>3. left' = [left EXCEPT ![j] = left[j] - 1] /\ left' \in [Job -> 0..Items]
  BY <1>0, JobsAssumption DEF Write, Types, TypeOK
<1>4. pc' = [pc EXCEPT ![j] = pc'[j]] /\ (pc'[j] \in {"item", "write"} => left[j] > 1)
  BY DEF Write, Leave, Goto, Types, TypeOK
<1>5. Working'
  BY <1>0, <1>3, <1>4 DEF Working, Types, TypeOK
<1>6. lease' \in [Job -> 0..2]
  BY TouchType DEF Write, Types
<1> QED
  BY <1>0, <1>1, <1>2, <1>3, <1>5, <1>6 DEF Write, Types, TypeOK, Keeps

LEMMA FileStep ==
  ASSUME Types, NEW j \in Job, File(j)
  PROVE  Types' /\ Keeps({}) /\ UNCHANGED <<life, joined>>
<1>0. Alive(j) /\ OpenGate({}) = gate
  BY DEF File, Alive, OpenGate, Types, TypeOK
<1>1. final' \in [Job -> Terminal]
  BY LeaveType DEF File, Terminal, Types, TypeOK
<1>2. pc' \in [Job -> PC] /\ \A i \in Job : Alive(i)' => Alive(i)
  BY <1>0 DEF File, Leave, Goto, PC, Alive, Types, TypeOK
<1>3. left' \in [Job -> 0..Items]
  BY JobsAssumption DEF File, Done, Types, TypeOK
<1>4. Working'
  BY DEF File, Leave, Goto, Working, Types, TypeOK
<1>5. lease' \in [Job -> 0..2]
  BY TouchType DEF File, Types, TypeOK
<1> QED
  BY <1>0, <1>1, <1>2, <1>3, <1>4, <1>5 DEF File, Types, TypeOK, Keeps

LEMMA EndStep ==
  ASSUME Types, NEW j \in Job, End(j)
  PROVE  Types' /\ UNCHANGED <<life, joined>> /\ \E J \in SUBSET Job : Keeps(J)
<1>1. /\ pc' \in [Job -> PC] /\ final' \in [Job -> Terminal] /\ left' \in [Job -> 0..Items]
      /\ Working'
      /\ \A i \in Job : Alive(i)' => Alive(i)
  BY EndsType DEF End
<1>2. CASE ~ MayEnd(j)
  <2>1. Types'
    BY <1>1, <1>2 DEF End, Types, TypeOK
  <2>2. Keeps({})
    BY <1>1, <1>2 DEF End, Keeps, OpenGate, Types, TypeOK
  <2> QED BY <2>1, <2>2 DEF End
<1>3. CASE MayEnd(j)
  <2>1. Active(j) /\ job[j] \in Row /\ final[j] \in Terminal
    BY <1>3, ActiveRow DEF MayEnd, Types, TypeOK
  <2>2. /\ job' \in [Job -> Row \cup {NoRow}]
        /\ \A i \in Job : /\ job'[i].kind = job[i].kind
                          /\ job'[i].ws = job[i].ws
                          /\ job'[i].runner = job[i].runner
                          /\ job'[i].state = IF i \in {j} THEN final[j] ELSE job[i].state
    BY <1>3, <2>1, SetStateType DEF End, Types
  <2>3. lease' \in [Job -> 0..2] /\ gate' \in [Workspace -> Job \cup {NoJob}]
    BY <1>3, TouchType, OpenGateType DEF End, Types
  <2>4. Types'
    BY <1>1, <2>2, <2>3 DEF End, Types, TypeOK
  <2>5. Keeps({j})
    BY <1>1, <1>3, <2>1, <2>2 DEF End, Keeps, Active, Terminal
  <2> QED BY <2>4, <2>5 DEF End
<1> QED BY <1>2, <1>3

\* The gates belong to graph jobs.
LEMMA GateOfImports ==
  ASSUME TypeOK, ClosedWhileRebuilt, NEW J \in SUBSET Job, \A j \in J : job[j].kind = "import"
  PROVE  OpenGate(J) = gate
<1>1. ASSUME NEW w \in Workspace, gate[w] \in J
      PROVE  FALSE
  <2>1. NoJob \notin Job
    BY JobsAssumption DEF NoJob
  <2>2. job[gate[w]].kind = "import" /\ gate[w] # NoJob
    BY <1>1, <2>1
  <2> QED BY <2>2 DEF ClosedWhileRebuilt
<1> QED BY <1>1 DEF OpenGate, TypeOK

LEMMA FinishImportStep ==
  ASSUME Types, ClosedWhileRebuilt, NEW j \in Job, FinishImport(j)
  PROVE  Types' /\ UNCHANGED <<life, joined>> /\ Keeps({j})
<1>1. /\ pc' \in [Job -> PC] /\ final' \in [Job -> Terminal] /\ left' \in [Job -> 0..Items]
      /\ Working'
      /\ \A i \in Job : Alive(i)' => Alive(i)
  BY EndsType DEF FinishImport
<1>2. PICK s \in Terminal : SetState({j}, s)
  BY DEF FinishImport, Types, TypeOK, Terminal
<1>3. job[j] \in Row /\ j \notin Graph
  BY ActiveRow DEF FinishImport, Types, Kind, Graph
<1>4. /\ job' \in [Job -> Row \cup {NoRow}]
      /\ \A i \in Job : /\ job'[i].kind = job[i].kind
                        /\ job'[i].ws = job[i].ws
                        /\ job'[i].runner = job[i].runner
                        /\ job'[i].state = IF i \in {j} THEN s ELSE job[i].state
  BY <1>2, <1>3, SetStateType DEF Types
<1>5. lease' \in [Job -> 0..2] /\ events' \in 0..MaxEvents
  BY TouchType, HappensType DEF FinishImport, Types, TypeOK
<1>6. gate' = OpenGate({j})
  BY GateOfImports DEF FinishImport, Types
<1>7. Types'
  BY <1>1, <1>4, <1>5 DEF FinishImport, Types, TypeOK
<1>8. Keeps({j})
  BY <1>1, <1>3, <1>4, <1>6 DEF Keeps, Active, Terminal
<1> QED BY <1>7, <1>8 DEF FinishImport

\* Recovery ends the jobs whose lease ran out, wherever their workers are.
LEMMA RecoverStep ==
  ASSUME Types, ClosedWhileRebuilt,
         RecoverImportJobs \/ \E W \in SUBSET Workspace : RecoverGraphJobs(W)
  PROVE  Types' /\ UNCHANGED <<life, joined>> /\ \E J \in SUBSET Job : Keeps(J)
<1>1. PICK J \in SUBSET Job :
        /\ \A j \in J : Active(j) /\ job[j] \in Row
        /\ SetState(J, "failed") /\ Touch(J) /\ gate' = OpenGate(J)
        /\ UNCHANGED <<pc, final, left, life, joined, events>>
  <2>1. CASE RecoverImportJobs
    <3> DEFINE J == {j \in Job : job[j].kind = "import" /\ Active(j) /\ lease[j] = 2}
    <3>1. \A j \in J : Active(j) /\ job[j] \in Row
      BY ActiveRow DEF Types
    <3>2. OpenGate(J) = gate
      BY GateOfImports DEF Types
    <3> QED BY <2>1, <3>1, <3>2 DEF RecoverImportJobs
  <2>2. CASE \E W \in SUBSET Workspace : RecoverGraphJobs(W)
    BY <2>2, StaleRows DEF RecoverGraphJobs, Types
  <2> QED BY <2>1, <2>2
<1>2. /\ job' \in [Job -> Row \cup {NoRow}]
      /\ \A i \in Job : /\ job'[i].kind = job[i].kind
                        /\ job'[i].ws = job[i].ws
                        /\ job'[i].runner = job[i].runner
                        /\ job'[i].state = IF i \in J THEN "failed" ELSE job[i].state
  BY <1>1, SetStateType DEF Types, Terminal
<1>3. lease' \in [Job -> 0..2] /\ gate' \in [Workspace -> Job \cup {NoJob}]
  BY <1>1, TouchType, OpenGateType DEF Types
<1>4. Types'
  BY <1>1, <1>2, <1>3 DEF Types, TypeOK, Working
<1>5. Keeps(J)
  BY <1>1, <1>2 DEF Keeps, Active, Terminal, Alive
<1> QED BY <1>1, <1>4, <1>5

\* Requests and time change neither states nor gates.
LEMMA OtherStep ==
  ASSUME Types, NEW j \in Job, Cancel(j) \/ Expire(j)
  PROVE  Types' /\ UNCHANGED <<life, joined>> /\ Keeps({})
<1>0. OpenGate({}) = gate
  BY DEF OpenGate, Types, TypeOK
<1>1. CASE Cancel(j)
  <2>1. job[j] \in Row /\ events' \in 0..MaxEvents
    BY <1>1, ActiveRow, HappensType DEF Cancel, Types
  <2>2. [job[j] EXCEPT !.cancel = TRUE] \in Row
    BY <2>1 DEF Row
  <2>3. /\ job' \in [Job -> Row \cup {NoRow}]
        /\ \A i \in Job : /\ job'[i].kind = job[i].kind
                          /\ job'[i].ws = job[i].ws
                          /\ job'[i].runner = job[i].runner
                          /\ job'[i].state = job[i].state
    BY <1>1, <2>1, <2>2 DEF Cancel, Types, TypeOK, Row
  <2> QED
    BY <1>0, <1>1, <2>1, <2>3 DEF Cancel, Types, TypeOK, Working, Keeps, Alive
<1>2. CASE Expire(j)
  <2>1. lease' \in [Job -> 0..2] /\ events' \in 0..MaxEvents
    BY <1>2, HappensType DEF Expire, Types, TypeOK
  <2> QED
    BY <1>0, <1>2, <2>1 DEF Expire, Types, TypeOK, Working, Keeps, Alive
<1> QED BY <1>1, <1>2

LEMMA LifeStep ==
  ASSUME Types, NEW p \in Process, Close(p) \/ Closed(p) \/ Crash(p)
  PROVE  Types' /\ Keeps({})
<1>0. OpenGate({}) = gate
  BY DEF OpenGate, Types, TypeOK
<1>1. CASE Close(p)
  <2>1. \A i \in Job : job[i].kind = "import" => [job[i] EXCEPT !.cancel = TRUE] \in Row
    BY ActiveRow DEF Types, Kind, Row
  <2>2. /\ job' \in [Job -> Row \cup {NoRow}]
        /\ \A i \in Job : /\ job'[i].kind = job[i].kind
                          /\ job'[i].ws = job[i].ws
                          /\ job'[i].runner = job[i].runner
                          /\ job'[i].state = job[i].state
    BY <1>1, <2>1 DEF Close, Types, TypeOK, Row
  <2>3. events' \in 0..MaxEvents /\ JoinsAll(p) \in SUBSET Job
    BY <1>1, HappensType DEF Close, Types, JoinsAll
  <2> QED
    BY <1>0, <1>1, <2>2, <2>3 DEF Close, Types, TypeOK, Working, Keeps, Alive
<1>2. CASE Closed(p)
  BY <1>0, <1>2 DEF Closed, Types, TypeOK, Working, Keeps, Alive
<1>3. CASE Crash(p)
  <2>1. /\ pc' \in [Job -> PC] /\ final' \in [Job -> Terminal] /\ left' \in [Job -> 0..Items]
        /\ Working'
        /\ \A i \in Job : Alive(i)' => Alive(i)
    BY <1>3, EndsType DEF Crash
  <2>2. events' \in 0..MaxEvents
    BY <1>3, HappensType DEF Crash, Types
  <2> QED
    BY <1>0, <1>3, <2>1, <2>2 DEF Crash, Types, TypeOK, Keeps
<1> QED BY <1>1, <1>2, <1>3

------------------------------------------------------------------------------
\* Fewer workers and fewer active jobs stay within the limit.
LEMMA FewerWorkers ==
  ASSUME WorkersBounded,
         {j \in Graph : Active(j)}' \subseteq {j \in Graph : Active(j)},
         \A p \in Process : Threads(p)' \subseteq Threads(p)
  PROVE  WorkersBounded'
<1>1. IsFiniteSet({j \in Graph : Active(j)}) /\ \A p \in Process : IsFiniteSet(Threads(p))
  BY JobsAssumption, FS_Subset DEF Graph, Threads
<1>2. \A p \in Process : Cardinality(Threads(p)') <= Cardinality(Threads(p))
  BY <1>1, FS_Subset
<1>3. Cardinality({j \in Graph : Active(j)}') <= Cardinality({j \in Graph : Active(j)})
  BY <1>1, FS_Subset
<1>4. /\ Cardinality({j \in Graph : Active(j)}) \in Nat
      /\ Cardinality({j \in Graph : Active(j)}') \in Nat
      /\ \A p \in Process : /\ Cardinality(Threads(p)) \in Nat
                            /\ Cardinality(Threads(p)') \in Nat
  BY <1>1, FS_Subset, FS_CardinalityType
<1> QED
  BY <1>2, <1>3, <1>4, JobsAssumption DEF WorkersBounded

LEMMA OneMoreWorker ==
  ASSUME WorkersBounded, NEW p \in Process, NEW j,
         Cardinality({i \in Graph : Active(i)}) < MaxWorkers,
         Cardinality(Threads(p)) < MaxWorkers,
         {i \in Graph : Active(i)}' \subseteq {i \in Graph : Active(i)} \cup {j},
         Threads(p)' \subseteq Threads(p) \cup {j},
         \A q \in Process \ {p} : Threads(q)' \subseteq Threads(q)
  PROVE  WorkersBounded'
<1> DEFINE A == {i \in Graph : Active(i)}
<1>1. IsFiniteSet(A) /\ \A q \in Process : IsFiniteSet(Threads(q))
  BY JobsAssumption, FS_Subset DEF Graph, Threads
<1>2. ASSUME NEW S, NEW T, IsFiniteSet(S), Cardinality(S) < MaxWorkers, T \subseteq S \cup {j}
      PROVE  Cardinality(T) <= MaxWorkers
  <2>1. IsFiniteSet(S \cup {j}) /\ Cardinality(S \cup {j}) <= Cardinality(S) + 1
    <3>1. Cardinality(S) \in Nat
      BY <1>2, FS_CardinalityType
    <3>2. /\ IsFiniteSet(S \cup {j})
          /\ \/ Cardinality(S \cup {j}) = Cardinality(S)
             \/ Cardinality(S \cup {j}) = Cardinality(S) + 1
      BY <1>2, FS_AddElement
    <3> QED BY <3>1, <3>2
  <2>2. /\ Cardinality(T) \in Nat /\ Cardinality(S \cup {j}) \in Nat /\ Cardinality(S) \in Nat
        /\ Cardinality(T) <= Cardinality(S \cup {j})
    BY <1>2, <2>1, FS_Subset, FS_CardinalityType
  <2> QED BY <1>2, <2>1, <2>2, JobsAssumption
<1>3. Cardinality(A') <= MaxWorkers /\ Cardinality(Threads(p)') <= MaxWorkers
  BY <1>1, <1>2
<1>4. ASSUME NEW q \in Process \ {p} PROVE Cardinality(Threads(q)') <= MaxWorkers
  <2>1. /\ Cardinality(Threads(q)') <= Cardinality(Threads(q))
        /\ Cardinality(Threads(q)') \in Nat /\ Cardinality(Threads(q)) \in Nat
    BY <1>1, FS_Subset, FS_CardinalityType
  <2> QED BY <2>1, JobsAssumption DEF WorkersBounded
<1> QED BY <1>3, <1>4 DEF WorkersBounded

\* What a step that starts nothing leaves of the invariant.
LEMMA KeepsInvariant ==
  ASSUME IInv, Types', NEW J \in SUBSET Job, Keeps(J)
  PROVE  /\ ClosedWhileRebuilt' /\ OneJobEach' /\ WorkersHaveRows' /\ WorkersBounded'
         /\ \A p \in Process : Threads(p)' \subseteq Threads(p)
<1>1. Graph' = Graph /\ \A i \in Job : Active(i)' => Active(i) /\ i \notin J
  BY DEF Keeps, Graph, Active
<1>2. \A i \in Job : Active(i) /\ i \notin J => Active(i)'
  BY DEF Keeps, Active
<1>3. ClosedWhileRebuilt'
  <2>1. ASSUME NEW w \in Workspace, gate'[w] # NoJob
        PROVE  /\ Active(gate[w])' /\ gate'[w] = gate[w]
               /\ job'[gate[w]].kind = "graph" /\ job'[gate[w]].ws = w
    <3>1. gate'[w] = gate[w] /\ gate[w] \notin J /\ gate[w] \in Job
      BY <2>1 DEF Keeps, OpenGate, IInv, Types, TypeOK
    <3> QED
      BY <1>2, <2>1, <3>1 DEF IInv, ClosedWhileRebuilt, Keeps
  <2>2. ASSUME NEW i \in Job, job'[i].kind = "graph", Active(i)'
        PROVE  gate'[job'[i].ws] = i
    <3>1. Active(i) /\ i \notin J /\ job[i].kind = "graph" /\ job'[i].ws = job[i].ws
      BY <1>1, <2>2 DEF Keeps
    <3>2. gate[job[i].ws] = i /\ job[i].ws \in Workspace
      BY <3>1, ActiveRow DEF IInv, Types, ClosedWhileRebuilt, Row
    <3> QED
      BY <3>1, <3>2 DEF Keeps, OpenGate
  <2> QED
    BY <2>1, <2>2 DEF ClosedWhileRebuilt, Active
<1>4. OneJobEach'
  <2> SUFFICES ASSUME NEW i \in Graph', NEW j \in Graph', Active(i)', Active(j)',
                      job'[i].ws = job'[j].ws
               PROVE  i = j
    BY DEF OneJobEach, Active
  <2>1. i \in Graph /\ j \in Graph /\ i \in Job /\ j \in Job
    BY <1>1 DEF Graph
  <2> QED
    BY <1>1, <2>1 DEF IInv, OneJobEach, Keeps
<1>5. \A p \in Process : Threads(p)' \subseteq Threads(p)
  BY <1>1 DEF Threads, Keeps, Graph
<1>6. WorkersBounded'
  <2>1. {j \in Graph : Active(j)}' \subseteq {j \in Graph : Active(j)}
    BY <1>1 DEF Graph
  <2> QED BY <1>5, <2>1, FewerWorkers DEF IInv
<1>7. WorkersHaveRows'
  BY DEF IInv, WorkersHaveRows, Keeps
<1> QED BY <1>3, <1>4, <1>5, <1>6, <1>7

LEMMA KeepsClose ==
  ASSUME IInv, UNCHANGED <<life, joined>>,
         \A p \in Process : Threads(p)' \subseteq Threads(p)
  PROVE  CloseWaits'
  BY DEF IInv, CloseWaits

LEMMA LifeClose ==
  ASSUME IInv, NEW p \in Process, Close(p) \/ Closed(p) \/ Crash(p),
         \A q \in Process : Threads(q)' \subseteq Threads(q)
  PROVE  CloseWaits'
<1> SUFFICES ASSUME NEW q \in Process
             PROVE  /\ life'[q] = "closing" => Threads(q)' \subseteq joined'[q]
                    /\ life'[q] = "closed" => Threads(q)' = {}
  BY DEF CloseWaits
<1>0. life \in [Process -> {"open", "closing", "closed"}] /\ joined \in [Process -> SUBSET Job]
  BY DEF IInv, Types, TypeOK
<1>1. CASE q # p
  BY <1>0, <1>1 DEF Close, Closed, Crash, IInv, CloseWaits
<1>2. CASE q = p /\ Close(p)
  BY <1>0, <1>2 DEF Close, Threads, JoinsAll, Graph
<1>3. CASE q = p /\ Closed(p)
  <2>1. Threads(p) = {}
    BY <1>3 DEF Closed, IInv, CloseWaits, Threads
  <2> QED BY <1>0, <1>3, <2>1 DEF Closed
<1>4. CASE q = p /\ Crash(p)
  BY <1>0, <1>4 DEF Crash
<1> QED BY <1>1, <1>2, <1>3, <1>4

------------------------------------------------------------------------------
\* A new row, of any kind.
LEMMA NewRowType ==
  ASSUME TypeOK, NEW p \in Process, NEW w \in Workspace, NEW k \in Kind, NEW j \in Job,
         NEW s \in {"queued", "running"} \cup Terminal,
         job' = [job EXCEPT ![j] = NewRow(p, w, k, s)]
  PROVE  job' \in [Job -> Row \cup {NoRow}]
<1>1. NewRow(p, w, k, s) \in Row
  BY DEF NewRow, Row
<1> QED BY <1>1 DEF TypeOK

\* An id without a row is not the owner of a gate.
LEMMA NewIsFree ==
  ASSUME IInv, NEW j \in Job, New(j)
  PROVE  /\ \A w \in Workspace : gate[w] # j
         /\ ~ Active(j) /\ j \notin Graph
<1>1. ~ Active(j) /\ j \notin Graph
  BY DEF New, NoRow, Active, Graph
<1>2. j # NoJob
  BY JobsAssumption DEF NoJob
<1> QED BY <1>1, <1>2 DEF IInv, ClosedWhileRebuilt

LEMMA StartImportStep ==
  ASSUME IInv, NEW p \in Process, NEW w \in Workspace, NEW j \in Job, StartImport(p, w, j)
  PROVE  IInv'
<1>0. /\ ~ Active(j) /\ j \notin Graph
      /\ \A v \in Workspace : gate[v] # j
  BY NewIsFree DEF StartImport
<1>1. job' \in [Job -> Row \cup {NoRow}]
  BY NewRowType DEF StartImport, IInv, Types, Kind
<1>2. Types'
  BY <1>1 DEF StartImport, Goto, IInv, Types, TypeOK, Working, PC
<1>3. /\ job'[j].kind = "import"
      /\ \A i \in Job \ {j} : job'[i] = job[i]
  BY DEF StartImport, NewRow, IInv, Types, TypeOK
<1>4. Graph' = Graph /\ \A i \in Graph : job'[i] = job[i] /\ pc'[i] = pc[i]
  BY <1>0, <1>3 DEF Graph, StartImport, Goto, IInv, Types, TypeOK
<1>5. ClosedWhileRebuilt'
  <2>1. \A v \in Workspace : gate[v] # NoJob => job'[gate[v]] = job[gate[v]]
    BY <1>0, <1>3 DEF IInv, Types, TypeOK
  <2>2. \A i \in Job : job'[i].kind = "graph" => job'[i] = job[i]
    BY <1>3
  <2> QED
    BY <2>1, <2>2 DEF IInv, ClosedWhileRebuilt, Active, StartImport
<1>6. OneJobEach'
  BY <1>4 DEF IInv, OneJobEach, Active
<1>7. \A q \in Process : Threads(q)' = Threads(q)
  BY <1>4 DEF Threads, Alive
<1>8. {i \in Graph : Active(i)}' = {i \in Graph : Active(i)}
  BY <1>4 DEF Active
<1>9. WorkersBounded'
  BY <1>7, <1>8 DEF IInv, WorkersBounded
<1>10. CloseWaits'
  BY <1>7 DEF IInv, CloseWaits, StartImport
<1>11. WorkersHaveRows'
  BY <1>3 DEF StartImport, Goto, IInv, Types, TypeOK, WorkersHaveRows, Alive
<1> QED BY <1>2, <1>5, <1>6, <1>9, <1>10, <1>11 DEF IInv

LEMMA StartFailsStep ==
  ASSUME IInv, NEW p \in Process, NEW w \in Workspace, NEW k \in {"graph", "dry"},
         NEW j \in Job, StartFails(p, w, k, j)
  PROVE  IInv'
<1>0. /\ ~ Active(j) /\ j \notin Graph
      /\ \A v \in Workspace : gate[v] # j
  BY NewIsFree DEF StartFails
<1>1. job' \in [Job -> Row \cup {NoRow}] /\ events' \in 0..MaxEvents
  BY NewRowType, HappensType DEF StartFails, IInv, Types, Kind, Terminal
<1>2. Types'
  BY <1>1 DEF StartFails, IInv, Types, TypeOK, Working
<1>3. /\ job'[j].kind \in {"graph", "dry"} /\ job'[j].state = "failed"
      /\ \A i \in Job \ {j} : job'[i] = job[i]
  BY DEF StartFails, NewRow, IInv, Types, TypeOK
<1>4. ~ Active(j)' /\ \A i \in Job : Active(i)' => i # j /\ job'[i] = job[i]
  BY <1>3 DEF Active
<1>5. ClosedWhileRebuilt'
  <2>1. \A v \in Workspace : gate[v] # NoJob => job'[gate[v]] = job[gate[v]]
    BY <1>0, <1>3 DEF IInv, Types, TypeOK
  <2> QED
    BY <1>4, <2>1 DEF IInv, ClosedWhileRebuilt, Active, StartFails
<1>6. OneJobEach'
  BY <1>4 DEF IInv, OneJobEach, Active, Graph
<1>7. ~ Alive(j) /\ ~ Alive(j)'
  BY DEF IInv, WorkersHaveRows, StartFails, New, NoRow, Alive
<1>8. \A q \in Process : Threads(q)' \subseteq Threads(q)
  BY <1>3, <1>7 DEF Threads, Graph, Alive, StartFails
<1>9. {i \in Graph : Active(i)}' \subseteq {i \in Graph : Active(i)}
  BY <1>4 DEF Active, Graph
<1>10. WorkersBounded'
  BY <1>8, <1>9, FewerWorkers DEF IInv
<1>11. CloseWaits'
  BY <1>8, KeepsClose DEF StartFails
<1>12. WorkersHaveRows'
  BY <1>3, <1>7 DEF StartFails, IInv, WorkersHaveRows, Alive
<1> QED BY <1>2, <1>5, <1>6, <1>10, <1>11, <1>12 DEF IInv

LEMMA StartGraphStep ==
  ASSUME IInv, NEW p \in Process, NEW w \in Workspace, NEW k \in {"graph", "dry"},
         NEW j \in Job, StartGraph(p, w, k, j)
  PROVE  IInv'
<1>0. /\ ~ Active(j) /\ j \notin Graph
      /\ \A v \in Workspace : gate[v] # j
  BY NewIsFree DEF StartGraph
<1>1. job' \in [Job -> Row \cup {NoRow}]
  BY NewRowType DEF StartGraph, IInv, Types, Kind
<1>2. Types'
  BY <1>1 DEF StartGraph, Goto, IInv, Types, TypeOK, Working, PC
<1>3. /\ job'[j].kind = k /\ job'[j].state = "queued" /\ job'[j].ws = w /\ job'[j].runner = p
      /\ \A i \in Job \ {j} : job'[i] = job[i] /\ pc'[i] = pc[i]
  BY DEF StartGraph, NewRow, Goto, IInv, Types, TypeOK
<1>4. \A i \in Graph : ~ (Active(i) /\ job[i].ws = w)
  BY DEF StartGraph, Busy
<1>5. gate[w] = NoJob
  BY <1>4 DEF IInv, Types, TypeOK, ClosedWhileRebuilt, Graph
<1>6. ClosedWhileRebuilt'
  <2>1. gate' = [gate EXCEPT ![w] = IF k = "graph" THEN j ELSE NoJob]
    BY <1>5 DEF StartGraph, IInv, Types, TypeOK
  <2>2. \A v \in Workspace : gate[v] # NoJob => job'[gate[v]] = job[gate[v]] /\ v # w
    BY <1>0, <1>3, <1>5 DEF IInv, Types, TypeOK
  <2>3. ASSUME NEW v \in Workspace, gate'[v] # NoJob
        PROVE  /\ job'[gate'[v]].state \in {"queued", "running"}
               /\ job'[gate'[v]].kind = "graph" /\ job'[gate'[v]].ws = v
    <3>1. CASE v = w
      BY <1>3, <2>1, <2>3, <3>1 DEF IInv, Types, TypeOK
    <3>2. CASE v # w
      BY <2>1, <2>2, <2>3, <3>2 DEF IInv, Types, TypeOK, ClosedWhileRebuilt, Active
    <3> QED BY <3>1, <3>2
  <2>4. ASSUME NEW i \in Job, job'[i].kind = "graph", job'[i].state \in {"queued", "running"}
        PROVE  gate'[job'[i].ws] = i
    <3>1. CASE i = j
      BY <1>3, <2>1, <2>4, <3>1 DEF IInv, Types, TypeOK
    <3>2. CASE i # j
      <4>1. job'[i] = job[i] /\ Active(i) /\ i \in Graph
        BY <1>3, <2>4, <3>2 DEF Active, Graph
      <4>2. job[i].ws # w /\ gate[job[i].ws] = i /\ job[i].ws \in Workspace
        BY <1>4, <2>4, <4>1, ActiveRow DEF IInv, Types, ClosedWhileRebuilt, Row
      <4> QED BY <2>1, <4>1, <4>2 DEF IInv, Types, TypeOK
    <3> QED BY <3>1, <3>2
  <2> QED BY <2>3, <2>4 DEF ClosedWhileRebuilt, Active
<1>7. OneJobEach'
  <2> SUFFICES ASSUME NEW a \in Graph', NEW b \in Graph', Active(a)', Active(b)',
                      job'[a].ws = job'[b].ws, a # b
               PROVE  FALSE
    BY DEF OneJobEach, Active
  <2>1. a \in Job /\ b \in Job
    BY DEF Graph
  <2>2. CASE a # j /\ b # j
    BY <1>3, <2>1, <2>2 DEF IInv, OneJobEach, Graph, Active
  <2>3. CASE a = j
    BY <1>3, <1>4, <2>1, <2>3 DEF Graph, Active
  <2>4. CASE b = j
    BY <1>3, <1>4, <2>1, <2>4 DEF Graph, Active
  <2> QED BY <2>2, <2>3, <2>4
<1>8. /\ Threads(p)' \subseteq Threads(p) \cup {j}
      /\ \A q \in Process \ {p} : Threads(q)' \subseteq Threads(q)
      /\ {i \in Graph : Active(i)}' \subseteq {i \in Graph : Active(i)} \cup {j}
  BY <1>3 DEF Threads, Graph, Alive, Active
<1>9. WorkersBounded'
  BY <1>8, OneMoreWorker DEF StartGraph, Room, IInv
<1>10. CloseWaits'
  BY <1>8 DEF StartGraph, IInv, CloseWaits
<1>11. WorkersHaveRows'
  BY <1>3 DEF IInv, WorkersHaveRows, Alive
<1> QED BY <1>2, <1>6, <1>7, <1>9, <1>10, <1>11 DEF IInv

LEMMA InitInvariant == Init => IInv
<1> SUFFICES ASSUME Init PROVE IInv
  OBVIOUS
<1>1. Graph = {} /\ \A j \in Job : ~ Active(j) /\ ~ Alive(j) /\ job[j].kind = "none"
  BY DEF Init, Graph, Active, Alive, NoRow
<1>2. \A p \in Process : Threads(p) = {}
  BY <1>1 DEF Threads
<1>3. WorkersBounded
  BY <1>1, <1>2, JobsAssumption, FS_EmptySet DEF WorkersBounded
<1>4. ClosedWhileRebuilt /\ OneJobEach /\ WorkersHaveRows
  BY <1>1 DEF Init, ClosedWhileRebuilt, OneJobEach, WorkersHaveRows
<1>5. CloseWaits
  BY <1>2 DEF CloseWaits
<1> QED BY <1>3, <1>4, <1>5, InitTypes DEF IInv

\* Every step of the next-state relation starts a job or keeps the others.
LEMMA StepKeeps ==
  ASSUME IInv, Next
  PROVE  \/ IInv' /\ \E J \in SUBSET Job : Keeps(J)
         \/ \E p \in Process, w \in Workspace, j \in Job :
              \/ StartImport(p, w, j)
              \/ \E k \in {"graph", "dry"} : StartGraph(p, w, k, j) \/ StartFails(p, w, k, j)
<1>1. ASSUME Types', UNCHANGED <<life, joined>>, \E J \in SUBSET Job : Keeps(J)
      PROVE  IInv' /\ \E J \in SUBSET Job : Keeps(J)
  <2>1. PICK J \in SUBSET Job : Keeps(J)
    BY <1>1
  <2>2. /\ ClosedWhileRebuilt' /\ OneJobEach' /\ WorkersHaveRows' /\ WorkersBounded'
        /\ \A p \in Process : Threads(p)' \subseteq Threads(p)
    BY <1>1, <2>1, KeepsInvariant
  <2>3. CloseWaits'
    BY <1>1, <2>2, KeepsClose
  <2> QED BY <1>1, <2>1, <2>2, <2>3 DEF IInv
<1>2. ASSUME NEW p \in Process, Close(p) \/ Closed(p) \/ Crash(p)
      PROVE  IInv' /\ \E J \in SUBSET Job : Keeps(J)
  <2>1. Types' /\ Keeps({})
    BY <1>2, LifeStep DEF IInv
  <2>2. /\ ClosedWhileRebuilt' /\ OneJobEach' /\ WorkersHaveRows' /\ WorkersBounded'
        /\ \A q \in Process : Threads(q)' \subseteq Threads(q)
    BY <2>1, KeepsInvariant
  <2>3. CloseWaits'
    BY <1>2, <2>2, LifeClose
  <2> QED BY <2>1, <2>2, <2>3 DEF IInv
<1>3. ASSUME NEW j \in Job, Work(j) \/ Cancel(j) \/ Expire(j)
      PROVE  IInv' /\ \E J \in SUBSET Job : Keeps(J)
  <2>1. Types' /\ UNCHANGED <<life, joined>> /\ \E J \in SUBSET Job : Keeps(J)
    <3>1. CASE Claim(j)
      BY <3>1, ClaimStep DEF IInv
    <3>2. CASE Page(j) \/ Item(j) \/ Audit(j)
      BY <3>2, PageStep DEF IInv, Audit
    <3>3. CASE Write(j)
      BY <3>3, WriteStep DEF IInv
    <3>4. CASE End(j)
      BY <3>4, EndStep DEF IInv
    <3>5. CASE File(j)
      BY <3>5, FileStep DEF IInv
    <3>6. CASE FinishImport(j)
      BY <3>6, FinishImportStep DEF IInv
    <3>7. CASE Cancel(j) \/ Expire(j)
      BY <3>7, OtherStep DEF IInv
    <3> QED BY <1>3, <3>1, <3>2, <3>3, <3>4, <3>5, <3>6, <3>7 DEF Work
  <2> QED BY <1>1, <2>1
<1>4. ASSUME RecoverImportJobs \/ \E W \in SUBSET Workspace : RecoverGraphJobs(W)
      PROVE  IInv' /\ \E J \in SUBSET Job : Keeps(J)
  BY <1>1, <1>4, RecoverStep DEF IInv
<1>5. \A W \in {{w} : w \in Workspace} \cup {Workspace} : W \in SUBSET Workspace
  OBVIOUS
<1> QED BY <1>2, <1>3, <1>4, <1>5 DEF Next

LEMMA StepInvariant == IInv /\ [Next]_vars => IInv'
<1> SUFFICES ASSUME IInv, [Next]_vars PROVE IInv'
  OBVIOUS
<1>1. CASE Next
  BY <1>1, StepKeeps, StartImportStep, StartGraphStep, StartFailsStep
<1>2. CASE UNCHANGED vars
  <2>1. Types' /\ UNCHANGED <<life, joined>>
    BY <1>2 DEF vars, IInv, Types, TypeOK, Working
  <2>2. Keeps({})
    BY <1>2 DEF vars, Keeps, Alive, OpenGate, IInv, Types, TypeOK
  <2>3. /\ ClosedWhileRebuilt' /\ OneJobEach' /\ WorkersHaveRows' /\ WorkersBounded'
        /\ \A p \in Process : Threads(p)' \subseteq Threads(p)
    BY <2>1, <2>2, KeepsInvariant
  <2> QED BY <2>1, <2>3, KeepsClose DEF IInv
<1> QED BY <1>1, <1>2

------------------------------------------------------------------------------
\* Every job row, worker, lease and gate keeps its type: in particular a worker
\* never counts below zero items, whatever is cancelled or recovered.
THEOREM JobsTypeCorrect == Spec => []TypeOK
<1>1. IInv => TypeOK
  BY DEF IInv, Types
<1> QED BY InitInvariant, StepInvariant, <1>1, PTL DEF Spec

\* A graph is closed to its readers exactly while a rebuild of it is under way,
\* for any services, leases, crashes and late workers.
THEOREM GateFollowsRebuild == Spec => []ClosedWhileRebuilt
<1>1. IInv => ClosedWhileRebuilt
  BY DEF IInv
<1> QED BY InitInvariant, StepInvariant, <1>1, PTL DEF Spec

\* Neither the active graph jobs nor the graph threads of a service exceed the
\* limit, threads of jobs that were given up included.
THEOREM WorkersStayBounded == Spec => []WorkersBounded
<1>1. IInv => WorkersBounded
  BY DEF IInv
<1> QED BY InitInvariant, StepInvariant, <1>1, PTL DEF Spec

\* A service closes its store after its last graph worker.
THEOREM CloseIsSafe == Spec => []NoWorkerOutlivesClose
<1>1. IInv => NoWorkerOutlivesClose
  BY DEF IInv, CloseWaits, NoWorkerOutlivesClose
<1> QED BY InitInvariant, StepInvariant, <1>1, PTL DEF Spec

------------------------------------------------------------------------------
\* The refinement mapping of ServiceJobs, by name.
ActiveOf(w) == IF Busy(w) THEN CHOOSE j \in Graph : job[j].ws = w /\ Active(j) ELSE NoJob
ResultOf(j) == IF j \in Graph /\ job[j].state \in Terminal THEN job[j].state ELSE "none"
ActiveMap == [w \in Workspace |-> ActiveOf(w)]
ResultMap == [j \in Job |-> ResultOf(j)]

\* What IndexJobs promises but for its fairness.
IndexSafety == Index!Init /\ [][Index!Next]_Index!vars

\* The choice of the mapping is the workspace's only active graph job.
LEMMA ActiveOfIs ==
  ASSUME OneJobEach, NEW w \in Workspace
  PROVE  /\ \A j \in Graph : Active(j) /\ job[j].ws = w => ActiveOf(w) = j
         /\ ActiveOf(w) # NoJob => /\ ActiveOf(w) \in Graph /\ Active(ActiveOf(w))
                                   /\ job[ActiveOf(w)].ws = w
<1>1. Busy(w) => /\ ActiveOf(w) \in Graph /\ Active(ActiveOf(w))
                 /\ job[ActiveOf(w)].ws = w
  BY DEF Busy, ActiveOf
<1>2. ASSUME NEW j \in Graph, Active(j), job[j].ws = w
      PROVE  ActiveOf(w) = j
  BY <1>1, <1>2 DEF Busy, OneJobEach
<1>3. ActiveOf(w) # NoJob => Busy(w)
  BY DEF ActiveOf
<1> QED BY <1>1, <1>2, <1>3

\* A step that leaves the active graph jobs of a workspace leaves the choice.
LEMMA ActiveOfStays ==
  ASSUME OneJobEach, NEW v \in Workspace,
         \A i : i \in Graph' /\ job'[i].ws = v /\ Active(i)'
            <=> i \in Graph /\ job[i].ws = v /\ Active(i)
  PROVE  ActiveOf(v)' = ActiveOf(v)
<1>0. NoJob \notin Graph
  BY JobsAssumption DEF NoJob, Graph
<1>a. PICK a : a = ActiveOf(v)
  OBVIOUS
<1>1. /\ \A j \in Graph : Active(j) /\ job[j].ws = v => a = j
      /\ a # NoJob => a \in Graph /\ Active(a) /\ job[a].ws = v
  BY <1>a, ActiveOfIs
<1>2. CASE a = NoJob
  <2>1. ~ Busy(v)'
    BY <1>0, <1>1, <1>2 DEF Busy
  <2> QED BY <1>a, <1>2, <2>1 DEF ActiveOf
<1>3. CASE a # NoJob
  <2>1. a \in Graph' /\ job'[a].ws = v /\ Active(a)'
    BY <1>1, <1>3
  <2>2. Busy(v)'
    BY <2>1 DEF Busy
  <2>3. /\ ActiveOf(v)' \in Graph' /\ job'[ActiveOf(v)'].ws = v
        /\ job'[ActiveOf(v)'].state \in {"queued", "running"}
    BY <2>1, <2>2 DEF ActiveOf, Active
  <2>4. \A i \in Graph' : job'[i].ws = v /\ Active(i)' => i = a
    BY <1>1
  <2> QED BY <1>a, <2>3, <2>4 DEF Active
<1> QED BY <1>2, <1>3

\* A step that starts nothing is an end of the jobs it ends, or a stutter.
LEMMA KeepsRefines ==
  ASSUME IInv, IInv', NEW J \in SUBSET Job, Keeps(J)
  PROVE  [Index!Next]_Index!vars
<1>w. PICK W : W = {w \in Workspace : ActiveOf(w) \in J}
  OBVIOUS
<1>0. NoJob \notin Job
  BY JobsAssumption DEF NoJob
<1>1. Graph' = Graph /\ \A i \in Job : Active(i)' <=> Active(i) /\ i \notin J
  BY DEF Keeps, Graph, Active
<1>2. \A w \in Workspace : ActiveOf(w)' = IF ActiveOf(w) \in J THEN NoJob ELSE ActiveOf(w)
  <2> TAKE w \in Workspace
  <2>a. PICK a : a = ActiveOf(w)
    OBVIOUS
  <2>1. /\ \A j \in Graph : Active(j) /\ job[j].ws = w => a = j
        /\ a # NoJob => a \in Graph /\ Active(a) /\ job[a].ws = w
    BY <2>a, ActiveOfIs DEF IInv
  <2>2. Graph \subseteq Job /\ \A j \in Job : job'[j].ws = job[j].ws
    BY DEF Graph, Keeps
  <2>3. \A j \in Graph' : job'[j].ws = w /\ Active(j)' => j = a /\ j \notin J
    BY <1>1, <2>1, <2>2
  <2>4. CASE a \in J \/ a = NoJob
    <3>1. ~ Busy(w)'
      BY <1>0, <2>2, <2>3, <2>4, <1>1 DEF Busy
    <3> QED BY <2>a, <2>4, <3>1 DEF ActiveOf
  <2>5. CASE a \notin J /\ a # NoJob
    <3>1. a \in Graph' /\ job'[a].ws = w /\ Active(a)'
      BY <1>1, <2>1, <2>2, <2>5
    <3>2. Busy(w)'
      BY <3>1 DEF Busy
    <3>3. /\ ActiveOf(w)' \in Graph' /\ job'[ActiveOf(w)'].ws = w
          /\ job'[ActiveOf(w)'].state \in {"queued", "running"}
      BY <3>1, <3>2 DEF ActiveOf, Active
    <3> QED BY <2>a, <2>3, <2>5, <3>3 DEF Active
  <2> QED BY <2>4, <2>5
<1>3. \A j \in Job : ResultOf(j)' = IF j \in J \cap Graph THEN job'[j].state ELSE ResultOf(j)
  BY <1>1 DEF Keeps, ResultOf, Active, Terminal
<1>4. \A j \in Job : j \in J \cap Graph <=> \E w \in W : ActiveOf(w) = j
  <2>1. ASSUME NEW j \in J \cap Graph
        PROVE  \E w \in W : ActiveOf(w) = j
    <3>1. Active(j) /\ job[j].ws \in Workspace
      BY ActiveRow DEF Keeps, IInv, Types, Row
    <3> QED BY <1>w, <3>1, ActiveOfIs DEF IInv
  <2>2. ASSUME NEW w \in W
        PROVE  ActiveOf(w) \in J \cap Graph
    BY <1>w, <1>0, ActiveOfIs DEF IInv
  <2> QED BY <2>1, <2>2
<1>5. CASE W = {}
  <2>1. UNCHANGED <<ActiveMap, ResultMap>>
    BY <1>w, <1>2, <1>3, <1>4, <1>5 DEF ActiveMap, ResultMap
  <2> QED BY <2>1 DEF Index!vars, ActiveMap, ResultMap, ActiveOf, ResultOf
<1>6. CASE W # {}
  <2>1. PICK r : r = [w \in W |-> job'[ActiveOf(w)].state]
    OBVIOUS
  <2>2. r \in [W -> {"completed", "cancelled", "failed"}]
    <3>1. \A w \in W : ActiveOf(w) \in J /\ ActiveOf(w) \in Graph
      BY <1>w, <1>0, ActiveOfIs DEF IInv
    <3>2. \A w \in W : job'[ActiveOf(w)].state \in {"completed", "cancelled", "failed"}
      BY <3>1 DEF Keeps, Terminal
    <3> QED BY <2>1, <3>2
  <2>3. \A w \in W : w \in Workspace /\ ActiveMap[w] # NoJob
    BY <1>w, <1>0 DEF ActiveMap
  <2>4. ActiveMap' = [w \in Workspace |-> IF w \in W THEN NoJob ELSE ActiveMap[w]]
    BY <1>w, <1>2 DEF ActiveMap
  <2>5. \A j \in Job : (\E w \in W : ActiveMap[w] = j) => 
          r[CHOOSE w \in W : ActiveMap[w] = j] = job'[j].state
    <3> SUFFICES ASSUME NEW j \in Job, NEW u \in W, ActiveMap[u] = j
                 PROVE  r[CHOOSE w \in W : ActiveMap[w] = j] = job'[j].state
      OBVIOUS
    <3>1. PICK c : c = CHOOSE w \in W : ActiveMap[w] = j
      OBVIOUS
    <3>2. c \in W /\ ActiveMap[c] = j
      BY <3>1
    <3>3. ActiveOf(c) = j
      BY <2>3, <3>2 DEF ActiveMap
    <3> QED BY <2>1, <3>1, <3>2, <3>3
  <2>6. \A j \in Job : j \in J \cap Graph <=> \E w \in W : ActiveMap[w] = j
    BY <1>w, <1>4 DEF ActiveMap
  <2>7. ResultMap' = [j \in Job |-> IF \E w \in W : ActiveMap[w] = j
                                    THEN r[CHOOSE w \in W : ActiveMap[w] = j]
                                    ELSE ResultMap[j]]
    BY <1>3, <2>5, <2>6 DEF ResultMap
  <2>8. Index!End(W)
    BY <2>2, <2>3, <2>4, <2>7
    DEF Index!End, Index!Result, ActiveMap, ResultMap, ActiveOf, ResultOf
  <2>9. W \in (SUBSET Workspace) \ {{}}
    BY <1>6, <2>3
  <2> QED BY <2>8, <2>9 DEF Index!Next
<1> QED BY <1>5, <1>6

LEMMA StartRefines ==
  ASSUME IInv, NEW p \in Process, NEW w \in Workspace, NEW j \in Job,
         \/ StartImport(p, w, j)
         \/ \E k \in {"graph", "dry"} : StartGraph(p, w, k, j) \/ StartFails(p, w, k, j)
  PROVE  [Index!Next]_Index!vars
<1>0. /\ ~ Active(j) /\ j \notin Graph /\ j # NoJob
      /\ \A i \in Job \ {j} : job'[i] = job[i]
  BY NewIsFree, JobsAssumption
     DEF StartImport, StartGraph, StartFails, IInv, Types, TypeOK, NoJob
<1>1. ResultMap[j] = "none" /\ \A v \in Workspace : ActiveMap[v] # j
  BY <1>0, ActiveOfIs DEF ResultMap, ResultOf, ActiveMap, IInv
<1>2. CASE StartImport(p, w, j)
  <2>1. job'[j].kind = "import"
    BY <1>2 DEF StartImport, NewRow, IInv, Types, TypeOK
  <2>2. Graph' = Graph /\ \A i \in Graph : job'[i] = job[i]
    BY <1>0, <2>1 DEF Graph
  <2>3. UNCHANGED <<ActiveMap, ResultMap>>
    BY <2>2 DEF ActiveMap, ResultMap, ActiveOf, ResultOf, Busy, Active
  <2> QED BY <2>3 DEF Index!vars, ActiveMap, ResultMap, ActiveOf, ResultOf
<1>3. ASSUME NEW k \in {"graph", "dry"}, StartGraph(p, w, k, j)
      PROVE  [Index!Next]_Index!vars
  <2>1. /\ job'[j].kind = k /\ job'[j].state = "queued" /\ job'[j].ws = w
    BY <1>3 DEF StartGraph, NewRow, IInv, Types, TypeOK
  <2>2. Graph' = Graph \cup {j} /\ \A i \in Graph : i # j /\ job'[i] = job[i]
    BY <1>0, <2>1 DEF Graph
  <2>3. ~ Busy(w)
    BY <1>3 DEF StartGraph
  <2>4. ActiveMap[w] = NoJob
    BY <2>3 DEF ActiveMap, ActiveOf
  <2>5. ResultMap' = ResultMap
    BY <1>0, <2>1, <2>2 DEF ResultMap, ResultOf, Terminal
  <2>6. ActiveOf(w)' = j
    <3>1. \A i \in Graph' : job'[i].ws = w /\ Active(i)' <=> i = j
      BY <2>1, <2>2, <2>3 DEF Busy, Active
    <3>2. Busy(w)' /\ j \in Graph'
      BY <2>2, <3>1 DEF Busy
    <3>3. (CHOOSE i \in Graph' : job'[i].ws = w /\ Active(i)') = j
      BY <3>1, <3>2
    <3> QED BY <3>2, <3>3 DEF ActiveOf
  <2>7. ASSUME NEW v \in Workspace, v # w
        PROVE  ActiveOf(v)' = ActiveOf(v)
    <3>1. \A i : i \in Graph' /\ job'[i].ws = v /\ Active(i)'
             <=> i \in Graph /\ job[i].ws = v /\ Active(i)
      BY <2>1, <2>2, <2>7 DEF Active
    <3> QED BY <3>1, ActiveOfStays DEF IInv
  <2>8. ActiveMap' = [ActiveMap EXCEPT ![w] = j]
    BY <2>6, <2>7 DEF ActiveMap
  <2>9. Index!Start(w, j)
    BY <1>1, <2>4, <2>5, <2>8
    DEF Index!Start, ActiveMap, ResultMap, ActiveOf, ResultOf
  <2> QED BY <2>9 DEF Index!Next
<1>4. ASSUME NEW k \in {"graph", "dry"}, StartFails(p, w, k, j)
      PROVE  [Index!Next]_Index!vars
  <2>1. /\ job'[j].kind = k /\ job'[j].state = "failed"
    BY <1>4 DEF StartFails, NewRow, IInv, Types, TypeOK
  <2>2. Graph' = Graph \cup {j} /\ \A i \in Graph : i # j /\ job'[i] = job[i]
    BY <1>0, <2>1 DEF Graph
  <2>3. ResultMap' = [ResultMap EXCEPT ![j] = "failed"]
    BY <1>0, <2>1, <2>2 DEF ResultMap, ResultOf, Terminal
  <2>4. ASSUME NEW v \in Workspace
        PROVE  ActiveOf(v)' = ActiveOf(v)
    <3>1. \A i : i \in Graph' /\ job'[i].ws = v /\ Active(i)'
             <=> i \in Graph /\ job[i].ws = v /\ Active(i)
      BY <2>1, <2>2 DEF Active
    <3> QED BY <3>1, ActiveOfStays DEF IInv
  <2>5. ActiveMap' = ActiveMap
    BY <2>4 DEF ActiveMap
  <2>6. Index!Refuse(j)
    BY <1>1, <2>3, <2>5
    DEF Index!Refuse, ActiveMap, ResultMap, ActiveOf, ResultOf
  <2> QED BY <2>6 DEF Index!Next
<1> QED BY <1>2, <1>3, <1>4

\* The graph jobs implement IndexJobs but for its fairness: a workspace has at most
\* one job, and a job ends once with a result that nobody changes, for any number of
\* services, workers that come back late, and recoveries.
THEOREM JobsImplementIndex == Spec => IndexSafety
<1>1. Init => Index!Init
  <2> SUFFICES ASSUME Init PROVE Index!Init
    OBVIOUS
  <2>1. Graph = {} /\ \A w \in Workspace : ~ Busy(w)
    BY DEF Init, Graph, NoRow, Busy
  <2> QED BY <2>1 DEF Index!Init
<1>2. IInv /\ IInv' /\ [Next]_vars => [Index!Next]_Index!vars
  <2> SUFFICES ASSUME IInv, IInv', [Next]_vars PROVE [Index!Next]_Index!vars
    OBVIOUS
  <2>1. CASE Next
    BY <2>1, StepKeeps, KeepsRefines, StartRefines
  <2>2. CASE UNCHANGED vars
    BY <2>2 DEF vars, Index!vars, Busy, Graph, Active
  <2> QED BY <2>1, <2>2
<1> QED BY InitInvariant, StepInvariant, <1>1, <1>2, PTL DEF Spec, IndexSafety

==============================================================================
