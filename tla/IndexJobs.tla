----------------------------- MODULE IndexJobs -------------------------------
(***************************************************************************)
(* What the graph index promises its callers, whatever happens to the      *)
(* processes that build it: a workspace has at most one job at a time, and *)
(* a job ends once, with a result that is final.                           *)
(***************************************************************************)
CONSTANTS Workspace, Job, NoJob

Result == {"completed", "cancelled", "failed"}

VARIABLES
  active,    \* active[w]: the job of workspace w, or NoJob
  result     \* result[j]: how job j ended, "none" before it did

vars == <<active, result>>

Init ==
  /\ active = [w \in Workspace |-> NoJob]
  /\ result = [j \in Job |-> "none"]

Start(w, j) ==
  /\ active[w] = NoJob
  /\ result[j] = "none"
  /\ \A v \in Workspace : active[v] # j
  /\ active' = [active EXCEPT ![w] = j]
  /\ UNCHANGED result

\* A job that is given up before any worker saw it.
Refuse(j) ==
  /\ result[j] = "none"
  /\ \A v \in Workspace : active[v] # j
  /\ result' = [result EXCEPT ![j] = "failed"]
  /\ UNCHANGED active

\* The jobs of some workspaces end: one by itself, several by a recovery.
End(W) ==
  /\ \A w \in W : active[w] # NoJob
  /\ active' = [w \in Workspace |-> IF w \in W THEN NoJob ELSE active[w]]
  /\ \E r \in [W -> Result] :
       result' = [j \in Job |-> IF \E w \in W : active[w] = j
                                THEN r[CHOOSE w \in W : active[w] = j]
                                ELSE result[j]]

Next ==
  \/ \E w \in Workspace, j \in Job : Start(w, j)
  \/ \E j \in Job : Refuse(j)
  \/ \E W \in (SUBSET Workspace) \ {{}} : End(W)

\* Every job ends.
Spec ==
  /\ Init /\ [][Next]_vars
  /\ \A w \in Workspace : WF_vars(\E W \in SUBSET Workspace : w \in W /\ End(W))
==============================================================================
