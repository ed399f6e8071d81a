--------------------------- MODULE MemoryCommands ---------------------------
(***************************************************************************)
(* Governed derivations of memories (core/mutations.py and the engine's    *)
(* correct, revise_memory, approve_for_prompt, promote and merge): a       *)
(* command reads its sources and embeds without the writer, then validates *)
(* and writes in one transaction, in which it also leaves a receipt for    *)
(* retries and a claim on every source. Meanwhile other processes edit,    *)
(* retire and erase the sources, or move them to another workspace         *)
(* (core/relocation.py).                                                   *)
(***************************************************************************)
EXTENDS Integers, FiniteSets, FiniteSetsExt

CONSTANTS
  MemoryCount,  \* ids of memories, in the order in which they are created
  Workspace,
  Request,      \* payloads of requests, each of which may be sent again and again
  Name,         \* operation ids that callers choose
  Client,       \* threads and processes that serve requests
  InitialTrust, \* how the first memories may be trusted, in the order of their ids
  MaxOps        \* bound on edits, retirements, erasures and moves

Id == 1..MemoryCount
Trust == {"approved", "pending", "held"}

ASSUME CommandsAssumption ==
  /\ MemoryCount \in Nat
  /\ "none" \notin Workspace
  /\ InitialTrust \subseteq [{1, 2} -> Trust]
  /\ MaxOps \in Nat

VARIABLES
  row,       \* table memories
  receipt,   \* table memory_commands
  claim,     \* table memory_command_sources, by source
  request,   \* what was asked
  work,      \* work[c]: the command that c has prepared
  answer,    \* answer[r]: ids with which r was answered
  made,      \* made[s]: successors that commands ever made of s
  line,      \* line[m]: m and the memories that it names as its origin
  ops

tables == <<row, receipt, claim>>
history == <<answer, made, line>>
vars == <<tables, request, work, history, ops>>

\* Quarantined ("held") rows are governable although their interval is empty.
\* text stands for title and content, version for modified_hlc and closures.
Row == [state : {"none", "live", "retired", "erased"}, trust : Trust, ws : Workspace,
        wide : BOOLEAN, approved_from : Id \cup {0}, text : Nat, version : Nat]

Kind == {"correct", "revise", "approve", "promote", "merge"}
NoRequest == [kind |-> "none", src |-> {}, name |-> "none", seen |-> {}]
Asked == [kind : Kind, src : SUBSET Id, name : Name, seen : SUBSET (Id \X Row)]
Hash == [request : Request, text : SUBSET (Id \X Nat), ws : SUBSET Workspace]
OperationId == (Name \X {"explicit"}) \cup (Hash \X {"auto"})
Receipt == [ws : Workspace, op : OperationId, hash : Hash, result : Id]
NoClaim == [ws |-> "none", op |-> "none"]
Idle == [request |-> "none", rows |-> {}]

Empty(w) == [state |-> "none", trust |-> "pending", ws |-> w, wide |-> FALSE,
             approved_from |-> 0, text |-> 0, version |-> 0]

\* Two memories of one workspace; approved_from is set by approvals alone.
Init ==
  /\ \E w \in Workspace : \E t \in InitialTrust :
       row = [m \in Id |->
                IF m \in {1, 2} THEN [Empty(w) EXCEPT !.state = "live", !.trust = t[m]]
                ELSE Empty(w)]
  /\ receipt = {}
  /\ claim = [m \in Id |-> NoClaim]
  /\ request = [r \in Request |-> NoRequest]
  /\ work = [c \in Client |-> Idle]
  /\ answer = [r \in Request |-> {}]
  /\ made = [m \in Id |-> {}]
  /\ line = [m \in Id |-> {m}]
  /\ ops = 0

Present(m) == row[m].state \in {"live", "retired"}
Fresh == {m \in Id : row[m].state = "none"}

------------------------------------------------------------------------------
\* A caller looks at memories and asks. Revisions have a version that the caller
\* expects, and an operation id, which may be used for two requests by mistake.
Ask(r, k, src, name) ==
  /\ request[r] = NoRequest
  /\ \A s \in src : Present(s)
  /\ \A s, t \in src : row[s].ws = row[t].ws
  /\ Cardinality(src) = IF k = "merge" THEN 2 ELSE 1
  /\ request' = [request EXCEPT ![r] =
       [kind |-> k, src |-> src, name |-> name,
        seen |-> IF k = "revise" THEN {<<s, row[s]>> : s \in src} ELSE {}]]
  /\ UNCHANGED <<tables, work, history, ops>>

\* MemoryCommand.__init__: what of the sources goes into the request's hash. That
\* of a merge also depends on the workspace (merge_key).
HashOf(r, rows) ==
  [request |-> r,
   text |-> IF request[r].kind = "promote" THEN {} ELSE {<<x[1], x[2].text>> : x \in rows},
   ws |-> IF request[r].kind = "merge" THEN {x[2].ws : x \in rows} ELSE {}]

OperationOf(r, rows) ==
  IF request[r].kind = "revise" THEN <<request[r].name, "explicit">>
  ELSE <<HashOf(r, rows), "auto">>

WorkspaceOf(rows) == (CHOOSE x \in rows : TRUE)[2].ws

\* Mutant: a receipt answers whoever uses its operation id.
SameOperation(x, r, rows) == TRUE

SameRequest(x, r, rows) == x.hash = HashOf(r, rows)

Receipts(ws, op) == {x \in receipt : x.ws = ws /\ x.op = op}
ReceiptsOf(r, rows) == Receipts(WorkspaceOf(rows), OperationOf(r, rows))

\* MemoryCommand.replay answers with the result of the receipt, as long as it is
\* neither erased nor retired.
Replays(r, rows) ==
  {x.result : x \in {x \in ReceiptsOf(r, rows) :
                       SameRequest(x, r, rows) /\ row[x.result].state = "live"}}

\* Approved records that name the source.
Approvals(s) == {m \in Id : /\ Present(m)
                            /\ row[m].approved_from = s
                            /\ row[m].trust = "approved"
                            /\ row[m].ws = row[s].ws}

\* Mutant: versions are compared before the writer only.
UnchangedBefore(rows) == \A x \in rows : Present(x[1])

\* Mutant: the version does not cover what is edited in place.
UnchangedOwner(rows) ==
  \A x \in rows : Present(x[1]) /\ row[x[1]].ws = x[2].ws /\ row[x[1]].trust = x[2].trust

\* The sources are as they were read.
Unchanged(rows) == \A x \in rows : row[x[1]] = x[2]

\* What a command is answered with instead of being executed: that of its
\* receipt, but an approval (approval_replay) with the newest approved record
\* that names its source, if it is live. (If its content is not the source's,
\* the answer is an error.)
Answers(r, rows) ==
  LET approvals == UNION {Approvals(s) : s \in request[r].src}
  IN IF request[r].kind # "approve" \/ approvals = {} THEN Replays(r, rows)
     ELSE {n \in {Max(approvals)} : Unchanged(rows) /\ row[n].state = "live"}

Answer(r, n) == answer' = [answer EXCEPT ![r] = @ \cup {n}]

Read(r) == {<<s, row[s]>> : s \in request[r].src}

\* The check of each operation before it embeds.
MayPrepare(r) ==
  \A s \in request[r].src :
    /\ Present(s)
    /\ \A t \in request[r].src : row[s].ws = row[t].ws
    /\ request[r].kind = "promote" => row[s].trust = "approved" /\ ~ row[s].wide
    /\ request[r].kind = "approve" => row[s].state = "live" /\ row[s].trust = "pending"

\* A retry is answered without embedding.
AnswerRetry(r) ==
  /\ request[r] # NoRequest
  /\ \/ /\ MayPrepare(r)
        /\ \E n \in Answers(r, Read(r)) : Answer(r, n)
     \/ /\ request[r].kind = "approve"
        /\ \E s \in request[r].src : Present(s) /\ row[s].trust = "approved" /\ Answer(r, s)
  /\ UNCHANGED <<tables, request, work, made, line, ops>>

\* The sources are read, the content embedded.
Prepare(c, r) ==
  /\ work[c] = Idle
  /\ request[r] # NoRequest
  /\ MayPrepare(r)
  /\ ReceiptsOf(r, Read(r)) = {}
  /\ request[r].kind = "approve" => \A s \in request[r].src : Approvals(s) = {}
  /\ work' = [work EXCEPT ![c] = [request |-> r, rows |-> Read(r)]]
  /\ UNCHANGED <<tables, request, history, ops>>

------------------------------------------------------------------------------
\* MemoryCommand.validate and the validators of the operations, under the writer.
Valid(r, rows) ==
  /\ ReceiptsOf(r, rows) = {}
  /\ Unchanged(rows)
  /\ \A x \in rows : claim[x[1]] = NoClaim /\ x[2].state = "live"
  /\ request[r].kind = "revise" => rows = request[r].seen
  /\ request[r].kind = "approve" => \A s \in request[r].src : Approvals(s) = {}

\* Mutant: the trust of a merge is that of any source.
TrustOfAny(k, rows) ==
  IF \E x \in rows : x[2].trust = "approved" THEN {"approved"} ELSE {"pending"}

\* The trust of a derived record; the content of a correction or a merge may be
\* quarantined.
DerivedTrust(k, rows) ==
  IF k \in {"approve", "promote"} THEN {"approved"}
  ELSE IF \E x \in rows : x[2].trust = "held" THEN {"held"}
  ELSE IF \A x \in rows : x[2].trust = "approved" THEN {"approved", "held"}
  ELSE {"pending", "held"}

\* The new record. Corrections and promotions copy the source's metadata. An
\* approval may also carry the reviewer's own replacement_content; that text is left
\* out, as the command is prepared and guarded in the same way with it.
Derived(k, rows, t) ==
  LET first == (CHOOSE x \in rows : \A y \in rows : x[1] <= y[1])
  IN [state |-> "live", trust |-> t, ws |-> first[2].ws,
      wide |-> first[2].wide \/ k = "promote",
      approved_from |-> IF k = "approve" THEN first[1]
                        ELSE IF k = "merge" THEN 0 ELSE first[2].approved_from,
      text |-> IF k \in {"approve", "promote"} THEN first[2].text ELSE 0,
      version |-> 1]

\* close_validity: an interval that is empty stays as it is.
Close(x) ==
  [x EXCEPT !.state = IF x.trust = "held" THEN @ ELSE "retired", !.version = @ + 1]

\* A promotion is resolved against the wider records: it may be one of them, or
\* supersede one of them.
Wider(rows) == {m \in Id : /\ row[m].state = "live"
                           /\ row[m].trust = "approved"
                           /\ row[m].wide
                           /\ row[m].ws = WorkspaceOf(rows)}

\* Mutant: the source of an approval is not claimed, since it is not closed.
ClaimsClosed(r) == IF request[r].kind = "approve" THEN {} ELSE request[r].src

\* complete claims every source.
Claims(r) == request[r].src

\* The transaction: record, closures, receipt and claims. superseded is what a
\* promotion's resolution closes.
Commit(r, rows, n, record, superseded) ==
  LET q == request[r]
      closed == (IF q.kind = "approve" THEN {} ELSE q.src) \cup superseded
      key == [ws |-> WorkspaceOf(rows), op |-> OperationOf(r, rows)]
  IN /\ row' = [m \in Id |-> IF m = n THEN record
                             ELSE IF m \in closed THEN Close(row[m]) ELSE row[m]]
     /\ receipt' = receipt \cup
          {[ws |-> key.ws, op |-> key.op, hash |-> HashOf(r, rows), result |-> n]}
     /\ claim' = [m \in Id |-> IF m \in Claims(r) THEN key ELSE claim[m]]
     /\ made' = [m \in Id |-> IF m \in q.src THEN made[m] \cup {n} ELSE made[m]]
     /\ line' = [line EXCEPT ![n] = @ \cup UNION {line[m] : m \in q.src \cup superseded}]
     /\ Answer(r, n)

Add(r, rows) ==
  \E t \in DerivedTrust(request[r].kind, rows) :
    /\ Fresh # {}
    /\ \E superseded \in {{}} \cup (IF request[r].kind = "promote"
                                    THEN {{m} : m \in Wider(rows)} ELSE {}) :
         Commit(r, rows, Min(Fresh), Derived(request[r].kind, rows, t), superseded)

Deduplicate(r, rows) ==
  /\ request[r].kind = "promote"
  /\ \E n \in Wider(rows) : Commit(r, rows, n, [row[n] EXCEPT !.version = @ + 1], {})

\* The writer's transaction of a prepared command: a commit, or an answer or an
\* error that leaves everything as it was. (An answer may be lost, too.)
Write(c) ==
  LET r == work[c].request
      rows == work[c].rows
  IN /\ work[c] # Idle
     /\ IF Valid(r, rows)
        THEN Add(r, rows) \/ Deduplicate(r, rows)
        ELSE /\ UNCHANGED <<tables, made, line>>
             /\ \/ \E n \in Answers(r, rows) : Answer(r, n)
                \/ UNCHANGED answer
     /\ work' = [work EXCEPT ![c] = Idle]
     /\ UNCHANGED <<request, ops>>

------------------------------------------------------------------------------
Operation == ops < MaxOps /\ ops' = ops + 1

\* A title is changed or a memory pinned; a peer's version of a memory that is
\* not approved replaces it, and may be quarantined.
Edit(m) ==
  /\ Operation
  /\ Present(m)
  /\ \E text \in {row[m].text, row[m].text + 1}, t \in Trust :
       /\ t # row[m].trust => row[m].trust = "pending" /\ t = "held"
       /\ row' = [row EXCEPT ![m].text = text, ![m].trust = t, ![m].version = @ + 1]
  /\ UNCHANGED <<receipt, claim, request, work, history>>

\* retire and forget
Retire(m) ==
  /\ Operation
  /\ Present(m)
  /\ row' = [row EXCEPT ![m] = Close(@)]
  /\ UNCHANGED <<receipt, claim, request, work, history>>

\* secure_erase: receipts and claims survive.
Erase(m) ==
  /\ Operation
  /\ Present(m)
  /\ row' = [row EXCEPT ![m] = [Empty(row[m].ws) EXCEPT !.state = "erased"]]
  /\ UNCHANGED <<receipt, claim, request, work, history>>

\* What connects two memories: metadata, or a command.
Linked(s, t) ==
  \/ Present(t) /\ s \in line[t]
  \/ \E x \in receipt : x.result = t /\ claim[s] = [ws |-> x.ws, op |-> x.op]

\* prepare_move: everything that is connected to the selection, found in rounds.
Component(m) ==
  LET links == {e \in Id \X Id : e[1] # e[2] /\ Linked(e[1], e[2])}
      Around(S) == S \cup {e[1] : e \in {x \in links : x[2] \in S}}
                     \cup {e[2] : e \in {x \in links : x[1] \in S}}
      reached[n \in Nat] == IF n = 0 THEN {m} ELSE Around(reached[n - 1])
  IN reached[MemoryCount]

CommandsOf(S) ==
  {x \in receipt : x.result \in S \/ \E s \in S : claim[s] = [ws |-> x.ws, op |-> x.op]}

\* Mutant: the claims keep the workspace in which they were made.
ClaimsStay(commands, w) == claim

\* The claims follow their commands.
ClaimsMove(commands, w) ==
  [s \in Id |-> IF \E x \in commands : claim[s] = [ws |-> x.ws, op |-> x.op]
                THEN [claim[s] EXCEPT !.ws = w] ELSE claim[s]]

\* move_memories: the plan is made again under the writer and must be the one
\* that was reviewed. History that is erased or elsewhere blocks it, and so does
\* an operation id that the destination knows.
Move(m, w) ==
  LET S == Component(m)
      commands == CommandsOf(S)
  IN /\ Operation
     /\ Present(m)
     /\ w # row[m].ws
     /\ \A n \in S : Present(n) /\ row[n].ws = row[m].ws
     /\ \A x \in commands :
          /\ x.ws = row[m].ws
          /\ x.result \in S
          /\ \A s \in Id : claim[s] = [ws |-> x.ws, op |-> x.op] => s \in S
          /\ Receipts(w, x.op) = {}
     /\ row' = [n \in Id |-> IF n \in S THEN [row[n] EXCEPT !.ws = w, !.version = @ + 1]
                             ELSE row[n]]
     /\ receipt' = {IF x \in commands THEN [x EXCEPT !.ws = w] ELSE x : x \in receipt}
     /\ claim' = ClaimsMove(commands, w)
     /\ UNCHANGED <<request, work, history>>

Next ==
  \/ \E r \in Request, k \in Kind, src \in SUBSET Id, name \in Name : Ask(r, k, src, name)
  \/ \E r \in Request : AnswerRetry(r)
  \/ \E c \in Client, r \in Request : Prepare(c, r)
  \/ \E c \in Client : Write(c)
  \/ \E m \in Id : Edit(m) \/ Retire(m) \/ Erase(m) \/ \E w \in Workspace : Move(m, w)

Spec == Init /\ [][Next]_vars

------------------------------------------------------------------------------
\* The tables with the keys that the schema declares: one receipt per workspace
\* and operation id, and every claim refers to a receipt.
TypeOK ==
  /\ row \in [Id -> Row]
  /\ \A x \in receipt : x.ws \in Workspace /\ x.result \in Id
  /\ \A x, y \in receipt : x.ws = y.ws /\ x.op = y.op => x = y
  /\ \A s \in Id : claim[s] # NoClaim => Receipts(claim[s].ws, claim[s].op) # {}
  /\ \A c \in Client : work[c] # Idle => work[c].request \in Request
  /\ answer \in [Request -> SUBSET Id]
  /\ made \in [Id -> SUBSET Id]
  /\ line \in [Id -> SUBSET Id]
  /\ ops \in 0..MaxOps

\* A memory never has two successors: not by two commands that were prepared at
\* the same time, nor by the retry of a command whose result is erased, retired
\* or moved ("a delayed request cannot recreate its result", MemoryCommand).
OneSuccessor == \A s \in Id : Cardinality(made[s]) <= 1

\* A request is answered with a record that descends from the very memories that
\* it named, although its operation id may be another request's too.
AnswersTheRequest ==
  \A r \in Request : \A n \in answer[r] : request[r].src \subseteq line[n]

\* A receipt is found from where its memories are: it is in their workspace, so
\* that a retry after a move is a retry.
ReceiptsFollowMemories ==
  \A x \in receipt : \A m \in {x.result} \cup {s \in Id : claim[s] = [ws |-> x.ws, op |-> x.op]} :
    Present(m) => row[m].ws = x.ws

\* The write of c makes a successor of s.
Makes(c, s) == work[c] # Idle /\ work'[c] = Idle /\ s \in request[work[c].request].src
               /\ made'[s] # made[s]

\* A revision replaces the version that its caller saw, and an approval without
\* replacement_content releases the text that is stored when it commits: what others
\* edit while a command embeds is neither lost nor approved unseen by the command.
NoLostUpdate ==
  [][\A c \in Client, s \in Id : Makes(c, s) =>
       LET q == request[work[c].request] IN
       /\ q.kind = "revise" => <<s, row[s]>> \in q.seen
       /\ q.kind = "approve" => \A n \in made'[s] : row'[n].text = row[s].text]_vars

\* A record is approved because all its sources are, when it is made, or by the
\* approval of a pending record; nothing approved comes from a quarantined one.
TrustIsEarned ==
  [][\A c \in Client, s \in Id : Makes(c, s) =>
       \A n \in made'[s] :
         row'[n].trust = "approved" =>
           row[s].trust \in {"approved"} \cup
             (IF request[work[c].request].kind = "approve" THEN {"pending"} ELSE {})]_vars
==============================================================================
