-------------------------- MODULE MemoryCommandsProofs --------------------------
(* Proofs about MemoryCommands, for any number of memories, workspaces, requests *)
(* and clients, and any number of edits, retirements, erasures and moves.        *)
EXTENDS MemoryCommands, FiniteSetTheorems, WellFoundedInduction, TLAPS

\* Requests that were asked name memories, one unless they merge.
Requests ==
  /\ request \in [Request -> Asked \cup {NoRequest}]
  /\ \A r \in Request : request[r] # NoRequest =>
       /\ request[r].src # {}
       /\ request[r].kind # "merge" => \E s \in Id : request[r].src = {s}

\* What a client has prepared: the sources of an asked request, of one workspace
\* and with the trust that the operation starts from.
Prepared ==
  /\ work \in [Client -> [request : Request, rows : SUBSET (Id \X Row)] \cup {Idle}]
  /\ \A c \in Client : work[c] # Idle =>
       LET q == request[work[c].request] IN
       /\ q # NoRequest
       /\ {x[1] : x \in work[c].rows} = q.src
       /\ \A x, y \in work[c].rows : x[2].ws = y[2].ws
       /\ q.kind = "promote" => \A x \in work[c].rows : x[2].trust = "approved"
       /\ q.kind = "approve" => \A x \in work[c].rows : x[2].trust = "pending"

\* Receipts and claims are rows of their tables, and a receipt's result descends
\* from what its request named.
Tables ==
  /\ \A x \in receipt :
       /\ x = [ws |-> x.ws, op |-> x.op, hash |-> x.hash, result |-> x.result]
       /\ x.hash.request \in Request
       /\ request[x.hash.request] # NoRequest
       /\ request[x.hash.request].src \subseteq line[x.result]
  /\ claim = [s \in Id |-> claim[s]]
  /\ \A s \in Id : \/ claim[s] = NoClaim
                   \/ /\ claim[s] = [ws |-> claim[s].ws, op |-> claim[s].op]
                      /\ claim[s].ws \in Workspace

\* A successor leaves a claim, and there is one for good.
Claimed ==
  \A s \in Id : made[s] = {} \/ (claim[s] # NoClaim /\ \E n \in Id : made[s] = {n})

\* No table knows an id before it is created.
Unborn ==
  \A m \in Fresh : claim[m] = NoClaim /\ \A x \in receipt : x.result # m

Lineage ==
  /\ \A m \in Id : /\ m \in line[m]
                   /\ row[m].approved_from # 0 => row[m].approved_from \in line[m]
  /\ \A r \in Request : request[r] = NoRequest => answer[r] = {}

IInv ==
  /\ TypeOK /\ Requests /\ Prepared /\ Tables /\ Claimed /\ Unborn /\ Lineage
  /\ AnswersTheRequest /\ ReceiptsFollowMemories

------------------------------------------------------------------------------
(* Least and greatest ids. *)

LEMMA SmallestExists ==
  ASSUME NEW S \in SUBSET Nat, S # {}
  PROVE  \E n \in S : \A m \in S : n <= m
<1>1. PICK n \in S : \A m \in S : ~ (<<m, n>> \in OpToRel(<, Nat))
  BY NatLessThanWellFounded, WFMin, Zenon
<1>2. \A m \in S : ~ (m < n)
  BY <1>1 DEF OpToRel
<1> QED BY <1>2

LEMMA LeastId ==
  ASSUME NEW S \in SUBSET Id, S # {}
  PROVE  /\ \E n \in S : \A m \in S : n <= m
         /\ Min(S) \in S
<1>1. S \in SUBSET Nat
  BY CommandsAssumption DEF Id
<1>2. \E n \in S : \A m \in S : n <= m
  BY <1>1, SmallestExists
<1> QED BY <1>1, <1>2 DEF Min

LEMMA GreatestId ==
  ASSUME NEW S \in SUBSET Id, S # {}
  PROVE  Max(S) \in S
<1>1. PICK T : T = {MemoryCount - m : m \in S}
  OBVIOUS
<1>2. \A m \in S : m \in Int /\ MemoryCount - m \in Nat
  BY CommandsAssumption DEF Id
<1>3. T \in SUBSET Nat /\ T # {}
  BY <1>1, <1>2
<1>4. PICK t \in T : \A u \in T : t <= u
  BY <1>3, SmallestExists
<1>5. PICK n \in S : t = MemoryCount - n
  BY <1>1
<1>6. \A m \in S : n >= m
  BY <1>1, <1>2, <1>4, <1>5, CommandsAssumption
<1> QED BY <1>6 DEF Max

------------------------------------------------------------------------------
LEMMA RowFields ==
  ASSUME NEW x \in Row
  PROVE  /\ x.state \in {"none", "live", "retired", "erased"} /\ x.trust \in Trust
         /\ x.ws \in Workspace /\ x.wide \in BOOLEAN /\ x.approved_from \in Id \cup {0}
         /\ x.text \in Nat /\ x.version \in Nat
  BY DEF Row

LEMMA EmptyType ==
  ASSUME NEW w \in Workspace
  PROVE  /\ Empty(w) \in Row
         /\ Empty(w).approved_from = 0 /\ Empty(w).state = "none"
         /\ \A t \in Trust :
              LET x == [Empty(w) EXCEPT !.state = "live", !.trust = t]
              IN x \in Row /\ x.approved_from = 0
         /\ LET x == [Empty(w) EXCEPT !.state = "erased"]
            IN x \in Row /\ x.approved_from = 0 /\ x.state = "erased"
  BY DEF Empty, Row, Trust

\* Closing a record changes its state and its version.
LEMMA CloseIs ==
  ASSUME NEW x \in Row
  PROVE  /\ Close(x) \in Row
         /\ Close(x).ws = x.ws /\ Close(x).approved_from = x.approved_from
         /\ Close(x).trust = x.trust /\ Close(x).text = x.text
         /\ Close(x).state \in {x.state, "retired"}
<1>1. x.version + 1 \in Nat
  BY RowFields
<1>2. ASSUME NEW v \in Nat, NEW s \in {x.state, "retired"}
      PROVE  LET y == [x EXCEPT !.state = s, !.version = v]
             IN /\ y \in Row /\ y.ws = x.ws /\ y.approved_from = x.approved_from
                /\ y.trust = x.trust /\ y.text = x.text /\ y.state = s
  BY RowFields DEF Row
<1> QED BY <1>1, <1>2 DEF Close

LEMMA InitInvariant == Init => IInv
<1> SUFFICES ASSUME Init PROVE IInv
  OBVIOUS
<1>1. PICK w \in Workspace, t \in InitialTrust :
        row = [m \in Id |->
                 IF m \in {1, 2} THEN [Empty(w) EXCEPT !.state = "live", !.trust = t[m]]
                 ELSE Empty(w)]
  BY DEF Init
<1>2. \A m \in {1, 2} : t[m] \in Trust
  BY CommandsAssumption
<1>3. /\ row \in [Id -> Row]
      /\ \A m \in Id : row[m].approved_from = 0
  BY <1>1, <1>2, EmptyType
<1>4. TypeOK
  <2>1. /\ \A s \in Id : claim[s] = NoClaim
        /\ \A c \in Client : work[c] = Idle
        /\ receipt = {} /\ ops = 0
    BY DEF Init
  <2>2. /\ answer \in [Request -> SUBSET Id]
        /\ made \in [Id -> SUBSET Id]
        /\ line \in [Id -> SUBSET Id]
    BY DEF Init
  <2> QED BY <1>3, <2>1, <2>2, CommandsAssumption DEF TypeOK
<1>5. Requests /\ Prepared /\ Tables /\ Claimed /\ Unborn /\ Lineage
  BY <1>3 DEF Init, Requests, Prepared, Tables, Claimed, Unborn, Lineage, Fresh
<1>6. AnswersTheRequest /\ ReceiptsFollowMemories
  BY DEF Init, AnswersTheRequest, ReceiptsFollowMemories
<1> QED BY <1>4, <1>5, <1>6 DEF IInv

------------------------------------------------------------------------------
(* Answers *)

\* Whatever a request is answered with descends from the memories it names.
LEMMA AnswersDescend ==
  ASSUME IInv, NEW r \in Request, request[r] # NoRequest, NEW rows
  PROVE  \A n \in Answers(r, rows) : n \in Id /\ request[r].src \subseteq line[n]
<1>1. \A n \in Replays(r, rows) : n \in Id /\ request[r].src \subseteq line[n]
  <2> SUFFICES ASSUME NEW n \in Replays(r, rows)
               PROVE  n \in Id /\ request[r].src \subseteq line[n]
    OBVIOUS
  <2>1. PICK x \in receipt : x.result = n /\ x.hash = HashOf(r, rows)
    BY DEF Replays, ReceiptsOf, Receipts, SameRequest
  <2>2. x.hash.request = r
    BY <2>1 DEF HashOf
  <2> QED BY <2>1, <2>2 DEF IInv, TypeOK, Tables
<1>2. PICK approvals : approvals = UNION {Approvals(s) : s \in request[r].src}
  OBVIOUS
<1>3. ASSUME request[r].kind = "approve", approvals # {}
      PROVE  Max(approvals) \in Id /\ request[r].src \subseteq line[Max(approvals)]
  <2>1. PICK s \in Id : request[r].src = {s}
    BY <1>3 DEF IInv, Requests
  <2>2. approvals = Approvals(s)
    BY <1>2, <2>1
  <2>3. approvals \in SUBSET Id
    BY <2>2 DEF Approvals
  <2>4. Max(approvals) \in Approvals(s)
    BY <1>3, <2>2, <2>3, GreatestId
  <2>5. s # 0
    BY CommandsAssumption DEF Id
  <2> QED BY <2>1, <2>3, <2>4, <2>5 DEF Approvals, IInv, Lineage
<1> QED BY <1>1, <1>2, <1>3 DEF Answers

\* A step that writes no table: a request, a prepared command, an answer.
LEMMA QuietStep ==
  ASSUME IInv, UNCHANGED <<tables, made, line, ops>>,
         Requests', Prepared', answer' \in [Request -> SUBSET Id],
         \A r \in Request : \/ request'[r] = request[r]
                            \/ request[r] = NoRequest /\ answer'[r] = {},
         \A r \in Request : \A n \in answer'[r] :
            \/ n \in answer[r]
            \/ request[r] # NoRequest /\ request[r].src \subseteq line[n]
  PROVE  IInv'
<1>1. TypeOK'
  <2>1. \A c \in Client : work'[c] # Idle => work'[c].request \in Request
    BY DEF Prepared
  <2> QED BY <2>1 DEF IInv, TypeOK, tables, Receipts
<1>2. Tables'
  BY DEF IInv, TypeOK, Tables, tables
<1>3. Claimed' /\ Unborn' /\ ReceiptsFollowMemories'
  BY DEF IInv, Claimed, Unborn, Fresh, ReceiptsFollowMemories, tables, Present
<1>4. Lineage'
  BY DEF IInv, Lineage, tables
<1>5. AnswersTheRequest'
  BY DEF IInv, Lineage, AnswersTheRequest
<1> QED BY <1>1, <1>2, <1>3, <1>4, <1>5 DEF IInv

LEMMA AskStep ==
  ASSUME IInv, NEW r \in Request, NEW k \in Kind, NEW src \in SUBSET Id, NEW name \in Name,
         Ask(r, k, src, name)
  PROVE  IInv'
<1>1. PICK q : q = [kind |-> k, src |-> src, name |-> name,
                    seen |-> IF k = "revise" THEN {<<s, row[s]>> : s \in src} ELSE {}]
  OBVIOUS
<1>2. q \in Asked /\ q.kind = k /\ q.src = src
  BY <1>1 DEF Asked, IInv, TypeOK
<1>3. IsFiniteSet(src)
  <2>1. IsFiniteSet(1..MemoryCount)
    BY FS_Interval, CommandsAssumption
  <2> QED BY <2>1, FS_Subset DEF Id
<1>4. src # {} /\ (k # "merge" => \E s \in Id : src = {s})
  BY <1>3, FS_EmptySet, FS_Singleton DEF Ask
<1>5. request' = [request EXCEPT ![r] = q] /\ q # NoRequest
  BY <1>1, <1>2 DEF Ask, NoRequest, Kind
<1>6. Requests'
  BY <1>2, <1>4, <1>5 DEF IInv, Requests
<1>7. Prepared'
  BY <1>5 DEF IInv, Requests, Prepared, Ask
<1>8. /\ UNCHANGED <<tables, made, line, ops>>
      /\ answer' = answer /\ answer' \in [Request -> SUBSET Id]
  BY DEF Ask, history, IInv, TypeOK
<1>9. \A t \in Request : \/ request'[t] = request[t]
                         \/ request[t] = NoRequest /\ answer'[t] = {}
  BY <1>5, <1>8 DEF Ask, IInv, Lineage, Requests
<1> QED BY <1>6, <1>7, <1>8, <1>9, QuietStep

LEMMA AnswerRetryStep ==
  ASSUME IInv, NEW r \in Request, AnswerRetry(r)
  PROVE  IInv'
<1>0. UNCHANGED <<tables, made, line, ops>> /\ UNCHANGED <<request, work>>
      /\ request[r] # NoRequest
  BY DEF AnswerRetry
<1>1. PICK n \in Id : Answer(r, n) /\ request[r].src \subseteq line[n]
  <2>1. CASE \E n \in Answers(r, Read(r)) : Answer(r, n)
    BY <1>0, <2>1, AnswersDescend
  <2>2. CASE /\ request[r].kind = "approve"
             /\ \E s \in request[r].src : Present(s) /\ row[s].trust = "approved" /\ Answer(r, s)
    <3>1. PICK s \in Id : request[r].src = {s}
      BY <1>0, <2>2 DEF IInv, Requests
    <3> QED BY <2>2, <3>1 DEF IInv, Lineage
  <2> QED BY <2>1, <2>2 DEF AnswerRetry
<1>2. answer' = [answer EXCEPT ![r] = @ \cup {n}]
  BY <1>1 DEF Answer
<1>3. Requests' /\ Prepared'
  BY <1>0 DEF IInv, Requests, Prepared
<1>4. /\ answer' \in [Request -> SUBSET Id]
      /\ \A t \in Request : \A m \in answer'[t] :
            \/ m \in answer[t]
            \/ request[t] # NoRequest /\ request[t].src \subseteq line[m]
  BY <1>0, <1>1, <1>2 DEF IInv, TypeOK
<1>5. \A t \in Request : \/ request'[t] = request[t]
                         \/ request[t] = NoRequest /\ answer'[t] = {}
  BY <1>0
<1> QED BY <1>0, <1>3, <1>4, <1>5, QuietStep

LEMMA PrepareStep ==
  ASSUME IInv, NEW c \in Client, NEW r \in Request, Prepare(c, r)
  PROVE  IInv'
<1>0. /\ UNCHANGED <<tables, made, line, ops>>
      /\ answer' = answer /\ request' = request
      /\ request[r] # NoRequest
  BY DEF Prepare, history
<1>1. PICK w : w = [request |-> r, rows |-> Read(r)]
  OBVIOUS
<1>2. request[r] \in Asked
  BY <1>0 DEF IInv, Requests
<1>3. Read(r) \in SUBSET (Id \X Row) /\ {x[1] : x \in Read(r)} = request[r].src
  <2>1. request[r].src \in SUBSET Id /\ \A s \in Id : row[s] \in Row
    BY <1>2 DEF Asked, IInv, TypeOK
  <2>2. \A x \in Read(r) : x \in Id \X Row /\ x[1] \in request[r].src
    BY <2>1 DEF Read
  <2>3. \A s \in request[r].src : <<s, row[s]>> \in Read(r) /\ <<s, row[s]>>[1] = s
    BY DEF Read
  <2> QED BY <2>2, <2>3
<1>4. w \in [request : Request, rows : SUBSET (Id \X Row)]
  BY <1>1, <1>3
<1>5. /\ \A x, y \in Read(r) : x[2].ws = y[2].ws
      /\ request[r].kind = "promote" => \A x \in Read(r) : x[2].trust = "approved"
      /\ request[r].kind = "approve" => \A x \in Read(r) : x[2].trust = "pending"
  BY DEF Prepare, MayPrepare, Read
<1>6. work' = [work EXCEPT ![c] = w]
  BY <1>1 DEF Prepare
<1>7. Prepared'
  BY <1>0, <1>1, <1>3, <1>4, <1>5, <1>6 DEF IInv, Prepared
<1>8. Requests'
  BY <1>0 DEF IInv, Requests
<1>9. /\ answer' \in [Request -> SUBSET Id]
      /\ \A t \in Request : \/ request'[t] = request[t]
                            \/ request[t] = NoRequest /\ answer'[t] = {}
      /\ \A t \in Request : \A n \in answer'[t] :
            \/ n \in answer[t]
            \/ request[t] # NoRequest /\ request[t].src \subseteq line[n]
  BY <1>0 DEF IInv, TypeOK
<1> QED BY <1>0, <1>7, <1>8, <1>9, QuietStep

------------------------------------------------------------------------------
(* Edits, retirements and erasures *)

\* A step that only changes records, and neither moves nor creates them.
LEMMA RowStep ==
  ASSUME IInv, UNCHANGED <<receipt, claim, request, work, history>>,
         row' \in [Id -> Row], ops' \in 0..MaxOps,
         \A n \in Id : /\ row'[n].state = "none" => row[n].state = "none"
                       /\ Present(n)' => Present(n) /\ row'[n].ws = row[n].ws
                       /\ row'[n].approved_from \in {0, row[n].approved_from}
  PROVE  IInv'
<1>0. /\ receipt' = receipt /\ claim' = claim /\ request' = request /\ work' = work
      /\ answer' = answer /\ made' = made /\ line' = line
  BY DEF history
<1>1. TypeOK'
  BY <1>0 DEF IInv, TypeOK, Receipts
<1>2. Requests' /\ Prepared' /\ Tables' /\ Claimed' /\ AnswersTheRequest'
  BY <1>0 DEF IInv, Requests, Prepared, Tables, Claimed, AnswersTheRequest
<1>3. Unborn'
  BY <1>0 DEF IInv, Unborn, Fresh
<1>4. Lineage'
  BY <1>0 DEF IInv, Lineage
<1>5. ReceiptsFollowMemories'
  BY <1>0 DEF IInv, TypeOK, ReceiptsFollowMemories
<1> QED BY <1>1, <1>2, <1>3, <1>4, <1>5 DEF IInv

LEMMA OperationType ==
  ASSUME TypeOK, Operation
  PROVE  ops' \in 0..MaxOps
  BY CommandsAssumption DEF TypeOK, Operation

LEMMA EditStep ==
  ASSUME IInv, NEW m \in Id, Edit(m)
  PROVE  IInv'
<1>1. PICK text \in {row[m].text, row[m].text + 1}, t \in Trust :
        row' = [row EXCEPT ![m].text = text, ![m].trust = t, ![m].version = @ + 1]
  BY DEF Edit
<1>2. row[m] \in Row /\ row[m].version + 1 \in Nat /\ text \in Nat
  BY <1>1, RowFields DEF IInv, TypeOK
<1>3. PICK x : x = [row[m] EXCEPT !.text = text, !.trust = t, !.version = @ + 1]
  OBVIOUS
<1>4. /\ x \in Row /\ x.state = row[m].state /\ x.ws = row[m].ws
      /\ x.approved_from = row[m].approved_from
  BY <1>2, <1>3 DEF Row
<1>5. row' = [row EXCEPT ![m] = x]
  BY <1>1, <1>3 DEF IInv, TypeOK
<1>6. /\ row' \in [Id -> Row]
      /\ \A n \in Id : /\ row'[n].state = "none" => row[n].state = "none"
                       /\ Present(n)' => Present(n) /\ row'[n].ws = row[n].ws
                       /\ row'[n].approved_from \in {0, row[n].approved_from}
  BY <1>4, <1>5 DEF IInv, TypeOK, Present
<1>7. ops' \in 0..MaxOps /\ UNCHANGED <<receipt, claim, request, work, history>>
  BY OperationType DEF Edit, IInv
<1> QED BY <1>6, <1>7, RowStep

LEMMA RetireStep ==
  ASSUME IInv, NEW m \in Id, Retire(m)
  PROVE  IInv'
<1>1. row' = [row EXCEPT ![m] = Close(row[m])] /\ row[m] \in Row /\ Present(m)
  BY DEF Retire, IInv, TypeOK
<1>2. /\ row' \in [Id -> Row]
      /\ \A n \in Id : /\ row'[n].state = "none" => row[n].state = "none"
                       /\ Present(n)' => Present(n) /\ row'[n].ws = row[n].ws
                       /\ row'[n].approved_from \in {0, row[n].approved_from}
  BY <1>1, CloseIs DEF IInv, TypeOK, Present
<1>3. ops' \in 0..MaxOps /\ UNCHANGED <<receipt, claim, request, work, history>>
  BY OperationType DEF Retire, IInv
<1> QED BY <1>2, <1>3, RowStep

LEMMA EraseStep ==
  ASSUME IInv, NEW m \in Id, Erase(m)
  PROVE  IInv'
<1>1. PICK x : x = [Empty(row[m].ws) EXCEPT !.state = "erased"]
  OBVIOUS
<1>2. x \in Row /\ x.approved_from = 0 /\ x.state = "erased"
  BY <1>1, EmptyType, RowFields DEF IInv, TypeOK
<1>3. row' = [row EXCEPT ![m] = x]
  BY <1>1 DEF Erase
<1>4. /\ row' \in [Id -> Row]
      /\ \A n \in Id : /\ row'[n].state = "none" => row[n].state = "none"
                       /\ Present(n)' => Present(n) /\ row'[n].ws = row[n].ws
                       /\ row'[n].approved_from \in {0, row[n].approved_from}
  BY <1>2, <1>3 DEF IInv, TypeOK, Present
<1>5. ops' \in 0..MaxOps /\ UNCHANGED <<receipt, claim, request, work, history>>
  BY OperationType DEF Erase, IInv
<1> QED BY <1>4, <1>5, RowStep

------------------------------------------------------------------------------
(* Moves *)

\* A move takes the receipts and the claims of a component along: whatever the
\* component is, the guards of the plan keep the keys of the tables apart.
LEMMA MoveStep ==
  ASSUME IInv, NEW m \in Id, NEW w \in Workspace, Move(m, w)
  PROVE  IInv'
<1> DEFINE Key(x) == [ws |-> x.ws, op |-> x.op]
<1>1. PICK S : S = Component(m)
  OBVIOUS
<1>2. PICK commands : commands = CommandsOf(S)
  OBVIOUS
<1> DEFINE Moved(x) == IF x \in commands THEN [x EXCEPT !.ws = w] ELSE x
<1>3. /\ \A n \in S : Present(n) /\ row[n].ws = row[m].ws
      /\ \A x \in commands :
           /\ x.ws = row[m].ws
           /\ x.result \in S
           /\ \A s \in Id : claim[s] = Key(x) => s \in S
           /\ Receipts(w, x.op) = {}
  BY <1>1, <1>2 DEF Move
<1>a. /\ row' = [n \in Id |-> IF n \in S THEN [row[n] EXCEPT !.ws = w, !.version = @ + 1]
                              ELSE row[n]]
      /\ UNCHANGED <<request, work, history>>
      /\ Operation
  BY <1>1, <1>2 DEF Move
<1>b. receipt' = {Moved(x) : x \in receipt} /\ claim' = ClaimsMove(commands, w)
  BY <1>1, <1>2 DEF Move
<1>4. /\ request' = request /\ work' = work /\ answer' = answer /\ made' = made /\ line' = line
      /\ ops' \in 0..MaxOps
  BY <1>a, OperationType DEF history, IInv
<1>5. /\ row' \in [Id -> Row]
      /\ \A n \in Id : /\ row'[n].state = row[n].state
                       /\ row'[n].approved_from = row[n].approved_from
                       /\ row'[n].ws = IF n \in S THEN w ELSE row[n].ws
  <2> SUFFICES ASSUME NEW n \in Id
               PROVE  /\ row'[n] \in Row /\ row'[n].state = row[n].state
                      /\ row'[n].approved_from = row[n].approved_from
                      /\ row'[n].ws = IF n \in S THEN w ELSE row[n].ws
    BY <1>a
  <2>1. row[n] \in Row /\ row[n].version + 1 \in Nat
    BY RowFields DEF IInv, TypeOK
  <2>2. PICK x : x = [row[n] EXCEPT !.ws = w, !.version = @ + 1]
    OBVIOUS
  <2>3. /\ x \in Row /\ x.state = row[n].state /\ x.approved_from = row[n].approved_from
        /\ x.ws = w
    BY <2>1, <2>2 DEF Row
  <2> QED BY <1>a, <2>1, <2>2, <2>3
<1>6. /\ commands \subseteq receipt
      /\ \A x \in receipt : x \notin commands =>
           x.result \notin S /\ \A s \in S : claim[s] # Key(x)
  BY <1>2 DEF CommandsOf
<1>7. \A x \in receipt :
        /\ Moved(x).ws = (IF x \in commands THEN w ELSE x.ws)
        /\ Moved(x).op = x.op /\ Moved(x).hash = x.hash /\ Moved(x).result = x.result
        /\ Moved(x) = [ws |-> Moved(x).ws, op |-> Moved(x).op, hash |-> Moved(x).hash,
                       result |-> Moved(x).result]
        /\ x.ws \in Workspace /\ x.result \in Id
        /\ Moved(x) \in receipt'
  <2> SUFFICES ASSUME NEW x \in receipt
               PROVE  /\ Moved(x).ws = (IF x \in commands THEN w ELSE x.ws)
                      /\ Moved(x).op = x.op /\ Moved(x).hash = x.hash /\ Moved(x).result = x.result
                      /\ Moved(x) = [ws |-> Moved(x).ws, op |-> Moved(x).op,
                                     hash |-> Moved(x).hash, result |-> Moved(x).result]
    BY <1>b DEF IInv, TypeOK
  <2>1. x = [ws |-> x.ws, op |-> x.op, hash |-> x.hash, result |-> x.result]
    BY DEF IInv, Tables
  <2>2. [x EXCEPT !.ws = w] = [ws |-> w, op |-> x.op, hash |-> x.hash, result |-> x.result]
    BY <2>1
  <2> QED BY <2>1, <2>2
<1> HIDE DEF Moved
<1>8. \A x, y \in receipt : x.ws = y.ws /\ x.op = y.op => x = y
  BY DEF IInv, TypeOK
<1>9. \A x \in commands, y \in receipt : ~ (y.ws = w /\ y.op = x.op)
  BY <1>3 DEF Receipts
<1>10. ASSUME NEW s \in Id, claim[s] # NoClaim
       PROVE  /\ claim[s] = Key(claim[s])
              /\ \E x \in receipt : /\ claim[s] = Key(x)
                                    /\ claim'[s] = Key(Moved(x))
                                    /\ claim'[s].ws = Moved(x).ws
                                    /\ claim'[s].op = Moved(x).op
                                    /\ claim'[s] # NoClaim
  <2>1. claim[s] = Key(claim[s])
    BY <1>10 DEF IInv, Tables
  <2>2. PICK x \in receipt : x.ws = claim[s].ws /\ x.op = claim[s].op
    BY <1>10 DEF IInv, TypeOK, Receipts
  <2>3. claim[s] = Key(x)
    BY <2>1, <2>2
  <2>4. \A y \in receipt : claim[s] = Key(y) => y = x
    BY <1>8, <2>3
  <2>5. [claim[s] EXCEPT !.ws = w] = [ws |-> w, op |-> x.op]
    BY <2>3
  <2>6. claim'[s] = IF \E y \in commands : claim[s] = Key(y)
                    THEN [claim[s] EXCEPT !.ws = w] ELSE claim[s]
    BY <1>b DEF ClaimsMove
  <2>7. ASSUME x \in commands PROVE claim'[s] = Key(Moved(x))
    <3>1. claim'[s] = [ws |-> w, op |-> x.op]
      BY <2>3, <2>5, <2>6, <2>7
    <3>2. Moved(x).ws = w /\ Moved(x).op = x.op
      BY <1>7, <2>7
    <3>3. claim'[s] = Key(Moved(x))
      BY <3>1, <3>2
    <3> QED BY <3>1, <3>3
  <2>8. ASSUME x \notin commands PROVE claim'[s] = Key(Moved(x))
    <3>1. ~ \E y \in commands : claim[s] = Key(y)
      BY <1>6, <2>4, <2>8
    <3>2. claim'[s] = claim[s]
      BY <2>6, <3>1
    <3>3. Moved(x).ws = x.ws /\ Moved(x).op = x.op
      BY <1>7, <2>8
    <3> QED BY <2>3, <3>2, <3>3
  <2>9. Moved(x).ws \in Workspace
    BY <1>7
  <2>10. claim'[s] = Key(Moved(x))
    BY <2>7, <2>8
  <2>11. claim'[s].ws = Moved(x).ws /\ claim'[s].op = Moved(x).op
    BY <2>10
  <2>12. claim'[s] # NoClaim
    BY <2>9, <2>11, CommandsAssumption DEF NoClaim
  <2> QED BY <2>1, <2>3, <2>10, <2>11, <2>12
<1>11. \A s \in Id : claim[s] = NoClaim => claim'[s] = NoClaim
  <2> SUFFICES ASSUME NEW s \in Id, claim[s] = NoClaim
               PROVE  claim'[s] = NoClaim
    OBVIOUS
  <2>1. \A y \in commands : claim[s] # Key(y)
    BY <1>6, <1>7, CommandsAssumption DEF NoClaim
  <2> QED BY <1>b, <2>1 DEF ClaimsMove
<1>12. \A s \in Id : claim[s] # NoClaim => claim'[s] # NoClaim
  BY <1>10
<1>c. \A x, y \in receipt : Moved(x).ws = Moved(y).ws /\ Moved(x).op = Moved(y).op => x = y
  <2> SUFFICES ASSUME NEW x \in receipt, NEW y \in receipt,
                      Moved(x).ws = Moved(y).ws, Moved(x).op = Moved(y).op
               PROVE  x = y
    OBVIOUS
  <2>1. x.op = y.op
    BY <1>7
  <2>2. CASE x \in commands /\ y \in commands
    BY <1>3, <1>8, <2>1, <2>2
  <2>3. CASE x \in commands /\ y \notin commands
    BY <1>7, <1>9, <2>1, <2>3
  <2>4. CASE x \notin commands /\ y \in commands
    BY <1>7, <1>9, <2>1, <2>4
  <2>5. CASE x \notin commands /\ y \notin commands
    BY <1>7, <1>8, <2>1, <2>5
  <2> QED BY <2>2, <2>3, <2>4, <2>5
<1>13. TypeOK'
  <2>1. \A y \in receipt' : y.ws \in Workspace /\ y.result \in Id
    BY <1>b, <1>7
  <2>2. \A y, z \in receipt' : y.ws = z.ws /\ y.op = z.op => y = z
    BY <1>b, <1>c
  <2>3. \A s \in Id : claim'[s] # NoClaim => Receipts(claim[s].ws, claim[s].op)' # {}
    <3> SUFFICES ASSUME NEW s \in Id, claim'[s] # NoClaim
                 PROVE  Receipts(claim[s].ws, claim[s].op)' # {}
      OBVIOUS
    <3>1. PICK x \in receipt : claim'[s].ws = Moved(x).ws /\ claim'[s].op = Moved(x).op
      BY <1>10, <1>11
    <3> QED BY <1>7, <3>1 DEF Receipts
  <2> QED BY <1>4, <1>5, <2>1, <2>2, <2>3 DEF IInv, TypeOK
<1>14. Tables'
  <2>1. \A y \in receipt' :
          /\ y = [ws |-> y.ws, op |-> y.op, hash |-> y.hash, result |-> y.result]
          /\ y.hash.request \in Request
          /\ request[y.hash.request] # NoRequest
          /\ request[y.hash.request].src \subseteq line[y.result]
    BY <1>b, <1>7 DEF IInv, Tables
  <2>2. claim' = [s \in Id |-> claim'[s]]
    BY <1>b DEF ClaimsMove
  <2>3. \A s \in Id : \/ claim'[s] = NoClaim
                      \/ /\ claim'[s] = Key(claim'[s])
                         /\ claim'[s].ws \in Workspace
    <3> SUFFICES ASSUME NEW s \in Id, claim'[s] # NoClaim
                 PROVE  claim'[s] = Key(claim'[s]) /\ claim'[s].ws \in Workspace
      OBVIOUS
    <3>1. PICK x \in receipt : /\ claim'[s] = Key(Moved(x))
                               /\ claim'[s].ws = Moved(x).ws
                               /\ claim'[s].op = Moved(x).op
      BY <1>10, <1>11
    <3>2. Moved(x).ws \in Workspace
      BY <1>7
    <3> QED BY <3>1, <3>2
  <2> QED BY <1>4, <2>1, <2>2, <2>3 DEF Tables
<1>15. Claimed'
  BY <1>4, <1>12 DEF IInv, Claimed
<1>16. Unborn'
  BY <1>b, <1>5, <1>7, <1>11 DEF IInv, Unborn, Fresh
<1>17. Requests' /\ Prepared' /\ Lineage' /\ AnswersTheRequest'
  BY <1>4, <1>5 DEF IInv, Requests, Prepared, Lineage, AnswersTheRequest
<1>18. ReceiptsFollowMemories'
  <2> SUFFICES ASSUME NEW x \in receipt, NEW n \in Id,
                      n = x.result \/ claim'[n] = Key(Moved(x)), Present(n)'
               PROVE  row'[n].ws = Moved(x).ws
    BY <1>b, <1>7 DEF ReceiptsFollowMemories
  <2>1. Present(n)
    BY <1>5 DEF Present
  <2>2. n = x.result \/ claim[n] = Key(x)
    <3> SUFFICES ASSUME claim'[n] = Key(Moved(x))
                 PROVE  claim[n] = Key(x)
      OBVIOUS
    <3>1. claim'[n] # NoClaim
      BY <1>7, CommandsAssumption DEF NoClaim
    <3>2. PICK z \in receipt : claim[n] = Key(z) /\ claim'[n] = Key(Moved(z))
      BY <1>10, <1>11, <3>1
    <3>3. Moved(z).ws = Moved(x).ws /\ Moved(z).op = Moved(x).op
      BY <3>2
    <3>4. z = x
      BY <1>c, <3>3
    <3> QED BY <3>2, <3>4
  <2>3. row[n].ws = x.ws
    BY <2>1, <2>2 DEF IInv, ReceiptsFollowMemories
  <2>4. n \in S <=> x \in commands
    BY <1>3, <1>6, <2>2
  <2> QED BY <1>5, <1>7, <2>3, <2>4
<1> QED BY <1>13, <1>14, <1>15, <1>16, <1>17, <1>18 DEF IInv

------------------------------------------------------------------------------
(* Commits *)

\* The sources of a valid command are live, unclaimed and of one workspace.
LEMMA ValidSources ==
  ASSUME IInv, NEW c \in Client, work[c] # Idle, Valid(work[c].request, work[c].rows)
  PROVE  LET r == work[c].request
             rows == work[c].rows
         IN /\ r \in Request /\ request[r] \in Asked /\ request[r] # NoRequest
            /\ request[r].src \in SUBSET Id /\ request[r].src # {}
            /\ rows \in SUBSET (Id \X Row) /\ rows # {}
            /\ WorkspaceOf(rows) \in Workspace
            /\ \A x \in rows : /\ x[1] \in Id /\ x[2] = row[x[1]] /\ x[1] \in request[r].src
                               /\ x[2].ws = WorkspaceOf(rows)
            /\ \A s \in request[r].src : /\ <<s, row[s]>> \in rows
                                         /\ row[s].state = "live"
                                         /\ row[s].ws = WorkspaceOf(rows)
                                         /\ claim[s] = NoClaim
<1> DEFINE r == work[c].request
           rows == work[c].rows
<1>1. work[c] \in [request : Request, rows : SUBSET (Id \X Row)]
  BY DEF IInv, Prepared
<1>2. r \in Request /\ rows \in SUBSET (Id \X Row)
  BY <1>1
<1>3. /\ request[r] # NoRequest /\ request[r].src # {}
      /\ request[r] \in Asked
  BY <1>2 DEF IInv, Requests, Prepared
<1>4. {x[1] : x \in rows} = request[r].src /\ \A x, y \in rows : x[2].ws = y[2].ws
  BY DEF IInv, Prepared
<1>5. rows # {} /\ request[r].src \in SUBSET Id
  BY <1>3, <1>4 DEF Asked
<1>6. \A x \in rows : x = <<x[1], x[2]>> /\ x[1] \in Id /\ x[2] \in Row
  BY <1>2
<1>7. (CHOOSE x \in rows : TRUE) \in rows
  BY <1>5
<1>8. WorkspaceOf(rows) \in Workspace /\ \A x \in rows : x[2].ws = WorkspaceOf(rows)
  BY <1>4, <1>6, <1>7, RowFields DEF WorkspaceOf
<1>9. \A x \in rows : /\ x[2] = row[x[1]] /\ x[1] \in request[r].src
                      /\ claim[x[1]] = NoClaim /\ x[2].state = "live"
  BY <1>4 DEF Valid, Unchanged
<1>10. \A s \in request[r].src : /\ <<s, row[s]>> \in rows
                                 /\ row[s].state = "live"
                                 /\ row[s].ws = WorkspaceOf(rows)
                                 /\ claim[s] = NoClaim
  <2> SUFFICES ASSUME NEW s \in request[r].src
               PROVE  /\ <<s, row[s]>> \in rows
                      /\ row[s].state = "live"
                      /\ row[s].ws = WorkspaceOf(rows)
                      /\ claim[s] = NoClaim
    OBVIOUS
  <2>1. PICK x \in rows : x[1] = s
    BY <1>4
  <2> QED BY <1>6, <1>8, <1>9, <2>1
<1> QED BY <1>2, <1>3, <1>5, <1>6, <1>8, <1>9, <1>10

\* The commit of c's command as record n, which is new or of that workspace.
Commits(c, n, record, superseded) ==
  LET r == work[c].request
      rows == work[c].rows
  IN /\ work[c] # Idle
     /\ Valid(r, rows)
     /\ Commit(r, rows, n, record, superseded)
     /\ record.state = "live" /\ record.ws = WorkspaceOf(rows)
     /\ n \in Fresh \/ (row[n].state = "live" /\ row[n].ws = WorkspaceOf(rows))
     /\ record.approved_from # 0 => record.approved_from \in line'[n]
     /\ \A m \in superseded : row[m].state = "live"
     /\ work' = [work EXCEPT ![c] = Idle]
     /\ UNCHANGED <<request, ops>>

LEMMA CommitStep ==
  ASSUME IInv, NEW c \in Client, NEW n \in Id, NEW record \in Row,
         NEW superseded \in SUBSET Id, Commits(c, n, record, superseded)
  PROVE  LET src == request[work[c].request].src
         IN /\ IInv'
            /\ \A s \in src : made[s] = {} /\ made'[s] = {n}
            /\ \A s \in Id : s \notin src => made'[s] = made[s]
<1>r. PICK r, rows : r = work[c].request /\ rows = work[c].rows
  OBVIOUS
<1>s. /\ work[c] # Idle
      /\ Valid(r, rows)
      /\ Commit(r, rows, n, record, superseded)
      /\ record.state = "live" /\ record.ws = WorkspaceOf(rows)
      /\ n \in Fresh \/ (row[n].state = "live" /\ row[n].ws = WorkspaceOf(rows))
      /\ record.approved_from # 0 => record.approved_from \in line'[n]
      /\ \A m \in superseded : row[m].state = "live"
      /\ work' = [work EXCEPT ![c] = Idle] /\ UNCHANGED <<request, ops>>
  BY <1>r DEF Commits
<1>t. r \in Request
  BY <1>r, <1>s, ValidSources
<1> USE <1>r, <1>s, <1>t
<1> DEFINE Key(x) == [ws |-> x.ws, op |-> x.op]
<1>1. PICK W, op : W = WorkspaceOf(rows) /\ op = OperationOf(r, rows)
  OBVIOUS
<1>2. PICK z : z = [ws |-> W, op |-> op, hash |-> HashOf(r, rows), result |-> n]
  OBVIOUS
<1>3. z.ws = W /\ z.op = op /\ z.result = n /\ z.hash.request = r
  BY <1>2 DEF HashOf
<1>4. PICK src \in SUBSET Id : src = request[r].src /\ src # {}
  BY ValidSources
<1>5. /\ request[r] # NoRequest /\ W \in Workspace
      /\ \A s \in src : /\ row[s].state = "live" /\ row[s].ws = W
                        /\ claim[s] = NoClaim /\ made[s] = {}
  BY <1>1, <1>4, ValidSources DEF IInv, Claimed
<1>6. \A x \in receipt : ~ (x.ws = W /\ x.op = op)
  BY <1>1 DEF Valid, ReceiptsOf, Receipts
<1>7. PICK closed \in SUBSET Id :
        /\ closed \subseteq src \cup superseded
        /\ row' = [m \in Id |-> IF m = n THEN record
                                ELSE IF m \in closed THEN Close(row[m]) ELSE row[m]]
  BY <1>4 DEF Commit
<1>8. /\ receipt' = receipt \cup {z}
      /\ claim' = [m \in Id |-> IF m \in src THEN Key(z) ELSE claim[m]]
      /\ made' = [m \in Id |-> IF m \in src THEN made[m] \cup {n} ELSE made[m]]
      /\ line' = [line EXCEPT ![n] = @ \cup UNION {line[m] : m \in src \cup superseded}]
      /\ answer' = [answer EXCEPT ![r] = @ \cup {n}]
      /\ request' = request /\ ops' = ops
  BY <1>1, <1>2, <1>3, <1>4 DEF Commit, Claims, Answer
<1>9. /\ row' \in [Id -> Row]
      /\ row'[n] = record
      /\ \A m \in Id \ {n} : /\ row'[m].state # "none" /\ row'[m].state # "erased" =>
                                  row[m].state # "none" /\ row[m].state # "erased"
                             /\ row'[m].state = "none" => row[m].state = "none"
                             /\ row'[m].ws = row[m].ws
                             /\ row'[m].approved_from = row[m].approved_from
  <2>1. \A m \in closed : row[m].state = "live"
    BY <1>5, <1>7
  <2>2. \A m \in Id : /\ row[m] \in Row /\ Close(row[m]) \in Row
                      /\ Close(row[m]).ws = row[m].ws
                      /\ Close(row[m]).approved_from = row[m].approved_from
                      /\ Close(row[m]).state \in {row[m].state, "retired"}
    BY CloseIs DEF IInv, TypeOK
  <2> QED BY <1>7, <2>1, <2>2
<1>10. /\ line' \in [Id -> SUBSET Id]
       /\ \A m \in Id : line[m] \subseteq line'[m]
       /\ src \subseteq line'[n]
  <2>1. line \in [Id -> SUBSET Id] /\ \A m \in Id : m \in line[m]
    BY DEF IInv, TypeOK, Lineage
  <2>2. PICK L : L = line[n] \cup UNION {line[m] : m \in src \cup superseded}
    OBVIOUS
  <2>3. L \in SUBSET Id /\ line[n] \subseteq L /\ src \subseteq L
    BY <2>1, <2>2
  <2>4. line' = [line EXCEPT ![n] = L]
    BY <1>8, <2>2
  <2> QED BY <2>1, <2>3, <2>4
<1>11. \A x \in receipt : x.ws \in Workspace /\ x.result \in Id
  BY DEF IInv, TypeOK
<1>12. Key(z) # NoClaim /\ Key(z).ws = W /\ Key(z).op = op
       /\ \A x \in receipt : Key(x) # NoClaim /\ Key(x) # Key(z)
  <2>1. \A x \in receipt : Key(x).ws = x.ws /\ Key(x).op = x.op
    OBVIOUS
  <2>2. Key(z).ws = W /\ Key(z).op = op
    BY <1>3
  <2>3. NoClaim.ws = "none"
    BY DEF NoClaim
  <2> HIDE DEF Key
  <2> QED BY <1>5, <1>6, <1>11, <2>1, <2>2, <2>3, CommandsAssumption
<1>13. \A s \in Id : claim[s] # Key(z)
  <2> SUFFICES ASSUME NEW s \in Id, claim[s] = Key(z)
               PROVE  FALSE
    OBVIOUS
  <2>1. claim[s] # NoClaim /\ claim[s].ws = W /\ claim[s].op = op
    BY <1>12
  <2> QED BY <1>6, <2>1 DEF IInv, TypeOK, Receipts
<1>14. \A s \in Id : claim'[s] = IF s \in src THEN Key(z) ELSE claim[s]
  BY <1>8
<1>15. Key(z) = [ws |-> W, op |-> op]
  BY <1>3
<1> HIDE DEF Key
<1>16. TypeOK'
  <2>1. \A x \in receipt' : x.ws \in Workspace /\ x.result \in Id
    BY <1>3, <1>5, <1>8, <1>11
  <2>2. \A x, y \in receipt' : x.ws = y.ws /\ x.op = y.op => x = y
    BY <1>3, <1>6, <1>8 DEF IInv, TypeOK
  <2>3. \A s \in Id : claim'[s] # NoClaim => Receipts(claim[s].ws, claim[s].op)' # {}
    <3> SUFFICES ASSUME NEW s \in Id, claim'[s] # NoClaim
                 PROVE  \E x \in receipt' : x.ws = claim'[s].ws /\ x.op = claim'[s].op
      BY DEF Receipts
    <3>1. CASE s \in src
      BY <1>3, <1>8, <1>12, <1>14, <3>1
    <3>2. CASE s \notin src
      BY <1>8, <1>14, <3>2 DEF IInv, TypeOK, Receipts
    <3> QED BY <3>1, <3>2
  <2>4. \A d \in Client : work'[d] # Idle => work'[d].request \in Request
    BY DEF IInv, TypeOK, Prepared
  <2>5. /\ answer' \in [Request -> SUBSET Id]
        /\ made' \in [Id -> SUBSET Id]
        /\ ops' \in 0..MaxOps
    BY <1>8 DEF IInv, TypeOK
  <2> QED BY <1>9, <1>10, <2>1, <2>2, <2>3, <2>4, <2>5 DEF TypeOK
<1>17. Requests' /\ Prepared'
  BY <1>8 DEF IInv, Requests, Prepared
<1>18. Tables'
  <2>1. \A x \in receipt' :
          /\ x = [ws |-> x.ws, op |-> x.op, hash |-> x.hash, result |-> x.result]
          /\ x.hash.request \in Request
          /\ request[x.hash.request] # NoRequest
          /\ request[x.hash.request].src \subseteq line'[x.result]
    <3>1. \A x \in receipt :
          /\ x = [ws |-> x.ws, op |-> x.op, hash |-> x.hash, result |-> x.result]
          /\ x.hash.request \in Request
          /\ request[x.hash.request] # NoRequest
          /\ request[x.hash.request].src \subseteq line'[x.result]
      BY <1>10, <1>11 DEF IInv, Tables
    <3>2. /\ z = [ws |-> z.ws, op |-> z.op, hash |-> z.hash, result |-> z.result]
          /\ z.hash.request \in Request
          /\ request[z.hash.request] # NoRequest
          /\ request[z.hash.request].src \subseteq line'[z.result]
      BY <1>2, <1>3, <1>4, <1>5, <1>10
    <3> QED BY <1>8, <3>1, <3>2
  <2>2. claim' = [s \in Id |-> claim'[s]]
    BY <1>8
  <2>3. \A s \in Id : \/ claim'[s] = NoClaim
                      \/ /\ claim'[s] = [ws |-> claim'[s].ws, op |-> claim'[s].op]
                         /\ claim'[s].ws \in Workspace
    BY <1>5, <1>12, <1>14, <1>15 DEF IInv, Tables
  <2> QED BY <1>8, <2>1, <2>2, <2>3 DEF Tables
<1>19. Claimed'
  BY <1>5, <1>8, <1>12, <1>14 DEF IInv, Claimed
<1>20. Unborn'
  BY <1>3, <1>5, <1>8, <1>9, <1>14 DEF IInv, Unborn, Fresh
<1>21. Lineage'
  BY <1>4, <1>5, <1>8, <1>9, <1>10 DEF IInv, Lineage
<1>22. AnswersTheRequest'
  BY <1>4, <1>8, <1>10 DEF IInv, TypeOK, AnswersTheRequest
<1>23. ReceiptsFollowMemories'
  <2> SUFFICES ASSUME NEW x \in receipt', NEW m \in Id,
                      m = x.result \/ claim'[m] = Key(x), Present(m)'
               PROVE  row'[m].ws = x.ws
    BY <1>3, <1>8, <1>11 DEF ReceiptsFollowMemories, Key
  <2>1. CASE x = z
    <3>1. m = n \/ m \in src
      BY <1>3, <1>13, <1>14, <2>1
    <3> QED BY <1>1, <1>3, <1>5, <1>9, <2>1, <3>1
  <2>2. CASE x \in receipt
    <3>1. m = x.result \/ claim[m] = Key(x)
      BY <1>12, <1>14, <2>2
    <3>2. Present(m) => row[m].ws = x.ws
      BY <2>2, <3>1 DEF IInv, ReceiptsFollowMemories, Key
    <3>3. m \notin Fresh
      BY <1>12, <2>2, <3>1 DEF IInv, Unborn
    <3>4. Present(m)
      <4>1. row[m].state \in {"none", "live", "retired", "erased"}
        BY RowFields DEF IInv, TypeOK
      <4>2. CASE m = n
        BY <3>3, <4>2 DEF Present
      <4>3. CASE m # n
        BY <1>9, <4>1, <4>3 DEF Present
      <4> QED BY <4>2, <4>3
    <3> QED BY <1>1, <1>9, <3>2, <3>3, <3>4
  <2> QED BY <1>8, <2>1, <2>2
<1>24. /\ \A s \in src : made'[s] = {n}
       /\ \A s \in Id : s \notin src => made'[s] = made[s]
  BY <1>5, <1>8
<1> QED BY <1>4, <1>5, <1>16, <1>17, <1>18, <1>19, <1>20, <1>21, <1>22, <1>23, <1>24 DEF IInv

\* What the record of a commit is, whichever way it is made.
LEMMA DerivedIs ==
  ASSUME IInv, NEW c \in Client, work[c] # Idle,
         NEW r \in Request, r = work[c].request, NEW rows, rows = work[c].rows,
         Valid(r, rows), NEW t \in Trust
  PROVE  LET record == Derived(request[r].kind, rows, t)
         IN /\ record \in Row /\ record.state = "live" /\ record.trust = t
            /\ record.ws = WorkspaceOf(rows)
            /\ record.approved_from # 0 =>
                 record.approved_from \in UNION {line[s] : s \in request[r].src}
            /\ request[r].kind = "approve" =>
                 \A s \in request[r].src : record.text = row[s].text
<1> DEFINE k == request[r].kind
<1>1. /\ rows \in SUBSET (Id \X Row) /\ rows # {}
      /\ \A x \in rows : /\ x[1] \in Id /\ x[2] = row[x[1]] /\ x[1] \in request[r].src
                         /\ x[2].ws = WorkspaceOf(rows)
      /\ WorkspaceOf(rows) \in Workspace
      /\ \A s \in request[r].src : <<s, row[s]>> \in rows
  BY ValidSources
<1>2. PICK ids : ids = {x[1] : x \in rows}
  OBVIOUS
<1>3. ids \in SUBSET Id /\ ids # {}
  BY <1>1, <1>2
<1>4. PICK n \in ids : \A m \in ids : n <= m
  BY <1>3, LeastId
<1>5. \E x \in rows : \A y \in rows : x[1] <= y[1]
  BY <1>2, <1>4
<1>6. PICK first : first = (CHOOSE x \in rows : \A y \in rows : x[1] <= y[1])
  OBVIOUS
<1>7. first \in rows
  BY <1>5, <1>6
<1>8. PICK s \in Id, x \in Row : /\ s = first[1] /\ x = first[2] /\ x = row[s]
                                 /\ s \in request[r].src /\ x.ws = WorkspaceOf(rows)
  BY <1>1, <1>7
<1>9. PICK from \in Id \cup {0} :
        /\ from = (IF k = "approve" THEN s ELSE IF k = "merge" THEN 0 ELSE x.approved_from)
        /\ from # 0 => from \in line[s]
  BY <1>8, RowFields DEF IInv, Lineage
<1>10. PICK text \in Nat : text = (IF k \in {"approve", "promote"} THEN x.text ELSE 0)
  BY RowFields
<1>11. PICK wide \in BOOLEAN : wide = (first[2].wide \/ k = "promote")
  OBVIOUS
<1>12. Derived(k, rows, t) =
         [state |-> "live", trust |-> t, ws |-> x.ws, wide |-> wide,
          approved_from |-> from, text |-> text, version |-> 1]
  <2>1. Derived(k, rows, t) =
         [state |-> "live", trust |-> t, ws |-> first[2].ws,
          wide |-> first[2].wide \/ k = "promote",
          approved_from |-> IF k = "approve" THEN first[1]
                            ELSE IF k = "merge" THEN 0 ELSE first[2].approved_from,
          text |-> IF k \in {"approve", "promote"} THEN first[2].text ELSE 0,
          version |-> 1]
    BY <1>6 DEF Derived
  <2> QED BY <1>8, <1>9, <1>10, <1>11, <2>1, Zenon
<1>13. ASSUME k = "approve", NEW u \in request[r].src
       PROVE  u = s
  BY <1>8, <1>13, ValidSources DEF IInv, Requests
<1> HIDE DEF k
<1>14. PICK record : record = Derived(k, rows, t)
  OBVIOUS
<1>15. /\ record \in Row /\ record.state = "live" /\ record.trust = t /\ record.ws = x.ws
       /\ record.approved_from = from /\ record.text = text
  BY <1>1, <1>8, <1>12, <1>14 DEF Row
<1>16. record.approved_from # 0 =>
         record.approved_from \in UNION {line[u] : u \in request[r].src}
  BY <1>8, <1>9, <1>15
<1>17. k = "approve" => \A u \in request[r].src : record.text = row[u].text
  BY <1>8, <1>10, <1>13, <1>15
<1> QED BY <1>8, <1>14, <1>15, <1>16, <1>17 DEF k

\* A commit makes one successor of every source, a record with the trust and,
\* after an approval, with the text that the operation promises.
LEMMA WriteCommits ==
  ASSUME IInv, NEW c \in Client, Write(c), Valid(work[c].request, work[c].rows)
  PROVE  LET r == work[c].request
             rows == work[c].rows
             k == request[r].kind
         IN /\ IInv'
            /\ \A s \in Id : s \notin request[r].src => made'[s] = made[s]
            /\ \E n \in Id :
                 /\ \A s \in request[r].src : made[s] = {} /\ made'[s] = {n}
                 /\ row'[n].trust \in DerivedTrust(k, rows)
                 /\ k = "approve" => \A s \in request[r].src : row'[n].text = row[s].text
<1>1. PICK r, rows : r = work[c].request /\ rows = work[c].rows
  OBVIOUS
<1>2. /\ work[c] # Idle /\ Valid(r, rows)
      /\ work' = [work EXCEPT ![c] = Idle] /\ UNCHANGED <<request, ops>>
      /\ Add(r, rows) \/ Deduplicate(r, rows)
  BY <1>1 DEF Write
<1>3. r \in Request /\ request[r].src \in SUBSET Id /\ request[r].src # {}
  BY <1>1, <1>2, ValidSources
<1> DEFINE Done ==
      /\ IInv'
      /\ \A s \in Id : s \notin request[r].src => made'[s] = made[s]
      /\ \E n \in Id :
           /\ \A s \in request[r].src : made[s] = {} /\ made'[s] = {n}
           /\ row'[n].trust \in DerivedTrust(request[r].kind, rows)
           /\ request[r].kind = "approve" =>
                \A s \in request[r].src : row'[n].text = row[s].text
<1>4. \A m \in Wider(rows) : /\ m \in Id /\ row[m].state = "live" /\ row[m].trust = "approved"
                             /\ row[m].ws = WorkspaceOf(rows)
  BY DEF Wider
<1>5. line \in [Id -> SUBSET Id] /\ row \in [Id -> Row]
  BY DEF IInv, TypeOK
<1>6. ASSUME Add(r, rows) PROVE Done
  <2>1. PICK t \in DerivedTrust(request[r].kind, rows) :
          /\ Fresh # {}
          /\ \E superseded \in {{}} \cup (IF request[r].kind = "promote"
                                          THEN {{m} : m \in Wider(rows)} ELSE {}) :
               Commit(r, rows, Min(Fresh), Derived(request[r].kind, rows, t), superseded)
    BY <1>6 DEF Add
  <2>2. PICK superseded \in SUBSET Id :
          /\ Commit(r, rows, Min(Fresh), Derived(request[r].kind, rows, t), superseded)
          /\ \A m \in superseded : row[m].state = "live"
    BY <1>4, <2>1
  <2>3. PICK n \in Id : n = Min(Fresh) /\ n \in Fresh
    <3>1. Fresh \in SUBSET Id
      BY DEF Fresh
    <3> QED BY <2>1, <3>1, LeastId
  <2>4. t \in Trust
    BY <2>1 DEF DerivedTrust, Trust
  <2>5. PICK record : record = Derived(request[r].kind, rows, t)
    OBVIOUS
  <2>6. /\ record \in Row /\ record.state = "live" /\ record.trust = t
        /\ record.ws = WorkspaceOf(rows)
        /\ record.approved_from # 0 =>
             record.approved_from \in UNION {line[s] : s \in request[r].src}
        /\ request[r].kind = "approve" =>
             \A s \in request[r].src : record.text = row[s].text
    BY <1>1, <1>2, <1>3, <2>4, <2>5, DerivedIs
  <2>7. Commit(r, rows, n, record, superseded)
    BY <2>2, <2>3, <2>5
  <2>8. line' = [line EXCEPT ![n] = @ \cup UNION {line[m] : m \in request[r].src \cup superseded}]
        /\ row'[n] = record
    BY <2>7 DEF Commit
  <2>9. record.approved_from # 0 => record.approved_from \in line'[n]
    BY <1>5, <2>6, <2>8
  <2>10. /\ IInv'
         /\ \A s \in request[r].src : made[s] = {} /\ made'[s] = {n}
         /\ \A s \in Id : s \notin request[r].src => made'[s] = made[s]
    <3>1. /\ record \in Row /\ record.state = "live" /\ record.ws = WorkspaceOf(rows)
          /\ n \in Fresh \/ (row[n].state = "live" /\ row[n].ws = WorkspaceOf(rows))
          /\ \A m \in superseded : row[m].state = "live"
      BY <2>2, <2>3, <2>6
    <3>2. Commits(c, n, record, superseded)
      BY <1>1, <1>2, <2>7, <2>9, <3>1 DEF Commits
    <3> QED BY <1>1, <3>1, <3>2, CommitStep
  <2> QED BY <2>1, <2>6, <2>8, <2>10
<1>7. ASSUME Deduplicate(r, rows) PROVE Done
  <2>1. PICK n \in Wider(rows) : Commit(r, rows, n, [row[n] EXCEPT !.version = @ + 1], {})
    BY <1>7 DEF Deduplicate
  <2>2. PICK record : record = [row[n] EXCEPT !.version = @ + 1]
    OBVIOUS
  <2>3. n \in Id /\ row[n] \in Row /\ row[n].version + 1 \in Nat
    BY <1>4, <1>5, <2>1, RowFields
  <2>4. /\ record \in Row /\ record.state = row[n].state /\ record.trust = row[n].trust
        /\ record.ws = row[n].ws /\ record.approved_from = row[n].approved_from
    BY <2>2, <2>3 DEF Row
  <2>5. Commit(r, rows, n, record, {}) /\ request[r].kind = "promote"
    BY <1>7, <2>1, <2>2 DEF Deduplicate
  <2>6. line' = [line EXCEPT ![n] = @ \cup UNION {line[m] : m \in request[r].src \cup {}}]
        /\ row'[n] = record
    BY <2>3, <2>5 DEF Commit
  <2>7. record.approved_from # 0 => record.approved_from \in line'[n]
    BY <1>5, <2>3, <2>4, <2>6 DEF IInv, Lineage
  <2>8. /\ IInv'
        /\ \A s \in request[r].src : made[s] = {} /\ made'[s] = {n}
        /\ \A s \in Id : s \notin request[r].src => made'[s] = made[s]
    <3>1. /\ record.state = "live" /\ record.ws = WorkspaceOf(rows)
          /\ n \in Fresh \/ (row[n].state = "live" /\ row[n].ws = WorkspaceOf(rows))
          /\ {} \in SUBSET Id /\ \A m \in {} : row[m].state = "live"
      BY <1>4, <2>1, <2>4
    <3>2. n \in Id /\ record \in Row /\ Commit(r, rows, n, record, {})
      BY <2>3, <2>4, <2>5
    <3>3. Commits(c, n, record, {})
      BY <1>1, <1>2, <2>7, <3>1, <3>2 DEF Commits
    <3> QED BY <1>1, <3>1, <3>2, <3>3, CommitStep
  <2>9. row'[n].trust \in DerivedTrust(request[r].kind, rows)
    BY <1>4, <2>1, <2>4, <2>5, <2>6 DEF DerivedTrust
  <2> QED BY <2>3, <2>5, <2>8, <2>9
<1> QED BY <1>1, <1>2, <1>6, <1>7

\* A write that does not commit is an answer, or none.
LEMMA WriteAnswers ==
  ASSUME IInv, NEW c \in Client, Write(c), ~ Valid(work[c].request, work[c].rows)
  PROVE  IInv' /\ made' = made
<1>1. PICK r, rows : r = work[c].request /\ rows = work[c].rows
  OBVIOUS
<1>2. /\ work[c] # Idle
      /\ UNCHANGED <<tables, made, line, ops>> /\ request' = request
      /\ (\E n \in Answers(r, rows) : Answer(r, n)) \/ answer' = answer
      /\ work' = [work EXCEPT ![c] = Idle]
  BY <1>1 DEF Write
<1>3. r \in Request /\ request[r] # NoRequest
  <2>1. work[c] \in [request : Request, rows : SUBSET (Id \X Row)]
    BY <1>2 DEF IInv, Prepared
  <2> QED BY <1>1, <1>2, <2>1 DEF IInv, Prepared
<1>4. Requests' /\ Prepared'
  BY <1>2 DEF IInv, Requests, Prepared
<1>5. /\ answer' \in [Request -> SUBSET Id]
      /\ \A t \in Request : \A m \in answer'[t] :
            \/ m \in answer[t]
            \/ request[t] # NoRequest /\ request[t].src \subseteq line[m]
  <2>1. CASE answer' = answer
    BY <2>1 DEF IInv, TypeOK
  <2>2. ASSUME NEW n \in Answers(r, rows), Answer(r, n)
        PROVE  /\ answer' \in [Request -> SUBSET Id]
               /\ \A t \in Request : \A m \in answer'[t] :
                     \/ m \in answer[t]
                     \/ request[t] # NoRequest /\ request[t].src \subseteq line[m]
    <3>1. n \in Id /\ request[r].src \subseteq line[n]
      BY <1>3, <2>2, AnswersDescend
    <3> QED BY <1>3, <2>2, <3>1 DEF Answer, IInv, TypeOK
  <2> QED BY <1>2, <2>1, <2>2
<1>6. \A t \in Request : \/ request'[t] = request[t]
                         \/ request[t] = NoRequest /\ answer'[t] = {}
  BY <1>2
<1> QED BY <1>2, <1>4, <1>5, <1>6, QuietStep

LEMMA StepInvariant == IInv /\ [Next]_vars => IInv'
<1> SUFFICES ASSUME IInv, [Next]_vars PROVE IInv'
  OBVIOUS
<1>1. CASE \E r \in Request, k \in Kind, src \in SUBSET Id, name \in Name : Ask(r, k, src, name)
  BY <1>1, AskStep
<1>2. CASE \E r \in Request : AnswerRetry(r)
  BY <1>2, AnswerRetryStep
<1>3. CASE \E c \in Client, r \in Request : Prepare(c, r)
  BY <1>3, PrepareStep
<1>4. CASE \E c \in Client : Write(c)
  BY <1>4, WriteCommits, WriteAnswers
<1>5. CASE \E m \in Id : Edit(m) \/ Retire(m) \/ Erase(m) \/ \E w \in Workspace : Move(m, w)
  BY <1>5, EditStep, RetireStep, EraseStep, MoveStep
<1>6. CASE UNCHANGED vars
  <2>1. /\ UNCHANGED <<tables, made, line, ops>>
        /\ request' = request /\ work' = work /\ answer' = answer
    BY <1>6 DEF vars, history
  <2>2. Requests' /\ Prepared' /\ answer' \in [Request -> SUBSET Id]
    BY <2>1 DEF IInv, Requests, Prepared, TypeOK
  <2> QED BY <2>1, <2>2, QuietStep
<1> QED BY <1>1, <1>2, <1>3, <1>4, <1>5, <1>6 DEF Next

LEMMA Invariance == Spec => []IInv
<1> QED BY InitInvariant, StepInvariant, PTL DEF Spec

------------------------------------------------------------------------------
\* The tables keep the keys that the schema declares, whatever the operations do:
\* one receipt per workspace and operation id, and every claim has its receipt.
THEOREM CommandsTypeCorrect == Spec => []TypeOK
<1>1. IInv => TypeOK
  BY DEF IInv
<1> QED BY <1>1, Invariance, PTL

\* No memory ever has two successors (MemoryCommand.validate and complete): the
\* claim that the first leaves outlives retirements, erasures and moves.
THEOREM NoSecondSuccessor == Spec => []OneSuccessor
<1>1. IInv => OneSuccessor
  <2> SUFFICES ASSUME IInv, NEW s \in Id
               PROVE  Cardinality(made[s]) <= 1
    BY DEF OneSuccessor
  <2>1. CASE made[s] = {}
    BY <2>1, FS_EmptySet
  <2>2. CASE \E n \in Id : made[s] = {n}
    BY <2>2, FS_Singleton
  <2> QED BY <2>1, <2>2 DEF IInv, Claimed
<1> QED BY <1>1, Invariance, PTL

\* Answers descend from what the request names, although operation ids collide
\* and retries are answered from receipts (MemoryCommand.replay, approval_replay).
THEOREM AnswersAreRelated == Spec => []AnswersTheRequest
<1>1. IInv => AnswersTheRequest
  BY DEF IInv
<1> QED BY <1>1, Invariance, PTL

\* Receipts are in the workspace of their memories after any number of moves
\* (move_memories moves the commands of the component).
THEOREM ReceiptsAreFound == Spec => []ReceiptsFollowMemories
<1>1. IInv => ReceiptsFollowMemories
  BY DEF IInv
<1> QED BY <1>1, Invariance, PTL

\* The steps that make a successor: a valid write, of an unchanged source.
LEMMA MakesIsCommit ==
  ASSUME IInv, Next, NEW c \in Client, NEW s \in Id, Makes(c, s)
  PROVE  /\ Write(c) /\ work[c] # Idle /\ Valid(work[c].request, work[c].rows)
         /\ <<s, row[s]>> \in work[c].rows
<1>1. work[c] # Idle /\ work'[c] = Idle /\ s \in request[work[c].request].src /\ made'[s] # made[s]
  BY DEF Makes
<1>2. work'[c] # work[c] /\ made' # made
  BY <1>1
<1>3. ~ \E r \in Request, k \in Kind, src \in SUBSET Id, name \in Name : Ask(r, k, src, name)
  BY <1>2 DEF Ask
<1>4. ~ \E r \in Request : AnswerRetry(r)
  BY <1>2 DEF AnswerRetry
<1>5. ~ \E d \in Client, r \in Request : Prepare(d, r)
  BY <1>2 DEF Prepare, history
<1>6. ~ \E m \in Id : Edit(m) \/ Retire(m) \/ Erase(m) \/ \E w \in Workspace : Move(m, w)
  BY <1>2 DEF Edit, Retire, Erase, Move, history
<1>7. PICK d \in Client : Write(d)
  BY <1>3, <1>4, <1>5, <1>6 DEF Next
<1>8. work' = [work EXCEPT ![d] = Idle]
  BY <1>7 DEF Write
<1>9. c = d
  BY <1>2, <1>8 DEF IInv, Prepared
<1>10. Valid(work[c].request, work[c].rows)
  BY <1>2, <1>7, <1>9, WriteAnswers
<1>11. <<s, row[s]>> \in work[c].rows
  BY <1>1, <1>10, ValidSources
<1> QED BY <1>1, <1>7, <1>9, <1>10, <1>11

\* A revision replaces the version that its caller saw, and an approval the text
\* that is stored when it commits (MemoryCommand.validate under the writer).
THEOREM UpdatesAreNotLost == Spec => NoLostUpdate
<1> DEFINE Step == \A c \in Client, s \in Id : Makes(c, s) =>
             LET q == request[work[c].request] IN
             /\ q.kind = "revise" => <<s, row[s]>> \in q.seen
             /\ q.kind = "approve" => \A n \in made'[s] : row'[n].text = row[s].text
<1>1. IInv /\ [Next]_vars => [Step]_vars
  <2> SUFFICES ASSUME IInv, Next, NEW c \in Client, NEW s \in Id, Makes(c, s)
               PROVE  LET q == request[work[c].request] IN
                      /\ q.kind = "revise" => <<s, row[s]>> \in q.seen
                      /\ q.kind = "approve" => \A n \in made'[s] : row'[n].text = row[s].text
    OBVIOUS
  <2>1. /\ Write(c) /\ Valid(work[c].request, work[c].rows)
        /\ <<s, row[s]>> \in work[c].rows
    BY MakesIsCommit
  <2>2. request[work[c].request].kind = "revise" => <<s, row[s]>> \in request[work[c].request].seen
    BY <2>1 DEF Valid
  <2>3. s \in request[work[c].request].src
    BY DEF Makes
  <2>4. PICK n \in Id :
          /\ \A t \in request[work[c].request].src : made'[t] = {n}
          /\ request[work[c].request].kind = "approve" =>
               \A t \in request[work[c].request].src : row'[n].text = row[t].text
    BY <2>1, WriteCommits
  <2> QED BY <2>2, <2>3, <2>4
<1> QED BY <1>1, Invariance, PTL DEF Spec, NoLostUpdate

\* A record is approved when all its sources are, or by the approval of a pending
\* one; nothing that comes from a quarantined memory is (derived review states).
THEOREM ApprovalIsEarned == Spec => TrustIsEarned
<1> DEFINE Step == \A c \in Client, s \in Id : Makes(c, s) =>
             \A n \in made'[s] :
               row'[n].trust = "approved" =>
                 row[s].trust \in {"approved"} \cup
                   (IF request[work[c].request].kind = "approve" THEN {"pending"} ELSE {})
<1>1. IInv /\ [Next]_vars => [Step]_vars
  <2> SUFFICES ASSUME IInv, Next, NEW c \in Client, NEW s \in Id, Makes(c, s),
                      NEW n \in made'[s], row'[n].trust = "approved"
               PROVE  row[s].trust \in {"approved"} \cup
                        (IF request[work[c].request].kind = "approve" THEN {"pending"} ELSE {})
    OBVIOUS
  <2>1. /\ Write(c) /\ work[c] # Idle /\ Valid(work[c].request, work[c].rows)
        /\ <<s, row[s]>> \in work[c].rows
    BY MakesIsCommit
  <2>2. PICK rows, k : rows = work[c].rows /\ k = request[work[c].request].kind
    OBVIOUS
  <2>3. s \in request[work[c].request].src
    BY DEF Makes
  <2>4. row'[n].trust \in DerivedTrust(k, rows)
    BY <2>1, <2>2, <2>3, WriteCommits
  <2>5. /\ k = "promote" => \A x \in rows : x[2].trust = "approved"
        /\ k = "approve" => \A x \in rows : x[2].trust = "pending"
    BY <2>1, <2>2 DEF IInv, Prepared
  <2>6. PICK x \in rows : x[2] = row[s]
    BY <2>1, <2>2
  <2>7. CASE k = "approve"
    BY <2>2, <2>5, <2>6, <2>7
  <2>8. CASE k = "promote"
    BY <2>2, <2>5, <2>6, <2>8
  <2>9. CASE k \notin {"approve", "promote"}
    <3>1. \A y \in rows : y[2].trust = "approved"
      BY <2>4, <2>9 DEF DerivedTrust
    <3> QED BY <2>6, <3>1
  <2> QED BY <2>7, <2>8, <2>9
<1> QED BY <1>1, Invariance, PTL DEF Spec, TrustIsEarned

==============================================================================
