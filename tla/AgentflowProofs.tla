--------------------------- MODULE AgentflowProofs ---------------------------
(***************************************************************************)
(* What TLAPS proves of Agentflow, for every flow, every number of         *)
(* requests and every value of the bounds.                                 *)
(***************************************************************************)
EXTENDS Agentflow, FiniteSetTheorems, TLAPS

----------------------------------------------------------------------------
(***************************************************************************)
(* Lemmas about logs and flows                                             *)
(***************************************************************************)
\* A push keeps the log's type.
LEMMA PushType ==
    ASSUME NEW V, NEW log \in Logs(V), NEW v \in V
    PROVE  Push(log, v) \in Logs(V)
BY DEF Push, Logs, Items

\* So does a removal.
LEMMA WithoutType ==
    ASSUME NEW V, NEW log \in Logs(V), NEW gone
    PROVE  Without(log, gone) \in Logs(V)
BY DEF Without, Logs

LEMMA EmptyLogType == ASSUME NEW V PROVE EmptyLog \in Logs(V)
BY DEF EmptyLog, Logs

\* The edges are what the assumption says, at every index.
LEMMA EdgeType ==
    ASSUME NEW i \in DOMAIN Edges
    PROVE  Edges[i].source \in Nodes /\ Edges[i].target \in Nodes
           /\ Edges[i].handle \in Nat
<1>1. Edges[i] \in Edge BY FlowAssumption DEF FlowAssumption
<1> QED BY <1>1 DEF Edge

LEMMA StartType == Start \in Nodes
BY StartAssumption DEF Start, StartNodes, StartAssumption

LEMMA StartTaskType ==
    ASSUME NEW n \in Nodes PROVE StartTask(n) \in Logs(Task)
<1>1. [node |-> n, inputs |-> {}] \in Task BY DEF Task
<1> QED BY <1>1, PushType, EmptyLogType DEF StartTask

LEMMA AbsentType == Absent \in Record
BY EmptyLogType DEF Absent, Record

LEMMA FreshType == Fresh \in Run
BY EmptyLogType, AbsentType DEF Fresh, Run, Phases, NoRecord

\* A branch is the index of an output, or none.
LEMMA BranchType == AllBranches \subseteq Nat \cup {NoBranch}
<1>1. ASSUME NEW n \in Nodes PROVE Handles[n] \subseteq Nat
  BY EdgeType DEF Handles, OutEdges
<1>2. ASSUME NEW n \in Nodes PROVE Branches[n] \subseteq Nat
  BY <1>1 DEF Branches
<1> QED BY <1>2 DEF AllBranches

\* What a node hands on are edges of the flow.
LEMMA DeliveredType ==
    ASSUME NEW n \in Nodes, NEW branch
    PROVE  Delivered(n, branch) \subseteq DOMAIN Edges
BY DEF Delivered, OutEdges
----------------------------------------------------------------------------
(***************************************************************************)
(* Type correctness                                                        *)
(***************************************************************************)
\* What makes the type invariant inductive: a request that executes a node has
\* one, also while it saves a row in between, and one that runs an item of an
\* iteration still counts it.
BusyRun(x) ==
    /\ x.pc \in {"exec", "iterate", "item"} => x.current \in Nodes
    /\ x.pc = "saving" /\ x.then = "iterate" => x.current \in Nodes
    /\ x.pc = "item" => x.left > 0

Busy == \A r \in Requests : BusyRun(run[r])

TypeInv == TypeOK /\ Busy

LEMMA ReceivedType ==
    ASSUME NEW n \in Nodes, NEW out \in SUBSET (DOMAIN Edges),
           NEW waiting \in [Nodes -> SUBSET Nodes], NEW i \in out
    PROVE  ReceivedAlong(i, n, out, waiting) \in SUBSET Nodes
BY EdgeType DEF ReceivedAlong

\* Feeding the children keeps the queue and the waiting nodes what they are.
LEMMA FedType ==
    ASSUME NEW queue \in Logs(Task), NEW waiting \in [Nodes -> SUBSET Nodes],
           NEW n \in Nodes, NEW branch
    PROVE  LET fed == FeedChildren(queue, waiting, n, branch) IN
           fed.queue \in Logs(Task) /\ fed.waiting \in [Nodes -> SUBSET Nodes]
<1> DEFINE out == Delivered(n, branch)
           Got(i) == ReceivedAlong(i, n, out, waiting)
<1>1. out \subseteq DOMAIN Edges BY DeliveredType
<1>2. ASSUME NEW i \in out PROVE Got(i) \in SUBSET Nodes
  BY <1>1, ReceivedType
<1>3. DOMAIN Edges = 1 .. Len(Edges) /\ Len(Edges) \in Nat
  BY FlowAssumption DEF FlowAssumption
<1>4. ASSUME NEW i \in out
      PROVE  [at |-> queue.next + i - 1,
              val |-> [node |-> Edges[i].target, inputs |-> Got(i)]] \in Items(Task)
  <2>1. Edges[i].target \in Nodes BY <1>1, EdgeType
  <2>2. [node |-> Edges[i].target, inputs |-> Got(i)] \in Task
    BY <2>1, <1>2 DEF Task
  <2>3. queue.next \in Nat /\ i \in Nat /\ i >= 1 BY <1>1, <1>3 DEF Logs
  <2>4. queue.next + i - 1 \in Nat BY <2>3
  <2> QED BY <2>2, <2>4 DEF Items
<1> HIDE DEF out, Got
<1>5. queue.next + Len(Edges) \in Nat /\ queue.items \subseteq Items(Task)
  BY <1>3 DEF Logs
<1>6. FeedChildren(queue, waiting, n, branch).queue \in Logs(Task)
  BY <1>4, <1>5 DEF FeedChildren, Logs, out, Got
<1>7. FeedChildren(queue, waiting, n, branch).waiting \in [Nodes -> SUBSET Nodes]
  BY <1>2 DEF FeedChildren, out, Got
<1> QED BY <1>6, <1>7

LEMMA DataBeforeType ==
    ASSUME TypeOK, NEW r \in Requests
    PROVE  DataBefore(r) \in Logs(Entry)
BY WithoutType DEF DataBefore, TypeOK, Run

LEMMA FinalStateType ==
    ASSUME NEW data
    PROVE  FinalState(data) \in {"FINISHED", "STOPPED", "ERROR", "TERMINATED"}
BY DEF FinalState

LEMMA TypeInit == Init => TypeInv
BY FreshType, EmptyLogType, BoundsAssumption
   DEF Init, TypeInv, TypeOK, Busy, BusyRun, Absent, Record, Fresh, BoundsAssumption

\* A step of one request keeps the types if what it becomes has its type.
LEMMA OneRun ==
    ASSUME TypeInv, NEW r \in Requests, NEW x \in Run, BusyRun(x),
           run' = [run EXCEPT ![r] = x]
    PROVE  run' \in [Requests -> Run] /\ Busy'
BY DEF TypeInv, TypeOK, Busy

Targets == {"claiming", "loop", "iterate", "done"}

\* Looking for a row keeps the types: every update of a record begins with it.
LEMMA FoundRowType ==
    ASSUME TypeInv, NEW r \in Requests, NEW x \in Run, NEW row \in Record,
           NEW then \in Targets, NEW missing \in {"rejected", "iterate"},
           then = "iterate" \/ missing = "iterate" => x.current \in Nodes,
           FoundRow(r, x, row, then, missing)
    PROVE  TypeInv'
<1> DEFINE y == IF Exists(run[r].rec)
                THEN [x EXCEPT !.pc = "saving", !.row = row, !.then = then]
                ELSE [x EXCEPT !.pc = missing]
<1>1. y \in Run BY DEF Run, Phases, Targets
<1>2. BusyRun(y) BY DEF BusyRun, Run
<1>3. run' = [run EXCEPT ![r] = y] BY DEF FoundRow
<1> HIDE DEF y
<1> QED BY <1>1, <1>2, <1>3, OneRun DEF FoundRow, TypeInv, TypeOK

LEMMA SaveRowType ==
    ASSUME TypeInv, NEW r \in Requests, SaveRow(r) PROVE TypeInv'
<1> DEFINE x == [run[r] EXCEPT !.pc = run[r].then, !.row = Absent]
<1>1. run[r] \in Run /\ BusyRun(run[r]) BY DEF TypeInv, TypeOK, Busy
<1>2. x \in Run BY <1>1, AbsentType DEF Run, Phases
<1>3. BusyRun(x) BY <1>1 DEF BusyRun, SaveRow, Run
<1>4. run' = [run EXCEPT ![r] = x] BY DEF SaveRow
<1>5. run[r].row \in Record BY <1>1 DEF Run
<1>6. records' \in [RecordIds -> Record] BY <1>5 DEF SaveRow, TypeInv, TypeOK
<1> HIDE DEF x
<1> QED BY <1>2, <1>3, <1>4, <1>6, OneRun DEF SaveRow, TypeInv, TypeOK

\* Writing an outcome keeps the types: the end of every run goes through it.
LEMMA WriteOutcomeType ==
    ASSUME TypeInv, NEW r \in Requests, NEW data \in Logs(Entry),
           NEW state \in {"FINISHED", "STOPPED", "ERROR", "TERMINATED"},
           WriteOutcome(r, data, state)
    PROVE  TypeInv'
<1> DEFINE x == [run[r] EXCEPT !.data = data]
           row == [state |-> state, data |-> data]
<1>1. run[r] \in Run BY DEF TypeInv, TypeOK
<1>2. x \in Run BY <1>1 DEF Run
<1>3. row \in Record BY DEF Record, ExecutionState
<1>4. FoundRow(r, x, row, "done", "rejected") BY DEF WriteOutcome
<1> HIDE DEF x, row
<1> QED BY <1>2, <1>3, <1>4, FoundRowType DEF Targets

LEMMA FailAtType ==
    ASSUME TypeInv, NEW r \in Requests, NEW n \in Nodes,
           NEW status \in {"ERROR", "TERMINATED"}, FailAt(r, n, status)
    PROVE  TypeInv'
<1>1. [node |-> n, status |-> status, branch |-> NoBranch] \in Entry
  BY DEF Entry
<1>2. run[r].data \in Logs(Entry) BY DEF TypeInv, TypeOK, Run
<1> QED BY <1>1, <1>2, PushType, WriteOutcomeType DEF FailAt
LEMMA InsertRecordType ==
    ASSUME TypeInv, InsertRecord
    PROVE  /\ records' \in [RecordIds -> Record] /\ created' \in 0 .. MaxRecords
           /\ created + 1 \in RecordIds
BY EmptyLogType, BoundsAssumption
   DEF InsertRecord, TypeInv, TypeOK, Record, ExecutionState, RecordIds,
       BoundsAssumption

LEMMA StartFlowType ==
    ASSUME TypeInv, NEW r \in Requests, StartFlow(r) PROVE TypeInv'
<1> DEFINE x == [Fresh EXCEPT !.pc = "loop", !.rec = created + 1,
                              !.queue = StartTask(Start)]
<1>1. x \in Run /\ x.pc = "loop"
  BY FreshType, StartType, StartTaskType, InsertRecordType
     DEF StartFlow, Fresh, Run, Phases
<1>2. run' = [run EXCEPT ![r] = x] BY DEF StartFlow
<1> HIDE DEF x
<1> QED BY <1>1, <1>2, OneRun, InsertRecordType DEF BusyRun, StartFlow, TypeInv, TypeOK

\* What a resume starts from is data of the log's type.
LEMMA CandidateType ==
    ASSUME TypeOK, NEW e \in RecordIds, NEW c \in Candidates(records[e])
    PROVE  c[1] \in Logs(Entry) /\ c[2] \in BOOLEAN
<1>1. records[e].data \in Logs(Entry) BY DEF TypeOK, Record
<1>2. CASE c = <<records[e].data, FALSE>> BY <1>1, <1>2
<1>3. ASSUME NEW x, c = <<Without(records[e].data, {x}), TRUE>>
      PROVE  c[1] \in Logs(Entry) /\ c[2] \in BOOLEAN
  BY <1>1, <1>3, WithoutType
<1> QED BY <1>2, <1>3 DEF Candidates

LEMMA LoadPreviousType ==
    ASSUME TypeInv, NEW r \in Requests, NEW asked \in Asked, NEW answer \in {0, 1},
           LoadPrevious(r, asked, answer)
    PROVE  TypeInv'
<1>0. PICK e \in RecordIds, n \in Nodes : \E c \in Candidates(records[e]) :
          run' = [run EXCEPT ![r] =
                [Fresh EXCEPT
                    !.pc = "claiming", !.rec = e, !.data = c[1],
                    !.dropped = c[2], !.human = n, !.answer = answer,
                    !.queue = IF Inside[n] = NoNode THEN StartTask(n)
                              ELSE EmptyLog]]
  BY DEF LoadPrevious
<1>1. PICK c \in Candidates(records[e]) :
          run' = [run EXCEPT ![r] =
                [Fresh EXCEPT
                    !.pc = "claiming", !.rec = e, !.data = c[1],
                    !.dropped = c[2], !.human = n, !.answer = answer,
                    !.queue = IF Inside[n] = NoNode THEN StartTask(n)
                              ELSE EmptyLog]]
  BY <1>0
<1> DEFINE q == IF Inside[n] = NoNode THEN StartTask(n) ELSE EmptyLog
           x == [Fresh EXCEPT !.pc = "claiming", !.rec = e, !.data = c[1],
                    !.dropped = c[2], !.human = n, !.answer = answer, !.queue = q]
<1>2. c[1] \in Logs(Entry) /\ c[2] \in BOOLEAN BY CandidateType DEF TypeInv
<1>3. q \in Logs(Task) BY StartTaskType, EmptyLogType
<1> HIDE DEF q
<1>4. x \in Run /\ x.pc = "claiming"
  BY <1>2, <1>3, FreshType DEF Fresh, Run, Phases
<1>5. run' = [run EXCEPT ![r] = x] BY <1>1 DEF q
<1> HIDE DEF x
<1> QED BY <1>4, <1>5, OneRun DEF BusyRun, LoadPrevious, TypeInv, TypeOK

LEMMA RejectResumeType ==
    ASSUME TypeInv, NEW r \in Requests, NEW asked, RejectResume(r, asked)
    PROVE  TypeInv'
<1> DEFINE x == [run[r] EXCEPT !.pc = "rejected"]
<1>1. run[r] \in Run BY DEF TypeInv, TypeOK
<1>2. x \in Run /\ x.pc = "rejected" BY <1>1 DEF Run, Phases
<1>3. run' = [run EXCEPT ![r] = x] BY DEF RejectResume
<1> HIDE DEF x
<1> QED BY <1>2, <1>3, OneRun DEF BusyRun, RejectResume, TypeInv, TypeOK

\* The data of a row that exists.
LEMMA RowDataType ==
    ASSUME TypeOK, NEW r \in Requests, Exists(run[r].rec)
    PROVE  /\ run[r].rec \in RecordIds /\ records[run[r].rec] \in Record
           /\ records[run[r].rec].data \in Logs(Entry)
BY DEF TypeOK, Exists, Run, Record

\* Without a row nothing is merged: what it would hold does not matter.
LEMMA NoRowFound ==
    ASSUME NEW r \in Requests, ~ Exists(run[r].rec), NEW x, NEW row, NEW other,
           NEW then, NEW missing, FoundRow(r, x, row, then, missing)
    PROVE  FoundRow(r, x, other, then, missing)
BY DEF FoundRow

LEMMA ClaimType ==
    ASSUME TypeInv, NEW r \in Requests, Claim(r) PROVE TypeInv'
<1> DEFINE kept == IF run[r].dropped THEN run[r].data ELSE records[run[r].rec].data
           x    == [run[r] EXCEPT !.dropped = FALSE]
           row  == [state |-> "INPROGRESS", data |-> kept]
           then == IF run[r].dropped THEN "claiming" ELSE "loop"
<1>1. run[r] \in Run BY DEF TypeInv, TypeOK
<1>2. x \in Run BY <1>1 DEF Run
<1>3. then \in Targets /\ then # "iterate" BY DEF Targets
<1>4. FoundRow(r, x, row, then, "rejected") BY DEF Claim
<1>5. CASE Exists(run[r].rec)
  <2>1. kept \in Logs(Entry) BY <1>1, <1>5, RowDataType DEF TypeInv, Run
  <2>2. row \in Record BY <2>1 DEF Record, ExecutionState
  <2> HIDE DEF x, row, then
  <2> QED BY <1>2, <1>3, <1>4, <2>2, FoundRowType
<1>6. CASE ~ Exists(run[r].rec)
  <2> HIDE DEF x, row, then
  <2>1. FoundRow(r, x, Absent, then, "rejected") BY <1>4, <1>6, NoRowFound
  <2> QED BY <1>2, <1>3, <2>1, AbsentType, FoundRowType
<1> QED BY <1>5, <1>6

LEMMA OverrunType ==
    ASSUME TypeInv, NEW r \in Requests, OverrunIterations(r) PROVE TypeInv'
<1> DEFINE x == [run[r] EXCEPT !.pc = "overrun"]
<1>1. run[r] \in Run BY DEF TypeInv, TypeOK
<1>2. x \in Run /\ x.pc = "overrun" BY <1>1 DEF Run, Phases
<1>3. run' = [run EXCEPT ![r] = x] BY DEF OverrunIterations
<1> HIDE DEF x
<1> QED BY <1>2, <1>3, OneRun DEF BusyRun, OverrunIterations, TypeInv, TypeOK

\* An item of a queue is a task.
LEMMA TaskType ==
    ASSUME TypeOK, NEW r \in Requests, NEW task \in run[r].queue.items
    PROVE  task.val \in Task /\ task.val.node \in Nodes
<1>1. run[r].queue \in Logs(Task) BY DEF TypeOK, Run
<1> QED BY <1>1 DEF Logs, Items, Task

LEMMA BeginNodeType ==
    ASSUME TypeInv, NEW r \in Requests, BeginNode(r) PROVE TypeInv'
<1>1. PICK task \in run[r].queue.items :
          run' = [run EXCEPT
                ![r].pc = "exec",
                ![r].current = task.val.node,
                ![r].queue = Without(@, {task}),
                ![r].iterations = @ + 1]
  BY DEF BeginNode
<1> DEFINE n == task.val.node
           q == Without(run[r].queue, {task})
           k == run[r].iterations + 1
           x == [run[r] EXCEPT !.pc = "exec", !.current = n, !.queue = q,
                               !.iterations = k]
<1>2. run[r] \in Run BY DEF TypeInv, TypeOK
<1>3. n \in Nodes BY TaskType DEF TypeInv
<1>4. q \in Logs(Task) /\ k \in Nat BY <1>2, WithoutType DEF Run
<1>6. run' = [run EXCEPT ![r] = x] BY <1>1
<1> HIDE DEF n, q, k
<1>5. x \in Run /\ x.pc = "exec" /\ x.current \in Nodes
  BY <1>2, <1>3, <1>4 DEF Run, Phases
<1> HIDE DEF x
<1> QED BY <1>5, <1>6, OneRun DEF BusyRun, BeginNode, TypeInv, TypeOK

LEMMA TerminateAtHeadType ==
    ASSUME TypeInv, NEW r \in Requests, TerminateAtHead(r) PROVE TypeInv'
BY TaskType, FailAtType DEF TerminateAtHead, TypeInv

LEMMA FailNodeType ==
    ASSUME TypeInv, NEW r \in Requests, FailNode(r) PROVE TypeInv'
<1>1. run[r].current \in Nodes BY DEF FailNode, TypeInv, Busy, BusyRun
<1> QED BY <1>1, FailAtType DEF FailNode

LEMMA StopForHumanType ==
    ASSUME TypeInv, NEW r \in Requests, StopForHuman(r) PROVE TypeInv'
<1> DEFINE item == [node |-> run[r].current, status |-> "STOPPED", branch |-> NoBranch]
           x == [run[r] EXCEPT !.pc = "stopping",
                    !.data = Push(DataBefore(r), item),
                    !.human = IF Answered(r) THEN NoNode ELSE @]
<1>1. run[r] \in Run BY DEF TypeInv, TypeOK
<1>2. run[r].current \in Nodes BY DEF StopForHuman, TypeInv, Busy, BusyRun
<1>3. item \in Entry BY <1>2 DEF Entry
<1>4. Push(DataBefore(r), item) \in Logs(Entry)
  BY <1>3, DataBeforeType, PushType DEF TypeInv
<1>5. x \in Run /\ x.pc = "stopping" BY <1>1, <1>4 DEF Run, Phases
<1>6. run' = [run EXCEPT ![r] = x] BY DEF StopForHuman
<1> HIDE DEF x
<1> QED BY <1>5, <1>6, OneRun DEF BusyRun, StopForHuman, TypeInv, TypeOK
LEMMA FinishNodeType ==
    ASSUME TypeInv, NEW r \in Requests, NEW branch \in AllBranches,
           FinishNode(r, branch)
    PROVE  TypeInv'
<1> DEFINE n     == run[r].current
           fed   == FeedChildren(run[r].queue, run[r].waiting, n, branch)
           data  == IF run[r].pc = "exec" THEN DataBefore(r) ELSE run[r].data
           item  == [node |-> n, status |-> "FINISHED", branch |-> branch]
           back  == [node |-> LoopTo[n], inputs |-> {}]
           data2 == Push(data, item)
           queue == IF LoopsBack(r) THEN Push(fed.queue, back) ELSE fed.queue
           loops == IF LoopsBack(r) THEN [run[r].loops EXCEPT ![n] = run[r].loops[n] + 1]
                    ELSE run[r].loops
           human == IF LoopsBack(r) \/ Answered(r) THEN NoNode ELSE run[r].human
           wait  == fed.waiting
           x == [run[r] EXCEPT !.pc = "loop", !.current = NoNode, !.data = data2,
                    !.waiting = wait, !.queue = queue, !.loops = loops,
                    !.human = human]
<1>1. run[r] \in Run BY DEF TypeInv, TypeOK
<1>2. n \in Nodes BY DEF FinishNode, TypeInv, Busy, BusyRun
<1>3. run[r].queue \in Logs(Task) /\ run[r].waiting \in [Nodes -> SUBSET Nodes]
      /\ run[r].loops \in [Nodes -> Nat] /\ run[r].data \in Logs(Entry)
      /\ run[r].human \in Nodes \cup {NoNode}
  BY <1>1 DEF Run
<1>4. fed.queue \in Logs(Task) /\ wait \in [Nodes -> SUBSET Nodes]
  BY <1>2, <1>3, FedType
<1>5. item \in Entry BY <1>2, BranchType DEF Entry
<1>6. data \in Logs(Entry) BY <1>3, DataBeforeType DEF TypeInv
<1>7. data2 \in Logs(Entry) BY <1>5, <1>6, PushType
<1>8. LoopsBack(r) => back \in Task
  BY <1>2, FlowAssumption DEF LoopsBack, Task, FlowAssumption
<1>9. queue \in Logs(Task) BY <1>4, <1>8, PushType
<1>10. loops \in [Nodes -> Nat] /\ human \in Nodes \cup {NoNode}
  <2> HIDE DEF n
  <2> QED BY <1>2, <1>3
<1>11. run' = [run EXCEPT ![r] = x] BY DEF FinishNode
<1> HIDE DEF n, fed, data, item, back, data2, queue, loops, human, wait
<1>12. x \in Run /\ x.pc = "loop" BY <1>1, <1>4, <1>7, <1>9, <1>10 DEF Run, Phases
<1>13. UNCHANGED <<records, created, budget>> BY DEF FinishNode
<1> HIDE DEF x
<1>14. run' \in [Requests -> Run] /\ Busy' BY <1>11, <1>12, OneRun DEF BusyRun
<1> QED BY <1>13, <1>14 DEF TypeInv, TypeOK

LEMMA BeginIterationType ==
    ASSUME TypeInv, NEW r \in Requests, BeginIteration(r) PROVE TypeInv'
<1>1. PICK k \in 0 .. MaxItems :
          run' = [run EXCEPT ![r].pc = "iterate", ![r].left = k,
                             ![r].data = DataBefore(r)]
  BY DEF BeginIteration
<1> DEFINE x == [run[r] EXCEPT !.pc = "iterate", !.left = k, !.data = DataBefore(r)]
<1>2. run[r] \in Run BY DEF TypeInv, TypeOK
<1>3. run[r].current \in Nodes BY DEF BeginIteration, TypeInv, Busy, BusyRun
<1>4. k \in Nat /\ DataBefore(r) \in Logs(Entry)
  BY DataBeforeType, BoundsAssumption DEF BoundsAssumption, TypeInv
<1>5. x \in Run /\ x.pc = "iterate" /\ x.current \in Nodes
  BY <1>2, <1>3, <1>4 DEF Run, Phases
<1>6. run' = [run EXCEPT ![r] = x] BY <1>1
<1> HIDE DEF x
<1> QED BY <1>5, <1>6, OneRun DEF BusyRun, BeginIteration, TypeInv, TypeOK

LEMMA BeginItemType ==
    ASSUME TypeInv, NEW r \in Requests, BeginItem(r) PROVE TypeInv'
<1> DEFINE k == IF run[r].aborted THEN run[r].left - 1 ELSE run[r].left
           p == IF run[r].aborted THEN "iterate" ELSE "item"
           x == [run[r] EXCEPT !.pc = p, !.left = k]
<1>1. run[r] \in Run BY DEF TypeInv, TypeOK
<1>2. run[r].current \in Nodes BY DEF BeginItem, TypeInv, Busy, BusyRun
<1>3. run[r].left \in Nat /\ run[r].left > 0 BY <1>1 DEF BeginItem, Run
<1>4. k \in Nat /\ (p = "item" => k > 0) /\ p \in {"iterate", "item"} BY <1>3
<1>5. run' = [run EXCEPT ![r] = x] BY DEF BeginItem
<1> HIDE DEF k, p
<1>6. x \in Run /\ x.current \in Nodes /\ (x.pc = "item" => x.left > 0)
  BY <1>1, <1>2, <1>4 DEF Run, Phases
<1>7. records' \in [RecordIds -> Record] /\ created' \in 0 .. MaxRecords
  BY InsertRecordType DEF BeginItem, TypeInv, TypeOK
<1> HIDE DEF x
<1> QED BY <1>5, <1>6, <1>7, OneRun DEF BusyRun, BeginItem, TypeInv, TypeOK

LEMMA ItemReturnsType ==
    ASSUME TypeInv, NEW r \in Requests, ItemReturns(r) PROVE TypeInv'
<1> DEFINE Item(c, status) == [node |-> c, status |-> status, branch |-> NoBranch]
           Data(c, status) == Push(run[r].data, Item(c, status))
<1>1. PICK c \in Children(run[r].current), status \in {"FINISHED", "STOPPED"} :
          FoundRow(r, [run[r] EXCEPT !.data = Data(c, status), !.left = @ - 1],
                   [state |-> records[run[r].rec].state, data |-> Data(c, status)],
                   "iterate", "iterate")
  BY DEF ItemReturns
<1> DEFINE data == Data(c, status)
           k    == run[r].left - 1
           x    == [run[r] EXCEPT !.data = data, !.left = k]
           row  == [state |-> records[run[r].rec].state, data |-> data]
<1>2. run[r] \in Run BY DEF TypeInv, TypeOK
<1>3. run[r].current \in Nodes /\ run[r].left > 0
  BY DEF ItemReturns, TypeInv, Busy, BusyRun
<1>4. Item(c, status) \in Entry BY DEF Entry, Children
<1>5. data \in Logs(Entry) BY <1>2, <1>4, PushType DEF Run
<1>6. FoundRow(r, x, row, "iterate", "iterate") BY <1>1
<1>10. k \in Nat BY <1>2, <1>3 DEF Run
<1> HIDE DEF data, k
<1>7. x \in Run /\ x.current \in Nodes BY <1>2, <1>3, <1>5, <1>10 DEF Run
<1>8. CASE Exists(run[r].rec)
  <2>1. row \in Record BY <1>5, <1>8, RowDataType DEF Record, TypeInv
  <2> HIDE DEF x, row
  <2> QED BY <1>6, <1>7, <2>1, FoundRowType DEF Targets
<1>9. CASE ~ Exists(run[r].rec)
  <2> HIDE DEF x, row
  <2>1. FoundRow(r, x, Absent, "iterate", "iterate") BY <1>6, <1>9, NoRowFound
  <2> QED BY <1>7, <2>1, AbsentType, FoundRowType DEF Targets
<1> QED BY <1>8, <1>9

LEMMA ItemThrowsType ==
    ASSUME TypeInv, NEW r \in Requests, ItemThrows(r) PROVE TypeInv'
<1> DEFINE k == run[r].left - 1
           x == [run[r] EXCEPT !.pc = "iterate", !.left = k]
<1>1. run[r] \in Run BY DEF TypeInv, TypeOK
<1>2. run[r].current \in Nodes /\ run[r].left > 0 BY DEF ItemThrows, TypeInv, Busy, BusyRun
<1>3. k \in Nat BY <1>1, <1>2 DEF Run
<1>4. run' = [run EXCEPT ![r] = x] BY DEF ItemThrows
<1> HIDE DEF k
<1>5. x \in Run /\ x.pc = "iterate" /\ x.current \in Nodes
  BY <1>1, <1>2, <1>3 DEF Run, Phases
<1> HIDE DEF x
<1> QED BY <1>4, <1>5, OneRun DEF BusyRun, ItemThrows, TypeInv, TypeOK

LEMMA ConcludeType ==
    ASSUME TypeInv, NEW r \in Requests, Conclude(r) PROVE TypeInv'
<1>1. run[r].data \in Logs(Entry) BY DEF TypeInv, TypeOK, Run
<1> QED BY <1>1, FinalStateType, WriteOutcomeType DEF Conclude

LEMMA AbortType ==
    ASSUME TypeInv, NEW r \in Requests, Abort(r) PROVE TypeInv'
<1> DEFINE x == [run[r] EXCEPT !.aborted = TRUE]
<1>1. run[r] \in Run BY DEF TypeInv, TypeOK
<1>2. /\ x \in Run /\ x.pc = run[r].pc
      /\ x.current = run[r].current /\ x.left = run[r].left
      /\ x.then = run[r].then
  BY <1>1 DEF Run
<1>3. run' = [run EXCEPT ![r] = x] BY DEF Abort
<1>4. budget' \in [aborts : Nat, deletes : Nat, crashes : Nat]
  BY DEF Abort, TypeInv, TypeOK
<1>5. BusyRun(x) BY <1>2 DEF TypeInv, Busy, BusyRun
<1> HIDE DEF x
<1> QED BY <1>2, <1>3, <1>4, <1>5, OneRun DEF Abort, TypeInv, TypeOK

LEMMA DeleteType ==
    ASSUME TypeInv, NEW e \in RecordIds, DeleteExecution(e) PROVE TypeInv'
<1>1. Absent \in Record BY EmptyLogType DEF Absent, Record
<1>2. records' \in [RecordIds -> Record]
  BY <1>1 DEF DeleteExecution, TypeInv, TypeOK
<1>3. budget' \in [aborts : Nat, deletes : Nat, crashes : Nat]
  BY DEF DeleteExecution, TypeInv, TypeOK
<1> QED BY <1>2, <1>3 DEF DeleteExecution, TypeInv, TypeOK, Busy

LEMMA CrashType == ASSUME TypeInv, Crash PROVE TypeInv'
<1>1. ASSUME NEW r \in Requests PROVE run'[r] \in Run
  <2>1. run[r] \in Run BY DEF TypeInv, TypeOK
  <2>2. [run[r] EXCEPT !.pc = "crashed"] \in Run BY <2>1 DEF Run, Phases
  <2> QED BY <2>1, <2>2 DEF Crash
<1>2. run' \in [Requests -> Run] BY <1>1 DEF Crash
<1>3. budget' \in [aborts : Nat, deletes : Nat, crashes : Nat]
  BY DEF Crash, TypeInv, TypeOK
<1>4. Busy' BY DEF Crash, TypeInv, TypeOK, Busy, BusyRun, Run
<1> QED BY <1>2, <1>3, <1>4 DEF Crash, TypeInv, TypeOK

LEMMA TypeStep == TypeInv /\ [Next]_vars => TypeInv'
<1> SUFFICES ASSUME TypeInv, [Next]_vars PROVE TypeInv' OBVIOUS
<1>1. ASSUME NEW r \in Requests, Arrive(r) PROVE TypeInv'
  BY <1>1, StartFlowType, LoadPreviousType, RejectResumeType DEF Arrive
<1>2. ASSUME NEW r \in Requests, Advance(r) PROVE TypeInv'
  BY <1>2, ClaimType, SaveRowType, OverrunType, BeginNodeType, TerminateAtHeadType, FailNodeType,
     StopForHumanType, FinishNodeType, BeginIterationType, BeginItemType,
     ItemReturnsType, ItemThrowsType, ConcludeType
     DEF Advance
<1>3. CASE UNCHANGED vars BY <1>3 DEF vars, TypeInv, TypeOK, Busy
<1> QED BY <1>1, <1>2, <1>3, AbortType, DeleteType, CrashType DEF Next

\* The variables always have their types: a request never executes without a
\* node, takes an index that no record has, or queues what is not on the canvas.
THEOREM TypeCorrect == Spec => []TypeOK
<1>1. Spec => []TypeInv BY TypeInit, TypeStep, PTL DEF Spec
<1>2. TypeInv => TypeOK BY DEF TypeInv
<1> QED BY <1>1, <1>2, PTL
----------------------------------------------------------------------------
(***************************************************************************)
(* A failure is the last thing that happens to an execution                *)
(***************************************************************************)
Clean(data) == Statuses(data) \cap Failures = {}

FailuresLast(data) ==
    \A x \in data.items : x.val.status \in Failures => IsLast(data, x)

\* FailureIsLast is not inductive by itself: what is resumed must be clean, hence
\* the data of a STOPPED record; and an item is only the last one, and the only
\* last one, if stamps are below the next one and unique.
RecordOK(rec) ==
    /\ IsLog(rec.data)
    /\ FailuresLast(rec.data)
    /\ rec.state = "STOPPED" => Clean(rec.data)

Goes(x) == x.pc \in InFlight /\ (x.pc = "saving" => x.then # "done")

RunOK(x) ==
    /\ IsLog(x.data) /\ RecordOK(x.row)
    /\ Goes(x) => Clean(x.data)

FailureInv ==
    /\ \A e \in RecordIds : RecordOK(records[e])
    /\ \A r \in Requests : RunOK(run[r])

LEMMA PushIsLog ==
    ASSUME NEW V, NEW log \in Logs(V), IsLog(log), NEW v
    PROVE  IsLog(Push(log, v))
BY DEF Logs, Items, IsLog, Push

LEMMA WithoutIsLog ==
    ASSUME NEW V, NEW log \in Logs(V), IsLog(log), NEW gone
    PROVE  IsLog(Without(log, gone))
BY DEF IsLog, Without, Logs

LEMMA PushClean ==
    ASSUME NEW log \in Logs(Entry), Clean(log), NEW v, v.status \notin Failures
    PROVE  Clean(Push(log, v))
BY DEF Clean, Statuses, Push, Logs

LEMMA WithoutClean ==
    ASSUME NEW log \in Logs(Entry), Clean(log), NEW gone
    PROVE  Clean(Without(log, gone))
BY DEF Clean, Statuses, Without, Logs

LEMMA CleanFailuresLast ==
    ASSUME NEW data, Clean(data) PROVE FailuresLast(data)
BY DEF Clean, FailuresLast, Statuses

\* A failure pushed on clean data is the last item.
LEMMA PushFailure ==
    ASSUME NEW log \in Logs(Entry), IsLog(log), Clean(log), NEW v
    PROVE  FailuresLast(Push(log, v))
BY DEF Clean, FailuresLast, Statuses, Push, Logs, Items, IsLog, IsLast

\* Without its last item, data in which failures are last is clean.
LEMMA CutClean ==
    ASSUME NEW log \in Logs(Entry), IsLog(log), FailuresLast(log),
           NEW last, IsLast(log, last)
    PROVE  Clean(Without(log, {last}))
<1>1. ASSUME NEW x \in Without(log, {last}).items, x.val.status \in Failures
      PROVE  FALSE
  <2>1. x \in log.items /\ x # last BY DEF Without, Logs
  <2>2. IsLast(log, x) BY <2>1, <1>1 DEF FailuresLast
  <2>3. x.at \in Nat /\ last.at \in Nat BY <2>1 DEF IsLast, Logs, Items
  <2>4. x.at = last.at BY <2>1, <2>2, <2>3 DEF IsLast
  <2> QED BY <2>1, <2>4 DEF IsLog, IsLast
<1> QED BY <1>1 DEF Clean, Statuses
LEMMA OneRunOK ==
    ASSUME TypeOK, FailureInv, NEW r \in Requests, NEW x, RunOK(x),
           run' = [run EXCEPT ![r] = x]
    PROVE  \A s \in Requests : RunOK(run'[s])
BY DEF FailureInv, TypeOK

\* A request that keeps its data and does not come into flight.
LEMMA SameRunOK ==
    ASSUME TypeInv, FailureInv, NEW r \in Requests, NEW x,
           x.data = run[r].data /\ x.row = run[r].row,
           Goes(x) => Goes(run[r]),
           run' = [run EXCEPT ![r] = x]
    PROVE  \A s \in Requests : RunOK(run'[s])
<1>1. RunOK(x) BY DEF FailureInv, RunOK
<1> QED BY <1>1, OneRunOK DEF TypeInv

LEMMA SameRecordsOK ==
    ASSUME FailureInv, UNCHANGED records
    PROVE  \A e \in RecordIds : RecordOK(records'[e])
BY DEF FailureInv

\* One record written, with data and a state that go together.
LEMMA OneRecordOK ==
    ASSUME TypeOK, FailureInv, NEW e \in RecordIds, NEW rec, RecordOK(rec),
           records' = [records EXCEPT ![e] = rec]
    PROVE  \A f \in RecordIds : RecordOK(records'[f])
BY DEF FailureInv, TypeOK

LEMMA EmptyOK == IsLog(EmptyLog) /\ Clean(EmptyLog) /\ FailuresLast(EmptyLog)
BY DEF IsLog, EmptyLog, Clean, Statuses, FailuresLast

LEMMA AbsentOK == RecordOK(Absent)
BY EmptyOK DEF RecordOK, Absent

LEMMA FailureInit == Init => FailureInv
BY EmptyOK, AbsentOK DEF Init, FailureInv, RunOK, Absent, Fresh, InFlight, Goes

LEMMA InsertOK ==
    ASSUME TypeInv, FailureInv, InsertRecord
    PROVE  \A e \in RecordIds : RecordOK(records'[e])
<1> DEFINE rec == [state |-> "INPROGRESS", data |-> EmptyLog]
<1>1. RecordOK(rec) BY EmptyOK DEF RecordOK
<1>2. created + 1 \in RecordIds BY InsertRecordType
<1> QED BY <1>1, <1>2, OneRecordOK DEF InsertRecord, TypeInv

LEMMA StartFlowOK ==
    ASSUME TypeInv, FailureInv, NEW r \in Requests, StartFlow(r)
    PROVE  FailureInv'
<1> DEFINE x == [Fresh EXCEPT !.pc = "loop", !.rec = created + 1,
                              !.queue = StartTask(Start)]
<1>1. x.data = EmptyLog /\ x.row = Absent BY DEF Fresh
<1>2. run' = [run EXCEPT ![r] = x] BY DEF StartFlow
<1> HIDE DEF x
<1>3. RunOK(x) BY <1>1, EmptyOK, AbsentOK DEF RunOK
<1> QED BY <1>2, <1>3, OneRunOK, InsertOK DEF StartFlow, FailureInv, TypeInv

\* What a resume starts from is clean.
LEMMA CandidateClean ==
    ASSUME TypeOK, FailureInv, NEW e \in RecordIds, NEW c \in Candidates(records[e])
    PROVE  IsLog(c[1]) /\ Clean(c[1])
<1> DEFINE log == records[e].data
<1>1. log \in Logs(Entry) /\ RecordOK(records[e]) BY DEF TypeOK, Record, FailureInv
<1>2. Resumable(records[e], c[1], c[2]) BY DEF Candidates
<1>3. CASE records[e].state = "STOPPED" /\ c[1] = log
  BY <1>1, <1>3 DEF RecordOK
<1>4. CASE records[e].state = "ERROR"
  <2>1. PICK last \in log.items :
           IsLast(log, last) /\ c[1] = Without(log, {last})
    BY <1>2, <1>4 DEF Resumable
  <2> QED BY <1>1, <2>1, CutClean, WithoutIsLog DEF RecordOK
<1> QED BY <1>2, <1>3, <1>4 DEF Resumable

LEMMA LoadPreviousOK ==
    ASSUME TypeInv, FailureInv, NEW r \in Requests, NEW asked, NEW answer,
           LoadPrevious(r, asked, answer)
    PROVE  FailureInv'
<1>1. PICK e \in RecordIds, n \in Nodes : \E c \in Candidates(records[e]) :
          run' = [run EXCEPT ![r] =
                [Fresh EXCEPT
                    !.pc = "claiming", !.rec = e, !.data = c[1],
                    !.dropped = c[2], !.human = n, !.answer = answer,
                    !.queue = IF Inside[n] = NoNode THEN StartTask(n)
                              ELSE EmptyLog]]
  BY DEF LoadPrevious
<1>2. PICK c \in Candidates(records[e]) :
          run' = [run EXCEPT ![r] =
                [Fresh EXCEPT
                    !.pc = "claiming", !.rec = e, !.data = c[1],
                    !.dropped = c[2], !.human = n, !.answer = answer,
                    !.queue = IF Inside[n] = NoNode THEN StartTask(n)
                              ELSE EmptyLog]]
  BY <1>1
<1> DEFINE x == [Fresh EXCEPT !.pc = "claiming", !.rec = e, !.data = c[1],
                    !.dropped = c[2], !.human = n, !.answer = answer,
                    !.queue = IF Inside[n] = NoNode THEN StartTask(n) ELSE EmptyLog]
<1>3. x.data = c[1] /\ x.row = Absent BY DEF Fresh
<1>4. run' = [run EXCEPT ![r] = x] BY <1>2
<1>5. UNCHANGED records BY DEF LoadPrevious
<1> HIDE DEF x
<1>6. RunOK(x) BY <1>3, AbsentOK, CandidateClean DEF RunOK, TypeInv
<1> QED BY <1>4, <1>5, <1>6, OneRunOK, SameRecordsOK DEF FailureInv, TypeInv

\* A row that is found and merged, or missing.
LEMMA FoundRowOK ==
    ASSUME TypeInv, FailureInv, NEW r \in Requests, NEW x \in Run, IsLog(x.data),
           x.row = run[r].row, NEW row, Exists(run[r].rec) => RecordOK(row),
           NEW then \in Targets, NEW missing \in {"rejected", "iterate"},
           (then = "done" /\ missing = "rejected") \/ Clean(x.data),
           FoundRow(r, x, row, then, missing)
    PROVE  FailureInv'
<1> DEFINE y == IF Exists(run[r].rec)
                THEN [x EXCEPT !.pc = "saving", !.row = row, !.then = then]
                ELSE [x EXCEPT !.pc = missing]
<1>1. y.data = x.data BY DEF Run
<1>2. RecordOK(run[r].row) BY DEF FailureInv, RunOK
<1>3. RecordOK(y.row) BY <1>2 DEF Run
<1>4. Goes(y) => Clean(x.data) BY DEF Goes, InFlight, Run
<1>5. run' = [run EXCEPT ![r] = y] /\ UNCHANGED records BY DEF FoundRow
<1> HIDE DEF y
<1>6. RunOK(y) BY <1>1, <1>3, <1>4 DEF RunOK
<1> QED BY <1>5, <1>6, OneRunOK, SameRecordsOK DEF FailureInv, TypeInv

LEMMA SaveRowOK ==
    ASSUME TypeInv, FailureInv, NEW r \in Requests, SaveRow(r)
    PROVE  FailureInv'
<1> DEFINE x == [run[r] EXCEPT !.pc = run[r].then, !.row = Absent]
<1>1. run[r] \in Run /\ RunOK(run[r]) BY DEF TypeInv, TypeOK, FailureInv
<1>2. x.data = run[r].data /\ x.row = Absent BY <1>1 DEF Run
<1>3. Goes(x) => Goes(run[r]) BY <1>1 DEF SaveRow, Goes, InFlight, Run
<1>4. run' = [run EXCEPT ![r] = x] BY DEF SaveRow
<1> HIDE DEF x
<1>5. RunOK(x) BY <1>1, <1>2, <1>3, AbsentOK DEF RunOK
<1>6. ASSUME NEW e \in RecordIds PROVE RecordOK(records'[e])
  <2>1. records'[e] = IF e = run[r].rec THEN run[r].row ELSE records[e]
    BY DEF SaveRow, TypeInv, TypeOK
  <2> QED BY <1>1, <2>1 DEF FailureInv, RunOK
<1> QED BY <1>4, <1>5, <1>6, OneRunOK DEF FailureInv, TypeInv

LEMMA ClaimOK ==
    ASSUME TypeInv, FailureInv, NEW r \in Requests, Claim(r)
    PROVE  FailureInv'
<1> DEFINE kept == IF run[r].dropped THEN run[r].data ELSE records[run[r].rec].data
           x    == [run[r] EXCEPT !.dropped = FALSE]
           row  == [state |-> "INPROGRESS", data |-> kept]
           then == IF run[r].dropped THEN "claiming" ELSE "loop"
<1>1. run[r] \in Run BY DEF TypeInv, TypeOK
<1>2. x \in Run /\ x.data = run[r].data /\ x.row = run[r].row BY <1>1 DEF Run
<1>3. Goes(run[r]) BY DEF Claim, Goes, InFlight
<1>4. IsLog(run[r].data) /\ Clean(run[r].data) BY <1>3 DEF FailureInv, RunOK
<1>5. Exists(run[r].rec) => RecordOK(row)
  <2> SUFFICES ASSUME Exists(run[r].rec) PROVE RecordOK(row) OBVIOUS
  <2>1. IsLog(kept) /\ FailuresLast(kept)
    BY <1>4, RowDataType, CleanFailuresLast DEF FailureInv, RecordOK, TypeInv
  <2> QED BY <2>1 DEF RecordOK
<1>6. then \in Targets BY DEF Targets
<1>7. FoundRow(r, x, row, then, "rejected") BY DEF Claim
<1> HIDE DEF x, row, then
<1> QED BY <1>2, <1>4, <1>5, <1>6, <1>7, FoundRowOK

\* An outcome is written with data that carries at most a last failure, and none
\* if the state is STOPPED.
LEMMA WriteOutcomeOK ==
    ASSUME TypeInv, FailureInv, NEW r \in Requests,
           NEW data \in Logs(Entry), IsLog(data), FailuresLast(data),
           NEW state, state = "STOPPED" => Clean(data),
           WriteOutcome(r, data, state)
    PROVE  FailureInv'
<1> DEFINE x   == [run[r] EXCEPT !.data = data]
           row == [state |-> state, data |-> data]
<1>1. run[r] \in Run BY DEF TypeInv, TypeOK
<1>2. x \in Run /\ x.data = data /\ x.row = run[r].row BY <1>1 DEF Run
<1>3. RecordOK(row) BY DEF RecordOK
<1>4. FoundRow(r, x, row, "done", "rejected") BY DEF WriteOutcome
<1> HIDE DEF x, row
<1> QED BY <1>2, <1>3, <1>4, FoundRowOK DEF Targets

LEMMA FailAtOK ==
    ASSUME TypeInv, FailureInv, NEW r \in Requests, Goes(run[r]),
           NEW n \in Nodes, NEW status \in Failures, FailAt(r, n, status)
    PROVE  FailureInv'
<1> DEFINE item == [node |-> n, status |-> status, branch |-> NoBranch]
<1>1. run[r].data \in Logs(Entry) BY DEF TypeInv, TypeOK, Run
<1>2. IsLog(run[r].data) /\ Clean(run[r].data) BY DEF FailureInv, RunOK
<1>3. IsLog(Push(run[r].data, item)) /\ FailuresLast(Push(run[r].data, item))
  BY <1>1, <1>2, PushIsLog, PushFailure
<1>4. status # "STOPPED" BY DEF Failures
<1>5. item \in Entry BY DEF Entry, Failures
<1>6. Push(run[r].data, item) \in Logs(Entry) BY <1>1, <1>5, PushType
<1> QED BY <1>3, <1>4, <1>6, WriteOutcomeOK DEF FailAt

LEMMA RejectResumeOK ==
    ASSUME TypeInv, FailureInv, NEW r \in Requests, NEW asked,
           RejectResume(r, asked)
    PROVE  FailureInv'
<1> DEFINE x == [run[r] EXCEPT !.pc = "rejected"]
<1>1. run[r] \in Run BY DEF TypeInv, TypeOK
<1>2. x.data = run[r].data /\ x.row = run[r].row /\ ~ Goes(x) BY <1>1 DEF Run, InFlight, Goes
<1>3. run' = [run EXCEPT ![r] = x] /\ UNCHANGED records BY DEF RejectResume
<1> HIDE DEF x
<1> QED BY <1>2, <1>3, SameRunOK, SameRecordsOK DEF FailureInv

LEMMA OverrunOK ==
    ASSUME TypeInv, FailureInv, NEW r \in Requests, OverrunIterations(r)
    PROVE  FailureInv'
<1> DEFINE x == [run[r] EXCEPT !.pc = "overrun"]
<1>1. run[r] \in Run BY DEF TypeInv, TypeOK
<1>2. x.data = run[r].data /\ x.row = run[r].row /\ ~ Goes(x) BY <1>1 DEF Run, InFlight, Goes
<1>3. run' = [run EXCEPT ![r] = x] /\ UNCHANGED records BY DEF OverrunIterations
<1> HIDE DEF x
<1> QED BY <1>2, <1>3, SameRunOK, SameRecordsOK DEF FailureInv

LEMMA BeginNodeOK ==
    ASSUME TypeInv, FailureInv, NEW r \in Requests, BeginNode(r)
    PROVE  FailureInv'
<1>1. PICK task \in run[r].queue.items :
          run' = [run EXCEPT
                ![r].pc = "exec",
                ![r].current = task.val.node,
                ![r].queue = Without(@, {task}),
                ![r].iterations = @ + 1]
  BY DEF BeginNode
<1> DEFINE x == [run[r] EXCEPT !.pc = "exec", !.current = task.val.node,
                               !.queue = Without(run[r].queue, {task}),
                               !.iterations = run[r].iterations + 1]
<1>2. run[r] \in Run BY DEF TypeInv, TypeOK
<1>3. x.data = run[r].data /\ x.row = run[r].row BY <1>2 DEF Run
<1>4. run' = [run EXCEPT ![r] = x] BY <1>1
<1>5. Goes(run[r]) /\ UNCHANGED records BY DEF BeginNode, InFlight, Goes
<1> HIDE DEF x
<1> QED BY <1>3, <1>4, <1>5, SameRunOK, SameRecordsOK DEF FailureInv

LEMMA TerminateAtHeadOK ==
    ASSUME TypeInv, FailureInv, NEW r \in Requests, TerminateAtHead(r)
    PROVE  FailureInv'
BY TaskType, FailAtOK DEF TypeInv, TerminateAtHead, InFlight, Goes, Failures

LEMMA FailNodeOK ==
    ASSUME TypeInv, FailureInv, NEW r \in Requests, FailNode(r)
    PROVE  FailureInv'
BY FailAtOK DEF TypeInv, Busy, BusyRun, FailNode, InFlight, Goes, Failures

\* What is left of the data when the answered node's items are filtered out.
LEMMA DataBeforeOK ==
    ASSUME TypeInv, FailureInv, NEW r \in Requests, Goes(run[r])
    PROVE  /\ DataBefore(r) \in Logs(Entry)
           /\ IsLog(DataBefore(r)) /\ Clean(DataBefore(r))
<1>1. run[r].data \in Logs(Entry) BY DEF TypeInv, TypeOK, Run
<1>2. IsLog(run[r].data) /\ Clean(run[r].data) BY DEF FailureInv, RunOK
<1>3. DataBefore(r) \in Logs(Entry) BY DataBeforeType DEF TypeInv
<1> QED BY <1>1, <1>2, <1>3, WithoutIsLog, WithoutClean DEF DataBefore

\* A request that comes to hold clean data.
LEMMA CleanRunOK ==
    ASSUME TypeInv, FailureInv, NEW r \in Requests, NEW x,
           IsLog(x.data), Clean(x.data), x.row = run[r].row,
           run' = [run EXCEPT ![r] = x]
    PROVE  \A s \in Requests : RunOK(run'[s])
<1>1. RunOK(x) BY DEF RunOK, FailureInv
<1> QED BY <1>1, OneRunOK DEF TypeInv

LEMMA PushOK ==
    ASSUME NEW log \in Logs(Entry), IsLog(log), Clean(log),
           NEW v, v.status \notin Failures
    PROVE  IsLog(Push(log, v)) /\ Clean(Push(log, v))
BY PushIsLog, PushClean

LEMMA StopForHumanOK ==
    ASSUME TypeInv, FailureInv, NEW r \in Requests, StopForHuman(r)
    PROVE  FailureInv'
<1> DEFINE item == [node |-> run[r].current, status |-> "STOPPED", branch |-> NoBranch]
           data == Push(DataBefore(r), item)
           x == [run[r] EXCEPT !.pc = "stopping", !.data = data,
                    !.human = IF Answered(r) THEN NoNode ELSE @]
<1>1. run[r] \in Run BY DEF TypeInv, TypeOK
<1>2. Goes(run[r]) /\ UNCHANGED records BY DEF StopForHuman, InFlight, Goes
<1>3. run' = [run EXCEPT ![r] = x] BY DEF StopForHuman
<1>4. item.status \notin Failures BY DEF Failures
<1> HIDE DEF item
<1>5. IsLog(data) /\ Clean(data) BY <1>2, <1>4, DataBeforeOK, PushOK
<1> HIDE DEF data
<1>6. x.data = data /\ x.row = run[r].row BY <1>1 DEF Run
<1> HIDE DEF x
<1> QED BY <1>2, <1>3, <1>5, <1>6, CleanRunOK, SameRecordsOK DEF FailureInv

LEMMA FinishNodeOK ==
    ASSUME TypeInv, FailureInv, NEW r \in Requests, NEW branch,
           FinishNode(r, branch)
    PROVE  FailureInv'
<1> DEFINE before == IF run[r].pc = "exec" THEN DataBefore(r) ELSE run[r].data
           item   == [node |-> run[r].current, status |-> "FINISHED",
                      branch |-> branch]
           data   == Push(before, item)
<1>1. Goes(run[r]) /\ UNCHANGED records BY DEF FinishNode, InFlight, Goes
<1>2. run' = [run EXCEPT ![r] = run'[r]] /\ run'[r].data = data
      /\ run'[r].row = run[r].row
  <2>1. run[r] \in Run /\ run \in [Requests -> Run] BY DEF TypeInv, TypeOK
  <2> QED BY <2>1 DEF FinishNode, Run
<1>3. item.status \notin Failures BY DEF Failures
<1>4. before \in Logs(Entry) /\ IsLog(before) /\ Clean(before)
  <2>1. run[r].data \in Logs(Entry) BY DEF TypeInv, TypeOK, Run
  <2>2. IsLog(run[r].data) /\ Clean(run[r].data) BY <1>1 DEF FailureInv, RunOK
  <2> QED BY <1>1, <2>1, <2>2, DataBeforeOK
<1> HIDE DEF before, item
<1>5. IsLog(data) /\ Clean(data) BY <1>3, <1>4, PushOK
<1> HIDE DEF data
<1> QED BY <1>1, <1>2, <1>5, CleanRunOK, SameRecordsOK DEF FailureInv

LEMMA BeginIterationOK ==
    ASSUME TypeInv, FailureInv, NEW r \in Requests, BeginIteration(r)
    PROVE  FailureInv'
<1>1. Goes(run[r]) /\ UNCHANGED records BY DEF BeginIteration, InFlight, Goes
<1>2. run' = [run EXCEPT ![r] = run'[r]] /\ run'[r].data = DataBefore(r)
      /\ run'[r].row = run[r].row
  <2>1. run[r] \in Run /\ run \in [Requests -> Run] BY DEF TypeInv, TypeOK
  <2> QED BY <2>1 DEF BeginIteration, Run
<1> QED BY <1>1, <1>2, DataBeforeOK, CleanRunOK, SameRecordsOK DEF FailureInv

LEMMA BeginItemOK ==
    ASSUME TypeInv, FailureInv, NEW r \in Requests, BeginItem(r)
    PROVE  FailureInv'
<1>1. Goes(run[r]) BY DEF BeginItem, InFlight, Goes
<1>2. run' = [run EXCEPT ![r] = run'[r]] /\ run'[r].data = run[r].data
      /\ run'[r].row = run[r].row
  <2>1. run[r] \in Run /\ run \in [Requests -> Run] BY DEF TypeInv, TypeOK
  <2> QED BY <2>1 DEF BeginItem, Run
<1>3. \A s \in Requests : RunOK(run'[s]) BY <1>1, <1>2, SameRunOK
<1> QED BY <1>3, InsertOK, SameRecordsOK DEF BeginItem, FailureInv

LEMMA ItemThrowsOK ==
    ASSUME TypeInv, FailureInv, NEW r \in Requests, ItemThrows(r)
    PROVE  FailureInv'
<1>1. Goes(run[r]) /\ UNCHANGED records BY DEF ItemThrows, InFlight, Goes
<1>2. run' = [run EXCEPT ![r] = run'[r]] /\ run'[r].data = run[r].data
      /\ run'[r].row = run[r].row
  <2>1. run[r] \in Run /\ run \in [Requests -> Run] BY DEF TypeInv, TypeOK
  <2> QED BY <2>1 DEF ItemThrows, Run
<1> QED BY <1>1, <1>2, SameRunOK, SameRecordsOK DEF FailureInv

LEMMA ItemReturnsOK ==
    ASSUME TypeInv, FailureInv, NEW r \in Requests, ItemReturns(r)
    PROVE  FailureInv'
<1> DEFINE Item(c, status) == [node |-> c, status |-> status, branch |-> NoBranch]
           Data(c, status) == Push(run[r].data, Item(c, status))
<1>1. PICK c \in Children(run[r].current), status \in {"FINISHED", "STOPPED"} :
          FoundRow(r, [run[r] EXCEPT !.data = Data(c, status), !.left = @ - 1],
                   [state |-> records[run[r].rec].state, data |-> Data(c, status)],
                   "iterate", "iterate")
  BY DEF ItemReturns
<1> DEFINE data == Data(c, status)
           k    == run[r].left - 1
           x    == [run[r] EXCEPT !.data = data, !.left = k]
           row  == [state |-> records[run[r].rec].state, data |-> data]
<1>2. run[r] \in Run BY DEF TypeInv, TypeOK
<1>3. run[r].left > 0 BY DEF ItemReturns, TypeInv, Busy, BusyRun
<1>4. Goes(run[r]) BY DEF ItemReturns, Goes, InFlight
<1>5. run[r].data \in Logs(Entry) /\ IsLog(run[r].data) /\ Clean(run[r].data)
  BY <1>2, <1>4 DEF Run, FailureInv, RunOK
<1>6. Item(c, status) \in Entry BY DEF Entry, Children
<1>7. Item(c, status).status \notin Failures BY DEF Failures
<1>8. data \in Logs(Entry) BY <1>5, <1>6, PushType
<1>9. IsLog(data) /\ Clean(data)
  <2> HIDE DEF Item
  <2> QED BY <1>5, <1>7, PushOK
<1>10. k \in Nat BY <1>2, <1>3 DEF Run
<1>11. FoundRow(r, x, row, "iterate", "iterate") BY <1>1
<1> HIDE DEF data, k
<1>12. x \in Run /\ x.data = data /\ x.row = run[r].row BY <1>2, <1>8, <1>10 DEF Run
<1>13. RecordOK(row) BY <1>9, CleanFailuresLast DEF RecordOK
<1> HIDE DEF x, row
<1> QED BY <1>9, <1>11, <1>12, <1>13, FoundRowOK DEF Targets

\* The state recomputed from clean data is FINISHED or STOPPED.
LEMMA ConcludeOK ==
    ASSUME TypeInv, FailureInv, NEW r \in Requests, Conclude(r)
    PROVE  FailureInv'
<1>1. Goes(run[r]) BY DEF Conclude, InFlight, Goes
<1>2. IsLog(run[r].data) /\ Clean(run[r].data) BY <1>1 DEF FailureInv, RunOK
<1>3. run[r].data \in Logs(Entry) BY DEF TypeInv, TypeOK, Run
<1> QED BY <1>2, <1>3, CleanFailuresLast, WriteOutcomeOK DEF Conclude

LEMMA AbortOK ==
    ASSUME TypeInv, FailureInv, NEW r \in Requests, Abort(r)
    PROVE  FailureInv'
<1>1. UNCHANGED records BY DEF Abort
<1>2. run' = [run EXCEPT ![r] = run'[r]] /\ run'[r].data = run[r].data
      /\ run'[r].row = run[r].row /\ (Goes(run'[r]) => Goes(run[r]))
  <2>1. run[r] \in Run /\ run \in [Requests -> Run] BY DEF TypeInv, TypeOK
  <2> QED BY <2>1 DEF Abort, Run, Goes
<1> QED BY <1>1, <1>2, SameRunOK, SameRecordsOK DEF FailureInv

LEMMA DeleteOK ==
    ASSUME TypeInv, FailureInv, NEW e \in RecordIds, DeleteExecution(e)
    PROVE  FailureInv'
<1>1. RecordOK(Absent) BY EmptyOK DEF RecordOK, Absent
<1>2. \A f \in RecordIds : RecordOK(records'[f])
  BY <1>1, OneRecordOK DEF DeleteExecution, TypeInv
<1> QED BY <1>2 DEF DeleteExecution, FailureInv

LEMMA CrashOK == ASSUME TypeInv, FailureInv, Crash PROVE FailureInv'
<1>1. ASSUME NEW s \in Requests PROVE RunOK(run'[s])
  <2>1. run[s] \in Run /\ RunOK(run[s]) BY DEF TypeInv, TypeOK, FailureInv
  <2>2. CASE s \in Active
    <3>1. run'[s] = [run[s] EXCEPT !.pc = "crashed"] BY <2>2 DEF Crash
    <3>2. run'[s].data = run[s].data /\ run'[s].row = run[s].row /\ run'[s].pc = "crashed"
      BY <2>1, <3>1 DEF Run
    <3> QED BY <2>1, <3>2 DEF RunOK, InFlight, Goes
  <2>3. CASE s \notin Active
    <3>1. run'[s] = run[s] BY <2>3 DEF Crash
    <3> QED BY <2>1, <3>1
  <2> QED BY <2>2, <2>3
<1> QED BY <1>1 DEF Crash, FailureInv

LEMMA FailureStep == TypeInv /\ FailureInv /\ [Next]_vars => FailureInv'
<1> SUFFICES ASSUME TypeInv, FailureInv, [Next]_vars PROVE FailureInv' OBVIOUS
<1>1. ASSUME NEW r \in Requests, Arrive(r) PROVE FailureInv'
  BY <1>1, StartFlowOK, LoadPreviousOK, RejectResumeOK DEF Arrive
<1>2. ASSUME NEW r \in Requests, Advance(r) PROVE FailureInv'
  BY <1>2, ClaimOK, SaveRowOK, OverrunOK, BeginNodeOK, TerminateAtHeadOK, FailNodeOK,
     StopForHumanOK, FinishNodeOK, BeginIterationOK, BeginItemOK, ItemReturnsOK,
     ItemThrowsOK, ConcludeOK
     DEF Advance
<1>3. CASE UNCHANGED vars BY <1>3 DEF vars, FailureInv
<1> QED BY <1>1, <1>2, <1>3, AbortOK, DeleteOK, CrashOK DEF Next

\* In no execution is a failure followed by another step, and no run goes on with
\* one: neither a resume, whose filter must drop the failed item, nor a nested run
\* of an iteration, whose failures are caught, lets one in.
THEOREM FailureCorrect == Spec => []FailureIsLast
<1>1. Spec => []TypeInv BY TypeInit, TypeStep, PTL DEF Spec
<1>2. Spec => []FailureInv BY <1>1, FailureInit, FailureStep, PTL DEF Spec
<1>3. FailureInv => FailureIsLast
  BY DEF FailureInv, FailureIsLast, RecordOK, RunOK, FailuresLast, Clean, GoingOn,
         Active, Goes
<1> QED BY <1>2, <1>3, PTL
==============================================================================
