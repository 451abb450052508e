------------------------ MODULE AgentflowSafetyProofs ------------------------
(***************************************************************************)
(* What TLAPS proves of a run of Agentflow and of the records it leaves,   *)
(* beyond AgentflowProofs: what feeds a node, what a record says, whom a   *)
(* human's answer reaches, how much a run does.  All of it holds for any   *)
(* number of requests on the same records unless a theorem says otherwise. *)
(***************************************************************************)
EXTENDS AgentflowProofs, WellFoundedInduction

----------------------------------------------------------------------------
(***************************************************************************)
(* What each action makes of the request that takes it                     *)
(***************************************************************************)
\* What only the main loop itself moves on.
SameWork(x, y) ==
    /\ y.rec = x.rec /\ y.human = x.human /\ y.queue = x.queue
    /\ y.waiting = x.waiting /\ y.current = x.current
    /\ y.iterations = x.iterations

\* The request still holds what it held, but for where it stands.
SameHold(x, y) == SameWork(x, y) /\ y.data = x.data /\ y.row = x.row

Nowhere == [n \in Nodes |-> {}]

\* Only the request that takes a step changes.
LEMMA OthersStay ==
    ASSUME TypeInv, NEW r \in Requests, Arrive(r) \/ Advance(r) \/ Abort(r),
           NEW s \in Requests, s # r
    PROVE  run'[s] = run[s]
<1>1. run \in [Requests -> Run] BY DEF TypeInv, TypeOK
<1>2. CASE Arrive(r)
  BY <1>1, <1>2 DEF Arrive, StartFlow, LoadPrevious, RejectResume
<1>3. CASE Abort(r) BY <1>1, <1>3 DEF Abort
<1>4. CASE Advance(r)
  <2>1. CASE Claim(r) \/ SaveRow(r) \/ OverrunIterations(r) \/ BeginNode(r)
    BY <1>1, <2>1 DEF Claim, FoundRow, SaveRow, OverrunIterations, BeginNode
  <2>2. CASE TerminateAtHead(r) \/ FailNode(r) \/ Conclude(r)
    BY <1>1, <2>2 DEF TerminateAtHead, FailNode, Conclude, FailAt, WriteOutcome, FoundRow
  <2>3. CASE StopForHuman(r) \/ BeginIteration(r) \/ BeginItem(r) \/ ItemThrows(r)
    BY <1>1, <2>3 DEF StopForHuman, BeginIteration, BeginItem, ItemThrows
  <2>4. CASE ItemReturns(r) BY <1>1, <2>4 DEF ItemReturns, FoundRow
  <2>5. CASE \E branch \in AllBranches : FinishNode(r, branch)
    BY <1>1, <2>5 DEF FinishNode
  <2> QED BY <1>4, <2>1, <2>2, <2>3, <2>4, <2>5 DEF Advance
<1> QED BY <1>2, <1>3, <1>4

LEMMA StartFlowRun ==
    ASSUME TypeInv, NEW r \in Requests, StartFlow(r)
    PROVE  /\ run'[r].pc = "loop" /\ run'[r].rec = created + 1
           /\ run'[r].data = EmptyLog /\ run'[r].human = NoNode
           /\ run'[r].queue = StartTask(Start) /\ run'[r].waiting = Nowhere
           /\ run'[r].iterations = 0 /\ run'[r].row = Absent
           /\ run[r].pc = "idle" /\ Cardinality(Active) < MaxActive
<1>1. run \in [Requests -> Run] BY DEF TypeInv, TypeOK
<1> QED BY <1>1 DEF StartFlow, Fresh, Nowhere

LEMMA LoadPreviousRun ==
    ASSUME TypeInv, NEW r \in Requests, NEW asked, NEW answer,
           LoadPrevious(r, asked, answer)
    PROVE  \E e \in RecordIds, n \in Nodes : \E c \in Candidates(records[e]) :
              /\ CanResume(e, asked, n, c[1], c[2])
              /\ run'[r].pc = "claiming" /\ run'[r].rec = e
              /\ run'[r].data = c[1] /\ run'[r].dropped = c[2]
              /\ run'[r].human = n /\ run'[r].waiting = Nowhere
              /\ run'[r].queue = IF Inside[n] = NoNode THEN StartTask(n) ELSE EmptyLog
              /\ run'[r].iterations = 0 /\ run'[r].row = Absent
              /\ run[r].pc = "idle" /\ Cardinality(Active) < MaxActive
<1>1. run \in [Requests -> Run] BY DEF TypeInv, TypeOK
<1>2. PICK e \in RecordIds, n \in Nodes : \E c \in Candidates(records[e]) :
          /\ CanResume(e, asked, n, c[1], c[2])
          /\ run' = [run EXCEPT ![r] =
                [Fresh EXCEPT
                    !.pc = "claiming", !.rec = e, !.data = c[1],
                    !.dropped = c[2], !.human = n, !.answer = answer,
                    !.queue = IF Inside[n] = NoNode THEN StartTask(n)
                              ELSE EmptyLog]]
  BY DEF LoadPrevious
<1>3. PICK c \in Candidates(records[e]) :
          /\ CanResume(e, asked, n, c[1], c[2])
          /\ run' = [run EXCEPT ![r] =
                [Fresh EXCEPT
                    !.pc = "claiming", !.rec = e, !.data = c[1],
                    !.dropped = c[2], !.human = n, !.answer = answer,
                    !.queue = IF Inside[n] = NoNode THEN StartTask(n)
                              ELSE EmptyLog]]
  BY <1>2
<1> DEFINE q == IF Inside[n] = NoNode THEN StartTask(n) ELSE EmptyLog
           y == [Fresh EXCEPT !.pc = "claiming", !.rec = e, !.data = c[1],
                    !.dropped = c[2], !.human = n, !.answer = answer, !.queue = q]
<1>4. run'[r] = y BY <1>1, <1>3
<1> HIDE DEF q
<1>5. /\ y.pc = "claiming" /\ y.rec = e /\ y.data = c[1] /\ y.dropped = c[2]
      /\ y.human = n /\ y.queue = q /\ y.waiting = Nowhere
      /\ y.iterations = 0 /\ y.row = Absent
  BY DEF Fresh, Nowhere
<1> HIDE DEF y
<1> QED BY <1>3, <1>4, <1>5 DEF LoadPrevious, q

LEMMA RejectResumeRun ==
    ASSUME TypeInv, NEW r \in Requests, NEW asked, RejectResume(r, asked)
    PROVE  /\ run'[r].pc = "rejected" /\ SameHold(run[r], run'[r])
           /\ run[r].pc = "idle"
<1>1. run \in [Requests -> Run] BY DEF TypeInv, TypeOK
<1> QED BY <1>1 DEF RejectResume, SameHold, SameWork, Run

LEMMA ClaimRun ==
    ASSUME TypeInv, NEW r \in Requests, Claim(r)
    PROVE  /\ SameWork(run[r], run'[r]) /\ run'[r].data = run[r].data
           /\ run[r].pc = "claiming"
           /\ \/ /\ Exists(run[r].rec) /\ run'[r].pc = "saving"
                 /\ run'[r].then \in {"claiming", "loop"}
                 /\ run'[r].row = [state |-> "INPROGRESS",
                                   data |-> IF run[r].dropped THEN run[r].data
                                            ELSE records[run[r].rec].data]
              \/ /\ ~ Exists(run[r].rec) /\ run'[r].pc = "rejected"
                 /\ run'[r].row = run[r].row
<1>1. run \in [Requests -> Run] BY DEF TypeInv, TypeOK
<1> QED BY <1>1 DEF Claim, FoundRow, SameWork, Run

LEMMA SaveRowRun ==
    ASSUME TypeInv, NEW r \in Requests, SaveRow(r)
    PROVE  /\ SameWork(run[r], run'[r]) /\ run'[r].data = run[r].data
           /\ run[r].pc = "saving" /\ run'[r].pc = run[r].then
           /\ run'[r].row = Absent
<1>1. run \in [Requests -> Run] BY DEF TypeInv, TypeOK
<1> QED BY <1>1 DEF SaveRow, SameWork, Run

LEMMA OverrunRun ==
    ASSUME TypeInv, NEW r \in Requests, OverrunIterations(r)
    PROVE  /\ run'[r].pc = "overrun" /\ SameHold(run[r], run'[r])
           /\ run[r].pc = "loop"
<1>1. run \in [Requests -> Run] BY DEF TypeInv, TypeOK
<1> QED BY <1>1 DEF OverrunIterations, SameHold, SameWork, Run

LEMMA BeginNodeRun ==
    ASSUME TypeInv, NEW r \in Requests, BeginNode(r)
    PROVE  \E task \in run[r].queue.items :
              /\ IsFirst(run[r].queue, task)
              /\ run'[r].pc = "exec" /\ run'[r].current = task.val.node
              /\ run'[r].queue = Without(run[r].queue, {task})
              /\ run'[r].iterations = run[r].iterations + 1
              /\ run'[r].rec = run[r].rec /\ run'[r].human = run[r].human
              /\ run'[r].waiting = run[r].waiting /\ run'[r].data = run[r].data
              /\ run'[r].row = run[r].row
              /\ run[r].pc = "loop" /\ WithinLimit(r)
<1>1. run \in [Requests -> Run] BY DEF TypeInv, TypeOK
<1> QED BY <1>1 DEF BeginNode, Run

\* A run that writes its outcome, or finds that its record is gone.
Outcome(x, y, data, state, found) ==
    /\ SameWork(x, y) /\ y.data = data
    /\ \/ /\ found /\ y.pc = "saving" /\ y.then = "done"
          /\ y.row = [state |-> state, data |-> data]
       \/ ~ found /\ y.pc = "rejected" /\ y.row = x.row

LEMMA WriteOutcomeRun ==
    ASSUME TypeInv, NEW r \in Requests, NEW data, NEW state,
           WriteOutcome(r, data, state)
    PROVE  Outcome(run[r], run'[r], data, state, Exists(run[r].rec))
<1>1. run \in [Requests -> Run] BY DEF TypeInv, TypeOK
<1> QED BY <1>1 DEF WriteOutcome, FoundRow, Outcome, SameWork, Run

LEMMA OutcomeFields ==
    ASSUME NEW x, NEW y, NEW data, NEW state, NEW found,
           Outcome(x, y, data, state, found)
    PROVE  /\ SameWork(x, y) /\ y.data = data
           /\ \/ /\ found /\ y.pc = "saving" /\ y.then = "done"
                 /\ y.row.state = state /\ y.row.data = data
              \/ ~ found /\ y.pc = "rejected" /\ y.row = x.row
BY DEF Outcome

Failed(n, status) == [node |-> n, status |-> status, branch |-> NoBranch]

\* The two ways a run fails: at the head of its queue, or in a node.
LEMMA FailRun ==
    ASSUME TypeInv, NEW r \in Requests, TerminateAtHead(r) \/ FailNode(r)
    PROVE  \E n \in Nodes, status \in Failures :
              /\ FailAt(r, n, status)
              /\ Outcome(run[r], run'[r], Push(run[r].data, Failed(n, status)),
                         status, Exists(run[r].rec))
              /\ \/ run[r].pc = "loop" /\ WithinLimit(r)
                 \/ run[r].pc = "exec"
<1>1. \E n \in Nodes, status \in Failures :
         /\ FailAt(r, n, status)
         /\ \/ run[r].pc = "loop" /\ WithinLimit(r)
            \/ run[r].pc = "exec"
  <2>1. CASE TerminateAtHead(r)
    BY <2>1, TaskType DEF TerminateAtHead, TypeInv, Failures
  <2>2. CASE FailNode(r)
    BY <2>2 DEF FailNode, TypeInv, Busy, BusyRun, Failures
  <2> QED BY <2>1, <2>2
<1>2. PICK n \in Nodes, status \in Failures :
         /\ FailAt(r, n, status)
         /\ \/ run[r].pc = "loop" /\ WithinLimit(r)
            \/ run[r].pc = "exec"
  BY <1>1
<1>3. WriteOutcome(r, Push(run[r].data, Failed(n, status)), status)
  BY <1>2 DEF FailAt, Failed
<1> QED BY <1>2, <1>3, WriteOutcomeRun

LEMMA ConcludeRun ==
    ASSUME TypeInv, NEW r \in Requests, Conclude(r)
    PROVE  /\ Outcome(run[r], run'[r], run[r].data, FinalState(run[r].data),
                      Exists(run[r].rec))
           /\ \/ run[r].pc = "stopping"
              \/ run[r].pc = "loop" /\ run[r].queue.items = {}
BY WriteOutcomeRun DEF Conclude

LEMMA StopForHumanRun ==
    ASSUME TypeInv, NEW r \in Requests, StopForHuman(r)
    PROVE  /\ run'[r].pc = "stopping" /\ run[r].pc = "exec"
           /\ Kind[run[r].current] \in {"human", "agent"}
           /\ run'[r].data = Push(DataBefore(r),
                 [node |-> run[r].current, status |-> "STOPPED", branch |-> NoBranch])
           /\ run'[r].human = IF Answered(r) THEN NoNode ELSE run[r].human
           /\ run'[r].rec = run[r].rec /\ run'[r].queue = run[r].queue
           /\ run'[r].waiting = run[r].waiting /\ run'[r].row = run[r].row
           /\ run'[r].current = run[r].current
           /\ run'[r].iterations = run[r].iterations
<1>1. run \in [Requests -> Run] BY DEF TypeInv, TypeOK
<1> QED BY <1>1 DEF StopForHuman, Run

\* The data a node that finishes is pushed on.
DataAtFinish(r) == IF run[r].pc = "exec" THEN DataBefore(r) ELSE run[r].data

LEMMA FinishNodeRun ==
    ASSUME TypeInv, NEW r \in Requests, NEW branch, FinishNode(r, branch)
    PROVE  LET n   == run[r].current
               fed == FeedChildren(run[r].queue, run[r].waiting, n, branch)
           IN
           /\ run[r].pc \in {"exec", "iterate"} /\ run'[r].pc = "loop"
           /\ TakesBranch(r, branch)
           /\ run'[r].data = Push(DataAtFinish(r),
                 [node |-> n, status |-> "FINISHED", branch |-> branch])
           /\ run'[r].waiting = fed.waiting
           /\ run'[r].queue = IF LoopsBack(r)
                              THEN Push(fed.queue, [node |-> LoopTo[n], inputs |-> {}])
                              ELSE fed.queue
           /\ run'[r].human = IF LoopsBack(r) \/ Answered(r) THEN NoNode
                              ELSE run[r].human
           /\ run'[r].rec = run[r].rec /\ run'[r].row = run[r].row
           /\ run'[r].iterations = run[r].iterations
<1>1. run \in [Requests -> Run] BY DEF TypeInv, TypeOK
<1> QED BY <1>1 DEF FinishNode, DataAtFinish, Run

LEMMA BeginIterationRun ==
    ASSUME TypeInv, NEW r \in Requests, BeginIteration(r)
    PROVE  /\ run'[r].pc = "iterate" /\ run[r].pc = "exec"
           /\ Children(run[r].current) # {}
           /\ SameWork(run[r], run'[r]) /\ run'[r].row = run[r].row
           /\ run'[r].data = DataBefore(r)
<1>1. run \in [Requests -> Run] BY DEF TypeInv, TypeOK
<1> QED BY <1>1 DEF BeginIteration, SameWork, Run

LEMMA BeginItemRun ==
    ASSUME TypeInv, NEW r \in Requests, BeginItem(r)
    PROVE  /\ run'[r].pc \in {"iterate", "item"} /\ run[r].pc = "iterate"
           /\ SameHold(run[r], run'[r])
<1>1. run \in [Requests -> Run] BY DEF TypeInv, TypeOK
<1> QED BY <1>1 DEF BeginItem, SameHold, SameWork, Run

LEMMA ItemThrowsRun ==
    ASSUME TypeInv, NEW r \in Requests, ItemThrows(r)
    PROVE  /\ run'[r].pc = "iterate" /\ run[r].pc = "item"
           /\ SameHold(run[r], run'[r])
<1>1. run \in [Requests -> Run] BY DEF TypeInv, TypeOK
<1> QED BY <1>1 DEF ItemThrows, SameHold, SameWork, Run

LEMMA ItemReturnsRun ==
    ASSUME TypeInv, NEW r \in Requests, ItemReturns(r)
    PROVE  \E c \in Children(run[r].current), status \in {"FINISHED", "STOPPED"} :
              /\ status = "STOPPED" => Kind[c] \in {"agent", "human"}
              /\ run[r].pc = "item" /\ SameWork(run[r], run'[r])
              /\ run'[r].data = Push(run[r].data,
                    [node |-> c, status |-> status, branch |-> NoBranch])
              /\ \/ /\ Exists(run[r].rec) /\ run'[r].pc = "saving"
                    /\ run'[r].then = "iterate"
                    /\ run'[r].row = [state |-> records[run[r].rec].state,
                                      data |-> run'[r].data]
                 \/ /\ ~ Exists(run[r].rec) /\ run'[r].pc = "iterate"
                    /\ run'[r].row = run[r].row
<1>1. run \in [Requests -> Run] BY DEF TypeInv, TypeOK
<1>2. PICK c \in Children(run[r].current), status \in {"FINISHED", "STOPPED"} :
         /\ status = "STOPPED" => Kind[c] \in {"agent", "human"}
         /\ LET data == Push(run[r].data, [node |-> c, status |-> status,
                                           branch |-> NoBranch])
            IN  FoundRow(r, [run[r] EXCEPT !.data = data, !.left = @ - 1],
                         [state |-> records[run[r].rec].state, data |-> data],
                         "iterate", "iterate")
  BY DEF ItemReturns
<1> DEFINE data == Push(run[r].data, [node |-> c, status |-> status,
                                      branch |-> NoBranch])
<1>4. FoundRow(r, [run[r] EXCEPT !.data = data, !.left = @ - 1],
               [state |-> records[run[r].rec].state, data |-> data],
               "iterate", "iterate")
  BY <1>2
<1> HIDE DEF data
<1>5. /\ SameWork(run[r], run'[r]) /\ run'[r].data = data
      /\ \/ /\ Exists(run[r].rec) /\ run'[r].pc = "saving"
            /\ run'[r].then = "iterate"
            /\ run'[r].row = [state |-> records[run[r].rec].state, data |-> data]
         \/ /\ ~ Exists(run[r].rec) /\ run'[r].pc = "iterate"
            /\ run'[r].row = run[r].row
  BY <1>1, <1>4 DEF FoundRow, SameWork, Run
<1>6. run[r].pc = "item" BY DEF ItemReturns
<1> QED BY <1>2, <1>5, <1>6 DEF data

\* The same in fields, for the two other writes.
LEMMA ClaimFields ==
    ASSUME TypeInv, NEW r \in Requests, Claim(r)
    PROVE  \/ /\ Exists(run[r].rec) /\ run'[r].pc = "saving"
              /\ run'[r].then \in {"claiming", "loop"}
              /\ run'[r].row.state = "INPROGRESS"
              /\ run'[r].row.data = IF run[r].dropped THEN run[r].data
                                    ELSE records[run[r].rec].data
           \/ /\ ~ Exists(run[r].rec) /\ run'[r].pc = "rejected"
              /\ run'[r].row = run[r].row
<1> DEFINE data == IF run[r].dropped THEN run[r].data ELSE records[run[r].rec].data
           row  == [state |-> "INPROGRESS", data |-> data]
<1>1. row.state = "INPROGRESS" /\ row.data = data OBVIOUS
<1>2. run'[r].row = row \/ run'[r].pc = "rejected" BY ClaimRun
<1> HIDE DEF row
<1> QED BY <1>1, <1>2, ClaimRun

LEMMA ItemFields ==
    ASSUME TypeInv, NEW r \in Requests, ItemReturns(r)
    PROVE  /\ run[r].pc = "item" /\ SameWork(run[r], run'[r])
           /\ \/ /\ Exists(run[r].rec) /\ run'[r].pc = "saving"
                 /\ run'[r].then = "iterate"
                 /\ run'[r].row.state = records[run[r].rec].state
                 /\ run'[r].row.data = run'[r].data
              \/ /\ ~ Exists(run[r].rec) /\ run'[r].pc = "iterate"
                 /\ run'[r].row = run[r].row
<1> DEFINE row == [state |-> records[run[r].rec].state, data |-> run'[r].data]
<1>1. row.state = records[run[r].rec].state /\ row.data = run'[r].data OBVIOUS
<1>2. /\ run[r].pc = "item" /\ SameWork(run[r], run'[r])
      /\ \/ /\ Exists(run[r].rec) /\ run'[r].pc = "saving"
            /\ run'[r].then = "iterate" /\ run'[r].row = row
         \/ /\ ~ Exists(run[r].rec) /\ run'[r].pc = "iterate"
            /\ run'[r].row = run[r].row
  BY ItemReturnsRun
<1> HIDE DEF row
<1> QED BY <1>1, <1>2

LEMMA AbortRun ==
    ASSUME TypeInv, NEW r \in Requests, Abort(r)
    PROVE  /\ SameHold(run[r], run'[r]) /\ run'[r].pc = run[r].pc
           /\ run'[r].then = run[r].then /\ run[r].pc \in InFlight
<1>1. run \in [Requests -> Run] BY DEF TypeInv, TypeOK
<1> QED BY <1>1 DEF Abort, SameHold, SameWork, Run

LEMMA CrashRun ==
    ASSUME TypeInv, Crash, NEW r \in Requests
    PROVE  \/ /\ run[r].pc \in InFlight /\ run'[r].pc = "crashed"
              /\ SameHold(run[r], run'[r])
           \/ run[r].pc \notin InFlight /\ run'[r] = run[r]
<1>1. run \in [Requests -> Run] BY DEF TypeInv, TypeOK
<1>2. CASE r \in Active
  BY <1>1, <1>2 DEF Crash, Active, SameHold, SameWork, Run
<1>3. CASE r \notin Active
  BY <1>1, <1>3 DEF Crash, Active
<1> QED BY <1>2, <1>3


----------------------------------------------------------------------------
(***************************************************************************)
(* Least and greatest: the library's well-founded induction, as a fact on  *)
(* sets                                                                    *)
(***************************************************************************)
LEMMA LeastNatural ==
    ASSUME NEW S, S \subseteq Nat, S # {}
    PROVE  \E x \in S : \A y \in S : x <= y
<1> DEFINE R == OpToRel(<, Nat)
<1>1. IsWellFoundedOn(R, Nat) BY NatLessThanWellFounded
<1>2. ASSUME NEW x \in Nat, NEW y \in Nat, y < x PROVE <<y, x>> \in R
  <2>1. <<y, x>> \in Nat \X Nat OBVIOUS
  <2> QED BY <2>1, <1>2 DEF OpToRel
<1> HIDE DEF R
<1>3. PICK x \in S : \A y \in S : ~ (<<y, x>> \in R) BY <1>1, WFMin, Zenon
<1>4. ASSUME NEW y \in S PROVE x <= y
  <2>1. ~ (y < x) BY <1>2, <1>3
  <2>2. x \in Nat /\ y \in Nat OBVIOUS
  <2> QED BY <2>1, <2>2
<1> QED BY <1>4

LEMMA GreatestNatural ==
    ASSUME NEW S, S \subseteq Nat, S # {}, NEW b \in Nat, \A x \in S : x <= b
    PROVE  \E x \in S : \A y \in S : y <= x
<1> DEFINE T == {b - x : x \in S}
<1>1. \A x \in S : b - x \in Nat OBVIOUS
<1>2. T \subseteq Nat BY <1>1
<1>3. T # {} OBVIOUS
<1> HIDE DEF T
<1>4. PICK t \in T : \A u \in T : t <= u BY <1>2, <1>3, LeastNatural
<1>5. PICK x \in S : t = b - x BY DEF T
<1>6. ASSUME NEW y \in S PROVE y <= x
  <2>1. b - x <= b - y BY <1>4, <1>5 DEF T
  <2>2. x \in Nat /\ y \in Nat OBVIOUS
  <2> QED BY <2>1, <2>2
<1> QED BY <1>6

\* The first edge of a set of edges is one of them.
LEMMA EarliestIn ==
    ASSUME NEW S, S \subseteq DOMAIN Edges, S # {}
    PROVE  Earliest(S) \in S
<1>1. S \subseteq Nat BY FlowAssumption DEF FlowAssumption
<1>2. \E i \in S : \A j \in S : i <= j BY <1>1, LeastNatural
<1> QED BY <1>2 DEF Earliest
----------------------------------------------------------------------------
(***************************************************************************)
(* What feeds a node                                                       *)
(***************************************************************************)
\* The edges of one output of a decision lead to one node.
OneTargetPerOutput ==
    \A d \in Nodes : IsDecision(d) =>
        \A i, j \in OutEdges[d] :
            Edges[i].handle = Edges[j].handle => Edges[i].target = Edges[j].target

\* Node d finished, and handed its result to c along an output it took.
Backed(d, c, data) ==
    \E x \in data.items, i \in OutEdges[d] :
        /\ x.val.node = d /\ x.val.status = "FINISHED"
        /\ Edges[i].target = c
        /\ IsDecision(d) /\ OneTargetPerOutput
              => x.val.branch \in {Edges[i].handle, NoBranch}

\* What was handed to c: never by the node a human has yet to answer, whose items
\* the answer will take out of the data.
Rests(inputs, c, x) == \A d \in inputs : Backed(d, c, x.data) /\ d # x.human

FedRun(x) ==
    /\ \A t \in x.queue.items :
          /\ Rests(t.val.inputs, t.val.node, x)
          /\ t.val.inputs = {} \/ HasRequiredInputs(t.val.node, t.val.inputs)
    /\ \A c \in Nodes : Rests(x.waiting[c], c, x)

FedInv == \A r \in Requests : FedRun(run[r])

\* A decision hands its result on along the output it takes, and no other.
LEMMA DeliveredTaken ==
    ASSUME OneTargetPerOutput, NEW n \in Nodes, IsDecision(n),
           NEW branch, branch # NoBranch, NEW i \in Delivered(n, branch)
    PROVE  Edges[i].handle = branch
<1> SUFFICES ASSUME Edges[i].handle # branch PROVE FALSE OBVIOUS
<1> DEFINE h == Edges[i].handle
           S == {j \in OutEdges[n] : Edges[j].handle = h}
<1>1. i \in OutEdges[n] /\ Edges[i].target \notin NodesToIgnore(n, branch)
  BY DEF Delivered
<1>2. h \in Handles[n] \ {branch} BY <1>1 DEF Handles
<1>3. S \subseteq DOMAIN Edges /\ S # {} BY <1>1 DEF OutEdges
<1>4. Earliest(S) \in S BY <1>3, EarliestIn
<1>5. Edges[Earliest(S)].target \in NodesToIgnore(n, branch)
  BY <1>2 DEF NodesToIgnore
<1>6. Edges[Earliest(S)].target = Edges[i].target
  BY <1>1, <1>4 DEF OneTargetPerOutput
<1> QED BY <1>1, <1>5, <1>6

\* A queue grows by the children that have all they need.
LEMMA FedQueue ==
    ASSUME NEW queue, NEW waiting, NEW n, NEW branch,
           NEW t \in FeedChildren(queue, waiting, n, branch).queue.items
    PROVE  \/ t \in queue.items
           \/ \E i \in Delivered(n, branch) :
                 /\ t.val.node = Edges[i].target
                 /\ t.val.inputs \subseteq waiting[Edges[i].target] \cup {n}
                 /\ HasRequiredInputs(t.val.node, t.val.inputs)
<1> DEFINE out == Delivered(n, branch)
           Got(i) == ReceivedAlong(i, n, out, waiting)
           Task0(i) == [at |-> queue.next + i - 1,
                        val |-> [node |-> Edges[i].target, inputs |-> Got(i)]]
           ready == {i \in out : HasRequiredInputs(Edges[i].target, Got(i))}
<1>1. \A i \in out : Got(i) \subseteq waiting[Edges[i].target] \cup {n}
  BY DEF ReceivedAlong
<1>2. FeedChildren(queue, waiting, n, branch).queue.items
        = queue.items \cup {Task0(i) : i \in ready}
  BY DEF FeedChildren
<1>3. ASSUME NEW i \in ready, t = Task0(i)
      PROVE  /\ i \in out /\ t.val.node = Edges[i].target
             /\ t.val.inputs = Got(i)
             /\ HasRequiredInputs(Edges[i].target, Got(i))
  <2>1. i \in out /\ HasRequiredInputs(Edges[i].target, Got(i)) OBVIOUS
  <2> HIDE DEF Got, out
  <2>2. t.val.node = Edges[i].target /\ t.val.inputs = Got(i) BY <1>3
  <2> QED BY <2>1, <2>2
<1> HIDE DEF Got, Task0, ready, out
<1>4. CASE \E i \in ready : t = Task0(i)
  BY <1>1, <1>3, <1>4 DEF out
<1> QED BY <1>2, <1>4

\* So do the waiting children, by the node that finished.
LEMMA FedWaiting ==
    ASSUME NEW queue, NEW waiting, NEW n, NEW branch, NEW c \in Nodes,
           NEW d \in FeedChildren(queue, waiting, n, branch).waiting[c]
    PROVE  \/ d \in waiting[c]
           \/ d = n /\ \E i \in Delivered(n, branch) : Edges[i].target = c
<1> DEFINE out == Delivered(n, branch)
           Got(i) == ReceivedAlong(i, n, out, waiting)
<1>1. \A i \in out : Got(i) \subseteq waiting[Edges[i].target] \cup {n}
  BY DEF ReceivedAlong
<1> HIDE DEF Got
<1>2. \/ d \in waiting[c]
      \/ \E i \in out : Edges[i].target = c /\ d \in Got(i)
  BY DEF FeedChildren, Got
<1> QED BY <1>1, <1>2

LEMMA BackedGrows ==
    ASSUME NEW d, NEW c, NEW data, NEW more, data.items \subseteq more.items,
           Backed(d, c, data)
    PROVE  Backed(d, c, more)
BY DEF Backed

\* A run that is fed as before, and forgets nothing of its data.
LEMMA FedStays ==
    ASSUME NEW x, NEW y, FedRun(x), y.queue.items \subseteq x.queue.items,
           y.waiting = x.waiting,
           y.human = x.human \/ (y.human = NoNode /\ NoNode \notin Nodes),
           \A c \in Nodes : x.waiting[c] \subseteq Nodes,
           \A t \in x.queue.items : t.val.inputs \subseteq Nodes,
           \A d \in Nodes \ {x.human} : \A c :
               Backed(d, c, x.data) => Backed(d, c, y.data)
    PROVE  FedRun(y)
BY DEF FedRun, Rests


LEMMA RunTypes ==
    ASSUME TypeInv, NEW r \in Requests
    PROVE  /\ run[r] \in Run /\ run[r].data \in Logs(Entry)
           /\ run[r].queue \in Logs(Task)
           /\ \A t \in run[r].queue.items :
                 t.val.node \in Nodes /\ t.val.inputs \subseteq Nodes
           /\ run[r].waiting \in [Nodes -> SUBSET Nodes]
           /\ \A c \in Nodes : run[r].waiting[c] \subseteq Nodes
           /\ NoNode \notin Nodes
<1>1. run[r] \in Run BY DEF TypeInv, TypeOK
<1>2. run[r].queue \in Logs(Task) BY <1>1 DEF Run
<1>3. \A t \in run[r].queue.items : t.val.node \in Nodes /\ t.val.inputs \subseteq Nodes
  BY <1>2 DEF Logs, Items, Task
<1> QED BY <1>1, <1>2, <1>3, FlowAssumption DEF Run, FlowAssumption

LEMMA PushItems ==
    ASSUME NEW log, NEW v
    PROVE  Push(log, v).items = log.items \cup {[at |-> log.next, val |-> v]}
BY DEF Push

\* The items an answer takes out back nothing that was fed.
LEMMA BackedBefore ==
    ASSUME TypeInv, NEW r \in Requests, NEW d \in Nodes \ {run[r].human}, NEW c,
           Backed(d, c, run[r].data)
    PROVE  Backed(d, c, DataBefore(r))
<1>1. CASE ~ Answered(r) BY <1>1 DEF DataBefore
<1>2. CASE Answered(r)
  <2>1. run[r].data \in Logs(Entry) BY RunTypes
  <2>2. DataBefore(r).items =
          run[r].data.items \ {x \in run[r].data.items : x.val.node = run[r].current}
    BY <1>2, <2>1 DEF DataBefore, Without, Logs
  <2>3. d # run[r].current BY <1>2 DEF Answered
  <2> QED BY <2>2, <2>3 DEF Backed
<1> QED BY <1>1, <1>2

LEMMA BackedOnPush ==
    ASSUME NEW d, NEW c, NEW data, NEW v, Backed(d, c, data)
    PROVE  Backed(d, c, Push(data, v))
BY PushItems, BackedGrows

\* A step of a request that only pushes on its data.
LEMMA FedHold ==
    ASSUME TypeInv, FedInv, NEW r \in Requests, SameWork(run[r], run'[r]),
           \/ run'[r].data = run[r].data
           \/ \E v : run'[r].data = Push(run[r].data, v)
    PROVE  FedRun(run'[r])
<1>1. FedRun(run[r]) BY DEF FedInv
<1>2. \A d \in Nodes \ {run[r].human} : \A c :
          Backed(d, c, run[r].data) => Backed(d, c, run'[r].data)
  BY BackedOnPush
<1> QED BY <1>1, <1>2, FedStays, RunTypes DEF SameWork

LEMMA FedStart ==
    ASSUME NEW x, x.waiting = Nowhere, NEW n,
           x.queue = StartTask(n) \/ x.queue = EmptyLog
    PROVE  FedRun(x)
<1>1. \A t \in x.queue.items : t.val.inputs = {}
  BY DEF StartTask, EmptyLog, Push
<1> QED BY <1>1 DEF FedRun, Rests, Nowhere

\* A node that finishes hands its result to its children, and to no other.
LEMMA FedByFinish ==
    ASSUME TypeInv, FedInv, NEW r \in Requests, NEW branch, FinishNode(r, branch)
    PROVE  FedRun(run'[r])
<1> DEFINE n   == run[r].current
           fed == FeedChildren(run[r].queue, run[r].waiting, n, branch)
           v   == [node |-> n, status |-> "FINISHED", branch |-> branch]
<1>1. /\ run[r].pc \in {"exec", "iterate"}
      /\ run'[r].data = Push(DataAtFinish(r), v)
      /\ run'[r].waiting = fed.waiting
      /\ run'[r].queue = IF LoopsBack(r)
                         THEN Push(fed.queue, [node |-> LoopTo[n], inputs |-> {}])
                         ELSE fed.queue
      /\ run'[r].human = IF LoopsBack(r) \/ Answered(r) THEN NoNode ELSE run[r].human
  BY FinishNodeRun
<1>2. n \in Nodes /\ n # run'[r].human
  BY <1>1, RunTypes DEF TypeInv, Busy, BusyRun, Answered
<1>3. \A d \in Nodes \ {run[r].human} : \A c :
          Backed(d, c, run[r].data) => Backed(d, c, run'[r].data)
  BY <1>1, BackedBefore, BackedOnPush DEF DataAtFinish
<1>4. ASSUME NEW i \in Delivered(n, branch)
      PROVE  Backed(n, Edges[i].target, run'[r].data)
  <2>1. i \in OutEdges[n] BY DEF Delivered
  <2>2. IsDecision(n) /\ OneTargetPerOutput => branch \in {Edges[i].handle, NoBranch}
    BY <1>2, DeliveredTaken
  <2> DEFINE item == [at |-> DataAtFinish(r).next, val |-> v]
  <2>3. item \in run'[r].data.items BY <1>1, PushItems
  <2>4. item.val.node = n /\ item.val.status = "FINISHED" /\ item.val.branch = branch
    OBVIOUS
  <2> HIDE DEF item
  <2> QED BY <2>1, <2>2, <2>3, <2>4 DEF Backed
<1>5. ASSUME NEW c \in Nodes, NEW d \in run[r].waiting[c]
      PROVE  Backed(d, c, run'[r].data) /\ d # run'[r].human
  <2>1. Backed(d, c, run[r].data) /\ d # run[r].human BY DEF FedInv, FedRun, Rests
  <2>2. d \in Nodes BY RunTypes
  <2> QED BY <1>1, <1>3, <2>1, <2>2, RunTypes
<1> HIDE DEF fed, v
<1>6. ASSUME NEW c \in Nodes PROVE Rests(run'[r].waiting[c], c, run'[r])
  <2> SUFFICES ASSUME NEW d \in run'[r].waiting[c]
               PROVE  Backed(d, c, run'[r].data) /\ d # run'[r].human
    BY DEF Rests
  <2>1. \/ d \in run[r].waiting[c]
        \/ d = n /\ \E i \in Delivered(n, branch) : Edges[i].target = c
    BY <1>1, FedWaiting DEF fed
  <2> QED BY <2>1, <1>2, <1>4, <1>5
<1>7. ASSUME NEW t \in fed.queue.items
      PROVE  /\ Rests(t.val.inputs, t.val.node, run'[r])
             /\ t.val.inputs = {} \/ HasRequiredInputs(t.val.node, t.val.inputs)
  <2>1. CASE t \in run[r].queue.items
    <3>1. /\ Rests(t.val.inputs, t.val.node, run[r])
          /\ t.val.inputs = {} \/ HasRequiredInputs(t.val.node, t.val.inputs)
      BY <2>1 DEF FedInv, FedRun
    <3>2. ASSUME NEW d \in t.val.inputs
          PROVE  Backed(d, t.val.node, run'[r].data) /\ d # run'[r].human
      <4>1. d \in Nodes /\ d # run[r].human /\ Backed(d, t.val.node, run[r].data)
        BY <2>1, <3>1, RunTypes DEF Rests
      <4> QED BY <4>1, <1>1, <1>3, RunTypes
    <3> QED BY <3>1, <3>2 DEF Rests
  <2>2. CASE \E i \in Delivered(n, branch) :
                /\ t.val.node = Edges[i].target
                /\ t.val.inputs \subseteq run[r].waiting[Edges[i].target] \cup {n}
                /\ HasRequiredInputs(t.val.node, t.val.inputs)
    <3>1. PICK i \in Delivered(n, branch) :
                /\ t.val.node = Edges[i].target
                /\ t.val.inputs \subseteq run[r].waiting[Edges[i].target] \cup {n}
                /\ HasRequiredInputs(t.val.node, t.val.inputs)
      BY <2>2
    <3>2. Edges[i].target \in Nodes BY <1>2, EdgeType DEF Delivered, OutEdges
    <3>3. ASSUME NEW d \in t.val.inputs
          PROVE  Backed(d, t.val.node, run'[r].data) /\ d # run'[r].human
      BY <3>1, <3>2, <1>2, <1>4, <1>5
    <3> QED BY <3>1, <3>3 DEF Rests
  <2> QED BY <2>1, <2>2, FedQueue DEF fed
<1>8. ASSUME NEW t \in run'[r].queue.items
      PROVE  /\ Rests(t.val.inputs, t.val.node, run'[r])
             /\ t.val.inputs = {} \/ HasRequiredInputs(t.val.node, t.val.inputs)
  <2>1. t \in fed.queue.items \/ t.val.inputs = {} BY <1>1, PushItems
  <2> QED BY <2>1, <1>7 DEF Rests
<1> QED BY <1>6, <1>8 DEF FedRun

LEMMA FedByStop ==
    ASSUME TypeInv, FedInv, NEW r \in Requests, StopForHuman(r)
    PROVE  FedRun(run'[r])
<1>1. FedRun(run[r]) BY DEF FedInv
<1>2. \A d \in Nodes \ {run[r].human} : \A c :
          Backed(d, c, run[r].data) => Backed(d, c, run'[r].data)
  <2>1. \E v : run'[r].data = Push(DataBefore(r), v) BY StopForHumanRun
  <2> QED BY <2>1, BackedBefore, BackedOnPush
<1> QED BY <1>1, <1>2, FedStays, RunTypes, StopForHumanRun

LEMMA FedByIteration ==
    ASSUME TypeInv, FedInv, NEW r \in Requests, BeginIteration(r)
    PROVE  FedRun(run'[r])
<1>1. FedRun(run[r]) BY DEF FedInv
<1>2. \A d \in Nodes \ {run[r].human} : \A c :
          Backed(d, c, run[r].data) => Backed(d, c, run'[r].data)
  BY BeginIterationRun, BackedBefore
<1> QED BY <1>1, <1>2, FedStays, RunTypes, BeginIterationRun DEF SameWork

LEMMA FedByBegin ==
    ASSUME TypeInv, FedInv, NEW r \in Requests, BeginNode(r)
    PROVE  FedRun(run'[r])
<1>1. FedRun(run[r]) BY DEF FedInv
<1>2. PICK task \in run[r].queue.items :
              /\ run'[r].queue = Without(run[r].queue, {task})
              /\ run'[r].human = run[r].human
              /\ run'[r].waiting = run[r].waiting /\ run'[r].data = run[r].data
  BY BeginNodeRun
<1>3. run'[r].queue.items \subseteq run[r].queue.items
  BY <1>2, RunTypes DEF Without, Logs
<1> QED BY <1>1, <1>2, <1>3, FedStays, RunTypes

LEMMA FedStep ==
    ASSUME TypeInv, FedInv, [Next]_vars PROVE FedInv'
<1>1. ASSUME NEW r \in Requests, Advance(r) PROVE FedRun(run'[r])
  <2>1. CASE Claim(r) BY <2>1, ClaimRun, FedHold
  <2>2. CASE SaveRow(r) BY <2>2, SaveRowRun, FedHold
  <2>3. CASE OverrunIterations(r) BY <2>3, OverrunRun, FedHold DEF SameHold
  <2>4. CASE TerminateAtHead(r) \/ FailNode(r) BY <2>4, FailRun, FedHold DEF Outcome
  <2>5. CASE BeginItem(r) BY <2>5, BeginItemRun, FedHold DEF SameHold
  <2>6. CASE ItemReturns(r) BY <2>6, ItemReturnsRun, FedHold
  <2>7. CASE ItemThrows(r) BY <2>7, ItemThrowsRun, FedHold DEF SameHold
  <2>8. CASE Conclude(r) BY <2>8, ConcludeRun, FedHold DEF Outcome
  <2> QED BY <1>1, <2>1, <2>2, <2>3, <2>4, <2>5, <2>6, <2>7, <2>8, FedByBegin,
             FedByStop, FedByFinish, FedByIteration DEF Advance
<1>2. ASSUME NEW r \in Requests, Arrive(r) PROVE FedRun(run'[r])
  <2>1. CASE StartFlow(r) BY <2>1, StartFlowRun, FedStart
  <2>2. ASSUME NEW asked, NEW answer, LoadPrevious(r, asked, answer)
        PROVE  FedRun(run'[r])
    BY <2>2, LoadPreviousRun, FedStart
  <2>3. ASSUME NEW asked, RejectResume(r, asked) PROVE FedRun(run'[r])
    BY <2>3, RejectResumeRun, FedHold DEF SameHold
  <2> QED BY <1>2, <2>1, <2>2, <2>3 DEF Arrive
<1>3. ASSUME NEW r \in Requests, Abort(r) PROVE FedRun(run'[r])
  BY <1>3, AbortRun, FedHold DEF SameHold
<1>4. ASSUME NEW r \in Requests, Arrive(r) \/ Advance(r) \/ Abort(r) PROVE FedInv'
  BY <1>1, <1>2, <1>3, <1>4, OthersStay DEF FedInv
<1>5. CASE Crash
  <2>1. ASSUME NEW r \in Requests PROVE FedRun(run'[r])
    BY <1>5, CrashRun, FedHold DEF SameHold, FedInv
  <2> QED BY <2>1 DEF FedInv
<1>6. CASE UNCHANGED run BY <1>6 DEF FedInv
<1> QED BY <1>4, <1>5, <1>6 DEF Next, vars, DeleteExecution

LEMMA FedInit == Init => FedInv
<1> SUFFICES ASSUME Init, NEW r \in Requests PROVE FedRun(run[r]) BY DEF FedInv
<1>1. run[r].waiting = Nowhere /\ run[r].queue = EmptyLog
  BY DEF Init, Fresh, Nowhere
<1> QED BY <1>1, FedStart

LEMMA FedAlways == Spec => []FedInv
<1>1. Spec => []TypeInv BY TypeInit, TypeStep, PTL DEF Spec
<1> QED BY <1>1, FedInit, FedStep, PTL DEF Spec

\* A node is only ever fed by nodes that finished in this execution, for any flow
\* and any number of requests resuming it: what feeds a node waits for the answer of
\* no human, so the filter of a resume never takes its result away.
THEOREM FedByFinishedHolds == Spec => []FedByFinished
<1>1. FedInv => FedByFinished
  BY DEF FedInv, FedRun, Rests, Backed, FedByFinished, Finished, Active
<1> QED BY <1>1, FedAlways, PTL

\* Where each output of a decision leads to one node, nothing is queued along an
\* output that was not taken: leaving out the first target of every other output
\* (determineNodesToIgnore) is then enough.  With two targets on one output it is
\* not, and the second is fed whatever the decision.
THEOREM OnlyFulfilledBranchesHolds ==
    ASSUME OneTargetPerOutput PROVE Spec => []OnlyFulfilledBranches
<1>1. FedInv => OnlyFulfilledBranches
  BY DEF FedInv, FedRun, Rests, Backed, OnlyFulfilledBranches, Active
<1> QED BY <1>1, FedAlways, PTL


----------------------------------------------------------------------------
(***************************************************************************)
(* Walks up the canvas: recursive functions, by the least number at which  *)
(* they could go wrong                                                     *)
(***************************************************************************)
\* f walks N steps of g from a.
Walks(f, D, g, a, N) ==
    f \in [0 .. N -> D] /\ f[0] = a /\ \A k \in 1 .. N : f[k] = g[f[k - 1]]

\* A function on the first naturals may be given by its first value and a step.
LEMMA Iterated ==
    ASSUME NEW D, NEW g \in [D -> D], NEW a \in D, NEW N \in Nat
    PROVE  \E f : Walks(f, D, g, a, N)
<1> DEFINE Has(m) == \E f \in [0 .. m -> D] :
                        f[0] = a /\ \A k \in 1 .. m : f[k] = g[f[k - 1]]
           Bad == {m \in Nat : ~ Has(m)}
<1>1. Has(0)
  <2>1. [k \in 0 .. 0 |-> a] \in [0 .. 0 -> D] OBVIOUS
  <2>2. [k \in 0 .. 0 |-> a][0] = a OBVIOUS
  <2>3. 1 .. 0 = {} OBVIOUS
  <2> QED BY <2>1, <2>2, <2>3
<1>2. ASSUME NEW m \in Nat, Has(m) PROVE Has(m + 1)
  <2>1. PICK f \in [0 .. m -> D] : f[0] = a /\ \A k \in 1 .. m : f[k] = g[f[k - 1]]
    BY <1>2
  <2> DEFINE h == [k \in 0 .. m + 1 |-> IF k = m + 1 THEN g[f[m]] ELSE f[k]]
  <2>2. h \in [0 .. m + 1 -> D]
    <3>1. \A k \in 0 .. m + 1 : k = m + 1 \/ k \in 0 .. m OBVIOUS
    <3>2. f[m] \in D BY <2>1
    <3> QED BY <2>1, <3>1, <3>2
  <2>3. h[0] = a BY <2>1
  <2>4. ASSUME NEW k \in 1 .. m + 1 PROVE h[k] = g[h[k - 1]]
    <3>1. CASE k = m + 1 BY <3>1
    <3>2. CASE k # m + 1
      <4>1. k \in 1 .. m /\ k \in 0 .. m + 1 /\ k - 1 \in 0 .. m + 1 /\ k - 1 # m + 1
        BY <3>2
      <4>2. h[k] = f[k] /\ h[k - 1] = f[k - 1] BY <3>2, <4>1
      <4> QED BY <2>1, <4>1, <4>2
    <3> QED BY <3>1, <3>2
  <2> HIDE DEF h
  <2> QED BY <2>2, <2>3, <2>4
<1> HIDE DEF Has
<1>3. CASE Bad = {}
  <2>1. Has(N) BY <1>3
  <2> QED BY <2>1 DEF Has, Walks
<1>4. CASE Bad # {}
  <2>1. Bad \subseteq Nat OBVIOUS
  <2>2. PICK m \in Bad : \A k \in Bad : m <= k BY <1>4, <2>1, LeastNatural
  <2>3. m \in Nat /\ m # 0 BY <1>1, <2>2
  <2>4. m - 1 \in Nat /\ m - 1 \notin Bad BY <2>2, <2>3
  <2>5. Has((m - 1) + 1) BY <1>2, <2>4
  <2> QED BY <2>2, <2>3, <2>5
<1> QED BY <1>3, <1>4 DEF Has, Walks

\* The engine's walk takes one incoming edge at a time, until there is none.
LEMMA AncestorWalk ==
    ASSUME NEW n \in Nodes
    PROVE  LET up == Ancestor(n)
               N  == Cardinality(Nodes)
           IN
           /\ N \in Nat /\ DOMAIN up = 0 .. N /\ up[0] = n
           /\ \A k \in 0 .. N : up[k] \in Nodes \cup {NoNode}
           /\ \A k \in 1 .. N :
                 \/ up[k] = NoNode
                 \/ up[k - 1] \in Nodes /\ up[k] \in Sources[up[k - 1]]
<1> DEFINE N == Cardinality(Nodes)
           D == Nodes \cup {NoNode}
           G(m) == IF m = NoNode THEN NoNode
                   ELSE IF InEdges[m] = {} THEN NoNode
                   ELSE Edges[Earliest(InEdges[m])].source
           g == [m \in D |-> G(m)]
<1>1. ASSUME NEW m \in Nodes, InEdges[m] # {}
      PROVE G(m) \in Sources[m] /\ G(m) \in Nodes
  <2>1. InEdges[m] \subseteq DOMAIN Edges BY DEF InEdges
  <2>2. Earliest(InEdges[m]) \in InEdges[m] BY <1>1, <2>1, EarliestIn
  <2>3. m # NoNode BY FlowAssumption DEF FlowAssumption
  <2>4. G(m) = Edges[Earliest(InEdges[m])].source BY <1>1, <2>3
  <2> QED BY <2>1, <2>2, <2>4, EdgeType DEF Sources
<1>2. ASSUME NEW m \in D PROVE G(m) = NoNode \/ (m \in Nodes /\ G(m) \in Sources[m] /\ G(m) \in Nodes)
  BY <1>1
<1> HIDE DEF G
<1>3. g \in [D -> D] /\ \A m \in D : g[m] = G(m) BY <1>2
<1>4. N \in Nat BY FlowAssumption, FS_CardinalityType DEF FlowAssumption
<1>0. n \in D /\ NoNode \notin Nodes BY FlowAssumption DEF FlowAssumption
<1> HIDE DEF N, g, D
<1>5. PICK f \in [0 .. N -> D] : f[0] = n /\ \A k \in 1 .. N : f[k] = g[f[k - 1]]
  <2>1. g \in [D -> D] /\ n \in D BY <1>0, <1>3
  <2>2. \E f : Walks(f, D, g, n, N) BY <2>1, <1>4, Iterated
  <2> QED BY <2>2 DEF Walks
<1>6. ASSUME NEW k \in 0 .. N PROVE f[k] = IF k = 0 THEN n ELSE G(f[k - 1])
  <2>1. CASE k # 0
    <3>1. k \in 1 .. N /\ k - 1 \in 0 .. N BY <2>1, <1>4
    <3> QED BY <3>1, <2>1, <1>3, <1>5
  <2> QED BY <2>1, <1>5
<1>7. f = [k \in 0 .. N |-> IF k = 0 THEN n ELSE G(f[k - 1])]
  BY <1>5, <1>6
<1> DEFINE up == CHOOSE h : h = [k \in 0 .. N |-> IF k = 0 THEN n ELSE G(h[k - 1])]
<1>8. up = [k \in 0 .. N |-> IF k = 0 THEN n ELSE G(up[k - 1])]
  BY <1>7
<1>9. Ancestor(n) = up BY DEF Ancestor, N, G
<1> HIDE DEF up
<1>10. up[0] = n BY <1>4, <1>8
<1>11. ASSUME NEW k \in 1 .. N PROVE up[k] = G(up[k - 1]) BY <1>4, <1>8
<1> DEFINE T == {k \in Nat : k \in 0 .. N /\ up[k] \notin D}
<1>12. T = {}
  <2> SUFFICES ASSUME T # {} PROVE FALSE OBVIOUS
  <2>1. PICK k \in T : \A j \in T : k <= j BY LeastNatural
  <2>2. k \in 1 .. N /\ k - 1 \in 0 .. N /\ k - 1 \notin T
    BY <2>1, <1>0, <1>4, <1>10
  <2>3. up[k - 1] \in D BY <2>2, <1>4
  <2>4. G(up[k - 1]) \in D BY <2>3, <1>2 DEF D
  <2> QED BY <2>1, <2>2, <2>4, <1>11
<1>13. \A k \in 0 .. N : up[k] \in D BY <1>12, <1>4
<1>14. ASSUME NEW k \in 1 .. N
      PROVE  \/ up[k] = NoNode
             \/ up[k - 1] \in Nodes /\ up[k] \in Sources[up[k - 1]]
  <2>1. k - 1 \in 0 .. N BY <1>4
  <2>2. up[k - 1] \in Nodes \cup {NoNode} BY <2>1, <1>13 DEF D
  <2> QED BY <2>2, <1>2, <1>11 DEF D
<1>15. DOMAIN up = 0 .. N BY <1>8
<1> QED BY <1>4, <1>9, <1>10, <1>13, <1>14, <1>15 DEF N, D

Layer(S) == S \cup UNION {Sources[m] : m \in S}

\* All the nodes above n, layer by layer.
LEMMA AboveWalk ==
    ASSUME NEW n \in Nodes
    PROVE  \E up : /\ Above(n) = up[Cardinality(Nodes)] /\ up[0] = {n}
                   /\ \A k \in 1 .. Cardinality(Nodes) : up[k] = Layer(up[k - 1])
<1> DEFINE N == Cardinality(Nodes)
           D == SUBSET Nodes
           g == [S \in D |-> Layer(S)]
<1>1. ASSUME NEW S \in D PROVE Layer(S) \in D
  <2>1. ASSUME NEW m \in Nodes PROVE Sources[m] \subseteq Nodes
    BY EdgeType DEF Sources, InEdges
  <2> QED BY <2>1 DEF Layer
<1>2. g \in [D -> D] /\ \A S \in D : g[S] = Layer(S) BY <1>1
<1>3. N \in Nat BY FlowAssumption, FS_CardinalityType DEF FlowAssumption
<1>4. {n} \in D OBVIOUS
<1> HIDE DEF N, g, D
<1>5. PICK f : Walks(f, D, g, {n}, N)
  <2>1. g \in [D -> D] /\ {n} \in D BY <1>2, <1>4
  <2> QED BY <2>1, <1>3, Iterated
<1>6. ASSUME NEW k \in 0 .. N PROVE f[k] = IF k = 0 THEN {n} ELSE Layer(f[k - 1])
  <2>1. CASE k # 0
    <3>1. k \in 1 .. N /\ k - 1 \in 0 .. N BY <2>1, <1>3
    <3> QED BY <3>1, <2>1, <1>2, <1>5 DEF Walks
  <2> QED BY <2>1, <1>5 DEF Walks
<1>7. f = [k \in 0 .. N |-> IF k = 0 THEN {n} ELSE Layer(f[k - 1])]
  BY <1>5, <1>6 DEF Walks
<1> DEFINE up == CHOOSE h : h = [k \in 0 .. N |-> IF k = 0 THEN {n} ELSE Layer(h[k - 1])]
<1>8. up = [k \in 0 .. N |-> IF k = 0 THEN {n} ELSE Layer(up[k - 1])]
  BY <1>7
<1>9. Above(n) = up[N] BY DEF Above, N, Layer
<1> HIDE DEF up
<1>10. up[0] = {n} BY <1>3, <1>8
<1>11. ASSUME NEW k \in 1 .. N PROVE up[k] = Layer(up[k - 1])
  <2>1. k \in 0 .. N /\ k # 0 BY <1>3
  <2> QED BY <2>1, <1>8
<1> QED BY <1>9, <1>10, <1>11 DEF N

\* What the engine's walk meets is above the node.
LEMMA AncestorAbove ==
    ASSUME NEW n \in Nodes, NEW k \in 0 .. Cardinality(Nodes),
           Ancestor(n)[k] # NoNode
    PROVE  Ancestor(n)[k] \in Above(n)
<1> DEFINE N   == Cardinality(Nodes)
           anc == Ancestor(n)
<1>1. /\ N \in Nat /\ anc[0] = n
      /\ \A j \in 0 .. N : anc[j] \in Nodes \cup {NoNode}
      /\ \A j \in 1 .. N :
            anc[j] = NoNode \/ (anc[j - 1] \in Nodes /\ anc[j] \in Sources[anc[j - 1]])
  BY AncestorWalk
<1>2. PICK up : /\ Above(n) = up[N] /\ up[0] = {n}
                /\ \A j \in 1 .. N : up[j] = Layer(up[j - 1])
  BY AboveWalk
<1>0. NoNode \notin Nodes BY FlowAssumption DEF FlowAssumption
<1> HIDE DEF N, anc
<1> DEFINE T == {j \in Nat : j \in 0 .. N /\ anc[j] # NoNode /\ anc[j] \notin up[j]}
           U == {j \in Nat : j \in 0 .. N /\ ~ (up[j] \subseteq up[N])}
<1>3. T = {}
  <2> SUFFICES ASSUME T # {} PROVE FALSE OBVIOUS
  <2>1. PICK j \in T : \A i \in T : j <= i BY LeastNatural
  <2>2. j \in 1 .. N /\ j - 1 \in 0 .. N /\ j - 1 \in Nat /\ j - 1 \notin T
    BY <2>1, <1>1, <1>2
  <2>3. anc[j - 1] \in Nodes /\ anc[j] \in Sources[anc[j - 1]] BY <2>1, <2>2, <1>1
  <2>4. anc[j - 1] \in up[j - 1] BY <2>2, <2>3, <1>0
  <2>5. anc[j] \in up[j] BY <2>2, <2>3, <2>4, <1>2 DEF Layer
  <2> QED BY <2>1, <2>5
<1>4. U = {}
  <2> SUFFICES ASSUME U # {} PROVE FALSE OBVIOUS
  <2>1. U \subseteq Nat /\ \A i \in U : i <= N BY <1>1
  <2>2. PICK j \in U : \A i \in U : i <= j BY <2>1, <1>1, GreatestNatural
  <2>3. j \in 0 .. N /\ j # N BY <2>2
  <2>4. j + 1 \in 1 .. N /\ j + 1 \in Nat /\ j + 1 \notin U BY <2>2, <2>3, <1>1
  <2>5. up[j + 1] = Layer(up[(j + 1) - 1]) BY <2>4, <1>2
  <2>6. up[j] \subseteq up[j + 1] BY <2>3, <2>5, <1>1 DEF Layer
  <2> QED BY <2>2, <2>4, <2>6, <1>1
<1>5. k \in 0 .. N /\ k \in Nat BY DEF N
<1>6. anc[k] \in up[k] BY <1>3, <1>5 DEF anc
<1> QED BY <1>2, <1>4, <1>5, <1>6 DEF anc

\* A parent that no decision can leave out is one the engine waits for.
LEMMA UnconditionalExpected ==
    ASSUME NEW c \in Nodes, NEW p \in Sources[c], p \in Unconditional, ~ IsDecision(p)
    PROVE  p \in ExpectedInputs[c]
<1> DEFINE up   == Ancestor(p)
           hits == {k \in DOMAIN up : up[k] # NoNode /\ IsDecision(up[k])}
<1>1. p \in Nodes BY DEF Unconditional
<1>2. DOMAIN up = 0 .. Cardinality(Nodes) BY <1>1, AncestorWalk
<1>3. ASSUME NEW k \in hits PROVE FALSE
  <2>1. up[k] \in Above(p) BY <1>1, <1>2, AncestorAbove
  <2> QED BY <2>1 DEF Unconditional
<1>4. hits = {} BY <1>3
<1>5. ConditionParent[p] = NoNode BY <1>1, <1>4 DEF ConditionParent
<1> QED BY <1>5 DEF ExpectedInputs

\* A join waits for every parent that no decision can leave out, on any flow: the
\* engine's walk up the first incoming edge, which looks for the condition above a
\* parent, cannot find one where no path has one.
THEOREM JoinCompleteHolds == Spec => []JoinComplete
<1>1. ASSUME TypeInv, FedInv PROVE JoinComplete
  <2> SUFFICES ASSUME NEW r \in Active, NEW t \in run[r].queue.items,
                      t.val.inputs # {}, NEW p \in Sources[t.val.node],
                      p \in Unconditional, ~ IsDecision(p)
               PROVE  p \in t.val.inputs
    BY DEF JoinComplete
  <2>0. r \in Requests BY DEF Active
  <2>1. HasRequiredInputs(t.val.node, t.val.inputs) BY <1>1, <2>0 DEF FedInv, FedRun
  <2>2. t.val.node \in Nodes BY <1>1, <2>0, RunTypes
  <2> QED BY <2>1, <2>2, UnconditionalExpected DEF HasRequiredInputs
<1>2. Spec => []TypeInv BY TypeInit, TypeStep, PTL DEF Spec
<1> QED BY <1>1, <1>2, FedAlways, PTL


----------------------------------------------------------------------------
(***************************************************************************)
(* Whom an answer reaches                                                  *)
(***************************************************************************)
\* Where a request stands, or will when its row is saved.
At(x) == IF x.pc = "saving" THEN x.then ELSE x.pc

\* The human's answer is on its way to its node: the node is all that is queued,
\* then it is the node being executed; the run only ends before if it fails.
OnItsWay(x) ==
    /\ At(x) \in {"claiming", "loop"} =>
          /\ x.queue.items # {}
          /\ \A t \in x.queue.items : t.val.node = x.human
    /\ At(x) \in {"exec", "iterate", "item"} => x.current = x.human
    /\ At(x) # "stopping"
    /\ At(x) = "done" => ~ Clean(x.data)

AnswerRun(x) == x.human = NoNode \/ Inside[x.human] # NoNode \/ OnItsWay(x)

AnswerInv == \A r \in Requests : AnswerRun(run[r])

\* An answer in no block's way stays where it is when the request stays there.
LEMMA AnswerHold ==
    ASSUME AnswerInv, NEW r \in Requests, SameWork(run[r], run'[r]),
           At(run'[r]) \in {At(run[r]), "rejected", "overrun", "crashed"}
              \/ (At(run'[r]) = "loop" /\ At(run[r]) = "claiming")
              \/ (At(run[r]) \in {"exec", "iterate", "item"}
                  /\ At(run'[r]) \in {"exec", "iterate", "item"}),
           Clean(run'[r].data) => Clean(run[r].data)
    PROVE  AnswerRun(run'[r])
<1>1. AnswerRun(run[r]) BY DEF AnswerInv
<1>2. ASSUME OnItsWay(run[r]) PROVE OnItsWay(run'[r])
  BY <1>2 DEF OnItsWay, SameWork
<1> QED BY <1>1, <1>2 DEF AnswerRun, SameWork

\* A failure stays in the data it was pushed on.
LEMMA FailurePushed ==
    ASSUME NEW data, NEW n, NEW status \in Failures
    PROVE  ~ Clean(Push(data, Failed(n, status)))
<1> DEFINE v == Failed(n, status)
           item == [at |-> data.next, val |-> v]
<1>1. item \in Push(data, v).items BY DEF Push
<1>2. item.val.status = status BY DEF Failed
<1> HIDE DEF item, v
<1> QED BY <1>1, <1>2 DEF Clean, Statuses, v

LEMMA StartTaskItems ==
    ASSUME NEW n
    PROVE  StartTask(n).items # {} /\ \A t \in StartTask(n).items : t.val.node = n
<1>1. StartTask(n).items = {[at |-> 0, val |-> [node |-> n, inputs |-> {}]]}
  BY DEF StartTask, Push, EmptyLog
<1> QED BY <1>1

LEMMA AnswerStep ==
    ASSUME TypeInv, FailureInv, AnswerInv, [Next]_vars PROVE AnswerInv'
<1>1. ASSUME NEW r \in Requests, Advance(r) PROVE AnswerRun(run'[r])
  <2> DEFINE x == run[r]
             y == run'[r]
  <2>0. AnswerRun(x) BY DEF AnswerInv
  <2>1. CASE Claim(r) BY <2>1, ClaimRun, AnswerHold DEF At
  <2>2. CASE SaveRow(r)
    <3>1. x.then \in Targets /\ SameWork(x, y) /\ y.data = x.data
          /\ x.pc = "saving" /\ y.pc = x.then
      BY <2>2, SaveRowRun, RunTypes DEF Run, Targets
    <3>2. At(y) = At(x) BY <3>1 DEF At, Targets
    <3> QED BY <3>1, <3>2, AnswerHold
  <2>3. CASE OverrunIterations(r) BY <2>3, OverrunRun, AnswerHold DEF SameHold, At
  <2>4. CASE TerminateAtHead(r) \/ FailNode(r)
    <3>1. PICK n \in Nodes, status \in Failures :
              Outcome(x, y, Push(x.data, Failed(n, status)), status, Exists(x.rec))
      BY <2>4, FailRun
    <3>2. SameWork(x, y) /\ At(y) \in {"done", "rejected"} /\ ~ Clean(y.data)
      BY <3>1, FailurePushed DEF Outcome, At
    <3>3. OnItsWay(y) BY <3>2 DEF OnItsWay
    <3> QED BY <3>3 DEF AnswerRun
  <2>5. CASE BeginItem(r) BY <2>5, BeginItemRun, AnswerHold DEF SameHold, At
  <2>6. CASE ItemReturns(r)
    <3>1. At(x) = "item" /\ At(y) = "iterate" /\ SameWork(x, y)
      BY <2>6, ItemReturnsRun DEF At
    <3>2. OnItsWay(x) => OnItsWay(y) BY <3>1 DEF OnItsWay, SameWork
    <3> QED BY <2>0, <3>1, <3>2 DEF AnswerRun, SameWork
  <2>7. CASE ItemThrows(r) BY <2>7, ItemThrowsRun, AnswerHold DEF SameHold, At
  <2>8. CASE Conclude(r)
    <3>1. /\ Outcome(x, y, x.data, FinalState(x.data), Exists(x.rec))
          /\ \/ x.pc = "stopping"
             \/ x.pc = "loop" /\ x.queue.items = {}
      BY <2>8, ConcludeRun
    <3>2. ~ OnItsWay(x) BY <3>1 DEF OnItsWay, At
    <3>3. y.human = x.human BY <3>1 DEF Outcome, SameWork
    <3> QED BY <2>0, <3>2, <3>3 DEF AnswerRun
  <2>9. CASE BeginNode(r)
    <3>1. PICK task \in x.queue.items :
              /\ y.pc = "exec" /\ y.current = task.val.node /\ y.human = x.human
              /\ x.pc = "loop"
      BY <2>9, BeginNodeRun
    <3>2. OnItsWay(x) => OnItsWay(y) BY <3>1 DEF OnItsWay, At
    <3> QED BY <2>0, <3>1, <3>2 DEF AnswerRun
  <2>10. CASE StopForHuman(r)
    <3>1. /\ x.pc = "exec" /\ y.human = IF Answered(r) THEN NoNode ELSE x.human
      BY <2>10, StopForHumanRun
    <3>2. OnItsWay(x) => Answered(r) BY <3>1 DEF OnItsWay, At, Answered
    <3> QED BY <2>0, <3>1, <3>2 DEF AnswerRun
  <2>11. ASSUME NEW branch, FinishNode(r, branch) PROVE AnswerRun(y)
    <3>1. /\ x.pc \in {"exec", "iterate"}
          /\ y.human = IF LoopsBack(r) \/ Answered(r) THEN NoNode ELSE x.human
      BY <2>11, FinishNodeRun
    <3>2. OnItsWay(x) => Answered(r) BY <3>1 DEF OnItsWay, At, Answered
    <3> QED BY <2>0, <3>1, <3>2 DEF AnswerRun
  <2>12. CASE BeginIteration(r)
    <3>1. At(x) = "exec" /\ At(y) = "iterate" /\ SameWork(x, y)
      BY <2>12, BeginIterationRun DEF At
    <3>2. OnItsWay(x) => OnItsWay(y) BY <3>1 DEF OnItsWay, SameWork
    <3> QED BY <2>0, <3>1, <3>2 DEF AnswerRun, SameWork
  <2> QED BY <1>1, <2>1, <2>2, <2>3, <2>4, <2>5, <2>6, <2>7, <2>8, <2>9, <2>10,
             <2>11, <2>12 DEF Advance
<1>2. ASSUME NEW r \in Requests, Arrive(r) PROVE AnswerRun(run'[r])
  <2>1. CASE StartFlow(r) BY <2>1, StartFlowRun DEF AnswerRun
  <2>2. ASSUME NEW asked, NEW answer, LoadPrevious(r, asked, answer)
        PROVE  AnswerRun(run'[r])
    <3>1. PICK n \in Nodes :
              /\ run'[r].pc = "claiming" /\ run'[r].human = n
              /\ run'[r].queue = IF Inside[n] = NoNode THEN StartTask(n) ELSE EmptyLog
      BY <2>2, LoadPreviousRun
    <3>2. CASE Inside[n] # NoNode BY <3>1, <3>2 DEF AnswerRun
    <3>3. CASE Inside[n] = NoNode
      <4>1. /\ StartTask(n).items # {}
            /\ \A t \in StartTask(n).items : t.val.node = n
        BY StartTaskItems
      <4> QED BY <3>1, <3>3, <4>1 DEF AnswerRun, OnItsWay, At
    <3> QED BY <3>2, <3>3
  <2>3. ASSUME NEW asked, RejectResume(r, asked) PROVE AnswerRun(run'[r])
    BY <2>3, RejectResumeRun, AnswerHold DEF SameHold, At
  <2> QED BY <1>2, <2>1, <2>2, <2>3 DEF Arrive
<1>3. ASSUME NEW r \in Requests, Abort(r) PROVE AnswerRun(run'[r])
  BY <1>3, AbortRun, AnswerHold DEF SameHold, At
<1>4. ASSUME NEW r \in Requests, Arrive(r) \/ Advance(r) \/ Abort(r) PROVE AnswerInv'
  BY <1>1, <1>2, <1>3, <1>4, OthersStay DEF AnswerInv
<1>5. CASE Crash
  <2>1. ASSUME NEW r \in Requests PROVE AnswerRun(run'[r])
    <3>1. CASE run'[r] = run[r] BY <3>1 DEF AnswerInv
    <3>2. CASE run'[r].pc = "crashed" /\ SameHold(run[r], run'[r])
      BY <3>2, AnswerHold DEF SameHold, At
    <3> QED BY <1>5, <3>1, <3>2, CrashRun
  <2> QED BY <2>1 DEF AnswerInv
<1>6. CASE UNCHANGED run BY <1>6 DEF AnswerInv
<1> QED BY <1>4, <1>5, <1>6 DEF Next, vars, DeleteExecution

\* No node lies in an iteration block.
NoBlocks == \A n \in Nodes : Inside[n] = NoNode

\* On a flow without iteration blocks the answer of a human reaches the node that
\* asked, whoever else resumes, aborts or deletes the execution: a run that ends
\* without a failure has consumed it.  (For a node inside a block the engine queues
\* nothing, and the answer is lost.)
THEOREM AnswerConsumedHolds ==
    ASSUME NoBlocks PROVE Spec => []AnswerConsumed
<1>1. Spec => []TypeInv BY TypeInit, TypeStep, PTL DEF Spec
<1>2. Spec => []FailureInv BY <1>1, FailureInit, FailureStep, PTL DEF Spec
<1>3. Init => AnswerInv BY DEF Init, Fresh, AnswerInv, AnswerRun
<1>4. Spec => []AnswerInv BY <1>1, <1>2, <1>3, AnswerStep, PTL DEF Spec
<1>5. ASSUME TypeInv, AnswerInv PROVE AnswerConsumed
  <2> SUFFICES ASSUME NEW r \in Requests, run[r].pc = "done", Clean(run[r].data)
               PROVE  run[r].human = NoNode
    BY DEF AnswerConsumed, Clean
  <2>1. run[r].human \in Nodes \cup {NoNode} BY <1>5, RunTypes DEF Run
  <2>2. AnswerRun(run[r]) BY <1>5 DEF AnswerInv
  <2> QED BY <2>1, <2>2 DEF AnswerRun, OnItsWay, At, NoBlocks
<1> QED BY <1>1, <1>4, <1>5, PTL


----------------------------------------------------------------------------
(***************************************************************************)
(* What a step makes of a record                                           *)
(***************************************************************************)
NewRecord == [state |-> "INPROGRESS", data |-> EmptyLog]

\* A record changes by being inserted, saved or deleted, and no other way.
LEMMA RecordStep ==
    ASSUME TypeInv, [Next]_vars, NEW e \in RecordIds
    PROVE  \/ records'[e] = records[e]
           \/ DeleteExecution(e) /\ records'[e] = Absent
           \/ \E r \in Requests :
                 \/ /\ SaveRow(r) /\ run[r].rec = e /\ records'[e] = run[r].row
                 \/ /\ StartFlow(r) \/ (BeginItem(r) /\ ~ Exists(run[r].rec))
                    /\ e = created + 1 /\ records'[e] = NewRecord
<1>0. records \in [RecordIds -> Record] BY DEF TypeInv, TypeOK
<1>1. ASSUME NEW r \in Requests, Advance(r)
      PROVE  \/ records'[e] = records[e]
             \/ SaveRow(r) /\ run[r].rec = e /\ records'[e] = run[r].row
             \/ /\ BeginItem(r) /\ ~ Exists(run[r].rec)
                /\ e = created + 1 /\ records'[e] = NewRecord
  <2>1. CASE Claim(r) BY <2>1 DEF Claim, FoundRow
  <2>2. CASE SaveRow(r) BY <2>2, <1>0 DEF SaveRow
  <2>3. CASE OverrunIterations(r) \/ BeginNode(r) \/ StopForHuman(r)
             \/ BeginIteration(r) \/ ItemThrows(r)
    BY <2>3 DEF OverrunIterations, BeginNode, StopForHuman, BeginIteration, ItemThrows
  <2>4. CASE TerminateAtHead(r) \/ FailNode(r) \/ Conclude(r)
    BY <2>4 DEF TerminateAtHead, FailNode, Conclude, FailAt, WriteOutcome, FoundRow
  <2>5. CASE ItemReturns(r) BY <2>5 DEF ItemReturns, FoundRow
  <2>6. CASE \E branch \in AllBranches : FinishNode(r, branch) BY <2>6 DEF FinishNode
  <2>7. CASE BeginItem(r)
    BY <2>7, <1>0 DEF BeginItem, InsertRecord, NewRecord
  <2> QED BY <1>1, <2>1, <2>2, <2>3, <2>4, <2>5, <2>6, <2>7 DEF Advance
<1>2. ASSUME NEW r \in Requests, Arrive(r)
      PROVE  \/ records'[e] = records[e]
             \/ StartFlow(r) /\ e = created + 1 /\ records'[e] = NewRecord
  <2>1. CASE StartFlow(r) BY <2>1, <1>0 DEF StartFlow, InsertRecord, NewRecord
  <2>2. CASE UNCHANGED records BY <2>2
  <2> QED BY <1>2, <2>1, <2>2 DEF Arrive, LoadPrevious, RejectResume
<1>3. ASSUME NEW f \in RecordIds, DeleteExecution(f)
      PROVE  \/ records'[e] = records[e]
             \/ DeleteExecution(e) /\ records'[e] = Absent
  BY <1>3, <1>0 DEF DeleteExecution
<1>4. CASE UNCHANGED vars BY <1>4 DEF vars
<1>5. ASSUME NEW r \in Requests, Abort(r) PROVE records'[e] = records[e]
  BY <1>5 DEF Abort
<1>6. CASE Crash BY <1>6 DEF Crash
<1> QED BY <1>1, <1>2, <1>3, <1>4, <1>5, <1>6 DEF Next
----------------------------------------------------------------------------
(***************************************************************************)
(* An execution that says INPROGRESS has a request behind it               *)
(***************************************************************************)
Owning == InFlight \cup {"overrun", "crashed"}

Owned(e) == \E r \in Requests : run[r].rec = e /\ run[r].pc \in Owning

\* The last save of a run never says INPROGRESS, no save inserts nothing, only a
\* node with a block is in an iteration; and where nothing is ever deleted the
\* record of a request in flight is there.
SavesWell(x) ==
    /\ x.pc = "saving" => /\ x.row.state # "ABSENT"
                          /\ x.then = "done" => x.row.state # "INPROGRESS"
    /\ At(x) \in {"iterate", "item"} => Children(x.current) # {}

SavesInv == \A r \in Requests : SavesWell(run[r])

OwnedInv ==
    /\ \A e \in RecordIds : records[e].state = "INPROGRESS" => Owned(e)
    /\ SavesInv
    /\ MaxDeletes = 0 =>
          /\ budget.deletes = 0
          /\ \A r \in Requests : run[r].pc \in InFlight => Exists(run[r].rec)

\* An owner stays one until its last save.
LEMMA OwnerStays ==
    ASSUME TypeInv, [Next]_vars, NEW r \in Requests, run[r].pc \in Owning,
           Exists(run[r].rec)
    PROVE  /\ run'[r].rec = run[r].rec
           /\ run'[r].pc \in Owning \/ (SaveRow(r) /\ run[r].then = "done")
<1> DEFINE x == run[r]
           y == run'[r]
<1>0. x \in Run BY RunTypes
<1>1. CASE Advance(r)
  <2>1. CASE Claim(r) BY <2>1, ClaimRun DEF SameWork, Owning, InFlight
  <2>2. CASE SaveRow(r) BY <2>2, <1>0, SaveRowRun DEF SameWork, Owning, InFlight, Run
  <2>3. CASE OverrunIterations(r) BY <2>3, OverrunRun DEF SameHold, SameWork, Owning
  <2>4. CASE BeginNode(r) BY <2>4, BeginNodeRun DEF Owning, InFlight
  <2>5. CASE TerminateAtHead(r) \/ FailNode(r)
    BY <2>5, FailRun DEF Outcome, SameWork, Owning, InFlight
  <2>6. CASE StopForHuman(r) BY <2>6, StopForHumanRun DEF Owning, InFlight
  <2>7. ASSUME NEW branch, FinishNode(r, branch)
        PROVE  y.rec = x.rec /\ y.pc \in Owning
    BY <2>7, FinishNodeRun DEF Owning, InFlight
  <2>8. CASE BeginIteration(r) BY <2>8, BeginIterationRun DEF SameWork, Owning, InFlight
  <2>9. CASE BeginItem(r)
    BY <2>9, BeginItemRun DEF SameHold, SameWork, Owning, InFlight
  <2>10. CASE ItemReturns(r) BY <2>10, ItemReturnsRun DEF SameWork, Owning, InFlight
  <2>11. CASE ItemThrows(r)
    BY <2>11, ItemThrowsRun DEF SameHold, SameWork, Owning, InFlight
  <2>12. CASE Conclude(r) BY <2>12, ConcludeRun DEF Outcome, SameWork, Owning, InFlight
  <2> QED BY <1>1, <2>1, <2>2, <2>3, <2>4, <2>5, <2>6, <2>7, <2>8, <2>9, <2>10,
             <2>11, <2>12 DEF Advance
<1>2. ~ Arrive(r)
  BY DEF Arrive, StartFlow, LoadPrevious, RejectResume, Owning, InFlight
<1>3. CASE Abort(r) BY <1>3, AbortRun DEF SameHold, SameWork, Owning
<1>4. ASSUME NEW s \in Requests, s # r, Arrive(s) \/ Advance(s) \/ Abort(s)
      PROVE  y = x
  BY <1>4, OthersStay
<1>5. CASE Crash BY <1>5, CrashRun DEF SameHold, SameWork, Owning
<1>6. CASE UNCHANGED run BY <1>6
<1> QED BY <1>1, <1>2, <1>3, <1>4, <1>5, <1>6 DEF Next, vars, DeleteExecution


LEMMA SavesWellStep ==
    ASSUME TypeInv, SavesInv, [Next]_vars, NEW r \in Requests
    PROVE  SavesWell(run'[r])
<1> DEFINE x == run[r]
           y == run'[r]
<1>0. SavesWell(x) /\ x \in Run BY RunTypes DEF SavesInv
<1>1. CASE Advance(r)
  <2>1. CASE Claim(r)
    <3>1. \/ /\ y.pc = "saving" /\ y.then \in {"claiming", "loop"}
             /\ y.row.state = "INPROGRESS"
          \/ y.pc = "rejected"
      BY <2>1, ClaimFields
    <3> QED BY <3>1 DEF SavesWell, At
  <2>2. CASE SaveRow(r)
    <3>1. /\ x.pc = "saving" /\ y.pc = x.then /\ y.current = x.current
          /\ x.then \in Targets
      BY <2>2, <1>0, SaveRowRun DEF SameWork, Run, Targets
    <3> QED BY <3>1, <1>0 DEF SavesWell, At, Targets
  <2>3. CASE OverrunIterations(r) BY <2>3, OverrunRun DEF SavesWell, At
  <2>4. CASE BeginNode(r) BY <2>4, BeginNodeRun DEF SavesWell, At
  <2>5. CASE TerminateAtHead(r) \/ FailNode(r)
    <3>1. \/ y.pc = "saving" /\ y.then = "done" /\ y.row.state \in Failures
          \/ y.pc = "rejected"
      BY <2>5, FailRun, OutcomeFields
    <3> QED BY <3>1 DEF SavesWell, At, Failures
  <2>6. CASE StopForHuman(r) BY <2>6, StopForHumanRun DEF SavesWell, At
  <2>7. ASSUME NEW branch, FinishNode(r, branch) PROVE SavesWell(y)
    BY <2>7, FinishNodeRun DEF SavesWell, At
  <2>8. CASE BeginIteration(r)
    BY <2>8, BeginIterationRun DEF SavesWell, At, SameWork
  <2>9. CASE BeginItem(r)
    BY <2>9, <1>0, BeginItemRun DEF SavesWell, At, SameHold, SameWork
  <2>10. CASE ItemReturns(r)
    <3>1. \/ /\ y.pc = "saving" /\ y.then = "iterate"
             /\ y.row.state = records[x.rec].state /\ Exists(x.rec)
          \/ y.pc = "iterate"
      BY <2>10, ItemFields
    <3>2. x.pc = "item" /\ y.current = x.current
      BY <2>10, ItemReturnsRun DEF SameWork
    <3> QED BY <3>1, <3>2, <1>0 DEF SavesWell, At, Exists
  <2>11. CASE ItemThrows(r)
    BY <2>11, <1>0, ItemThrowsRun DEF SavesWell, At, SameHold, SameWork
  <2>12. CASE Conclude(r)
    <3>1. \/ /\ y.pc = "saving" /\ y.then = "done"
             /\ y.row.state = FinalState(x.data)
          \/ y.pc = "rejected"
      BY <2>12, ConcludeRun, OutcomeFields
    <3> QED BY <3>1, FinalStateType DEF SavesWell, At
  <2> QED BY <1>1, <2>1, <2>2, <2>3, <2>4, <2>5, <2>6, <2>7, <2>8, <2>9, <2>10,
             <2>11, <2>12 DEF Advance
<1>2. CASE Arrive(r)
  <2>1. y.pc \in {"loop", "claiming", "rejected"}
    BY <1>2, StartFlowRun, LoadPreviousRun, RejectResumeRun DEF Arrive
  <2> QED BY <2>1 DEF SavesWell, At
<1>3. CASE Abort(r) BY <1>3, <1>0, AbortRun DEF SavesWell, At, SameHold, SameWork
<1>4. ASSUME NEW s \in Requests, s # r, Arrive(s) \/ Advance(s) \/ Abort(s)
      PROVE  y = x
  BY <1>4, OthersStay
<1>5. CASE Crash
  <2>1. y.pc = "crashed" \/ y = x BY <1>5, CrashRun
  <2> QED BY <2>1, <1>0 DEF SavesWell, At
<1>6. CASE UNCHANGED run BY <1>0, <1>6
<1> QED BY <1>0, <1>1, <1>2, <1>3, <1>4, <1>5, <1>6 DEF Next, vars, DeleteExecution

\* Where nothing is deleted a record stays.
LEMMA RecordStays ==
    ASSUME TypeInv, OwnedInv, [Next]_vars, MaxDeletes = 0,
           NEW e \in RecordIds, records[e].state # "ABSENT"
    PROVE  records'[e].state # "ABSENT"
<1>1. ~ DeleteExecution(e) BY DEF OwnedInv, DeleteExecution
<1>2. \A r \in Requests : SaveRow(r) => run[r].row.state # "ABSENT"
  BY DEF OwnedInv, SavesInv, SavesWell, SaveRow
<1> QED BY <1>1, <1>2, RecordStep DEF NewRecord

LEMMA RecId ==
    ASSUME TypeInv, NEW r \in Requests, Exists(run[r].rec)
    PROVE  run[r].rec \in RecordIds /\ records[run[r].rec].state # "ABSENT"
BY RunTypes DEF Run, Exists

LEMMA ComesInFlight ==
    ASSUME TypeInv, [Next]_vars, NEW r \in Requests, run'[r].pc \in InFlight
    PROVE  run[r].pc \in InFlight \/ Arrive(r)
<1>1. ASSUME Advance(r) PROVE run[r].pc \in InFlight
  BY <1>1 DEF Advance, Claim, SaveRow, OverrunIterations, BeginNode, TerminateAtHead,
     FailNode, StopForHuman, FinishNode, BeginIteration, BeginItem, ItemReturns,
     ItemThrows, Conclude, InFlight
<1>2. ASSUME NEW s \in Requests, s # r, Arrive(s) \/ Advance(s) \/ Abort(s)
      PROVE  run'[r] = run[r]
  BY <1>2, OthersStay
<1>3. ASSUME Crash PROVE run[r].pc \in InFlight BY <1>3, CrashRun
<1>4. ASSUME Abort(r) PROVE run[r].pc \in InFlight BY <1>4, AbortRun
<1> QED BY <1>1, <1>2, <1>3, <1>4 DEF Next, vars, DeleteExecution

\* The conditions under which no request leaves a record it does not own.
NoStrayRecords == NoBlocks \/ MaxDeletes = 0

LEMMA OwnedStep ==
    ASSUME NoStrayRecords, TypeInv, OwnedInv, [Next]_vars PROVE OwnedInv'
<1>1. SavesInv' BY SavesWellStep DEF SavesInv, OwnedInv
<1>2. ASSUME MaxDeletes = 0
      PROVE  /\ budget'.deletes = 0
             /\ \A r \in Requests : run'[r].pc \in InFlight => Exists(run[r].rec)'
  <2>1. budget'.deletes = 0
    <3>0. budget.deletes = 0 /\ budget \in [aborts : Nat, deletes : Nat, crashes : Nat]
      BY <1>2 DEF OwnedInv, TypeInv, TypeOK
    <3>1. ASSUME NEW r \in Requests, Arrive(r) PROVE UNCHANGED budget
      BY <3>1 DEF Arrive, StartFlow, LoadPrevious, RejectResume
    <3>2. ASSUME NEW r \in Requests, Advance(r) PROVE UNCHANGED budget
      BY <3>2 DEF Advance, Claim, SaveRow, OverrunIterations, BeginNode,
         TerminateAtHead, FailNode, StopForHuman, FinishNode, BeginIteration, BeginItem,
         ItemReturns, ItemThrows, Conclude, FailAt, WriteOutcome, FoundRow
    <3>3. ASSUME NEW r \in Requests, Abort(r) PROVE budget'.deletes = budget.deletes
      BY <3>0, <3>3 DEF Abort
    <3>4. ASSUME Crash PROVE budget'.deletes = budget.deletes BY <3>0, <3>4 DEF Crash
    <3>5. ASSUME NEW e \in RecordIds, DeleteExecution(e) PROVE FALSE
      BY <3>0, <3>5 DEF DeleteExecution
    <3> QED BY <3>0, <3>1, <3>2, <3>3, <3>4, <3>5 DEF Next, vars
  <2>2. ASSUME NEW r \in Requests, run'[r].pc \in InFlight
        PROVE  run'[r].rec # NoRecord /\ records'[run'[r].rec].state # "ABSENT"
    <3>1. CASE run[r].pc \in InFlight
      <4>1. Exists(run[r].rec) BY <1>2, <3>1 DEF OwnedInv
      <4>2. run'[r].rec = run[r].rec BY <4>1, <3>1, OwnerStays DEF Owning
      <4> QED BY <1>2, <4>1, <4>2, RecId, RecordStays DEF Exists
    <3>2. CASE StartFlow(r)
      <4>1. created + 1 \in RecordIds BY <3>2, InsertRecordType DEF StartFlow
      <4>2. records'[created + 1].state = "INPROGRESS"
        BY <4>1, <3>2 DEF StartFlow, InsertRecord, TypeInv, TypeOK
      <4>3. run'[r].rec = created + 1 BY <3>2, StartFlowRun
      <4> QED BY <4>1, <4>2, <4>3, BoundsAssumption DEF RecordIds, NoRecord, BoundsAssumption
    <3>3. ASSUME NEW asked, NEW answer, LoadPrevious(r, asked, answer)
          PROVE  run'[r].rec # NoRecord /\ records'[run'[r].rec].state # "ABSENT"
      <4>1. PICK e \in RecordIds : IsLatest(e) /\ run'[r].rec = e
        BY <3>3, LoadPreviousRun DEF CanResume
      <4> QED BY <4>1, <3>3 DEF LoadPrevious, IsLatest, Exists
    <3>4. ASSUME NEW asked, RejectResume(r, asked) PROVE FALSE
      BY <3>4, <2>2, RejectResumeRun DEF InFlight
    <3> QED BY <2>2, <3>1, <3>2, <3>3, <3>4, ComesInFlight DEF Arrive
  <2> QED BY <2>1, <2>2 DEF Exists
<1>3. ASSUME NEW e \in RecordIds, records'[e].state = "INPROGRESS" PROVE Owned(e)'
  <2> SUFFICES \E r \in Requests : run'[r].rec = e /\ run'[r].pc \in Owning
    BY DEF Owned
  <2>1. CASE records'[e] = records[e]
    <3>1. PICK r \in Requests : run[r].rec = e /\ run[r].pc \in Owning
      BY <2>1, <1>3 DEF OwnedInv, Owned
    <3>2. Exists(run[r].rec)
      BY <3>1, <2>1, <1>3, BoundsAssumption DEF Exists, RecordIds, NoRecord, BoundsAssumption
    <3>3. ~ (SaveRow(r) /\ run[r].then = "done")
      <4> SUFFICES ASSUME SaveRow(r), run[r].then = "done" PROVE FALSE OBVIOUS
      <4>1. records'[e] = run[r].row BY <3>1 DEF SaveRow, TypeInv, TypeOK
      <4>2. run[r].row.state # "INPROGRESS" BY DEF OwnedInv, SavesInv, SavesWell, SaveRow
      <4> QED BY <4>1, <4>2, <1>3
    <3> QED BY <3>1, <3>2, <3>3, OwnerStays
  <2>2. ASSUME NEW r \in Requests, SaveRow(r), run[r].rec = e, records'[e] = run[r].row
        PROVE  run'[r].rec = e /\ run'[r].pc \in Owning
    <3>1. run[r].then # "done" BY <2>2, <1>3 DEF OwnedInv, SavesInv, SavesWell, SaveRow
    <3>2. run[r].then \in Targets BY RunTypes DEF Run, Targets
    <3> QED BY <2>2, <3>1, <3>2, SaveRowRun DEF SameWork, Owning, InFlight, Targets
  <2>3. ASSUME NEW r \in Requests, StartFlow(r), e = created + 1
        PROVE  run'[r].rec = e /\ run'[r].pc \in Owning
    BY <2>3, StartFlowRun DEF Owning, InFlight
  <2>4. ASSUME NEW r \in Requests, BeginItem(r), ~ Exists(run[r].rec) PROVE FALSE
    <3>1. run[r].pc = "iterate" BY <2>4, BeginItemRun
    <3>2. Children(run[r].current) # {} BY <3>1 DEF OwnedInv, SavesInv, SavesWell, At
    <3>3. run[r].current \in Nodes BY <3>1 DEF TypeInv, Busy, BusyRun
    <3>4. ~ NoBlocks BY <3>2, <3>3, FlowAssumption DEF NoBlocks, Children, FlowAssumption
    <3>5. Exists(run[r].rec)
      BY <3>1, <3>4 DEF NoStrayRecords, OwnedInv, InFlight
    <3> QED BY <3>5, <2>4
  <2>5. CASE records'[e] = Absent BY <2>5, <1>3 DEF Absent
  <2> QED BY <2>1, <2>2, <2>3, <2>4, <2>5, RecordStep
<1> QED BY <1>1, <1>2, <1>3 DEF OwnedInv

\* No execution pretends to run, however many requests resume, stop and delete it:
\* each one that says INPROGRESS is held by a request in flight or one that died.
\* The exception is an iteration whose record was deleted: its nested runs insert
\* one that nobody updates, so either nothing is deleted or there are no blocks.
THEOREM InProgressOwnedHolds ==
    ASSUME NoStrayRecords PROVE Spec => []InProgressOwned
<1>1. Spec => []TypeInv BY TypeInit, TypeStep, PTL DEF Spec
<1>2. Init => OwnedInv
  <2> SUFFICES ASSUME Init PROVE OwnedInv OBVIOUS
  <2>1. \A e \in RecordIds : records[e].state = "ABSENT" BY DEF Init, Absent
  <2>2. \A r \in Requests : run[r].pc = "idle" BY DEF Init, Fresh
  <2>3. budget.deletes = MaxDeletes BY DEF Init
  <2> QED BY <2>1, <2>2, <2>3 DEF OwnedInv, SavesInv, SavesWell, At, InFlight
<1>3. Spec => []OwnedInv BY <1>1, <1>2, OwnedStep, PTL DEF Spec
<1>4. OwnedInv => InProgressOwned BY DEF OwnedInv, Owned, InProgressOwned, Owning
<1> QED BY <1>3, <1>4, PTL


----------------------------------------------------------------------------
(***************************************************************************)
(* The records that were ever created                                      *)
(***************************************************************************)
CreatedInv ==
    /\ \A e \in RecordIds : e > created => records[e] = Absent
    /\ \A r \in Requests : run[r].rec <= created

\* A row is inserted, or as many were created as before.
LEMMA CreatedGrows ==
    ASSUME TypeInv, [Next]_vars
    PROVE  /\ created \in Nat /\ created' \in Nat
           /\ \/ created' = created
              \/ created' = created + 1 /\ \E r \in Requests : StartFlow(r) \/ BeginItem(r)
<1>0. created \in Nat BY BoundsAssumption DEF TypeInv, TypeOK, BoundsAssumption
<1>1. ASSUME NEW r \in Requests, Advance(r)
      PROVE  created' = created \/ (created' = created + 1 /\ BeginItem(r))
  <2>1. CASE BeginItem(r) BY <2>1 DEF BeginItem, InsertRecord
  <2>2. CASE ~ BeginItem(r)
    BY <1>1, <2>2 DEF Advance, Claim, SaveRow, OverrunIterations, BeginNode,
       TerminateAtHead, FailNode, StopForHuman, FinishNode, BeginIteration,
       ItemReturns, ItemThrows, Conclude, FailAt, WriteOutcome, FoundRow
  <2> QED BY <2>1, <2>2
<1>2. ASSUME NEW r \in Requests, Arrive(r)
      PROVE  created' = created \/ (created' = created + 1 /\ StartFlow(r))
  BY <1>2 DEF Arrive, StartFlow, InsertRecord, LoadPrevious, RejectResume
<1>3. ASSUME NEW r \in Requests, Abort(r) PROVE created' = created BY <1>3 DEF Abort
<1>4. ASSUME Crash PROVE created' = created BY <1>4 DEF Crash
<1> QED BY <1>0, <1>1, <1>2, <1>3, <1>4 DEF Next, vars, DeleteExecution

\* A request keeps its record, unless it arrives.
LEMMA RecStays ==
    ASSUME TypeInv, [Next]_vars, NEW r \in Requests, ~ Arrive(r)
    PROVE  run'[r].rec = run[r].rec
<1>1. CASE Advance(r)
  <2>1. ASSUME SameWork(run[r], run'[r]) PROVE run'[r].rec = run[r].rec
    BY <2>1 DEF SameWork
  <2>2. CASE Claim(r) \/ SaveRow(r) \/ BeginIteration(r) \/ ItemReturns(r)
    BY <2>1, <2>2, ClaimRun, SaveRowRun, BeginIterationRun, ItemReturnsRun
  <2>3. CASE OverrunIterations(r) \/ BeginItem(r) \/ ItemThrows(r)
    BY <2>1, <2>3, OverrunRun, BeginItemRun, ItemThrowsRun DEF SameHold
  <2>4. CASE TerminateAtHead(r) \/ FailNode(r)
    BY <2>1, <2>4, FailRun, OutcomeFields
  <2>5. CASE Conclude(r) BY <2>1, <2>5, ConcludeRun, OutcomeFields
  <2>6. CASE BeginNode(r) BY <2>6, BeginNodeRun
  <2>7. CASE StopForHuman(r) BY <2>7, StopForHumanRun
  <2>8. ASSUME NEW branch, FinishNode(r, branch) PROVE run'[r].rec = run[r].rec
    BY <2>8, FinishNodeRun
  <2> QED BY <1>1, <2>2, <2>3, <2>4, <2>5, <2>6, <2>7, <2>8 DEF Advance
<1>2. CASE Abort(r) BY <1>2, AbortRun DEF SameHold, SameWork
<1>3. CASE Crash BY <1>3, CrashRun DEF SameHold, SameWork
<1>4. ASSUME NEW s \in Requests, s # r, Arrive(s) \/ Advance(s) \/ Abort(s)
      PROVE  run'[r] = run[r]
  BY <1>4, OthersStay
<1> QED BY <1>1, <1>2, <1>3, <1>4 DEF Next, vars, DeleteExecution

LEMMA CreatedStep ==
    ASSUME TypeInv, CreatedInv, [Next]_vars PROVE CreatedInv'
<1>0. created \in Nat /\ created' \in Nat /\ created' >= created BY CreatedGrows
<1>1. ASSUME NEW e \in RecordIds, e > created' PROVE records'[e] = Absent
  <2>1. e > created /\ e \in Nat BY <1>0, <1>1 DEF RecordIds
  <2>2. records[e] = Absent BY <2>1 DEF CreatedInv
  <2>3. ASSUME NEW r \in Requests, SaveRow(r), run[r].rec = e PROVE FALSE
    BY <2>1, <2>3, <1>0 DEF CreatedInv
  <2>4. ASSUME NEW r \in Requests, StartFlow(r) \/ (BeginItem(r) /\ ~ Exists(run[r].rec)),
               e = created + 1
        PROVE  FALSE
    BY <2>4, <1>1, <1>0 DEF StartFlow, BeginItem, InsertRecord
  <2> QED BY <2>2, <2>3, <2>4, RecordStep
<1>2. ASSUME NEW r \in Requests PROVE run'[r].rec <= created'
  <2>0. run[r].rec \in Nat /\ run[r].rec <= created
    BY RunTypes DEF CreatedInv, Run, RecordIds, NoRecord
  <2>1. CASE ~ Arrive(r) BY <2>0, <2>1, <1>0, RecStays
  <2>2. CASE StartFlow(r)
    <3>1. run'[r].rec = created + 1 BY <2>2, StartFlowRun
    <3>2. created' = created + 1 BY <2>2 DEF StartFlow, InsertRecord
    <3> QED BY <3>1, <3>2, <1>0
  <2>3. ASSUME NEW asked, NEW answer, LoadPrevious(r, asked, answer)
        PROVE  run'[r].rec <= created'
    <3>0. PICK e \in RecordIds, n \in Nodes : \E c \in Candidates(records[e]) :
              CanResume(e, asked, n, c[1], c[2]) /\ run'[r].rec = e
      BY <2>3, LoadPreviousRun
    <3>1. IsLatest(e) /\ run'[r].rec = e BY <3>0 DEF CanResume
    <3>2. records[e] # Absent BY <3>1 DEF IsLatest, Exists, Absent
    <3>3. e \in Nat /\ ~ (e > created) BY <3>2 DEF CreatedInv, RecordIds
    <3> QED BY <3>1, <3>3, <1>0
  <2>4. ASSUME NEW asked, RejectResume(r, asked) PROVE run'[r].rec <= created'
    BY <2>4, <2>0, <1>0, RejectResumeRun DEF SameHold, SameWork
  <2> QED BY <2>1, <2>2, <2>3, <2>4 DEF Arrive
<1> QED BY <1>1, <1>2 DEF CreatedInv

LEMMA CreatedInit == Init => CreatedInv
<1> SUFFICES ASSUME Init PROVE CreatedInv OBVIOUS
<1>1. \A e \in RecordIds : records[e] = Absent BY DEF Init
<1>2. \A r \in Requests : run[r].rec = 0 /\ created = 0
  BY DEF Init, Fresh, NoRecord
<1> QED BY <1>1, <1>2 DEF CreatedInv
----------------------------------------------------------------------------
(***************************************************************************)
(* Requests that do not overlap                                            *)
(***************************************************************************)
OneAtATime == MaxActive <= 1

NoLater(e) == \A f \in RecordIds : f > e => records[f].state = "ABSENT"

\* With one request at a time, a record belongs to the request that runs on it: it
\* is INPROGRESS, or deleted, from the first save of a resume to the last of the run.
LifeRun(r) ==
    LET x == run[r]
        s == records[x.rec].state
    IN
    /\ x.rec \in RecordIds
    /\ \/ s \in {"INPROGRESS", "ABSENT"}
       \/ /\ x.pc \in {"claiming", "saving"} /\ At(x) \in {"claiming", "loop"}
          /\ s \in {"STOPPED", "ERROR"} /\ NoLater(x.rec)
    /\ x.pc = "saving" /\ x.then # "done" => x.row.state = "INPROGRESS"

LifeInv ==
    /\ \A r, s \in Active : r = s
    /\ \A r \in Active : LifeRun(r)

LEMMA NoneActive ==
    ASSUME OneAtATime, Cardinality(Active) < MaxActive PROVE Active = {}
<1>1. IsFiniteSet(Active) BY BoundsAssumption, FS_Subset DEF BoundsAssumption, Active
<1>2. Cardinality(Active) \in Nat BY <1>1, FS_CardinalityType
<1>3. Cardinality(Active) = 0 BY <1>2, BoundsAssumption DEF OneAtATime, BoundsAssumption
<1> QED BY <1>1, <1>3, FS_EmptySet

\* The request that moves is the only one in flight.
LEMMA OnlyOne ==
    ASSUME OneAtATime, TypeInv, LifeInv, NEW r \in Requests,
           Arrive(r) \/ Advance(r) \/ Abort(r), NEW s \in Requests, s # r
    PROVE  run[s].pc \notin InFlight /\ run'[s] = run[s]
<1>1. CASE Arrive(r)
  <2>1. Active = {}
    BY <1>1, NoneActive DEF Arrive, StartFlow, LoadPrevious, RejectResume
  <2> QED BY <2>1, OthersStay DEF Active
<1>2. CASE Advance(r) \/ Abort(r)
  <2>1. run[r].pc \in InFlight
    BY <1>2 DEF Advance, Claim, SaveRow, OverrunIterations, BeginNode, TerminateAtHead,
       FailNode, StopForHuman, FinishNode, BeginIteration, BeginItem, ItemReturns,
       ItemThrows, Conclude, InFlight, Abort
  <2> QED BY <2>1, OthersStay DEF LifeInv, Active
<1> QED BY <1>1, <1>2

\* A step that leaves the records alone, of the one request in flight.
LEMMA LifeHold ==
    ASSUME NEW r \in Requests, LifeRun(r), UNCHANGED records, run'[r].rec = run[r].rec,
           \/ /\ records[run[r].rec].state \in {"INPROGRESS", "ABSENT"}
              /\ run'[r].pc # "saving"
           \/ /\ run'[r].pc = run[r].pc /\ run'[r].then = run[r].then
              /\ run'[r].row = run[r].row
    PROVE  LifeRun(r)'
BY DEF LifeRun, NoLater, At


LEMMA LifeAdvance ==
    ASSUME OneAtATime, TypeInv, CreatedInv, LifeInv, NEW r \in Requests, Advance(r),
           run'[r].pc \in InFlight
    PROVE  LifeRun(r)'
<1> DEFINE x == run[r]
           y == run'[r]
           s == records[x.rec].state
<1>0. run[r].pc \in InFlight
  BY DEF Advance, Claim, SaveRow, OverrunIterations, BeginNode, TerminateAtHead,
     FailNode, StopForHuman, FinishNode, BeginIteration, BeginItem, ItemReturns,
     ItemThrows, Conclude, InFlight
<1>1. LifeRun(r) BY <1>0 DEF LifeInv, Active
<1>2. x.rec \in RecordIds BY <1>1 DEF LifeRun
<1>3. [Next]_vars BY DEF Next
<1>4. y.rec = x.rec
  <2>1. ~ Arrive(r)
    BY <1>0 DEF Arrive, StartFlow, LoadPrevious, RejectResume, InFlight
  <2> QED BY <1>3, <2>1, RecStays
<1>5. x.pc \notin {"claiming", "saving"} => s \in {"INPROGRESS", "ABSENT"}
  BY <1>1 DEF LifeRun
<1>6. CASE Claim(r)
  <2>1. UNCHANGED records BY <1>6 DEF Claim, FoundRow
  <2>2. x.pc = "claiming" BY <1>6, ClaimRun
  <2>3. /\ y.pc = "saving" /\ y.then \in {"claiming", "loop"}
        /\ y.row.state = "INPROGRESS"
    BY <1>6, ClaimFields DEF InFlight
  <2> QED BY <1>1, <1>4, <2>1, <2>2, <2>3 DEF LifeRun, At, NoLater
<1>7. CASE SaveRow(r)
  <2>1. x.pc = "saving" /\ y.pc = x.then BY <1>7, SaveRowRun
  <2>2. x.then # "done" /\ y.pc # "saving"
    BY <2>1, RunTypes DEF InFlight, Run
  <2>3. x.row.state = "INPROGRESS" BY <1>1, <2>1, <2>2 DEF LifeRun
  <2>4. records'[x.rec] = x.row BY <1>2, <1>7 DEF SaveRow, TypeInv, TypeOK
  <2> QED BY <1>2, <1>4, <2>2, <2>3, <2>4 DEF LifeRun
<1>8. CASE BeginItem(r)
  <2>1. x.pc = "iterate" /\ y.pc # "saving" BY <1>8, BeginItemRun
  <2>2. s \in {"INPROGRESS", "ABSENT"} BY <1>5, <2>1
  <2>3. records'[x.rec] = records[x.rec] \/ records'[x.rec] = NewRecord
    <3>1. ~ SaveRow(r) BY <2>1 DEF SaveRow
    <3>2. UNCHANGED records \/ InsertRecord BY <1>8 DEF BeginItem
    <3> QED BY <3>2, <1>2 DEF InsertRecord, NewRecord, TypeInv, TypeOK
  <2> QED BY <1>2, <1>4, <2>1, <2>2, <2>3 DEF LifeRun, NewRecord
<1>9. CASE TerminateAtHead(r) \/ FailNode(r) \/ Conclude(r)
  <2>1. UNCHANGED records
    BY <1>9 DEF TerminateAtHead, FailNode, Conclude, FailAt, WriteOutcome, FoundRow
  <2>2. x.pc \in {"loop", "exec", "stopping"}
    BY <1>9 DEF TerminateAtHead, FailNode, Conclude
  <2>3. y.pc = "saving" => y.then = "done"
    BY <1>9, FailRun, ConcludeRun, OutcomeFields
  <2> QED BY <1>2, <1>4, <1>5, <2>1, <2>2, <2>3 DEF LifeRun
<1>10. CASE ItemReturns(r)
  <2>1. UNCHANGED records BY <1>10 DEF ItemReturns, FoundRow
  <2>2. /\ x.pc = "item"
        /\ y.pc = "saving" => y.row.state = s /\ Exists(x.rec)
    BY <1>10, ItemFields
  <2> QED BY <1>2, <1>4, <1>5, <2>1, <2>2 DEF LifeRun, Exists
<1>11. CASE OverrunIterations(r) \/ BeginNode(r) \/ StopForHuman(r)
            \/ BeginIteration(r) \/ ItemThrows(r)
            \/ \E branch \in AllBranches : FinishNode(r, branch)
  <2>1. UNCHANGED records
    BY <1>11 DEF OverrunIterations, BeginNode, StopForHuman, BeginIteration,
       ItemThrows, FinishNode
  <2>2. x.pc \in {"loop", "exec", "iterate", "item"}
    BY <1>11 DEF OverrunIterations, BeginNode, StopForHuman, BeginIteration,
       ItemThrows, FinishNode
  <2>3. y.pc # "saving"
    BY <1>11, OverrunRun, BeginNodeRun, StopForHumanRun, BeginIterationRun,
       ItemThrowsRun, FinishNodeRun
  <2> QED BY <1>2, <1>4, <1>5, <2>1, <2>2, <2>3 DEF LifeRun
<1> QED BY <1>6, <1>7, <1>8, <1>9, <1>10, <1>11 DEF Advance

LEMMA LifeArrive ==
    ASSUME OneAtATime, TypeInv, CreatedInv, LifeInv, NEW r \in Requests, Arrive(r),
           run'[r].pc \in InFlight
    PROVE  LifeRun(r)'
<1>1. CASE StartFlow(r)
  <2>1. run'[r].pc = "loop" /\ run'[r].rec = created + 1 BY <1>1, StartFlowRun
  <2>2. created + 1 \in RecordIds BY <1>1, InsertRecordType DEF StartFlow
  <2>3. records'[created + 1].state = "INPROGRESS"
    BY <2>2, <1>1 DEF StartFlow, InsertRecord, TypeInv, TypeOK
  <2> QED BY <2>1, <2>2, <2>3 DEF LifeRun
<1>2. ASSUME NEW asked, NEW answer, LoadPrevious(r, asked, answer)
      PROVE  LifeRun(r)'
  <2>1. PICK e \in RecordIds, n \in Nodes : \E c \in Candidates(records[e]) :
            /\ CanResume(e, asked, n, c[1], c[2])
            /\ run'[r].pc = "claiming" /\ run'[r].rec = e
    BY <1>2, LoadPreviousRun
  <2>2. PICK c \in Candidates(records[e]) : CanResume(e, asked, n, c[1], c[2])
    BY <2>1
  <2>3. IsLatest(e) BY <2>2 DEF CanResume
  <2>4. records[e].state \in {"STOPPED", "ERROR"}
    <3>1. \E d, b : Resumable(records[e], d, b) BY DEF Candidates
    <3> QED BY <3>1 DEF Resumable
  <2>5. NoLater(e)
    BY <2>3, BoundsAssumption
       DEF IsLatest, NoLater, Exists, RecordIds, NoRecord, BoundsAssumption
  <2>6. UNCHANGED records BY <1>2 DEF LoadPrevious
  <2> QED BY <2>1, <2>4, <2>5, <2>6 DEF LifeRun, At, NoLater
<1>3. ASSUME NEW asked, RejectResume(r, asked) PROVE FALSE
  BY <1>3, RejectResumeRun DEF InFlight
<1> QED BY <1>1, <1>2, <1>3 DEF Arrive

LEMMA LifeStep ==
    ASSUME OneAtATime, TypeInv, CreatedInv, LifeInv, [Next]_vars PROVE LifeInv'
<1>1. ASSUME NEW r \in Requests, Arrive(r) \/ Advance(r) \/ Abort(r) PROVE LifeInv'
  <2>1. ASSUME NEW s \in Requests, s # r PROVE run'[s].pc \notin InFlight
    BY <1>1, <2>1, OnlyOne
  <2>2. ASSUME run'[r].pc \in InFlight PROVE LifeRun(r)'
    <3>1. CASE Abort(r)
      <4>1. /\ run[r].pc \in InFlight /\ run'[r].rec = run[r].rec
            /\ run'[r].pc = run[r].pc /\ run'[r].then = run[r].then
            /\ run'[r].row = run[r].row
        BY <3>1, AbortRun DEF SameHold, SameWork
      <4>2. UNCHANGED records BY <3>1 DEF Abort
      <4>3. LifeRun(r) BY <4>1 DEF LifeInv, Active
      <4> QED BY <4>1, <4>2, <4>3, LifeHold
    <3> QED BY <1>1, <2>2, <3>1, LifeAdvance, LifeArrive
  <2> QED BY <2>1, <2>2 DEF LifeInv, Active
<1>2. CASE Crash
  <2>1. \A r \in Requests : run'[r].pc \notin InFlight
    BY <1>2, CrashRun DEF InFlight
  <2> QED BY <2>1 DEF LifeInv, Active
<1>3. ASSUME NEW e \in RecordIds, DeleteExecution(e) PROVE LifeInv'
  <2>1. run' = run BY <1>3 DEF DeleteExecution
  <2>2. \A f \in RecordIds : records'[f] \in {records[f], Absent}
    BY <1>3 DEF DeleteExecution, TypeInv, TypeOK
  <2>3. ASSUME NEW r \in Active PROVE LifeRun(r)'
    <3>1. LifeRun(r) BY DEF LifeInv
    <3>2. run[r].rec \in RecordIds BY <3>1 DEF LifeRun
    <3>3. records'[run[r].rec].state \in {records[run[r].rec].state, "ABSENT"}
      BY <2>2, <3>2 DEF Absent
    <3>4. NoLater(run[r].rec) => \A f \in RecordIds : f > run[r].rec => records'[f].state = "ABSENT"
      BY <2>2 DEF NoLater, Absent
    <3> QED BY <2>1, <3>1, <3>3, <3>4 DEF LifeRun, NoLater, At
  <2> QED BY <2>1, <2>3 DEF LifeInv, Active
<1>4. CASE UNCHANGED vars
  BY <1>4 DEF vars, LifeInv, Active, LifeRun, NoLater, At
<1> QED BY <1>1, <1>2, <1>3, <1>4 DEF Next

LEMMA LifeInit == Init => LifeInv
<1> SUFFICES ASSUME Init PROVE LifeInv OBVIOUS
<1>1. \A r \in Requests : run[r].pc = "idle" BY DEF Init, Fresh
<1> QED BY <1>1 DEF LifeInv, Active, InFlight


----------------------------------------------------------------------------
(***************************************************************************)
(* What a record says it is                                                *)
(***************************************************************************)
Matches(rec) ==
    /\ rec.state = "FINISHED" => Statuses(rec.data) \subseteq {"FINISHED"}
    /\ rec.state = "STOPPED" =>
          /\ "STOPPED" \in Statuses(rec.data)
          /\ Statuses(rec.data) \cap Failures = {}
    /\ rec.state \in Failures =>
          \E x \in rec.data.items : IsLast(rec.data, x) /\ x.val.status = rec.state

\* The rows on their way to the table match too.
MatchInv ==
    /\ \A e \in RecordIds : Matches(records[e])
    /\ \A r \in Requests : Matches(run[r].row)

\* A nested run saves its items under the state the record has: where no other
\* request can have written that state meanwhile, or there are no nested runs.
NoStaleState == NoBlocks \/ OneAtATime

LEMMA LastPushed ==
    ASSUME NEW log \in Logs(Entry), IsLog(log), NEW n, NEW status
    PROVE  \E x \in Push(log, Failed(n, status)).items :
              IsLast(Push(log, Failed(n, status)), x) /\ x.val.status = status
<1> DEFINE v == Failed(n, status)
           x == [at |-> log.next, val |-> v]
<1>1. v.status = status BY DEF Failed
<1> HIDE DEF v
<1>2. x \in Push(log, v).items /\ x.val.status = status /\ x.at = log.next
  BY <1>1 DEF Push
<1>3. \A y \in Push(log, v).items : y.at <= log.next
  BY DEF Push, IsLog, Logs, Items
<1> HIDE DEF x
<1>4. IsLast(Push(log, v), x) BY <1>2, <1>3 DEF IsLast
<1> QED BY <1>2, <1>4 DEF v

\* The state recomputed from data without a failure.
LEMMA FinalStateMatches ==
    ASSUME NEW data \in Logs(Entry), Clean(data), NEW rec,
           rec.state = FinalState(data), rec.data = data
    PROVE  Matches(rec)
<1>1. Statuses(data) \subseteq {"FINISHED", "STOPPED", "ERROR", "TERMINATED"}
  BY DEF Statuses, Logs, Items, Entry
<1>2. "ERROR" \notin Statuses(data) /\ "TERMINATED" \notin Statuses(data)
  BY DEF Clean, Failures
<1>3. FinalState(data) = IF "STOPPED" \in Statuses(data) THEN "STOPPED" ELSE "FINISHED"
  BY <1>2 DEF FinalState
<1> QED BY <1>1, <1>2, <1>3 DEF Matches, Failures

LEMMA MatchRow ==
    ASSUME NoStaleState, TypeInv, FailureInv, SavesInv, CreatedInv,
           OneAtATime => LifeInv, MatchInv, [Next]_vars, NEW r \in Requests
    PROVE  Matches(run'[r].row)
<1> DEFINE x == run[r]
           y == run'[r]
<1>0. Matches(x.row) /\ Matches(Absent) BY DEF MatchInv, Matches, Absent, Failures
<1>1. ASSUME y.row = x.row \/ y.row = Absent PROVE Matches(y.row) BY <1>0, <1>1
<1>2. CASE Advance(r)
  <2>1. CASE Claim(r) BY <2>1, <1>1, ClaimFields DEF Matches, Failures
  <2>2. CASE SaveRow(r) BY <2>2, <1>1, SaveRowRun
  <2>3. CASE OverrunIterations(r) \/ BeginItem(r) \/ ItemThrows(r)
    BY <2>3, <1>1, OverrunRun, BeginItemRun, ItemThrowsRun DEF SameHold
  <2>4. CASE BeginNode(r) BY <2>4, <1>1, BeginNodeRun
  <2>5. CASE StopForHuman(r) BY <2>5, <1>1, StopForHumanRun
  <2>6. CASE BeginIteration(r) BY <2>6, <1>1, BeginIterationRun
  <2>7. ASSUME NEW branch, FinishNode(r, branch) PROVE Matches(y.row)
    BY <2>7, <1>1, FinishNodeRun
  <2>8. CASE TerminateAtHead(r) \/ FailNode(r)
    <3>1. PICK n \in Nodes, status \in Failures :
              /\ Outcome(x, y, Push(x.data, Failed(n, status)), status, Exists(x.rec))
              /\ x.pc \in {"loop", "exec"}
      BY <2>8, FailRun
    <3>2. \/ y.row.state = status /\ y.row.data = Push(x.data, Failed(n, status))
          \/ y.row = x.row
      BY <3>1, OutcomeFields
    <3>3. IsLog(x.data) /\ x.data \in Logs(Entry) BY RunTypes DEF FailureInv, RunOK
    <3>4. ASSUME y.row.state = status, y.row.data = Push(x.data, Failed(n, status))
          PROVE  Matches(y.row)
      <4>1. status \notin {"FINISHED", "STOPPED"} BY DEF Failures
      <4> QED BY <3>3, <3>4, <4>1, LastPushed DEF Matches
    <3> QED BY <1>1, <3>2, <3>4
  <2>9. CASE Conclude(r)
    <3>1. /\ Outcome(x, y, x.data, FinalState(x.data), Exists(x.rec))
          /\ x.pc \in {"stopping", "loop"}
      BY <2>9, ConcludeRun
    <3>2. \/ y.row.state = FinalState(x.data) /\ y.row.data = x.data
          \/ y.row = x.row
      BY <3>1, OutcomeFields
    <3>3. Clean(x.data) /\ x.data \in Logs(Entry)
      BY <3>1, RunTypes DEF FailureInv, RunOK, Goes, InFlight
    <3> QED BY <1>1, <3>2, <3>3, FinalStateMatches
  <2>10. CASE ItemReturns(r)
    <3>1. /\ x.pc = "item"
          /\ \/ Exists(x.rec) /\ y.row.state = records[x.rec].state
             \/ y.row = x.row
      BY <2>10, ItemFields
    <3>2. ASSUME Exists(x.rec), y.row.state = records[x.rec].state
          PROVE  y.row.state = "INPROGRESS"
      <4>1. Children(x.current) # {} /\ x.current \in Nodes
        BY <3>1 DEF SavesInv, SavesWell, At, TypeInv, Busy, BusyRun
      <4>2. ~ NoBlocks
        BY <4>1, FlowAssumption DEF NoBlocks, Children, FlowAssumption
      <4>3. LifeRun(r) BY <4>2, <3>1 DEF NoStaleState, LifeInv, Active, InFlight
      <4> QED BY <3>1, <3>2, <4>3 DEF LifeRun, Exists
    <3>3. ASSUME y.row.state = "INPROGRESS" PROVE Matches(y.row)
      BY <3>3 DEF Matches, Failures
    <3> QED BY <3>1, <3>2, <3>3, <1>1
  <2> QED BY <1>2, <2>1, <2>2, <2>3, <2>4, <2>5, <2>6, <2>7, <2>8, <2>9, <2>10
          DEF Advance
<1>3. CASE Arrive(r)
  <2>1. CASE StartFlow(r) BY <2>1, <1>1, StartFlowRun
  <2>2. ASSUME NEW asked, NEW answer, LoadPrevious(r, asked, answer)
        PROVE  Matches(y.row)
    BY <2>2, <1>1, LoadPreviousRun
  <2>3. ASSUME NEW asked, RejectResume(r, asked) PROVE Matches(y.row)
    BY <2>3, <1>1, RejectResumeRun DEF SameHold
  <2> QED BY <1>3, <2>1, <2>2, <2>3 DEF Arrive
<1>4. CASE Abort(r) BY <1>1, <1>4, AbortRun DEF SameHold
<1>5. ASSUME NEW s \in Requests, s # r, Arrive(s) \/ Advance(s) \/ Abort(s)
      PROVE  y = x
  BY <1>5, OthersStay
<1>6. CASE Crash BY <1>1, <1>6, CrashRun DEF SameHold
<1>7. CASE UNCHANGED run BY <1>1, <1>7
<1> QED BY <1>1, <1>2, <1>3, <1>4, <1>5, <1>6, <1>7 DEF Next, vars, DeleteExecution

LEMMA MatchStep ==
    ASSUME NoStaleState, TypeInv, FailureInv, SavesInv, CreatedInv,
           OneAtATime => LifeInv, MatchInv, [Next]_vars
    PROVE  MatchInv'
<1>1. \A r \in Requests : Matches(run'[r].row) BY MatchRow
<1>2. Matches(Absent) /\ Matches(NewRecord)
  BY DEF Matches, Absent, NewRecord, Failures
<1>3. \A e \in RecordIds : Matches(records'[e]) BY <1>2, RecordStep DEF MatchInv
<1> QED BY <1>1, <1>3 DEF MatchInv

LEMMA MatchAlways == ASSUME NoStaleState PROVE Spec => []MatchInv
<1>1. Spec => []TypeInv BY TypeInit, TypeStep, PTL DEF Spec
<1>2. Spec => []FailureInv BY <1>1, FailureInit, FailureStep, PTL DEF Spec
<1>3. Init => SavesInv
  <2> SUFFICES ASSUME Init PROVE SavesInv OBVIOUS
  <2>1. \A r \in Requests : run[r].pc = "idle" BY DEF Init, Fresh
  <2> QED BY <2>1 DEF SavesInv, SavesWell, At
<1>4. TypeInv /\ SavesInv /\ [Next]_vars => SavesInv'
  BY SavesWellStep DEF SavesInv
<1>5. Spec => []SavesInv BY <1>1, <1>3, <1>4, PTL DEF Spec
<1>6. Spec => []CreatedInv BY <1>1, CreatedInit, CreatedStep, PTL DEF Spec
<1> DEFINE L == OneAtATime => LifeInv
<1>7. TypeInv /\ CreatedInv /\ L /\ [Next]_vars => L' BY LifeStep
<1>8. Init => L BY LifeInit
<1> HIDE DEF L
<1>9. Spec => []L BY <1>1, <1>6, <1>7, <1>8, PTL DEF Spec
<1>10. Init => MatchInv
  <2> SUFFICES ASSUME Init PROVE MatchInv OBVIOUS
  <2>1. \A e \in RecordIds : records[e] = Absent BY DEF Init
  <2>2. \A r \in Requests : run[r].row = Absent BY DEF Init, Fresh
  <2> QED BY <2>1, <2>2 DEF MatchInv, Matches, Absent, Failures
<1>11. TypeInv /\ FailureInv /\ SavesInv /\ CreatedInv /\ L /\ MatchInv /\ [Next]_vars
         => MatchInv'
  BY MatchStep DEF L
<1> QED BY <1>1, <1>2, <1>5, <1>6, <1>9, <1>10, <1>11, PTL DEF Spec

\* What a record says it is, its items bear out, for any number of overlapping
\* requests on a flow without iteration blocks, and for requests that do not
\* overlap on any flow.
THEOREM RecordMatchesDataHolds ==
    ASSUME NoStaleState PROVE Spec => []RecordMatchesData
<1>1. MatchInv => RecordMatchesData BY DEF MatchInv, Matches, RecordMatchesData
<1> QED BY <1>1, MatchAlways, PTL

\* The last of the stopped items.
LEMMA LastStopped ==
    ASSUME NEW data \in Logs(Entry), IsLog(data), "STOPPED" \in Statuses(data)
    PROVE  \E x \in data.items :
              /\ x.val.status = "STOPPED" /\ x.val.node \in Nodes
              /\ \A y \in data.items : y.val.status = "STOPPED" => y.at <= x.at
<1> DEFINE X == {x \in data.items : x.val.status = "STOPPED"}
           S == {x.at : x \in X}
<1>1. \A x \in data.items : x.at \in Nat /\ x.val.node \in Nodes
  BY DEF Logs, Items, Entry
<1>2. S \subseteq Nat BY <1>1
<1>3. S # {} BY DEF Statuses
<1>4. data.next \in Nat /\ \A k \in S : k <= data.next BY <1>1 DEF IsLog, Logs
<1>5. PICK k \in S : \A j \in S : j <= k
  <2> HIDE DEF S
  <2> QED BY <1>2, <1>3, <1>4, GreatestNatural
<1>6. PICK x \in X : x.at = k OBVIOUS
<1> QED BY <1>1, <1>5, <1>6

\* A human who answers the latest execution while it is STOPPED, naming no node, is
\* never turned away: the record has a stopped item, and the last of them is where
\* the answer goes.
THEOREM StoppedIsResumableHolds ==
    ASSUME NoStaleState PROVE Spec => []StoppedIsResumable
<1>1. Spec => []TypeInv BY TypeInit, TypeStep, PTL DEF Spec
<1>2. Spec => []FailureInv BY <1>1, FailureInit, FailureStep, PTL DEF Spec
<1>3. ASSUME TypeInv, FailureInv, MatchInv PROVE StoppedIsResumable
  <2> SUFFICES ASSUME NEW e \in RecordIds, IsLatest(e), records[e].state = "STOPPED"
               PROVE  \E n \in Nodes : CanResume(e, NoNode, n, records[e].data, FALSE)
    BY DEF StoppedIsResumable
  <2> DEFINE data == records[e].data
  <2>1. data \in Logs(Entry) BY <1>3 DEF TypeInv, TypeOK, Record
  <2>2. IsLog(data) BY <1>3 DEF FailureInv, RecordOK
  <2>3. "STOPPED" \in Statuses(data) BY <1>3 DEF MatchInv, Matches
  <2>4. PICK x \in data.items :
              /\ x.val.status = "STOPPED" /\ x.val.node \in Nodes
              /\ \A y \in data.items : y.val.status = "STOPPED" => y.at <= x.at
    BY <2>1, <2>2, <2>3, LastStopped
  <2>5. <<data, FALSE>> \in Candidates(records[e]) BY DEF Candidates, Resumable
  <2>6. ResumesAt(data, NoNode, x.val.node) BY <2>4 DEF ResumesAt
  <2> QED BY <2>4, <2>5, <2>6 DEF CanResume
<1> QED BY <1>1, <1>2, <1>3, MatchAlways, PTL


----------------------------------------------------------------------------
(***************************************************************************)
(* How much a run does                                                     *)
(***************************************************************************)
\* The flows and uses in which nothing can be resumed: no node ever stops for a
\* human, or there is only one request.
NoStops == \A n \in Nodes : Kind[n] \notin {"human", "agent"}

OneRequest == \A r, s \in Requests : r = s

NothingResumed == NoStops \/ OneRequest

StopFree(data) == "STOPPED" \notin Statuses(data)

StopFreeRecord(rec) == rec.state # "STOPPED" /\ StopFree(rec.data)

FreshInv ==
    /\ NoStops =>
          /\ \A e \in RecordIds : StopFreeRecord(records[e])
          /\ \A r \in Requests : StopFreeRecord(run[r].row) /\ StopFree(run[r].data)
    /\ OneRequest =>
          \A r \in Requests, e \in RecordIds :
              run[r].pc = "idle" => records[e] = Absent

LEMMA PushStatuses ==
    ASSUME NEW log, NEW v
    PROVE  Statuses(Push(log, v)) = Statuses(log) \cup {v.status}
<1> DEFINE w == [at |-> log.next, val |-> v]
<1>1. w.val = v OBVIOUS
<1>2. Push(log, v).items = log.items \cup {w} BY PushItems
<1> HIDE DEF w
<1> QED BY <1>1, <1>2 DEF Statuses

LEMMA StopFreePush ==
    ASSUME NEW log, StopFree(log), NEW n, NEW status, NEW branch, status # "STOPPED"
    PROVE  StopFree(Push(log, [node |-> n, status |-> status, branch |-> branch]))
<1> DEFINE v == [node |-> n, status |-> status, branch |-> branch]
<1>1. v.status = status OBVIOUS
<1> HIDE DEF v
<1>2. StopFree(Push(log, v)) BY <1>1, PushStatuses DEF StopFree
<1> QED BY <1>2 DEF v

LEMMA StopFreeBefore ==
    ASSUME TypeInv, NEW r \in Requests, StopFree(run[r].data)
    PROVE  StopFree(DataBefore(r))
<1>1. run[r].data \in Logs(Entry) BY RunTypes
<1> QED BY <1>1 DEF StopFree, Statuses, DataBefore, Without, Logs

\* There is nothing a human could answer.
LEMMA NothingLoaded ==
    ASSUME NothingResumed, TypeInv, FreshInv, NEW r \in Requests, NEW asked, NEW answer
    PROVE  ~ LoadPrevious(r, asked, answer)
<1> SUFFICES ASSUME LoadPrevious(r, asked, answer) PROVE FALSE OBVIOUS
<1>1. PICK e \in RecordIds, n \in Nodes : \E c \in Candidates(records[e]) :
          CanResume(e, asked, n, c[1], c[2]) /\ run[r].pc = "idle"
  BY LoadPreviousRun
<1>2. PICK c \in Candidates(records[e]) : CanResume(e, asked, n, c[1], c[2]) BY <1>1
<1>3. \E d, b : Resumable(records[e], d, b) BY <1>2 DEF Candidates
<1>4. CASE NoStops
  <2>1. StopFreeRecord(records[e]) BY <1>4 DEF FreshInv
  <2>2. records[e].data \in Logs(Entry) BY DEF TypeInv, TypeOK, Record
  <2>3. \E d, second :
           /\ second \in d.items /\ second.val.status = "STOPPED"
           /\ d.items \subseteq records[e].data.items
    BY <1>3, <2>1, <2>2 DEF Resumable, StopFreeRecord, Without, IsLast, Logs
  <2> QED BY <2>1, <2>3 DEF StopFreeRecord, StopFree, Statuses
<1>5. CASE OneRequest
  <2>1. records[e] = Absent BY <1>1, <1>5 DEF FreshInv
  <2> QED BY <2>1, <1>2 DEF CanResume, IsLatest, Exists, Absent
<1> QED BY <1>4, <1>5 DEF NothingResumed

LEMMA StopFreeRuns ==
    ASSUME NoStops, TypeInv, FreshInv, [Next]_vars, NEW r \in Requests
    PROVE  StopFreeRecord(run'[r].row) /\ StopFree(run'[r].data)
<1> DEFINE x == run[r]
           y == run'[r]
           OK == StopFreeRecord(y.row) /\ StopFree(y.data)
<1>0. /\ StopFreeRecord(x.row) /\ StopFree(x.data) /\ StopFreeRecord(Absent)
      /\ StopFree(EmptyLog)
  BY DEF FreshInv, StopFreeRecord, StopFree, Absent, EmptyLog, Statuses
<1>1. ASSUME y.row = x.row \/ y.row = Absent, y.data = x.data PROVE OK BY <1>0, <1>1
<1>2. CASE Advance(r)
  <2>1. CASE Claim(r)
    <3>1. Exists(x.rec) => StopFree(records[x.rec].data)
      BY RecId DEF FreshInv, StopFreeRecord
    <3>2. y.data = x.data BY <2>1, ClaimRun
    <3>3. CASE Exists(x.rec) /\ y.row.state = "INPROGRESS"
               /\ y.row.data = IF x.dropped THEN x.data ELSE records[x.rec].data
      BY <1>0, <3>1, <3>2, <3>3 DEF StopFreeRecord
    <3> QED BY <2>1, <1>1, <3>2, <3>3, ClaimFields
  <2>2. CASE SaveRow(r) BY <2>2, <1>1, SaveRowRun
  <2>3. CASE OverrunIterations(r) \/ BeginItem(r) \/ ItemThrows(r)
    BY <2>3, <1>1, OverrunRun, BeginItemRun, ItemThrowsRun DEF SameHold
  <2>4. CASE BeginNode(r) BY <2>4, <1>1, BeginNodeRun
  <2>5. CASE StopForHuman(r)
    <3>1. x.pc = "exec" /\ Kind[x.current] \in {"human", "agent"}
      BY <2>5, StopForHumanRun
    <3>2. x.current \in Nodes BY <3>1 DEF TypeInv, Busy, BusyRun
    <3> QED BY <3>1, <3>2 DEF NoStops
  <2>6. CASE BeginIteration(r)
    BY <2>6, <1>0, BeginIterationRun, StopFreeBefore
  <2>7. ASSUME NEW branch, FinishNode(r, branch) PROVE OK
    <3>1. /\ y.row = x.row
          /\ y.data = Push(DataAtFinish(r), [node |-> x.current, status |-> "FINISHED",
                                             branch |-> branch])
      BY <2>7, FinishNodeRun
    <3>2. StopFree(DataAtFinish(r)) BY <1>0, StopFreeBefore DEF DataAtFinish
    <3> QED BY <1>0, <3>1, <3>2, StopFreePush
  <2>8. CASE TerminateAtHead(r) \/ FailNode(r)
    <3>1. PICK n \in Nodes, status \in Failures :
              Outcome(x, y, Push(x.data, Failed(n, status)), status, Exists(x.rec))
      BY <2>8, FailRun
    <3>2. status # "STOPPED" BY DEF Failures
    <3>3. StopFree(Push(x.data, Failed(n, status)))
      BY <1>0, <3>2, StopFreePush DEF Failed
    <3> QED BY <1>0, <3>1, <3>2, <3>3, OutcomeFields DEF StopFreeRecord
  <2>9. CASE Conclude(r)
    <3>1. Outcome(x, y, x.data, FinalState(x.data), Exists(x.rec)) BY <2>9, ConcludeRun
    <3>2. FinalState(x.data) # "STOPPED" BY <1>0 DEF FinalState, StopFree
    <3> QED BY <1>0, <3>1, <3>2, OutcomeFields DEF StopFreeRecord
  <2>10. CASE ItemReturns(r)
    <3>1. PICK c \in Children(x.current), status \in {"FINISHED", "STOPPED"} :
              /\ status = "STOPPED" => Kind[c] \in {"agent", "human"}
              /\ y.data = Push(x.data, [node |-> c, status |-> status,
                                        branch |-> NoBranch])
      BY <2>10, ItemReturnsRun
    <3>2. status # "STOPPED" BY <3>1 DEF NoStops, Children
    <3>3. StopFree(y.data) BY <1>0, <3>1, <3>2, StopFreePush
    <3>4. Exists(x.rec) => records[x.rec].state # "STOPPED"
      BY RecId DEF FreshInv, StopFreeRecord
    <3> QED BY <2>10, <1>0, <3>3, <3>4, ItemFields DEF StopFreeRecord
  <2> QED BY <1>2, <2>1, <2>2, <2>3, <2>4, <2>5, <2>6, <2>7, <2>8, <2>9, <2>10
          DEF Advance
<1>3. CASE Arrive(r)
  <2>1. CASE StartFlow(r) BY <2>1, <1>0, StartFlowRun
  <2>2. ASSUME NEW asked, NEW answer, LoadPrevious(r, asked, answer) PROVE OK
    BY <2>2, NothingLoaded DEF NothingResumed
  <2>3. ASSUME NEW asked, RejectResume(r, asked) PROVE OK
    BY <2>3, <1>1, RejectResumeRun DEF SameHold
  <2> QED BY <1>3, <2>1, <2>2, <2>3 DEF Arrive
<1>4. CASE Abort(r) BY <1>1, <1>4, AbortRun DEF SameHold
<1>5. ASSUME NEW s \in Requests, s # r, Arrive(s) \/ Advance(s) \/ Abort(s)
      PROVE  y = x
  BY <1>5, OthersStay
<1>6. CASE Crash BY <1>1, <1>6, CrashRun DEF SameHold
<1>7. CASE UNCHANGED run BY <1>1, <1>7
<1> QED BY <1>1, <1>2, <1>3, <1>4, <1>5, <1>6, <1>7 DEF Next, vars, DeleteExecution


LEMMA FreshStep ==
    ASSUME NothingResumed, TypeInv, FreshInv, [Next]_vars PROVE FreshInv'
<1>1. ASSUME NoStops
      PROVE  /\ \A e \in RecordIds : StopFreeRecord(records'[e])
             /\ \A r \in Requests :
                   StopFreeRecord(run'[r].row) /\ StopFree(run'[r].data)
  <2>1. StopFreeRecord(Absent) /\ StopFreeRecord(NewRecord)
    BY DEF StopFreeRecord, StopFree, Absent, NewRecord, EmptyLog, Statuses
  <2>2. \A e \in RecordIds : StopFreeRecord(records'[e])
    BY <1>1, <2>1, RecordStep DEF FreshInv
  <2> QED BY <1>1, <2>2, StopFreeRuns
<1>2. ASSUME OneRequest, NEW r \in Requests, NEW e \in RecordIds, run'[r].pc = "idle"
      PROVE  records'[e] = Absent
  <2>1. \A s \in Requests : s = r BY <1>2 DEF OneRequest
  <2>2. ~ Arrive(r)
    BY <1>2, NothingLoaded, StartFlowRun, RejectResumeRun DEF Arrive
  <2>3. ~ Advance(r)
    <3> SUFFICES ASSUME Advance(r) PROVE FALSE OBVIOUS
    <3>1. CASE SaveRow(r)
      BY <1>2, <3>1, SaveRowRun, RunTypes DEF Run
    <3>2. CASE Claim(r) \/ ItemReturns(r) BY <1>2, <3>2, ClaimFields, ItemFields
    <3>3. CASE OverrunIterations(r) \/ BeginNode(r) \/ StopForHuman(r)
      BY <1>2, <3>3, OverrunRun, BeginNodeRun, StopForHumanRun
    <3>4. CASE TerminateAtHead(r) \/ FailNode(r)
      BY <1>2, <3>4, FailRun, OutcomeFields
    <3>5. CASE Conclude(r) BY <1>2, <3>5, ConcludeRun, OutcomeFields
    <3>6. ASSUME NEW branch, FinishNode(r, branch) PROVE FALSE
      BY <1>2, <3>6, FinishNodeRun
    <3>7. CASE BeginIteration(r) \/ BeginItem(r) \/ ItemThrows(r)
      BY <1>2, <3>7, BeginIterationRun, BeginItemRun, ItemThrowsRun
    <3> QED BY <3>1, <3>2, <3>3, <3>4, <3>5, <3>6, <3>7 DEF Advance
  <2>4. run[r].pc = "idle"
    <3>1. CASE Abort(r) BY <1>2, <3>1, AbortRun
    <3>2. CASE Crash BY <1>2, <3>2, CrashRun
    <3>3. CASE UNCHANGED run BY <1>2, <3>3
    <3> QED BY <2>1, <2>2, <2>3, <3>1, <3>2, <3>3 DEF Next, vars, DeleteExecution
  <2>5. records[e] = Absent BY <1>2, <2>4 DEF FreshInv
  <2>6. ASSUME NEW s \in Requests, SaveRow(s) \/ StartFlow(s) \/ BeginItem(s) PROVE FALSE
    BY <2>1, <2>2, <2>3, <2>6 DEF Advance, Arrive
  <2> QED BY <2>5, <2>6, RecordStep
<1> QED BY <1>1, <1>2 DEF FreshInv

LEMMA FreshInit == Init => FreshInv
<1> SUFFICES ASSUME Init PROVE FreshInv OBVIOUS
<1>1. \A e \in RecordIds : records[e] = Absent BY DEF Init
<1>2. \A r \in Requests : run[r].row = Absent /\ run[r].data = EmptyLog
  BY DEF Init, Fresh
<1>3. StopFreeRecord(Absent) /\ StopFree(EmptyLog)
  BY DEF StopFreeRecord, StopFree, Absent, EmptyLog, Statuses
<1> QED BY <1>1, <1>2, <1>3 DEF FreshInv


\* The items of nodes on the canvas, outside every block.
Canvas(data) == {x \in data.items : Inside[x.val.node] = NoNode}

Few(data, k) == IsFiniteSet(data.items) /\ Cardinality(Canvas(data)) <= k

\* The items of a run never outnumber the nodes it took off its queue, the one it
\* is executing excepted.
WorkRun(x) ==
    /\ x.iterations <= MaxIterations + 1
    /\ Few(x.data, MaxIterations + 1)
    /\ At(x) \in {"claiming", "loop", "stopping"} => Few(x.data, x.iterations)
    /\ At(x) \in {"exec", "iterate", "item"} =>
          x.iterations > 0 /\ Few(x.data, x.iterations - 1)

WorkInv == \A r \in Requests : WorkRun(run[r])

LEMMA FewEmpty == ASSUME NEW k \in Nat PROVE Few(EmptyLog, k)
<1>1. EmptyLog.items = {} /\ Canvas(EmptyLog) = {} BY DEF EmptyLog, Canvas
<1> QED BY <1>1, FS_EmptySet DEF Few

LEMMA FewSubset ==
    ASSUME NEW log, NEW k \in Nat, Few(log, k), NEW less, less.items \subseteq log.items
    PROVE  Few(less, k)
<1>1. IsFiniteSet(less.items) BY FS_Subset DEF Few
<1>2. Canvas(less) \subseteq Canvas(log) BY DEF Canvas
<1>3. IsFiniteSet(Canvas(log)) /\ IsFiniteSet(Canvas(less))
  BY <1>1, FS_Subset DEF Few, Canvas
<1>4. Cardinality(Canvas(less)) <= Cardinality(Canvas(log)) BY <1>2, <1>3, FS_Subset
<1>5. Cardinality(Canvas(less)) \in Nat /\ Cardinality(Canvas(log)) \in Nat
  BY <1>3, FS_CardinalityType
<1> QED BY <1>1, <1>4, <1>5 DEF Few

LEMMA FewMore ==
    ASSUME NEW log, NEW k \in Nat, Few(log, k), NEW m \in Nat, k <= m
    PROVE  Few(log, m)
<1>1. IsFiniteSet(Canvas(log)) BY FS_Subset DEF Few, Canvas
<1>2. Cardinality(Canvas(log)) \in Nat BY <1>1, FS_CardinalityType
<1> QED BY <1>2 DEF Few

LEMMA FewPush ==
    ASSUME NEW log, NEW k \in Nat, Few(log, k), NEW v
    PROVE  /\ Few(Push(log, v), k + 1)
           /\ Inside[v.node] # NoNode => Few(Push(log, v), k)
<1> DEFINE w == [at |-> log.next, val |-> v]
<1>1. w.val = v OBVIOUS
<1>2. Push(log, v).items = log.items \cup {w} BY PushItems
<1> HIDE DEF w
<1>3. IsFiniteSet(Push(log, v).items) BY <1>2, FS_AddElement DEF Few
<1>4. Canvas(Push(log, v)) =
        IF Inside[v.node] = NoNode THEN Canvas(log) \cup {w} ELSE Canvas(log)
  BY <1>1, <1>2 DEF Canvas
<1>5. IsFiniteSet(Canvas(log)) BY FS_Subset DEF Few, Canvas
<1>6. Cardinality(Canvas(log)) \in Nat BY <1>5, FS_CardinalityType
<1>7. Cardinality(Canvas(log) \cup {w}) \in
        {Cardinality(Canvas(log)), Cardinality(Canvas(log)) + 1}
  BY <1>5, FS_AddElement
<1> QED BY <1>3, <1>4, <1>6, <1>7 DEF Few


OnQueue == {"claiming", "loop", "stopping"}
AtNode == {"exec", "iterate", "item"}

LEMMA WorkHold ==
    ASSUME NEW x, NEW y, WorkRun(x), y.iterations = x.iterations, y.data = x.data,
           \/ At(y) = At(x)
           \/ At(x) \in OnQueue /\ At(y) \in OnQueue
           \/ At(x) \in AtNode /\ At(y) \in AtNode
           \/ At(y) \notin OnQueue \cup AtNode
    PROVE  WorkRun(y)
BY DEF WorkRun, OnQueue, AtNode

LEMMA WorkStep ==
    ASSUME NothingResumed, TypeInv, FreshInv, WorkInv, [Next]_vars
    PROVE  WorkInv'
<1> SUFFICES ASSUME NEW r \in Requests PROVE WorkRun(run'[r]) BY DEF WorkInv
<1> DEFINE x == run[r]
           y == run'[r]
<1>0. WorkRun(x) BY DEF WorkInv
<1>1. x.iterations \in Nat /\ MaxIterations \in Nat
  BY RunTypes, BoundsAssumption DEF Run, BoundsAssumption
<1>2. CASE Advance(r)
  <2>1. CASE Claim(r)
    BY <2>1, <1>0, ClaimRun, ClaimFields, WorkHold DEF SameWork, At, OnQueue, AtNode
  <2>2. CASE SaveRow(r)
    <3>1. x.then # "saving" BY RunTypes DEF Run
    <3> QED BY <2>2, <3>1, <1>0, SaveRowRun, WorkHold DEF SameWork, At
  <2>3. CASE OverrunIterations(r)
    BY <2>3, <1>0, OverrunRun, WorkHold DEF SameHold, SameWork, At, OnQueue, AtNode
  <2>4. CASE BeginItem(r) \/ ItemThrows(r)
    BY <2>4, <1>0, BeginItemRun, ItemThrowsRun, WorkHold
       DEF SameHold, SameWork, At, OnQueue, AtNode
  <2>5. CASE BeginNode(r)
    <3>1. /\ y.pc = "exec" /\ y.iterations = x.iterations + 1 /\ y.data = x.data
          /\ x.pc = "loop" /\ x.iterations <= MaxIterations
      BY <2>5, BeginNodeRun DEF WithinLimit
    <3>2. Few(x.data, x.iterations) BY <1>0, <3>1 DEF WorkRun, At
    <3>3. x.iterations + 1 - 1 = x.iterations /\ x.iterations + 1 <= MaxIterations + 1
      BY <1>1, <3>1
    <3>4. Few(x.data, MaxIterations + 1) BY <1>0 DEF WorkRun
    <3> QED BY <1>1, <3>1, <3>2, <3>3, <3>4 DEF WorkRun, At
  <2>6. CASE TerminateAtHead(r) \/ FailNode(r)
    <3>1. PICK n \in Nodes, status \in Failures :
              /\ Outcome(x, y, Push(x.data, Failed(n, status)), status, Exists(x.rec))
              /\ (x.pc = "loop" /\ WithinLimit(r)) \/ x.pc = "exec"
      BY <2>6, FailRun
    <3>2. Few(x.data, MaxIterations)
      <4>1. CASE x.pc = "loop" /\ x.iterations <= MaxIterations
        BY <4>1, <1>0, <1>1, FewMore DEF WorkRun, At
      <4>2. CASE x.pc = "exec"
        <5>1. /\ x.iterations - 1 \in Nat /\ x.iterations - 1 <= MaxIterations
              /\ Few(x.data, x.iterations - 1)
          BY <4>2, <1>0, <1>1 DEF WorkRun, At
        <5> QED BY <5>1, <1>1, FewMore
      <4> QED BY <3>1, <4>1, <4>2 DEF WithinLimit
    <3>3. Few(Push(x.data, Failed(n, status)), MaxIterations + 1)
      BY <3>2, <1>1, FewPush
    <3>4. /\ y.iterations = x.iterations /\ Few(y.data, MaxIterations + 1)
          /\ At(y) \in {"done", "rejected"}
      BY <3>1, <3>3, OutcomeFields DEF SameWork, At
    <3> QED BY <3>4, <1>0 DEF WorkRun
  <2>7. CASE Conclude(r)
    BY <2>7, <1>0, ConcludeRun, OutcomeFields, WorkHold DEF SameWork, At, OnQueue, AtNode
  <2>8. ASSUME x.pc \in AtNode, y.iterations = x.iterations, y.pc \in OnQueue,
               NEW less, less.items \subseteq x.data.items, NEW v,
               y.data = Push(less, v)
        PROVE  WorkRun(y)
    <3>1. /\ x.iterations - 1 \in Nat /\ x.iterations <= MaxIterations + 1
          /\ Few(x.data, x.iterations - 1)
      BY <2>8, <1>0, <1>1 DEF WorkRun, At, AtNode
    <3>2. Few(y.data, x.iterations - 1 + 1)
      BY <2>8, <3>1, FewSubset, FewPush
    <3>3. x.iterations - 1 + 1 = x.iterations BY <1>1
    <3>4. Few(y.data, x.iterations) /\ Few(y.data, MaxIterations + 1)
      BY <3>1, <3>2, <3>3, <1>1, FewMore
    <3> QED BY <2>8, <3>1, <3>4 DEF WorkRun, At, AtNode, OnQueue
  <2>9. DataBefore(r).items \subseteq x.data.items
    <3>1. x.data \in Logs(Entry) BY RunTypes
    <3> QED BY <3>1 DEF DataBefore, Without, Logs
  <2>10. CASE StopForHuman(r)
    <3> DEFINE v == [node |-> x.current, status |-> "STOPPED", branch |-> NoBranch]
    <3>1. /\ x.pc = "exec" /\ y.pc = "stopping" /\ y.iterations = x.iterations
          /\ y.data = Push(DataBefore(r), v)
      BY <2>10, StopForHumanRun
    <3> HIDE DEF v
    <3> QED BY <2>8, <2>9, <3>1 DEF AtNode, OnQueue
  <2>11. ASSUME NEW branch, FinishNode(r, branch) PROVE WorkRun(y)
    <3>1. DataAtFinish(r).items \subseteq x.data.items BY <2>9 DEF DataAtFinish
    <3> DEFINE v == [node |-> x.current, status |-> "FINISHED", branch |-> branch]
    <3>2. /\ x.pc \in {"exec", "iterate"} /\ y.pc = "loop"
          /\ y.iterations = x.iterations /\ y.data = Push(DataAtFinish(r), v)
      BY <2>11, FinishNodeRun
    <3> HIDE DEF v
    <3> QED BY <2>8, <3>1, <3>2 DEF AtNode, OnQueue
  <2>12. CASE BeginIteration(r)
    <3>1. /\ x.pc = "exec" /\ y.pc = "iterate" /\ y.iterations = x.iterations
          /\ y.data = DataBefore(r)
      BY <2>12, BeginIterationRun DEF SameWork
    <3>2. /\ x.iterations - 1 \in Nat /\ Few(x.data, x.iterations - 1) /\ x.iterations > 0
          /\ x.iterations <= MaxIterations + 1
      BY <3>1, <1>0, <1>1 DEF WorkRun, At
    <3>3. Few(y.data, x.iterations - 1) BY <3>1, <3>2, <2>9, FewSubset
    <3>4. Few(y.data, MaxIterations + 1) BY <3>2, <3>3, <1>1, FewMore
    <3> QED BY <3>1, <3>2, <3>3, <3>4 DEF WorkRun, At
  <2>13. CASE ItemReturns(r)
    <3>1. PICK c \in Children(x.current), status \in {"FINISHED", "STOPPED"} :
              y.data = Push(x.data, [node |-> c, status |-> status,
                                     branch |-> NoBranch])
      BY <2>13, ItemReturnsRun
    <3>2. x.pc = "item" /\ y.iterations = x.iterations /\ At(y) = "iterate"
      BY <2>13, ItemFields DEF SameWork, At
    <3>3. /\ x.iterations - 1 \in Nat /\ Few(x.data, x.iterations - 1) /\ x.iterations > 0
          /\ x.iterations <= MaxIterations + 1
      BY <3>2, <1>0, <1>1 DEF WorkRun, At
    <3>4. Inside[c] # NoNode
      <4>1. x.current \in Nodes BY <3>2 DEF TypeInv, Busy, BusyRun
      <4> QED BY <4>1, RunTypes DEF Children
    <3> DEFINE v == [node |-> c, status |-> status, branch |-> NoBranch]
    <3>5. v.node = c OBVIOUS
    <3> HIDE DEF v
    <3>6. Few(Push(x.data, v), x.iterations - 1) BY <3>3, <3>4, <3>5, FewPush
    <3>7. Few(y.data, x.iterations - 1) BY <3>1, <3>6 DEF v
    <3>8. Few(y.data, MaxIterations + 1) BY <3>3, <3>7, <1>1, FewMore
    <3> QED BY <3>2, <3>3, <3>7, <3>8 DEF WorkRun
  <2> QED BY <1>2, <2>1, <2>2, <2>3, <2>4, <2>5, <2>6, <2>7, <2>10, <2>11, <2>12, <2>13
          DEF Advance
<1>3. CASE Arrive(r)
  <2>1. CASE StartFlow(r)
    <3>1. y.pc = "loop" /\ y.iterations = 0 /\ y.data = EmptyLog
      BY <2>1, StartFlowRun
    <3> QED BY <3>1, <1>1, FewEmpty DEF WorkRun, At
  <2>2. ~ \E asked \in Asked, answer \in {0, 1} : LoadPrevious(r, asked, answer)
    BY NothingLoaded
  <2>3. ASSUME NEW asked, RejectResume(r, asked) PROVE WorkRun(y)
    BY <2>3, <1>0, RejectResumeRun, WorkHold DEF SameHold, SameWork, At, OnQueue, AtNode
  <2> QED BY <1>3, <2>1, <2>2, <2>3 DEF Arrive
<1>4. CASE Abort(r) BY <1>0, <1>4, AbortRun, WorkHold DEF SameHold, SameWork, At
<1>5. ASSUME NEW s \in Requests, s # r, Arrive(s) \/ Advance(s) \/ Abort(s)
      PROVE  y = x
  BY <1>5, OthersStay
<1>6. CASE Crash
  BY <1>0, <1>6, CrashRun, WorkHold DEF SameHold, SameWork, At, OnQueue, AtNode
<1>7. CASE UNCHANGED run BY <1>0, <1>7
<1> QED BY <1>0, <1>2, <1>3, <1>4, <1>5, <1>6, <1>7 DEF Next, vars, DeleteExecution

\* MAX_ITERATIONS bounds what a run does on the canvas, whatever the loops, joins
\* and blocks of the flow: the test at the head of the main loop lets it take
\* MaxIterations + 1 nodes off the queue, and each leaves one item at most.
THEOREM WorkBoundedHolds ==
    ASSUME NothingResumed PROVE Spec => []WorkBounded
<1>1. Spec => []TypeInv BY TypeInit, TypeStep, PTL DEF Spec
<1>2. TypeInv /\ FreshInv /\ [Next]_vars => FreshInv' BY FreshStep
<1>3. Spec => []FreshInv BY <1>1, <1>2, FreshInit, PTL DEF Spec
<1>4. Init => WorkInv
  <2> SUFFICES ASSUME Init, NEW r \in Requests PROVE WorkRun(run[r]) BY DEF WorkInv
  <2>1. run[r].pc = "idle" /\ run[r].iterations = 0 /\ run[r].data = EmptyLog
    BY DEF Init, Fresh
  <2>2. MaxIterations \in Nat BY BoundsAssumption DEF BoundsAssumption
  <2> QED BY <2>1, <2>2, FewEmpty DEF WorkRun, At
<1>5. TypeInv /\ FreshInv /\ WorkInv /\ [Next]_vars => WorkInv' BY WorkStep
<1>6. WorkInv => WorkBounded BY DEF WorkInv, WorkRun, Few, Canvas, WorkBounded
<1> QED BY <1>1, <1>3, <1>4, <1>5, <1>6, PTL DEF Spec
==============================================================================
