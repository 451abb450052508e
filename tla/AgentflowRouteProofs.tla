------------------------- MODULE AgentflowRouteProofs -------------------------
(***************************************************************************)
(* What TLAPS proves of the routes a run of Agentflow takes through its    *)
(* flow: one route never multiplies, a loop node runs as often as it may   *)
(* and no more, and a run without loops executes a set of nodes that its   *)
(* decisions determine, each of them once, whatever the order in which     *)
(* the nodes of parallel routes are taken off the queue.                   *)
(***************************************************************************)
EXTENDS AgentflowSafetyProofs

----------------------------------------------------------------------------
(***************************************************************************)
(* One route                                                               *)
(***************************************************************************)
\* The flows without a fork: a node has one outgoing edge, a decision one for
\* each of its outputs, a loop node none (Loop.ts: hideOutput).
OneRoute ==
    \A n \in Nodes :
        /\ Kind[n] = "loop" => OutEdges[n] = {}
        /\ \A i, j \in OutEdges[n] :
              i # j => IsDecision(n) /\ Edges[i].handle # Edges[j].handle

AtMostOne(S) == \A s, t \in S : s = t

Ailing(data) == Statuses(data) \cap Failures # {}

\* The run is at one place: a node is queued, or executed, or the route ended.  An
\* answer that was not given yet is on its way to that node.
TokenRun(x) ==
    /\ At(x) \in {"claiming", "loop"} =>
          /\ AtMostOne(x.queue.items)
          /\ x.human # NoNode => \A t \in x.queue.items : t.val.node = x.human
    /\ At(x) \in AtNode => x.queue.items = {} /\ x.human \in {x.current, NoNode}
    /\ At(x) = "stopping" => x.queue.items = {}
    /\ At(x) = "done" => x.queue.items = {} \/ Ailing(x.data)

TokenInv == \A r \in Requests : TokenRun(run[r])

\* A request that stays where it is, or leaves, with what it holds.
LEMMA TokenHold ==
    ASSUME NEW x, NEW y, TokenRun(x), SameWork(x, y), y.data = x.data,
           \/ At(y) = At(x)
           \/ At(x) = "claiming" /\ At(y) = "loop"
           \/ At(x) \in AtNode /\ At(y) \in AtNode
           \/ At(y) \in {"rejected", "overrun", "crashed"}
    PROVE  TokenRun(y)
BY DEF TokenRun, SameWork, AtNode

\* Along the output it takes a node hands its result to one child at most.
LEMMA OneDelivered ==
    ASSUME OneRoute, NEW n \in Nodes, NEW branch, IsDecision(n) => branch # NoBranch
    PROVE  AtMostOne(Delivered(n, branch))
<1> SUFFICES ASSUME NEW i \in Delivered(n, branch), NEW j \in Delivered(n, branch),
                    i # j
             PROVE  FALSE
  BY DEF AtMostOne
<1>1. i \in OutEdges[n] /\ j \in OutEdges[n] BY DEF Delivered
<1>2. IsDecision(n) /\ Edges[i].handle # Edges[j].handle BY <1>1 DEF OneRoute
<1>3. OneTargetPerOutput
  BY DEF OneTargetPerOutput, OneRoute
<1>4. Edges[i].handle = branch /\ Edges[j].handle = branch
  BY <1>2, <1>3, DeliveredTaken
<1> QED BY <1>2, <1>4

\* So one child at most is queued by a node that finishes.
LEMMA OneFed ==
    ASSUME NEW queue, queue.items = {}, NEW waiting, NEW n, NEW branch,
           AtMostOne(Delivered(n, branch))
    PROVE  /\ AtMostOne(FeedChildren(queue, waiting, n, branch).queue.items)
           /\ Delivered(n, branch) = {} =>
                 FeedChildren(queue, waiting, n, branch).queue.items = {}
<1> DEFINE out == Delivered(n, branch)
           Got(i) == ReceivedAlong(i, n, out, waiting)
           Task0(i) == [at |-> queue.next + i - 1,
                        val |-> [node |-> Edges[i].target, inputs |-> Got(i)]]
           ready == {i \in out : HasRequiredInputs(Edges[i].target, Got(i))}
<1>1. FeedChildren(queue, waiting, n, branch).queue.items
        = queue.items \cup {Task0(i) : i \in ready}
  BY DEF FeedChildren
<1>2. ready \subseteq Delivered(n, branch) OBVIOUS
<1> HIDE DEF Task0, ready
<1> QED BY <1>1, <1>2 DEF AtMostOne

LEMMA PushOnEmpty ==
    ASSUME NEW log, log.items = {}, NEW v
    PROVE  AtMostOne(Push(log, v).items)
BY PushItems DEF AtMostOne

LEMMA StartTaskOne ==
    ASSUME NEW n
    PROVE  AtMostOne(StartTask(n).items) /\ \A t \in StartTask(n).items : t.val.node = n
<1>1. EmptyLog.items = {} BY DEF EmptyLog
<1> QED BY <1>1, PushOnEmpty, StartTaskItems DEF StartTask

LEMMA PushAiling ==
    ASSUME NEW data, NEW n, NEW status \in Failures
    PROVE  Ailing(Push(data, Failed(n, status)))
<1>1. Failed(n, status).status = status BY DEF Failed
<1> QED BY <1>1, PushStatuses DEF Ailing

LEMMA BranchesNat == ASSUME NEW n \in Nodes PROVE Branches[n] \subseteq Nat
<1>1. Handles[n] \subseteq Nat BY EdgeType DEF Handles, OutEdges, Edge
<1> QED BY <1>1 DEF Branches

\* The node that finishes takes an output if it is a decision.
LEMMA BranchTaken ==
    ASSUME TypeInv, NEW r \in Requests, NEW branch, FinishNode(r, branch),
           run[r].human \in {run[r].current, NoNode}
    PROVE  /\ run[r].current \in Nodes
           /\ IsDecision(run[r].current) => branch # NoBranch
           /\ run'[r].human = NoNode
<1>1. run[r].current \in Nodes BY DEF FinishNode, TypeInv, Busy, BusyRun
<1>2. ~ (Kind[run[r].current] = "human" /\ run[r].human = NoNode) BY DEF FinishNode
<1>3. NoNode \notin Nodes BY RunTypes
<1>4. CASE Kind[run[r].current] = "human"
  <2>1. Answered(r) BY <1>2, <1>4 DEF Answered
  <2>2. run[r].answer \in {0, 1} BY RunTypes DEF Run
  <2>3. branch = run[r].answer BY <1>4, <2>1, FinishNodeRun DEF TakesBranch
  <2>4. branch # NoBranch BY <2>2, <2>3 DEF NoBranch
  <2>5. run'[r].human = NoNode BY <2>1, FinishNodeRun
  <2> QED BY <1>1, <2>4, <2>5
<1>5. CASE Kind[run[r].current] # "human"
  <2>1. ASSUME Kind[run[r].current] = "decision" PROVE branch # NoBranch
    <3>1. branch \in Branches[run[r].current]
      BY <2>1, FinishNodeRun DEF TakesBranch
    <3>2. branch \in Nat BY <1>1, <2>1, <3>1, BranchesNat
    <3> QED BY <3>2 DEF NoBranch
  <2>2. run'[r].human = NoNode
    BY FinishNodeRun DEF Answered
  <2> QED BY <1>1, <1>5, <2>1, <2>2 DEF IsDecision
<1> QED BY <1>4, <1>5

LEMMA TokenStep ==
    ASSUME OneRoute, TypeInv, TokenInv, [Next]_vars PROVE TokenInv'
<1> SUFFICES ASSUME NEW r \in Requests PROVE TokenRun(run'[r]) BY DEF TokenInv
<1> DEFINE x == run[r]
           y == run'[r]
<1>0. TokenRun(x) BY DEF TokenInv
<1>1. CASE Advance(r)
  <2>1. CASE Claim(r)
    <3>1. At(x) = "claiming" /\ At(y) \in {"claiming", "loop", "rejected"} /\ SameWork(x, y)
          /\ y.data = x.data
      BY <2>1, ClaimRun, ClaimFields DEF At
    <3> QED BY <1>0, <3>1, TokenHold
  <2>2. CASE SaveRow(r)
    <3>1. x.then # "saving" BY RunTypes DEF Run
    <3> QED BY <2>2, <3>1, <1>0, SaveRowRun, TokenHold DEF At
  <2>3. CASE OverrunIterations(r)
    BY <2>3, <1>0, OverrunRun, TokenHold DEF SameHold, At
  <2>4. CASE BeginItem(r) \/ ItemThrows(r)
    BY <2>4, <1>0, BeginItemRun, ItemThrowsRun, TokenHold DEF SameHold, At, AtNode
  <2>5. CASE BeginNode(r)
    <3>1. PICK task \in x.queue.items :
              /\ y.pc = "exec" /\ y.current = task.val.node /\ y.human = x.human
              /\ y.queue = Without(x.queue, {task}) /\ x.pc = "loop"
      BY <2>5, BeginNodeRun
    <3>2. AtMostOne(x.queue.items) /\ x.human \in {task.val.node, NoNode}
      BY <1>0, <3>1 DEF TokenRun, At
    <3>3. y.queue.items = x.queue.items \ {task}
      BY <3>1, RunTypes DEF Without, Logs
    <3>4. y.queue.items = {} BY <3>2, <3>3 DEF AtMostOne
    <3> QED BY <3>1, <3>2, <3>4 DEF TokenRun, At, AtNode
  <2>6. CASE TerminateAtHead(r) \/ FailNode(r)
    <3>1. PICK n \in Nodes, status \in Failures :
              Outcome(x, y, Push(x.data, Failed(n, status)), status, Exists(x.rec))
      BY <2>6, FailRun
    <3>2. At(y) \in {"done", "rejected"} /\ Ailing(y.data)
      BY <3>1, PushAiling DEF Outcome, At
    <3> QED BY <3>2 DEF TokenRun, AtNode
  <2>7. CASE StopForHuman(r)
    <3>1. y.pc = "stopping" /\ x.pc = "exec" /\ y.queue = x.queue BY <2>7, StopForHumanRun
    <3> QED BY <1>0, <3>1 DEF TokenRun, At, AtNode
  <2>8. ASSUME NEW branch, FinishNode(r, branch) PROVE TokenRun(y)
    <3> DEFINE n   == x.current
               fed == FeedChildren(x.queue, x.waiting, n, branch)
    <3>1. /\ x.pc \in {"exec", "iterate"} /\ y.pc = "loop"
          /\ y.queue = IF LoopsBack(r)
                       THEN Push(fed.queue, [node |-> LoopTo[n], inputs |-> {}])
                       ELSE fed.queue
      BY <2>8, FinishNodeRun
    <3>2. x.queue.items = {} /\ x.human \in {n, NoNode}
      BY <1>0, <3>1 DEF TokenRun, At, AtNode
    <3>3. n \in Nodes /\ (IsDecision(n) => branch # NoBranch) /\ y.human = NoNode
      BY <2>8, <3>2, BranchTaken
    <3>4. AtMostOne(Delivered(n, branch)) BY <3>3, OneDelivered
    <3> HIDE DEF n
    <3>5. AtMostOne(fed.queue.items) /\ (Delivered(n, branch) = {} => fed.queue.items = {})
      BY <3>2, <3>4, OneFed
    <3>6. LoopsBack(r) => Delivered(n, branch) = {}
      BY <3>3 DEF LoopsBack, OneRoute, Delivered, n
    <3> HIDE DEF fed
    <3>7. AtMostOne(y.queue.items) BY <3>1, <3>5, <3>6, PushOnEmpty
    <3> QED BY <3>1, <3>3, <3>7 DEF TokenRun, At, AtNode
  <2>9. CASE BeginIteration(r)
    <3>1. /\ At(x) = "exec" /\ At(y) = "iterate" /\ SameWork(x, y)
      BY <2>9, BeginIterationRun DEF At
    <3> QED BY <1>0, <3>1 DEF TokenRun, SameWork, AtNode
  <2>10. CASE ItemReturns(r)
    <3>1. At(x) = "item" /\ At(y) = "iterate" /\ SameWork(x, y)
      BY <2>10, ItemFields DEF At
    <3> QED BY <1>0, <3>1 DEF TokenRun, SameWork, AtNode
  <2>11. CASE Conclude(r)
    <3>1. /\ At(y) \in {"done", "rejected"} /\ y.queue = x.queue
          /\ \/ x.pc = "stopping"
             \/ x.pc = "loop" /\ x.queue.items = {}
      BY <2>11, ConcludeRun, OutcomeFields DEF At, SameWork
    <3> QED BY <1>0, <3>1 DEF TokenRun, At, AtNode
  <2> QED BY <1>1, <2>1, <2>2, <2>3, <2>4, <2>5, <2>6, <2>7, <2>8, <2>9, <2>10, <2>11
          DEF Advance
<1>2. CASE Arrive(r)
  <2>1. CASE StartFlow(r)
    <3>1. y.pc = "loop" /\ y.queue = StartTask(Start) /\ y.human = NoNode
      BY <2>1, StartFlowRun
    <3> QED BY <3>1, StartTaskOne DEF TokenRun, At, AtNode
  <2>2. ASSUME NEW asked, NEW answer, LoadPrevious(r, asked, answer) PROVE TokenRun(y)
    <3>1. PICK n \in Nodes :
              /\ y.pc = "claiming" /\ y.human = n
              /\ y.queue = IF Inside[n] = NoNode THEN StartTask(n) ELSE EmptyLog
      BY <2>2, LoadPreviousRun
    <3>2. EmptyLog.items = {} BY DEF EmptyLog
    <3>3. AtMostOne(y.queue.items) /\ \A t \in y.queue.items : t.val.node = y.human
      BY <3>1, <3>2, StartTaskOne DEF AtMostOne
    <3> QED BY <3>1, <3>3 DEF TokenRun, At, AtNode
  <2>3. ASSUME NEW asked, RejectResume(r, asked) PROVE TokenRun(y)
    BY <2>3, <1>0, RejectResumeRun, TokenHold DEF SameHold, At
  <2> QED BY <1>2, <2>1, <2>2, <2>3 DEF Arrive
<1>3. CASE Abort(r) BY <1>0, <1>3, AbortRun, TokenHold DEF SameHold, At
<1>4. ASSUME NEW s \in Requests, s # r, Arrive(s) \/ Advance(s) \/ Abort(s)
      PROVE  y = x
  BY <1>4, OthersStay
<1>5. CASE Crash BY <1>0, <1>5, CrashRun, TokenHold DEF SameHold, At
<1>6. CASE UNCHANGED run BY <1>0, <1>6
<1> QED BY <1>0, <1>1, <1>2, <1>3, <1>4, <1>5, <1>6 DEF Next, vars, DeleteExecution

LEMMA TokenAlways == ASSUME OneRoute PROVE Spec => []TokenInv
<1>1. Spec => []TypeInv BY TypeInit, TypeStep, PTL DEF Spec
<1>2. Init => TokenInv
  <2> SUFFICES ASSUME Init, NEW r \in Requests PROVE TokenRun(run[r]) BY DEF TokenInv
  <2>1. run[r].pc = "idle" BY DEF Init, Fresh
  <2> QED BY <2>1 DEF TokenRun, At, AtNode
<1>3. TypeInv /\ TokenInv /\ [Next]_vars => TokenInv' BY TokenStep
<1> QED BY <1>1, <1>2, <1>3, PTL DEF Spec

\* On a flow without forks a human task stops nothing but its own route, whatever
\* is answered, aborted or run beside it: there is no other.  The flows on which
\* the engine's comment ("Stop going through the current route if the node is a
\* human task") does not hold all have a fork.
THEOREM StopsOnlyCurrentRouteHolds ==
    ASSUME OneRoute PROVE Spec => []StopsOnlyCurrentRoute
<1>1. TokenInv => StopsOnlyCurrentRoute
  <2> SUFFICES ASSUME TokenInv, NEW r \in Requests, run[r].pc = "done",
                      FinalState(run[r].data) = "STOPPED"
               PROVE  run[r].queue.items = {}
    BY DEF StopsOnlyCurrentRoute
  <2>1. ~ Ailing(run[r].data) BY DEF FinalState, Ailing, Failures
  <2> QED BY <2>1 DEF TokenInv, TokenRun, At
<1> QED BY <1>1, TokenAlways, PTL


----------------------------------------------------------------------------
(***************************************************************************)
(* Loops                                                                   *)
(***************************************************************************)
\* The limit of a loop node holds for the run that counts: the runs nested in an
\* iteration node count their own.
LoopsOutside == \A n \in Nodes : Kind[n] = "loop" => Inside[n] = NoNode

LoopItems(n, data) ==
    {x \in data.items : x.val.node = n /\ x.val.status = "FINISHED"}

AtMostLoops(n, data, k) ==
    IsFiniteSet(data.items) /\ Cardinality(LoopItems(n, data)) <= k

\* The route has not come to its end.
Moving(x) ==
    \/ At(x) \in {"claiming", "loop"} /\ x.queue.items # {}
    \/ At(x) \in AtNode

\* Each item of a loop node but the last stands for one time it went back, and it
\* goes back less than MaxLoop times: the run ends with the item that did not.
LoopRun(x) ==
    \A n \in Nodes : Kind[n] = "loop" =>
        /\ x.loops[n] + 1 <= MaxLoop[n]
        /\ AtMostLoops(n, x.data, x.loops[n] + 1)
        /\ Moving(x) => AtMostLoops(n, x.data, x.loops[n])

LoopInv == \A r \in Requests : LoopRun(run[r])

LEMMA LoopItemsMore ==
    ASSUME NEW n, NEW data, NEW k \in Nat, AtMostLoops(n, data, k),
           NEW m \in Nat, k <= m
    PROVE  AtMostLoops(n, data, m)
<1>1. IsFiniteSet(LoopItems(n, data)) BY FS_Subset DEF AtMostLoops, LoopItems
<1>2. Cardinality(LoopItems(n, data)) \in Nat BY <1>1, FS_CardinalityType
<1> QED BY <1>2 DEF AtMostLoops

LEMMA LoopItemsSubset ==
    ASSUME NEW n, NEW data, NEW k \in Nat, AtMostLoops(n, data, k),
           NEW less, less.items \subseteq data.items
    PROVE  AtMostLoops(n, less, k)
<1>1. IsFiniteSet(less.items) BY FS_Subset DEF AtMostLoops
<1>2. LoopItems(n, less) \subseteq LoopItems(n, data) BY DEF LoopItems
<1>3. IsFiniteSet(LoopItems(n, data)) BY FS_Subset DEF AtMostLoops, LoopItems
<1>4. IsFiniteSet(LoopItems(n, less)) BY <1>2, <1>3, FS_Subset
<1>5. Cardinality(LoopItems(n, less)) <= Cardinality(LoopItems(n, data))
  BY <1>2, <1>3, FS_Subset
<1>6. Cardinality(LoopItems(n, less)) \in Nat /\ Cardinality(LoopItems(n, data)) \in Nat
  BY <1>3, <1>4, FS_CardinalityType
<1> QED BY <1>1, <1>5, <1>6 DEF AtMostLoops

\* Only an item of n itself, and one that finished, counts.
LEMMA LoopItemsPush ==
    ASSUME NEW n, NEW data, NEW k \in Nat, AtMostLoops(n, data, k), NEW v
    PROVE  /\ AtMostLoops(n, Push(data, v), k + 1)
           /\ v.node # n \/ v.status # "FINISHED" => AtMostLoops(n, Push(data, v), k)
<1> DEFINE w == [at |-> data.next, val |-> v]
<1>1. w.val = v OBVIOUS
<1>2. Push(data, v).items = data.items \cup {w} BY PushItems
<1> HIDE DEF w
<1>3. IsFiniteSet(Push(data, v).items) BY <1>2, FS_AddElement DEF AtMostLoops
<1>4. LoopItems(n, Push(data, v)) =
        IF v.node = n /\ v.status = "FINISHED" THEN LoopItems(n, data) \cup {w}
        ELSE LoopItems(n, data)
  BY <1>1, <1>2 DEF LoopItems
<1>5. IsFiniteSet(LoopItems(n, data)) BY FS_Subset DEF AtMostLoops, LoopItems
<1>6. Cardinality(LoopItems(n, data)) \in Nat BY <1>5, FS_CardinalityType
<1>7. Cardinality(LoopItems(n, data) \cup {w}) \in
        {Cardinality(LoopItems(n, data)), Cardinality(LoopItems(n, data)) + 1}
  BY <1>5, FS_AddElement
<1> QED BY <1>3, <1>4, <1>6, <1>7 DEF AtMostLoops

LEMMA LoopItemsEmpty ==
    ASSUME NEW n, NEW k \in Nat PROVE AtMostLoops(n, EmptyLog, k)
<1>1. EmptyLog.items = {} /\ LoopItems(n, EmptyLog) = {} BY DEF EmptyLog, LoopItems
<1> QED BY <1>1, FS_EmptySet DEF AtMostLoops

\* Only a loop node that goes back is counted.
LEMMA CountedRun ==
    ASSUME TypeInv, NEW r \in Requests
    PROVE  /\ run[r].loops \in [Nodes -> Nat]
           /\ Advance(r) \/ Abort(r) \/ Crash =>
                 \/ run'[r].loops = run[r].loops
                 \/ \E branch : FinishNode(r, branch)
           /\ \A branch : FinishNode(r, branch) =>
                 run'[r].loops = IF LoopsBack(r)
                                 THEN [run[r].loops EXCEPT ![run[r].current] = @ + 1]
                                 ELSE run[r].loops
           /\ StartFlow(r) => run'[r].loops = [n \in Nodes |-> 0]
           /\ \A asked : RejectResume(r, asked) => run'[r].loops = run[r].loops
<1>1. run \in [Requests -> Run] BY DEF TypeInv, TypeOK
<1>2. run[r].loops \in [Nodes -> Nat] BY <1>1 DEF Run
<1>4. ASSUME TerminateAtHead(r) \/ FailNode(r) \/ Conclude(r) \/ ItemReturns(r)
      PROVE  run'[r].loops = run[r].loops
  <2>1. ASSUME NEW data, NEW state, WriteOutcome(r, data, state)
        PROVE  run'[r].loops = run[r].loops
    BY <1>1, <2>1 DEF WriteOutcome, FoundRow, Run
  <2>2. CASE TerminateAtHead(r) BY <2>1, <2>2 DEF TerminateAtHead, FailAt
  <2>3. CASE FailNode(r) BY <2>1, <2>3 DEF FailNode, FailAt
  <2>4. CASE Conclude(r) BY <2>1, <2>4 DEF Conclude
  <2>5. CASE ItemReturns(r) BY <1>1, <2>5 DEF ItemReturns, FoundRow, Run
  <2> QED BY <1>4, <2>2, <2>3, <2>4, <2>5
<1>5. ASSUME StopForHuman(r) \/ BeginIteration(r) \/ BeginItem(r) \/ ItemThrows(r)
      PROVE  run'[r].loops = run[r].loops
  <2>1. CASE StopForHuman(r) BY <1>1, <2>1 DEF StopForHuman, Run
  <2>2. CASE BeginIteration(r) BY <1>1, <2>2 DEF BeginIteration, Run
  <2>3. CASE BeginItem(r) BY <1>1, <2>3 DEF BeginItem, Run
  <2>4. CASE ItemThrows(r) BY <1>1, <2>4 DEF ItemThrows, Run
  <2> QED BY <1>5, <2>1, <2>2, <2>3, <2>4
<1>6. ASSUME Claim(r) \/ SaveRow(r) \/ OverrunIterations(r) \/ BeginNode(r)
      PROVE  run'[r].loops = run[r].loops
  <2>1. CASE Claim(r) BY <1>1, <2>1 DEF Claim, FoundRow, Run
  <2>2. CASE SaveRow(r) BY <1>1, <2>2 DEF SaveRow, Run
  <2>3. CASE OverrunIterations(r) BY <1>1, <2>3 DEF OverrunIterations, Run
  <2>4. CASE BeginNode(r) BY <1>1, <2>4 DEF BeginNode, Run
  <2> QED BY <1>6, <2>1, <2>2, <2>3, <2>4
<1>7. ASSUME Abort(r) PROVE run'[r].loops = run[r].loops BY <1>1, <1>7 DEF Abort, Run
<1>8. ASSUME Crash PROVE run'[r].loops = run[r].loops
  <2>1. CASE r \in Active BY <1>1, <1>8, <2>1 DEF Crash, Run
  <2>2. CASE r \notin Active BY <1>1, <1>8, <2>2 DEF Crash
  <2> QED BY <2>1, <2>2
<1>9. Advance(r) \/ Abort(r) \/ Crash =>
          run'[r].loops = run[r].loops \/ \E branch : FinishNode(r, branch)
  BY <1>4, <1>5, <1>6, <1>7, <1>8 DEF Advance
<1>10. ASSUME NEW branch, FinishNode(r, branch)
       PROVE  run'[r].loops = IF LoopsBack(r)
                              THEN [run[r].loops EXCEPT ![run[r].current] = @ + 1]
                              ELSE run[r].loops
  BY <1>1, <1>10 DEF FinishNode, Run
<1>11. StartFlow(r) => run'[r].loops = [n \in Nodes |-> 0]
  BY <1>1 DEF StartFlow, Fresh
<1>12. ASSUME NEW asked, RejectResume(r, asked) PROVE run'[r].loops = run[r].loops
  BY <1>1, <1>12 DEF RejectResume, Run
<1> QED BY <1>2, <1>9, <1>10, <1>11, <1>12

\* A step that counts nothing and adds no item of a loop node.
LEMMA LoopHold ==
    ASSUME NEW x, NEW y, LoopRun(x), x.loops \in [Nodes -> Nat], y.loops = x.loops,
           Moving(y) => Moving(x), NEW less, less.items \subseteq x.data.items, NEW v,
           v.status = "FINISHED" => Kind[v.node] # "loop",
           y.data = less \/ y.data = Push(less, v)
    PROVE  LoopRun(y)
<1> SUFFICES ASSUME NEW n \in Nodes, Kind[n] = "loop"
             PROVE  /\ y.loops[n] + 1 <= MaxLoop[n]
                    /\ AtMostLoops(n, y.data, y.loops[n] + 1)
                    /\ Moving(y) => AtMostLoops(n, y.data, y.loops[n])
  BY DEF LoopRun
<1>1. x.loops[n] \in Nat /\ x.loops[n] + 1 \in Nat OBVIOUS
<1>2. v.node # n \/ v.status # "FINISHED" OBVIOUS
<1>3. ASSUME NEW k \in Nat, AtMostLoops(n, x.data, k) PROVE AtMostLoops(n, y.data, k)
  <2>1. AtMostLoops(n, less, k) BY <1>3, LoopItemsSubset
  <2> QED BY <1>2, <2>1, LoopItemsPush
<1> QED BY <1>1, <1>3 DEF LoopRun

LEMMA LoopSame ==
    ASSUME NEW x, NEW y, LoopRun(x), x.loops \in [Nodes -> Nat], y.loops = x.loops,
           Moving(y) => Moving(x), y.data = x.data
    PROVE  LoopRun(y)
<1> DEFINE v == [node |-> NoNode, status |-> "none"]
<1>1. v.status # "FINISHED" OBVIOUS
<1> HIDE DEF v
<1> QED BY <1>1, LoopHold

LEMMA LoopStep ==
    ASSUME NothingResumed, OneRoute, LoopsOutside, TypeInv, FreshInv, TokenInv, LoopInv,
           [Next]_vars
    PROVE  LoopInv'
<1> SUFFICES ASSUME NEW r \in Requests PROVE LoopRun(run'[r]) BY DEF LoopInv
<1> DEFINE x == run[r]
           y == run'[r]
<1>0. LoopRun(x) /\ TokenRun(x) /\ x.loops \in [Nodes -> Nat]
  BY CountedRun DEF LoopInv, TokenInv
<1>1. DataBefore(r).items \subseteq x.data.items
  <2>1. x.data \in Logs(Entry) BY RunTypes
  <2> QED BY <2>1 DEF DataBefore, Without, Logs
<1>2. CASE Advance(r)
  <2>0. y.loops = x.loops \/ \E branch : FinishNode(r, branch) BY <1>2, CountedRun
  <2>1. CASE Claim(r)
    <3>1. /\ y.data = x.data /\ y.queue = x.queue /\ y.loops = x.loops
          /\ At(x) = "claiming" /\ At(y) \in {"claiming", "loop", "rejected"}
      BY <2>1, <2>0, ClaimRun, ClaimFields, FinishNodeRun DEF SameWork, At
    <3> QED BY <1>0, <3>1, LoopSame DEF Moving, AtNode
  <2>2. CASE SaveRow(r)
    <3>1. x.then # "saving" BY RunTypes DEF Run
    <3>2. y.data = x.data /\ y.queue = x.queue /\ y.loops = x.loops /\ At(y) = At(x)
      BY <2>2, <2>0, <3>1, SaveRowRun, FinishNodeRun DEF SameWork, At
    <3> QED BY <1>0, <3>2, LoopSame DEF Moving
  <2>3. CASE OverrunIterations(r)
    <3>1. y.data = x.data /\ y.loops = x.loops /\ At(y) = "overrun"
      BY <2>3, <2>0, OverrunRun, FinishNodeRun DEF SameHold, At
    <3> QED BY <1>0, <3>1, LoopSame DEF Moving, AtNode
  <2>4. CASE BeginItem(r) \/ ItemThrows(r)
    <3>1. /\ y.data = x.data /\ At(x) \in {"iterate", "item"}
          /\ x.pc = "item" \/ ~ ItemThrows(r)
      BY <2>4, BeginItemRun, ItemThrowsRun DEF SameHold, At
    <3>2. y.loops = x.loops
      <4>1. y.pc # "loop" BY <2>4, BeginItemRun, ItemThrowsRun
      <4> QED BY <4>1, <2>0, FinishNodeRun
    <3> QED BY <1>0, <3>1, <3>2, LoopSame DEF Moving, AtNode
  <2>5. CASE BeginNode(r)
    <3>1. y.data = x.data /\ x.pc = "loop" /\ x.queue.items # {} /\ y.pc = "exec"
      BY <2>5, BeginNodeRun
    <3>2. y.loops = x.loops BY <2>0, <3>1, FinishNodeRun
    <3> QED BY <1>0, <3>1, <3>2, LoopSame DEF Moving, At
  <2>6. CASE TerminateAtHead(r) \/ FailNode(r)
    <3>1. PICK n \in Nodes, status \in Failures :
              Outcome(x, y, Push(x.data, Failed(n, status)), status, Exists(x.rec))
      BY <2>6, FailRun
    <3>2. y.data = Push(x.data, Failed(n, status)) /\ At(y) \in {"done", "rejected"}
      BY <3>1, OutcomeFields DEF At
    <3>3. y.loops = x.loops
      <4>1. y.pc # "loop" BY <3>1, OutcomeFields
      <4> QED BY <4>1, <2>0, FinishNodeRun
    <3>4. Failed(n, status).status # "FINISHED" BY DEF Failed, Failures
    <3> QED BY <1>0, <3>2, <3>3, <3>4, LoopHold DEF Moving, AtNode
  <2>7. CASE StopForHuman(r)
    <3> DEFINE v == [node |-> x.current, status |-> "STOPPED", branch |-> NoBranch]
    <3>1. y.pc = "stopping" /\ y.data = Push(DataBefore(r), v) BY <2>7, StopForHumanRun
    <3>2. y.loops = x.loops BY <2>0, <3>1, FinishNodeRun
    <3>3. v.status # "FINISHED" OBVIOUS
    <3>4. ~ Moving(y) BY <3>1 DEF Moving, At, AtNode
    <3> HIDE DEF v
    <3> QED BY <1>0, <1>1, <3>1, <3>2, <3>3, <3>4, LoopHold
  <2>8. ASSUME NEW branch, FinishNode(r, branch) PROVE LoopRun(y)
    <3> DEFINE n   == x.current
               v   == [node |-> n, status |-> "FINISHED", branch |-> branch]
               fed == FeedChildren(x.queue, x.waiting, n, branch)
    <3>1. /\ x.pc \in {"exec", "iterate"} /\ y.pc = "loop"
          /\ y.data = Push(DataAtFinish(r), v)
          /\ ~ LoopsBack(r) => y.queue = fed.queue
          /\ y.loops = IF LoopsBack(r) THEN [x.loops EXCEPT ![n] = @ + 1] ELSE x.loops
      BY <2>8, FinishNodeRun, CountedRun
    <3>2. Moving(x) /\ x.queue.items = {} BY <1>0, <3>1 DEF Moving, TokenRun, At, AtNode
    <3>3. DataAtFinish(r).items \subseteq x.data.items BY <1>1 DEF DataAtFinish
    <3>4. n \in Nodes BY <2>8 DEF FinishNode, TypeInv, Busy, BusyRun
    <3>5. v.node = n /\ v.status = "FINISHED" OBVIOUS
    <3> HIDE DEF v
    <3>6. CASE Kind[n] # "loop"
      <4>1. ~ LoopsBack(r) BY <3>6 DEF LoopsBack
      <4> QED BY <1>0, <3>1, <3>2, <3>3, <3>5, <3>6, <4>1, LoopHold
    <3>7. CASE Kind[n] = "loop"
      <4>1. ASSUME NEW m \in Nodes, Kind[m] = "loop"
            PROVE  /\ x.loops[m] \in Nat /\ MaxLoop[m] \in Nat
                   /\ x.loops[m] + 1 <= MaxLoop[m]
                   /\ AtMostLoops(m, y.data, x.loops[m] + 1)
                   /\ m # n => AtMostLoops(m, y.data, x.loops[m])
        <5>1. x.loops[m] \in Nat /\ AtMostLoops(m, x.data, x.loops[m])
          BY <1>0, <3>2, <4>1 DEF LoopRun
        <5>2. AtMostLoops(m, DataAtFinish(r), x.loops[m])
          BY <3>3, <5>1, LoopItemsSubset
        <5>3. /\ AtMostLoops(m, y.data, x.loops[m] + 1)
              /\ m # n => AtMostLoops(m, y.data, x.loops[m])
          BY <3>1, <3>5, <5>1, <5>2, LoopItemsPush
        <5>4. MaxLoop[m] \in Nat /\ x.loops[m] + 1 <= MaxLoop[m]
          BY <1>0, <4>1, FlowAssumption DEF FlowAssumption, LoopRun
        <5> QED BY <5>1, <5>3, <5>4
      <4>2. CASE LoopsBack(r)
        <5> SUFFICES ASSUME NEW m \in Nodes, Kind[m] = "loop"
                     PROVE  /\ y.loops[m] + 1 <= MaxLoop[m]
                            /\ AtMostLoops(m, y.data, y.loops[m] + 1)
                            /\ AtMostLoops(m, y.data, y.loops[m])
          BY DEF LoopRun
        <5>1. CASE m # n
          <6>1. y.loops[m] = x.loops[m] BY <1>0, <3>1, <4>2, <5>1
          <6> QED BY <4>1, <5>1, <6>1
        <5>2. CASE m = n
          <6>1. y.loops[n] = x.loops[n] + 1 BY <1>0, <3>1, <3>4, <4>2
          <6>2. x.loops[n] + 1 < MaxLoop[n] BY <4>2 DEF LoopsBack
          <6>3. x.loops[n] \in Nat /\ MaxLoop[n] \in Nat
                /\ AtMostLoops(n, y.data, x.loops[n] + 1)
            BY <3>4, <3>7, <4>1
          <6>4. AtMostLoops(n, y.data, (x.loops[n] + 1) + 1)
            BY <6>3, LoopItemsMore
          <6> QED BY <5>2, <6>1, <6>2, <6>3, <6>4
        <5> QED BY <5>1, <5>2
      <4>3. CASE ~ LoopsBack(r)
        <5>1. Delivered(n, branch) = {} BY <3>4, <3>7 DEF OneRoute, Delivered
        <5>2. y.queue.items = {}
          BY <3>1, <3>2, <4>3, <5>1, OneFed DEF AtMostOne
        <5>3. ~ Moving(y) BY <3>1, <5>2 DEF Moving, At, AtNode
        <5>4. y.loops = x.loops BY <3>1, <4>3
        <5> QED BY <4>1, <5>3, <5>4 DEF LoopRun
      <4> QED BY <4>2, <4>3
    <3> QED BY <3>6, <3>7
  <2>9. CASE BeginIteration(r)
    <3>1. /\ At(x) = "exec" /\ At(y) = "iterate" /\ y.data = DataBefore(r)
          /\ y.pc = "iterate"
      BY <2>9, BeginIterationRun DEF At
    <3>2. y.loops = x.loops BY <2>0, <3>1, FinishNodeRun
    <3> DEFINE v == [node |-> NoNode, status |-> "none"]
    <3>3. v.status # "FINISHED" OBVIOUS
    <3> HIDE DEF v
    <3> QED BY <1>0, <1>1, <3>1, <3>2, <3>3, LoopHold DEF Moving, AtNode
  <2>10. CASE ItemReturns(r)
    <3>1. PICK c \in Children(x.current), status \in {"FINISHED", "STOPPED"} :
              y.data = Push(x.data, [node |-> c, status |-> status,
                                     branch |-> NoBranch])
      BY <2>10, ItemReturnsRun
    <3>2. At(x) = "item" /\ At(y) = "iterate" /\ y.pc # "loop" /\ x.pc = "item"
      BY <2>10, ItemFields DEF At
    <3>3. y.loops = x.loops BY <2>0, <3>2, FinishNodeRun
    <3>4. Kind[c] # "loop"
      <4>1. x.current \in Nodes BY <3>2 DEF TypeInv, Busy, BusyRun
      <4>2. Inside[c] # NoNode /\ c \in Nodes BY <4>1, RunTypes DEF Children
      <4> QED BY <4>2 DEF LoopsOutside
    <3> DEFINE v == [node |-> c, status |-> status, branch |-> NoBranch]
    <3>5. v.node = c OBVIOUS
    <3>6. y.data = Push(x.data, v) BY <3>1
    <3> HIDE DEF v
    <3> QED BY <1>0, <3>2, <3>3, <3>4, <3>5, <3>6, LoopHold DEF Moving, AtNode
  <2>11. CASE Conclude(r)
    <3>1. At(y) \in {"done", "rejected"} /\ y.data = x.data /\ y.pc # "loop"
      BY <2>11, ConcludeRun, OutcomeFields DEF At
    <3>2. y.loops = x.loops BY <2>0, <3>1, FinishNodeRun
    <3> QED BY <1>0, <3>1, <3>2, LoopSame DEF Moving, AtNode
  <2> QED BY <1>2, <2>1, <2>2, <2>3, <2>4, <2>5, <2>6, <2>7, <2>8, <2>9, <2>10, <2>11
          DEF Advance
<1>3. CASE Arrive(r)
  <2>1. CASE StartFlow(r)
    <3>1. y.loops = [n \in Nodes |-> 0] /\ y.data = EmptyLog
      BY <2>1, StartFlowRun, CountedRun
    <3>2. \A n \in Nodes : MaxLoop[n] \in Nat \ {0}
      BY FlowAssumption DEF FlowAssumption
    <3> QED BY <3>1, <3>2, LoopItemsEmpty DEF LoopRun
  <2>2. ~ \E asked \in Asked, answer \in {0, 1} : LoadPrevious(r, asked, answer)
    BY NothingLoaded
  <2>3. ASSUME NEW asked, RejectResume(r, asked) PROVE LoopRun(y)
    <3>1. y.loops = x.loops /\ y.data = x.data /\ At(y) = "rejected"
      BY <2>3, RejectResumeRun, CountedRun DEF SameHold, At
    <3> QED BY <1>0, <3>1, LoopSame DEF Moving, AtNode
  <2> QED BY <1>3, <2>1, <2>2, <2>3 DEF Arrive
<1>4. CASE Abort(r)
  <2>1. /\ y.pc = x.pc /\ y.then = x.then /\ y.data = x.data /\ y.queue = x.queue
        /\ x.pc \in InFlight
    BY <1>4, AbortRun DEF SameHold, SameWork
  <2>2. y.loops = x.loops
    <3>1. run \in [Requests -> Run] BY DEF TypeInv, TypeOK
    <3> QED BY <1>4, <3>1 DEF Abort, Run
  <2> QED BY <1>0, <2>1, <2>2, LoopSame DEF Moving, At
<1>5. ASSUME NEW s \in Requests, s # r, Arrive(s) \/ Advance(s) \/ Abort(s)
      PROVE  y = x
  BY <1>5, OthersStay
<1>6. CASE Crash
  <2>1. CASE y = x BY <1>0, <2>1
  <2>2. CASE y.pc = "crashed" /\ SameHold(x, y)
    <3>1. y.loops = x.loops BY <1>6, <2>2, CountedRun, FinishNodeRun
    <3> QED BY <1>0, <2>2, <3>1, LoopSame DEF SameHold, Moving, At, AtNode
  <2> QED BY <1>6, <2>1, <2>2, CrashRun
<1>7. CASE UNCHANGED run BY <1>0, <1>7
<1> QED BY <1>0, <1>2, <1>3, <1>4, <1>5, <1>6, <1>7 DEF Next, vars, DeleteExecution

\* A loop node runs at most "Max Loop Count" times, whatever the targets it goes
\* back to and the other loops of the flow: on a flow without forks, where one
\* route alone can come by it, and in an execution that is not resumed, for a
\* resumed one starts counting again.
THEOREM LoopRunsBoundedHolds ==
    ASSUME NothingResumed, OneRoute, LoopsOutside PROVE Spec => []LoopRunsBounded
<1>1. Spec => []TypeInv BY TypeInit, TypeStep, PTL DEF Spec
<1>2. TypeInv /\ FreshInv /\ [Next]_vars => FreshInv' BY FreshStep
<1>3. Spec => []FreshInv BY <1>1, <1>2, FreshInit, PTL DEF Spec
<1>4. Init => LoopInv
  <2> SUFFICES ASSUME Init, NEW r \in Requests PROVE LoopRun(run[r]) BY DEF LoopInv
  <2>1. run[r].loops = [n \in Nodes |-> 0] /\ run[r].data = EmptyLog
    BY DEF Init, Fresh
  <2>2. \A n \in Nodes : MaxLoop[n] \in Nat \ {0}
    BY FlowAssumption DEF FlowAssumption
  <2> QED BY <2>1, <2>2, LoopItemsEmpty DEF LoopRun
<1>5. TypeInv /\ FreshInv /\ TokenInv /\ LoopInv /\ [Next]_vars => LoopInv'
  BY LoopStep
<1>6. TypeInv /\ LoopInv => LoopRunsBounded
  <2> SUFFICES ASSUME TypeInv, LoopInv, NEW r \in Requests, NEW n \in Nodes, Kind[n] = "loop"
               PROVE  Cardinality(LoopItems(n, run[r].data)) <= MaxLoop[n]
    BY DEF LoopRunsBounded, LoopItems
  <2>1. /\ IsFiniteSet(run[r].data.items)
        /\ Cardinality(LoopItems(n, run[r].data)) <= run[r].loops[n] + 1
        /\ run[r].loops[n] + 1 <= MaxLoop[n]
    BY DEF LoopInv, LoopRun, AtMostLoops
  <2>2. IsFiniteSet(LoopItems(n, run[r].data)) BY <2>1, FS_Subset DEF LoopItems
  <2>3. Cardinality(LoopItems(n, run[r].data)) \in Nat BY <2>2, FS_CardinalityType
  <2>4. run[r].loops[n] \in Nat /\ MaxLoop[n] \in Nat
    BY CountedRun, FlowAssumption DEF FlowAssumption
  <2> QED BY <2>1, <2>3, <2>4
<1> QED BY <1>1, <1>3, <1>4, <1>5, <1>6, TokenAlways, PTL DEF Spec


----------------------------------------------------------------------------
(***************************************************************************)
(* Courses: what a run of a flow without loops and blocks may execute      *)
(*                                                                         *)
(* A course is a set of steps, a node and the result it returned.  It says *)
(* nothing of the order in which they were taken.                          *)
(***************************************************************************)
NoLoops == \A n \in Nodes : Kind[n] # "loop"

NoParallelEdges ==
    \A i, j \in DOMAIN Edges :
        Edges[i].source = Edges[j].source /\ Edges[i].target = Edges[j].target => i = j

\* The results a node of an execution that is not resumed may return: there is no
\* answer for a human input node, which ends the run instead.
Results(n) ==
    IF Kind[n] = "decision" THEN Branches[n]
    ELSE IF Kind[n] = "human" THEN {}
    ELSE {NoBranch}

Steps == UNION {{<<n, b>> : b \in Results(n)} : n \in Nodes}

RanIn(h) == {s[1] : s \in h}

\* The edges along which results were handed on, and what c heard from them.
Carried(h) == UNION {Delivered(s[1], s[2]) : s \in h}

Hears(h, c) == {Edges[i].source : i \in InEdges[c] \cap Carried(h)}

Earned(h, n) == n = Start \/ HasRequiredInputs(n, Hears(h, n))

Course(h) ==
    /\ h \subseteq Steps
    /\ \A s, t \in h : s[1] = t[1] => s = t
    /\ \A n \in RanIn(h) : Earned(h, n)

\* Nothing more can run.
Complete(h) == \A n \in Nodes : Earned(h, n) => n \in RanIn(h)

\* Of the inputs that hang on one decision a node of X never hears two: it is the
\* decision's outputs that meet there, and no fork behind one of them.
Exclusive(X) ==
    \A h \in SUBSET Steps : Course(h) =>
        \A n \in X : \A group \in ConditionalGroups[n] :
            AtMostOne(group \cap Hears(h, n))

LEMMA StepType ==
    ASSUME NEW s \in Steps
    PROVE  s[1] \in Nodes /\ s[2] \in Results(s[1]) /\ s = <<s[1], s[2]>>
BY DEF Steps

LEMMA DeliveredFrom ==
    ASSUME NEW n \in Nodes, NEW b, NEW i \in Delivered(n, b)
    PROVE  i \in DOMAIN Edges /\ Edges[i].source = n /\ Edges[i].target \in Nodes
BY EdgeType DEF Delivered, OutEdges

LEMMA HearsType ==
    ASSUME NEW h, h \subseteq Steps, NEW c \in Nodes
    PROVE  Hears(h, c) \subseteq Sources[c] \cap RanIn(h)
<1> SUFFICES ASSUME NEW i \in InEdges[c], i \in Carried(h)
             PROVE  Edges[i].source \in Sources[c] /\ Edges[i].source \in RanIn(h)
  BY DEF Hears
<1>1. PICK s \in h : i \in Delivered(s[1], s[2]) BY DEF Carried
<1>2. Edges[i].source = s[1] BY <1>1, StepType, DeliveredFrom
<1> QED BY <1>2 DEF Sources, RanIn

LEMMA HearsGrows ==
    ASSUME NEW h, NEW more, h \subseteq more, NEW c PROVE Hears(h, c) \subseteq Hears(more, c)
BY DEF Hears, Carried

\* One more step is heard by the nodes its result is handed to.
LEMMA HearsStep ==
    ASSUME NEW h, NEW n \in Nodes, NEW b, NEW c \in Nodes
    PROVE  Hears(h \cup {<<n, b>>}, c)
             = Hears(h, c) \cup (IF \E i \in Delivered(n, b) : Edges[i].target = c
                                 THEN {n} ELSE {})
<1>1. Carried(h \cup {<<n, b>>}) = Carried(h) \cup Delivered(n, b)
  <2>1. <<n, b>>[1] = n /\ <<n, b>>[2] = b OBVIOUS
  <2> QED BY <2>1 DEF Carried
<1>2. \A i \in Delivered(n, b) : /\ Edges[i].source = n
                                 /\ i \in InEdges[c] <=> Edges[i].target = c
  BY DeliveredFrom DEF InEdges
<1> QED BY <1>1, <1>2 DEF Hears

LEMMA RequiredGrows ==
    ASSUME NEW n, NEW got, NEW more, got \subseteq more, HasRequiredInputs(n, got)
    PROVE  HasRequiredInputs(n, more)
<1>1. ExpectedInputs[n] \subseteq more BY DEF HasRequiredInputs
<1>2. ASSUME NEW group \in ConditionalGroups[n] PROVE group \cap more # {}
  <2>1. group \cap got # {} BY DEF HasRequiredInputs
  <2> QED BY <2>1
<1> QED BY <1>1, <1>2 DEF HasRequiredInputs

\* Every input of a node is one it expects or one of a group.
LEMMA EachInput ==
    ASSUME NEW n \in Nodes, NEW s \in Sources[n]
    PROVE  /\ s \in Nodes
           /\ \/ s \in ExpectedInputs[n]
              \/ /\ ConditionParent[s] # NoNode
                 /\ {t \in Sources[n] : ConditionParent[t] = ConditionParent[s]}
                       \in ConditionalGroups[n]
BY EdgeType DEF Sources, InEdges, ExpectedInputs, ConditionalGroups

\* With all its inputs a node has those it requires, without any it lacks one.
LEMMA AllInputs ==
    ASSUME NEW n \in Nodes PROVE HasRequiredInputs(n, Sources[n])
BY DEF HasRequiredInputs, ExpectedInputs, ConditionalGroups

LEMMA NoInputs ==
    ASSUME NEW n \in Nodes, Sources[n] # {} PROVE ~ HasRequiredInputs(n, {})
BY EachInput DEF HasRequiredInputs

\* On a canvas without blocks every node but the first has an input.
LEMMA StartAlone ==
    ASSUME NoBlocks, NEW n \in Nodes
    PROVE  n = Start <=> InEdges[n] = {}
BY StartAssumption DEF StartAssumption, Start, StartNodes, NoBlocks

LEMMA StartUnfed ==
    ASSUME NEW n \in Nodes, NEW b, NEW i \in Delivered(n, b)
    PROVE  Edges[i].target # Start
<1>1. InEdges[Start] = {} BY StartAssumption DEF StartAssumption, Start, StartNodes
<1>2. i \in InEdges[Edges[i].target] BY DeliveredFrom DEF InEdges
<1> QED BY <1>1, <1>2

\* The next step of a course: whom it feeds has not earned its run before.
LEMMA NextStep ==
    ASSUME NEW X \in SUBSET Nodes, Exclusive(X), NEW h, Course(h), NEW n \in Nodes, NEW b,
           <<n, b>> \in Steps, n \notin RanIn(h), Earned(h, n)
    PROVE  /\ Course(h \cup {<<n, b>>})
           /\ \A i \in Delivered(n, b) :
                 Edges[i].target \in X => ~ Earned(h, Edges[i].target)
<1> DEFINE more == h \cup {<<n, b>>}
<1>1. h \subseteq Steps /\ more \in SUBSET Steps BY DEF Course
<1>2. <<n, b>>[1] = n OBVIOUS
<1>3. ASSUME NEW m \in RanIn(more) PROVE Earned(more, m)
  <2>1. Earned(h, m)
    <3>1. m \in RanIn(h) \/ m = n BY <1>2 DEF RanIn
    <3> QED BY <3>1 DEF Course
  <2> QED BY <2>1, HearsGrows, RequiredGrows DEF Earned
<1>4. \A s, t \in more : s[1] = t[1] => s = t BY <1>2 DEF Course, RanIn
<1>5. Course(more) BY <1>1, <1>3, <1>4 DEF Course
<1>6. ASSUME NEW i \in Delivered(n, b), Edges[i].target \in X, Earned(h, Edges[i].target)
      PROVE  FALSE
  <2> DEFINE c == Edges[i].target
  <2>1. c \in Nodes /\ c # Start /\ n \in Sources[c]
    BY DeliveredFrom, StartUnfed DEF Sources, InEdges
  <2>2. HasRequiredInputs(c, Hears(h, c)) BY <1>6, <2>1 DEF Earned
  <2>3. n \notin Hears(h, c) BY <1>1, <2>1, HearsType
  <2>4. n \notin ExpectedInputs[c] BY <2>2, <2>3 DEF HasRequiredInputs
  <2> DEFINE group == {t \in Sources[c] : ConditionParent[t] = ConditionParent[n]}
  <2>5. group \in ConditionalGroups[c] /\ n \in group BY <2>1, <2>4, EachInput
  <2>6. PICK m \in group : m \in Hears(h, c) BY <2>2, <2>5 DEF HasRequiredInputs
  <2>7. m \in Hears(more, c) /\ n \in Hears(more, c) BY <2>1, <2>6, HearsStep
  <2>8. AtMostOne(group \cap Hears(more, c)) BY <1>1, <1>5, <1>6, <2>5 DEF Exclusive
  <2> QED BY <2>3, <2>5, <2>6, <2>7, <2>8 DEF AtMostOne
<1> QED BY <1>5, <1>6

ItemsOf(data, n) == {e \in data.items : e.val.node = n}

TasksOf(queue, n) == {t \in queue.items : t.val.node = n}

\* What a node that finishes makes of a node m that it may feed.
Feeds(n, b, m) == \E i \in Delivered(n, b) : Edges[i].target = m

Feeding(x, y, n, b, m) ==
    LET got == x.waiting[m] \cup {n} IN
    IF ~ Feeds(n, b, m)
    THEN TasksOf(y.queue, m) = TasksOf(x.queue, m) /\ y.waiting[m] = x.waiting[m]
    ELSE IF HasRequiredInputs(m, got)
    THEN /\ \E t : TasksOf(y.queue, m) = TasksOf(x.queue, m) \cup {t}
         /\ y.waiting[m] = {}
    ELSE TasksOf(y.queue, m) = TasksOf(x.queue, m) /\ y.waiting[m] = got


\* A node that is not fed is queued and waits as before.
LEMMA NotFed ==
    ASSUME NEW x, NEW y, NEW n, NEW b, NEW m \in Nodes, ~ Feeds(n, b, m),
           y.queue = FeedChildren(x.queue, x.waiting, n, b).queue,
           y.waiting = FeedChildren(x.queue, x.waiting, n, b).waiting
    PROVE  Feeding(x, y, n, b, m)
<1> DEFINE out == Delivered(n, b)
           Got(i) == ReceivedAlong(i, n, out, x.waiting)
           Task0(i) == [at |-> x.queue.next + i - 1,
                        val |-> [node |-> Edges[i].target, inputs |-> Got(i)]]
           ready == {i \in out : HasRequiredInputs(Edges[i].target, Got(i))}
<1>0. \A i \in out : Edges[i].target # m BY DEF Feeds
<1>1. y.queue.items = x.queue.items \cup {Task0(i) : i \in ready} BY DEF FeedChildren
<1>2. \A i \in ready : i \in out /\ Task0(i).val.node = Edges[i].target OBVIOUS
<1>3. y.waiting[m] = x.waiting[m] BY <1>0 DEF FeedChildren
<1> HIDE DEF Task0, ready
<1>4. TasksOf(y.queue, m) = TasksOf(x.queue, m) BY <1>0, <1>1, <1>2 DEF TasksOf
<1> QED BY <1>3, <1>4 DEF Feeding

\* A node that is fed is queued, once, if it now has what it requires; if not it
\* waits with one input more.
LEMMA IsFed ==
    ASSUME NoParallelEdges, NEW x, NEW y, NEW n \in Nodes, NEW b, NEW m \in Nodes,
           Feeds(n, b, m),
           y.queue = FeedChildren(x.queue, x.waiting, n, b).queue,
           y.waiting = FeedChildren(x.queue, x.waiting, n, b).waiting
    PROVE  Feeding(x, y, n, b, m)
<1> DEFINE out == Delivered(n, b)
           got == x.waiting[m] \cup {n}
           Got(j) == ReceivedAlong(j, n, out, x.waiting)
           Task0(j) == [at |-> x.queue.next + j - 1,
                        val |-> [node |-> Edges[j].target, inputs |-> Got(j)]]
           ready == {j \in out : HasRequiredInputs(Edges[j].target, Got(j))}
           last == {j \in out : /\ Edges[j].target = m
                                /\ \A k \in out : Edges[k].target = m => k <= j}
<1>0. PICK i \in out : Edges[i].target = m BY DEF Feeds
<1>1. i \in DOMAIN Edges BY <1>0, DeliveredFrom
<1>2. \A j \in out : Edges[j].target = m => j = i
  BY <1>0, <1>1, DeliveredFrom DEF NoParallelEdges
<1>3. i \in Nat BY <1>1, FlowAssumption DEF FlowAssumption
<1>4. Got(i) = got
  <2>1. \A j \in out : ~ (j < i /\ Edges[j].target = m)
    <3> HIDE DEF out
    <3> QED BY <1>2, <1>3
  <2> QED BY <1>0, <2>1 DEF ReceivedAlong
<1>5. last = {i}
  <2>1. i \in out /\ i <= i BY <1>0, <1>3
  <2> HIDE DEF out
  <2>2. i \in last BY <1>0, <1>2, <2>1
  <2> QED BY <1>2, <2>2
<1>6. y.queue.items = x.queue.items \cup {Task0(j) : j \in ready} BY DEF FeedChildren
<1>7. y.waiting[m] = UNION {Got(j) : j \in last \ ready} BY <1>0 DEF FeedChildren
<1>8. \A j \in ready : j \in out /\ Task0(j).val.node = Edges[j].target OBVIOUS
<1>9. i \in ready <=> HasRequiredInputs(m, got) BY <1>0, <1>4
<1> HIDE DEF Task0, ready, Got, last
<1>10. ASSUME i \in ready
       PROVE  /\ \E t : TasksOf(y.queue, m) = TasksOf(x.queue, m) \cup {t}
              /\ y.waiting[m] = {}
  <2>1. y.waiting[m] = {} BY <1>5, <1>7, <1>10
  <2>2. TasksOf(y.queue, m) = TasksOf(x.queue, m) \cup {Task0(i)}
    BY <1>0, <1>2, <1>6, <1>8, <1>10 DEF TasksOf
  <2> QED BY <2>1, <2>2
<1>11. ASSUME i \notin ready
       PROVE  TasksOf(y.queue, m) = TasksOf(x.queue, m) /\ y.waiting[m] = got
  <2>1. y.waiting[m] = got BY <1>4, <1>5, <1>7, <1>11
  <2>2. TasksOf(y.queue, m) = TasksOf(x.queue, m)
    BY <1>2, <1>6, <1>8, <1>11 DEF TasksOf
  <2> QED BY <2>1, <2>2
<1> QED BY <1>9, <1>10, <1>11 DEF Feeding

----------------------------------------------------------------------------
(***************************************************************************)
(* What a run has executed is a course                                     *)
(***************************************************************************)
\* Where the nodes of X are that the run has reached: executed, queued, in hand.
History(data, X) ==
    {<<e.val.node, e.val.branch>> : e \in {f \in data.items : f.val.node \in X}}

InHand(x) == IF At(x) = "exec" THEN {x.current} ELSE {}

Reached(x, n) == ItemsOf(x.data, n) # {} \/ TasksOf(x.queue, n) # {} \/ n \in InHand(x)

ReachedOnce(x, n) ==
    /\ AtMostOne(ItemsOf(x.data, n)) /\ AtMostOne(TasksOf(x.queue, n))
    /\ ItemsOf(x.data, n) = {} \/ TasksOf(x.queue, n) = {}
    /\ n \in InHand(x) => ItemsOf(x.data, n) = {} /\ TasksOf(x.queue, n) = {}

\* The run has reached exactly the nodes that have earned it, each once, and the
\* others wait with all that they heard.
Unfolds(x, X) ==
    LET h == History(x.data, X) IN
    /\ h \subseteq Steps
    /\ \A n \in X :
          /\ ReachedOnce(x, n)
          /\ Reached(x, n) <=> Earned(h, n)
          /\ x.waiting[n] = IF Reached(x, n) THEN {} ELSE Hears(h, n)

Served(x) == At(x) = "done" /\ FinalState(x.data) = "FINISHED"

\* A run that was not resumed, on a flow without blocks, while it goes well.
NewRun(x) ==
    /\ At(x) \notin {"claiming", "iterate", "item"}
    /\ At(x) \in {"loop", "exec"} =>
          x.human = NoNode /\ Statuses(x.data) \subseteq {"FINISHED"}
    /\ At(x) = "stopping" => "STOPPED" \in Statuses(x.data)

CourseRun(x, X) ==
    /\ NewRun(x)
    /\ At(x) \in {"loop", "exec"} \/ Served(x) => Unfolds(x, X)
    /\ Served(x) => x.queue.items = {}

CourseInv(X) == \A r \in Requests : CourseRun(run[r], X)

LEMMA HistoryCourse ==
    ASSUME NEW x, NEW X, Unfolds(x, X)
    PROVE  /\ Course(History(x.data, X))
           /\ \A n \in X : n \in RanIn(History(x.data, X)) <=> ItemsOf(x.data, n) # {}
           /\ RanIn(History(x.data, X)) \subseteq X
<1> DEFINE h == History(x.data, X)
<1>1. ASSUME NEW n \in X PROVE n \in RanIn(h) <=> ItemsOf(x.data, n) # {}
  <2>1. \A e \in x.data.items : <<e.val.node, e.val.branch>>[1] = e.val.node OBVIOUS
  <2>2. n \in RanIn(h) <=> \E e \in x.data.items : e.val.node = n
    BY <2>1 DEF RanIn, History
  <2> QED BY <2>2 DEF ItemsOf
<1>2. RanIn(h) \subseteq X BY DEF RanIn, History
<1>3. ASSUME NEW s \in h, NEW t \in h, s[1] = t[1] PROVE s = t
  <2>1. PICK e \in x.data.items : e.val.node \in X /\ s = <<e.val.node, e.val.branch>>
    BY DEF History
  <2>2. PICK f \in x.data.items : f.val.node \in X /\ t = <<f.val.node, f.val.branch>>
    BY DEF History
  <2>3. e.val.node = f.val.node BY <1>3, <2>1, <2>2
  <2>4. AtMostOne(ItemsOf(x.data, e.val.node)) BY <2>1 DEF Unfolds, ReachedOnce
  <2>5. e = f BY <2>3, <2>4 DEF AtMostOne, ItemsOf
  <2> QED BY <2>1, <2>2, <2>5
<1>4. ASSUME NEW n \in RanIn(h) PROVE Earned(h, n)
  <2>1. n \in X /\ ItemsOf(x.data, n) # {} BY <1>1, <1>2, <1>4
  <2> QED BY <2>1 DEF Unfolds, Reached
<1> QED BY <1>1, <1>2, <1>3, <1>4 DEF Course, Unfolds

\* Nothing moves.
LEMMA UnfoldsHold ==
    ASSUME NEW x, NEW y, NEW X, Unfolds(x, X), y.data = x.data, y.queue = x.queue,
           y.waiting = x.waiting, InHand(y) = InHand(x)
    PROVE  Unfolds(y, X)
BY DEF Unfolds, ReachedOnce, Reached

\* The inputs of a node of X are in X.
SourceClosed(X) == \A n \in X : Sources[n] \subseteq X

LEMMA HistoryPush ==
    ASSUME NEW data, NEW v, NEW X
    PROVE  History(Push(data, v), X)
             = IF v.node \in X THEN History(data, X) \cup {<<v.node, v.branch>>}
               ELSE History(data, X)
<1> DEFINE w == [at |-> data.next, val |-> v]
<1>1. w.val = v OBVIOUS
<1>2. Push(data, v).items = data.items \cup {w} BY PushItems
<1> HIDE DEF w
<1>3. CASE v.node \in X
  <2>1. {f \in Push(data, v).items : f.val.node \in X}
          = {f \in data.items : f.val.node \in X} \cup {w}
    BY <1>1, <1>2, <1>3
  <2> QED BY <1>1, <1>3, <2>1 DEF History
<1>4. CASE v.node \notin X
  <2>1. {f \in Push(data, v).items : f.val.node \in X}
          = {f \in data.items : f.val.node \in X}
    BY <1>1, <1>2, <1>4
  <2> QED BY <1>4, <2>1 DEF History
<1> QED BY <1>3, <1>4

LEMMA ItemsPush ==
    ASSUME NEW data, NEW v
    PROVE  \E e : ItemsOf(Push(data, v), v.node) = ItemsOf(data, v.node) \cup {e}
<1> DEFINE w == [at |-> data.next, val |-> v]
<1>1. w.val = v OBVIOUS
<1>2. Push(data, v).items = data.items \cup {w} BY PushItems
<1> HIDE DEF w
<1>3. ItemsOf(Push(data, v), v.node) = ItemsOf(data, v.node) \cup {w}
  BY <1>1, <1>2 DEF ItemsOf
<1> QED BY <1>3

LEMMA ItemsKept ==
    ASSUME NEW data, NEW v, NEW m, m # v.node
    PROVE  ItemsOf(Push(data, v), m) = ItemsOf(data, m)
<1> DEFINE w == [at |-> data.next, val |-> v]
<1>1. w.val = v OBVIOUS
<1>2. Push(data, v).items = data.items \cup {w} BY PushItems
<1> HIDE DEF w
<1> QED BY <1>1, <1>2 DEF ItemsOf

\* What a node that finishes makes of the items.
Adds(data, more, n, b, X) ==
    /\ History(more, X) = IF n \in X THEN History(data, X) \cup {<<n, b>>}
                          ELSE History(data, X)
    /\ \E e : ItemsOf(more, n) = ItemsOf(data, n) \cup {e}
    /\ \A m : m # n => ItemsOf(more, m) = ItemsOf(data, m)

LEMMA AddsItem ==
    ASSUME NEW data, NEW v, NEW X
    PROVE  Adds(data, Push(data, v), v.node, v.branch, X)
<1>1. History(Push(data, v), X)
        = IF v.node \in X THEN History(data, X) \cup {<<v.node, v.branch>>}
          ELSE History(data, X)
  BY HistoryPush
<1>2. \E e : ItemsOf(Push(data, v), v.node) = ItemsOf(data, v.node) \cup {e}
  BY ItemsPush
<1>3. \A m : m # v.node => ItemsOf(Push(data, v), m) = ItemsOf(data, m)
  BY ItemsKept
<1> QED BY <1>1, <1>2, <1>3 DEF Adds

\* The heart of it: a node finishes, is a step of the course, and those it feeds are
\* queued if they have earned it now, whoever else has been heard before.
LEMMA UnfoldsFinish ==
    ASSUME NEW X \in SUBSET Nodes, SourceClosed(X), Exclusive(X),
           NEW x, NEW y, Unfolds(x, X), NEW n \in Nodes, NEW b \in Results(n),
           InHand(x) = {n}, InHand(y) = {}, Adds(x.data, y.data, n, b, X),
           \A m \in X : Feeding(x, y, n, b, m)
    PROVE  Unfolds(y, X)
<1> DEFINE h == History(x.data, X)
           g == History(y.data, X)
<1>1. /\ g = IF n \in X THEN h \cup {<<n, b>>} ELSE h
      /\ \E e : ItemsOf(y.data, n) = ItemsOf(x.data, n) \cup {e}
      /\ \A m : m # n => ItemsOf(y.data, m) = ItemsOf(x.data, m)
  BY DEF Adds
<1>2. /\ Course(h) /\ RanIn(h) \subseteq X /\ h \subseteq Steps
      /\ \A m \in X : m \in RanIn(h) <=> ItemsOf(x.data, m) # {}
  BY HistoryCourse DEF Unfolds
<1>3. <<n, b>> \in Steps BY DEF Steps
<1>4. ASSUME NEW m \in X, Feeds(n, b, m) PROVE n \in X
  <2>1. n \in Sources[m] BY <1>4, DeliveredFrom DEF Feeds, Sources, InEdges
  <2> QED BY <2>1 DEF SourceClosed
<1>5. ASSUME n \in X
      PROVE  /\ n \notin RanIn(h) /\ Earned(h, n)
             /\ ItemsOf(x.data, n) = {} /\ TasksOf(x.queue, n) = {}
  BY <1>2, <1>5 DEF Unfolds, ReachedOnce, Reached
<1>6. ASSUME NEW m \in X, Feeds(n, b, m) PROVE ~ Earned(h, m)
  <2>1. PICK i \in Delivered(n, b) : Edges[i].target = m BY <1>6 DEF Feeds
  <2>2. n \notin RanIn(h) /\ Earned(h, n) BY <1>4, <1>5, <1>6
  <2>3. \A j \in Delivered(n, b) :
            Edges[j].target \in X => ~ Earned(h, Edges[j].target)
    BY <1>2, <1>3, <2>2, NextStep
  <2> QED BY <2>1, <2>3
<1>7. ASSUME NEW m \in X PROVE Hears(g, m) = Hears(h, m) \cup (IF Feeds(n, b, m) THEN {n} ELSE {})
  <2>1. CASE n \in X BY <1>1, <2>1, HearsStep DEF Feeds
  <2>2. CASE n \notin X BY <1>1, <1>4, <2>2
  <2> QED BY <2>1, <2>2
<1>8. ASSUME NEW m \in X
      PROVE  /\ ReachedOnce(x, m) /\ (Reached(x, m) <=> Earned(h, m))
             /\ x.waiting[m] = IF Reached(x, m) THEN {} ELSE Hears(h, m)
  BY DEF Unfolds
<1>9. g \subseteq Steps BY <1>1, <1>2, <1>3
<1>10. ASSUME NEW m \in X, ~ Feeds(n, b, m)
       PROVE  /\ ReachedOnce(y, m) /\ (Reached(y, m) <=> Earned(g, m))
              /\ y.waiting[m] = IF Reached(y, m) THEN {} ELSE Hears(g, m)
  <2>1. TasksOf(y.queue, m) = TasksOf(x.queue, m) /\ y.waiting[m] = x.waiting[m]
    BY <1>10 DEF Feeding
  <2>2. Hears(g, m) = Hears(h, m) /\ (Earned(g, m) <=> Earned(h, m))
    BY <1>7, <1>10 DEF Earned
  <2>3. ReachedOnce(y, m) /\ (Reached(y, m) <=> Reached(x, m))
    <3>1. CASE m = n
      <4>1. ItemsOf(x.data, n) = {} /\ TasksOf(x.queue, n) = {} BY <1>5, <3>1
      <4> QED BY <1>1, <2>1, <3>1, <4>1 DEF ReachedOnce, Reached, AtMostOne
    <3>2. CASE m # n BY <1>1, <1>8, <2>1, <3>2 DEF ReachedOnce, Reached
    <3> QED BY <3>1, <3>2
  <2> QED BY <1>8, <2>1, <2>2, <2>3
<1>11. ASSUME NEW m \in X, Feeds(n, b, m)
       PROVE  /\ ReachedOnce(y, m) /\ (Reached(y, m) <=> Earned(g, m))
              /\ y.waiting[m] = IF Reached(y, m) THEN {} ELSE Hears(g, m)
  <2>2. ~ Earned(h, m) /\ ~ Reached(x, m) /\ x.waiting[m] = Hears(h, m)
    BY <1>6, <1>8, <1>11
  <2>3. /\ ItemsOf(x.data, m) = {} /\ TasksOf(x.queue, m) = {} /\ m # n
        /\ ItemsOf(y.data, m) = {}
    BY <1>1, <2>2 DEF Reached
  <2>4. Hears(g, m) = x.waiting[m] \cup {n} BY <1>7, <1>11, <2>2
  <2>5. m # Start BY <2>2 DEF Earned
  <2>6. CASE HasRequiredInputs(m, Hears(g, m))
    <3>1. /\ \E t : TasksOf(y.queue, m) = TasksOf(x.queue, m) \cup {t}
          /\ y.waiting[m] = {}
      BY <1>11, <2>4, <2>6 DEF Feeding
    <3> QED BY <2>3, <2>6, <3>1 DEF ReachedOnce, Reached, Earned, AtMostOne
  <2>7. CASE ~ HasRequiredInputs(m, Hears(g, m))
    <3>1. TasksOf(y.queue, m) = {} /\ y.waiting[m] = Hears(g, m)
      BY <1>11, <2>3, <2>4, <2>7 DEF Feeding
    <3> QED BY <2>3, <2>5, <2>7, <3>1 DEF ReachedOnce, Reached, Earned, AtMostOne
  <2> QED BY <2>6, <2>7
<1> QED BY <1>9, <1>10, <1>11 DEF Unfolds

\* The node at the head of the queue is taken in hand.
LEMMA UnfoldsBegin ==
    ASSUME NEW X, NEW x, NEW y, Unfolds(x, X), At(x) = "loop", At(y) = "exec",
           NEW task \in x.queue.items, y.current = task.val.node,
           y.queue.items = x.queue.items \ {task}, y.data = x.data,
           y.waiting = x.waiting
    PROVE  Unfolds(y, X)
<1> DEFINE n == task.val.node
<1>1. InHand(x) = {} /\ InHand(y) = {n} BY DEF InHand
<1>2. ASSUME NEW m \in X
      PROVE  ReachedOnce(y, m) /\ (Reached(y, m) <=> Reached(x, m))
  <2>1. ReachedOnce(x, m) BY DEF Unfolds
  <2>2. CASE m = n
    <3>1. task \in TasksOf(x.queue, m) BY <2>2 DEF TasksOf
    <3>2. TasksOf(y.queue, m) = {} BY <2>1, <3>1 DEF TasksOf, ReachedOnce, AtMostOne
    <3> QED BY <1>1, <2>1, <2>2, <3>1, <3>2 DEF ReachedOnce, Reached, AtMostOne
  <2>3. CASE m # n
    <3>1. TasksOf(y.queue, m) = TasksOf(x.queue, m) BY <2>3 DEF TasksOf
    <3> QED BY <1>1, <2>1, <2>3, <3>1 DEF ReachedOnce, Reached
  <2> QED BY <2>2, <2>3
<1> QED BY <1>2 DEF Unfolds

\* A run that starts has heard nothing.
LEMMA UnfoldsStart ==
    ASSUME NoBlocks, NEW X \in SUBSET Nodes, NEW y, At(y) = "loop",
           y.data = EmptyLog, y.queue = StartTask(Start), y.waiting = Nowhere
    PROVE  Unfolds(y, X)
<1>1. EmptyLog.items = {} BY DEF EmptyLog
<1>2. History(y.data, X) = {} /\ \A n : ItemsOf(y.data, n) = {}
  BY <1>1 DEF History, ItemsOf
<1>3. InHand(y) = {} BY DEF InHand
<1>4. \A n : Hears({}, n) = {} BY DEF Hears, Carried
<1>5. ASSUME NEW n \in X
      PROVE  /\ AtMostOne(TasksOf(y.queue, n))
             /\ TasksOf(y.queue, n) # {} <=> n = Start
  BY StartTaskOne, StartTaskItems DEF TasksOf, AtMostOne
<1>6. ASSUME NEW n \in X PROVE Earned({}, n) <=> n = Start
  <2>1. ASSUME n # Start PROVE ~ HasRequiredInputs(n, {})
    <3>1. InEdges[n] # {} BY <2>1, StartAlone
    <3>2. Sources[n] # {} BY <3>1 DEF Sources
    <3> QED BY <3>2, NoInputs
  <2> QED BY <1>4, <2>1 DEF Earned
<1> QED BY <1>2, <1>3, <1>4, <1>5, <1>6 DEF Unfolds, ReachedOnce, Reached, AtMostOne, Nowhere

LEMMA CourseHold ==
    ASSUME NEW x, NEW y, NEW X, CourseRun(x, X), At(y) = At(x), y.data = x.data,
           y.queue = x.queue, y.waiting = x.waiting, y.human = x.human,
           y.current = x.current
    PROVE  CourseRun(y, X)
<1>1. InHand(y) = InHand(x) BY DEF InHand
<1>2. NewRun(y) BY DEF CourseRun, NewRun
<1>3. Served(y) <=> Served(x) BY DEF Served
<1>4. At(y) \in {"loop", "exec"} \/ Served(y) => Unfolds(y, X)
  BY <1>1, <1>3, UnfoldsHold DEF CourseRun
<1> QED BY <1>2, <1>3, <1>4 DEF CourseRun

\* A run that has failed, or left the engine, has no course any more.
LEMMA CourseEnds ==
    ASSUME NEW y, NEW X,
           \/ At(y) \in {"idle", "rejected", "overrun", "crashed"}
           \/ At(y) = "done" /\ FinalState(y.data) # "FINISHED"
    PROVE  CourseRun(y, X)
BY DEF CourseRun, NewRun, Served

LEMMA FinalFinished ==
    ASSUME NEW data, FinalState(data) = "FINISHED"
    PROVE  Statuses(data) \cap {"STOPPED", "ERROR", "TERMINATED"} = {}
BY DEF FinalState

LEMMA CourseFinish ==
    ASSUME NothingResumed, NoBlocks, NoLoops, NoParallelEdges, TypeInv,
           NEW X \in SUBSET Nodes, SourceClosed(X), Exclusive(X),
           NEW r \in Requests, CourseRun(run[r], X), NEW b, FinishNode(r, b)
    PROVE  CourseRun(run'[r], X)
<1> DEFINE x == run[r]
           y == run'[r]
           n == x.current
           v == [node |-> n, status |-> "FINISHED", branch |-> b]
<1>1. NewRun(x) /\ x.pc \in {"exec", "iterate"} BY FinishNodeRun DEF CourseRun
<1>2. x.pc = "exec" /\ At(x) = "exec" BY <1>1 DEF NewRun, At
<1>3. /\ x.human = NoNode /\ Statuses(x.data) \subseteq {"FINISHED"} /\ Unfolds(x, X)
  BY <1>1, <1>2 DEF NewRun, CourseRun
<1>4. n \in Nodes /\ n # NoNode /\ n \in X \cup Nodes
  BY <1>2, RunTypes DEF TypeInv, Busy, BusyRun
<1>5. ~ Answered(r) /\ ~ LoopsBack(r) BY <1>3, <1>4 DEF Answered, LoopsBack, NoLoops
<1>6. DataAtFinish(r) = x.data BY <1>2, <1>5 DEF DataAtFinish, DataBefore
<1>7. /\ y.pc = "loop" /\ y.data = Push(x.data, v) /\ y.human = NoNode
      /\ y.waiting = FeedChildren(x.queue, x.waiting, n, b).waiting
      /\ y.queue = FeedChildren(x.queue, x.waiting, n, b).queue
  <2>1. /\ y.pc = "loop" /\ y.data = Push(DataAtFinish(r), v)
        /\ y.waiting = FeedChildren(x.queue, x.waiting, n, b).waiting
        /\ ~ LoopsBack(r) => y.queue = FeedChildren(x.queue, x.waiting, n, b).queue
        /\ y.human = IF LoopsBack(r) \/ Answered(r) THEN NoNode ELSE x.human
    BY FinishNodeRun
  <2> QED BY <1>3, <1>5, <1>6, <2>1
<1>8. v.node = n /\ v.branch = b /\ v.status = "FINISHED" OBVIOUS
<1> HIDE DEF v
<1>9. b \in Results(n)
  <2>1. TakesBranch(r, b) /\ Kind[n] # "human" BY <1>3 DEF FinishNode
  <2> QED BY <2>1 DEF TakesBranch, Results
<1>10. InHand(x) = {n} /\ At(y) = "loop" /\ InHand(y) = {} BY <1>2, <1>7 DEF InHand, At
<1>11. Adds(x.data, y.data, n, b, X) BY <1>7, <1>8, AddsItem
<1>12. ASSUME NEW m \in X PROVE Feeding(x, y, n, b, m)
  <2>1. m \in Nodes OBVIOUS
  <2>2. CASE Feeds(n, b, m) BY <1>4, <1>7, <2>1, <2>2, IsFed
  <2>3. CASE ~ Feeds(n, b, m) BY <1>7, <2>1, <2>3, NotFed
  <2> QED BY <2>2, <2>3
<1>13. Unfolds(y, X) BY <1>3, <1>4, <1>9, <1>10, <1>11, <1>12, UnfoldsFinish
<1>14. Statuses(y.data) \subseteq {"FINISHED"} BY <1>3, <1>7, <1>8, PushStatuses
<1>15. NewRun(y) BY <1>7, <1>10, <1>14 DEF NewRun
<1> QED BY <1>10, <1>13, <1>15 DEF CourseRun, Served

LEMMA CourseStep ==
    ASSUME NothingResumed, NoBlocks, NoLoops, NoParallelEdges,
           NEW X \in SUBSET Nodes, SourceClosed(X), Exclusive(X),
           TypeInv, FreshInv, CourseInv(X), [Next]_vars
    PROVE  CourseInv(X)'
<1> SUFFICES ASSUME NEW r \in Requests PROVE CourseRun(run'[r], X) BY DEF CourseInv
<1> DEFINE x == run[r]
           y == run'[r]
<1>0. CourseRun(x, X) /\ NewRun(x) BY DEF CourseInv, CourseRun
<1>1. CASE Advance(r)
  <2>1. CASE Claim(r)
    <3>1. At(x) = "claiming" BY <2>1, ClaimRun DEF At
    <3> QED BY <1>0, <3>1 DEF NewRun
  <2>2. CASE SaveRow(r)
    <3>1. x.then # "saving" BY RunTypes DEF Run
    <3>2. y.data = x.data /\ SameWork(x, y) /\ At(y) = At(x)
      BY <2>2, <3>1, SaveRowRun DEF At
    <3> QED BY <1>0, <3>2, CourseHold DEF SameWork
  <2>3. CASE OverrunIterations(r)
    <3>1. At(y) = "overrun" BY <2>3, OverrunRun DEF At
    <3> QED BY <3>1, CourseEnds
  <2>4. CASE BeginItem(r) \/ ItemThrows(r) \/ ItemReturns(r)
    <3>1. At(x) \in {"iterate", "item"}
      BY <2>4, BeginItemRun, ItemThrowsRun, ItemFields DEF At
    <3> QED BY <1>0, <3>1 DEF NewRun
  <2>5. CASE BeginNode(r)
    <3>1. PICK task \in x.queue.items :
              /\ y.pc = "exec" /\ y.current = task.val.node
              /\ y.queue = Without(x.queue, {task})
              /\ y.human = x.human /\ y.waiting = x.waiting /\ y.data = x.data
              /\ x.pc = "loop"
      BY <2>5, BeginNodeRun
    <3>2. At(x) = "loop" /\ At(y) = "exec" BY <3>1 DEF At
    <3>3. y.queue.items = x.queue.items \ {task}
      BY <3>1, RunTypes DEF Without, Logs
    <3>4. Unfolds(x, X) BY <1>0, <3>2 DEF CourseRun
    <3>5. Unfolds(y, X) BY <3>1, <3>2, <3>3, <3>4, UnfoldsBegin
    <3>6. NewRun(y) BY <1>0, <3>1, <3>2 DEF NewRun
    <3> QED BY <3>2, <3>5, <3>6 DEF CourseRun, Served
  <2>6. CASE TerminateAtHead(r) \/ FailNode(r)
    <3>1. PICK n \in Nodes, status \in Failures :
              Outcome(x, y, Push(x.data, Failed(n, status)), status, Exists(x.rec))
      BY <2>6, FailRun
    <3>2. y.data = Push(x.data, Failed(n, status)) /\ At(y) \in {"done", "rejected"}
      BY <3>1, OutcomeFields DEF At
    <3>3. status \in Statuses(y.data) BY <3>2, PushStatuses DEF Failed
    <3>4. FinalState(y.data) # "FINISHED" BY <3>3, FinalFinished DEF Failures
    <3> QED BY <3>2, <3>4, CourseEnds
  <2>7. CASE StopForHuman(r)
    <3> DEFINE v == [node |-> x.current, status |-> "STOPPED", branch |-> NoBranch]
    <3>1. y.pc = "stopping" /\ y.data = Push(DataBefore(r), v) BY <2>7, StopForHumanRun
    <3>2. v.status = "STOPPED" OBVIOUS
    <3> HIDE DEF v
    <3>3. "STOPPED" \in Statuses(y.data) BY <3>1, <3>2, PushStatuses
    <3>4. At(y) = "stopping" BY <3>1 DEF At
    <3> QED BY <3>3, <3>4 DEF CourseRun, NewRun, Served
  <2>8. ASSUME NEW b, FinishNode(r, b) PROVE CourseRun(y, X)
    BY <1>0, <2>8, CourseFinish
  <2>9. CASE BeginIteration(r)
    <3>1. x.pc = "exec" /\ Children(x.current) # {} BY <2>9, BeginIterationRun
    <3>2. x.current \in Nodes BY <3>1 DEF TypeInv, Busy, BusyRun
    <3> QED BY <3>1, <3>2, RunTypes DEF NoBlocks, Children
  <2>10. CASE Conclude(r)
    <3>1. /\ y.data = x.data /\ SameWork(x, y) /\ At(y) \in {"done", "rejected"}
          /\ x.pc = "stopping" \/ (x.pc = "loop" /\ x.queue.items = {})
      BY <2>10, ConcludeRun, OutcomeFields DEF At
    <3>2. CASE x.pc = "stopping"
      <4>1. "STOPPED" \in Statuses(y.data) BY <1>0, <3>1, <3>2 DEF NewRun, At
      <4>2. FinalState(y.data) # "FINISHED" BY <4>1, FinalFinished
      <4> QED BY <3>1, <4>2, CourseEnds
    <3>3. CASE x.pc = "loop" /\ x.queue.items = {}
      <4>1. Unfolds(x, X) BY <1>0, <3>3 DEF CourseRun, At
      <4>2. InHand(y) = InHand(x) BY <3>1, <3>3 DEF InHand, At
      <4>3. Unfolds(y, X) BY <3>1, <4>1, <4>2, UnfoldsHold DEF SameWork
      <4>4. y.queue.items = {} BY <3>1, <3>3 DEF SameWork
      <4> QED BY <3>1, <4>3, <4>4 DEF CourseRun, NewRun
    <3> QED BY <3>1, <3>2, <3>3
  <2> QED BY <1>1, <2>1, <2>2, <2>3, <2>4, <2>5, <2>6, <2>7, <2>8, <2>9, <2>10
          DEF Advance
<1>2. CASE Arrive(r)
  <2>1. CASE StartFlow(r)
    <3>1. /\ y.pc = "loop" /\ y.data = EmptyLog /\ y.human = NoNode
          /\ y.queue = StartTask(Start) /\ y.waiting = Nowhere
      BY <2>1, StartFlowRun
    <3>2. At(y) = "loop" BY <3>1 DEF At
    <3>3. Unfolds(y, X) BY <3>1, <3>2, UnfoldsStart
    <3>4. Statuses(y.data) = {} BY <3>1 DEF Statuses, EmptyLog
    <3> QED BY <3>1, <3>2, <3>3, <3>4 DEF CourseRun, NewRun, Served
  <2>2. ~ \E asked \in Asked, answer \in {0, 1} : LoadPrevious(r, asked, answer)
    BY NothingLoaded
  <2>3. ASSUME NEW asked, RejectResume(r, asked) PROVE CourseRun(y, X)
    <3>1. At(y) = "rejected" BY <2>3, RejectResumeRun DEF At
    <3> QED BY <3>1, CourseEnds
  <2> QED BY <1>2, <2>1, <2>2, <2>3 DEF Arrive
<1>3. CASE Abort(r)
  <2>1. y.pc = x.pc /\ y.then = x.then /\ SameHold(x, y) BY <1>3, AbortRun
  <2>2. At(y) = At(x) BY <2>1 DEF At
  <2> QED BY <1>0, <2>1, <2>2, CourseHold DEF SameHold, SameWork
<1>4. ASSUME NEW s \in Requests, s # r, Arrive(s) \/ Advance(s) \/ Abort(s)
      PROVE  y = x
  BY <1>4, OthersStay
<1>5. CASE Crash
  <2>1. CASE y.pc = "crashed" BY <2>1, CourseEnds DEF At
  <2> QED BY <1>0, <1>5, <2>1, CrashRun
<1>6. CASE UNCHANGED run BY <1>0, <1>6
<1> QED BY <1>0, <1>1, <1>2, <1>3, <1>4, <1>5, <1>6 DEF Next, vars, DeleteExecution

LEMMA CourseInit == ASSUME Init, NEW X PROVE CourseInv(X)
<1> SUFFICES ASSUME NEW r \in Requests PROVE CourseRun(run[r], X) BY DEF CourseInv
<1>1. At(run[r]) = "idle" BY DEF Init, Fresh, At
<1> QED BY <1>1, CourseEnds

LEMMA FreshAlways == ASSUME NothingResumed PROVE Spec => [](TypeInv /\ FreshInv)
<1>1. Spec => []TypeInv BY TypeInit, TypeStep, PTL DEF Spec
<1>2. TypeInv /\ FreshInv /\ [Next]_vars => FreshInv' BY FreshStep
<1> QED BY <1>1, <1>2, FreshInit, PTL DEF Spec

----------------------------------------------------------------------------
(***************************************************************************)
(* Nodes that no decision can leave out                                    *)
(***************************************************************************)
\* A canvas without a cycle: the inputs of a node lie below it.
Ranked(rank) ==
    /\ rank \in [Nodes -> Nat]
    /\ \A n \in Nodes : \A s \in Sources[n] : rank[s] < rank[n]

Acyclic == \E rank : Ranked(rank)

LEMMA SourceNodes == ASSUME NEW n \in Nodes PROVE Sources[n] \subseteq Nodes
BY EdgeType DEF Sources, InEdges

LEMMA LayerGrows ==
    ASSUME NEW S, NEW T, S \subseteq T PROVE Layer(S) \subseteq Layer(T)
BY DEF Layer

LEMMA NodeAbove == ASSUME NEW n \in Nodes PROVE n \in Above(n)
<1>1. 0 \in 0 .. Cardinality(Nodes) /\ Ancestor(n)[0] = n BY AncestorWalk
<1>2. n # NoNode BY FlowAssumption DEF FlowAssumption
<1> QED BY <1>1, <1>2, AncestorAbove

\* A set that holds n and the inputs of its nodes holds all that is above n.
LEMMA AboveWithin ==
    ASSUME NEW n \in Nodes, NEW S, n \in S, Layer(S) \subseteq S
    PROVE  Above(n) \subseteq S
<1> DEFINE N == Cardinality(Nodes)
<1>1. PICK up : /\ Above(n) = up[N] /\ up[0] = {n}
                /\ \A k \in 1 .. N : up[k] = Layer(up[k - 1])
  BY AboveWalk
<1>2. N \in Nat BY AncestorWalk
<1> HIDE DEF N
<1> DEFINE T == {k \in Nat : k \in 0 .. N /\ ~ (up[k] \subseteq S)}
<1>3. T = {}
  <2> SUFFICES ASSUME T # {} PROVE FALSE OBVIOUS
  <2>1. PICK k \in T : \A j \in T : k <= j BY LeastNatural
  <2>2. k # 0 BY <1>1, <2>1
  <2>3. k \in 1 .. N /\ k - 1 \in 0 .. N /\ k - 1 \in Nat /\ k - 1 \notin T
    BY <1>2, <2>1, <2>2
  <2>4. up[k - 1] \subseteq S BY <2>3
  <2>5. up[k] \subseteq S BY <1>1, <2>3, <2>4, LayerGrows
  <2> QED BY <2>1, <2>5
<1>4. N \in 0 .. N /\ N \in Nat BY <1>2
<1> QED BY <1>1, <1>3, <1>4

\* The layers stop growing before there are more of them than nodes.
LEMMA AboveClosed == ASSUME NEW n \in Nodes PROVE Layer(Above(n)) = Above(n)
<1> DEFINE N == Cardinality(Nodes)
<1>1. PICK up : /\ Above(n) = up[N] /\ up[0] = {n}
                /\ \A k \in 1 .. N : up[k] = Layer(up[k - 1])
  BY AboveWalk
<1>2. N \in Nat BY AncestorWalk
<1>3. IsFiniteSet(Nodes) BY FlowAssumption DEF FlowAssumption
<1>4. ASSUME NEW S \in SUBSET Nodes
      PROVE  /\ Cardinality(S) \in Nat /\ Cardinality(S) <= N /\ S \subseteq Layer(S)
             /\ Layer(S) \in SUBSET Nodes
             /\ Layer(S) # S => Cardinality(S) < Cardinality(Layer(S))
  <2>1. S \subseteq Layer(S) /\ Layer(S) \in SUBSET Nodes BY SourceNodes DEF Layer
  <2>2. IsFiniteSet(Layer(S)) BY <1>3, <2>1, FS_Subset
  <2>3. /\ IsFiniteSet(S) /\ Cardinality(S) <= N
        /\ Cardinality(S) <= Cardinality(Layer(S))
        /\ Cardinality(Layer(S)) = Cardinality(S) => Layer(S) = S
    BY <1>3, <2>1, <2>2, FS_Subset
  <2>4. Cardinality(S) \in Nat /\ Cardinality(Layer(S)) \in Nat
    BY <2>2, <2>3, FS_CardinalityType
  <2> HIDE DEF N
  <2> QED BY <2>1, <2>3, <2>4
<1> HIDE DEF N
<1> DEFINE Grown(k) == /\ up[k] \in SUBSET Nodes
                       /\ Layer(up[k]) = up[k] \/ k + 1 <= Cardinality(up[k])
           T == {k \in Nat : k \in 0 .. N /\ ~ Grown(k)}
<1>5. T = {}
  <2> SUFFICES ASSUME T # {} PROVE FALSE OBVIOUS
  <2>1. PICK k \in T : \A j \in T : k <= j BY LeastNatural
  <2>2. CASE k = 0
    <3>1. Cardinality({n}) = 1 BY FS_Singleton
    <3>2. Grown(0) BY <1>1, <3>1
    <3> QED BY <2>1, <2>2, <3>2
  <2>3. CASE k # 0
    <3>1. k \in 1 .. N /\ k - 1 \in 0 .. N /\ k - 1 \in Nat /\ k - 1 \notin T
      BY <1>2, <2>1, <2>3
    <3>2. Grown(k - 1) /\ up[k] = Layer(up[k - 1]) BY <1>1, <3>1
    <3>3. CASE Layer(up[k - 1]) = up[k - 1]
      <4>1. Grown(k) BY <3>2, <3>3
      <4> QED BY <2>1, <4>1
    <3>4. CASE Layer(up[k - 1]) # up[k - 1]
      <4>1. /\ Cardinality(up[k - 1]) \in Nat /\ up[k] \in SUBSET Nodes
            /\ Cardinality(up[k - 1]) < Cardinality(up[k])
            /\ (k - 1) + 1 <= Cardinality(up[k - 1])
        BY <1>4, <3>2, <3>4
      <4>2. Cardinality(up[k]) \in Nat BY <1>4, <4>1
      <4>3. k + 1 <= Cardinality(up[k]) BY <2>1, <4>1, <4>2
      <4> QED BY <2>1, <4>1, <4>3
    <3> QED BY <3>3, <3>4
  <2> QED BY <2>2, <2>3
<1>6. N \in 0 .. N /\ N \in Nat /\ N \notin T BY <1>2, <1>5
<1>7. Grown(N) BY <1>6
<1>8. ~ (N + 1 <= Cardinality(up[N])) BY <1>2, <1>4, <1>7
<1> QED BY <1>1, <1>7, <1>8

\* What is above an input is above the node.
LEMMA AboveInputs ==
    ASSUME NEW n \in Nodes, NEW s \in Sources[n]
    PROVE  s \in Nodes /\ Above(s) \subseteq Above(n)
<1>1. s \in Nodes BY SourceNodes
<1>2. n \in Above(n) BY NodeAbove
<1>3. s \in Above(n) BY <1>2, AboveClosed DEF Layer
<1> QED BY <1>1, <1>3, AboveClosed, AboveWithin

LEMMA AboveRanked ==
    ASSUME NEW rank, Ranked(rank), NEW n \in Nodes, NEW m \in Above(n)
    PROVE  m \in Nodes /\ rank[m] <= rank[n]
<1> DEFINE S == {k \in Nodes : rank[k] <= rank[n]}
<1>1. n \in S BY DEF Ranked
<1>2. ASSUME NEW k \in S, NEW s \in Sources[k] PROVE s \in S
  <2>1. s \in Nodes /\ rank[s] < rank[k] BY SourceNodes DEF Ranked
  <2>2. rank[s] \in Nat /\ rank[k] \in Nat /\ rank[n] \in Nat BY <2>1 DEF Ranked
  <2> QED BY <2>1, <2>2
<1>3. Layer(S) \subseteq S BY <1>2 DEF Layer
<1>4. Above(n) \subseteq S BY <1>1, <1>3, AboveWithin
<1> QED BY <1>4

\* The inputs of a node that no decision can leave out are such nodes themselves and
\* no decisions.
LEMMA UnconditionalInputs ==
    ASSUME Acyclic, NEW n \in Unconditional, NEW s \in Sources[n]
    PROVE  s \in Unconditional /\ ~ IsDecision(s)
<1>1. PICK rank : Ranked(rank) BY DEF Acyclic
<1>2. n \in Nodes BY DEF Unconditional
<1>3. s \in Nodes /\ Above(s) \subseteq Above(n) /\ rank[s] < rank[n]
  BY <1>1, <1>2, AboveInputs DEF Ranked
<1>4. ASSUME NEW m \in Above(s) PROVE ~ IsDecision(m)
  <2>1. rank[m] <= rank[s] /\ m \in Nodes BY <1>1, <1>3, <1>4, AboveRanked
  <2>2. rank[m] \in Nat /\ rank[s] \in Nat /\ rank[n] \in Nat
    BY <1>1, <1>2, <1>3, <2>1 DEF Ranked
  <2>3. m # n BY <1>3, <2>1, <2>2
  <2> QED BY <1>3, <2>3 DEF Unconditional
<1>5. s \in Above(s) BY <1>3, NodeAbove
<1> QED BY <1>3, <1>4, <1>5 DEF Unconditional

LEMMA UnconditionalClosed ==
    ASSUME Acyclic PROVE SourceClosed(Unconditional) /\ Exclusive(Unconditional)
<1>1. SourceClosed(Unconditional) BY UnconditionalInputs DEF SourceClosed
<1>2. ASSUME NEW n \in Unconditional PROVE ConditionalGroups[n] = {}
  <2>1. n \in Nodes BY DEF Unconditional
  <2>2. ASSUME NEW s \in Sources[n] PROVE ConditionParent[s] = NoNode
    <3>1. s \in ExpectedInputs[n]
      BY <2>1, UnconditionalInputs, UnconditionalExpected
    <3> QED BY <2>1, <3>1 DEF ExpectedInputs
  <2> QED BY <2>1, <2>2 DEF ConditionalGroups
<1> QED BY <1>1, <1>2 DEF Exclusive

\* What a run that was served has executed: nothing is queued or in hand any more.
LEMMA ServedCourse ==
    ASSUME NEW x, NEW X, CourseRun(x, X), Served(x)
    PROVE  /\ Course(History(x.data, X))
           /\ \A n \in X :
                 /\ n \in RanIn(History(x.data, X)) <=> Earned(History(x.data, X), n)
                 /\ n \in RanIn(History(x.data, X)) <=> ItemsOf(x.data, n) # {}
                 /\ AtMostOne(ItemsOf(x.data, n))
                 /\ x.waiting[n] = IF n \in RanIn(History(x.data, X)) THEN {}
                                   ELSE Hears(History(x.data, X), n)
<1>1. Unfolds(x, X) /\ x.queue.items = {} BY DEF CourseRun
<1>2. InHand(x) = {} BY DEF Served, InHand
<1>3. /\ Course(History(x.data, X))
      /\ \A n \in X : n \in RanIn(History(x.data, X)) <=> ItemsOf(x.data, n) # {}
  BY <1>1, HistoryCourse
<1>4. \A n : TasksOf(x.queue, n) = {} BY <1>1 DEF TasksOf
<1> QED BY <1>1, <1>2, <1>3, <1>4 DEF Unfolds, ReachedOnce, Reached

\* The results of nodes that are no decisions are handed to all their children.
LEMMA HearsAll ==
    ASSUME NEW h, Course(h), NEW n \in Nodes, Sources[n] \subseteq RanIn(h),
           \A s \in Sources[n] : ~ IsDecision(s)
    PROVE  Hears(h, n) = Sources[n]
<1>1. Hears(h, n) \subseteq Sources[n] BY HearsType DEF Course
<1>2. ASSUME NEW s \in Sources[n] PROVE s \in Hears(h, n)
  <2>1. PICK i \in InEdges[n] : Edges[i].source = s BY DEF Sources
  <2>2. PICK t \in h : t[1] = s BY DEF RanIn
  <2>3. s \in Nodes /\ i \in OutEdges[s] BY <2>1, EdgeType DEF InEdges, OutEdges
  <2>4. Delivered(s, t[2]) = OutEdges[s] BY <1>2 DEF Delivered, NodesToIgnore
  <2>5. i \in Carried(h) BY <2>2, <2>3, <2>4 DEF Carried
  <2> QED BY <2>1, <2>5 DEF Hears
<1> QED BY <1>1, <1>2

\* On a canvas that is drawn as it should be, without cycles and without two edges
\* between the same two nodes, a run that was not resumed and finishes has executed
\* every node that no decision can leave out, once: whatever the forks and joins,
\* whatever decisions do to other parts of the flow, whoever aborts or deletes.
THEOREM UnconditionalRunOnceHolds ==
    ASSUME NothingResumed, NoBlocks, NoLoops, NoParallelEdges, Acyclic
    PROVE  Spec => []UnconditionalRunOnce
<1>1. Unconditional \in SUBSET Nodes BY DEF Unconditional
<1> DEFINE CInv == CourseInv(Unconditional)
<1>2. TypeInv /\ FreshInv /\ CInv /\ [Next]_vars => CInv'
  BY <1>1, UnconditionalClosed, CourseStep
<1>0. Init => CInv BY CourseInit
<1>3. CourseInv(Unconditional) => UnconditionalRunOnce
  <2> SUFFICES ASSUME NEW r \in Requests, CourseRun(run[r], Unconditional), Served(run[r]),
                      NEW n \in Unconditional
               PROVE  Cardinality(ItemsOf(run[r].data, n)) = 1
    BY DEF UnconditionalRunOnce, CourseInv, Served, At, ItemsOf
  <2> DEFINE h == History(run[r].data, Unconditional)
  <2>1. /\ Course(h)
        /\ \A m \in Unconditional : /\ m \in RanIn(h) <=> Earned(h, m)
                                    /\ m \in RanIn(h) <=> ItemsOf(run[r].data, m) # {}
                                    /\ AtMostOne(ItemsOf(run[r].data, m))
    BY ServedCourse
  <2> HIDE DEF h
  <2>2. PICK rank : Ranked(rank) BY DEF Acyclic
  <2> DEFINE Missed == {m \in Unconditional : m \notin RanIn(h)}
  <2>3. Missed = {}
    <3> SUFFICES ASSUME Missed # {} PROVE FALSE OBVIOUS
    <3>1. {rank[m] : m \in Missed} \subseteq Nat BY <1>1, <2>2 DEF Ranked
    <3>2. PICK m \in Missed : \A k \in Missed : rank[m] <= rank[k]
      <4>1. PICK u \in {rank[m] : m \in Missed} :
                \A w \in {rank[m] : m \in Missed} : u <= w
        BY <3>1, LeastNatural
      <4> QED BY <4>1
    <3>3. m \in Nodes BY <1>1
    <3>4. ASSUME NEW s \in Sources[m] PROVE s \in RanIn(h) /\ ~ IsDecision(s)
      <4>1. s \in Unconditional /\ ~ IsDecision(s) BY UnconditionalInputs
      <4>2. rank[s] < rank[m] /\ rank[s] \in Nat /\ rank[m] \in Nat
        BY <1>1, <2>2, <3>3, <4>1 DEF Ranked
      <4>3. s \notin Missed BY <3>2, <4>2
      <4> QED BY <4>1, <4>3
    <3>5. Hears(h, m) = Sources[m] BY <2>1, <3>3, <3>4, HearsAll
    <3>6. Earned(h, m) BY <3>3, <3>5, AllInputs DEF Earned
    <3> QED BY <2>1, <3>6
  <2>4. ItemsOf(run[r].data, n) # {} /\ AtMostOne(ItemsOf(run[r].data, n))
    BY <2>1, <2>3
  <2>5. \E e : ItemsOf(run[r].data, n) = {e} BY <2>4 DEF AtMostOne
  <2> QED BY <2>5, FS_Singleton
<1>4. CInv => UnconditionalRunOnce BY <1>3
<1> HIDE DEF CInv
<1> QED BY <1>0, <1>2, <1>4, FreshAlways, PTL DEF Spec

\* What a run that was served executed: the steps of a course, each once, and every
\* node that earned its run by what the others handed on.
ServedInFull ==
    \A r \in Requests : Served(run[r]) =>
        LET h == History(run[r].data, Nodes) IN
        /\ Course(h) /\ Complete(h)
        /\ \A n \in Nodes : AtMostOne(ItemsOf(run[r].data, n))

\* The queue, the waiting nodes and the order in which parallel routes are taken make no
\* difference to what a finished run has executed: it can be told from the canvas and
\* the outputs its decisions took, as the nodes that have earned their run, no other and
\* none of them twice.
THEOREM ServedInFullHolds ==
    ASSUME NothingResumed, NoBlocks, NoLoops, NoParallelEdges, Exclusive(Nodes)
    PROVE  Spec => []ServedInFull
<1>1. SourceClosed(Nodes) /\ Nodes \in SUBSET Nodes BY SourceNodes DEF SourceClosed
<1> DEFINE CInv == CourseInv(Nodes)
<1>2. Init => CInv BY CourseInit
<1>3. TypeInv /\ FreshInv /\ CInv /\ [Next]_vars => CInv' BY <1>1, CourseStep
<1>4. CInv => ServedInFull
  BY ServedCourse DEF CourseInv, ServedInFull, Complete
<1> HIDE DEF CInv
<1> QED BY <1>2, <1>3, <1>4, FreshAlways, PTL DEF Spec

----------------------------------------------------------------------------
(***************************************************************************)
(* Joins that do not starve                                                *)
(***************************************************************************)
\* The edges that are followed if those of D are and the nodes of S run.
Followed(D, S) ==
    D \cup {i \in DOMAIN Edges : Edges[i].source \in S /\ ~ IsDecision(Edges[i].source)}

Along(F, n) == {Edges[i].source : i \in InEdges[n] \cap F}

\* The nodes that run whatever else happens, once the edges of D are followed.
After(D) ==
    {n \in Nodes :
        \A S \in SUBSET Nodes :
            (\A m \in Nodes : HasRequiredInputs(m, Along(Followed(D, S), m)) => m \in S)
            => n \in S}

\* A join is provided for by the nodes of S: those it expects are among them and no
\* decisions, and so is every decision that its other inputs hang on, of which every
\* output that leads anywhere leads to one of them.
Provided(c, S) ==
    /\ \A s \in ExpectedInputs[c] : s \in S /\ ~ IsDecision(s)
    /\ \A d \in {ConditionParent[s] : s \in Sources[c]} \ {NoNode} :
          /\ d \in S
          /\ \A k \in Handles[d] :
                \E i \in InEdges[c] \cap Followed(Delivered(d, k), After(Delivered(d, k))) :
                    ConditionParent[Edges[i].source] = d

\* The nodes that run as long as every decision takes an output that leads somewhere.
Sure ==
    {n \in Nodes :
        \A S \in SUBSET Nodes : (\A c \in Nodes : Provided(c, S) => c \in S) => n \in S}

\* One input is all that a node needs: it has one, or all of them hang on the same
\* decision.
OneInput(c) ==
    \A s, t \in Sources[c] :
        s = t \/ (ConditionParent[s] = ConditionParent[t] /\ ConditionParent[s] # NoNode)

WellJoined == \A c \in Nodes : OneInput(c) \/ Provided(c, Sure)

\* A decision above n took an output that leads nowhere.
Excused(h, n) ==
    \E s \in h : s[1] \in Above(n) /\ IsDecision(s[1]) /\ s[2] \notin Handles[s[1]]

LEMMA ConditionOf ==
    ASSUME NEW n \in Nodes, ConditionParent[n] # NoNode
    PROVE  ConditionParent[n] \in Above(n) /\ IsDecision(ConditionParent[n])
<1> DEFINE up   == Ancestor(n)
           hits == {k \in DOMAIN up : up[k] # NoNode /\ IsDecision(up[k])}
<1>1. DOMAIN up = 0 .. Cardinality(Nodes) BY AncestorWalk
<1>2. hits # {} /\ ConditionParent[n] = up[Earliest(hits)] BY DEF ConditionParent
<1>3. hits \subseteq Nat BY <1>1
<1>4. Earliest(hits) \in hits
  <2>1. \E k \in hits : \A j \in hits : k <= j BY <1>2, <1>3, LeastNatural
  <2> HIDE DEF hits
  <2> QED BY <2>1 DEF Earliest
<1>5. up[Earliest(hits)] # NoNode /\ IsDecision(up[Earliest(hits)]) BY <1>4
<1>6. Earliest(hits) \in 0 .. Cardinality(Nodes) BY <1>1, <1>4
<1> HIDE DEF hits
<1> QED BY <1>2, <1>5, <1>6, AncestorAbove

LEMMA FollowedCarried ==
    ASSUME NEW h, Course(h), NEW D, D \subseteq Carried(h), NEW S, S \subseteq RanIn(h)
    PROVE  Followed(D, S) \subseteq Carried(h)
<1> SUFFICES ASSUME NEW i \in DOMAIN Edges, Edges[i].source \in S,
                    ~ IsDecision(Edges[i].source)
             PROVE  i \in Carried(h)
  BY DEF Followed
<1>1. PICK t \in h : t[1] = Edges[i].source BY DEF RanIn
<1>2. Edges[i].source \in Nodes /\ i \in OutEdges[Edges[i].source]
  BY EdgeType DEF OutEdges
<1>3. Delivered(t[1], t[2]) = OutEdges[Edges[i].source]
  BY <1>1 DEF Delivered, NodesToIgnore
<1> QED BY <1>2, <1>3 DEF Carried

\* Once the edges of D were followed, the nodes after them have run.
LEMMA AfterRan ==
    ASSUME NEW h, Course(h), Complete(h), NEW D, D \subseteq Carried(h)
    PROVE  After(D) \subseteq RanIn(h)
<1>1. RanIn(h) \in SUBSET Nodes BY StepType DEF Course, RanIn
<1>2. Followed(D, RanIn(h)) \subseteq Carried(h) BY FollowedCarried
<1>3. ASSUME NEW m \in Nodes, HasRequiredInputs(m, Along(Followed(D, RanIn(h)), m))
      PROVE  m \in RanIn(h)
  <2>1. Along(Followed(D, RanIn(h)), m) \subseteq Hears(h, m)
    BY <1>2 DEF Along, Hears
  <2>2. HasRequiredInputs(m, Hears(h, m)) BY <1>3, <2>1, RequiredGrows
  <2> QED BY <2>2 DEF Complete, Earned
<1> QED BY <1>1, <1>3 DEF After

\* A node that is provided for by nodes that ran or are excused ran, or is excused.
LEMMA ProvidedRan ==
    ASSUME NEW h, Course(h), Complete(h), NEW c \in Nodes,
           Provided(c, RanIn(h) \cup {n \in Nodes : Excused(h, n)})
    PROVE  c \in RanIn(h) \/ Excused(h, c)
<1> SUFFICES ASSUME ~ Excused(h, c) PROVE c \in RanIn(h) OBVIOUS
<1>1. ASSUME NEW n \in Nodes, Excused(h, n), Above(n) \subseteq Above(c) PROVE FALSE
  BY <1>1 DEF Excused
<1>2. ASSUME NEW s \in ExpectedInputs[c] PROVE s \in Hears(h, c)
  <2>1. s \in Sources[c] BY DEF ExpectedInputs
  <2>2. s \in RanIn(h) /\ ~ IsDecision(s)
    BY <1>1, <2>1, AboveInputs DEF Provided
  <2>3. PICK i \in InEdges[c] : Edges[i].source = s BY <2>1 DEF Sources
  <2>4. i \in Followed({}, {s}) BY <2>2, <2>3 DEF Followed, InEdges
  <2>5. i \in Carried(h) BY <2>2, <2>4, FollowedCarried
  <2> QED BY <2>3, <2>5 DEF Hears
<1>3. ASSUME NEW group \in ConditionalGroups[c] PROVE group \cap Hears(h, c) # {}
  <2>1. PICK d \in {ConditionParent[s] : s \in Sources[c]} \ {NoNode} :
            group = {s \in Sources[c] : ConditionParent[s] = d}
    BY DEF ConditionalGroups
  <2>2. PICK s \in Sources[c] : ConditionParent[s] = d /\ d # NoNode BY <2>1
  <2>3. s \in Nodes /\ Above(s) \subseteq Above(c) BY AboveInputs
  <2>4. d \in Above(c) /\ IsDecision(d) BY <2>2, <2>3, ConditionOf
  <2>5. d \in Nodes /\ Above(d) \subseteq Above(c)
    <3>1. d \in Nodes
      <4>1. Layer(Nodes) \subseteq Nodes BY SourceNodes DEF Layer
      <4> QED BY <2>4, <4>1, AboveWithin
    <3> QED BY <2>4, <3>1, AboveClosed, AboveWithin
  <2>6. d \in RanIn(h) BY <1>1, <2>1, <2>5 DEF Provided
  <2>7. PICK t \in h : t[1] = d BY <2>6 DEF RanIn
  <2>8. t[2] \in Handles[d] BY <2>4, <2>7 DEF Excused
  <2>9. Delivered(d, t[2]) \subseteq Carried(h) BY <2>7 DEF Carried
  <2>10. PICK i \in InEdges[c]
                  \cap Followed(Delivered(d, t[2]), After(Delivered(d, t[2]))) :
             ConditionParent[Edges[i].source] = d
    BY <2>1, <2>8 DEF Provided
  <2>11. i \in Carried(h) BY <2>9, <2>10, AfterRan, FollowedCarried
  <2>12. Edges[i].source \in Hears(h, c) BY <2>10, <2>11 DEF Hears
  <2>13. Edges[i].source \in group BY <2>1, <2>10 DEF Sources
  <2> QED BY <2>12, <2>13
<1>4. HasRequiredInputs(c, Hears(h, c)) BY <1>2, <1>3 DEF HasRequiredInputs
<1> QED BY <1>4 DEF Complete, Earned

LEMMA SureRan ==
    ASSUME NEW h, Course(h), Complete(h)
    PROVE  Sure \subseteq RanIn(h) \cup {n \in Nodes : Excused(h, n)}
<1> DEFINE T == RanIn(h) \cup {n \in Nodes : Excused(h, n)}
<1>1. T \in SUBSET Nodes BY StepType DEF Course, RanIn
<1>2. ASSUME NEW c \in Nodes, Provided(c, T) PROVE c \in T BY <1>2, ProvidedRan
<1> HIDE DEF T
<1>3. Sure \subseteq T BY <1>1, <1>2 DEF Sure
<1> QED BY <1>3 DEF T

\* A join that needs one input runs when it hears one.
LEMMA OneInputServed ==
    ASSUME NEW h, Course(h), NEW c \in Nodes, OneInput(c), Hears(h, c) # {}
    PROVE  HasRequiredInputs(c, Hears(h, c))
<1>1. PICK s \in Sources[c] : s \in Hears(h, c) BY HearsType DEF Course
<1>2. ASSUME NEW t \in ExpectedInputs[c] PROVE t \in Hears(h, c)
  <2>1. t \in Sources[c] /\ ConditionParent[t] = NoNode BY DEF ExpectedInputs
  <2>2. t = s BY <2>1 DEF OneInput
  <2> QED BY <1>1, <2>2
<1>3. ASSUME NEW group \in ConditionalGroups[c] PROVE group \cap Hears(h, c) # {}
  <2>1. PICK d \in {ConditionParent[t] : t \in Sources[c]} \ {NoNode} :
            group = {t \in Sources[c] : ConditionParent[t] = d}
    BY DEF ConditionalGroups
  <2>2. PICK t \in Sources[c] : ConditionParent[t] = d BY <2>1
  <2>3. ConditionParent[s] = d BY <2>2 DEF OneInput
  <2> QED BY <1>1, <2>1, <2>3
<1> QED BY <1>2, <1>3 DEF HasRequiredInputs

\* On a flow whose joins are drawn so that they can be served, a join starves only if
\* a decision above it took an output that leads nowhere: never because of the order in
\* which parallel routes were taken, of an input counted twice or forgotten, or of a
\* group of inputs the engine computed wrongly.
THEOREM JoinsServedHolds ==
    ASSUME NothingResumed, NoBlocks, NoLoops, NoParallelEdges, Exclusive(Nodes),
           WellJoined
    PROVE  Spec => []JoinsServed
<1>1. SourceClosed(Nodes) /\ Nodes \in SUBSET Nodes BY SourceNodes DEF SourceClosed
<1> DEFINE CInv == CourseInv(Nodes)
<1>2. Init => CInv BY CourseInit
<1>3. TypeInv /\ FreshInv /\ CInv /\ [Next]_vars => CInv' BY <1>1, CourseStep
<1>4. CInv => JoinsServed
  <2> SUFFICES ASSUME NEW r \in Requests, CourseRun(run[r], Nodes), Served(run[r]),
                      NEW c \in Nodes, run[r].waiting[c] # {}
               PROVE  \E e \in run[r].data.items :
                         /\ e.val.node \in Above(c) /\ IsDecision(e.val.node)
                         /\ e.val.branch \notin Handles[e.val.node]
    BY DEF JoinsServed, CourseInv, Served, At
  <2> DEFINE h == History(run[r].data, Nodes)
  <2>1. /\ Course(h) /\ Complete(h) /\ c \notin RanIn(h)
        /\ run[r].waiting[c] = Hears(h, c)
    BY ServedCourse DEF Complete
  <2> HIDE DEF h
  <2>2. ~ HasRequiredInputs(c, Hears(h, c)) BY <2>1 DEF Complete, Earned
  <2>3. Provided(c, Sure) BY <2>1, <2>2, OneInputServed DEF WellJoined
  <2>4. Provided(c, RanIn(h) \cup {n \in Nodes : Excused(h, n)})
    BY <2>1, <2>3, SureRan DEF Provided
  <2>5. Excused(h, c) BY <2>1, <2>4, ProvidedRan
  <2>6. PICK s \in h : s[1] \in Above(c) /\ IsDecision(s[1]) /\ s[2] \notin Handles[s[1]]
    BY <2>5 DEF Excused
  <2>7. PICK e \in run[r].data.items : s = <<e.val.node, e.val.branch>>
    BY DEF h, History
  <2>8. s[1] = e.val.node /\ s[2] = e.val.branch BY <2>7
  <2> QED BY <2>6, <2>8
<1>5. CInv => JoinsServed BY <1>4
<1> HIDE DEF CInv
<1> QED BY <1>2, <1>3, <1>5, FreshAlways, PTL DEF Spec
==============================================================================
