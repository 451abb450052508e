------------------------------ MODULE Agentflow ------------------------------
(***************************************************************************)
(* The agentflow engine: executeAgentFlow, run by any number of requests   *)
(* on one flow and one session, against the execution records they share.  *)
(*                                                                         *)
(* A request either starts the flow from its Start node or answers a       *)
(* human: it resumes the latest execution of the session.  A request is a  *)
(* chain of awaits on one event loop, so an action is what happens between *)
(* two awaits that other requests can notice: reading the latest record,   *)
(* taking a node off the queue, a node settling, an item of an iteration   *)
(* settling.  Every update of a record is two of them: updateExecution     *)
(* finds the row, and saves all of it later with what it has to change.    *)
(***************************************************************************)
EXTENDS FlowGraph, Log

CONSTANTS
    Requests,       \* the calls of executeAgentFlow
    MaxActive,      \* how many of them may be in flight together
    MaxRecords,     \* bound: execution records of the session
    MaxIterations,  \* the engine's own limit (MAX_ITERATIONS)
    MaxItems,       \* bound: length of the array an iteration node gets
    Asked,          \* the startNodeIds callers send, NoNode for none
    MayFail,        \* the nodes whose implementation may throw
    MaxAborts,      \* bound: "stop" pressed by the user
    MaxDeletes,     \* bound: records deleted by the user
    MaxCrashes      \* bound: the server process dies

ASSUME BoundsAssumption ==
    /\ IsFiniteSet(Requests)
    /\ MaxActive \in Nat /\ MaxRecords \in Nat /\ MaxIterations \in Nat
    /\ MaxItems \in Nat /\ MayFail \subseteq Nodes
    /\ Asked \subseteq Nodes \cup {NoNode}
    /\ MaxAborts \in Nat /\ MaxDeletes \in Nat /\ MaxCrashes \in Nat

VARIABLES
    records,    \* the execution table, by order of creation
    created,    \* how many rows were ever inserted
    run,        \* the local state of each request
    budget      \* what is left of the three bounds above

vars == <<records, created, run, budget>>

RecordIds == 1 .. MaxRecords

NoRecord == 0

ExecutionState == {"INPROGRESS", "FINISHED", "STOPPED", "ERROR", "TERMINATED"}

\* One element of agentFlowExecutedData; branch is the fulfilled condition.
Entry == [node : Nodes,
          status : {"FINISHED", "STOPPED", "ERROR", "TERMINATED"},
          branch : Nat \cup {NoBranch}]

Record == [state : ExecutionState \cup {"ABSENT"}, data : Logs(Entry)]

\* An element of nodeExecutionQueue; inputs are the nodes it was fed by.
Task == [node : Nodes, inputs : SUBSET Nodes]

Phases == {"idle", "claiming", "loop", "exec", "iterate", "item", "stopping",
           "saving", "done", "rejected", "overrun", "crashed"}

Run == [pc : Phases,
        rec : RecordIds \cup {NoRecord},        \* newExecution.id
        data : Logs(Entry),                     \* agentFlowExecutedData
        dropped : BOOLEAN,                      \* shouldUpdateExecution
        human : Nodes \cup {NoNode},            \* humanInput.startNodeId
        answer : {0, 1},                        \* proceed or reject
        queue : Logs(Task),                     \* nodeExecutionQueue
        waiting : [Nodes -> SUBSET Nodes],      \* waitingNodes' receivedInputs
        loops : [Nodes -> Nat],                 \* loopCounts
        current : Nodes \cup {NoNode},          \* the node being executed
        left : Nat,                             \* iteration items still to run
        iterations : Nat,
        row : Record,                           \* the merged row, to be saved
        then : {"claiming", "loop", "iterate", "done"},     \* after the save
        aborted : BOOLEAN]                      \* abortController.signal

Absent == [state |-> "ABSENT", data |-> EmptyLog]

Fresh == [pc |-> "idle", rec |-> NoRecord, data |-> EmptyLog, dropped |-> FALSE,
          human |-> NoNode, answer |-> 0, queue |-> EmptyLog,
          waiting |-> [n \in Nodes |-> {}], loops |-> [n \in Nodes |-> 0],
          current |-> NoNode, left |-> 0, iterations |-> 0, row |-> Absent,
          then |-> "done", aborted |-> FALSE]

TypeOK ==
    /\ records \in [RecordIds -> Record]
    /\ created \in 0 .. MaxRecords
    /\ run \in [Requests -> Run]
    /\ budget \in [aborts : Nat, deletes : Nat, crashes : Nat]

Init ==
    /\ records = [e \in RecordIds |-> Absent]
    /\ created = 0
    /\ run = [r \in Requests |-> Fresh]
    /\ budget = [aborts |-> MaxAborts, deletes |-> MaxDeletes,
                 crashes |-> MaxCrashes]

InFlight == {"claiming", "loop", "exec", "iterate", "item", "stopping", "saving"}

Active == {r \in Requests : run[r].pc \in InFlight}

Exists(e) == e # NoRecord /\ records[e].state # "ABSENT"

\* previousExecutions[0]: the latest by creation date.
IsLatest(e) ==
    /\ Exists(e)
    /\ \A f \in RecordIds : Exists(f) => f <= e

StartTask(n) == Push(EmptyLog, [node |-> n, inputs |-> {}])

----------------------------------------------------------------------------
(***************************************************************************)
(* Starting and resuming                                                   *)
(***************************************************************************)
\* addExecution
InsertRecord ==
    /\ created < MaxRecords
    /\ created' = created + 1
    /\ records' = [records EXCEPT ![created + 1] =
                       [state |-> "INPROGRESS", data |-> EmptyLog]]

\* A request without human input inserts a record and queues the Start node.
StartFlow(r) ==
    /\ run[r].pc = "idle" /\ Cardinality(Active) < MaxActive
    /\ InsertRecord
    /\ run' = [run EXCEPT ![r] =
                   [Fresh EXCEPT !.pc = "loop", !.rec = created + 1,
                                 !.queue = StartTask(Start)]]
    /\ UNCHANGED budget

\* Mutants: a record is resumed whatever its state; the error item stays.
ResumableInAnyState(record, data, dropped) ==
    record.state # "INPROGRESS" /\ data = record.data /\ ~dropped

ResumableWithError(record, data, dropped) ==
    record.state \in {"STOPPED", "ERROR"} /\ data = record.data /\ ~dropped

\* The data a resume starts from, and whether its last item was dropped.
Resumable(record, data, dropped) ==
    \/ /\ record.state = "STOPPED"
       /\ data = record.data /\ ~dropped
    \/ /\ record.state = "ERROR" /\ dropped
       /\ \E last \in record.data.items, second \in record.data.items :
             /\ IsLast(record.data, last) /\ last.val.status = "ERROR"
             /\ data = Without(record.data, {last})
             /\ IsLast(data, second) /\ second.val.status = "STOPPED"

\* humanInput.startNodeId, or the node of the last STOPPED item.
ResumesAt(data, asked, n) ==
    IF asked # NoNode
    THEN n = asked
    ELSE \E x \in data.items :
            /\ x.val.status = "STOPPED" /\ x.val.node = n
            /\ \A y \in data.items : y.val.status = "STOPPED" => y.at <= x.at

\* Every data a resume of this record could start from: at most one.
Candidates(record) ==
    LET kept == <<record.data, FALSE>>
        cut  == {<<Without(record.data, {x}), TRUE>> : x \in record.data.items}
    IN  {c \in {kept} \cup cut : Resumable(record, c[1], c[2])}

CanResume(e, asked, n, d, b) ==
    /\ IsLatest(e)
    /\ <<d, b>> \in Candidates(records[e])
    /\ ResumesAt(d, asked, n)
    /\ \E x \in d.items : x.val.node = n

(* A request with human input reads the latest record and checks it, all   *)
(* without an await: what it found is what it will act on.                 *)
(* checkForMultipleStartNodes takes a node inside an iteration block off   *)
(* the starting nodes again.                                               *)
LoadPrevious(r, asked, answer) ==
    /\ run[r].pc = "idle" /\ Cardinality(Active) < MaxActive
    /\ \E e \in RecordIds, n \in Nodes : \E c \in Candidates(records[e]) :
          /\ CanResume(e, asked, n, c[1], c[2])
          /\ run' = [run EXCEPT ![r] =
                [Fresh EXCEPT
                    !.pc = "claiming", !.rec = e, !.data = c[1],
                    !.dropped = c[2], !.human = n, !.answer = answer,
                    !.queue = IF Inside[n] = NoNode THEN StartTask(n)
                              ELSE EmptyLog]]
    /\ UNCHANGED <<records, created, budget>>

\* The same request when the latest record cannot be resumed: it throws.
RejectResume(r, asked) ==
    /\ run[r].pc = "idle" /\ Cardinality(Active) < MaxActive
    /\ ~ \E e \in RecordIds, n \in Nodes : \E c \in Candidates(records[e]) :
            CanResume(e, asked, n, c[1], c[2])
    /\ run' = [run EXCEPT ![r].pc = "rejected"]
    /\ UNCHANGED <<records, created, budget>>

(***************************************************************************)
(* updateExecution                                                         *)
(***************************************************************************)
\* The row is found and merged with the columns that are given; the request x
\* goes on to save it, or, if there is none, to where the error takes it.
FoundRow(r, x, row, then, missing) ==
    /\ run' = [run EXCEPT ![r] = IF Exists(run[r].rec)
                                 THEN [x EXCEPT !.pc = "saving", !.row = row, !.then = then]
                                 ELSE [x EXCEPT !.pc = missing]]
    /\ UNCHANGED <<records, created, budget>>

\* The whole row is written, also over what others wrote since it was found, and
\* inserted again if it has been deleted.
SaveRow(r) ==
    /\ run[r].pc = "saving"
    /\ records' = [records EXCEPT ![run[r].rec] = run[r].row]
    /\ run' = [run EXCEPT ![r].pc = run[r].then, ![r].row = Absent]
    /\ UNCHANGED <<created, budget>>

\* An item that was dropped is written first; then the state alone, once more.
Claim(r) ==
    LET kept == IF run[r].dropped THEN run[r].data ELSE records[run[r].rec].data IN
    /\ run[r].pc = "claiming"
    /\ FoundRow(r, [run[r] EXCEPT !.dropped = FALSE],
                [state |-> "INPROGRESS", data |-> kept],
                IF run[r].dropped THEN "claiming" ELSE "loop", "rejected")

\* Mutant: the state is written, the data is not.
WriteStateOnly(r, data, state) ==
    FoundRow(r, [run[r] EXCEPT !.data = data],
             [state |-> state, data |-> records[run[r].rec].data], "done", "rejected")

\* What a run writes at its end; if the row is gone the request only throws.
WriteOutcome(r, data, state) ==
    FoundRow(r, [run[r] EXCEPT !.data = data], [state |-> state, data |-> data],
             "done", "rejected")

----------------------------------------------------------------------------
(***************************************************************************)
(* The main loop                                                           *)
(***************************************************************************)
\* Mutant: the item keeps the status the node had while it ran.
FailAtInProgress(r, node, status) ==
    WriteOutcome(r,
        Push(run[r].data, [node |-> node, status |-> "INPROGRESS", branch |-> NoBranch]),
        status)

\* The body's catch: the item is pushed, written, and the error rethrown.
FailAt(r, node, status) ==
    WriteOutcome(r,
        Push(run[r].data, [node |-> node, status |-> status, branch |-> NoBranch]),
        status)

\* Mutant: the count is taken after the test of the next round.
WithinLimitOfNext(r) == run[r].iterations <= MaxIterations + 1

WithinLimit(r) == run[r].iterations <= MaxIterations

\* Mutant: the signal is only looked at before the first node.
AbortSeenAtFirst(r) == run[r].aborted /\ run[r].iterations = 0

AbortSeen(r) == run[r].aborted

\* The limit is tested outside the try: nothing is written.
OverrunIterations(r) ==
    /\ run[r].pc = "loop" /\ run[r].queue.items # {}
    /\ ~WithinLimit(r)
    /\ run' = [run EXCEPT ![r].pc = "overrun"]
    /\ UNCHANGED <<records, created, budget>>

\* The head of the queue is taken off and, unless the run is aborted, executed.
BeginNode(r) ==
    /\ run[r].pc = "loop" /\ WithinLimit(r) /\ ~AbortSeen(r)
    /\ \E task \in run[r].queue.items :
          /\ IsFirst(run[r].queue, task)
          /\ run' = [run EXCEPT
                ![r].pc = "exec",
                ![r].current = task.val.node,
                ![r].queue = Without(@, {task}),
                ![r].iterations = @ + 1]
    /\ UNCHANGED <<records, created, budget>>

TerminateAtHead(r) ==
    /\ run[r].pc = "loop" /\ WithinLimit(r) /\ AbortSeen(r)
    /\ \E task \in run[r].queue.items :
          /\ IsFirst(run[r].queue, task)
          /\ FailAt(r, task.val.node, "TERMINATED")

\* A node that throws: on its own account, or because it saw the abort, which
\* ends as TERMINATED if the message it throws says so.
FailNode(r) ==
    /\ run[r].pc = "exec"
    /\ \/ run[r].current \in MayFail /\ FailAt(r, run[r].current, "ERROR")
       \/ /\ run[r].aborted
          /\ \E status \in {"TERMINATED", "ERROR"} :
                FailAt(r, run[r].current, status)

\* The node is the one the human answered: its items leave the data.  Mutant: an
\* agent does not notice that it is the one.
AnsweredByHumanNode(r) ==
    run[r].human = run[r].current /\ Kind[run[r].current] = "human"

Answered(r) == run[r].human = run[r].current

\* Mutant: the filter is inverted.
DataOfNode(r) ==
    IF Answered(r)
    THEN Without(run[r].data,
                 {x \in run[r].data.items : x.val.node # run[r].current})
    ELSE run[r].data

DataBefore(r) ==
    IF Answered(r)
    THEN Without(run[r].data,
                 {x \in run[r].data.items : x.val.node = run[r].current})
    ELSE run[r].data

\* A human input node without an answer, or an agent that asks for approval.
StopForHuman(r) ==
    LET n == run[r].current IN
    /\ run[r].pc = "exec"
    /\ Kind[n] = "agent" \/ (Kind[n] = "human" /\ run[r].human = NoNode)
    /\ run' = [run EXCEPT
          ![r].pc = "stopping",
          ![r].data = Push(DataBefore(r), [node |-> n, status |-> "STOPPED",
                                           branch |-> NoBranch]),
          ![r].human = IF Answered(r) THEN NoNode ELSE @]
    /\ UNCHANGED <<records, created, budget>>

AllBranches == {NoBranch} \cup UNION {Branches[n] : n \in Nodes}

\* The route a node's result takes.
TakesBranch(r, branch) ==
    LET n == run[r].current IN
    CASE Kind[n] = "decision" -> branch \in Branches[n]
      [] Kind[n] = "human"    -> IF Answered(r) THEN branch = run[r].answer
                                 ELSE branch = NoBranch
      [] OTHER                -> branch = NoBranch

\* Mutant: the parents by the graph, not those that were heard from.
ReceivedFromParents(i, n, out, waiting) == Sources[Edges[i].target]

\* What target c has received when edge i hands it the result of n: all it
\* waited with, unless an earlier edge of n already made it run.
ReceivedAlong(i, n, out, waiting) ==
    LET c      == Edges[i].target
        before == {j \in out : j < i /\ Edges[j].target = c}
        got    == waiting[c] \cup {n}
    IN  IF before # {} /\ HasRequiredInputs(c, got) THEN {n} ELSE got

(***************************************************************************)
(* processNodeOutputs: every child is fed the result, in canvas order; a   *)
(* child that has all it needs stops waiting and joins the queue.          *)
(***************************************************************************)
FeedChildren(queue, waiting, n, branch) ==
    LET out     == Delivered(n, branch)
        Got(i)  == ReceivedAlong(i, n, out, waiting)
        ready   == {i \in out : HasRequiredInputs(Edges[i].target, Got(i))}
        last(c) == {i \in out : /\ Edges[i].target = c
                                /\ \A j \in out : Edges[j].target = c => j <= i}
    IN  [queue |->
            [next |-> queue.next + Len(Edges),
             items |-> queue.items \cup
                {[at |-> queue.next + i - 1,
                  val |-> [node |-> Edges[i].target, inputs |-> Got(i)]] :
                    i \in ready}],
         waiting |->
            [c \in Nodes |->
                IF c \notin {Edges[i].target : i \in out} THEN waiting[c]
                ELSE UNION {Got(i) : i \in last(c) \ ready}]]

\* Mutant: the count is compared with <=.
LoopsBackOnceMore(r) ==
    LET n == run[r].current IN
    /\ Kind[n] = "loop" /\ LoopTo[n] # NoNode
    /\ run[r].loops[n] + 1 <= MaxLoop[n]

\* A loop node goes back to its target until its count reaches the limit.
LoopsBack(r) ==
    LET n == run[r].current IN
    /\ Kind[n] = "loop" /\ LoopTo[n] # NoNode
    /\ run[r].loops[n] + 1 < MaxLoop[n]

\* The current node returned: its item is pushed and its children are fed.
FinishNode(r, branch) ==
    LET n    == run[r].current
        fed  == FeedChildren(run[r].queue, run[r].waiting, n, branch)
        data == IF run[r].pc = "exec" THEN DataBefore(r) ELSE run[r].data
    IN
    /\ \/ run[r].pc = "exec" /\ (Kind[n] # "iteration" \/ Children(n) = {})
       \/ run[r].pc = "iterate" /\ run[r].left = 0
    /\ ~ (Kind[n] = "human" /\ run[r].human = NoNode)
    /\ TakesBranch(r, branch)
    /\ run' = [run EXCEPT ![r] =
          [run[r] EXCEPT
              !.pc = "loop",
              !.current = NoNode,
              !.data = Push(data, [node |-> n, status |-> "FINISHED",
                                   branch |-> branch]),
              !.waiting = fed.waiting,
              !.queue = IF LoopsBack(r)
                        THEN Push(fed.queue, [node |-> LoopTo[n], inputs |-> {}])
                        ELSE fed.queue,
              !.loops = IF LoopsBack(r)
                        THEN [run[r].loops EXCEPT ![n] = run[r].loops[n] + 1]
                        ELSE run[r].loops,
              !.human = IF LoopsBack(r) \/ Answered(r) THEN NoNode
                        ELSE run[r].human]]
    /\ UNCHANGED <<records, created, budget>>

----------------------------------------------------------------------------
(***************************************************************************)
(* Iteration: the block inside the node is run once per item by a nested   *)
(* executeAgentFlow.  Of a nested run only what it hands back is kept: it  *)
(* throws, or it returns its items, of which the last may be STOPPED.      *)
(***************************************************************************)
BeginIteration(r) ==
    LET n == run[r].current IN
    /\ run[r].pc = "exec" /\ Kind[n] = "iteration" /\ Children(n) # {}
    /\ \E k \in 0 .. MaxItems :
          run' = [run EXCEPT ![r].pc = "iterate", ![r].left = k,
                             ![r].data = DataBefore(r)]
    /\ UNCHANGED <<records, created, budget>>

(* The nested run looks up the record of its parent and, if that is gone,  *)
(* inserts one of its own, which it will never update; a nested run that   *)
(* starts aborted then throws before its first node.                       *)
BeginItem(r) ==
    /\ run[r].pc = "iterate" /\ run[r].left > 0
    /\ IF Exists(run[r].rec)
       THEN UNCHANGED <<records, created>>
       ELSE InsertRecord
    /\ run' = [run EXCEPT ![r].pc = IF run[r].aborted THEN "iterate" ELSE "item",
                          ![r].left = IF run[r].aborted THEN @ - 1 ELSE @]
    /\ UNCHANGED budget

\* The nested run returned: its items join the data, which is saved at once; an
\* error of that save is swallowed.
ItemReturns(r) ==
    LET e == run[r].rec IN
    /\ run[r].pc = "item"
    /\ \E c \in Children(run[r].current) :
          \E status \in {"FINISHED"} \cup
                (IF Kind[c] \in {"agent", "human"} THEN {"STOPPED"} ELSE {}) :
          LET data == Push(run[r].data, [node |-> c, status |-> status,
                                         branch |-> NoBranch])
          IN  FoundRow(r, [run[r] EXCEPT !.data = data, !.left = @ - 1],
                       [state |-> records[e].state, data |-> data], "iterate", "iterate")

\* Mutant: an item that failed is run again.
ItemRetried(r) ==
    /\ run[r].pc = "item"
    /\ run[r].aborted \/ Children(run[r].current) \cap MayFail # {}
    /\ run' = [run EXCEPT ![r].pc = "iterate"]
    /\ UNCHANGED <<records, created, budget>>

\* The nested run threw, the abort included: the error becomes a result text.
ItemThrows(r) ==
    /\ run[r].pc = "item"
    /\ run[r].aborted \/ Children(run[r].current) \cap MayFail # {}
    /\ run' = [run EXCEPT ![r].pc = "iterate", ![r].left = @ - 1]
    /\ UNCHANGED <<records, created, budget>>

----------------------------------------------------------------------------
(***************************************************************************)
(* The end of a run                                                        *)
(***************************************************************************)
Statuses(data) == {x.val.status : x \in data.items}

\* Mutants: the state is that of the last item; a run without a stop or a failure
\* keeps the status its loop had.
StateOfLast(data) ==
    IF \E x \in data.items : IsLast(data, x) /\ x.val.status # "FINISHED"
    THEN (CHOOSE x \in data.items : IsLast(data, x)).val.status
    ELSE "FINISHED"

StateOfLoop(data) ==
    IF "STOPPED" \in Statuses(data) THEN "STOPPED" ELSE "INPROGRESS"

FinalState(data) ==
    CASE "TERMINATED" \in Statuses(data) -> "TERMINATED"
      [] "ERROR" \in Statuses(data) /\ "TERMINATED" \notin Statuses(data) -> "ERROR"
      [] "STOPPED" \in Statuses(data)
         /\ Statuses(data) \cap {"TERMINATED", "ERROR"} = {} -> "STOPPED"
      [] OTHER -> "FINISHED"

\* Mutant: the run waits for the joins that starve.
ConcludeWhenServed(r) ==
    /\ \/ run[r].pc = "stopping"
       \/ /\ run[r].pc = "loop" /\ run[r].queue.items = {}
          /\ \A n \in Nodes : run[r].waiting[n] = {}
    /\ WriteOutcome(r, run[r].data, FinalState(run[r].data))

\* The loop is left, by a stop or with nothing queued: the state is recomputed.
Conclude(r) ==
    /\ \/ run[r].pc = "stopping"
       \/ run[r].pc = "loop" /\ run[r].queue.items = {}
    /\ WriteOutcome(r, run[r].data, FinalState(run[r].data))

----------------------------------------------------------------------------
(***************************************************************************)
(* What the user and the machine do                                        *)
(***************************************************************************)
Abort(r) ==
    /\ budget.aborts > 0
    /\ run[r].pc \in InFlight /\ ~run[r].aborted
    /\ run' = [run EXCEPT ![r].aborted = TRUE]
    /\ budget' = [budget EXCEPT !.aborts = @ - 1]
    /\ UNCHANGED <<records, created>>

DeleteExecution(e) ==
    /\ budget.deletes > 0 /\ Exists(e)
    /\ records' = [records EXCEPT ![e] = Absent]
    /\ budget' = [budget EXCEPT !.deletes = @ - 1]
    /\ UNCHANGED <<created, run>>

\* The process dies with every request in it; the table survives.
Crash ==
    /\ budget.crashes > 0 /\ Active # {}
    /\ run' = [r \in Requests |->
                  IF r \in Active THEN [run[r] EXCEPT !.pc = "crashed"]
                  ELSE run[r]]
    /\ budget' = [budget EXCEPT !.crashes = @ - 1]
    /\ UNCHANGED <<records, created>>

----------------------------------------------------------------------------
\* A request in flight, moved on by the event loop.
Advance(r) ==
    \/ Claim(r) \/ SaveRow(r)
    \/ OverrunIterations(r)
    \/ BeginNode(r)
    \/ TerminateAtHead(r)
    \/ FailNode(r)
    \/ StopForHuman(r)
    \/ \E branch \in AllBranches : FinishNode(r, branch)
    \/ BeginIteration(r)
    \/ BeginItem(r)
    \/ ItemReturns(r)
    \/ ItemThrows(r)
    \/ Conclude(r)

Arrive(r) ==
    \/ StartFlow(r)
    \/ \E asked \in Asked :
          \/ \E answer \in {0, 1} : LoadPrevious(r, asked, answer)
          \/ RejectResume(r, asked)

Next ==
    \/ \E r \in Requests : Arrive(r) \/ Advance(r) \/ Abort(r)
    \/ \E e \in RecordIds : DeleteExecution(e)
    \/ Crash

Spec == Init /\ [][Next]_vars

(* Every await of a request settles: the database answers, a node returns  *)
(* or throws.  Nothing obliges a user to send, stop or delete anything.    *)
FairSpec == Spec /\ \A r \in Requests : WF_vars(Advance(r))

----------------------------------------------------------------------------
(***************************************************************************)
(* Safety                                                                  *)
(***************************************************************************)
Finished(data) == {x.val.node : x \in {y \in data.items : y.val.status = "FINISHED"}}

Failures == {"ERROR", "TERMINATED"}

\* Runs with work to do but the writing of their outcome.
GoingOn == {r \in Active : run[r].pc = "saving" => run[r].then # "done"}

\* A failure is the last thing that happens to an execution: in no record and
\* no row that is about to be saved is an ERROR or TERMINATED item followed by
\* another one, and a run that goes on carries none.  The state recomputed when the main loop ends can
\* therefore never be ERROR or TERMINATED.
FailureIsLast ==
    /\ \A e \in RecordIds : \A x \in records[e].data.items :
          x.val.status \in Failures => IsLast(records[e].data, x)
    /\ \A r \in Requests : \A x \in run[r].row.data.items :
          x.val.status \in Failures => IsLast(run[r].row.data, x)
    /\ \A r \in GoingOn : Statuses(run[r].data) \cap Failures = {}

\* What a record says it is, its items bear out: a FINISHED execution holds no
\* stopped or failed item, a STOPPED one has the item a human must answer, and
\* a failed one ends in the failure.
RecordMatchesData ==
    \A e \in RecordIds :
        LET rec == records[e] IN
        /\ rec.state = "FINISHED" => Statuses(rec.data) \subseteq {"FINISHED"}
        /\ rec.state = "STOPPED" =>
              /\ "STOPPED" \in Statuses(rec.data)
              /\ Statuses(rec.data) \cap Failures = {}
        /\ rec.state \in Failures =>
              \E x \in rec.data.items :
                  IsLast(rec.data, x) /\ x.val.status = rec.state

\* A human who answers without naming a node is never turned away by the latest
\* execution while it is STOPPED: it has an item to resume from.
StoppedIsResumable ==
    \A e \in RecordIds :
        IsLatest(e) /\ records[e].state = "STOPPED" =>
            \E n \in Nodes : CanResume(e, NoNode, n, records[e].data, FALSE)

\* A node is only ever fed by nodes that finished in this execution: whatever
\* a resume filters out of the data, nothing queued or waiting rests on it.
FedByFinished ==
    \A r \in Active :
        /\ \A t \in run[r].queue.items :
              t.val.inputs \subseteq Finished(run[r].data)
        /\ \A c \in Nodes : run[r].waiting[c] \subseteq Finished(run[r].data)

\* What a decision fed, it fed along an output it took: a queued node that has
\* a decision among its inputs hangs on a branch that decision once fulfilled
\* (determineNodesToIgnore: "Find nodes to ignore based on unfulfilled
\* conditions").
OnlyFulfilledBranches ==
    \A r \in Active : \A t \in run[r].queue.items : \A d \in t.val.inputs :
        IsDecision(d) =>
            \E x \in run[r].data.items, i \in OutEdges[d] :
                /\ Edges[i].target = t.val.node
                /\ x.val.node = d
                /\ x.val.branch \in {Edges[i].handle, NoBranch}

\* Every node above n, by any path; the reference for the engine's walk, which
\* only ever follows the first incoming edge.
Above(n) ==
    LET up[k \in 0 .. Cardinality(Nodes)] ==
            IF k = 0 THEN {n} ELSE up[k - 1] \cup UNION {Sources[m] : m \in up[k - 1]}
    IN  up[Cardinality(Nodes)]

Unconditional == {n \in Nodes : \A m \in Above(n) \ {n} : ~IsDecision(m)}

\* A join waits for all of its unconditional inputs: a node queued because it
\* was fed has heard from every parent that no decision can leave out.
JoinComplete ==
    \A r \in Active : \A t \in run[r].queue.items :
        t.val.inputs # {} =>
            {p \in Sources[t.val.node] : p \in Unconditional /\ ~IsDecision(p)}
                \subseteq t.val.inputs

\* A join that starves is silently dropped, so it had better starve for a reason:
\* when a run finishes, a node is left waiting only if some decision above it took
\* an output that leads nowhere.
JoinsServed ==
    \A r \in Requests : \A c \in Nodes :
        /\ run[r].pc = "done" /\ FinalState(run[r].data) = "FINISHED"
        /\ run[r].waiting[c] # {}
        => \E x \in run[r].data.items :
              /\ x.val.node \in Above(c) /\ IsDecision(x.val.node)
              /\ x.val.branch \notin Handles[x.val.node]

\* On a flow without loops, a run that finishes ran every node that no decision
\* can leave out, and ran it once.
UnconditionalRunOnce ==
    \A r \in Requests :
        run[r].pc = "done" /\ FinalState(run[r].data) = "FINISHED" =>
            \A n \in Unconditional :
                Cardinality({x \in run[r].data.items : x.val.node = n}) = 1

\* A loop node runs at most "Max Loop Count" times in an execution: after that
\* it shows its fallback message (Loop.ts: "Message to display if the loop
\* count is exceeded") and lets the flow end.
LoopRunsBounded ==
    \A r \in Requests : \A n \in Nodes :
        Kind[n] = "loop" =>
            Cardinality({x \in run[r].data.items : x.val.node = n
                             /\ x.val.status = "FINISHED"}) <= MaxLoop[n]

\* Nothing pretends to run: an execution that is INPROGRESS belongs to a request
\* that is in flight, or that left the engine without writing (the process died,
\* or the iteration limit was hit outside the try).  The states a run ends with,
\* resumed and concurrent ones included, leave none behind.
InProgressOwned ==
    \A e \in RecordIds :
        records[e].state = "INPROGRESS" =>
            \E r \in Requests :
                /\ run[r].rec = e
                /\ run[r].pc \in InFlight \cup {"overrun", "crashed"}

\* The engine's own limit stops any flow, whatever its loops: a run takes at most
\* MaxIterations + 1 nodes off its queue (flows in which nothing can be resumed;
\* the nodes inside an iteration block are on queues of their own).
WorkBounded ==
    \A r \in Requests :
        Cardinality({x \in run[r].data.items : Inside[x.val.node] = NoNode})
            <= MaxIterations + 1

\* A resumed run that ends without a failure has given the human's answer to
\* the node that asked for it ("find the last checkpoint and resume").
AnswerConsumed ==
    \A r \in Requests :
        run[r].pc = "done" /\ Statuses(run[r].data) \cap Failures = {} =>
            run[r].human = NoNode

\* A human task stops its own route only: when a run ends STOPPED nothing that
\* other routes had queued is left behind ("Stop going through the current
\* route if the node is a human task").
StopsOnlyCurrentRoute ==
    \A r \in Requests :
        run[r].pc = "done" /\ FinalState(run[r].data) = "STOPPED" =>
            run[r].queue.items = {}

----------------------------------------------------------------------------
(***************************************************************************)
(* Action properties                                                       *)
(***************************************************************************)
\* Only an execution that is STOPPED, or ERROR after STOPPED, is resumed: an
\* existing record goes back to INPROGRESS from no other state (the engine's
\* own refusal says so).
ResumesOnlyStopped ==
    [][\A e \in RecordIds :
        Exists(e) /\ records[e].state # "INPROGRESS"
                 /\ records'[e].state = "INPROGRESS"
            => records[e].state \in {"STOPPED", "ERROR"}]_vars

\* Work is not lost: a finished item of a record stays in it for as long as the
\* record exists, unless its node was run again by a resume.
FinishedWorkKept ==
    [][\A e \in RecordIds :
        records'[e].state # "ABSENT" =>
            \A x \in records[e].data.items :
                x.val.status = "FINISHED" =>
                    \/ x \in records'[e].data.items
                    \/ \E y \in records'[e].data.items :
                          y.val.node = x.val.node /\ y.at > x.at]_vars

----------------------------------------------------------------------------
(***************************************************************************)
(* Liveness, under FairSpec                                                *)
(***************************************************************************)
\* Every request that was taken in comes to an end: loops run out, joins that
\* starve do not hold the run up, and a human task stops it.
RunsEnd == \A r \in Requests : [](run[r].pc \in InFlight => <>(run[r].pc \notin InFlight))

\* An abort is heard: a run that still has a node to start when it is aborted
\* ends TERMINATED and starts none of them.
AbortHeard ==
    \A r \in Requests :
        (run[r].pc = "loop" /\ run[r].aborted /\ run[r].queue.items # {})
            ~> ("TERMINATED" \in Statuses(run[r].data))
----------------------------------------------------------------------------
\* With requests that do not overlap, the states of the records and the rows on
\* their way to the table live as ExecutionLifecycle says, whatever the flow.
Saving(e) == {r \in Requests : run[r].pc = "saving" /\ run[r].rec = e}

Lifecycle == INSTANCE ExecutionLifecycle
                WITH state <- [e \in RecordIds |-> records[e].state],
                     due <- [e \in RecordIds |->
                                IF Saving(e) = {} THEN "nothing"
                                ELSE run[CHOOSE r \in Saving(e) : TRUE].row.state]

ImplementsLifecycle == Lifecycle!Spec
==============================================================================
