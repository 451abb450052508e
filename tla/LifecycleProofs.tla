--------------------------- MODULE LifecycleProofs ---------------------------
(***************************************************************************)
(* That the engine implements ExecutionLifecycle for requests that do not  *)
(* overlap, and that such requests lose no finished work: what TLAPS       *)
(* proves of the execution table, step by step of the engine.              *)
(***************************************************************************)
EXTENDS AgentflowSafetyProofs

----------------------------------------------------------------------------
(***************************************************************************)
(* The refinement mapping                                                  *)
(***************************************************************************)
MapState == [e \in RecordIds |-> records[e].state]

MapDue == [e \in RecordIds |->
              IF Saving(e) = {} THEN "nothing"
              ELSE run[CHOOSE r \in Saving(e) : TRUE].row.state]

\* The steps of the lifecycle, as changes of what is mapped to its variables.
LEMMA MapCreate ==
    ASSUME NEW e \in RecordIds, MapState[e] = "ABSENT", MapDue[e] = "nothing",
           \A f \in RecordIds : f > e => MapState[f] = "ABSENT",
           MapState' = [MapState EXCEPT ![e] = "INPROGRESS"], MapDue' = MapDue
    PROVE  Lifecycle!Next
<1>1. Lifecycle!Create(e)
  BY DEF Lifecycle!Create, Lifecycle!Idle, Lifecycle!Nothing, Lifecycle!NoneAfter,
     Lifecycle!Ids, MapState, MapDue, RecordIds
<1> QED BY <1>1 DEF Lifecycle!Next, Lifecycle!Ids, RecordIds

LEMMA MapResume ==
    ASSUME NEW e \in RecordIds, MapState[e] \in {"STOPPED", "ERROR"},
           MapDue[e] = "nothing",
           \A f \in RecordIds : f > e => MapState[f] = "ABSENT",
           MapDue' = [MapDue EXCEPT ![e] = "INPROGRESS"], MapState' = MapState
    PROVE  Lifecycle!Next
<1>1. Lifecycle!Resume(e)
  BY DEF Lifecycle!Resume, Lifecycle!Idle, Lifecycle!Nothing, Lifecycle!NoneAfter,
     Lifecycle!Ids, MapState, MapDue, RecordIds
<1> QED BY <1>1 DEF Lifecycle!Next, Lifecycle!Ids, RecordIds

LEMMA MapProceed ==
    ASSUME NEW e \in RecordIds, MapState[e] = "INPROGRESS", MapDue[e] = "nothing",
           NEW s \in ExecutionState,
           MapDue' = [MapDue EXCEPT ![e] = s], MapState' = MapState
    PROVE  Lifecycle!Next
<1>1. Lifecycle!Proceed(e)
  BY DEF Lifecycle!Proceed, Lifecycle!Idle, Lifecycle!Nothing, Lifecycle!Ended,
     Lifecycle!Ids, MapState, MapDue, RecordIds, ExecutionState
<1> QED BY <1>1 DEF Lifecycle!Next, Lifecycle!Ids, RecordIds

LEMMA MapWrite ==
    ASSUME NEW e \in RecordIds, MapDue[e] # "nothing",
           MapState' = [MapState EXCEPT ![e] = MapDue[e]],
           MapDue' = [MapDue EXCEPT ![e] = "nothing"]
    PROVE  Lifecycle!Next
<1>1. Lifecycle!Write(e)
  BY DEF Lifecycle!Write, Lifecycle!Idle, Lifecycle!Nothing, MapState, MapDue
<1> QED BY <1>1 DEF Lifecycle!Next, Lifecycle!Ids, RecordIds

LEMMA MapLose ==
    ASSUME NEW e \in RecordIds, MapDue[e] # "nothing", MapState' = MapState,
           MapDue' = [MapDue EXCEPT ![e] = "nothing"]
    PROVE  Lifecycle!Next
<1>1. Lifecycle!Lose(e)
  BY DEF Lifecycle!Lose, Lifecycle!Idle, Lifecycle!Nothing, MapState, MapDue
<1> QED BY <1>1 DEF Lifecycle!Next, Lifecycle!Ids, RecordIds

LEMMA MapDelete ==
    ASSUME NEW e \in RecordIds, MapState[e] # "ABSENT",
           MapState' = [MapState EXCEPT ![e] = "ABSENT"], MapDue' = MapDue
    PROVE  Lifecycle!Next
<1>1. Lifecycle!Delete(e) BY DEF Lifecycle!Delete, MapState, MapDue
<1> QED BY <1>1 DEF Lifecycle!Next, Lifecycle!Ids, RecordIds

LEMMA MapStutter ==
    ASSUME MapState' = MapState, MapDue' = MapDue PROVE UNCHANGED Lifecycle!vars
BY DEF Lifecycle!vars, MapState, MapDue

----------------------------------------------------------------------------
(***************************************************************************)
(* What is due                                                             *)
(***************************************************************************)
\* At most r is saving, to record e.
DueOf(runs, e) ==
    LET S == {r \in Requests : runs[r].pc = "saving" /\ runs[r].rec = e}
    IN  IF S = {} THEN "nothing" ELSE runs[CHOOSE r \in S : TRUE].row.state

LEMMA DueWhenSaving ==
    ASSUME NEW runs, NEW r \in Requests, runs[r].pc = "saving",
           \A s \in Requests : s # r => runs[s].pc # "saving", NEW e
    PROVE  DueOf(runs, e) =
              IF runs[r].rec = e THEN runs[r].row.state ELSE "nothing"
<1> DEFINE S == {s \in Requests : runs[s].pc = "saving" /\ runs[s].rec = e}
<1>1. S = IF runs[r].rec = e THEN {r} ELSE {} OBVIOUS
<1>2. (CHOOSE s \in {r} : TRUE) = r OBVIOUS
<1>3. DueOf(runs, e) = IF S = {} THEN "nothing"
                       ELSE runs[CHOOSE s \in S : TRUE].row.state
  BY DEF DueOf
<1> HIDE DEF S
<1> QED BY <1>1, <1>2, <1>3

LEMMA DueWhenNot ==
    ASSUME NEW runs, \A s \in Requests : runs[s].pc # "saving", NEW e
    PROVE  DueOf(runs, e) = "nothing"
BY DEF DueOf

LEMMA DueHere ==
    /\ MapDue = [e \in RecordIds |-> DueOf(run, e)]
    /\ MapDue' = [e \in RecordIds |-> DueOf(run', e)]
BY DEF MapDue, DueOf, Saving

\* The only request in flight is r, before the step and after it.
Alone(r) ==
    \A s \in Requests : s # r => run[s].pc # "saving" /\ run'[s] = run[s]

LEMMA DueSame ==
    ASSUME NEW r \in Requests, Alone(r),
           \/ run[r].pc # "saving" /\ run'[r].pc # "saving"
           \/ /\ run[r].pc = "saving" /\ run'[r].pc = "saving"
              /\ run'[r].rec = run[r].rec /\ run'[r].row = run[r].row
    PROVE  MapDue' = MapDue
<1>1. CASE run[r].pc # "saving" /\ run'[r].pc # "saving"
  <2>1. /\ \A s \in Requests : run[s].pc # "saving"
        /\ \A s \in Requests : run'[s].pc # "saving"
    BY <1>1 DEF Alone
  <2> QED BY <2>1, DueHere, DueWhenNot
<1>2. CASE /\ run[r].pc = "saving" /\ run'[r].pc = "saving"
           /\ run'[r].rec = run[r].rec /\ run'[r].row = run[r].row
  <2>1. \A e \in RecordIds : DueOf(run', e) = DueOf(run, e)
    BY <1>2, DueWhenSaving DEF Alone
  <2> QED BY <2>1, DueHere
<1> QED BY <1>1, <1>2

LEMMA DueBegins ==
    ASSUME NEW r \in Requests, Alone(r), run[r].pc # "saving", run'[r].pc = "saving"
    PROVE  /\ \A e \in RecordIds : MapDue[e] = "nothing"
           /\ MapDue' = [MapDue EXCEPT ![run'[r].rec] = run'[r].row.state]
<1>1. \A e \in RecordIds : DueOf(run, e) = "nothing" BY DueWhenNot DEF Alone
<1>2. \A e \in RecordIds :
         DueOf(run', e) = IF run'[r].rec = e THEN run'[r].row.state ELSE "nothing"
  BY DueWhenSaving DEF Alone
<1> QED BY <1>1, <1>2, DueHere

LEMMA DueEnds ==
    ASSUME TypeInv, NEW r \in Requests, run[r].rec \in RecordIds,
           \A s \in Requests : s # r => run[s].pc # "saving",
           \A s \in Requests : run'[s].pc # "saving", run[r].pc = "saving"
    PROVE  /\ MapDue[run[r].rec] = run[r].row.state /\ run[r].row.state # "nothing"
           /\ MapDue' = [MapDue EXCEPT ![run[r].rec] = "nothing"]
<1>1. \A e \in RecordIds :
         DueOf(run, e) = IF run[r].rec = e THEN run[r].row.state ELSE "nothing"
  BY DueWhenSaving
<1>2. \A e \in RecordIds : DueOf(run', e) = "nothing" BY DueWhenNot
<1>3. run[r].row.state # "nothing"
  BY RunTypes DEF Run, Record, ExecutionState
<1> QED BY <1>1, <1>2, <1>3, DueHere


----------------------------------------------------------------------------
(***************************************************************************)
(* Every step of the engine is one of the lifecycle, or none               *)
(***************************************************************************)
LEMMA RequestAlone ==
    ASSUME OneAtATime, TypeInv, LifeInv, NEW r \in Requests,
           Arrive(r) \/ Advance(r) \/ Abort(r)
    PROVE  Alone(r) /\ \A s \in Requests : s # r => run'[s].pc # "saving"
BY OnlyOne DEF Alone, InFlight

Refines == Lifecycle!Next \/ UNCHANGED Lifecycle!vars

\* A row is inserted under the next number, which no one has used yet.
LEMMA InsertRefines ==
    ASSUME TypeInv, CreatedInv, NEW r \in Requests, Alone(r), InsertRecord,
           run[r].pc # "saving", run'[r].pc # "saving"
    PROVE  Lifecycle!Next
<1>1. created + 1 \in RecordIds /\ created \in Nat
  BY InsertRecordType, BoundsAssumption DEF TypeInv, TypeOK, BoundsAssumption
<1>2. \A f \in RecordIds : f > created => records[f].state = "ABSENT"
  BY DEF CreatedInv, Absent
<1>3. /\ MapState[created + 1] = "ABSENT"
      /\ \A f \in RecordIds : f > created + 1 => MapState[f] = "ABSENT"
  BY <1>1, <1>2 DEF MapState, RecordIds
<1>4. MapState' = [MapState EXCEPT ![created + 1] = "INPROGRESS"]
  BY <1>1 DEF InsertRecord, MapState, TypeInv, TypeOK
<1>5. MapDue[created + 1] = "nothing"
  <2>1. \A e \in RecordIds : DueOf(run, e) = "nothing" BY DueWhenNot DEF Alone
  <2> QED BY <1>1, <2>1, DueHere
<1>6. MapDue' = MapDue BY DueSame
<1> QED BY <1>1, <1>3, <1>4, <1>5, <1>6, MapCreate

\* A step of a request that neither begins nor ends a save, nor inserts.
LEMMA QuietRefines ==
    ASSUME NEW r \in Requests, Alone(r), UNCHANGED records,
           run[r].pc # "saving", run'[r].pc # "saving"
    PROVE  Refines
<1>1. MapState' = MapState BY DEF MapState
<1>2. MapDue' = MapDue BY DueSame
<1> QED BY <1>1, <1>2, MapStutter DEF Refines

\* A save begins while the record is INPROGRESS.
LEMMA SaveBeginsRefines ==
    ASSUME TypeInv, NEW r \in Requests, Alone(r), UNCHANGED records,
           run[r].pc # "saving", run'[r].pc = "saving", run'[r].rec \in RecordIds,
           records[run'[r].rec].state = "INPROGRESS",
           run'[r].row.state \in ExecutionState
    PROVE  Refines
<1>1. MapState' = MapState BY DEF MapState
<1>2. MapState[run'[r].rec] = "INPROGRESS" BY DEF MapState
<1> DEFINE s == run'[r].row.state
<1>3. s \in ExecutionState OBVIOUS
<1>4. /\ MapDue[run'[r].rec] = "nothing"
      /\ MapDue' = [MapDue EXCEPT ![run'[r].rec] = s]
  BY DueBegins
<1> HIDE DEF s
<1> QED BY <1>1, <1>2, <1>3, <1>4, MapProceed DEF Refines

LEMMA AdvanceRefines ==
    ASSUME OneAtATime, TypeInv, CreatedInv, LifeInv, NEW r \in Requests, Advance(r)
    PROVE  Refines
<1> DEFINE x == run[r]
           y == run'[r]
<1>0. /\ Alone(r) /\ \A s \in Requests : s # r => run'[s].pc # "saving"
      /\ \A s \in Requests : s # r => run[s].pc # "saving"
  BY RequestAlone DEF Alone
<1>1. x.pc \in InFlight
  BY DEF Advance, Claim, SaveRow, OverrunIterations, BeginNode, TerminateAtHead,
     FailNode, StopForHuman, FinishNode, BeginIteration, BeginItem, ItemReturns,
     ItemThrows, Conclude, InFlight
<1>2. LifeRun(r) BY <1>1 DEF LifeInv, Active
<1>3. x.rec \in RecordIds BY <1>2 DEF LifeRun
<1>4. Exists(x.rec) /\ x.pc \notin {"claiming", "saving"}
         => records[x.rec].state = "INPROGRESS"
  BY <1>2 DEF LifeRun, Exists
<1>5. y.rec = x.rec
  <2>1. ~ Arrive(r)
    BY <1>1 DEF Arrive, StartFlow, LoadPrevious, RejectResume, InFlight
  <2> QED BY <2>1, RecStays DEF Next
<1>6. CASE Claim(r)
  <2>1. UNCHANGED records /\ x.pc = "claiming"
    BY <1>6 DEF Claim, FoundRow
  <2>2. CASE y.pc # "saving" BY <2>1, <2>2, <1>0, QuietRefines
  <2>3. CASE y.pc = "saving"
    <3>1. Exists(x.rec) /\ y.row.state = "INPROGRESS" BY <1>6, <2>3, ClaimFields
    <3>2. CASE records[x.rec].state = "INPROGRESS"
      BY <1>0, <1>3, <1>5, <2>1, <2>3, <3>1, <3>2, SaveBeginsRefines DEF ExecutionState
    <3>3. CASE records[x.rec].state \in {"STOPPED", "ERROR"} /\ NoLater(x.rec)
      <4>1. MapState' = MapState BY <2>1 DEF MapState
      <4>2. /\ MapState[x.rec] \in {"STOPPED", "ERROR"}
            /\ \A f \in RecordIds : f > x.rec => MapState[f] = "ABSENT"
        BY <1>3, <3>3 DEF MapState, NoLater
      <4>3. /\ MapDue[x.rec] = "nothing"
            /\ MapDue' = [MapDue EXCEPT ![x.rec] = "INPROGRESS"]
        <5>1. x.pc # "saving" BY <2>1
        <5> QED BY <1>0, <1>3, <1>5, <2>3, <3>1, <5>1, DueBegins
      <4> QED BY <1>3, <4>1, <4>2, <4>3, MapResume DEF Refines
    <3> QED BY <1>2, <2>1, <3>1, <3>2, <3>3 DEF LifeRun, Exists
  <2> QED BY <2>2, <2>3
<1>7. CASE SaveRow(r)
  <2>1. x.pc = "saving" /\ y.pc = x.then BY <1>7, SaveRowRun
  <2>2. \A s \in Requests : run'[s].pc # "saving"
    BY <1>0, <2>1, RunTypes DEF Run
  <2>3. /\ MapDue[x.rec] = x.row.state /\ x.row.state # "nothing"
        /\ MapDue' = [MapDue EXCEPT ![x.rec] = "nothing"]
    BY <1>0, <1>3, <2>1, <2>2, DueEnds
  <2>4. MapState' = [MapState EXCEPT ![x.rec] = x.row.state]
    BY <1>3, <1>7 DEF SaveRow, MapState, TypeInv, TypeOK
  <2> QED BY <1>3, <2>3, <2>4, MapWrite DEF Refines
<1>8. CASE BeginItem(r)
  <2>1. x.pc # "saving" /\ y.pc # "saving" BY <1>8, BeginItemRun
  <2>2. UNCHANGED records \/ InsertRecord BY <1>8 DEF BeginItem
  <2> QED BY <1>0, <2>1, <2>2, QuietRefines, InsertRefines DEF Refines
<1>9. CASE TerminateAtHead(r) \/ FailNode(r) \/ Conclude(r)
  <2>1. UNCHANGED records
    BY <1>9 DEF TerminateAtHead, FailNode, Conclude, FailAt, WriteOutcome, FoundRow
  <2>2. x.pc \in {"loop", "exec", "stopping"}
    BY <1>9 DEF TerminateAtHead, FailNode, Conclude
  <2>3. y.pc = "saving" => Exists(x.rec) /\ y.row.state \in ExecutionState
    <3>1. CASE TerminateAtHead(r) \/ FailNode(r)
      BY <3>1, FailRun, OutcomeFields DEF Failures, ExecutionState
    <3>2. CASE Conclude(r)
      BY <3>2, ConcludeRun, OutcomeFields, FinalStateType DEF ExecutionState
    <3> QED BY <1>9, <3>1, <3>2
  <2> QED BY <1>0, <1>3, <1>4, <1>5, <2>1, <2>2, <2>3, QuietRefines, SaveBeginsRefines
<1>10. CASE ItemReturns(r)
  <2>1. UNCHANGED records BY <1>10 DEF ItemReturns, FoundRow
  <2>2. /\ x.pc = "item"
        /\ y.pc = "saving" => Exists(x.rec) /\ y.row.state = records[x.rec].state
    BY <1>10, ItemFields
  <2> QED BY <1>0, <1>3, <1>4, <1>5, <2>1, <2>2, QuietRefines, SaveBeginsRefines
          DEF ExecutionState
<1>11. CASE OverrunIterations(r) \/ BeginNode(r) \/ StopForHuman(r)
            \/ BeginIteration(r) \/ ItemThrows(r)
            \/ \E branch \in AllBranches : FinishNode(r, branch)
  <2>1. UNCHANGED records
    BY <1>11 DEF OverrunIterations, BeginNode, StopForHuman, BeginIteration,
       ItemThrows, FinishNode
  <2>2. x.pc \in {"loop", "exec", "iterate", "item"}
    BY <1>11 DEF OverrunIterations, BeginNode, StopForHuman, BeginIteration,
       ItemThrows, FinishNode
  <2>3. y.pc # "saving"
    BY <1>11, OverrunRun, BeginNodeRun, StopForHumanRun, BeginIterationRun,
       ItemThrowsRun, FinishNodeRun
  <2> QED BY <1>0, <2>1, <2>2, <2>3, QuietRefines
<1> QED BY <1>6, <1>7, <1>8, <1>9, <1>10, <1>11 DEF Advance

LEMMA ArriveRefines ==
    ASSUME OneAtATime, TypeInv, CreatedInv, LifeInv, NEW r \in Requests, Arrive(r)
    PROVE  Refines
<1>0. Alone(r) BY RequestAlone
<1>1. CASE StartFlow(r)
  <2>1. run[r].pc # "saving" /\ run'[r].pc # "saving" BY <1>1, StartFlowRun
  <2> QED BY <1>0, <1>1, <2>1, InsertRefines DEF StartFlow, Refines
<1>2. ASSUME NEW asked, NEW answer, LoadPrevious(r, asked, answer) PROVE Refines
  <2>1. run[r].pc # "saving" /\ run'[r].pc # "saving" BY <1>2, LoadPreviousRun
  <2> QED BY <1>0, <1>2, <2>1, QuietRefines DEF LoadPrevious
<1>3. ASSUME NEW asked, RejectResume(r, asked) PROVE Refines
  <2>1. run[r].pc # "saving" /\ run'[r].pc # "saving" BY <1>3, RejectResumeRun
  <2> QED BY <1>0, <1>3, <2>1, QuietRefines DEF RejectResume
<1> QED BY <1>1, <1>2, <1>3 DEF Arrive

\* A crash loses what was due, if anything was.
LEMMA CrashRefines ==
    ASSUME TypeInv, LifeInv, Crash PROVE Refines
<1>1. MapState' = MapState BY DEF Crash, MapState
<1>2. \A s \in Requests : run'[s].pc # "saving" BY CrashRun DEF InFlight
<1>3. CASE \E r \in Requests : run[r].pc = "saving"
  <2>1. PICK r \in Requests : run[r].pc = "saving" BY <1>3
  <2>2. r \in Active BY <2>1 DEF Active, InFlight
  <2>3. run[r].rec \in RecordIds BY <2>2 DEF LifeInv, LifeRun
  <2>4. \A s \in Requests : s # r => run[s].pc # "saving"
    BY <2>2 DEF LifeInv, Active, InFlight
  <2>5. /\ MapDue[run[r].rec] # "nothing"
        /\ MapDue' = [MapDue EXCEPT ![run[r].rec] = "nothing"]
    BY <1>2, <2>1, <2>3, <2>4, DueEnds
  <2> QED BY <1>1, <2>3, <2>5, MapLose DEF Refines
<1>4. CASE \A r \in Requests : run[r].pc # "saving"
  <2>1. MapDue' = MapDue BY <1>2, <1>4, DueHere, DueWhenNot
  <2> QED BY <1>1, <2>1, MapStutter DEF Refines
<1> QED BY <1>3, <1>4

LEMMA StepRefines ==
    ASSUME OneAtATime, TypeInv, CreatedInv, LifeInv, [Next]_vars PROVE Refines
<1>1. ASSUME NEW r \in Requests, Abort(r) PROVE Refines
  <2>1. /\ run'[r].pc = run[r].pc /\ run'[r].rec = run[r].rec
        /\ run'[r].row = run[r].row
    BY <1>1, AbortRun DEF SameHold, SameWork
  <2>2. MapDue' = MapDue BY <1>1, <2>1, RequestAlone, DueSame
  <2>3. MapState' = MapState BY <1>1 DEF Abort, MapState
  <2> QED BY <2>2, <2>3, MapStutter DEF Refines
<1>2. ASSUME NEW e \in RecordIds, DeleteExecution(e) PROVE Refines
  <2>1. MapState[e] # "ABSENT" BY <1>2 DEF DeleteExecution, Exists, MapState
  <2>2. MapState' = [MapState EXCEPT ![e] = "ABSENT"]
    BY <1>2 DEF DeleteExecution, MapState, Absent, TypeInv, TypeOK
  <2>3. MapDue' = MapDue BY <1>2 DEF DeleteExecution, MapDue, Saving
  <2> QED BY <2>1, <2>2, <2>3, MapDelete DEF Refines
<1>3. CASE UNCHANGED vars
  <2>1. MapState' = MapState /\ MapDue' = MapDue
    BY <1>3 DEF vars, MapState, MapDue, Saving
  <2> QED BY <2>1, MapStutter DEF Refines
<1> QED BY <1>1, <1>2, <1>3, AdvanceRefines, ArriveRefines, CrashRefines DEF Next

LEMMA InitRefines == Init => Lifecycle!Init
<1> SUFFICES ASSUME Init PROVE Lifecycle!Init OBVIOUS
<1>1. \A e \in RecordIds : records[e].state = "ABSENT" BY DEF Init, Absent
<1>2. \A r \in Requests : run[r].pc # "saving" BY DEF Init, Fresh
<1>3. \A e \in RecordIds : Saving(e) = {} BY <1>2 DEF Saving
<1> QED BY <1>1, <1>3 DEF Lifecycle!Init, Lifecycle!Ids, Lifecycle!Nothing, RecordIds

LEMMA LifeAlways == ASSUME OneAtATime PROVE Spec => [](TypeInv /\ CreatedInv /\ LifeInv)
<1>1. Spec => []TypeInv BY TypeInit, TypeStep, PTL DEF Spec
<1>2. Spec => []CreatedInv BY <1>1, CreatedInit, CreatedStep, PTL DEF Spec
<1>3. TypeInv /\ CreatedInv /\ LifeInv /\ [Next]_vars => LifeInv' BY LifeStep
<1> QED BY <1>1, <1>2, <1>3, LifeInit, PTL DEF Spec

\* The engine implements the lifecycle of an execution for requests that do not
\* overlap, on every flow: an execution is resumed only while it is the latest and
\* STOPPED or in ERROR, FINISHED and TERMINATED are final, what is saved is what was
\* decided when the row was read, and only a save undoes a deletion.
THEOREM ImplementsLifecycleHolds ==
    ASSUME OneAtATime PROVE Spec => ImplementsLifecycle
<1>1. ASSUME TypeInv, CreatedInv, LifeInv, [Next]_vars
      PROVE  [Lifecycle!Next]_(Lifecycle!vars)
  BY <1>1, StepRefines DEF Refines
<1> QED BY <1>1, InitRefines, LifeAlways, PTL DEF Spec, ImplementsLifecycle, Lifecycle!Spec


----------------------------------------------------------------------------
(***************************************************************************)
(* Whom an answer is for                                                   *)
(***************************************************************************)
AsksHuman(n) == Kind[n] \in {"human", "agent"}

\* Only nodes that ask a human stop.
StopsAsk(data) == \A x \in data.items : x.val.status = "STOPPED" => AsksHuman(x.val.node)

HumanInv ==
    /\ \A e \in RecordIds : StopsAsk(records[e].data)
    /\ \A r \in Requests :
          /\ StopsAsk(run[r].data) /\ StopsAsk(run[r].row.data)
          /\ run[r].human # NoNode => run[r].human \in Asked \/ AsksHuman(run[r].human)

LEMMA StopsAskPush ==
    ASSUME NEW log, StopsAsk(log), NEW n, NEW status, NEW branch,
           status = "STOPPED" => AsksHuman(n)
    PROVE  StopsAsk(Push(log, [node |-> n, status |-> status, branch |-> branch]))
<1> DEFINE v == [node |-> n, status |-> status, branch |-> branch]
           w == [at |-> log.next, val |-> v]
<1>1. w.val.status = status /\ w.val.node = n OBVIOUS
<1>2. Push(log, v).items = log.items \cup {w} BY PushItems
<1> HIDE DEF w
<1>3. StopsAsk(Push(log, v)) BY <1>1, <1>2 DEF StopsAsk
<1> QED BY <1>3

LEMMA StopsAskBefore ==
    ASSUME TypeInv, NEW r \in Requests, StopsAsk(run[r].data)
    PROVE  StopsAsk(DataBefore(r))
<1>1. run[r].data \in Logs(Entry) BY RunTypes
<1> QED BY <1>1 DEF StopsAsk, DataBefore, Without, Logs

\* What a resume starts from: the data of the record, or all of it but the error.
LEMMA CandidateItems ==
    ASSUME NEW record, record.data \in Logs(Entry), NEW c \in Candidates(record)
    PROVE  /\ c[1].items \subseteq record.data.items
           /\ \A x \in record.data.items : x.val.status = "FINISHED" => x \in c[1].items
<1>1. Resumable(record, c[1], c[2]) BY DEF Candidates
<1>2. CASE c[1] = record.data BY <1>2
<1>3. ASSUME NEW last \in record.data.items, last.val.status = "ERROR",
             c[1] = Without(record.data, {last})
      PROVE  /\ c[1].items \subseteq record.data.items
             /\ \A x \in record.data.items : x.val.status = "FINISHED" => x \in c[1].items
  <2>1. c[1].items = record.data.items \ {last} BY <1>3 DEF Without, Logs
  <2> QED BY <1>3, <2>1
<1> QED BY <1>1, <1>2, <1>3 DEF Resumable

LEMMA HumanRun ==
    ASSUME TypeInv, HumanInv, [Next]_vars, NEW r \in Requests
    PROVE  /\ StopsAsk(run'[r].data) /\ StopsAsk(run'[r].row.data)
           /\ run'[r].human # NoNode =>
                 run'[r].human \in Asked \/ AsksHuman(run'[r].human)
<1> DEFINE x == run[r]
           y == run'[r]
           For(n) == n # NoNode => n \in Asked \/ AsksHuman(n)
           OK == StopsAsk(y.data) /\ StopsAsk(y.row.data) /\ For(y.human)
<1>0. /\ StopsAsk(x.data) /\ StopsAsk(x.row.data) /\ For(x.human) /\ For(NoNode)
      /\ StopsAsk(EmptyLog) /\ StopsAsk(Absent.data)
  BY DEF HumanInv, StopsAsk, Absent, EmptyLog
<1>1. ASSUME y.row = x.row \/ y.row = Absent, y.data = x.data, y.human = x.human PROVE OK
  BY <1>0, <1>1
<1>2. CASE Advance(r)
  <2>1. CASE Claim(r)
    <3>1. Exists(x.rec) => StopsAsk(records[x.rec].data) BY RecId DEF HumanInv
    <3>2. y.data = x.data /\ y.human = x.human BY <2>1, ClaimRun DEF SameWork
    <3> QED BY <2>1, <1>0, <1>1, <3>1, <3>2, ClaimFields
  <2>2. CASE SaveRow(r) BY <2>2, <1>1, SaveRowRun DEF SameWork
  <2>3. CASE OverrunIterations(r) \/ BeginItem(r) \/ ItemThrows(r)
    BY <2>3, <1>1, OverrunRun, BeginItemRun, ItemThrowsRun DEF SameHold, SameWork
  <2>4. CASE BeginNode(r) BY <2>4, <1>1, BeginNodeRun
  <2>5. CASE StopForHuman(r)
    <3>1. /\ AsksHuman(x.current) /\ y.row = x.row
          /\ y.human = IF Answered(r) THEN NoNode ELSE x.human
          /\ y.data = Push(DataBefore(r), [node |-> x.current, status |-> "STOPPED",
                                           branch |-> NoBranch])
      BY <2>5, StopForHumanRun DEF AsksHuman
    <3>2. StopsAsk(y.data) BY <1>0, <3>1, StopsAskBefore, StopsAskPush
    <3> QED BY <1>0, <3>1, <3>2
  <2>6. CASE BeginIteration(r)
    BY <2>6, <1>0, BeginIterationRun, StopsAskBefore DEF SameWork
  <2>7. ASSUME NEW branch, FinishNode(r, branch) PROVE OK
    <3>1. /\ y.row = x.row
          /\ y.human = IF LoopsBack(r) \/ Answered(r) THEN NoNode ELSE x.human
          /\ y.data = Push(DataAtFinish(r), [node |-> x.current, status |-> "FINISHED",
                                             branch |-> branch])
      BY <2>7, FinishNodeRun
    <3>2. StopsAsk(DataAtFinish(r)) BY <1>0, StopsAskBefore DEF DataAtFinish
    <3>3. StopsAsk(y.data) BY <3>1, <3>2, StopsAskPush
    <3> QED BY <1>0, <3>1, <3>3
  <2>8. CASE TerminateAtHead(r) \/ FailNode(r)
    <3>1. PICK n \in Nodes, status \in Failures :
              Outcome(x, y, Push(x.data, Failed(n, status)), status, Exists(x.rec))
      BY <2>8, FailRun
    <3>2. status # "STOPPED" BY DEF Failures
    <3>3. StopsAsk(Push(x.data, Failed(n, status)))
      BY <1>0, <3>2, StopsAskPush DEF Failed
    <3> QED BY <1>0, <3>1, <3>3, OutcomeFields DEF SameWork
  <2>9. CASE Conclude(r) BY <2>9, <1>0, ConcludeRun, OutcomeFields DEF SameWork
  <2>10. CASE ItemReturns(r)
    <3>1. PICK c \in Children(x.current), status \in {"FINISHED", "STOPPED"} :
              /\ status = "STOPPED" => AsksHuman(c)
              /\ y.data = Push(x.data, [node |-> c, status |-> status,
                                        branch |-> NoBranch])
      BY <2>10, ItemReturnsRun DEF AsksHuman
    <3>2. StopsAsk(y.data) BY <1>0, <3>1, StopsAskPush
    <3> QED BY <2>10, <1>0, <3>2, ItemFields DEF SameWork
  <2> QED BY <1>2, <2>1, <2>2, <2>3, <2>4, <2>5, <2>6, <2>7, <2>8, <2>9, <2>10
          DEF Advance
<1>3. CASE Arrive(r)
  <2>1. CASE StartFlow(r) BY <2>1, <1>0, StartFlowRun
  <2>2. ASSUME NEW asked \in Asked, NEW answer, LoadPrevious(r, asked, answer) PROVE OK
    <3>1. PICK e \in RecordIds, n \in Nodes : \E c \in Candidates(records[e]) :
              /\ CanResume(e, asked, n, c[1], c[2])
              /\ y.data = c[1] /\ y.human = n /\ y.row = Absent
      BY <2>2, LoadPreviousRun
    <3>2. PICK c \in Candidates(records[e]) :
              /\ CanResume(e, asked, n, c[1], c[2])
              /\ y.data = c[1] /\ y.human = n /\ y.row = Absent
      BY <3>1
    <3>3. records[e].data \in Logs(Entry) /\ StopsAsk(records[e].data)
      BY DEF HumanInv, TypeInv, TypeOK, Record
    <3>4. c[1].items \subseteq records[e].data.items
      BY <3>3, CandidateItems
    <3>5. StopsAsk(c[1]) BY <3>3, <3>4 DEF StopsAsk
    <3>6. For(n) BY <3>2, <3>5 DEF CanResume, ResumesAt, StopsAsk
    <3> QED BY <1>0, <3>2, <3>5, <3>6
  <2>3. ASSUME NEW asked, RejectResume(r, asked) PROVE OK
    BY <2>3, <1>1, RejectResumeRun DEF SameHold, SameWork
  <2> QED BY <1>3, <2>1, <2>2, <2>3 DEF Arrive
<1>4. CASE Abort(r) BY <1>1, <1>4, AbortRun DEF SameHold, SameWork
<1>5. ASSUME NEW s \in Requests, s # r, Arrive(s) \/ Advance(s) \/ Abort(s)
      PROVE  y = x
  BY <1>5, OthersStay
<1>6. CASE Crash BY <1>1, <1>6, CrashRun DEF SameHold, SameWork
<1>7. CASE UNCHANGED run BY <1>1, <1>7
<1> QED BY <1>1, <1>2, <1>3, <1>4, <1>5, <1>6, <1>7 DEF Next, vars, DeleteExecution

LEMMA HumanStep == ASSUME TypeInv, HumanInv, [Next]_vars PROVE HumanInv'
<1>1. StopsAsk(Absent.data) /\ StopsAsk(NewRecord.data)
  BY DEF StopsAsk, Absent, NewRecord, EmptyLog
<1>2. \A e \in RecordIds : StopsAsk(records'[e].data) BY <1>1, RecordStep DEF HumanInv
<1> QED BY <1>2, HumanRun DEF HumanInv

LEMMA HumanInit == Init => HumanInv
<1> SUFFICES ASSUME Init PROVE HumanInv OBVIOUS
<1>1. \A e \in RecordIds : records[e] = Absent BY DEF Init
<1>2. \A r \in Requests :
         run[r].row = Absent /\ run[r].data = EmptyLog /\ run[r].human = NoNode
  BY DEF Init, Fresh
<1> QED BY <1>1, <1>2 DEF HumanInv, StopsAsk, Absent, EmptyLog


----------------------------------------------------------------------------
(***************************************************************************)
(* Finished work is kept                                                   *)
(***************************************************************************)
\* What finished in old is in new, or a later item of its node is.
Kept(old, new) ==
    \A x \in old.items : x.val.status = "FINISHED" =>
        \/ x \in new.items
        \/ \E y \in new.items : y.val.node = x.val.node /\ y.at > x.at

LEMMA KeptSame == ASSUME NEW log PROVE Kept(log, log)
BY DEF Kept

LEMMA KeptOfNone == ASSUME NEW log PROVE Kept(EmptyLog, log)
BY DEF Kept, EmptyLog

LEMMA KeptTwice ==
    ASSUME NEW a \in Logs(Entry), NEW b \in Logs(Entry), NEW c \in Logs(Entry),
           Kept(a, b), \A x \in b.items : x \in c.items \/
               \E y \in c.items : y.val.node = x.val.node /\ y.at > x.at
    PROVE  Kept(a, c)
<1> SUFFICES ASSUME NEW x \in a.items, x.val.status = "FINISHED"
             PROVE  \/ x \in c.items
                    \/ \E y \in c.items : y.val.node = x.val.node /\ y.at > x.at
  BY DEF Kept
<1>1. CASE x \in b.items BY <1>1
<1>2. ASSUME NEW y \in b.items, y.val.node = x.val.node, y.at > x.at
      PROVE  \E z \in c.items : z.val.node = x.val.node /\ z.at > x.at
  <2>1. CASE y \in c.items BY <1>2, <2>1
  <2>2. ASSUME NEW z \in c.items, z.val.node = y.val.node, z.at > y.at
        PROVE  z.at > x.at
    <3>1. x.at \in Nat /\ y.at \in Nat /\ z.at \in Nat BY DEF Logs, Items
    <3> QED BY <3>1, <1>2, <2>2
  <2> QED BY <1>2, <2>1, <2>2
<1> QED BY <1>1, <1>2 DEF Kept

\* Pushing keeps, also when the items of the node that is pushed are taken out first.
LEMMA KeptPush ==
    ASSUME NEW a \in Logs(Entry), NEW log \in Logs(Entry), IsLog(log), Kept(a, log),
           NEW less \in Logs(Entry), less.next = log.next, NEW v \in Entry,
           less.items \subseteq log.items,
           \A x \in log.items : x \in less.items \/ x.val.node = v.node
    PROVE  Kept(a, Push(less, v))
<1> DEFINE w == [at |-> log.next, val |-> v]
           c == Push(less, v)
<1>1. w.val = v /\ w.at = log.next OBVIOUS
<1>2. c.items = less.items \cup {w} BY DEF Push
<1>3. c \in Logs(Entry) BY PushType
<1> HIDE DEF w, c
<1>4. ASSUME NEW x \in log.items
      PROVE  x \in c.items \/ \E y \in c.items : y.val.node = x.val.node /\ y.at > x.at
  <2>1. x.at < w.at BY <1>1 DEF IsLog
  <2>2. log.next \in Nat /\ x.at \in Nat BY DEF Logs, Items
  <2> QED BY <1>1, <1>2, <2>1, <2>2
<1>5. Kept(a, c) BY <1>3, <1>4, KeptTwice
<1> QED BY <1>5 DEF c

\* No caller names an iteration node as the one a human answers: what the filter takes
\* out is then the item of a node that puts a new one in its place in the same step.
AnswersReachHumans == \A n \in Asked : n # NoNode => Kind[n] # "iteration"

KeepRun(x) ==
    LET rec == records[x.rec] IN
    x.pc \in InFlight =>
        /\ Kept(rec.data, x.data)
        /\ x.pc = "saving" => Kept(rec.data, x.row.data) /\ Kept(x.row.data, x.data)

KeepInv == \A r \in Requests : KeepRun(run[r])


\* What a step that leaves the row alone, or writes the data in it, must keep.
LEMMA KeepWritten ==
    ASSUME NEW r \in Requests, run'[r].rec = run[r].rec,
           \/ records'[run[r].rec] = records[run[r].rec]
           \/ records'[run[r].rec].data = EmptyLog,
           Kept(records[run[r].rec].data, run'[r].data),
           run'[r].pc = "saving" => run'[r].row.data = run'[r].data
    PROVE  KeepRun(run[r])'
BY KeptSame, KeptOfNone DEF KeepRun

LEMMA KeepBefore ==
    ASSUME TypeInv, FailureInv, NEW r \in Requests, NEW old \in Logs(Entry),
           Kept(old, run[r].data), NEW v \in Entry, v.node = run[r].current,
           NEW less \in {DataBefore(r), run[r].data}
    PROVE  Kept(old, Push(less, v))
<1>1. run[r].data \in Logs(Entry) /\ IsLog(run[r].data)
  BY RunTypes DEF FailureInv, RunOK
<1>2. less \in Logs(Entry) BY <1>1, DataBeforeType DEF TypeInv
<1>3. /\ less.next = run[r].data.next /\ less.items \subseteq run[r].data.items
      /\ \A x \in run[r].data.items : x \in less.items \/ x.val.node = v.node
  BY <1>1 DEF DataBefore, Without, Logs
<1> QED BY <1>1, <1>2, <1>3, KeptPush

LEMMA KeepAdvance ==
    ASSUME OneAtATime, AnswersReachHumans, TypeInv, FailureInv, CreatedInv, LifeInv,
           HumanInv, KeepInv, NEW r \in Requests, Advance(r)
    PROVE  KeepRun(run[r])'
<1> DEFINE x == run[r]
           y == run'[r]
           old == records[x.rec].data
<1>1. x.pc \in InFlight
  BY DEF Advance, Claim, SaveRow, OverrunIterations, BeginNode, TerminateAtHead,
     FailNode, StopForHuman, FinishNode, BeginIteration, BeginItem, ItemReturns,
     ItemThrows, Conclude, InFlight
<1>2. x.rec \in RecordIds BY <1>1 DEF LifeInv, LifeRun, Active
<1>3. y.rec = x.rec
  <2>1. ~ Arrive(r)
    BY <1>1 DEF Arrive, StartFlow, LoadPrevious, RejectResume, InFlight
  <2> QED BY <2>1, RecStays DEF Next
<1>4. Kept(old, x.data) BY <1>1 DEF KeepInv, KeepRun
<1>5. old \in Logs(Entry) BY <1>2 DEF TypeInv, TypeOK, Record
<1>6. CASE Claim(r)
  <2>1. UNCHANGED records BY <1>6 DEF Claim, FoundRow
  <2>2. /\ y.data = x.data
        /\ y.pc = "saving" => y.row.data \in {old, x.data}
    BY <1>6, ClaimRun, ClaimFields
  <2> QED BY <1>3, <1>4, <2>1, <2>2, KeptSame DEF KeepRun
<1>7. CASE SaveRow(r)
  <2>1. x.pc = "saving" /\ y.pc = x.then /\ y.data = x.data BY <1>7, SaveRowRun
  <2>2. y.pc # "saving" BY <2>1, RunTypes DEF Run
  <2>3. records'[x.rec] = x.row BY <1>2, <1>7 DEF SaveRow, TypeInv, TypeOK
  <2>4. Kept(x.row.data, x.data) BY <1>1, <2>1 DEF KeepInv, KeepRun
  <2> QED BY <1>3, <2>1, <2>2, <2>3, <2>4 DEF KeepRun
<1>8. CASE BeginItem(r)
  <2>1. y.data = x.data /\ y.pc # "saving" BY <1>8, BeginItemRun DEF SameHold
  <2>2. records'[x.rec] = records[x.rec] \/ records'[x.rec].data = EmptyLog
    BY <1>2, <1>8 DEF BeginItem, InsertRecord, TypeInv, TypeOK
  <2> QED BY <1>3, <1>4, <2>1, <2>2, KeepWritten
<1>9. CASE TerminateAtHead(r) \/ FailNode(r)
  <2>1. UNCHANGED records
    BY <1>9 DEF TerminateAtHead, FailNode, FailAt, WriteOutcome, FoundRow
  <2>2. PICK n \in Nodes, status \in Failures :
            Outcome(x, y, Push(x.data, Failed(n, status)), status, Exists(x.rec))
    BY <1>9, FailRun
  <2>3. y.data = Push(x.data, Failed(n, status)) /\ (y.pc = "saving" => y.row.data = y.data)
    BY <2>2, OutcomeFields
  <2>4. Failed(n, status) \in Entry BY DEF Failed, Entry, Failures
  <2>5. x.data \in Logs(Entry) /\ IsLog(x.data) BY RunTypes DEF FailureInv, RunOK
  <2>6. Kept(old, y.data) BY <1>4, <1>5, <2>3, <2>4, <2>5, KeptPush
  <2> QED BY <1>3, <2>1, <2>3, <2>6, KeepWritten
<1>10. CASE Conclude(r)
  <2>1. UNCHANGED records BY <1>10 DEF Conclude, WriteOutcome, FoundRow
  <2>2. y.data = x.data /\ (y.pc = "saving" => y.row.data = y.data)
    BY <1>10, ConcludeRun, OutcomeFields
  <2> QED BY <1>3, <1>4, <2>1, <2>2, KeepWritten
<1>11. CASE ItemReturns(r)
  <2>1. UNCHANGED records BY <1>11 DEF ItemReturns, FoundRow
  <2>2. PICK c \in Children(x.current), status \in {"FINISHED", "STOPPED"} :
            y.data = Push(x.data, [node |-> c, status |-> status, branch |-> NoBranch])
    BY <1>11, ItemReturnsRun
  <2>3. y.pc = "saving" => y.row.data = y.data BY <1>11, ItemFields
  <2> DEFINE v == [node |-> c, status |-> status, branch |-> NoBranch]
  <2>4. v \in Entry BY DEF Entry, Children
  <2>5. y.data = Push(x.data, v) BY <2>2
  <2> HIDE DEF v
  <2>6. x.data \in Logs(Entry) /\ IsLog(x.data) BY RunTypes DEF FailureInv, RunOK
  <2>7. Kept(old, y.data) BY <1>4, <1>5, <2>4, <2>5, <2>6, KeptPush
  <2> QED BY <1>3, <2>1, <2>3, <2>7, KeepWritten
<1>12. CASE StopForHuman(r)
  <2>1. UNCHANGED records BY <1>12 DEF StopForHuman
  <2> DEFINE v == [node |-> x.current, status |-> "STOPPED", branch |-> NoBranch]
  <2>2. y.pc = "stopping" /\ x.pc = "exec" /\ y.data = Push(DataBefore(r), v)
    BY <1>12, StopForHumanRun
  <2>3. x.current \in Nodes BY <2>2 DEF TypeInv, Busy, BusyRun
  <2>4. v \in Entry /\ v.node = x.current BY <2>3 DEF Entry
  <2> HIDE DEF v
  <2>5. Kept(old, y.data) BY <1>4, <1>5, <2>2, <2>4, KeepBefore
  <2> QED BY <1>3, <2>1, <2>2, <2>5, KeepWritten
<1>13. ASSUME NEW branch \in AllBranches, FinishNode(r, branch) PROVE KeepRun(run[r])'
  <2>1. UNCHANGED records BY <1>13 DEF FinishNode
  <2> DEFINE v == [node |-> x.current, status |-> "FINISHED", branch |-> branch]
  <2>2. /\ y.pc = "loop" /\ x.pc \in {"exec", "iterate"}
        /\ y.data = Push(DataAtFinish(r), v)
    BY <1>13, FinishNodeRun
  <2>3. x.current \in Nodes BY <2>2 DEF TypeInv, Busy, BusyRun
  <2>4. v \in Entry /\ v.node = x.current BY <2>3, BranchType DEF Entry
  <2> HIDE DEF v
  <2>5. Kept(old, y.data) BY <1>4, <1>5, <2>2, <2>4, KeepBefore DEF DataAtFinish
  <2> QED BY <1>3, <2>1, <2>2, <2>5, KeepWritten
<1>14. CASE BeginIteration(r)
  <2>1. UNCHANGED records /\ Kind[x.current] = "iteration" /\ x.pc = "exec"
    BY <1>14 DEF BeginIteration
  <2>2. x.current \in Nodes BY <2>1 DEF TypeInv, Busy, BusyRun
  <2>3. ~ Answered(r)
    BY <2>1, <2>2, RunTypes DEF Answered, HumanInv, AsksHuman, AnswersReachHumans
  <2>4. y.data = x.data /\ y.pc = "iterate"
    BY <1>14, <2>3, BeginIterationRun DEF DataBefore
  <2> QED BY <1>3, <1>4, <2>1, <2>4, KeepWritten
<1>15. CASE OverrunIterations(r) \/ BeginNode(r) \/ ItemThrows(r)
  <2>1. UNCHANGED records
    BY <1>15 DEF OverrunIterations, BeginNode, ItemThrows
  <2>2. y.data = x.data /\ y.pc # "saving"
    BY <1>15, OverrunRun, BeginNodeRun, ItemThrowsRun DEF SameHold
  <2> QED BY <1>3, <1>4, <2>1, <2>2, KeepWritten
<1> QED BY <1>6, <1>7, <1>8, <1>9, <1>10, <1>11, <1>12, <1>13, <1>14, <1>15 DEF Advance

LEMMA KeepArrive ==
    ASSUME TypeInv, NEW r \in Requests, Arrive(r)
    PROVE  KeepRun(run[r])'
<1>1. CASE StartFlow(r)
  <2>1. run'[r].pc = "loop" /\ run'[r].rec = created + 1 /\ run'[r].data = EmptyLog
    BY <1>1, StartFlowRun
  <2>2. created + 1 \in RecordIds BY <1>1, InsertRecordType DEF StartFlow
  <2>3. records'[created + 1].data = EmptyLog
    BY <2>2, <1>1 DEF StartFlow, InsertRecord, TypeInv, TypeOK
  <2> QED BY <2>1, <2>3, KeptSame DEF KeepRun
<1>2. ASSUME NEW asked, NEW answer, LoadPrevious(r, asked, answer)
      PROVE  KeepRun(run[r])'
  <2>1. PICK e \in RecordIds, n \in Nodes : \E c \in Candidates(records[e]) :
            run'[r].pc = "claiming" /\ run'[r].rec = e /\ run'[r].data = c[1]
    BY <1>2, LoadPreviousRun
  <2>2. PICK c \in Candidates(records[e]) :
            run'[r].pc = "claiming" /\ run'[r].rec = e /\ run'[r].data = c[1]
    BY <2>1
  <2>3. records[e].data \in Logs(Entry) BY DEF TypeInv, TypeOK, Record
  <2>4. Kept(records[e].data, c[1])
    BY <2>3, CandidateItems DEF Kept
  <2>5. UNCHANGED records BY <1>2 DEF LoadPrevious
  <2> QED BY <2>2, <2>4, <2>5 DEF KeepRun
<1>3. ASSUME NEW asked, RejectResume(r, asked) PROVE KeepRun(run[r])'
  BY <1>3, RejectResumeRun DEF KeepRun, InFlight
<1> QED BY <1>1, <1>2, <1>3 DEF Arrive

LEMMA KeepStep ==
    ASSUME OneAtATime, AnswersReachHumans, TypeInv, FailureInv, CreatedInv, LifeInv,
           HumanInv, KeepInv, [Next]_vars
    PROVE  KeepInv'
<1>1. ASSUME NEW r \in Requests, Arrive(r) \/ Advance(r) \/ Abort(r) PROVE KeepInv'
  <2>1. ASSUME NEW s \in Requests, s # r PROVE KeepRun(run[s])'
    BY <1>1, <2>1, OnlyOne DEF KeepRun
  <2>2. KeepRun(run[r])'
    <3>1. CASE Abort(r)
      BY <3>1, AbortRun DEF KeepInv, KeepRun, SameHold, SameWork, Abort
    <3> QED BY <1>1, <3>1, KeepAdvance, KeepArrive
  <2> QED BY <2>1, <2>2 DEF KeepInv
<1>2. CASE Crash BY <1>2, CrashRun DEF KeepInv, KeepRun, InFlight
<1>3. ASSUME NEW e \in RecordIds, DeleteExecution(e) PROVE KeepInv'
  <2>1. run' = run BY <1>3 DEF DeleteExecution
  <2>2. ASSUME NEW r \in Active PROVE KeepRun(run[r])'
    <3>1. run[r].rec \in RecordIds BY DEF LifeInv, LifeRun
    <3>2. records'[run[r].rec] \in {records[run[r].rec], Absent}
      BY <1>3, <3>1 DEF DeleteExecution, TypeInv, TypeOK
    <3>3. KeepRun(run[r]) BY DEF KeepInv, Active
    <3> QED BY <2>1, <3>2, <3>3, KeptOfNone DEF KeepRun, Absent
  <2> QED BY <2>1, <2>2 DEF KeepInv, KeepRun, Active
<1>4. CASE UNCHANGED vars BY <1>4 DEF vars, KeepInv, KeepRun
<1> QED BY <1>1, <1>2, <1>3, <1>4 DEF Next

\* No finished item of a record is ever lost to a save, where requests do not overlap
\* and none answers an iteration node: what is written holds all that was there, or
\* the later item of the node that was run again.
THEOREM FinishedWorkKeptHolds ==
    ASSUME OneAtATime, AnswersReachHumans PROVE Spec => FinishedWorkKept
<1>1. ASSUME TypeInv, CreatedInv, LifeInv, KeepInv, [Next]_vars
      PROVE  \A e \in RecordIds : records'[e].state # "ABSENT" =>
                Kept(records[e].data, records'[e].data)
  <2> SUFFICES ASSUME NEW e \in RecordIds, records'[e].state # "ABSENT"
               PROVE  Kept(records[e].data, records'[e].data)
    OBVIOUS
  <2>1. ASSUME NEW r \in Requests, SaveRow(r), run[r].rec = e, records'[e] = run[r].row
        PROVE  Kept(records[e].data, records'[e].data)
    BY <1>1, <2>1 DEF KeepInv, KeepRun, SaveRow, InFlight
  <2>2. CASE e = created + 1
    <3>1. created \in Nat BY <1>1, CreatedGrows
    <3>2. e > created BY <2>2, <3>1
    <3>3. records[e] = Absent BY <1>1, <3>2 DEF CreatedInv
    <3> QED BY <3>3, KeptOfNone DEF Absent
  <2>3. Absent.state = "ABSENT" BY DEF Absent
  <2> QED BY <1>1, <2>1, <2>2, <2>3, KeptSame, RecordStep
<1>2. ASSUME TypeInv, CreatedInv, LifeInv, KeepInv, [Next]_vars
      PROVE  [\A e \in RecordIds :
                records'[e].state # "ABSENT" =>
                    \A x \in records[e].data.items :
                        x.val.status = "FINISHED" =>
                            \/ x \in records'[e].data.items
                            \/ \E y \in records'[e].data.items :
                                  y.val.node = x.val.node /\ y.at > x.at]_vars
  BY <1>1, <1>2 DEF Kept
<1>3. Spec => []TypeInv BY TypeInit, TypeStep, PTL DEF Spec
<1>4. Spec => []FailureInv BY <1>3, FailureInit, FailureStep, PTL DEF Spec
<1>5. Spec => []HumanInv BY <1>3, HumanInit, HumanStep, PTL DEF Spec
<1>6. Init => KeepInv
  <2> SUFFICES ASSUME Init PROVE KeepInv OBVIOUS
  <2>1. \A r \in Requests : run[r].pc = "idle" BY DEF Init, Fresh
  <2> QED BY <2>1 DEF KeepInv, KeepRun, InFlight
<1>7. TypeInv /\ FailureInv /\ CreatedInv /\ LifeInv /\ HumanInv /\ KeepInv /\ [Next]_vars
        => KeepInv'
  BY KeepStep
<1>8. Spec => []KeepInv BY <1>3, <1>4, <1>5, <1>6, <1>7, LifeAlways, PTL DEF Spec
<1> QED BY <1>2, <1>8, LifeAlways, PTL DEF Spec, FinishedWorkKept

\* Where requests do not overlap, an execution goes back to INPROGRESS only from STOPPED
\* or ERROR: between the check of a resume and its first save nobody else can end or
\* resume the record, and a run saves notes of its progress only in a record that is
\* still its own.
THEOREM ResumesOnlyStoppedHolds ==
    ASSUME OneAtATime PROVE Spec => ResumesOnlyStopped
<1>1. ASSUME TypeInv, CreatedInv, LifeInv, [Next]_vars, NEW e \in RecordIds, Exists(e),
             records[e].state # "INPROGRESS", records'[e].state = "INPROGRESS"
      PROVE  records[e].state \in {"STOPPED", "ERROR"}
  <2>1. ASSUME NEW r \in Requests, SaveRow(r), run[r].rec = e
        PROVE  records[e].state \in {"STOPPED", "ERROR"}
    <3>1. r \in Active BY <2>1 DEF SaveRow, Active, InFlight
    <3>2. LifeRun(r) BY <1>1, <3>1 DEF LifeInv
    <3> QED BY <1>1, <2>1, <3>2 DEF LifeRun, Exists
  <2>2. ASSUME e = created + 1 PROVE FALSE
    <3>1. created \in Nat BY <1>1, CreatedGrows
    <3>2. e > created BY <2>2, <3>1
    <3>3. records[e] = Absent BY <1>1, <3>2 DEF CreatedInv
    <3> QED BY <1>1, <3>3 DEF Exists, Absent
  <2>3. Absent.state # "INPROGRESS" BY DEF Absent
  <2> QED BY <1>1, <2>1, <2>2, <2>3, RecordStep
<1>2. ASSUME TypeInv, CreatedInv, LifeInv, [Next]_vars
      PROVE  [\A e \in RecordIds :
                Exists(e) /\ records[e].state # "INPROGRESS"
                         /\ records'[e].state = "INPROGRESS"
                    => records[e].state \in {"STOPPED", "ERROR"}]_vars
  BY <1>1, <1>2
<1> QED BY <1>2, LifeAlways, PTL DEF Spec, ResumesOnlyStopped
==============================================================================
