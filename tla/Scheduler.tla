------------------------------ MODULE Scheduler ------------------------------
(***************************************************************************)
(* Scheduled agentflows in a single server (no queue): the flows a user    *)
(* edits, the schedule rows derived from them, the in-process timers that  *)
(* ScheduleBeat keeps for the enabled rows, and what a timer that goes off *)
(* does (ScheduleExecutor).                                                *)
(*                                                                         *)
(* Time is a clock that goes round: Period ticks, of which Slots[c] are    *)
(* those the cron expression c names.  A date is kept as the number of     *)
(* ticks until it comes, 0 once it is past.  What only talks to the        *)
(* database is over within a tick; the execution of a flow, and the        *)
(* loading of the timers when the server starts, may last.                 *)
(***************************************************************************)
EXTENDS Integers, FiniteSets

CONSTANTS
    Targets,        \* the agentflows
    Crons,          \* the valid cron expressions
    NoCron,         \* absence of a timer; an expression that is not valid
    Period,         \* ticks of the clock
    Slots,          \* [Crons -> non-empty sets of ticks]
    Fallback,       \* FALLBACK_CRON_EXPRESSION, one of Crons
    Ends,           \* the end dates users set, in ticks, Never for none
    Calls,          \* user requests that can be in flight together
    Firings,        \* bound: timer callbacks that can be in flight together
    BatchSize,      \* SCHEDULE_BATCH_SIZE
    MaxCalls,       \* bound: user requests in all
    MaxFaults,      \* bound: deletions of a flow that break off half way
    MaxCrashes      \* bound: the server process dies

Never == -1

Unscheduled == -2   \* the "end date" of a flow without a schedule

Deleted == -3       \* and of one that is gone

ASSUME ScheduleAssumption ==
    /\ Targets # {} /\ IsFiniteSet(Calls)
    /\ NoCron \notin Crons /\ Fallback \in Crons
    /\ Period \in Nat \ {0}
    /\ Slots \in [Crons -> (SUBSET (0 .. Period - 1)) \ {{}}]
    /\ Ends \subseteq Nat \cup {Never}
    /\ BatchSize \in Nat \ {0}
    /\ MaxCalls \in Nat /\ MaxFaults \in Nat /\ MaxCrashes \in Nat

VARIABLES
    clock,
    flow,       \* the Start node of each flow: cron expression and end date
    rows,       \* the schedule table, by order of creation
    created,    \* how many rows were ever inserted
    jobs,       \* cronJobs: the expression each row's timer runs on
    ringing,    \* the rows whose timer goes off at this tick
    call,       \* the local state of each user request
    fire,       \* the local state of each timer callback
    boot,       \* _syncAllJobs
    budget

vars == <<clock, flow, rows, created, jobs, ringing, call, fire, boot, budget>>

RowIds == 1 .. MaxCalls

NoRow == 0

\* No row: in the table, or as the answer of a query.
None == [target |-> "none", enabled |-> FALSE, cron |-> NoCron, left |-> Never, due |-> 0]

Flow == [cron : Crons \cup {NoCron}, left : {Never, Unscheduled, Deleted} \cup Nat]

Row == [target : Targets, enabled : BOOLEAN, cron : Crons,
        left : {Never} \cup Nat, due : 0 .. Period] \cup {None}

IsScheduled(f) == f.left \notin {Unscheduled, Deleted}

\* canScheduleEnable: a valid expression and no end date in the past.
CanEnable(f) == IsScheduled(f) /\ f.cron # NoCron /\ f.left # 0

Exists(i) == i # NoRow /\ rows[i] # None

Enabled(i) == Exists(i) /\ rows[i].enabled

\* computeNextRunAt: ticks until the next slot, the present one excluded.
NextIn(cron) ==
    CHOOSE k \in 1 .. Period :
        /\ (clock + k) % Period \in Slots[cron]
        /\ \A m \in 1 .. k - 1 : (clock + m) % Period \notin Slots[cron]

IdleCall == [pc |-> "idle", kind |-> "save", target |-> CHOOSE t \in Targets : TRUE,
             flow |-> [cron |-> NoCron, left |-> Unscheduled],
             row |-> NoRow, copy |-> None]

IdleFire == [pc |-> "idle", row |-> NoRow, copy |-> None]

TypeOK ==
    /\ clock \in 0 .. Period - 1
    /\ flow \in [Targets -> Flow]
    /\ rows \in [RowIds -> Row]
    /\ created \in 0 .. MaxCalls
    /\ jobs \in [RowIds -> Crons \cup {NoCron}]
    /\ ringing \subseteq RowIds
    /\ call \in [Calls ->
          [pc : {"idle", "finding", "checking", "writing", "reading", "applying",
                 "dropping"},
           kind : {"save", "unschedule", "delete", "enable", "disable"},
           target : Targets, flow : Flow,
           row : RowIds \cup {NoRow}, copy : Row]]
    /\ fire \in [Firings ->
          [pc : {"idle", "loading", "loaded", "expired", "logged", "running"},
           row : RowIds \cup {NoRow}, copy : Row]]
    /\ boot \in [pc : {"query", "register", "on"}, skip : Nat,
                 batch : [RowIds -> Crons \cup {NoCron}]]
    /\ budget \in [calls : Nat, faults : Nat, crashes : Nat]

NoJobs == [i \in RowIds |-> NoCron]

Init ==
    /\ clock = 0
    /\ flow = [t \in Targets |-> [cron |-> NoCron, left |-> Unscheduled]]
    /\ rows = [i \in RowIds |-> None]
    /\ created = 0
    /\ jobs = NoJobs
    /\ ringing = {}
    /\ call = [k \in Calls |-> IdleCall]
    /\ fire = [p \in Firings |-> IdleFire]
    /\ boot = [pc |-> "on", skip |-> 0, batch |-> NoJobs]
    /\ budget = [calls |-> MaxCalls, faults |-> MaxFaults, crashes |-> MaxCrashes]

\* _upsertCronJob and _removeCronJob: the old timer is stopped first.
SetJob(i, cron) ==
    /\ jobs' = [jobs EXCEPT ![i] = cron]
    /\ ringing' = ringing \ {i}

----------------------------------------------------------------------------
(***************************************************************************)
(* What a user does: save the flow, delete it, switch its schedule         *)
(***************************************************************************)
\* A request comes in; the server listens only when the timers are loaded.
Begin(k, kind, t, f) ==
    /\ call[k].pc = "idle" /\ boot.pc = "on" /\ budget.calls > 0
    /\ call' = [call EXCEPT ![k] = [IdleCall EXCEPT !.pc = "finding", !.kind = kind,
                                       !.target = t, !.flow = f]]
    /\ budget' = [budget EXCEPT !.calls = @ - 1]
    /\ UNCHANGED <<clock, rows, created, jobs, ringing, fire, boot>>

\* updateChatflow stores the flow before it looks at the schedule.
SaveFlow(k, t) ==
    /\ flow[t].left # Deleted
    /\ \E f \in [cron : Crons \cup {NoCron}, left : Ends]
               \cup {[cron |-> NoCron, left |-> Unscheduled]} :
          /\ flow' = [flow EXCEPT ![t] = f]
          /\ Begin(k, IF IsScheduled(f) THEN "save" ELSE "unschedule", t, f)

\* deleteChatflow removes the flow first and the schedule last.
DeleteFlow(k, t) ==
    /\ flow[t].left # Deleted
    /\ \E f \in {[cron |-> NoCron, left |-> Deleted]} :
          /\ flow' = [flow EXCEPT ![t] = f]
          /\ Begin(k, "delete", t, f)

Toggle(k, t) ==
    /\ \E kind \in {"enable", "disable"} : Begin(k, kind, t, flow[t])
    /\ UNCHANGED flow

Table == <<clock, flow, created, fire, boot>>

To(k, pc) == call' = [call EXCEPT ![k].pc = pc]

Return(k) == call' = [call EXCEPT ![k] = IdleCall]

\* Something deleteChatflow does in between throws: the schedule stays.
DeleteBreaks(k) ==
    /\ call[k].pc = "finding" /\ call[k].kind = "delete" /\ budget.faults > 0
    /\ budget' = [budget EXCEPT !.faults = @ - 1]
    /\ Return(k)
    /\ UNCHANGED <<Table, rows, jobs, ringing>>

\* The row of the target, any of them if there are several: a copy is kept.
FindRow(k) ==
    LET mine == {i \in RowIds : Exists(i) /\ rows[i].target = call[k].target} IN
    /\ call[k].pc = "finding"
    /\ \/ \E i \in mine :
             call' = [call EXCEPT ![k].row = i, ![k].copy = rows[i],
                         ![k].pc = IF call[k].kind = "enable" THEN "checking"
                                   ELSE "writing"]
       \/ /\ mine = {}
          /\ IF call[k].kind = "save" THEN To(k, "writing") ELSE Return(k)
    /\ UNCHANGED <<Table, rows, jobs, ringing, budget>>

\* getScheduleStatus judges the flow, with the row's end date if it has none.
CheckStatus(k) ==
    LET f    == flow[call[k].target]
        left == IF f.left = Never THEN rows[call[k].row].left ELSE f.left
    IN
    /\ call[k].pc = "checking"
    /\ IF CanEnable([f EXCEPT !.left = left]) THEN To(k, "writing") ELSE Return(k)
    /\ UNCHANGED <<Table, rows, jobs, ringing, budget>>

(* createOrUpdateSchedule: an expression that is not valid is replaced by  *)
(* the fallback and the schedule disabled; otherwise an existing row keeps *)
(* its switch and a new one is on.                                         *)
Scheduled(copy, f, t) ==
    LET cron == IF f.cron = NoCron THEN Fallback ELSE f.cron IN
    [target |-> t, cron |-> cron, left |-> f.left, due |-> NextIn(cron),
     enabled |-> CanEnable(f) /\ (copy = None \/ copy.enabled)]

Written(c) ==
    CASE c.kind = "save"    -> Scheduled(c.copy, c.flow, c.target)
      [] c.kind = "enable"  -> [c.copy EXCEPT !.enabled = TRUE]
      [] c.kind = "disable" -> [c.copy EXCEPT !.enabled = FALSE]
      [] OTHER              -> None

(* What is saved is the whole copy, so that it undoes what others wrote    *)
(* since it was read, and inserts the row again if it is gone.             *)
WriteRow(k) ==
    LET i == IF call[k].row = NoRow THEN created + 1 ELSE call[k].row IN
    /\ call[k].pc = "writing"
    /\ rows' = [rows EXCEPT ![i] = Written(call[k])]
    /\ created' = IF call[k].row = NoRow THEN created + 1 ELSE created
    /\ call' = [call EXCEPT ![k].row = i, ![k].copy = None,
                   ![k].pc = IF Written(call[k]).enabled THEN "reading"
                             ELSE "dropping"]
    /\ UNCHANGED <<clock, flow, jobs, ringing, fire, boot, budget>>

(***************************************************************************)
(* onScheduleChanged                                                       *)
(***************************************************************************)
\* 'upsert' reads the row again ...
ReadBack(k) ==
    /\ call[k].pc = "reading"
    /\ call' = [call EXCEPT ![k].copy = rows[call[k].row], ![k].pc = "applying"]
    /\ UNCHANGED <<Table, rows, jobs, ringing, budget>>

\* Mutant: a timer that is there is left as it is.
ApplyToNew(k) ==
    /\ call[k].pc = "applying"
    /\ IF jobs[call[k].row] = NoCron
       THEN SetJob(call[k].row, IF call[k].copy.enabled THEN call[k].copy.cron ELSE NoCron)
       ELSE UNCHANGED <<jobs, ringing>>
    /\ Return(k)
    /\ UNCHANGED <<Table, rows, budget>>

\* ... and sets the timer to what it read.
Apply(k) ==
    /\ call[k].pc = "applying"
    /\ SetJob(call[k].row, IF call[k].copy.enabled THEN call[k].copy.cron ELSE NoCron)
    /\ Return(k)
    /\ UNCHANGED <<Table, rows, budget>>

\* 'delete'
Drop(k) ==
    /\ call[k].pc = "dropping"
    /\ SetJob(call[k].row, NoCron)
    /\ Return(k)
    /\ UNCHANGED <<Table, rows, budget>>

----------------------------------------------------------------------------
(***************************************************************************)
(* A timer goes off: executeScheduleJob                                    *)
(***************************************************************************)
Silent == <<clock, flow, created, call, boot, budget>>

FireTo(p, pc) == fire' = [fire EXCEPT ![p].pc = pc]

Rest(p) == fire' = [fire EXCEPT ![p] = IdleFire]

Ring(p) ==
    /\ fire[p].pc = "idle"
    /\ \E i \in ringing :
          /\ ringing' = ringing \ {i}
          /\ fire' = [fire EXCEPT ![p] = [pc |-> "loading", row |-> i, copy |-> None]]
    /\ UNCHANGED <<Silent, rows, jobs>>

Load(p) ==
    /\ fire[p].pc = "loading"
    /\ fire' = [fire EXCEPT ![p].copy = rows[fire[p].row], ![p].pc = "loaded"]
    /\ UNCHANGED <<Silent, rows, jobs, ringing>>

\* Mutant: only a missing row takes its timer with it.
SkipMissing(p) ==
    /\ fire[p].pc = "loaded" /\ ~fire[p].copy.enabled
    /\ IF fire[p].copy = None THEN SetJob(fire[p].row, NoCron)
       ELSE UNCHANGED <<jobs, ringing>>
    /\ Rest(p)
    /\ UNCHANGED <<Silent, rows>>

\* Not found or disabled: the timer should not be there.
Skip(p) ==
    /\ fire[p].pc = "loaded" /\ ~fire[p].copy.enabled
    /\ SetJob(fire[p].row, NoCron)
    /\ Rest(p)
    /\ UNCHANGED <<Silent, rows>>

\* Mutants: the end date itself still counts; nextRunAt has to be in the past.
OverAfter(copy) == copy.left < 0 /\ copy.left # Never

DueAfter(copy) == copy.due < 0

Over(copy) == copy.left = 0

Due(copy) == copy.due <= 0

\* The end date is past: the copy is saved with the switch off ...
Expire(p) ==
    /\ fire[p].pc = "loaded" /\ fire[p].copy.enabled /\ Over(fire[p].copy)
    /\ rows' = [rows EXCEPT ![fire[p].row] = [fire[p].copy EXCEPT !.enabled = FALSE]]
    /\ FireTo(p, "expired")
    /\ UNCHANGED <<Silent, jobs, ringing>>

\* ... and then the timer removed.
DropExpired(p) ==
    /\ fire[p].pc = "expired"
    /\ SetJob(fire[p].row, NoCron)
    /\ Rest(p)
    /\ UNCHANGED <<Silent, rows>>

TooEarly(p) ==
    /\ fire[p].pc = "loaded" /\ fire[p].copy.enabled
    /\ ~Over(fire[p].copy) /\ ~Due(fire[p].copy)
    /\ Rest(p)
    /\ UNCHANGED <<Silent, rows, jobs, ringing>>

\* The RUNNING log is written.
Start(p) ==
    /\ fire[p].pc = "loaded" /\ fire[p].copy.enabled
    /\ ~Over(fire[p].copy) /\ Due(fire[p].copy)
    /\ FireTo(p, "logged")
    /\ UNCHANGED <<Silent, rows, jobs, ringing>>

Execute(p) ==
    /\ fire[p].pc = "logged" /\ flow[fire[p].copy.target].left # Deleted
    /\ FireTo(p, "running")
    /\ UNCHANGED <<Silent, rows, jobs, ringing>>

\* The flow is gone, or its execution throws: the row is left as it is.
Fail(p) ==
    /\ \/ fire[p].pc = "logged" /\ flow[fire[p].copy.target].left = Deleted
       \/ fire[p].pc = "running"
    /\ Rest(p)
    /\ UNCHANGED <<Silent, rows, jobs, ringing>>

\* updateScheduleAfterRun, with the expression the run started from.
Succeed(p) ==
    LET i == fire[p].row IN
    /\ fire[p].pc = "running"
    /\ rows' = IF Exists(i)
               THEN [rows EXCEPT ![i].due = NextIn(fire[p].copy.cron)]
               ELSE rows
    /\ Rest(p)
    /\ UNCHANGED <<Silent, jobs, ringing>>

----------------------------------------------------------------------------
(***************************************************************************)
(* The server stops and starts; the clock                                  *)
(***************************************************************************)
Crash ==
    /\ budget.crashes > 0
    /\ jobs' = NoJobs /\ ringing' = {}
    /\ call' = [k \in Calls |-> IdleCall]
    /\ fire' = [p \in Firings |-> IdleFire]
    /\ boot' = [pc |-> "query", skip |-> 0, batch |-> NoJobs]
    /\ budget' = [budget EXCEPT !.crashes = @ - 1]
    /\ UNCHANGED <<clock, flow, rows, created>>

\* getEnabledSchedulesBatch: the enabled rows, by creation, from skip on.
QueryBatch ==
    LET on      == {i \in RowIds : Enabled(i)}
        rank(i) == Cardinality({j \in on : j <= i})
    IN
    /\ boot.pc = "query"
    /\ boot' = [boot EXCEPT !.pc = "register",
                   !.batch = [i \in RowIds |->
                       IF i \in on /\ rank(i) \in boot.skip + 1 .. boot.skip + BatchSize
                       THEN rows[i].cron ELSE NoCron]]
    /\ UNCHANGED <<clock, flow, rows, created, jobs, ringing, call, fire, budget>>

\* A timer for each row of the batch; an empty batch ends the loading.
RegisterBatch ==
    LET got == {i \in RowIds : boot.batch[i] # NoCron} IN
    /\ boot.pc = "register"
    /\ jobs' = [i \in RowIds |-> IF i \in got THEN boot.batch[i] ELSE jobs[i]]
    /\ ringing' = ringing \ got
    /\ boot' = [pc |-> IF got = {} THEN "on" ELSE "query",
                skip |-> IF got = {} THEN 0 ELSE boot.skip + Cardinality(got),
                batch |-> NoJobs]
    /\ UNCHANGED <<clock, flow, rows, created, call, fire, budget>>

\* Mutant: a date keeps counting when it is past.
Nearer(left) == IF left \in {Never, Unscheduled, Deleted} THEN left ELSE left - 1

Older(left) == IF left > 0 THEN left - 1 ELSE left

\* The timers of a tick have gone off and nothing but executions is under way.
Tick ==
    LET now == (clock + 1) % Period IN
    /\ ringing = {}
    /\ \A k \in Calls : call[k].pc = "idle"
    /\ \A p \in Firings : fire[p].pc \in {"idle", "running"}
    /\ clock' = now
    /\ ringing' = {i \in RowIds : jobs[i] # NoCron /\ now \in Slots[jobs[i]]}
    /\ flow' = [t \in Targets |-> [flow[t] EXCEPT !.left = Older(@)]]
    /\ rows' = [i \in RowIds |-> [rows[i] EXCEPT !.left = Older(@), !.due = Older(@)]]
    /\ UNCHANGED <<created, jobs, call, fire, boot, budget>>

----------------------------------------------------------------------------
Request(k) ==
    \E t \in Targets : SaveFlow(k, t) \/ DeleteFlow(k, t) \/ Toggle(k, t)

Serve(k) ==
    \/ FindRow(k)
    \/ CheckStatus(k)
    \/ WriteRow(k)
    \/ ReadBack(k)
    \/ Apply(k)
    \/ Drop(k)

Finish(p) == Fail(p) \/ Succeed(p)

Proceed(p) ==
    \/ Ring(p)
    \/ Load(p)
    \/ Skip(p)
    \/ Expire(p)
    \/ DropExpired(p)
    \/ TooEarly(p)
    \/ Start(p)
    \/ Execute(p)

LoadTimers == QueryBatch \/ RegisterBatch

Next ==
    \/ \E k \in Calls : Request(k) \/ DeleteBreaks(k) \/ Serve(k)
    \/ \E p \in Firings : Proceed(p) \/ Finish(p)
    \/ LoadTimers
    \/ Tick
    \/ Crash

Spec == Init /\ [][Next]_vars

(* The database answers, the clock goes on, and an execution ends: that is *)
(* what RunsEnd of Agentflow says of it.                                   *)
FairSpec ==
    /\ Spec
    /\ \A k \in Calls : WF_vars(Serve(k))
    /\ \A p \in Firings : WF_vars(Proceed(p)) /\ WF_vars(Finish(p))
    /\ WF_vars(LoadTimers) /\ WF_vars(Tick)

----------------------------------------------------------------------------
(***************************************************************************)
(* Properties                                                              *)
(***************************************************************************)
\* A run starts only at a time its own schedule names: whatever the user edits
\* and however runs overlap or the server restarts, no timer of an expression
\* the row no longer has gets an enabled row to run (single user).
RunsOnSlot ==
    \A p \in Firings :
        fire[p].pc = "logged" => clock \in Slots[fire[p].copy.cron]

\* No request is being served, no timer judged, no timers loaded.
Quiet ==
    /\ \A k \in Calls : call[k].pc = "idle"
    /\ \A p \in Firings : fire[p].pc \in {"idle", "logged", "running"}
    /\ boot.pc = "on"

\* The timers are in sync with the table when nothing is going on
\* (ScheduleBeat: "Responsible for keeping BullMQ repeatable jobs (or
\* in-process timers) in sync with the ScheduleRecord table").
InSync ==
    Quiet => \A i \in RowIds :
                jobs[i] = IF Enabled(i) THEN rows[i].cron ELSE NoCron

\* A timer that outlived its row, or its row's switch, goes when it next rings.
OrphanTimersGo ==
    \A i \in RowIds :
        (jobs[i] # NoCron /\ ~Enabled(i)) ~> (jobs[i] = NoCron \/ Enabled(i))

\* A schedule whose end date is past is switched off.
ExpiredStops ==
    \A i \in RowIds :
        (jobs[i] # NoCron /\ rows[i].left = 0) ~> (jobs[i] = NoCron \/ rows[i].left # 0)

\* An enabled schedule with a timer and no end runs again and again, whatever
\* nextRunAt an edit or an earlier run has left in its row.
KeepsRunning ==
    \A i \in RowIds :
        <>[](/\ jobs[i] # NoCron /\ Enabled(i) /\ rows[i].left = Never
             /\ IsScheduled(flow[rows[i].target]))
        => []<>(\E p \in Firings : fire[p].pc = "running" /\ fire[p].row = i)
==============================================================================
