--------------------------- MODULE SchedulerProofs ---------------------------
(***************************************************************************)
(* What TLAPS proves of Scheduler, for every clock, every set of           *)
(* expressions and flows, and every value of the bounds: the types of its  *)
(* state, with the count that keeps the table within its bound, and, for   *)
(* a user whose requests come one after another, that no flow is run at a  *)
(* time its own schedule does not name.                                    *)
(***************************************************************************)
EXTENDS Scheduler, FiniteSetTheorems, WellFoundedInduction, TLAPS

----------------------------------------------------------------------------
(***************************************************************************)
(* The clock                                                               *)
(***************************************************************************)
\* The library's well-founded induction, as a fact on sets.
LEMMA LeastNatural ==
    ASSUME NEW S, S \subseteq Nat, S # {}
    PROVE  \E x \in S : \A y \in S : x <= y
<1> DEFINE R == OpToRel(<, Nat)
<1>1. IsWellFoundedOn(R, Nat) BY NatLessThanWellFounded
<1>2. ASSUME NEW x \in Nat, NEW y \in Nat, y < x PROVE <<y, x>> \in R
  <2>1. <<y, x>> \in Nat \X Nat OBVIOUS
  <2> QED BY <2>1, <1>2 DEF OpToRel
<1> HIDE DEF R
<1>3. PICK x \in S : \A y \in S : ~ (<<y, x>> \in R) BY <1>1, WFMin, Zenon
<1>4. ASSUME NEW y \in S PROVE x <= y
  <2>1. ~ (y < x) BY <1>2, <1>3
  <2>2. x \in Nat /\ y \in Nat OBVIOUS
  <2> QED BY <2>1, <2>2
<1> QED BY <1>4

\* From any tick the clock comes to any other within a period.
LEMMA ClockComes ==
    ASSUME NEW x \in 0 .. Period - 1, NEW s \in 0 .. Period - 1
    PROVE  \E k \in 1 .. Period : (x + k) % Period = s
<1>0. Period \in Nat \ {0} BY ScheduleAssumption DEF ScheduleAssumption
<1>1. s % Period = s /\ (s + Period) % Period = s BY <1>0
<1>2. CASE s > x
  <2>1. s - x \in 1 .. Period /\ x + (s - x) = s BY <1>0, <1>2
  <2> QED BY <1>1, <2>1
<1>3. CASE ~ (s > x)
  <2>1. s - x + Period \in 1 .. Period /\ x + (s - x + Period) = s + Period
    BY <1>0, <1>3
  <2> QED BY <1>1, <2>1
<1> QED BY <1>2, <1>3

\* The next slot of an expression is a tick of the coming period, and not this one.
LEMMA NextInType ==
    ASSUME clock \in 0 .. Period - 1, NEW cron \in Crons
    PROVE  NextIn(cron) \in 1 .. Period
<1>0. /\ Period \in Nat \ {0} /\ Slots[cron] \subseteq 0 .. Period - 1
      /\ Slots[cron] # {}
  BY ScheduleAssumption DEF ScheduleAssumption
<1> DEFINE S == {k \in 1 .. Period : (clock + k) % Period \in Slots[cron]}
<1>1. S # {}
  <2>1. PICK s \in Slots[cron] : TRUE BY <1>0
  <2> QED BY <1>0, <2>1, ClockComes
<1>2. S \subseteq Nat BY <1>0
<1>3. \A k \in 1 .. Period : k \in S <=> (clock + k) % Period \in Slots[cron] OBVIOUS
<1>4. S \subseteq 1 .. Period OBVIOUS
<1> HIDE DEF S
<1>5. PICK k \in S : \A j \in S : k <= j BY <1>1, <1>2, LeastNatural
<1>6. ASSUME NEW m \in 1 .. k - 1 PROVE (clock + m) % Period \notin Slots[cron]
  <2>1. m \in 1 .. Period /\ ~ (k <= m) BY <1>0, <1>4
  <2> QED BY <1>3, <1>5, <2>1
<1>7. \E j \in 1 .. Period :
         /\ (clock + j) % Period \in Slots[cron]
         /\ \A m \in 1 .. j - 1 : (clock + m) % Period \notin Slots[cron]
  BY <1>3, <1>4, <1>6
<1> QED BY <1>7 DEF NextIn

LEMMA TickType ==
    ASSUME clock \in 0 .. Period - 1
    PROVE  (clock + 1) % Period \in 0 .. Period - 1
<1>0. Period \in Nat \ {0} BY ScheduleAssumption DEF ScheduleAssumption
<1> QED BY <1>0

----------------------------------------------------------------------------
(***************************************************************************)
(* Types                                                                   *)
(***************************************************************************)
CallSet ==
    [pc : {"idle", "finding", "checking", "writing", "reading", "applying",
           "dropping"},
     kind : {"save", "unschedule", "delete", "enable", "disable"},
     target : Targets, flow : Flow,
     row : RowIds \cup {NoRow}, copy : Row]

FireSet ==
    [pc : {"idle", "loading", "loaded", "expired", "logged", "running"},
     row : RowIds \cup {NoRow}, copy : Row]

\* A request that saves has a schedule to save; the switch is that of a row that was
\* found; only a save goes on without one.
CallOK(c) ==
    /\ c.kind = "save" /\ c.pc # "idle" => IsScheduled(c.flow)
    /\ c.kind \in {"enable", "disable"} /\ c.pc \in {"checking", "writing"}
          => c.copy # None
    /\ c.pc = "writing" /\ c.kind # "save" => c.row # NoRow
    /\ c.pc \in {"checking", "reading", "applying", "dropping"} => c.row # NoRow

\* What goes off is the timer of a row, and what is run was enabled.
FireOK(f) ==
    /\ f.pc # "idle" => f.row # NoRow
    /\ f.pc \in {"expired", "logged", "running"} => f.copy.enabled

\* The requests that may still insert a row.
MayInsert == {k \in Calls : \/ call[k].pc = "finding"
                            \/ call[k].pc = "writing" /\ call[k].row = NoRow}

\* The table stays within its bound because each row is inserted by a request of
\* its own, and the requests are counted when they come in.
Counted == created + Cardinality(MayInsert) + budget.calls <= MaxCalls

TypeInv ==
    /\ TypeOK
    /\ \A k \in Calls : CallOK(call[k])
    /\ \A p \in Firings : FireOK(fire[p])
    /\ Counted

LEMMA SetTypes ==
    TypeOK <=> /\ clock \in 0 .. Period - 1
               /\ flow \in [Targets -> Flow]
               /\ rows \in [RowIds -> Row]
               /\ created \in 0 .. MaxCalls
               /\ jobs \in [RowIds -> Crons \cup {NoCron}]
               /\ ringing \subseteq RowIds
               /\ call \in [Calls -> CallSet]
               /\ fire \in [Firings -> FireSet]
               /\ boot \in [pc : {"query", "register", "on"}, skip : Nat,
                            batch : [RowIds -> Crons \cup {NoCron}]]
               /\ budget \in [calls : Nat, faults : Nat, crashes : Nat]
BY DEF TypeOK, CallSet, FireSet

LEMMA Bounds ==
    /\ MaxCalls \in Nat /\ RowIds \subseteq Nat /\ NoRow \notin RowIds
    /\ NoCron \notin Crons /\ Fallback \in Crons /\ Period \in Nat \ {0}
    /\ None \in Row
BY ScheduleAssumption DEF ScheduleAssumption, RowIds, NoRow, Row

\* A row of the table, as opposed to none.
LEMMA RealRow ==
    ASSUME NEW row \in Row, row # None
    PROVE  /\ row.cron \in Crons /\ row.target \in Targets
           /\ row.enabled \in BOOLEAN /\ row.left \in {Never} \cup Nat
           /\ row.due \in 0 .. Period
BY DEF Row

LEMMA EnabledRow == ASSUME NEW row \in Row, row.enabled PROVE row # None
BY DEF None

LEMMA IdleTypes == IdleCall \in CallSet /\ CallOK(IdleCall) /\ IdleFire \in FireSet
                   /\ FireOK(IdleFire)
<1>1. (CHOOSE t \in Targets : TRUE) \in Targets
  BY ScheduleAssumption DEF ScheduleAssumption
<1>2. [cron |-> NoCron, left |-> Unscheduled] \in Flow BY DEF Flow
<1>3. IdleCall \in CallSet BY <1>1, <1>2, Bounds DEF IdleCall, CallSet
<1> QED BY <1>3, Bounds DEF IdleFire, FireSet, CallOK, FireOK, IdleCall

LEMMA OneCall ==
    ASSUME TypeInv, NEW k \in Calls, NEW c \in CallSet, CallOK(c),
           call' = [call EXCEPT ![k] = c]
    PROVE  call' \in [Calls -> CallSet] /\ \A j \in Calls : CallOK(call'[j])
BY SetTypes DEF TypeInv

LEMMA OneFire ==
    ASSUME TypeInv, NEW p \in Firings, NEW f \in FireSet, FireOK(f),
           fire' = [fire EXCEPT ![p] = f]
    PROVE  fire' \in [Firings -> FireSet] /\ \A q \in Firings : FireOK(fire'[q])
BY SetTypes DEF TypeInv

LEMMA JobType ==
    ASSUME TypeInv, NEW i \in RowIds, NEW cron \in Crons \cup {NoCron}, SetJob(i, cron)
    PROVE  jobs' \in [RowIds -> Crons \cup {NoCron}] /\ ringing' \subseteq RowIds
BY SetTypes DEF TypeInv, SetJob

\* The requests that may insert: as many, one fewer or one more.
LEMMA CountSame ==
    ASSUME TypeInv, MayInsert' \subseteq MayInsert, created' = created,
           budget'.calls = budget.calls
    PROVE  Counted'
<1>1. IsFiniteSet(MayInsert)
  BY ScheduleAssumption, FS_Subset DEF ScheduleAssumption, MayInsert
<1>2. IsFiniteSet(MayInsert') /\ Cardinality(MayInsert') <= Cardinality(MayInsert)
  BY <1>1, FS_Subset
<1>3. Cardinality(MayInsert) \in Nat /\ Cardinality(MayInsert') \in Nat
  BY <1>1, <1>2, FS_CardinalityType
<1> QED BY <1>2, <1>3, SetTypes, Bounds DEF TypeInv, Counted

LEMMA CountBegin ==
    ASSUME TypeInv, NEW k, MayInsert' \subseteq MayInsert \cup {k}, created' = created,
           budget'.calls = budget.calls - 1
    PROVE  Counted'
<1>1. IsFiniteSet(MayInsert)
  BY ScheduleAssumption, FS_Subset DEF ScheduleAssumption, MayInsert
<1>2. /\ IsFiniteSet(MayInsert \cup {k})
      /\ Cardinality(MayInsert \cup {k})
            \in {Cardinality(MayInsert), Cardinality(MayInsert) + 1}
  BY <1>1, FS_AddElement
<1>3. /\ IsFiniteSet(MayInsert')
      /\ Cardinality(MayInsert') <= Cardinality(MayInsert \cup {k})
  BY <1>2, FS_Subset
<1>4. /\ Cardinality(MayInsert) \in Nat /\ Cardinality(MayInsert') \in Nat
      /\ Cardinality(MayInsert \cup {k}) \in Nat
  BY <1>1, <1>2, <1>3, FS_CardinalityType
<1>5. created \in Nat /\ budget.calls \in Nat BY SetTypes, Bounds DEF TypeInv
<1> QED BY <1>2, <1>3, <1>4, <1>5, Bounds DEF TypeInv, Counted

LEMMA CountInsert ==
    ASSUME TypeInv, NEW k \in MayInsert, MayInsert' \subseteq MayInsert \ {k},
           created' = created + 1, budget'.calls = budget.calls
    PROVE  Counted' /\ created + 1 \in RowIds
<1>1. IsFiniteSet(MayInsert)
  BY ScheduleAssumption, FS_Subset DEF ScheduleAssumption, MayInsert
<1>2. /\ IsFiniteSet(MayInsert \ {k})
      /\ Cardinality(MayInsert \ {k}) = Cardinality(MayInsert) - 1
  BY <1>1, FS_RemoveElement
<1>3. /\ IsFiniteSet(MayInsert')
      /\ Cardinality(MayInsert') <= Cardinality(MayInsert \ {k})
  BY <1>2, FS_Subset
<1>4. /\ Cardinality(MayInsert) \in Nat /\ Cardinality(MayInsert') \in Nat
      /\ Cardinality(MayInsert \ {k}) \in Nat
  BY <1>1, <1>2, <1>3, FS_CardinalityType
<1>5. created \in Nat /\ budget.calls \in Nat BY SetTypes, Bounds DEF TypeInv
<1> QED BY <1>2, <1>3, <1>4, <1>5, Bounds DEF TypeInv, Counted, RowIds


Inserts(c) == c.pc = "finding" \/ (c.pc = "writing" /\ c.row = NoRow)

LEMMA Inserters ==
    ASSUME TypeInv, NEW k \in Calls, NEW c, call' = [call EXCEPT ![k] = c]
    PROVE  /\ MayInsert' \subseteq MayInsert \cup {k}
           /\ (Inserts(c) => Inserts(call[k])) => MayInsert' \subseteq MayInsert
           /\ ~ Inserts(c) => MayInsert' \subseteq MayInsert \ {k}
           /\ k \in MayInsert <=> Inserts(call[k])
<1>1. call \in [Calls -> CallSet] BY SetTypes DEF TypeInv
<1>2. MayInsert = {j \in Calls : Inserts(call[j])} BY DEF MayInsert, Inserts
<1>3. MayInsert' = {j \in Calls : Inserts(call'[j])} BY DEF MayInsert, Inserts
<1>4. call'[k] = c /\ \A j \in Calls : j # k => call'[j] = call[j] BY <1>1
<1> HIDE DEF Inserts
<1> QED BY <1>2, <1>3, <1>4

\* A step of a request that inserts nothing.
LEMMA CallStep ==
    ASSUME TypeInv, NEW k \in Calls, NEW c \in CallSet, CallOK(c),
           call' = [call EXCEPT ![k] = c], Inserts(c) => Inserts(call[k]),
           UNCHANGED Table, budget'.calls = budget.calls,
           budget' \in [calls : Nat, faults : Nat, crashes : Nat],
           rows' \in [RowIds -> Row], ringing' \subseteq RowIds,
           jobs' \in [RowIds -> Crons \cup {NoCron}]
    PROVE  TypeInv'
<1>1. call' \in [Calls -> CallSet] /\ \A j \in Calls : CallOK(call'[j]) BY OneCall
<1>2. MayInsert' \subseteq MayInsert BY Inserters
<1>3. Counted' BY <1>2, CountSame DEF Table
<1>4. TypeOK' BY <1>1 DEF TypeOK, CallSet, FireSet, Table, TypeInv
<1> QED BY <1>1, <1>3, <1>4 DEF TypeInv, Table

\* A request that comes in, with the flow it is about.
LEMMA BeginType ==
    ASSUME TypeInv, NEW k \in Calls,
           NEW kind \in {"save", "unschedule", "delete", "enable", "disable"},
           NEW t \in Targets, NEW f \in Flow, kind = "save" => IsScheduled(f),
           Begin(k, kind, t, f), flow' \in [Targets -> Flow]
    PROVE  TypeInv'
<1> DEFINE c == [IdleCall EXCEPT !.pc = "finding", !.kind = kind, !.target = t, !.flow = f]
<1>1. c \in CallSet BY IdleTypes DEF CallSet
<1>2. c.kind = kind /\ c.pc = "finding" /\ c.flow = f BY DEF IdleCall
<1>3. call' = [call EXCEPT ![k] = c] BY DEF Begin
<1> HIDE DEF c
<1>4. CallOK(c) BY <1>2 DEF CallOK
<1>5. call' \in [Calls -> CallSet] /\ \A j \in Calls : CallOK(call'[j])
  BY <1>1, <1>3, <1>4, OneCall
<1>6. /\ budget.calls \in Nat /\ budget.calls > 0
      /\ budget \in [calls : Nat, faults : Nat, crashes : Nat]
      /\ budget' = [budget EXCEPT !.calls = @ - 1]
  BY SetTypes DEF TypeInv, Begin
<1>7. /\ budget'.calls = budget.calls - 1
      /\ budget' \in [calls : Nat, faults : Nat, crashes : Nat]
  BY <1>6
<1>8. MayInsert' \subseteq MayInsert \cup {k} BY <1>3, Inserters
<1>9. Counted' BY <1>7, <1>8, CountBegin DEF Begin
<1>10. TypeOK' BY <1>5, <1>7 DEF TypeOK, CallSet, FireSet, Begin, TypeInv
<1> QED BY <1>5, <1>9, <1>10 DEF TypeInv, Begin

LEMMA RequestType ==
    ASSUME TypeInv, NEW k \in Calls, Request(k) PROVE TypeInv'
<1>0. PICK t \in Targets : SaveFlow(k, t) \/ DeleteFlow(k, t) \/ Toggle(k, t)
  BY DEF Request
<1>1. flow \in [Targets -> Flow] BY SetTypes DEF TypeInv
<1>2. CASE SaveFlow(k, t)
  <2>1. PICK f \in [cron : Crons \cup {NoCron}, left : Ends]
                     \cup {[cron |-> NoCron, left |-> Unscheduled]} :
            /\ flow' = [flow EXCEPT ![t] = f]
            /\ Begin(k, IF IsScheduled(f) THEN "save" ELSE "unschedule", t, f)
    BY <1>2 DEF SaveFlow
  <2>2. f \in Flow
    <3>1. [cron |-> NoCron, left |-> Unscheduled] \in Flow BY DEF Flow
    <3>2. Ends \subseteq {Never, Unscheduled, Deleted} \cup Nat
      BY ScheduleAssumption DEF ScheduleAssumption
    <3>3. [cron : Crons \cup {NoCron}, left : Ends] \subseteq Flow BY <3>2 DEF Flow
    <3> QED BY <2>1, <3>1, <3>3
  <2>3. CASE IsScheduled(f)
    <3>1. Begin(k, "save", t, f) BY <2>1, <2>3
    <3> QED BY <1>1, <2>1, <2>2, <2>3, <3>1, BeginType
  <2>4. CASE ~ IsScheduled(f)
    <3>1. Begin(k, "unschedule", t, f) BY <2>1, <2>4
    <3> QED BY <1>1, <2>1, <2>2, <3>1, BeginType
  <2> QED BY <2>3, <2>4
<1>3. CASE DeleteFlow(k, t)
  <2> DEFINE f == [cron |-> NoCron, left |-> Deleted]
  <2>1. f \in Flow BY DEF Flow
  <2>2. flow' = [flow EXCEPT ![t] = f] /\ Begin(k, "delete", t, f)
    BY <1>3 DEF DeleteFlow
  <2> HIDE DEF f
  <2>3. flow' \in [Targets -> Flow] BY <1>1, <2>1, <2>2
  <2> QED BY <2>1, <2>2, <2>3, BeginType
<1>4. CASE Toggle(k, t)
  <2>1. PICK kind \in {"enable", "disable"} : Begin(k, kind, t, flow[t])
    BY <1>4 DEF Toggle
  <2>2. flow[t] \in Flow /\ flow' = flow BY <1>1, <1>4 DEF Toggle
  <2> QED BY <1>1, <2>1, <2>2, BeginType
<1> QED BY <1>0, <1>2, <1>3, <1>4

LEMMA ReturnType ==
    ASSUME TypeInv, NEW k \in Calls, Return(k), UNCHANGED Table,
           budget'.calls = budget.calls,
           budget' \in [calls : Nat, faults : Nat, crashes : Nat],
           rows' \in [RowIds -> Row], ringing' \subseteq RowIds,
           jobs' \in [RowIds -> Crons \cup {NoCron}]
    PROVE  TypeInv'
<1>1. call' = [call EXCEPT ![k] = IdleCall] BY DEF Return
<1>2. ~ Inserts(IdleCall) BY DEF Inserts, IdleCall
<1> QED BY <1>1, <1>2, IdleTypes, CallStep

LEMMA DeleteBreaksType ==
    ASSUME TypeInv, NEW k \in Calls, DeleteBreaks(k) PROVE TypeInv'
<1>1. budget \in [calls : Nat, faults : Nat, crashes : Nat] BY SetTypes DEF TypeInv
<1>2. budget'.calls = budget.calls /\ budget' \in [calls : Nat, faults : Nat, crashes : Nat]
  BY <1>1 DEF DeleteBreaks
<1>3. rows' = rows /\ jobs' = jobs /\ ringing' = ringing /\ Return(k) /\ UNCHANGED Table
  BY DEF DeleteBreaks
<1> QED BY <1>2, <1>3, ReturnType, SetTypes DEF TypeInv

\* The local state of a request that goes on with what it has.
LEMMA GoesOn ==
    ASSUME TypeInv, NEW k \in Calls,
           NEW pc \in {"writing", "reading", "applying", "dropping"}, To(k, pc)
    PROVE  \E c \in CallSet :
              /\ call' = [call EXCEPT ![k] = c] /\ c.pc = pc
              /\ c.kind = call[k].kind /\ c.flow = call[k].flow /\ c.row = call[k].row
              /\ c.copy = call[k].copy /\ c.target = call[k].target
<1> DEFINE c == [call[k] EXCEPT !.pc = pc]
<1>0. call[k] \in CallSet BY SetTypes DEF TypeInv
<1>1. call' = [call EXCEPT ![k] = c] BY <1>0 DEF To
<1>2. /\ c \in CallSet /\ c.pc = pc /\ c.kind = call[k].kind /\ c.flow = call[k].flow
      /\ c.row = call[k].row /\ c.copy = call[k].copy /\ c.target = call[k].target
  BY <1>0 DEF CallSet
<1> HIDE DEF c
<1> QED BY <1>1, <1>2

LEMMA FindRowType ==
    ASSUME TypeInv, NEW k \in Calls, FindRow(k) PROVE TypeInv'
<1>0. /\ call[k] \in CallSet /\ CallOK(call[k]) /\ call[k].pc = "finding"
      /\ Inserts(call[k])
  BY SetTypes DEF TypeInv, FindRow, Inserts
<1>1. /\ UNCHANGED Table /\ rows' = rows /\ jobs' = jobs /\ ringing' = ringing
      /\ budget' = budget
  BY DEF FindRow
<1>2. CASE Return(k) BY <1>1, <1>2, ReturnType, SetTypes DEF TypeInv
<1>3. CASE call[k].kind = "save" /\ To(k, "writing")
  <2>1. PICK c \in CallSet :
              /\ call' = [call EXCEPT ![k] = c] /\ c.pc = "writing"
              /\ c.kind = "save" /\ c.flow = call[k].flow
    BY <1>3, GoesOn
  <2>2. CallOK(c) BY <1>0, <1>3, <2>1 DEF CallOK
  <2> QED BY <1>0, <1>1, <2>1, <2>2, CallStep, SetTypes DEF TypeInv
<1>4. ASSUME NEW i \in RowIds, Exists(i),
             NEW pc \in {"checking", "writing"},
             call' = [call EXCEPT ![k].row = i, ![k].copy = rows[i], ![k].pc = pc]
      PROVE  TypeInv'
  <2> DEFINE c == [call[k] EXCEPT !.row = i, !.copy = rows[i], !.pc = pc]
  <2>1. rows[i] \in Row /\ rows[i] # None /\ i # NoRow
    BY <1>4, SetTypes DEF TypeInv, Exists
  <2>2. /\ c \in CallSet /\ c.row = i /\ c.copy = rows[i] /\ c.kind = call[k].kind
        /\ c.flow = call[k].flow
    BY <1>0, <2>1 DEF CallSet
  <2>3. call' = [call EXCEPT ![k] = c] BY <1>0, <1>4, SetTypes DEF TypeInv
  <2> HIDE DEF c
  <2>4. CallOK(c) BY <1>0, <2>1, <2>2 DEF CallOK
  <2> QED BY <1>0, <1>1, <2>2, <2>3, <2>4, CallStep, SetTypes DEF TypeInv
<1>5. \/ \E i \in RowIds : \E pc \in {"checking", "writing"} :
            Exists(i) /\ call' = [call EXCEPT ![k].row = i, ![k].copy = rows[i], ![k].pc = pc]
      \/ Return(k)
      \/ call[k].kind = "save" /\ To(k, "writing")
  BY DEF FindRow
<1> QED BY <1>2, <1>3, <1>4, <1>5


LEMMA CheckStatusType ==
    ASSUME TypeInv, NEW k \in Calls, CheckStatus(k) PROVE TypeInv'
<1>0. /\ CallOK(call[k]) /\ call[k].pc = "checking"
      /\ rows' = rows /\ jobs' = jobs /\ ringing' = ringing /\ budget' = budget
      /\ UNCHANGED Table
  BY DEF TypeInv, CheckStatus
<1>1. CASE Return(k) BY <1>0, <1>1, ReturnType, SetTypes DEF TypeInv
<1>2. CASE To(k, "writing")
  <2>1. PICK c \in CallSet :
              /\ call' = [call EXCEPT ![k] = c] /\ c.pc = "writing"
              /\ c.kind = call[k].kind /\ c.flow = call[k].flow /\ c.row = call[k].row
              /\ c.copy = call[k].copy
    BY <1>2, GoesOn
  <2>2. CallOK(c) /\ ~ Inserts(c) BY <1>0, <2>1 DEF CallOK, Inserts
  <2> QED BY <1>0, <2>1, <2>2, CallStep, SetTypes DEF TypeInv
<1> QED BY <1>1, <1>2 DEF CheckStatus

LEMMA ScheduledType ==
    ASSUME TypeInv, NEW copy \in Row, NEW f \in Flow, IsScheduled(f), NEW t \in Targets
    PROVE  LET row == Scheduled(copy, f, t)
           IN  /\ row \in Row /\ row # None /\ row.due \in 1 .. Period
               /\ row.target = t
               /\ row.enabled \in BOOLEAN /\ (row.enabled => row.left # 0)
<1> DEFINE cron == IF f.cron = NoCron THEN Fallback ELSE f.cron
           on   == CanEnable(f) /\ (copy = None \/ copy.enabled)
           row  == [target |-> t, cron |-> cron, left |-> f.left, due |-> NextIn(cron),
                    enabled |-> on]
<1>1. cron \in Crons BY Bounds DEF Flow
<1>2. NextIn(cron) \in 1 .. Period BY <1>1, NextInType, SetTypes DEF TypeInv
<1>3. f.left \in {Never} \cup Nat BY DEF Flow, IsScheduled
<1>4. on \in BOOLEAN /\ (on => f.left # 0) BY DEF CanEnable
<1>5. row = Scheduled(copy, f, t) BY DEF Scheduled
<1> HIDE DEF cron, on
<1>6. row.cron = cron /\ row.due = NextIn(cron) /\ row.left = f.left /\ row.enabled = on
      /\ row.target = t
  OBVIOUS
<1>7. NextIn(cron) \in 0 .. Period BY <1>2, Bounds
<1>8. row \in [target : Targets, enabled : BOOLEAN, cron : Crons,
               left : {Never} \cup Nat, due : 0 .. Period]
  BY <1>1, <1>3, <1>4, <1>7
<1> HIDE DEF row
<1>9. row \in Row BY <1>8 DEF Row
<1>10. row # None BY <1>1, <1>6, Bounds DEF None
<1> QED BY <1>2, <1>4, <1>5, <1>6, <1>9, <1>10

\* A row with its switch set is the row still, but for the switch.
LEMMA SwitchType ==
    ASSUME NEW row \in Row, row # None, NEW b \in BOOLEAN
    PROVE  LET new == [row EXCEPT !.enabled = b]
           IN  /\ new \in Row /\ new # None /\ new.enabled = b /\ new.cron = row.cron
               /\ new.left = row.left /\ new.due = row.due /\ new.target = row.target
<1>1. row \in [target : Targets, enabled : BOOLEAN, cron : Crons,
               left : {Never} \cup Nat, due : 0 .. Period]
  BY DEF Row
<1> DEFINE new == [row EXCEPT !.enabled = b]
<1>2. /\ new \in Row /\ new.enabled = b /\ new.cron = row.cron /\ new.left = row.left
      /\ new.due = row.due /\ new.target = row.target
  BY <1>1 DEF Row
<1>3. row.cron \in Crons BY <1>1
<1> HIDE DEF new
<1>4. new # None BY <1>2, <1>3, Bounds DEF None
<1> QED BY <1>2, <1>4 DEF new

LEMMA WrittenType ==
    ASSUME TypeInv, NEW k \in Calls, call[k].pc = "writing"
    PROVE  Written(call[k]) \in Row /\ Written(call[k]).enabled \in BOOLEAN
<1> DEFINE c == call[k]
<1>1. c \in CallSet /\ CallOK(c) BY SetTypes DEF TypeInv
<1>2. /\ c.copy \in Row /\ c.flow \in Flow /\ c.target \in Targets
      /\ c.kind \in {"save", "unschedule", "delete", "enable", "disable"}
  BY <1>1 DEF CallSet
<1>3. CASE c.kind = "save"
  <2>1. Written(c) = Scheduled(c.copy, c.flow, c.target) BY <1>3 DEF Written
  <2>2. IsScheduled(c.flow) BY <1>1, <1>3 DEF CallOK
  <2> QED BY <1>2, <2>1, <2>2, ScheduledType
<1>4. CASE c.kind = "enable"
  <2>1. Written(c) = [c.copy EXCEPT !.enabled = TRUE] BY <1>4 DEF Written
  <2>2. c.copy # None BY <1>1, <1>4 DEF CallOK
  <2> QED BY <1>2, <2>1, <2>2, SwitchType
<1>5. CASE c.kind = "disable"
  <2>1. Written(c) = [c.copy EXCEPT !.enabled = FALSE] BY <1>5 DEF Written
  <2>2. c.copy # None BY <1>1, <1>5 DEF CallOK
  <2> QED BY <1>2, <2>1, <2>2, SwitchType
<1>6. CASE c.kind \in {"unschedule", "delete"}
  <2>1. Written(c) = None BY <1>6 DEF Written
  <2> QED BY <2>1, Bounds DEF None
<1> QED BY <1>2, <1>3, <1>4, <1>5, <1>6

\* What WriteRow makes of the request, and of the row it writes.
LEMMA WriteRowState ==
    ASSUME TypeInv, NEW k \in Calls, WriteRow(k)
    PROVE  \E i \in RowIds, c \in CallSet :
              /\ i = IF call[k].row = NoRow THEN created + 1 ELSE call[k].row
              /\ call' = [call EXCEPT ![k] = c] /\ CallOK(c) /\ c.row = i
              /\ c.pc \in {"reading", "dropping"} /\ c.copy = None
              /\ rows' = [rows EXCEPT ![i] = Written(call[k])]
<1> DEFINE i == IF call[k].row = NoRow THEN created + 1 ELSE call[k].row
           pc == IF Written(call[k]).enabled THEN "reading" ELSE "dropping"
           c == [call[k] EXCEPT !.row = i, !.copy = None, !.pc = pc]
<1>0. call[k] \in CallSet /\ CallOK(call[k]) /\ call[k].pc = "writing"
  BY SetTypes DEF TypeInv, WriteRow
<1>1. i \in RowIds
  <2>1. CASE call[k].row = NoRow
    <3>1. k \in MayInsert /\ IsFiniteSet(MayInsert)
      BY <1>0, <2>1, ScheduleAssumption, FS_Subset DEF MayInsert, ScheduleAssumption
    <3>2. Cardinality(MayInsert) \in Nat /\ Cardinality(MayInsert) # 0
      BY <3>1, FS_CardinalityType, FS_EmptySet
    <3>3. created \in Nat /\ budget.calls \in Nat BY SetTypes, Bounds DEF TypeInv
    <3> QED BY <2>1, <3>2, <3>3, Bounds DEF TypeInv, Counted, RowIds
  <2>2. CASE call[k].row # NoRow BY <1>0, <2>2 DEF CallSet
  <2> QED BY <2>1, <2>2
<1>2. rows' = [rows EXCEPT ![i] = Written(call[k])] BY DEF WriteRow
<1>3. call' = [call EXCEPT ![k] = c] BY <1>0, SetTypes DEF WriteRow, TypeInv
<1>4. pc \in {"reading", "dropping"} OBVIOUS
<1> HIDE DEF pc
<1>5. i = IF call[k].row = NoRow THEN created + 1 ELSE call[k].row OBVIOUS
<1> HIDE DEF i
<1>6. /\ c \in CallSet /\ c.row = i /\ c.copy = None /\ c.pc = pc
      /\ c.kind = call[k].kind /\ c.flow = call[k].flow
  BY <1>0, <1>1, <1>4, Bounds DEF CallSet
<1> HIDE DEF c
<1>7. i # NoRow BY <1>1, Bounds
<1>8. CallOK(c) BY <1>0, <1>4, <1>6, <1>7 DEF CallOK
<1> QED BY <1>1, <1>2, <1>3, <1>4, <1>5, <1>6, <1>8

LEMMA WriteRowType ==
    ASSUME TypeInv, NEW k \in Calls, WriteRow(k) PROVE TypeInv'
<1>1. PICK i \in RowIds, c \in CallSet :
              /\ i = IF call[k].row = NoRow THEN created + 1 ELSE call[k].row
              /\ call' = [call EXCEPT ![k] = c] /\ CallOK(c) /\ c.row = i
              /\ c.pc \in {"reading", "dropping"} /\ c.copy = None
              /\ rows' = [rows EXCEPT ![i] = Written(call[k])]
  BY WriteRowState
<1>2. call[k].pc = "writing" BY DEF WriteRow
<1>3. rows' \in [RowIds -> Row] BY <1>1, <1>2, WrittenType, SetTypes DEF TypeInv
<1>4. ~ Inserts(c) BY <1>1 DEF Inserts
<1>5. CASE call[k].row # NoRow
  <2>1. UNCHANGED Table /\ jobs' = jobs /\ ringing' = ringing /\ budget' = budget
    BY <1>5 DEF WriteRow, Table
  <2> QED BY <1>1, <1>3, <1>4, <2>1, CallStep, SetTypes DEF TypeInv
<1>6. CASE call[k].row = NoRow
  <2>1. call' \in [Calls -> CallSet] /\ \A j \in Calls : CallOK(call'[j])
    BY <1>1, OneCall
  <2>2. MayInsert' \subseteq MayInsert \ {k} /\ k \in MayInsert
    BY <1>1, <1>2, <1>4, <1>6, Inserters DEF Inserts
  <2>3. created' = created + 1 /\ budget' = budget BY <1>6 DEF WriteRow
  <2>4. Counted' /\ created + 1 \in RowIds BY <2>2, <2>3, CountInsert
  <2>5. created' \in 0 .. MaxCalls BY <2>3, <2>4 DEF RowIds
  <2>6. TypeOK'
    BY <1>3, <2>1, <2>5 DEF WriteRow, TypeOK, CallSet, FireSet, TypeInv
  <2> QED BY <2>1, <2>4, <2>6 DEF TypeInv, WriteRow
<1> QED BY <1>5, <1>6

LEMMA ReadBackType ==
    ASSUME TypeInv, NEW k \in Calls, ReadBack(k) PROVE TypeInv'
<1> DEFINE c == [call[k] EXCEPT !.copy = rows[call[k].row], !.pc = "applying"]
<1>0. call[k] \in CallSet /\ CallOK(call[k]) /\ call[k].pc = "reading"
  BY SetTypes DEF TypeInv, ReadBack
<1>1. call[k].row \in RowIds BY <1>0 DEF CallOK, CallSet
<1>2. rows[call[k].row] \in Row BY <1>1, SetTypes DEF TypeInv
<1>3. call' = [call EXCEPT ![k] = c] BY <1>0, SetTypes DEF ReadBack, TypeInv
<1>4. /\ c \in CallSet /\ c.pc = "applying" /\ c.kind = call[k].kind
      /\ c.flow = call[k].flow /\ c.row = call[k].row
  BY <1>0, <1>2 DEF CallSet
<1> HIDE DEF c
<1>5. CallOK(c) /\ ~ Inserts(c) BY <1>0, <1>4 DEF CallOK, Inserts
<1>6. UNCHANGED Table /\ rows' = rows /\ jobs' = jobs /\ ringing' = ringing /\ budget' = budget
  BY DEF ReadBack
<1> QED BY <1>3, <1>4, <1>5, <1>6, CallStep, SetTypes DEF TypeInv

LEMMA ApplyType ==
    ASSUME TypeInv, NEW k \in Calls, Apply(k) \/ Drop(k) PROVE TypeInv'
<1>0. /\ call[k] \in CallSet /\ CallOK(call[k]) /\ call[k].pc \in {"applying", "dropping"}
      /\ Return(k) /\ UNCHANGED Table /\ rows' = rows /\ budget' = budget
  BY SetTypes DEF TypeInv, Apply, Drop
<1>1. call[k].row \in RowIds /\ call[k].copy \in Row BY <1>0 DEF CallOK, CallSet
<1>2. \E cron \in Crons \cup {NoCron} : SetJob(call[k].row, cron)
  BY <1>1, RealRow, EnabledRow DEF Apply, Drop
<1>3. jobs' \in [RowIds -> Crons \cup {NoCron}] /\ ringing' \subseteq RowIds
  BY <1>1, <1>2, JobType
<1> QED BY <1>0, <1>3, ReturnType, SetTypes DEF TypeInv


----------------------------------------------------------------------------
(***************************************************************************)
(* Types: timers, the server and the clock                                 *)
(***************************************************************************)
LEMMA FireStep ==
    ASSUME TypeInv, NEW p \in Firings, NEW f \in FireSet, FireOK(f),
           fire' = [fire EXCEPT ![p] = f], UNCHANGED Silent,
           rows' \in [RowIds -> Row], ringing' \subseteq RowIds,
           jobs' \in [RowIds -> Crons \cup {NoCron}]
    PROVE  TypeInv'
<1>1. fire' \in [Firings -> FireSet] /\ \A q \in Firings : FireOK(fire'[q]) BY OneFire
<1>2. Counted' BY DEF TypeInv, Counted, MayInsert, Silent
<1>3. TypeOK' BY <1>1 DEF TypeOK, CallSet, FireSet, Silent, TypeInv
<1> QED BY <1>1, <1>2, <1>3 DEF TypeInv, Silent

\* The local state of a callback that goes on with what it has.
LEMMA FireGoesOn ==
    ASSUME TypeInv, NEW p \in Firings, NEW pc \in {"expired", "logged", "running"},
           FireTo(p, pc)
    PROVE  \E f \in FireSet :
              /\ fire' = [fire EXCEPT ![p] = f] /\ f.pc = pc
              /\ f.row = fire[p].row /\ f.copy = fire[p].copy
<1> DEFINE f == [fire[p] EXCEPT !.pc = pc]
<1>0. fire[p] \in FireSet BY SetTypes DEF TypeInv
<1>1. fire' = [fire EXCEPT ![p] = f] BY <1>0 DEF FireTo
<1>2. f \in FireSet /\ f.pc = pc /\ f.row = fire[p].row /\ f.copy = fire[p].copy
  BY <1>0 DEF FireSet
<1> HIDE DEF f
<1> QED BY <1>1, <1>2

\* The callback takes the timer of a row that rings.
LEMMA RingState ==
    ASSUME TypeInv, NEW p \in Firings, Ring(p)
    PROVE  \E i \in ringing, f \in FireSet :
              /\ fire' = [fire EXCEPT ![p] = f] /\ f.pc = "loading" /\ f.row = i
              /\ f.copy = None /\ FireOK(f) /\ ringing' = ringing \ {i}
<1>1. PICK i \in ringing :
         /\ ringing' = ringing \ {i}
         /\ fire' = [fire EXCEPT ![p] = [pc |-> "loading", row |-> i, copy |-> None]]
  BY DEF Ring
<1> DEFINE f == [pc |-> "loading", row |-> i, copy |-> None]
<1>2. i \in RowIds BY SetTypes DEF TypeInv
<1>3. f \in FireSet /\ f.pc = "loading" /\ f.row = i /\ f.copy = None
  BY <1>2, Bounds DEF FireSet
<1>4. fire' = [fire EXCEPT ![p] = f] BY <1>1
<1> HIDE DEF f
<1>5. FireOK(f) BY <1>2, <1>3, Bounds DEF FireOK
<1> QED BY <1>1, <1>3, <1>4, <1>5

LEMMA LoadState ==
    ASSUME TypeInv, NEW p \in Firings, Load(p)
    PROVE  \E f \in FireSet :
              /\ fire' = [fire EXCEPT ![p] = f] /\ f.pc = "loaded"
              /\ f.row = fire[p].row /\ f.row \in RowIds /\ f.copy = rows[f.row]
              /\ FireOK(f) /\ fire[p].pc = "loading"
<1> DEFINE f == [fire[p] EXCEPT !.copy = rows[fire[p].row], !.pc = "loaded"]
<1>0. fire[p] \in FireSet /\ FireOK(fire[p]) /\ fire[p].pc = "loading"
  BY SetTypes DEF TypeInv, Load
<1>1. fire[p].row \in RowIds BY <1>0 DEF FireOK, FireSet
<1>2. rows[fire[p].row] \in Row BY <1>1, SetTypes DEF TypeInv
<1>3. fire' = [fire EXCEPT ![p] = f] BY <1>0, SetTypes DEF Load, TypeInv
<1>4. f \in FireSet /\ f.pc = "loaded" /\ f.row = fire[p].row /\ f.copy = rows[f.row]
  BY <1>0, <1>2 DEF FireSet
<1> HIDE DEF f
<1>5. FireOK(f) BY <1>0, <1>4 DEF FireOK
<1> QED BY <1>0, <1>1, <1>3, <1>4, <1>5

LEMMA FiringType ==
    ASSUME TypeInv, NEW p \in Firings, Proceed(p) \/ Finish(p) PROVE TypeInv'
<1>0. /\ fire[p] \in FireSet /\ FireOK(fire[p]) /\ fire[p].copy \in Row
      /\ fire[p].pc # "idle" => fire[p].row \in RowIds
      /\ rows \in [RowIds -> Row] /\ ringing \subseteq RowIds
      /\ jobs \in [RowIds -> Crons \cup {NoCron}]
  BY SetTypes DEF TypeInv, FireSet, FireOK
<1>1. ASSUME Rest(p), UNCHANGED Silent, rows' \in [RowIds -> Row],
             jobs' \in [RowIds -> Crons \cup {NoCron}], ringing' \subseteq RowIds
      PROVE  TypeInv'
  BY <1>1, IdleTypes, FireStep DEF Rest
<1>2. CASE Ring(p)
  <2>1. UNCHANGED Silent /\ rows' = rows /\ jobs' = jobs BY <1>2 DEF Ring
  <2>2. PICK i \in ringing, f \in FireSet :
              /\ fire' = [fire EXCEPT ![p] = f] /\ FireOK(f) /\ ringing' = ringing \ {i}
    BY <1>2, RingState
  <2> QED BY <1>0, <2>1, <2>2, FireStep
<1>3. CASE Load(p)
  <2>1. UNCHANGED Silent /\ rows' = rows /\ jobs' = jobs /\ ringing' = ringing
    BY <1>3 DEF Load
  <2>2. PICK f \in FireSet : fire' = [fire EXCEPT ![p] = f] /\ FireOK(f)
    BY <1>3, LoadState
  <2> QED BY <1>0, <2>1, <2>2, FireStep
<1>4. CASE Skip(p) \/ DropExpired(p)
  <2>1. /\ fire[p].row \in RowIds /\ SetJob(fire[p].row, NoCron) /\ Rest(p)
        /\ UNCHANGED Silent /\ rows' = rows
    BY <1>0, <1>4 DEF Skip, DropExpired
  <2>2. jobs' \in [RowIds -> Crons \cup {NoCron}] /\ ringing' \subseteq RowIds
    BY <2>1, JobType
  <2> QED BY <1>0, <1>1, <2>1, <2>2
<1>5. CASE Expire(p)
  <2>1. /\ UNCHANGED Silent /\ jobs' = jobs /\ ringing' = ringing
        /\ fire[p].copy.enabled /\ fire[p].row \in RowIds /\ FireTo(p, "expired")
    BY <1>0, <1>5 DEF Expire
  <2>2. PICK f \in FireSet :
              /\ fire' = [fire EXCEPT ![p] = f] /\ f.pc = "expired"
              /\ f.row = fire[p].row /\ f.copy = fire[p].copy
    BY <2>1, FireGoesOn
  <2>3. FireOK(f) BY <1>0, <2>1, <2>2, Bounds DEF FireOK
  <2> DEFINE row == [fire[p].copy EXCEPT !.enabled = FALSE]
  <2>4. row \in Row BY <1>0, <2>1, EnabledRow, SwitchType
  <2>5. rows' = [rows EXCEPT ![fire[p].row] = row] BY <1>5 DEF Expire
  <2> HIDE DEF row
  <2>6. rows' \in [RowIds -> Row] BY <1>0, <2>4, <2>5
  <2> QED BY <1>0, <2>1, <2>2, <2>3, <2>6, FireStep
<1>6. CASE TooEarly(p) \/ Fail(p)
  BY <1>0, <1>1, <1>6 DEF TooEarly, Fail
<1>7. CASE Start(p) \/ Execute(p)
  <2>1. /\ UNCHANGED Silent /\ rows' = rows /\ jobs' = jobs /\ ringing' = ringing
        /\ fire[p].copy.enabled /\ fire[p].row \in RowIds
        /\ \E pc \in {"logged", "running"} : FireTo(p, pc)
    BY <1>0, <1>7 DEF Start, Execute, FireOK
  <2>2. PICK f \in FireSet :
              /\ fire' = [fire EXCEPT ![p] = f] /\ f.pc \in {"logged", "running"}
              /\ f.row = fire[p].row /\ f.copy = fire[p].copy
    BY <2>1, FireGoesOn
  <2>3. FireOK(f) BY <1>0, <2>1, <2>2, Bounds DEF FireOK
  <2> QED BY <1>0, <2>1, <2>2, <2>3, FireStep
<1>8. CASE Succeed(p)
  <2>1. Rest(p) /\ UNCHANGED Silent /\ jobs' = jobs /\ ringing' = ringing
    BY <1>8 DEF Succeed
  <2>2. rows' \in [RowIds -> Row]
    <3> DEFINE i == fire[p].row
               due == NextIn(fire[p].copy.cron)
    <3>1. fire[p].copy.cron \in Crons
      BY <1>0, <1>8, EnabledRow, RealRow DEF Succeed, FireOK
    <3>2. due \in 0 .. Period
      <4>1. due \in 1 .. Period BY <3>1, NextInType, SetTypes DEF TypeInv
      <4> QED BY <4>1, Bounds
    <3>3. rows' = IF Exists(i) THEN [rows EXCEPT ![i].due = due] ELSE rows
      BY <1>8 DEF Succeed
    <3> HIDE DEF due
    <3>4. CASE Exists(i)
      <4>1. i \in RowIds /\ rows[i] # None /\ rows[i] \in Row
        BY <1>0, <1>8, <3>4 DEF Exists, Succeed
      <4>2. [rows[i] EXCEPT !.due = due] \in Row BY <3>2, <4>1 DEF Row
      <4>3. rows' = [rows EXCEPT ![i] = [rows[i] EXCEPT !.due = due]]
        BY <1>0, <3>3, <3>4, <4>1
      <4> QED BY <1>0, <4>1, <4>2, <4>3
    <3> QED BY <1>0, <3>3, <3>4
  <2> QED BY <1>0, <1>1, <2>1, <2>2
<1> QED BY <1>2, <1>3, <1>4, <1>5, <1>6, <1>7, <1>8 DEF Proceed, Finish

LEMMA OlderType ==
    /\ \A n \in Nat : Older(n) \in Nat /\ Older(n) <= n
    /\ Older(Never) = Never /\ Older(Unscheduled) = Unscheduled
    /\ Older(Deleted) = Deleted /\ Older(0) = 0
BY DEF Older, Never, Unscheduled, Deleted

\* A row a tick later.
OlderRow(row) == [row EXCEPT !.left = Older(@), !.due = Older(@)]

LEMMA OlderRowType ==
    ASSUME NEW row \in Row
    PROVE  /\ OlderRow(row) \in Row
           /\ row = None <=> OlderRow(row) = None
           /\ row.left = 0 => OlderRow(row).left = 0
           /\ OlderRow(row).cron = row.cron
<1>1. CASE row = None
  <2> DEFINE S == [target : {"none"}, enabled : {FALSE}, cron : {NoCron},
                   left : {Never}, due : {0}]
  <2>1. None \in S BY DEF None
  <2>2. Older(Never) = Never /\ Older(0) = 0 BY OlderType
  <2>3. \A r \in S : [r EXCEPT !.left = Older(@), !.due = Older(@)] \in S BY <2>2
  <2>4. ASSUME NEW r \in S PROVE r = None BY DEF None
  <2> HIDE DEF S
  <2>5. OlderRow(None) = None BY <2>1, <2>3, <2>4 DEF OlderRow
  <2> QED BY <1>1, <2>5 DEF None
<1>2. CASE row # None
  <2>1. row \in [target : Targets, enabled : BOOLEAN, cron : Crons,
                 left : {Never} \cup Nat, due : 0 .. Period]
    BY <1>2 DEF Row
  <2>2. Older(row.left) \in {Never} \cup Nat /\ (row.left = 0 => Older(row.left) = 0)
    BY <2>1, OlderType
  <2>3. Older(row.due) \in 0 .. Period
    <3>1. row.due \in Nat /\ row.due <= Period BY <2>1, Bounds
    <3>2. Older(row.due) \in Nat /\ Older(row.due) <= row.due BY <3>1, OlderType
    <3> QED BY <3>1, <3>2, Bounds
  <2>4. /\ OlderRow(row).left = Older(row.left) /\ OlderRow(row).cron = row.cron
        /\ OlderRow(row) \in Row
    BY <2>1, <2>2, <2>3 DEF OlderRow, Row
  <2>5. OlderRow(row) # None
    <3>1. OlderRow(row).cron \in Crons BY <2>1, <2>4
    <3> QED BY <3>1, Bounds DEF None
  <2> QED BY <1>2, <2>2, <2>4, <2>5
<1> QED BY <1>1, <1>2

LEMMA TickStepType == ASSUME TypeInv, Tick PROVE TypeInv'
<1>1. clock' \in 0 .. Period - 1 BY TickType, SetTypes DEF TypeInv, Tick
<1>2. ringing' \subseteq RowIds BY DEF Tick
<1>3. flow' \in [Targets -> Flow]
  <2>1. \A t \in Targets : flow[t] \in Flow BY SetTypes DEF TypeInv
  <2>2. \A f \in Flow : [f EXCEPT !.left = Older(@)] \in Flow BY OlderType DEF Flow
  <2> QED BY <2>1, <2>2 DEF Tick
<1>4. rows' \in [RowIds -> Row]
  <2>1. \A i \in RowIds : rows[i] \in Row BY SetTypes DEF TypeInv
  <2>2. rows' = [i \in RowIds |-> OlderRow(rows[i])] BY DEF Tick, OlderRow
  <2> QED BY <2>1, <2>2, OlderRowType
<1>5. TypeOK' BY <1>1, <1>2, <1>3, <1>4 DEF Tick, TypeOK, TypeInv
<1>6. Counted' BY DEF Tick, TypeInv, Counted, MayInsert
<1> QED BY <1>5, <1>6 DEF TypeInv, Tick

LEMMA RowIdsFinite == IsFiniteSet(RowIds)
BY Bounds, FS_Interval DEF RowIds

LEMMA LoadTimersType == ASSUME TypeInv, LoadTimers PROVE TypeInv'
<1>0. /\ boot \in [pc : {"query", "register", "on"}, skip : Nat,
                   batch : [RowIds -> Crons \cup {NoCron}]]
      /\ rows \in [RowIds -> Row]
  BY SetTypes DEF TypeInv
<1>1. CASE QueryBatch
  <2>1. \A i \in RowIds : Enabled(i) => rows[i].cron \in Crons
    BY <1>0, RealRow DEF Enabled, Exists
  <2>2. \E b \in [RowIds -> Crons \cup {NoCron}] :
            boot' = [boot EXCEPT !.pc = "register", !.batch = b]
    BY <1>1, <2>1 DEF QueryBatch
  <2>3. boot' \in [pc : {"query", "register", "on"}, skip : Nat,
                   batch : [RowIds -> Crons \cup {NoCron}]]
    BY <1>0, <2>2
  <2>4. TypeOK' BY <1>1, <2>3 DEF QueryBatch, TypeOK, TypeInv
  <2>5. Counted' BY <1>1 DEF QueryBatch, TypeInv, Counted, MayInsert
  <2> QED BY <1>1, <2>4, <2>5 DEF TypeInv, QueryBatch
<1>2. CASE RegisterBatch
  <2> DEFINE got == {i \in RowIds : boot.batch[i] # NoCron}
  <2>1. Cardinality(got) \in Nat BY RowIdsFinite, FS_Subset, FS_CardinalityType
  <2>2. boot' = [pc |-> IF got = {} THEN "on" ELSE "query",
                 skip |-> IF got = {} THEN 0 ELSE boot.skip + Cardinality(got),
                 batch |-> NoJobs]
    BY <1>2 DEF RegisterBatch
  <2>3. NoJobs \in [RowIds -> Crons \cup {NoCron}] BY DEF NoJobs
  <2>4. jobs' \in [RowIds -> Crons \cup {NoCron}] /\ ringing' \subseteq RowIds
    BY <1>0, <1>2, SetTypes DEF RegisterBatch, TypeInv
  <2> HIDE DEF got
  <2>5. boot' \in [pc : {"query", "register", "on"}, skip : Nat,
                   batch : [RowIds -> Crons \cup {NoCron}]]
    BY <1>0, <2>1, <2>2, <2>3
  <2>6. TypeOK' BY <1>2, <2>4, <2>5 DEF RegisterBatch, TypeOK, TypeInv
  <2>7. Counted' BY <1>2 DEF RegisterBatch, TypeInv, Counted, MayInsert
  <2> QED BY <1>2, <2>6, <2>7 DEF TypeInv, RegisterBatch
<1> QED BY <1>1, <1>2 DEF LoadTimers

LEMMA CrashType == ASSUME TypeInv, Crash PROVE TypeInv'
<1>1. budget \in [calls : Nat, faults : Nat, crashes : Nat] BY SetTypes DEF TypeInv
<1>2. /\ budget' \in [calls : Nat, faults : Nat, crashes : Nat]
      /\ budget'.calls = budget.calls
  BY <1>1 DEF Crash
<1>3. NoJobs \in [RowIds -> Crons \cup {NoCron}] BY DEF NoJobs
<1>4. MayInsert' = {} BY DEF Crash, MayInsert, IdleCall
<1>5. Counted' BY <1>2, <1>4, CountSame DEF Crash
<1>6. call' \in [Calls -> CallSet] /\ fire' \in [Firings -> FireSet]
  BY IdleTypes DEF Crash
<1>7. TypeOK' BY <1>2, <1>3, <1>6 DEF Crash, TypeOK, CallSet, FireSet, TypeInv
<1> QED BY <1>5, <1>7, IdleTypes DEF TypeInv, Crash

LEMMA TypeInit == Init => TypeInv
<1> SUFFICES ASSUME Init PROVE TypeInv OBVIOUS
<1>1. MayInsert = {} BY DEF Init, MayInsert, IdleCall
<1>2. Cardinality(MayInsert) = 0 BY <1>1, FS_EmptySet
<1>3. Counted BY <1>2, Bounds DEF Init, Counted
<1>4. [cron |-> NoCron, left |-> Unscheduled] \in Flow BY DEF Flow
<1>5. NoJobs \in [RowIds -> Crons \cup {NoCron}] BY DEF NoJobs
<1>6. call \in [Calls -> CallSet] /\ fire \in [Firings -> FireSet]
  BY IdleTypes DEF Init
<1>7. TypeOK
  BY <1>4, <1>5, <1>6, Bounds, ScheduleAssumption
     DEF Init, TypeOK, CallSet, FireSet, ScheduleAssumption
<1> QED BY <1>3, <1>7, IdleTypes DEF TypeInv, Init

LEMMA TypeStep == TypeInv /\ [Next]_vars => TypeInv'
<1> SUFFICES ASSUME TypeInv, [Next]_vars PROVE TypeInv' OBVIOUS
<1>1. ASSUME NEW k \in Calls, Request(k) \/ DeleteBreaks(k) \/ Serve(k) PROVE TypeInv'
  BY <1>1, RequestType, DeleteBreaksType, FindRowType, CheckStatusType, WriteRowType,
     ReadBackType, ApplyType DEF Serve
<1>2. CASE UNCHANGED vars
  BY <1>2 DEF vars, TypeInv, TypeOK, Counted, MayInsert
<1> QED BY <1>1, <1>2, FiringType, LoadTimersType, TickStepType, CrashType DEF Next

\* Rows, timers, requests, callbacks and the loading of the timers keep their types,
\* and the table its bound: a timer always has a valid expression, a request that
\* switches a schedule has the row it read.
THEOREM ScheduleTypeCorrect == Spec => []TypeOK
<1>1. TypeInv => TypeOK BY DEF TypeInv
<1> QED BY <1>1, TypeInit, TypeStep, PTL DEF Spec


----------------------------------------------------------------------------
(***************************************************************************)
(* A run starts at a time its schedule names                               *)
(***************************************************************************)
\* The requests come one after another.
OneUser == \A j, k \in Calls : j = k

\* Nothing wrong comes of a timer that gets this row now: it has none to start, or
\* its next run is still to come, or the present tick is one the row names.
Good(row) == \/ row = None \/ row.left = 0 \/ row.due >= 1
             \/ clock \in Slots[row.cron]

\* A timer on this expression does no harm to the row.
Fits(row, cron) == cron = NoCron \/ row = None \/ row.left = 0 \/ cron = row.cron

\* The timer of the row has gone off and the row is still to be read.
Awaited(i) == \/ i \in ringing
              \/ \E p \in Firings : fire[p].pc = "loading" /\ fire[p].row = i

\* A request has written the row and not yet set its timer.
ChangingNow(c) == c.pc \in {"reading", "applying", "dropping"}

Changing(i) == \E k \in Calls : ChangingNow(call[k]) /\ call[k].row = i

\* The copies that will be written back as they are.
Holding(c) == c.pc \in {"checking", "writing"} /\ c.kind \in {"enable", "disable"}

AwaitedGood == \A i \in RowIds : Awaited(i) => Good(rows[i])

LoadedGood == \A p \in Firings : fire[p].pc = "loaded" => Good(fire[p].copy)

CopiesGood == \A k \in Calls : Holding(call[k]) /\ Awaited(call[k].row) => Good(call[k].copy)

TimersFit == \A i \in RowIds : ~ Changing(i) => Fits(rows[i], jobs[i])

AppliedFit ==
    \A k \in Calls : call[k].pc = "applying" /\ call[k].copy.enabled
                        => Fits(rows[call[k].row], call[k].copy.cron)

BatchFits == \A i \in RowIds : Fits(rows[i], boot.batch[i])

\* Requests and the loading of the timers exclude each other.
BootAlone ==
    /\ boot.pc = "on" => boot.batch = NoJobs
    /\ boot.pc # "on" => \A k \in Calls : call[k].pc = "idle"

SlotInv ==
    /\ AwaitedGood /\ LoadedGood /\ CopiesGood
    /\ TimersFit /\ AppliedFit /\ BatchFits /\ BootAlone
    /\ RunsOnSlot

\* How a callback may change a row: it stays, or it is over, or its next run is put off.
Tamed(old, new) ==
    \/ new = old
    \/ new.left = 0
    \/ old # None /\ new.cron = old.cron /\ new.left = old.left /\ new.due >= 1

LEMMA TamedRow ==
    ASSUME NEW old, NEW new, Tamed(old, new)
    PROVE  /\ Good(old) => Good(new)
           /\ \A cron : Fits(old, cron) => Fits(new, cron)
BY DEF Tamed, Good, Fits

\* The step of a callback that leaves fewer rows awaited, timers as they are or gone,
\* rows tamed, and a copy that is fit to be judged.
LEMMA FireSlot ==
    ASSUME TypeInv, SlotInv, NEW p \in Firings, NEW f \in FireSet,
           fire' = [fire EXCEPT ![p] = f], UNCHANGED Silent,
           ringing' \subseteq ringing,
           f.pc = "loading" => f.row \in ringing,
           \A i \in RowIds : Tamed(rows[i], rows'[i]),
           \A i \in RowIds : jobs'[i] \in {jobs[i], NoCron},
           f.pc = "loaded" => Good(f.copy),
           f.pc = "logged" => clock \in Slots[f.copy.cron]
    PROVE  SlotInv'
<1>0. /\ fire \in [Firings -> FireSet] /\ call \in [Calls -> CallSet]
      /\ clock' = clock /\ call' = call /\ boot' = boot
  BY SetTypes DEF TypeInv, Silent
<1>1. fire'[p] = f /\ \A q \in Firings : q # p => fire'[q] = fire[q] BY <1>0
<1>2. ASSUME NEW i, Awaited(i)' PROVE Awaited(i)
  BY <1>1, <1>2 DEF Awaited
<1>3. \A row : Good(row)' <=> Good(row)
  BY <1>0 DEF Good
<1>4. AwaitedGood'
  <2>1. ASSUME NEW i \in RowIds, Awaited(i)' PROVE Good(rows'[i])
    BY <1>2, <2>1, TamedRow DEF SlotInv, AwaitedGood
  <2> QED BY <1>0, <2>1 DEF AwaitedGood, Good
<1>5. LoadedGood'
  <2>1. ASSUME NEW q \in Firings, fire'[q].pc = "loaded" PROVE Good(fire'[q].copy)
    BY <1>1, <2>1 DEF SlotInv, LoadedGood
  <2> QED BY <1>0, <2>1 DEF LoadedGood, Good
<1>6. CopiesGood'
  <2>1. ASSUME NEW k \in Calls, NEW i, i = call[k].row, Holding(call[k]), Awaited(i)'
        PROVE  Good(call[k].copy)
    BY <1>2, <2>1 DEF SlotInv, CopiesGood
  <2> QED BY <1>0, <2>1 DEF CopiesGood, Good, Holding, Awaited
<1>7. \A i \in RowIds : \A cron : Fits(rows[i], cron) => Fits(rows'[i], cron)
  BY TamedRow
<1>8. TimersFit'
  <2>1. ASSUME NEW i \in RowIds, ~ Changing(i) PROVE Fits(rows'[i], jobs'[i])
    <3>1. Fits(rows[i], jobs[i]) BY <2>1 DEF SlotInv, TimersFit
    <3>2. Fits(rows[i], NoCron) BY DEF Fits
    <3> QED BY <1>7, <3>1, <3>2
  <2> QED BY <1>0, <2>1 DEF TimersFit, Changing, ChangingNow, Fits
<1>9. AppliedFit'
  <2>1. ASSUME NEW k \in Calls, call[k].pc = "applying", call[k].copy.enabled
        PROVE  Fits(rows'[call[k].row], call[k].copy.cron)
    <3>1. call[k].row \in RowIds BY <1>0, <2>1 DEF TypeInv, CallOK, CallSet
    <3> QED BY <1>7, <2>1, <3>1 DEF SlotInv, AppliedFit
  <2> QED BY <1>0, <2>1 DEF AppliedFit, Fits
<1>10. BatchFits' BY <1>0, <1>7 DEF SlotInv, BatchFits, Fits
<1>11. RunsOnSlot' BY <1>0, <1>1 DEF SlotInv, RunsOnSlot
<1> QED BY <1>0, <1>4, <1>5, <1>6, <1>8, <1>9, <1>10, <1>11 DEF SlotInv, BootAlone

\* The callbacks.
LEMMA FiringSlot ==
    ASSUME TypeInv, SlotInv, NEW p \in Firings, Proceed(p) \/ Finish(p)
    PROVE  SlotInv'
<1>0. /\ fire[p] \in FireSet /\ FireOK(fire[p]) /\ fire[p].copy \in Row
      /\ fire[p].pc # "idle" => fire[p].row \in RowIds
      /\ rows \in [RowIds -> Row] /\ jobs \in [RowIds -> Crons \cup {NoCron}]
  BY SetTypes DEF TypeInv, FireSet, FireOK
<1>1. ASSUME rows' = rows PROVE \A i \in RowIds : Tamed(rows[i], rows'[i])
  BY <1>1 DEF Tamed
<1>2. ASSUME jobs' = jobs PROVE \A i \in RowIds : jobs'[i] \in {jobs[i], NoCron}
  BY <1>2
<1>3. ASSUME Rest(p), UNCHANGED Silent, ringing' \subseteq ringing,
             \A i \in RowIds : Tamed(rows[i], rows'[i]),
             \A i \in RowIds : jobs'[i] \in {jobs[i], NoCron}
      PROVE  SlotInv'
  <2>1. IdleFire.pc = "idle" BY DEF IdleFire
  <2> QED BY <1>3, <2>1, IdleTypes, FireSlot DEF Rest
<1>4. CASE Ring(p)
  <2>1. UNCHANGED Silent /\ rows' = rows /\ jobs' = jobs BY <1>4 DEF Ring
  <2>2. PICK i \in ringing, f \in FireSet :
              /\ fire' = [fire EXCEPT ![p] = f] /\ f.pc = "loading" /\ f.row = i
              /\ ringing' = ringing \ {i}
    BY <1>4, RingState
  <2>3. ringing' \subseteq ringing BY <2>2
  <2> QED BY <1>1, <1>2, <2>1, <2>2, <2>3, FireSlot
<1>5. CASE Load(p)
  <2>1. UNCHANGED Silent /\ rows' = rows /\ jobs' = jobs /\ ringing' = ringing
    BY <1>5 DEF Load
  <2>2. PICK f \in FireSet :
              /\ fire' = [fire EXCEPT ![p] = f] /\ f.pc = "loaded"
              /\ f.row = fire[p].row /\ f.row \in RowIds /\ f.copy = rows[f.row]
              /\ fire[p].pc = "loading"
    BY <1>5, LoadState
  <2>3. Good(f.copy) BY <2>2 DEF SlotInv, AwaitedGood, Awaited
  <2> QED BY <1>1, <1>2, <2>1, <2>2, <2>3, FireSlot
<1>6. CASE Skip(p) \/ DropExpired(p)
  <2>1. /\ fire[p].row \in RowIds /\ SetJob(fire[p].row, NoCron) /\ Rest(p)
        /\ UNCHANGED Silent /\ rows' = rows
    BY <1>0, <1>6 DEF Skip, DropExpired
  <2>2. /\ ringing' \subseteq ringing
        /\ \A i \in RowIds : jobs'[i] \in {jobs[i], NoCron}
    BY <1>0, <2>1 DEF SetJob
  <2> QED BY <1>1, <1>3, <2>1, <2>2
<1>7. CASE Expire(p)
  <2>1. /\ UNCHANGED Silent /\ jobs' = jobs /\ ringing' = ringing
        /\ fire[p].copy.enabled /\ fire[p].row \in RowIds /\ FireTo(p, "expired")
        /\ Over(fire[p].copy)
    BY <1>0, <1>7 DEF Expire
  <2>2. PICK f \in FireSet : fire' = [fire EXCEPT ![p] = f] /\ f.pc = "expired"
    BY <2>1, FireGoesOn
  <2> DEFINE row == [fire[p].copy EXCEPT !.enabled = FALSE]
  <2>3. row.left = 0
    BY <1>0, <2>1, EnabledRow, SwitchType DEF Over
  <2>4. rows' = [rows EXCEPT ![fire[p].row] = row] BY <1>7 DEF Expire
  <2> HIDE DEF row
  <2>5. \A i \in RowIds : Tamed(rows[i], rows'[i]) BY <1>0, <2>3, <2>4 DEF Tamed
  <2> QED BY <1>2, <2>1, <2>2, <2>5, FireSlot
<1>8. CASE TooEarly(p) \/ Fail(p)
  <2>1. /\ Rest(p) /\ UNCHANGED Silent /\ ringing' = ringing
        /\ rows' = rows /\ jobs' = jobs
    BY <1>8 DEF TooEarly, Fail
  <2> QED BY <1>1, <1>2, <1>3, <2>1
<1>9. CASE Start(p)
  <2>1. /\ UNCHANGED Silent /\ rows' = rows /\ jobs' = jobs /\ ringing' = ringing
        /\ fire[p].copy.enabled /\ FireTo(p, "logged") /\ fire[p].pc = "loaded"
        /\ ~ Over(fire[p].copy) /\ Due(fire[p].copy)
    BY <1>9 DEF Start
  <2>2. PICK f \in FireSet :
              /\ fire' = [fire EXCEPT ![p] = f] /\ f.pc = "logged"
              /\ f.copy = fire[p].copy
    BY <2>1, FireGoesOn
  <2>3. clock \in Slots[f.copy.cron]
    <3>1. Good(fire[p].copy) BY <2>1 DEF SlotInv, LoadedGood
    <3>2. fire[p].copy # None BY <1>0, <2>1, EnabledRow
    <3>3. fire[p].copy.due \in Nat BY <1>0, <3>2, RealRow, Bounds
    <3> QED BY <2>1, <2>2, <3>1, <3>2, <3>3 DEF Good, Over, Due
  <2> QED BY <1>1, <1>2, <2>1, <2>2, <2>3, FireSlot
<1>10. CASE Execute(p)
  <2>1. /\ UNCHANGED Silent /\ rows' = rows /\ jobs' = jobs /\ ringing' = ringing
        /\ FireTo(p, "running")
    BY <1>10 DEF Execute
  <2>2. PICK f \in FireSet : fire' = [fire EXCEPT ![p] = f] /\ f.pc = "running"
    BY <2>1, FireGoesOn
  <2> QED BY <1>1, <1>2, <2>1, <2>2, FireSlot
<1>11. CASE Succeed(p)
  <2>1. Rest(p) /\ UNCHANGED Silent /\ jobs' = jobs /\ ringing' = ringing
    BY <1>11 DEF Succeed
  <2>2. \A i \in RowIds : Tamed(rows[i], rows'[i])
    <3> DEFINE j == fire[p].row
               due == NextIn(fire[p].copy.cron)
    <3>1. fire[p].copy.cron \in Crons
      BY <1>0, <1>11, EnabledRow, RealRow DEF Succeed, FireOK
    <3>2. due \in 1 .. Period BY <3>1, NextInType, SetTypes DEF TypeInv
    <3>3. rows' = IF Exists(j) THEN [rows EXCEPT ![j].due = due] ELSE rows
      BY <1>11 DEF Succeed
    <3> HIDE DEF due
    <3>4. CASE Exists(j)
      <4>1. j \in RowIds /\ rows[j] # None /\ rows[j] \in Row
        BY <1>0, <1>11, <3>4 DEF Exists, Succeed
      <4> DEFINE row == [rows[j] EXCEPT !.due = due]
      <4>2. row.due >= 1 /\ row.left = rows[j].left /\ row.cron = rows[j].cron
        BY <3>2, <4>1, Bounds DEF Row
      <4>3. rows' = [rows EXCEPT ![j] = row]
        BY <1>0, <3>3, <3>4, <4>1
      <4> HIDE DEF row
      <4> QED BY <1>0, <4>1, <4>2, <4>3 DEF Tamed
    <3> QED BY <3>3, <3>4 DEF Tamed
  <2> QED BY <1>2, <1>3, <2>1, <2>2
<1> QED BY <1>4, <1>5, <1>6, <1>7, <1>8, <1>9, <1>10, <1>11 DEF Proceed, Finish

\* The step of the only request there is, which leaves the callbacks alone.
LEMMA CallSlot ==
    ASSUME TypeInv, SlotInv, OneUser, NEW k \in Calls, NEW c \in CallSet,
           call' = [call EXCEPT ![k] = c], boot.pc = "on",
           UNCHANGED <<clock, fire, boot>>, ringing' \subseteq ringing,
           \A i \in RowIds : Awaited(i) => Good(rows'[i]),
           Holding(c) /\ Awaited(c.row) => Good(c.copy),
           \A i \in RowIds : (ChangingNow(c) /\ c.row = i) \/ Fits(rows'[i], jobs'[i]),
           c.pc = "applying" /\ c.copy.enabled => Fits(rows'[c.row], c.copy.cron)
    PROVE  SlotInv'
<1>0. \A j \in Calls : call'[j] = c BY SetTypes DEF TypeInv, OneUser
<1>1. ASSUME NEW i, Awaited(i)' PROVE Awaited(i) BY <1>1 DEF Awaited
<1>2. AwaitedGood'
  <2>1. ASSUME NEW i \in RowIds, Awaited(i)' PROVE Good(rows'[i]) BY <1>1, <2>1
  <2> QED BY <2>1 DEF AwaitedGood, Good
<1>3. LoadedGood' BY DEF SlotInv, LoadedGood, Good
<1>4. CopiesGood'
  <2>1. ASSUME NEW j \in Calls, NEW i, i = c.row, Holding(c), Awaited(i)'
        PROVE  Good(c.copy)
    BY <1>1, <2>1
  <2> QED BY <1>0, <2>1 DEF CopiesGood, Good, Holding, Awaited
<1>5. TimersFit'
  <2>1. ASSUME NEW i \in RowIds, ~ (ChangingNow(c) /\ c.row = i)
        PROVE  Fits(rows'[i], jobs'[i])
    BY <2>1
  <2>2. \A i : Changing(i)' <=> ChangingNow(c) /\ c.row = i
    BY <1>0 DEF Changing, ChangingNow
  <2> HIDE DEF ChangingNow
  <2> QED BY <2>1, <2>2 DEF TimersFit, Fits
<1>6. AppliedFit' BY <1>0 DEF AppliedFit, Fits
<1>7. BatchFits' BY DEF SlotInv, BootAlone, BatchFits, Fits, NoJobs
<1>8. RunsOnSlot' BY DEF SlotInv, RunsOnSlot
<1> QED BY <1>2, <1>3, <1>4, <1>5, <1>6, <1>7, <1>8 DEF SlotInv, BootAlone

\* No row is being changed by a request that is elsewhere.
LEMMA AllFit ==
    ASSUME TypeInv, SlotInv, OneUser, NEW k \in Calls, NEW i \in RowIds,
           ~ (ChangingNow(call[k]) /\ call[k].row = i)
    PROVE  Fits(rows[i], jobs[i])
<1>1. ~ Changing(i) BY DEF Changing, OneUser
<1> QED BY <1>1 DEF SlotInv, TimersFit

\* A request that goes on without touching rows or timers, and holds what is good.
LEMMA QuietCall ==
    ASSUME TypeInv, SlotInv, OneUser, NEW k \in Calls, NEW c \in CallSet,
           call' = [call EXCEPT ![k] = c], boot.pc = "on",
           UNCHANGED <<clock, fire, boot, rows, jobs, ringing>>,
           Holding(c) /\ Awaited(c.row) => Good(c.copy),
           ~ ChangingNow(call[k]), ~ ChangingNow(c)
    PROVE  SlotInv'
<1>1. \A i \in RowIds : Awaited(i) => Good(rows[i]) BY DEF SlotInv, AwaitedGood
<1>2. \A i \in RowIds : Fits(rows[i], jobs[i]) BY AllFit
<1>3. c.pc # "applying" BY DEF ChangingNow
<1> QED BY <1>1, <1>2, <1>3, CallSlot

LEMMA IdleQuiet == ~ Holding(IdleCall) /\ ~ ChangingNow(IdleCall)
BY DEF Holding, ChangingNow, IdleCall

LEMMA AskSlot ==
    ASSUME TypeInv, SlotInv, OneUser, NEW k \in Calls, Request(k) \/ DeleteBreaks(k)
    PROVE  SlotInv'
<1>1. CASE DeleteBreaks(k)
  <2>1. call[k].pc = "finding" /\ boot.pc = "on"
    BY <1>1 DEF DeleteBreaks, SlotInv, BootAlone
  <2>2. /\ call' = [call EXCEPT ![k] = IdleCall]
        /\ UNCHANGED <<clock, fire, boot, rows, jobs, ringing>>
    BY <1>1 DEF DeleteBreaks, Return, Table
  <2>3. ~ ChangingNow(call[k]) BY <2>1 DEF ChangingNow
  <2> QED BY <2>1, <2>2, <2>3, IdleQuiet, IdleTypes, QuietCall
<1>2. ASSUME NEW kind \in {"save", "unschedule", "delete", "enable", "disable"},
             NEW t \in Targets, NEW f \in Flow, Begin(k, kind, t, f)
      PROVE  SlotInv'
  <2> DEFINE c == [IdleCall EXCEPT !.pc = "finding", !.kind = kind, !.target = t,
                              !.flow = f]
  <2>1. c \in CallSet BY IdleTypes DEF CallSet
  <2>2. c.pc = "finding" BY DEF IdleCall
  <2>3. /\ call' = [call EXCEPT ![k] = c] /\ boot.pc = "on" /\ call[k].pc = "idle"
        /\ UNCHANGED <<clock, fire, boot, rows, jobs, ringing>>
    BY <1>2 DEF Begin
  <2> HIDE DEF c
  <2>4. ~ Holding(c) /\ ~ ChangingNow(c) /\ ~ ChangingNow(call[k])
    BY <2>2, <2>3 DEF Holding, ChangingNow
  <2> QED BY <2>1, <2>3, <2>4, QuietCall
<1>3. CASE Request(k)
  <2>1. PICK t \in Targets : SaveFlow(k, t) \/ DeleteFlow(k, t) \/ Toggle(k, t)
    BY <1>3 DEF Request
  <2>2. CASE SaveFlow(k, t)
    <3>1. PICK f \in [cron : Crons \cup {NoCron}, left : Ends]
                       \cup {[cron |-> NoCron, left |-> Unscheduled]} :
              Begin(k, IF IsScheduled(f) THEN "save" ELSE "unschedule", t, f)
      BY <2>2 DEF SaveFlow
    <3>2. Ends \subseteq {Never, Unscheduled, Deleted} \cup Nat
      BY ScheduleAssumption DEF ScheduleAssumption
    <3>3. f \in Flow BY <3>1, <3>2 DEF Flow
    <3>4. (IF IsScheduled(f) THEN "save" ELSE "unschedule")
             \in {"save", "unschedule", "delete", "enable", "disable"}
      OBVIOUS
    <3> QED BY <1>2, <3>1, <3>3, <3>4
  <2>3. CASE DeleteFlow(k, t)
    <3> DEFINE f == [cron |-> NoCron, left |-> Deleted]
    <3>1. f \in Flow BY DEF Flow
    <3>2. Begin(k, "delete", t, f) BY <2>3 DEF DeleteFlow
    <3> HIDE DEF f
    <3> QED BY <1>2, <3>1, <3>2
  <2>4. CASE Toggle(k, t)
    <3>1. PICK kind \in {"enable", "disable"} : Begin(k, kind, t, flow[t])
      BY <2>4 DEF Toggle
    <3>2. flow[t] \in Flow BY SetTypes DEF TypeInv
    <3> QED BY <1>2, <3>1, <3>2
  <2> QED BY <2>1, <2>2, <2>3, <2>4
<1> QED BY <1>1, <1>3

LEMMA LookSlot ==
    ASSUME TypeInv, SlotInv, OneUser, NEW k \in Calls, FindRow(k) \/ CheckStatus(k)
    PROVE  SlotInv'
<1>0. /\ call[k] \in CallSet /\ call[k].pc \in {"finding", "checking"}
      /\ boot.pc = "on" /\ ~ ChangingNow(call[k])
  BY SetTypes DEF TypeInv, FindRow, CheckStatus, SlotInv, BootAlone, ChangingNow
<1>1. UNCHANGED <<clock, fire, boot, rows, jobs, ringing>>
  BY DEF FindRow, CheckStatus, Table
<1>2. CASE Return(k)
  <2>1. call' = [call EXCEPT ![k] = IdleCall] BY <1>2 DEF Return
  <2> QED BY <1>0, <1>1, <2>1, IdleQuiet, IdleTypes, QuietCall
<1>3. CASE FindRow(k) /\ call[k].kind = "save" /\ To(k, "writing")
  <2>1. PICK c \in CallSet :
              call' = [call EXCEPT ![k] = c] /\ c.pc = "writing" /\ c.kind = "save"
    BY <1>3, GoesOn
  <2>2. ~ Holding(c) /\ ~ ChangingNow(c) BY <2>1 DEF Holding, ChangingNow
  <2> QED BY <1>0, <1>1, <2>1, <2>2, QuietCall
<1>4. ASSUME NEW i \in RowIds,
             NEW pc \in {"checking", "writing"},
             call' = [call EXCEPT ![k].row = i, ![k].copy = rows[i], ![k].pc = pc]
      PROVE  SlotInv'
  <2> DEFINE c == [call[k] EXCEPT !.row = i, !.copy = rows[i], !.pc = pc]
  <2>1. rows[i] \in Row BY <1>4, SetTypes DEF TypeInv
  <2>2. c \in CallSet /\ c.row = i /\ c.copy = rows[i] /\ c.pc = pc
    BY <1>0, <2>1 DEF CallSet
  <2>3. call' = [call EXCEPT ![k] = c] BY <1>0, <1>4, SetTypes DEF TypeInv
  <2> HIDE DEF c
  <2>4. ~ ChangingNow(c) BY <2>2 DEF ChangingNow
  <2>5. Awaited(c.row) => Good(c.copy) BY <2>2 DEF SlotInv, AwaitedGood
  <2> QED BY <1>0, <1>1, <2>2, <2>3, <2>4, <2>5, QuietCall
<1>5. CASE CheckStatus(k) /\ To(k, "writing")
  <2>1. PICK c \in CallSet :
              /\ call' = [call EXCEPT ![k] = c] /\ c.pc = "writing"
              /\ c.kind = call[k].kind /\ c.row = call[k].row /\ c.copy = call[k].copy
    BY <1>5, GoesOn
  <2>2. call[k].pc = "checking" BY <1>5 DEF CheckStatus
  <2>3. Holding(c) /\ Awaited(c.row) => Good(c.copy)
    BY <2>1, <2>2 DEF SlotInv, CopiesGood, Holding
  <2>4. ~ ChangingNow(c) BY <2>1 DEF ChangingNow
  <2> QED BY <1>0, <1>1, <2>1, <2>3, <2>4, QuietCall
<1>6. CASE FindRow(k)
  <2>1. \/ \E i \in RowIds : \E pc \in {"checking", "writing"} :
              call' = [call EXCEPT ![k].row = i, ![k].copy = rows[i], ![k].pc = pc]
        \/ Return(k)
        \/ call[k].kind = "save" /\ To(k, "writing")
    BY <1>6 DEF FindRow
  <2> QED BY <1>2, <1>3, <1>4, <1>6, <2>1
<1>7. CASE CheckStatus(k) BY <1>2, <1>5, <1>7 DEF CheckStatus
<1> QED BY <1>6, <1>7

\* What a request writes over an awaited row is good if what it holds is.
LEMMA WrittenGood ==
    ASSUME TypeInv, NEW k \in Calls, call[k].pc = "writing",
           call[k].kind \in {"enable", "disable"} => Good(call[k].copy)
    PROVE  Good(Written(call[k]))
<1> DEFINE c == call[k]
<1>1. c \in CallSet /\ CallOK(c) BY SetTypes DEF TypeInv
<1>2. /\ c.copy \in Row /\ c.flow \in Flow /\ c.target \in Targets
      /\ c.kind \in {"save", "unschedule", "delete", "enable", "disable"}
  BY <1>1 DEF CallSet
<1>3. CASE c.kind = "save"
  <2>1. Written(c) = Scheduled(c.copy, c.flow, c.target) BY <1>3 DEF Written
  <2>2. IsScheduled(c.flow) BY <1>1, <1>3 DEF CallOK
  <2>3. Written(c).due \in 1 .. Period BY <1>2, <2>1, <2>2, ScheduledType
  <2> QED BY <2>3, Bounds DEF Good
<1>4. ASSUME NEW b \in BOOLEAN, Written(c) = [c.copy EXCEPT !.enabled = b],
             c.kind \in {"enable", "disable"}
      PROVE  Good(Written(c))
  <2>1. c.copy # None /\ Good(c.copy) BY <1>1, <1>4 DEF CallOK
  <2> DEFINE row == [c.copy EXCEPT !.enabled = b]
  <2>2. row.cron = c.copy.cron /\ row.left = c.copy.left /\ row.due = c.copy.due
    BY <1>2, <2>1, SwitchType
  <2> HIDE DEF row
  <2>3. Good(row) BY <2>1, <2>2 DEF Good
  <2> QED BY <1>4, <2>3 DEF row
<1>5. CASE c.kind \in {"enable", "disable"}
  <2>1. \E b \in BOOLEAN : Written(c) = [c.copy EXCEPT !.enabled = b]
    BY <1>5 DEF Written
  <2> QED BY <1>4, <1>5, <2>1
<1>6. CASE c.kind \in {"unschedule", "delete"}
  <2>1. Written(c) = None BY <1>6 DEF Written
  <2> QED BY <2>1 DEF Good
<1> QED BY <1>2, <1>3, <1>5, <1>6

LEMMA WriteSlot ==
    ASSUME TypeInv, SlotInv, OneUser, NEW k \in Calls, WriteRow(k) PROVE SlotInv'
<1>1. PICK i \in RowIds, c \in CallSet :
              /\ i = IF call[k].row = NoRow THEN created + 1 ELSE call[k].row
              /\ call' = [call EXCEPT ![k] = c] /\ c.row = i
              /\ c.pc \in {"reading", "dropping"}
              /\ rows' = [rows EXCEPT ![i] = Written(call[k])]
  BY WriteRowState
<1>2. /\ call[k].pc = "writing" /\ boot.pc = "on" /\ CallOK(call[k])
      /\ rows \in [RowIds -> Row]
      /\ UNCHANGED <<clock, fire, boot, jobs, ringing>>
  BY SetTypes DEF WriteRow, TypeInv, SlotInv, BootAlone
<1>3. ASSUME NEW j \in RowIds, Awaited(j) PROVE Good(rows'[j])
  <2>1. CASE j # i BY <1>1, <1>2, <1>3, <2>1 DEF SlotInv, AwaitedGood
  <2>2. CASE j = i
    <3>1. ASSUME call[k].kind \in {"enable", "disable"} PROVE Good(call[k].copy)
      <4>1. call[k].row = i BY <1>1, <1>2, <3>1 DEF CallOK
      <4> QED BY <1>2, <1>3, <2>2, <3>1, <4>1 DEF SlotInv, CopiesGood, Holding
    <3>2. Good(Written(call[k])) BY <1>2, <3>1, WrittenGood
    <3> QED BY <1>1, <1>2, <2>2, <3>2
  <2> QED BY <2>1, <2>2
<1>4. ASSUME NEW j \in RowIds, j # i PROVE Fits(rows'[j], jobs'[j])
  <2>1. ~ ChangingNow(call[k]) BY <1>2 DEF ChangingNow
  <2>2. Fits(rows[j], jobs[j]) BY <2>1, AllFit
  <2> QED BY <1>1, <1>2, <1>4, <2>2
<1>5. ChangingNow(c) /\ ~ Holding(c) /\ c.pc # "applying"
  BY <1>1 DEF ChangingNow, Holding
<1>6. \A j \in RowIds : (ChangingNow(c) /\ c.row = j) \/ Fits(rows'[j], jobs'[j])
  BY <1>1, <1>4, <1>5
<1> QED BY <1>1, <1>2, <1>3, <1>5, <1>6, CallSlot

LEMMA ReadBackSlot ==
    ASSUME TypeInv, SlotInv, OneUser, NEW k \in Calls, ReadBack(k) PROVE SlotInv'
<1> DEFINE c == [call[k] EXCEPT !.copy = rows[call[k].row], !.pc = "applying"]
<1>0. /\ call[k] \in CallSet /\ CallOK(call[k]) /\ call[k].pc = "reading"
      /\ boot.pc = "on"
  BY SetTypes DEF TypeInv, ReadBack, SlotInv, BootAlone
<1>1. call[k].row \in RowIds BY <1>0 DEF CallOK, CallSet
<1>2. rows[call[k].row] \in Row BY <1>1, SetTypes DEF TypeInv
<1>3. call' = [call EXCEPT ![k] = c] BY <1>0, SetTypes DEF ReadBack, TypeInv
<1>4. c \in CallSet /\ c.pc = "applying" /\ c.row = call[k].row /\ c.copy = rows[c.row]
  BY <1>0, <1>2 DEF CallSet
<1> HIDE DEF c
<1>5. ChangingNow(c) /\ ~ Holding(c) BY <1>4 DEF ChangingNow, Holding
<1>6. UNCHANGED <<clock, fire, boot, rows, jobs, ringing>> BY DEF ReadBack, Table
<1>7. \A i \in RowIds : Awaited(i) => Good(rows[i]) BY DEF SlotInv, AwaitedGood
<1>8. \A i \in RowIds : (ChangingNow(c) /\ c.row = i) \/ Fits(rows[i], jobs[i])
  BY <1>4, <1>5, AllFit
<1>9. Fits(rows[c.row], c.copy.cron) BY <1>4 DEF Fits
<1> QED BY <1>0, <1>3, <1>4, <1>5, <1>6, <1>7, <1>8, <1>9, CallSlot

\* The timer is set to what was read back, or stopped.
LEMMA ApplySlot ==
    ASSUME TypeInv, SlotInv, OneUser, NEW k \in Calls, Apply(k) \/ Drop(k)
    PROVE  SlotInv'
<1>0. /\ CallOK(call[k]) /\ call[k] \in CallSet /\ boot.pc = "on"
      /\ call[k].pc \in {"applying", "dropping"}
      /\ call' = [call EXCEPT ![k] = IdleCall]
      /\ UNCHANGED <<clock, fire, boot, rows>>
  BY SetTypes DEF TypeInv, SlotInv, BootAlone, Apply, Drop, Table, Return
<1>1. call[k].row \in RowIds BY <1>0 DEF CallOK, CallSet
<1>2. PICK cron : SetJob(call[k].row, cron) /\ Fits(rows[call[k].row], cron)
  <2>1. CASE Drop(k) BY <2>1 DEF Drop, Fits
  <2>2. CASE Apply(k) /\ call[k].copy.enabled
    BY <2>2 DEF Apply, SlotInv, AppliedFit
  <2>3. CASE Apply(k) /\ ~ call[k].copy.enabled BY <2>3 DEF Apply, Fits
  <2> QED BY <2>1, <2>2, <2>3
<1>3. ringing' \subseteq ringing BY <1>2 DEF SetJob
<1>4. ASSUME NEW i \in RowIds PROVE Fits(rows[i], jobs'[i])
  <2>1. CASE i = call[k].row
    BY <1>1, <1>2, <2>1, SetTypes DEF SetJob, TypeInv
  <2>2. CASE i # call[k].row
    <3>1. jobs'[i] = jobs[i] BY <1>2, <2>2, SetTypes DEF SetJob, TypeInv
    <3> QED BY <2>2, <3>1, AllFit
  <2> QED BY <2>1, <2>2
<1>5. \A i \in RowIds : Awaited(i) => Good(rows[i]) BY DEF SlotInv, AwaitedGood
<1>6. IdleCall.pc # "applying" BY DEF IdleCall
<1> QED BY <1>0, <1>3, <1>4, <1>5, <1>6, IdleQuiet, IdleTypes, CallSlot

\* With no request under way every timer fits.
LEMMA IdleFit ==
    ASSUME SlotInv, \A k \in Calls : call[k].pc = "idle", NEW i \in RowIds
    PROVE  Fits(rows[i], jobs[i])
<1>1. ~ Changing(i) BY DEF Changing, ChangingNow
<1> QED BY <1>1 DEF SlotInv, TimersFit

LEMMA LoadTimersSlot == ASSUME TypeInv, SlotInv, LoadTimers PROVE SlotInv'
<1>0. /\ \A k \in Calls : call[k].pc = "idle"
      /\ UNCHANGED <<clock, rows, call, fire>>
      /\ boot \in [pc : {"query", "register", "on"}, skip : Nat,
                   batch : [RowIds -> Crons \cup {NoCron}]]
  BY SetTypes DEF TypeInv, SlotInv, BootAlone, LoadTimers, QueryBatch, RegisterBatch
<1>1. ringing' \subseteq ringing BY DEF LoadTimers, QueryBatch, RegisterBatch
<1>2. \A i : Awaited(i)' => Awaited(i) BY <1>0, <1>1 DEF Awaited
<1>3. AwaitedGood' BY <1>0, <1>2 DEF SlotInv, AwaitedGood, Good
<1>4. LoadedGood' BY <1>0 DEF SlotInv, LoadedGood, Good
<1>5. CopiesGood' /\ AppliedFit' BY <1>0 DEF CopiesGood, AppliedFit, Holding
<1>6. ASSUME NEW i \in RowIds PROVE Fits(rows[i], jobs'[i])
  <2>1. jobs'[i] \in {jobs[i], boot.batch[i]}
    BY DEF LoadTimers, QueryBatch, RegisterBatch
  <2> QED BY <1>0, <2>1, IdleFit DEF SlotInv, BatchFits
<1>7. ASSUME NEW i \in RowIds PROVE Fits(rows[i], boot'.batch[i])
  <2>1. boot'.batch[i] \in {rows[i].cron, NoCron}
    <3>1. CASE QueryBatch
      <4>1. \E b \in BOOLEAN : boot'.batch[i] = IF b THEN rows[i].cron ELSE NoCron
        BY <1>0, <3>1 DEF QueryBatch
      <4> QED BY <4>1
    <3>2. CASE RegisterBatch BY <3>2 DEF RegisterBatch, NoJobs
    <3> QED BY <3>1, <3>2 DEF LoadTimers
  <2> QED BY <2>1 DEF Fits
<1>8. TimersFit' /\ BatchFits' BY <1>0, <1>6, <1>7 DEF TimersFit, BatchFits, Fits
<1>9. BootAlone'
  <2>1. CASE QueryBatch
    <3>1. boot'.pc = "register" BY <1>0, <2>1 DEF QueryBatch
    <3> QED BY <1>0, <3>1 DEF BootAlone
  <2>2. CASE RegisterBatch
    <3>1. boot'.batch = NoJobs BY <2>2 DEF RegisterBatch
    <3> QED BY <1>0, <3>1 DEF BootAlone
  <2> QED BY <2>1, <2>2 DEF LoadTimers
<1>10. RunsOnSlot' BY <1>0 DEF SlotInv, RunsOnSlot
<1> QED BY <1>3, <1>4, <1>5, <1>8, <1>9, <1>10 DEF SlotInv

\* A timer that goes off at the new tick is one its row names.
LEMMA TickSlot == ASSUME TypeInv, SlotInv, Tick PROVE SlotInv'
<1>0. /\ \A k \in Calls : call[k].pc = "idle"
      /\ \A p \in Firings : fire[p].pc \in {"idle", "running"}
      /\ UNCHANGED <<jobs, call, fire, boot>>
      /\ ringing' = {i \in RowIds : jobs[i] # NoCron /\ clock' \in Slots[jobs[i]]}
      /\ \A i \in RowIds : rows[i] \in Row
  BY SetTypes DEF TypeInv, Tick
<1>1. rows' = [i \in RowIds |-> OlderRow(rows[i])] BY DEF Tick, OlderRow
<1>2. ASSUME NEW i \in RowIds, NEW cron, Fits(rows[i], cron) PROVE Fits(rows'[i], cron)
  BY <1>0, <1>1, <1>2, OlderRowType DEF Fits
<1>3. ASSUME NEW i \in RowIds, Awaited(i)' PROVE Good(rows[i])'
  <2>1. i \in ringing' BY <1>0, <1>3 DEF Awaited
  <2>2. jobs[i] # NoCron /\ clock' \in Slots[jobs[i]] BY <1>0, <2>1
  <2>3. Fits(rows'[i], jobs[i]) BY <1>0, <1>2, IdleFit
  <2> QED BY <2>2, <2>3 DEF Fits, Good
<1>4. AwaitedGood' BY <1>3 DEF AwaitedGood
<1>5. LoadedGood' /\ CopiesGood' /\ AppliedFit' /\ RunsOnSlot'
  BY <1>0 DEF LoadedGood, CopiesGood, AppliedFit, RunsOnSlot, Holding
<1>6. \A i \in RowIds : Fits(rows'[i], jobs[i]) /\ Fits(rows'[i], boot.batch[i])
  BY <1>0, <1>2, IdleFit DEF SlotInv, BatchFits
<1>7. TimersFit' /\ BatchFits' BY <1>0, <1>6 DEF TimersFit, BatchFits, Fits
<1> QED BY <1>0, <1>4, <1>5, <1>7 DEF SlotInv, BootAlone

LEMMA CrashSlot == ASSUME TypeInv, SlotInv, Crash PROVE SlotInv'
<1>0. /\ jobs' = NoJobs /\ ringing' = {} /\ call' = [k \in Calls |-> IdleCall]
      /\ fire' = [p \in Firings |-> IdleFire]
      /\ boot' = [pc |-> "query", skip |-> 0, batch |-> NoJobs]
  BY DEF Crash
<1>1. IdleCall.pc = "idle" /\ IdleFire.pc = "idle" BY DEF IdleCall, IdleFire
<1>2. AwaitedGood' BY <1>0, <1>1 DEF AwaitedGood, Awaited
<1>3. LoadedGood' /\ CopiesGood' /\ AppliedFit' /\ RunsOnSlot'
  BY <1>0, <1>1 DEF LoadedGood, CopiesGood, AppliedFit, RunsOnSlot, Holding
<1>4. TimersFit' /\ BatchFits' BY <1>0 DEF TimersFit, BatchFits, Fits, NoJobs
<1>5. BootAlone' BY <1>0, <1>1 DEF BootAlone
<1> QED BY <1>2, <1>3, <1>4, <1>5 DEF SlotInv

LEMMA SlotInit == Init => SlotInv
<1> SUFFICES ASSUME Init PROVE SlotInv OBVIOUS
<1>1. IdleCall.pc = "idle" /\ IdleFire.pc = "idle" BY DEF IdleCall, IdleFire
<1>2. AwaitedGood BY <1>1 DEF Init, AwaitedGood, Awaited
<1>3. LoadedGood /\ CopiesGood /\ AppliedFit /\ RunsOnSlot
  BY <1>1 DEF Init, LoadedGood, CopiesGood, AppliedFit, RunsOnSlot, Holding
<1>4. TimersFit /\ BatchFits BY DEF Init, TimersFit, BatchFits, Fits, NoJobs
<1>5. BootAlone BY DEF Init, BootAlone
<1> QED BY <1>2, <1>3, <1>4, <1>5 DEF SlotInv

LEMMA SlotStep == ASSUME TypeInv, SlotInv, OneUser, [Next]_vars PROVE SlotInv'
<1>1. ASSUME NEW k \in Calls, Request(k) \/ DeleteBreaks(k) \/ Serve(k) PROVE SlotInv'
  BY <1>1, AskSlot, LookSlot, WriteSlot, ReadBackSlot, ApplySlot DEF Serve
<1>2. CASE UNCHANGED vars
  BY <1>2 DEF vars, SlotInv, AwaitedGood, LoadedGood, CopiesGood, TimersFit, AppliedFit,
     BatchFits, BootAlone, RunsOnSlot, Awaited, Changing, Good
<1> QED BY <1>1, <1>2, FiringSlot, LoadTimersSlot, TickSlot, CrashSlot DEF Next

\* For a user whose requests do not overlap, no flow is run at a time that its own
\* schedule does not name, however the user saves, switches, deletes and restores it,
\* whatever runs overlap, and wherever the server dies: a timer of an older expression
\* is left only while a request is about to replace it, or for a row that is gone or
\* whose end date is past.
THEOREM RunsOnSlotHolds == ASSUME OneUser PROVE Spec => []RunsOnSlot
<1>1. Init => TypeInv /\ SlotInv BY TypeInit, SlotInit
<1>2. TypeInv /\ SlotInv /\ [Next]_vars => (TypeInv /\ SlotInv)'
  BY OneUser, TypeStep, SlotStep
<1>3. SlotInv => RunsOnSlot BY DEF SlotInv
<1> QED BY <1>1, <1>2, <1>3, PTL DEF Spec
==============================================================================
