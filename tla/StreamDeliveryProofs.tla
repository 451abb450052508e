-------------------------- MODULE StreamDeliveryProofs --------------------------
(***************************************************************************)
(* What TLAPS proves of PredictionStreams about several requests and       *)
(* panels at once: the channels and the controllers of a chat, who owns a  *)
(* connection, and what a stream, an observer and a chat are sure of.      *)
(***************************************************************************)
EXTENDS PredictionStreamsProofs

----------------------------------------------------------------------------
(***************************************************************************)
(* One request moves at a time                                             *)
(***************************************************************************)
OnlyMoves(r) == \A q \in Requests \ {r} : req'[q] = req[q]

LEMMA OnlyMovesOne ==
    ASSUME ReqTyped, NEW r \in Requests,
           \E x : req' = [req EXCEPT ![r] = x]
    PROVE  OnlyMoves(r)
BY DEF OnlyMoves, ReqTyped

OwnStep(r) ==
    \/ BeginStream(r) \/ BeginJson(r) \/ BeginHook(r) \/ RejectBound(r)
    \/ OpenBound(r) \/ Refuse(r) \/ Accept(r) \/ Emit(r) \/ EndRun(r)
    \/ SeeResult(r) \/ CountFails(r) \/ CloseStream(r) \/ ReplyJson(r)
    \/ CloseHook(r) \/ BeginCallback(r) \/ CallBack(r) \/ CallFails(r)
    \/ Publish(r) \/ \E l \in Listeners : BindHere(r, l) \/ BindThere(r, l)

LEMMA OwnStepMoves ==
    ASSUME Basics, NEW r \in Requests, OwnStep(r)
    PROVE  OnlyMoves(r)
<1>0. ReqTyped BY TypeParts DEF Basics
<1>1. (\E p : Goto(r, p)) => OnlyMoves(r) BY <1>0, OnlyMovesOne DEF Goto
<1>2. CASE BeginStream(r) \/ BeginJson(r) \/ RejectBound(r) \/ OpenBound(r) \/ Refuse(r)
           \/ Accept(r) \/ EndRun(r) \/ SeeResult(r) \/ CountFails(r) \/ CloseStream(r)
           \/ ReplyJson(r) \/ CloseHook(r)
  BY <1>1, <1>2 DEF BeginStream, BeginJson, RejectBound, OpenBound, Refuse, Accept, EndRun,
                    SeeResult, CountFails, CloseStream, ReplyJson, CloseHook
<1>3. CASE BeginHook(r) BY <1>0, <1>1, <1>3 DEF BeginHook, OnlyMoves, ReqTyped
<1>4. CASE Emit(r) \/ Publish(r)
  BY <1>0, <1>4, EmitCounts DEF Counting, OnlyMoves, ReqTyped
<1>5. CASE BeginCallback(r) \/ CallBack(r)
  BY <1>0, <1>5 DEF BeginCallback, CallBack, OnlyMoves, ReqTyped
<1>6. CASE CallFails(r) BY <1>0, <1>6 DEF CallFails, OnlyMoves, ReqTyped
<1>7. ASSUME NEW l \in Listeners, BindHere(r, l) \/ BindThere(r, l)
      PROVE  OnlyMoves(r)
  BY <1>0, <1>7 DEF BindHere, BindThere, OnlyMoves, ReqTyped
<1> QED BY <1>2, <1>3, <1>4, <1>5, <1>6, <1>7 DEF OwnStep

Missing(r) == \E s \in Replicas : Miss(s) /\ Head(wire) = r

\* A request that moves takes a step of its own, or Redis has answered it, or an
\* event of it is missed.
LEMMA WhoMoves ==
    ASSUME Basics, Next, NEW r \in Requests, req'[r] # req[r]
    PROVE  /\ OnlyMoves(r)
           /\ \/ OwnStep(r)
              \/ Missing(r)
              \/ /\ req[r].pc \in Awaiting
                 /\ \E s \in Replicas : RedisAnswers(s) /\ Head(commands[s]).by = r
<1>0. setup' = setup BY SetupStays
<1>1. (\E q \in Requests : OwnStep(q)) \/ \E s \in Replicas : RedisAnswers(s) \/ Miss(s)
  BY ReqChanges DEF OwnStep
<1>2. ASSUME NEW q \in Requests, OwnStep(q)
      PROVE  OnlyMoves(r) /\ OwnStep(r)
  <2>1. OnlyMoves(q) BY <1>2, OwnStepMoves
  <2>2. q = r BY <2>1 DEF OnlyMoves
  <2> QED BY <1>2, <2>1, <2>2
<1>3. ASSUME NEW s \in Replicas, RedisAnswers(s)
      PROVE  OnlyMoves(r) /\ Head(commands[s]).by = r /\ req[r].pc \in Awaiting
  <2> DEFINE h == Head(commands[s])
  <2>1. /\ commands[s] # <<>> /\ job' = job
        /\ commands' = [commands EXCEPT ![s] = Tail(commands[s])]
        /\ \E ok \in BOOLEAN : Resume(h, ok)
    BY <1>3, RedisAnswersParts
  <2>2. \A q \in Requests \ {h.by} : req'[q] = req[q] BY <1>0, <2>1, ResumeReq
  <2>3. h.by = r BY <2>2
  <2>4. 1 \in DOMAIN commands[s] /\ h = commands[s][1] BY <2>1, RedisElim
  <2>5. commands[s][1].by # NoOne
    BY <2>3, <2>4, StreamsAssumption DEF StreamsAssumption
  <2>6. req[r].pc \in Awaiting BY <2>3, <2>4, <2>5, AwaitedElim
  <2> QED BY <2>2, <2>3, <2>6 DEF OnlyMoves
<1>4. ASSUME NEW s \in Replicas, Miss(s) PROVE OnlyMoves(r) /\ Missing(r)
  <2> DEFINE q == Head(wire)
  <2>1. q \in Requests /\ Counting(q) /\ ReqTyped BY <1>4, MissCounts, TypeParts DEF Basics
  <2>2. OnlyMoves(q) BY <2>1 DEF Counting, OnlyMoves, ReqTyped
  <2>3. q = r BY <2>2 DEF OnlyMoves
  <2> QED BY <1>4, <2>2, <2>3 DEF Missing
<1> QED BY <1>1, <1>2, <1>3, <1>4

\* A request that goes elsewhere has not just missed an event.
LEMMA WhoGoes ==
    ASSUME Basics, Next, NEW r \in Requests, req'[r].pc # req[r].pc
    PROVE  \/ OwnStep(r) /\ ~Emit(r) /\ ~Publish(r)
           \/ /\ req[r].pc \in Awaiting
              /\ \E s \in Replicas : RedisAnswers(s) /\ Head(commands[s]).by = r
<1>0. setup' = setup BY SetupStays
<1>1. ~Missing(r) BY <1>0, MissCounts, CountingReq DEF Missing
<1>2. ~Emit(r) /\ ~Publish(r) BY <1>0, EmitCounts, CountingReq
<1> QED BY <1>1, <1>2, WhoMoves

LEMMA OneMoves ==
    ASSUME Basics, Next, NEW r \in Requests, NEW q \in Requests, r # q
    PROVE  req'[r] = req[r] \/ req'[q] = req[q]
BY WhoMoves DEF OnlyMoves

\* Who is done stays done.
LEMMA WhoIsDone ==
    ASSUME Basics, Next, NEW r \in Requests
    PROVE  /\ req[r].pc \in {"done", "rejected"} => req'[r].pc = req[r].pc
           /\ req[r].pc # "idle" => req'[r].pc # "idle"
           /\ req[r].pc \notin EarlyPcs => req'[r].pc \notin EarlyPcs
BY RequestsStep DEF Moving, Moves, EarlyPcs

LEMMA WhoBegins ==
    ASSUME Basics, Next, NEW r \in Requests, req[r].pc = "idle", req'[r].pc # "idle"
    PROVE  Meet(r)
<1>1. OwnStep(r) /\ ~Publish(r) BY WhoGoes DEF Awaiting
<1>2. \/ BeginStream(r) \/ BeginJson(r) \/ BeginHook(r)
  BY <1>1 DEF OwnStep, RejectBound, OpenBound, Refuse, Accept, Emit, EndRun, SeeResult, CountFails,
              CloseStream, ReplyJson, CloseHook, BeginCallback, CallBack, CallFails, BindHere,
              BindThere
<1> QED BY <1>2 DEF BeginStream, BeginJson, BeginHook

----------------------------------------------------------------------------
(***************************************************************************)
(* The channels                                                            *)
(***************************************************************************)
\* A marked channel has a handler; a handler without mark is on a channel Redis
\* refused to unsubscribe.
ChannelsSettled ==
    \A s \in Replicas, c \in Chats :
        /\ c \in subscribed[s] => handlers[s][c] > 0
        /\ handlers[s][c] > 0 => c \in subscribed[s] \/ <<s, c>> \in forgotten

LEMMA ForgottenGrows ==
    ASSUME Basics, Next
    PROVE  forgotten \subseteq forgotten'
<1>1. CASE faultVars' = faultVars BY <1>1 DEF faultVars
<1>2. ASSUME NEW s \in Replicas, RedisAnswers(s) PROVE forgotten \subseteq forgotten'
  BY <1>2, AnswerEffect
<1>3. CASE \/ \E r \in Requests : \/ CountFails(r) \/ LoseClient(r) \/ Publish(r)
                                  \/ \E l \in Listeners : BindThere(r, l)
           \/ WorkerDies \/ \E s \in Replicas : Miss(s)
           \/ \E c \in Chats : AbortChat(c)
           \/ \E s \in Replicas, c \in Chats : AbortSpeech(s, c)
           \/ \E l \in Listeners : FirstBeat(l) \/ Unregister(l) \/ Dismiss(l) \/ ClosePanel(l)
  BY <1>3 DEF CountFails, LoseClient, Publish, Miss, BindThere, WorkerDies, AbortChat, AbortSpeech, FirstBeat,
              Unregister, Dismiss, ClosePanel
<1> QED BY <1>1, <1>2, <1>3, FaultChanges

LEMMA ChannelsSettledStep ==
    ASSUME Basics, ChannelsSettled, Next
    PROVE  ChannelsSettled'
<1>1. CASE subscribed' = subscribed /\ handlers' = handlers
  BY <1>1, ForgottenGrows DEF ChannelsSettled
<1>2. ASSUME NEW z \in Replicas, RedisAnswers(z), NEW s \in Replicas, NEW c \in Chats
      PROVE  /\ c \in subscribed'[s] => handlers'[s][c] > 0
             /\ handlers'[s][c] > 0 => c \in subscribed'[s] \/ <<s, c>> \in forgotten'
  <2> DEFINE h == Head(commands[z])
  <2>0. /\ c \in subscribed[s] => handlers[s][c] > 0
        /\ handlers[s][c] > 0 => c \in subscribed[s] \/ <<s, c>> \in forgotten
        /\ <<s, c>> \in forgotten => <<s, c>> \in forgotten'
        /\ handlers[s][c] \in Nat
    BY ForgottenGrows, RedisElim DEF ChannelsSettled
  <2>1. CASE s # z \/ c # h.chat
    <3>1. handlers'[s][c] = handlers[s][c] /\ (c \in subscribed'[s] <=> c \in subscribed[s])
      BY <1>2, <2>1, AnswerEffect
    <3> QED BY <2>0, <3>1
  <2>2. CASE s = z /\ c = h.chat /\ h.op = "subscribe"
    <3>1. \/ c \in subscribed'[s] /\ handlers'[s][c] = handlers[s][c] + 1
          \/ subscribed'[s] = subscribed[s] /\ handlers'[s] = handlers[s]
      BY <1>2, <2>2, AnswerEffect
    <3>2. CASE subscribed'[s] = subscribed[s] /\ handlers'[s] = handlers[s] BY <2>0, <3>2
    <3>3. CASE c \in subscribed'[s] /\ handlers'[s][c] = handlers[s][c] + 1 BY <2>0, <3>3
    <3> QED BY <3>1, <3>2, <3>3
  <2>3. CASE s = z /\ c = h.chat /\ h.op # "subscribe"
    <3>1. /\ c \notin subscribed'[s]
          /\ handlers'[s][c] = 0 \/ forgotten' = forgotten \cup {<<s, c>>}
      BY <1>2, <2>3, AnswerEffect
    <3> QED BY <3>1
  <2> QED BY <2>1, <2>2, <2>3
<1> QED BY <1>1, <1>2, RedisStep DEF ChannelsSettled

ChannelsInv == Basics /\ ChannelsSettled

LEMMA ChannelsInvariant == Spec => []ChannelsInv
<1>1. Init => ChannelsInv
  BY BasicsInit DEF Init, ChannelsInv, ChannelsSettled
<1>2. ChannelsInv /\ [Next]_vars => ChannelsInv'
  <2>1. ASSUME ChannelsInv, UNCHANGED vars PROVE ChannelsSettled'
    BY <2>1 DEF ChannelsInv, ChannelsSettled, vars
  <2> QED BY <2>1, BasicsStep, ChannelsSettledStep DEF ChannelsInv
<1> QED BY <1>1, <1>2, PTL DEF Spec

\* subscribedChannels and the handlers of the Redis client agree on every channel
\* without a command under way, but for those Redis refused to unsubscribe.
THEOREM ChannelsMarkedHolds == Spec => []ChannelsMarked
<1>1. ChannelsInv => ChannelsMarked BY DEF ChannelsInv, ChannelsSettled, ChannelsMarked
<1> QED BY <1>1, ChannelsInvariant, PTL

----------------------------------------------------------------------------
(***************************************************************************)
(* The controllers of a chat                                               *)
(***************************************************************************)
FellowsDisturbed ==
    \A r, q \in Requests :
        r # q /\ InFlight(r) /\ InFlight(q) /\ ChatOf(r) = ChatOf(q) => r \in disturbed

LEMMA FellowsDisturbedStep ==
    ASSUME Basics, FellowsDisturbed, Next
    PROVE  FellowsDisturbed'
<1>0. setup' = setup /\ disturbed \subseteq disturbed' BY SetupStays, DisturbedTypedStep
<1>1. ASSUME NEW r \in Requests, NEW q \in Requests, r # q, InFlight(r)', InFlight(q)',
             ChatOf(r) = ChatOf(q)
      PROVE  r \in disturbed'
  <2>1. InFlight(r) \/ req[r].pc = "idle" BY <1>1, WhoIsDone DEF InFlight
  <2>2. InFlight(q) \/ req[q].pc = "idle" BY <1>1, WhoIsDone DEF InFlight
  <2>3. CASE InFlight(r) /\ InFlight(q) BY <1>0, <1>1, <2>3 DEF FellowsDisturbed
  <2>4. CASE req[r].pc = "idle"
    <3>1. Meet(r) BY <1>1, <2>4, WhoBegins DEF InFlight
    <3>2. req'[q] = req[q] BY <1>1, <2>4, OneMoves DEF InFlight
    <3>3. q \in Fellows(r) BY <1>1, <3>2 DEF Fellows, InFlight
    <3> QED BY <3>1, <3>3 DEF Meet
  <2>5. CASE req[q].pc = "idle" /\ InFlight(r)
    <3>1. Meet(q) BY <1>1, <2>5, WhoBegins DEF InFlight
    <3>2. r \in Fellows(q) BY <1>1, <2>5 DEF Fellows
    <3> QED BY <3>1, <3>2 DEF Meet
  <2> QED BY <2>1, <2>2, <2>3, <2>4, <2>5
<1> QED BY <1>0, <1>1 DEF FellowsDisturbed, ChatOf

\* A request that stays alone on its chat while it is in flight: nobody else of
\* the chat moves.
LEMMA NobodyElse ==
    ASSUME Basics, FellowsDisturbed, Next, NEW r \in Requests, InFlight(r), r \notin disturbed',
           NEW q \in Requests \ {r}, ChatOf(q) = ChatOf(r)
    PROVE  req'[q].pc = req[q].pc /\ ~InFlight(q)
<1>1. r \notin disturbed BY DisturbedTypedStep
<1>2. ~InFlight(q) BY <1>1 DEF FellowsDisturbed
<1>3. CASE req[q].pc = "idle" /\ req'[q].pc # "idle"
  <2>1. Meet(q) BY <1>3, WhoBegins
  <2>2. r \in Fellows(q) BY DEF Fellows
  <2> QED BY <2>1, <2>2 DEF Meet
<1> QED BY <1>2, <1>3, WhoIsDone DEF InFlight

RunHasController(r) ==
    r \notin disturbed /\ (req[r].pc = "running" \/ job[r] = "active")
        => pool[ChatOf(r)] = r \/ r \in aborted

ControllerHasRun(c) ==
    ~Queued /\ pool[c] # NoRun => req[pool[c]].pc = "running" /\ ChatOf(pool[c]) = c

Controllers ==
    /\ \A r \in Requests : RunHasController(r)
    /\ \A c \in Chats : ControllerHasRun(c)

LEMMA RunElim ==
    ASSUME Basics
    PROVE  /\ pool \in [Chats -> Requests \cup {NoRun}] /\ aborted \subseteq Requests
           /\ job \in [Requests -> {"none", "waiting", "active", "completed", "failed"}]
           /\ wire \in Seq(Requests) /\ abortEvents \in Seq(Chats) /\ NoRun \notin Requests
           /\ \A r \in Requests : ChatOf(r) \in Chats
BY TypeParts, SetupElim, StreamsAssumption DEF Basics, RunTyped, StreamsAssumption

\* A run starts when it is accepted, or when the worker takes its job.
LEMMA RunStarts ==
    ASSUME Basics, Next, NEW r \in Requests, req'[r].pc = "running" \/ job'[r] = "active"
    PROVE  \/ req[r].pc = "running" \/ job[r] = "active"
           \/ Accept(r) /\ ~Queued
           \/ TakeJob(r)
<1>1. CASE req'[r].pc = "running" /\ req[r].pc # "running"
  <2>1. req[r].pc = "checking" BY <1>1, RequestsStep DEF Moving, Moves
  <2>2. OwnStep(r) /\ ~Publish(r) BY <1>1, <2>1, WhoGoes DEF Awaiting
  <2>3. Accept(r) \/ Refuse(r)
    BY <2>1, <2>2 DEF OwnStep, BeginStream, BeginJson, BeginHook, RejectBound, OpenBound, Emit, EndRun,
                      SeeResult, CountFails, CloseStream, ReplyJson, CloseHook, BeginCallback,
                      CallBack, CallFails, BindHere, BindThere
  <2>5. ~Refuse(r) BY <1>1, GotoPc, SseElim DEF Refuse
  <2>6. ~Queued BY <1>1, RequestsStep, SetupStays DEF RequestsFit, Fits, Queued
  <2> QED BY <2>3, <2>5, <2>6
<1>2. CASE job'[r] = "active" /\ job[r] # "active"
  <2>1. runVars' # runVars BY <1>2 DEF runVars
  <2>2. \E q \in Requests : TakeJob(q)
    BY <1>2, <2>1, RunChanges, RunElim, RedisAnswersLeaves
       DEF Refuse, Accept, EndRun, CountFails, Publish, EndJob, WorkerDies, Deliver, Miss, AbortArrives,
           AbortChat, runVars
  <2>3. PICK q \in Requests : TakeJob(q) BY <2>2
  <2>4. q = r BY <1>2, <2>3, RunElim DEF TakeJob
  <2> QED BY <2>3, <2>4
<1> QED BY <1>1, <1>2

LEMMA PoolChanges ==
    ASSUME Basics, Next, NEW c \in Chats, pool'[c] # pool[c]
    PROVE  \/ pool'[c] = NoRun /\ pool[c] \in aborted'
           \/ pool'[c] = NoRun /\ WorkerDies
           \/ \E q \in Requests : /\ ChatOf(q) = c /\ ~Queued /\ pool'[c] = NoRun
                                  /\ Refuse(q) \/ EndRun(q) \/ CountFails(q)
           \/ \E q \in Requests : /\ ChatOf(q) = c /\ pool'[c] = q
                                  /\ (Accept(q) /\ ~Queued) \/ TakeJob(q)
<1>1. runVars' # runVars BY DEF runVars
<1>2. ASSUME NEW d \in Chats, AbortRun(d) PROVE pool'[c] = NoRun /\ pool[c] \in aborted'
  BY <1>2, RunElim DEF AbortRun
<1>3. CASE AbortArrives
  <2>1. Head(abortEvents) \in Chats BY <1>3, RunElim DEF AbortArrives
  <2> QED BY <1>2, <1>3, <2>1 DEF AbortArrives
<1>4. ASSUME NEW d \in Chats, AbortChat(d) PROVE pool'[c] = NoRun /\ pool[c] \in aborted'
  BY <1>2, <1>4 DEF AbortChat
<1>5. ASSUME NEW q \in Requests, Refuse(q) \/ EndRun(q) \/ CountFails(q)
      PROVE  ChatOf(q) = c /\ ~Queued /\ pool'[c] = NoRun
  BY <1>5, RunElim DEF Refuse, EndRun, CountFails, RemoveController
<1>6. ASSUME NEW q \in Requests, Accept(q) \/ TakeJob(q)
      PROVE  ChatOf(q) = c /\ pool'[c] = q /\ (Accept(q) => ~Queued)
  BY <1>6, RunElim DEF Accept, TakeJob
<1>7. CASE WorkerDies BY <1>7 DEF WorkerDies
<1>8. ASSUME NEW q \in Requests, Publish(q) \/ EndJob(q) PROVE FALSE
  BY <1>8 DEF Publish, EndJob
<1>9. ~Deliver /\ \A s \in Replicas : ~Miss(s) BY DEF Deliver, Miss
<1> QED BY <1>1, <1>3, <1>4, <1>5, <1>6, <1>7, <1>8, <1>9, RunChanges, RedisAnswersLeaves DEF runVars

LEMMA AbortedGrows ==
    ASSUME Basics, Next
    PROVE  aborted \subseteq aborted'
<1>1. CASE runVars' = runVars BY <1>1 DEF runVars
<1>2. CASE runVars' # runVars
  BY <1>2, RunChanges, RedisAnswersLeaves
     DEF Refuse, Accept, EndRun, CountFails, TakeJob, Publish, EndJob, WorkerDies, Deliver, Miss,
         AbortArrives, AbortChat, AbortRun, runVars
<1> QED BY <1>1, <1>2

LEMMA RunHasControllerStep ==
    ASSUME Basics, FellowsDisturbed, Controllers, Next, NEW r \in Requests,
           r \notin disturbed', req'[r].pc = "running" \/ job'[r] = "active"
    PROVE  pool'[ChatOf(r)] = r \/ r \in aborted'
<1> DEFINE c == ChatOf(r)
<1>0. c \in Chats BY RunElim
<1>1. CASE (Accept(r) /\ ~Queued) \/ TakeJob(r) BY <1>0, <1>1, RunElim DEF Accept, TakeJob
<1>2. CASE req[r].pc = "running" \/ job[r] = "active"
  <2>1. InFlight(r) BY <1>2, RequestFits DEF InFlight, Fits
  <2>2. pool[c] = r \/ r \in aborted
    BY <1>2, DisturbedTypedStep DEF Controllers, RunHasController
  <2>3. SUFFICES ASSUME pool[c] = r, pool'[c] # r, r \notin aborted' PROVE FALSE
    BY <2>2, AbortedGrows
  <2>4. ~WorkerDies
    <3>1. SUFFICES ASSUME WorkerDies PROVE FALSE OBVIOUS
    <3>2. PICK q \in Requests : job[q] = "active" BY <3>1 DEF WorkerDies
    <3>3. Queued BY <3>2, RequestFits DEF Fits
    <3>4. req' = req /\ job'[r] # "active" BY <3>1, RunElim DEF WorkerDies
    <3> QED BY <3>3, <3>4, RequestFits DEF Fits
  <2>5. PICK q \in Requests :
           /\ ChatOf(q) = c
           /\ \/ Refuse(q) \/ EndRun(q) \/ CountFails(q)
              \/ pool'[c] = q /\ (Accept(q) \/ TakeJob(q))
    BY <1>0, <2>3, <2>4, PoolChanges
  <2>6. CASE q # r
    <3>1. InFlight(q) \/ req'[q].pc # req[q].pc
      BY <2>5, RequestFits DEF Refuse, EndRun, CountFails, Accept, TakeJob, InFlight, Fits
    <3> QED BY <2>1, <2>5, <2>6, <3>1, NobodyElse
  <2>7. CASE q = r
    <3>1. Refuse(r) \/ EndRun(r) \/ CountFails(r) BY <2>3, <2>5, <2>7
    <3>2. req'[r].pc # "running" BY <3>1, GotoPc, SseElim DEF Refuse, EndRun, CountFails
    <3>3. job'[r] # "active"
      BY <3>1, RequestFits DEF Refuse, EndRun, CountFails, Fits
    <3> QED BY <3>2, <3>3
  <2> QED BY <2>6, <2>7
<1> QED BY <1>1, <1>2, RunStarts

LEMMA ControllerHasRunStep ==
    ASSUME Basics, Controllers, Next, NEW c \in Chats, ~Queued, pool'[c] # NoRun
    PROVE  req'[pool'[c]].pc = "running" /\ ChatOf(pool'[c]) = c
<1>1. CASE pool'[c] # pool[c]
  <2>1. PICK q \in Requests : ChatOf(q) = c /\ pool'[c] = q /\ (Accept(q) \/ TakeJob(q))
    BY <1>1, PoolChanges
  <2>2. ~TakeJob(q) BY RequestFits DEF TakeJob, Fits
  <2>3. req'[q].pc = "running" BY <2>1, <2>2, GotoPc, SseElim DEF Accept
  <2> QED BY <2>1, <2>3
<1>2. CASE pool'[c] = pool[c]
  <2> DEFINE q == pool[c]
  <2>1. q \in Requests /\ req[q].pc = "running" /\ ChatOf(q) = c
    BY <1>2, RunElim DEF Controllers, ControllerHasRun
  <2>2. SUFFICES ASSUME req'[q].pc # "running" PROVE FALSE BY <1>2, <2>1
  <2> HIDE DEF q
  <2>3. OwnStep(q) /\ ~Emit(q) /\ ~Publish(q) BY <2>1, <2>2, WhoGoes DEF Awaiting
  <2>4. EndRun(q)
    BY <2>1, <2>3 DEF OwnStep, BeginStream, BeginJson, BeginHook, RejectBound, OpenBound, Refuse,
                      Accept, SeeResult, CountFails, CloseStream, ReplyJson, CloseHook,
                      BeginCallback, CallBack, CallFails, BindHere, BindThere
  <2>6. pool'[c] = NoRun BY <2>1, <2>4, RunElim DEF EndRun, RemoveController
  <2> QED BY <2>6
<1> QED BY <1>1, <1>2

ChatsInv == Basics /\ FellowsDisturbed /\ Controllers

LEMMA ChatsInvariant == Spec => []ChatsInv
<1>1. Init => ChatsInv
  BY BasicsInit DEF Init, ChatsInv, FellowsDisturbed, InFlight, Controllers, RunHasController,
                    ControllerHasRun
<1>2. ASSUME ChatsInv, [Next]_vars PROVE ChatsInv'
  <2>1. CASE UNCHANGED vars
    BY <1>2, <2>1, BasicsStep DEF ChatsInv, vars, runVars, FellowsDisturbed, InFlight, ChatOf, Queued,
                            Controllers, RunHasController, ControllerHasRun
  <2>2. CASE Next
    <3>1. setup' = setup BY <1>2, SetupStays
    <3>2. Controllers'
      BY <1>2, <2>2, <3>1, RunHasControllerStep, ControllerHasRunStep
         DEF ChatsInv, Controllers, RunHasController, ControllerHasRun, ChatOf, Queued
    <3> QED BY <1>2, <2>2, <3>2, BasicsStep, FellowsDisturbedStep DEF ChatsInv
  <2> QED BY <1>2, <2>1, <2>2
<1> QED BY <1>1, <1>2, PTL DEF Spec

\* An abort of a chat finds the controller of a run that is alone on it, and a
\* server that runs the flows itself keeps no controller of a run that is over
\* (AbortControllerPool, app.abortControllerPool.add and remove of the runs).
THEOREM AbortsReachTheRunHolds == Spec => []AbortsReachTheRun
<1>1. ChatsInv => AbortsReachTheRun
  BY DEF ChatsInv, Controllers, RunHasController, ControllerHasRun, AbortsReachTheRun, Alone
<1> QED BY <1>1, ChatsInvariant, PTL

----------------------------------------------------------------------------
(***************************************************************************)
(* Whose connections they are                                              *)
(***************************************************************************)
OwnedBy(s, x, w) ==
    /\ w \in Requests => x = ChatOf(w) /\ s = Home(w) /\ Streams(w) /\ req[w].pc \notin EarlyPcs
    /\ w \in Listeners => x = w /\ s = setup.seat[w] /\ panel[w] \notin EarlyStages

\* The client of an id is its request or its panel, at home, after its start and
\* before its end.
ClientsOwned ==
    \A s \in Replicas, x \in Ids :
        sse[s].clients[x] # NoClient =>
            OwnedBy(s, x, sse[s].clients[x]) /\ sse[s].clients[x] \notin sse[s].ended

\* What was ended had started.
EndedStarted ==
    \A s \in Replicas : \A w \in sse[s].ended :
        /\ w \in Requests /\ Streams(w) => req[w].pc \notin EarlyPcs
        /\ w \in Listeners => panel[w] \notin EarlyStages

OwnersInv == Basics /\ ClientsOwned /\ EndedStarted

LEMMA PanelMoves ==
    ASSUME Basics, Next, NEW l \in Listeners, panel[l] \notin EarlyStages
    PROVE  panel'[l] \notin EarlyStages
<1>0. panel \in [Listeners -> Stages] BY TypeParts DEF Basics, PanelTyped
<1>1. CASE panel' = panel BY <1>1
<1>2. CASE panel' # panel
  <2>1. panelVars' # panelVars BY <1>2 DEF panelVars
  <2>2. ASSUME NEW m \in Listeners, Register(m) \/ OpenPanel(m) PROVE panel'[l] = panel[l]
    BY <1>0, <2>2 DEF Register, OpenPanel, Move, EarlyStages
  <2>3. ASSUME NEW m \in Listeners, AttachPanel(m) \/ FirstBeat(m) \/ Hangup(m) \/ Unregister(m)
        PROVE  panel'[l] = panel[l] \/ panel'[l] \in {"beating", "deaf", "listening", "closing", "gone"}
    BY <1>0, <2>3 DEF AttachPanel, FirstBeat, Hangup, Unregister, Move, Installed
  <2>4. ~Evict /\ \A m \in Listeners : ~Beat(m) /\ ~Dismiss(m)
    BY <1>2 DEF Evict, Beat, Dismiss
  <2>5. ASSUME NEW c \in Chats, NEW m \in Listeners PROVE ~BindArrives(c, m)
    BY <1>2 DEF BindArrives
  <2>6. ASSUME NEW r \in Requests, NEW m \in Listeners PROVE ~BindThere(r, m)
    BY <1>2 DEF BindThere
  <2> QED BY <2>1, <2>2, <2>3, <2>4, <2>5, <2>6, PanelChanges, RedisAnswersLeaves DEF EarlyStages
<1> QED BY <1>1, <1>2

OwnedNext(s, x, w) ==
    /\ w \in Requests => x = ChatOf(w) /\ s = Home(w) /\ Streams(w) /\ req'[w].pc \notin EarlyPcs
    /\ w \in Listeners => x = w /\ s = setup.seat[w] /\ panel'[w] \notin EarlyStages

LEMMA OwnedStays ==
    ASSUME Basics, Next, NEW s, NEW x, NEW w, OwnedBy(s, x, w)
    PROVE  OwnedNext(s, x, w)
BY WhoIsDone, PanelMoves DEF OwnedBy, OwnedNext

LEMMA StreamerTyped ==
    ASSUME Basics, NEW s \in Replicas
    PROVE  /\ sse[s] \in AStreamer
           /\ DOMAIN sse[s].clients = Ids /\ DOMAIN sse[s].observers = Ids
           /\ DOMAIN sse[s].out = Responses /\ sse[s].ended \subseteq Responses
           /\ \A x \in Ids : sse[s].clients[x] \in Responses \cup {NoClient}
<1>1. sse[s] \in AStreamer BY TypeParts DEF Basics, SseTyped, AStreamer
<1> QED BY <1>1, StreamerElim DEF AStreamer

\* Responses are requests or panels, and never the lack of a client.
LEMMA ResponsesElim ==
           /\ NoClient \notin Responses /\ Requests \subseteq Responses
           /\ Listeners \subseteq Responses /\ Requests \cap Listeners = {}
           /\ Chats \cap Listeners = {} /\ Chats \subseteq Ids /\ Listeners \subseteq Ids
           /\ \A w \in Responses : w \in Requests \/ w \in Listeners
BY StreamsAssumption DEF StreamsAssumption, Responses, Ids

LEMMA DecliningElim ==
    ASSUME Basics, NEW s \in Replicas, NEW t, Declining(s, t)
    PROVE  /\ \A x \in Ids : t.clients[x] # NoClient => t.clients[x] = sse[s].clients[x]
           /\ \A x \in Ids : t.observers[x] \subseteq sse[s].observers[x]
           /\ \A w \in Responses : sse[s].out[w] \subseteq t.out[w]
           /\ \A w \in Responses : t.out[w] # sse[s].out[w] =>
                 w # NoClient /\ \E x \in Ids : sse[s].clients[x] = w
           /\ sse[s].ended \subseteq t.ended
           /\ \A w \in t.ended \ sse[s].ended :
                 w # NoClient /\ \E x \in Ids : sse[s].clients[x] = w /\ t.clients[x] = NoClient
           /\ \A x \in Ids : \A o \in sse[s].observers[x] \ t.observers[x] :
                 \/ t.clients[o] = NoClient \/ t.clients[o] \in broken
                 \/ <<"executionEnd", x>> \in t.out[t.clients[o]]
<1>1. PICK ids \in SUBSET Ids : Declines(sse[s], t, broken, ids) BY DEF Declining
<1>2. Fades(sse[s], t) /\ Tells(sse[s], t, broken) BY <1>1 DEF Declines
<1>3. \A x \in Ids : \A o \in sse[s].observers[x] \ t.observers[x] :
         \/ t.clients[o] = NoClient \/ t.clients[o] \in broken
         \/ <<"executionEnd", x>> \in t.out[t.clients[o]]
  BY <1>2, StreamerTyped DEF Tells
<1>4. /\ \A x \in Ids : t.clients[x] # NoClient => t.clients[x] = sse[s].clients[x]
      /\ \A x \in Ids : t.observers[x] \subseteq sse[s].observers[x]
      /\ \A w \in Responses : sse[s].out[w] \subseteq t.out[w]
      /\ sse[s].ended \subseteq t.ended
  BY <1>2, StreamerTyped DEF Fades
<1>5. \A w \in Responses : t.out[w] # sse[s].out[w] =>
         w # NoClient /\ \E x \in Ids : sse[s].clients[x] = w
  BY <1>2, StreamerTyped DEF Fades
<1>6. \A w \in t.ended \ sse[s].ended :
         w # NoClient /\ \E x \in Ids : sse[s].clients[x] = w /\ t.clients[x] = NoClient
  BY <1>2, StreamerTyped DEF Fades
<1> QED BY <1>3, <1>4, <1>5, <1>6

\* A streamer that declines ends nobody it keeps.
LEMMA DecliningOwned ==
    ASSUME OwnersInv, NEW s \in Replicas, NEW t, Declining(s, t)
    PROVE  /\ \A x \in Ids : t.clients[x] # NoClient =>
                 OwnedBy(s, x, t.clients[x]) /\ t.clients[x] \notin t.ended
           /\ \A w \in t.ended :
                 /\ w \in Requests /\ Streams(w) => req[w].pc \notin EarlyPcs
                 /\ w \in Listeners => panel[w] \notin EarlyStages
           /\ \A w \in sse[s].ended \cap Responses : t.out[w] = sse[s].out[w]
<1>1. Basics /\ ClientsOwned /\ EndedStarted BY DEF OwnersInv
<1>2. ASSUME NEW x \in Ids, t.clients[x] # NoClient
      PROVE  OwnedBy(s, x, t.clients[x]) /\ t.clients[x] \notin t.ended
  <2> DEFINE w == t.clients[x]
  <2>1. w = sse[s].clients[x] BY <1>1, <1>2, DecliningElim
  <2>2. OwnedBy(s, x, w) /\ w \notin sse[s].ended /\ w \in Responses
    BY <1>1, <1>2, <2>1, StreamerTyped DEF ClientsOwned
  <2>3. ASSUME w \in t.ended PROVE FALSE
    <3>1. PICK y \in Ids : sse[s].clients[y] = w /\ t.clients[y] = NoClient
      BY <1>1, <2>2, <2>3, DecliningElim
    <3>2. OwnedBy(s, y, w) BY <1>1, <1>2, <3>1 DEF ClientsOwned
    <3>3. x = y BY <2>2, <3>2, ResponsesElim DEF OwnedBy
    <3> QED BY <1>2, <3>1, <3>3
  <2> QED BY <2>2, <2>3
<1>3. ASSUME NEW w \in t.ended
      PROVE  /\ w \in Requests /\ Streams(w) => req[w].pc \notin EarlyPcs
             /\ w \in Listeners => panel[w] \notin EarlyStages
  <2>1. CASE w \in sse[s].ended BY <1>1, <2>1 DEF EndedStarted
  <2>2. CASE w \notin sse[s].ended
    <3>1. PICK y \in Ids : sse[s].clients[y] = w /\ w # NoClient BY <1>1, <2>2, DecliningElim
    <3>2. OwnedBy(s, y, w) BY <1>1, <3>1 DEF ClientsOwned
    <3> QED BY <3>2 DEF OwnedBy
  <2> QED BY <2>1, <2>2
<1>4. ASSUME NEW w \in sse[s].ended \cap Responses, t.out[w] # sse[s].out[w] PROVE FALSE
  <2>1. PICK y \in Ids : sse[s].clients[y] = w /\ w # NoClient BY <1>1, <1>4, DecliningElim
  <2> QED BY <1>1, <2>1 DEF ClientsOwned
<1> QED BY <1>2, <1>3, <1>4

\* The effect of a new client on a streamer.
Connects(s, x, w) ==
    /\ \A y \in Ids : sse'[s].clients[y] = IF y = x THEN w ELSE sse[s].clients[y]
    /\ sse'[s].observers = sse[s].observers /\ sse'[s].out = sse[s].out
    /\ sse'[s].ended = sse[s].ended

LEMMA ConnectingEffect ==
    ASSUME Basics, NEW s \in Replicas, Connecting(s)
    PROVE  \E x \in Ids, w \in Responses :
              /\ Connects(s, x, w)
              /\ \/ /\ w \in Requests /\ x = ChatOf(w) /\ s = Home(w) /\ Streams(w)
                    /\ req[w].pc \in EarlyPcs /\ req'[w].pc \notin EarlyPcs
                 \/ /\ w \in Listeners /\ x = w /\ s = setup.seat[w]
                    /\ panel[w] = "opening" /\ panel'[w] \notin EarlyStages
<1>1. PICK x \in Ids, w \in Responses :
         /\ sse'[s] = AddClient(sse[s], x, w)
         /\ \/ /\ w \in Requests /\ x = ChatOf(w) /\ s = Home(w) /\ Streams(w)
               /\ req[w].pc \in EarlyPcs /\ req'[w].pc \notin EarlyPcs
            \/ /\ w \in Listeners /\ x = w /\ s = setup.seat[w]
               /\ panel[w] = "opening" /\ panel'[w] \notin EarlyStages
  BY DEF Connecting
<1>2. /\ sse'[s].clients = [sse[s].clients EXCEPT ![x] = w]
      /\ sse'[s].observers = sse[s].observers /\ sse'[s].out = sse[s].out
      /\ sse'[s].ended = sse[s].ended
  BY <1>1, StreamerTyped, AddClientEffect DEF AStreamer
<1>3. Connects(s, x, w) BY <1>2, StreamerTyped DEF Connects
<1> QED BY <1>1, <1>3

\* What a step leaves of the connections of one streamer.
OwnedAfter(s) ==
    /\ \A x \in Ids : sse'[s].clients[x] # NoClient =>
          OwnedNext(s, x, sse'[s].clients[x]) /\ sse'[s].clients[x] \notin sse'[s].ended
    /\ \A w \in sse'[s].ended :
          /\ w \in Requests /\ Streams(w) => req'[w].pc \notin EarlyPcs
          /\ w \in Listeners => panel'[w] \notin EarlyStages
    /\ \A w \in sse[s].ended : sse'[s].out[w] = sse[s].out[w]

LEMMA OwnedAfterDeclining ==
    ASSUME OwnersInv, Next, NEW s \in Replicas, Declining(s, sse'[s])
    PROVE  OwnedAfter(s)
<1>1. Basics BY DEF OwnersInv
<1>2. \A x \in Ids : sse'[s].clients[x] # NoClient =>
         OwnedNext(s, x, sse'[s].clients[x]) /\ sse'[s].clients[x] \notin sse'[s].ended
  BY <1>1, DecliningOwned, OwnedStays
<1>3. \A w \in sse'[s].ended :
         /\ w \in Requests /\ Streams(w) => req'[w].pc \notin EarlyPcs
         /\ w \in Listeners => panel'[w] \notin EarlyStages
  BY <1>1, DecliningOwned, WhoIsDone, PanelMoves
<1>4. \A w \in sse[s].ended : sse'[s].out[w] = sse[s].out[w]
  BY <1>1, DecliningOwned, StreamerTyped
<1> QED BY <1>2, <1>3, <1>4 DEF OwnedAfter

LEMMA OwnedAfterConnecting ==
    ASSUME OwnersInv, Next, NEW s \in Replicas, Connecting(s)
    PROVE  OwnedAfter(s)
<1>0. Basics /\ ClientsOwned /\ EndedStarted /\ setup' = setup BY SetupStays DEF OwnersInv
<1>1. PICK x \in Ids, w \in Responses :
         /\ Connects(s, x, w)
         /\ \/ /\ w \in Requests /\ x = ChatOf(w) /\ s = Home(w) /\ Streams(w)
               /\ req[w].pc \in EarlyPcs /\ req'[w].pc \notin EarlyPcs
            \/ /\ w \in Listeners /\ x = w /\ s = setup.seat[w]
               /\ panel[w] = "opening" /\ panel'[w] \notin EarlyStages
  BY <1>0, ConnectingEffect
<1>2. /\ \A y \in Ids : sse'[s].clients[y] = IF y = x THEN w ELSE sse[s].clients[y]
      /\ sse'[s].out = sse[s].out /\ sse'[s].ended = sse[s].ended
  BY <1>1 DEF Connects
<1>3. OwnedNext(s, x, w)
  BY <1>1, ResponsesElim DEF OwnedNext
<1>4. w \notin sse[s].ended BY <1>0, <1>1 DEF EndedStarted, EarlyStages
<1>5. ASSUME NEW y \in Ids, sse'[s].clients[y] # NoClient
      PROVE  OwnedNext(s, y, sse'[s].clients[y]) /\ sse'[s].clients[y] \notin sse'[s].ended
  <2>1. CASE y = x BY <1>2, <1>3, <1>4, <2>1
  <2>2. CASE y # x
    <3>1. sse'[s].clients[y] = sse[s].clients[y] BY <1>2, <2>2
    <3>2. OwnedBy(s, y, sse[s].clients[y]) /\ sse[s].clients[y] \notin sse[s].ended
      BY <1>0, <1>5, <3>1 DEF ClientsOwned
    <3> QED BY <1>0, <1>2, <3>1, <3>2, OwnedStays
  <2> QED BY <2>1, <2>2
<1>6. \A v \in sse'[s].ended :
         /\ v \in Requests /\ Streams(v) => req'[v].pc \notin EarlyPcs
         /\ v \in Listeners => panel'[v] \notin EarlyStages
  BY <1>0, <1>2, WhoIsDone, PanelMoves DEF EndedStarted
<1> QED BY <1>2, <1>5, <1>6 DEF OwnedAfter

LEMMA OwnedAfterObserving ==
    ASSUME OwnersInv, Next, NEW s \in Replicas, Observing(s)
    PROVE  OwnedAfter(s)
<1>0. Basics /\ ClientsOwned /\ EndedStarted BY DEF OwnersInv
<1>1. /\ sse'[s].clients = sse[s].clients /\ sse'[s].out = sse[s].out
      /\ sse'[s].ended = sse[s].ended
  BY DEF Observing
<1>2. \A y \in Ids : sse'[s].clients[y] # NoClient =>
         OwnedNext(s, y, sse'[s].clients[y]) /\ sse'[s].clients[y] \notin sse'[s].ended
  BY <1>0, <1>1, OwnedStays DEF ClientsOwned
<1>3. \A v \in sse'[s].ended :
         /\ v \in Requests /\ Streams(v) => req'[v].pc \notin EarlyPcs
         /\ v \in Listeners => panel'[v] \notin EarlyStages
  BY <1>0, <1>1, WhoIsDone, PanelMoves DEF EndedStarted
<1> QED BY <1>1, <1>2, <1>3 DEF OwnedAfter

LEMMA OwnedAfterAnswering ==
    ASSUME OwnersInv, Next, NEW s \in Replicas, Answering(s)
    PROVE  OwnedAfter(s)
<1>0. Basics BY DEF OwnersInv
<1>1. PICK r \in Requests, u \in AStreamer :
         /\ sse'[s] = Answered(u, r) /\ Declining(s, u)
         /\ ~Streams(r) \/ (req[r].pc = "bound" /\ req'[r].pc = "rejected")
  BY DEF Answering
<1>2. sse'[s].clients = u.clients /\ sse'[s].out = u.out /\ sse'[s].ended = u.ended \cup {r}
  BY <1>1, AnsweredType
<1>3. /\ \A x \in Ids : u.clients[x] # NoClient =>
            OwnedBy(s, x, u.clients[x]) /\ u.clients[x] \notin u.ended
      /\ \A w \in u.ended :
            /\ w \in Requests /\ Streams(w) => req[w].pc \notin EarlyPcs
            /\ w \in Listeners => panel[w] \notin EarlyStages
      /\ \A w \in sse[s].ended \cap Responses : u.out[w] = sse[s].out[w]
  BY <1>1, DecliningOwned
<1>4. ASSUME NEW x \in Ids, sse'[s].clients[x] # NoClient
      PROVE  OwnedNext(s, x, sse'[s].clients[x]) /\ sse'[s].clients[x] \notin sse'[s].ended
  <2> DEFINE w == u.clients[x]
  <2>1. sse'[s].clients[x] = w /\ OwnedBy(s, x, w) /\ w \notin u.ended BY <1>2, <1>3, <1>4
  <2>2. w # r BY <1>1, <2>1 DEF OwnedBy, EarlyPcs
  <2> HIDE DEF w
  <2> QED BY <1>0, <1>2, <2>1, <2>2, OwnedStays
<1>5. ASSUME NEW w \in sse'[s].ended
      PROVE  /\ w \in Requests /\ Streams(w) => req'[w].pc \notin EarlyPcs
             /\ w \in Listeners => panel'[w] \notin EarlyStages
  <2>1. CASE w \in u.ended BY <1>0, <1>3, <2>1, WhoIsDone, PanelMoves
  <2>2. CASE w = r BY <1>1, <2>2, ResponsesElim DEF EarlyPcs
  <2> QED BY <1>2, <2>1, <2>2
<1>6. \A w \in sse[s].ended : sse'[s].out[w] = sse[s].out[w]
  BY <1>0, <1>2, <1>3, StreamerTyped
<1> QED BY <1>4, <1>5, <1>6 DEF OwnedAfter

LEMMA OwnersStep ==
    ASSUME OwnersInv, Next
    PROVE  OwnersInv' /\ \A s \in Replicas : OwnedAfter(s)
<1>1. Basics /\ setup' = setup BY SetupStays DEF OwnersInv
<1>2. ASSUME NEW s \in Replicas PROVE OwnedAfter(s)
  <2>1. StreamerStep(s) BY <1>1, SseStep DEF StreamersStep
  <2> QED BY <2>1, OwnedAfterDeclining, OwnedAfterConnecting, OwnedAfterObserving,
             OwnedAfterAnswering DEF StreamerStep
<1>3. ClientsOwned'
  BY <1>1, <1>2 DEF OwnedAfter, ClientsOwned, OwnedBy, OwnedNext, ChatOf, Home, Streams, Kind
<1>4. EndedStarted' BY <1>1, <1>2 DEF OwnedAfter, EndedStarted, Streams, Kind
<1> QED BY <1>1, <1>2, <1>3, <1>4, BasicsStep DEF OwnersInv

LEMMA OwnersInvariant == Spec => []OwnersInv
<1>1. Init => OwnersInv
  BY BasicsInit DEF Init, NewStreamer, OwnersInv, ClientsOwned, EndedStarted
<1>2. ASSUME OwnersInv, [Next]_vars PROVE OwnersInv'
  <2>1. CASE UNCHANGED vars
    <3>1. setup' = setup /\ sse' = sse /\ req' = req /\ panel' = panel
      BY <2>1 DEF vars
    <3>2. ClientsOwned' /\ EndedStarted'
      BY <1>2, <3>1
         DEF OwnersInv, ClientsOwned, EndedStarted, OwnedBy, ChatOf, Home, Streams, Kind
    <3> QED BY <1>2, <3>2, BasicsStep DEF OwnersInv
  <2> QED BY <1>2, <2>1, OwnersStep
<1> QED BY <1>1, <1>2, PTL DEF Spec

\* Nothing is written to a response that was ended, by whatever late event,
\* other request of the chat or second removal (SSEStreamer.removeClient takes
\* the client out of the map in the step that ends it).
THEOREM NothingAfterEndHolds == Spec => NothingAfterEnd
<1>1. ASSUME OwnersInv, [Next]_vars
      PROVE  [\A s \in Replicas : \A w \in sse[s].ended : sse'[s].out[w] = sse[s].out[w]]_vars
  <2>1. CASE Next BY <1>1, <2>1, OwnersStep DEF OwnedAfter
  <2> QED BY <1>1, <2>1
<1> QED BY <1>1, OwnersInvariant, PTL DEF Spec, NothingAfterEnd

LEMMA DetachedTold ==
    ASSUME OwnersInv, Next, NEW s \in Replicas, NEW c \in Chats, NEW l \in Listeners,
           l \in sse[s].observers[c] \ sse'[s].observers[c],
           sse'[s].clients[l] # NoClient, l \notin broken
    PROVE  <<"executionEnd", c>> \in sse'[s].out[l]
<1>0. Basics /\ c \in Ids /\ l \in Ids BY ResponsesElim DEF OwnersInv
<1>1. sse'[s].clients[l] = l
  <2>1. OwnersInv' BY OwnersStep
  <2>2. sse'[s] \in AStreamer BY <2>1, TypePartsNext DEF OwnersInv, Basics, SseTyped, AStreamer
  <2>3. sse'[s].clients[l] \in Responses BY <1>0, <2>2, StreamerElim DEF AStreamer
  <2>4. OwnedNext(s, l, sse'[s].clients[l]) BY <1>0, OwnersStep DEF OwnedAfter
  <2>5. sse'[s].clients[l] \in Requests => l \in Chats BY <1>0, <2>4, RunElim DEF OwnedNext
  <2> QED BY <2>3, <2>4, <2>5, ResponsesElim DEF OwnedNext
<1>2. CASE Declining(s, sse'[s]) BY <1>0, <1>1, <1>2, DecliningElim
<1>3. CASE Connecting(s)
  <2>1. PICK x \in Ids, w \in Responses : Connects(s, x, w) BY <1>0, <1>3, ConnectingEffect
  <2> QED BY <1>0, <2>1 DEF Connects
<1>4. CASE Observing(s) BY <1>0, <1>4 DEF Observing
<1>5. CASE Answering(s)
  <2>1. PICK r \in Requests, u \in AStreamer : sse'[s] = Answered(u, r) /\ Declining(s, u)
    BY <1>5 DEF Answering
  <2>2. sse'[s].clients = u.clients /\ sse'[s].out = u.out /\ sse'[s].observers = u.observers
    BY <2>1, AnsweredType
  <2> QED BY <1>0, <1>1, <2>1, <2>2, DecliningElim
<1> QED BY <1>0, <1>2, <1>3, <1>4, <1>5, SseStep DEF StreamersStep, StreamerStep

\* A panel that still has its connection is let go of a chat only with the news
\* that its execution has ended: by removeClient, never by a write, a heartbeat,
\* an abort of speech or somebody else's removal.
THEOREM NoSilentDetachHolds == Spec => NoSilentDetach
<1>1. ASSUME OwnersInv, [Next]_vars
      PROVE  [\A s \in Replicas, c \in Chats, l \in Listeners :
                 (/\ l \in sse[s].observers[c] \ sse'[s].observers[c]
                  /\ HasClient(sse[s], l)' /\ l \notin broken)
                 => <<"executionEnd", c>> \in sse'[s].out[l]]_vars
  <2>1. CASE Next BY <1>1, <2>1, DetachedTold DEF HasClient
  <2> QED BY <1>1, <2>1
<1> QED BY <1>1, OwnersInvariant, PTL DEF Spec, NoSilentDetach

----------------------------------------------------------------------------
(***************************************************************************)
(* The end of a stream                                                     *)
(***************************************************************************)
LEMMA BrokenGrows ==
    ASSUME Basics, Next
    PROVE  broken \subseteq broken'
<1>1. CASE faultVars' = faultVars BY <1>1 DEF faultVars
<1>2. CASE faultVars' # faultVars
  BY <1>2, FaultChanges, RedisAnswersLeaves
     DEF CountFails, LoseClient, Publish, Miss, BindThere, WorkerDies, AbortChat, AbortSpeech,
         FirstBeat, Unregister, Dismiss, ClosePanel, Close
<1> QED BY <1>1, <1>2

\* The client of a chat whose request stays where it is, alone and reachable,
\* stays the client.
LEMMA ClientStays ==
    ASSUME Basics, FellowsDisturbed, Next, NEW r \in Requests, InFlight(r), r \notin disturbed',
           r \notin broken, req'[r].pc = req[r].pc, sse[Home(r)].clients[ChatOf(r)] = r
    PROVE  sse'[Home(r)].clients[ChatOf(r)] = r
<1> DEFINE s == Home(r)
           c == ChatOf(r)
<1>0. s \in Replicas /\ c \in Ids /\ c \notin Listeners BY SseElim, ResponsesElim
<1>1. ~LetGo(c)
  <2>1. \A q \in Requests : ChatOf(q) = c => req'[q].pc = req[q].pc BY NobodyElse
  <2> QED BY <1>0, <2>1 DEF LetGo
<1>2. ASSUME NEW t, Declining(s, t) PROVE t.clients[c] = r
  <2>1. PICK ids \in SUBSET Ids : Declines(sse[s], t, broken, ids) /\ \A x \in ids : LetGo(x)
    BY <1>2 DEF Declining
  <2>2. Keeps(sse[s], t, broken, ids) /\ c \notin ids BY <1>1, <2>1 DEF Declines
  <2> QED BY <1>0, <2>2, StreamerTyped DEF Keeps
<1>3. CASE Connecting(s)
  <2>1. PICK x \in Ids, w \in Responses :
           /\ Connects(s, x, w)
           /\ \/ w \in Requests /\ x = ChatOf(w) /\ req'[w].pc # req[w].pc
              \/ w \in Listeners /\ x = w
    BY <1>0, <1>3, ConnectingEffect
  <2>2. x # c BY <1>0, <2>1, NobodyElse
  <2> QED BY <1>0, <2>1, <2>2 DEF Connects
<1>4. CASE Observing(s) BY <1>4 DEF Observing
<1>5. CASE Answering(s)
  <2>1. PICK q \in Requests, u \in AStreamer : sse'[s] = Answered(u, q) /\ Declining(s, u)
    BY <1>5 DEF Answering
  <2>2. sse'[s].clients = u.clients BY <2>1, AnsweredType
  <2> QED BY <1>2, <2>1, <2>2
<1> QED BY <1>0, <1>2, <1>3, <1>4, <1>5, SseStep DEF StreamersStep, StreamerStep

\* What was written stays written, and who was ended stays ended.
LEMMA StreamerGrows ==
    ASSUME Basics, Next, NEW s \in Replicas
    PROVE  /\ \A w \in Responses : sse[s].out[w] \subseteq sse'[s].out[w]
           /\ sse[s].ended \subseteq sse'[s].ended
<1>1. CASE Declining(s, sse'[s]) BY <1>1, DecliningElim
<1>2. CASE Connecting(s)
  <2>1. PICK x \in Ids, w \in Responses : Connects(s, x, w) BY <1>2, ConnectingEffect
  <2> QED BY <2>1 DEF Connects
<1>3. CASE Observing(s) BY <1>3 DEF Observing
<1>4. CASE Answering(s)
  <2>1. PICK r \in Requests, u \in AStreamer : sse'[s] = Answered(u, r) /\ Declining(s, u)
    BY <1>4 DEF Answering
  <2>2. sse'[s].out = u.out /\ sse'[s].ended = u.ended \cup {r} BY <2>1, AnsweredType
  <2> QED BY <2>1, <2>2, DecliningElim
<1> QED BY <1>1, <1>2, <1>3, <1>4, SseStep DEF StreamersStep, StreamerStep

LastTold(r, out) == <<"metadata", r>> \in out \/ <<"error", r>> \in out

\* At the place pc the streamer t of its home has, for a stream r: its client
\* until it is over; then its end, with the last event before it.
Serves(r, pc, t) ==
    /\ pc \notin EarlyPcs \cup {"done", "rejected"} => t.clients[ChatOf(r)] = r
    /\ pc \in {"done", "rejected"} => r \in t.ended
    /\ pc \in {"done", "unsubscribing"} => LastTold(r, t.out[r])
    /\ pc = "done" => <<"end", ChatOf(r)>> \in t.out[r]

Steady(r) == Streams(r) /\ r \notin disturbed /\ r \notin broken

StreamsServed == \A r \in Requests : Steady(r) => Serves(r, req[r].pc, sse[Home(r)])

LEMMA StandingServed ==
    ASSUME Basics, FellowsDisturbed, Next, NEW r \in Requests, r \notin disturbed', r \notin broken,
           req'[r].pc = req[r].pc, Serves(r, req[r].pc, sse[Home(r)])
    PROVE  Serves(r, req'[r].pc, sse'[Home(r)])
<1>0. Home(r) \in Replicas /\ r \in Responses BY SseElim
<1>1. CASE req[r].pc \notin EarlyPcs \cup {"done", "rejected"}
  <2>1. InFlight(r) BY <1>1 DEF InFlight, EarlyPcs
  <2>2. sse'[Home(r)].clients[ChatOf(r)] = r BY <1>1, <2>1, ClientStays DEF Serves
  <2> QED BY <1>0, <2>2, StreamerGrows DEF Serves, LastTold
<1>2. CASE req[r].pc \in EarlyPcs \cup {"done", "rejected"}
  BY <1>0, <1>2, StreamerGrows DEF Serves, LastTold, EarlyPcs
<1> QED BY <1>1, <1>2

LEMMA StreamStarts ==
    ASSUME Basics, NEW r \in Requests, Streams(r), BeginStream(r) \/ OpenBound(r)
    PROVE  /\ req'[r].pc \notin EarlyPcs \cup {"done", "rejected", "unsubscribing"}
           /\ sse'[Home(r)].clients[ChatOf(r)] = r
<1> DEFINE s == Home(r)
           c == ChatOf(r)
<1>0. s \in Replicas /\ c \in Ids /\ r \in Responses /\ sse[s] \in AStreamer
  BY SseElim
<1>1. sse' = [sse EXCEPT ![s] = AddClient(sse[s], c, r)]
  <2>1. CASE BeginStream(r) BY <2>1 DEF BeginStream
  <2>2. CASE OpenBound(r)
    <3>1. Kind(r) = "hookStream" BY <2>2, RequestFits DEF OpenBound, Fits, Streams, Hooks
    <3> QED BY <2>2, <3>1 DEF OpenBound
  <2> QED BY <2>1, <2>2
<1>2. sse'[s] = AddClient(sse[s], c, r) BY <1>0, <1>1, SseElim DEF SseTyped
<1>3. sse'[s].clients = [sse[s].clients EXCEPT ![c] = r] BY <1>0, <1>2, AddClientEffect DEF AStreamer
<1>4. sse'[s].clients[c] = r BY <1>0, <1>3, StreamerTyped
<1>5. req'[r].pc \in {"subscribing", "checking"}
  BY SseElim, GotoPc DEF BeginStream, OpenBound
<1> QED BY <1>4, <1>5 DEF EarlyPcs

LEMMA StreamCloses ==
    ASSUME Basics, NEW r \in Requests, Streams(r), CloseStream(r) \/ CloseHook(r),
           r \notin broken, sse[Home(r)].clients[ChatOf(r)] = r
    PROVE  Serves(r, req'[r].pc, sse'[Home(r)])
<1> DEFINE s == Home(r)
           c == ChatOf(r)
           u == WithLastEvent(r)
           t == RemoveClient(u, c, broken)
<1>0. /\ s \in Replicas /\ c \in Ids /\ r \in Responses /\ sse[s] \in AStreamer /\ r # NoClient
      /\ SseTyped /\ ReqTyped
  BY SseElim, ResponsesElim
<1>1. u \in AStreamer /\ Reaches(sse[s], u, c, LastEvent(r), broken)
  <2> DEFINE e == LastEvent(r)
  <2>1. u = SafeWrite(sse[s], c, e, broken) /\ e \in Events BY EventsOf DEF WithLastEvent
  <2> HIDE DEF u, e
  <2>2. u \in AStreamer /\ Reaches(sse[s], u, c, e, broken)
    BY <1>0, <2>1, SafeWriteDeclines DEF AStreamer
  <2> QED BY <2>2 DEF e
<1>2. LastTold(r, u.out[r]) /\ u.clients[c] = r
  BY <1>0, <1>1 DEF Reaches, LastEvent, LastTold
<1> HIDE DEF u
<1>3. Declines(u, t, broken, {c}) /\ Finishes(u, t, c, broken) BY <1>0, <1>1, Removal
<1> HIDE DEF t
<1>4. r \in t.ended /\ <<"end", c>> \in t.out[r] BY <1>0, <1>2, <1>3 DEF Finishes
<1>5. LastTold(r, t.out[r])
  <2>1. Fades(u, t) BY <1>3 DEF Declines
  <2>2. u.out[r] \subseteq t.out[r] BY <1>0, <1>1, <2>1, StreamerElim DEF Fades, AStreamer
  <2> QED BY <1>2, <2>2 DEF LastTold
<1>6. \/ req'[r].pc = "unsubscribing" /\ sse' = [sse EXCEPT ![s] = u]
      \/ req'[r].pc = "done" /\ sse' = [sse EXCEPT ![s] = t]
  BY <1>0, GotoPc DEF CloseStream, CloseHook, Streams, u, t
<1>7. sse' = [sse EXCEPT ![s] = u] => sse'[s] = u BY <1>0 DEF SseTyped
<1>8. sse' = [sse EXCEPT ![s] = t] => sse'[s] = t BY <1>0 DEF SseTyped
<1> QED BY <1>2, <1>4, <1>5, <1>6, <1>7, <1>8 DEF Serves

\* Redis has answered the command a stream waits for.
LEMMA AnsweredServed ==
    ASSUME Basics, NEW r \in Requests, Streams(r), r \notin broken, setup' = setup,
           Serves(r, req[r].pc, sse[Home(r)]), req[r].pc \in Awaiting,
           NEW s \in Replicas, RedisAnswers(s), Head(commands[s]).by = r
    PROVE  Serves(r, req'[r].pc, sse'[Home(r)])
<1> DEFINE c == ChatOf(r)
           t == RemoveClient(sse[Home(r)], c, broken)
<1>0. /\ Home(r) \in Replicas /\ c \in Ids /\ r \in Responses /\ sse[Home(r)] \in AStreamer
      /\ r # NoClient /\ r # NoOne /\ SseTyped /\ ReqTyped
  BY SseElim, ResponsesElim, StreamsAssumption DEF StreamsAssumption
<1>1. PICK ok \in BOOLEAN : Resume(Head(commands[s]), ok) BY RedisAnswersParts
<1>2. CASE req[r].pc = "unsubscribing"
  <2>1. req'[r].pc = "done" /\ sse' = [sse EXCEPT ![Home(r)] = t]
    BY <1>0, <1>1, <1>2, GotoPc DEF Resume, Leave
  <2>2. sse'[Home(r)] = t BY <1>0, <2>1 DEF SseTyped
  <2>3. Declines(sse[Home(r)], t, broken, {c}) /\ Finishes(sse[Home(r)], t, c, broken)
    BY <1>0, Removal
  <2> HIDE DEF t
  <2>4. sse[Home(r)].clients[c] = r /\ LastTold(r, sse[Home(r)].out[r])
    BY <1>2 DEF Serves, EarlyPcs
  <2>5. r \in t.ended /\ <<"end", c>> \in t.out[r] BY <1>0, <2>3, <2>4 DEF Finishes
  <2>6. sse[Home(r)].out[r] \subseteq t.out[r]
    BY <1>0, <2>3, StreamerTyped DEF Declines, Fades
  <2> QED BY <2>1, <2>2, <2>4, <2>5, <2>6 DEF Serves, LastTold
<1>3. CASE req[r].pc = "subscribing"
  <2>1. sse' = sse /\ req'[r].pc \in {"checking", "failed"}
    BY <1>0, <1>1, <1>3, GotoPc DEF Resume
  <2> QED BY <1>3, <2>1 DEF Serves, EarlyPcs
<1>4. CASE req[r].pc = "bindSubscribing"
  <2>1. req'[r].pc \in {"binding", "bound"}
    BY <1>0, <1>1, <1>4 DEF Resume, AfterBind, ReqTyped, Request
  <2> QED BY <2>1 DEF Serves, EarlyPcs
<1> QED BY <1>2, <1>3, <1>4 DEF Awaiting

LEMMA MovingServed ==
    ASSUME Basics, Next, NEW r \in Requests, Streams(r), r \notin broken,
           req'[r].pc # req[r].pc, Serves(r, req[r].pc, sse[Home(r)])
    PROVE  Serves(r, req'[r].pc, sse'[Home(r)])
<1>0. Home(r) \in Replicas /\ sse[Home(r)] \in AStreamer /\ SseTyped /\ ReqTyped /\ setup' = setup
  BY SseElim, SetupStays
<1>1. CASE BeginStream(r) \/ OpenBound(r) BY <1>1, StreamStarts DEF Serves
<1>2. CASE CloseStream(r) \/ CloseHook(r)
  <2>1. sse[Home(r)].clients[ChatOf(r)] = r
    BY <1>2 DEF CloseStream, CloseHook, Serves, EarlyPcs
  <2> QED BY <1>2, <2>1, StreamCloses
<1>3. CASE RejectBound(r)
  <2>1. req'[r].pc = "rejected" /\ sse'[Home(r)] = Answered(sse[Home(r)], r)
    BY <1>0, <1>3, GotoPc DEF RejectBound, SseTyped
  <2>2. r \in sse'[Home(r)].ended BY <1>0, <2>1, AnsweredType
  <2> QED BY <2>1, <2>2 DEF Serves
<1>4. CASE BeginHook(r) \/ \E l \in Listeners : BindHere(r, l) \/ BindThere(r, l)
  <2>1. req'[r].pc \in {"binding", "bindSubscribing", "bound"}
    <3>1. CASE BeginHook(r)
      BY <1>0, <3>1, GotoPc DEF BeginHook, AfterBind, ReqTyped, Request
    <3>2. ASSUME NEW l \in Listeners, BindHere(r, l) \/ BindThere(r, l)
          PROVE  req'[r].pc \in {"binding", "bindSubscribing", "bound"}
      BY <1>0, <3>2 DEF BindHere, BindThere, AfterBind, ReqTyped, Request
    <3> QED BY <1>4, <3>1, <3>2
  <2> QED BY <2>1 DEF Serves, EarlyPcs
<1>5. CASE Refuse(r) \/ Accept(r) \/ EndRun(r) \/ SeeResult(r) \/ CountFails(r)
  <2>1. /\ sse' = sse /\ req'[r].pc \in {"failed", "waiting", "running", "counting"}
        /\ req[r].pc \in {"checking", "running", "waiting", "counting"}
    BY <1>0, <1>5, GotoPc DEF Refuse, Accept, EndRun, SeeResult, CountFails
  <2> QED BY <2>1 DEF Serves, EarlyPcs
<1>7. ~BeginJson(r) /\ ~ReplyJson(r) /\ ~BeginCallback(r) /\ ~CallBack(r) /\ ~CallFails(r)
  BY RequestFits DEF BeginJson, ReplyJson, BeginCallback, CallBack, CallFails, Fits, Streams
<1>8. CASE /\ req[r].pc \in Awaiting
           /\ \E s \in Replicas : RedisAnswers(s) /\ Head(commands[s]).by = r
  BY <1>0, <1>8, AnsweredServed
<1> QED BY <1>1, <1>2, <1>3, <1>4, <1>5, <1>7, <1>8, WhoGoes DEF OwnStep

ServedInv == OwnersInv /\ ChatsInv /\ StreamsServed

LEMMA ServedStep ==
    ASSUME ServedInv, Next
    PROVE  StreamsServed'
<1>0. Basics /\ FellowsDisturbed /\ setup' = setup BY SetupStays DEF ServedInv, ChatsInv
<1>1. ASSUME NEW r \in Requests, Steady(r)'
      PROVE  Serves(r, req'[r].pc, sse'[Home(r)])
  <2>1. Steady(r) /\ r \notin disturbed'
    BY <1>0, <1>1, BrokenGrows, DisturbedTypedStep DEF Steady, Streams, Kind
  <2>2. Serves(r, req[r].pc, sse[Home(r)]) BY <2>1 DEF ServedInv, StreamsServed
  <2> QED BY <1>0, <2>1, <2>2, StandingServed, MovingServed DEF Steady
<1> QED BY <1>0, <1>1 DEF StreamsServed, Serves, ChatOf, Home

LEMMA ServedInvariant == Spec => []ServedInv
<1>1. Init => StreamsServed
  BY DEF Init, StreamsServed, Serves, EarlyPcs
<1>2. ASSUME ServedInv, [Next]_vars PROVE StreamsServed'
  <2>1. CASE UNCHANGED vars
    BY <1>2, <2>1 DEF vars, ServedInv, StreamsServed, Steady, Serves, Streams, Kind, ChatOf, Home
  <2> QED BY <1>2, <2>1, ServedStep
<1> QED BY <1>1, <1>2, OwnersInvariant, ChatsInvariant, PTL DEF Spec, ServedInv

\* A stream whose chat is its own ends when its request does, on every path and
\* with its last event in it: the client of the chat is this response until the
\* step that ends it (createPrediction, createWebhook, SSEStreamer.removeClient).
THEOREM OneEndPerStreamHolds == Spec => []OneEndPerStream
<1>1. ASSUME ServedInv, NEW r \in Requests, Steady(r)
      PROVE  /\ Ended(r) <=> req[r].pc \in {"done", "rejected"}
             /\ req[r].pc = "done" =>
                   /\ <<"end", ChatOf(r)>> \in Received(r)
                   /\ {<<"metadata", r>>, <<"error", r>>} \cap Received(r) # {}
  <2>0. Basics /\ ClientsOwned /\ EndedStarted /\ Serves(r, req[r].pc, sse[Home(r)])
    BY <1>1 DEF ServedInv, OwnersInv, StreamsServed
  <2>1. Home(r) \in Replicas /\ ChatOf(r) \in Ids /\ r # NoClient BY <2>0, SseElim, ResponsesElim
  <2>2. ASSUME Ended(r), req[r].pc \notin {"done", "rejected"} PROVE FALSE
    <3>1. req[r].pc \notin EarlyPcs BY <1>1, <2>0, <2>1, <2>2 DEF EndedStarted, Ended, Steady
    <3>2. sse[Home(r)].clients[ChatOf(r)] = r BY <2>0, <2>2, <3>1 DEF Serves
    <3> QED BY <2>0, <2>1, <2>2, <3>2 DEF ClientsOwned, Ended
  <2> QED BY <2>0, <2>2 DEF Serves, Ended, Received, LastTold
<1>2. ServedInv => OneEndPerStream
  BY <1>1 DEF OneEndPerStream, Steady, Alone
<1> QED BY <1>2, ServedInvariant, PTL

----------------------------------------------------------------------------
(***************************************************************************)
(* The channel of a stream in queue mode                                   *)
(***************************************************************************)
LEMMA UnsubscribesSent ==
    ASSUME Basics, NEW z \in Replicas, NEW h \in Command,
           commands' = [commands EXCEPT ![z] = Append(commands[z], h)],
           NEW s \in Replicas, NEW c, Unsubscribing(s, c)'
    PROVE  Unsubscribing(s, c) \/ (s = z /\ h.op = "unsubscribe" /\ h.chat = c)
<1>1. PICK i \in DOMAIN commands'[s] :
         commands'[s][i].op = "unsubscribe" /\ commands'[s][i].chat = c
  BY DEF Unsubscribing
<1>2. CASE s # z BY <1>1, <1>2, RedisElim DEF Unsubscribing
<1>3. CASE s = z
  <2>1. commands'[s] = Append(commands[s], h) /\ commands[s] \in Seq(Command)
    BY <1>3, RedisElim
  <2>2. i \in 1 .. Len(commands[s]) + 1 /\ DOMAIN commands[s] = 1 .. Len(commands[s])
    BY <1>1, <2>1, AppendProperties
  <2>3. \/ commands'[s][i] = commands[s][i] /\ i \in DOMAIN commands[s]
        \/ commands'[s][i] = h
    BY <2>1, <2>2, AppendProperties
  <2> QED BY <1>1, <1>3, <2>3 DEF Unsubscribing
<1> QED BY <1>2, <1>3

LEMMA SubscribesOnly ==
    ASSUME Basics, NEW z \in Replicas, NEW d \in Chats, NEW by \in Requests \cup {NoOne},
           Subscribe(z, d, by), NEW s \in Replicas, NEW c, Unsubscribing(s, c)'
    PROVE  Unsubscribing(s, c)
<1>1. CASE redisVars' = redisVars BY <1>1 DEF redisVars, Unsubscribing
<1>2. CASE Send(z, "subscribe", d, by)
  <2> DEFINE h == [op |-> "subscribe", chat |-> d, by |-> by]
  <2>1. commands' = [commands EXCEPT ![z] = Append(commands[z], h)] BY <1>2 DEF Send
  <2>2. h \in Command /\ h.op # "unsubscribe" BY DEF Command
  <2> HIDE DEF h
  <2> QED BY <2>1, <2>2, UnsubscribesSent
<1> QED BY <1>1, <1>2 DEF Subscribe, redisVars

\* A channel begins to be given up when its stream is closed, or the cleanup
\* finds it deserted.
LEMMA UnsubscribingStarts ==
    ASSUME Basics, Next, NEW s \in Replicas, NEW c, Unsubscribing(s, c)', ~Unsubscribing(s, c)
    PROVE  \/ \E q \in Requests : /\ CloseStream(q) /\ Home(q) = s /\ ChatOf(q) = c
                                  /\ req'[q].pc # req[q].pc
           \/ CleanUp(s) /\ c \in Stale(s)
<1>1. redisVars' # redisVars BY DEF redisVars, Unsubscribing
<1>2. ASSUME NEW q \in Requests, BeginStream(q) PROVE FALSE
  <2>1. Subscribe(Home(q), ChatOf(q), q) BY <1>1, <1>2 DEF BeginStream, redisVars
  <2> QED BY <2>1, SseElim, SubscribesOnly
<1>3. ASSUME NEW q \in Requests, NEW l \in Listeners, BindHere(q, l) PROVE FALSE
  <2>1. Subscribe(Home(q), ChatOf(q), q) BY <1>3 DEF BindHere
  <2> QED BY <2>1, SseElim, SubscribesOnly
<1>4. ASSUME NEW d \in Chats, NEW l \in Listeners, BindArrives(d, l) PROVE FALSE
  <2>1. Subscribe(setup.seat[l], d, NoOne) BY <1>1, <1>4 DEF BindArrives, redisVars
  <2>2. setup.seat[l] \in Replicas BY SetupElim, TypeParts DEF Basics
  <2> QED BY <2>1, <2>2, SubscribesOnly
<1>5. ASSUME NEW q \in Requests, CloseStream(q)
      PROVE  Home(q) = s /\ ChatOf(q) = c /\ req'[q].pc # req[q].pc
  <2>1. Send(Home(q), "unsubscribe", ChatOf(q), q) BY <1>1, <1>5 DEF CloseStream, redisVars
  <2> DEFINE h == [op |-> "unsubscribe", chat |-> ChatOf(q), by |-> q]
  <2>2. commands' = [commands EXCEPT ![Home(q)] = Append(commands[Home(q)], h)]
    BY <2>1 DEF Send
  <2>3. h \in Command /\ h.chat = ChatOf(q) BY SseElim DEF Command
  <2>4. req[q].pc \in {"counting", "failed"} /\ req'[q].pc \in {"unsubscribing", "done"}
    BY <1>5, GotoPc, SseElim DEF CloseStream
  <2> HIDE DEF h
  <2>5. Unsubscribing(s, c) \/ (s = Home(q) /\ h.op = "unsubscribe" /\ h.chat = c)
    BY <2>2, <2>3, SseElim, UnsubscribesSent
  <2> QED BY <2>3, <2>4, <2>5
<1>6. ASSUME NEW z \in Replicas, RedisAnswers(z) PROVE FALSE
  <2>1. commands[z] # <<>> /\ commands' = [commands EXCEPT ![z] = Tail(commands[z])]
    BY <1>6, RedisAnswersParts
  <2>2. PICK i \in DOMAIN commands'[s] :
           commands'[s][i].op = "unsubscribe" /\ commands'[s][i].chat = c
    BY DEF Unsubscribing
  <2>3. CASE s # z BY <2>1, <2>2, <2>3, RedisElim DEF Unsubscribing
  <2>4. CASE s = z
    <3>1. commands'[s] = Tail(commands[s]) /\ commands[s] \in Seq(Command) BY <2>1, <2>4, RedisElim
    <3> DEFINE n == Len(commands[s])
    <3>2. n \in Nat /\ DOMAIN commands[s] = 1 .. n BY <3>1
    <3>3. /\ Tail(commands[s]) \in Seq(Command) /\ Len(Tail(commands[s])) = n - 1
          /\ \A j \in 1 .. Len(Tail(commands[s])) : Tail(commands[s])[j] = commands[s][j + 1]
      BY <2>1, <2>4, <3>1, HeadTailProperties
    <3>4. DOMAIN commands'[s] = 1 .. n - 1 BY <3>1, <3>3
    <3>5. i \in 1 .. n - 1 /\ commands'[s][i] = commands[s][i + 1] BY <2>2, <3>1, <3>3, <3>4
    <3>6. i + 1 \in DOMAIN commands[s] BY <3>2, <3>5
    <3> QED BY <2>2, <3>5, <3>6 DEF Unsubscribing
  <2> QED BY <2>3, <2>4
<1>7. ASSUME NEW z \in Replicas, CleanUp(z) PROVE s = z /\ c \in Stale(s)
  <2> DEFINE S == Stale(z)
             n == Cardinality(S)
  <2>1. PICK order \in Orders(S) :
           commands' = [commands EXCEPT ![z] = commands[z] \o
              [i \in DOMAIN order |-> [op |-> "unsubscribe", chat |-> order[i], by |-> NoOne]]]
    BY <1>7 DEF CleanUp
  <2>2. PICK i \in DOMAIN commands'[s] :
           commands'[s][i].op = "unsubscribe" /\ commands'[s][i].chat = c
    BY DEF Unsubscribing
  <2>3. s = z BY <2>1, <2>2, RedisElim DEF Unsubscribing
  <2>4. S \subseteq Chats BY RedisElim DEF Stale
  <2>5. n \in Nat
    BY <2>4, StreamsAssumption, FS_Subset, FS_CardinalityType DEF StreamsAssumption
  <2>6. order \in [1 .. n -> S] BY <2>1 DEF Orders
  <2> DEFINE new == [j \in 1 .. n |-> [op |-> "unsubscribe", chat |-> order[j], by |-> NoOne]]
  <2>7. commands'[s] = commands[s] \o new BY <2>1, <2>3, <2>6, RedisElim
  <2>8. \A j \in 1 .. n : new[j] \in Command /\ new[j].chat \in S BY <2>4, <2>6 DEF Command
  <2> HIDE DEF n
  <2>9. new \in Seq(Command) /\ Len(new) = n BY <2>5, <2>8
  <2> HIDE DEF new, S
  <2>10. \/ i \in DOMAIN commands[s] /\ commands'[s][i] = commands[s][i]
         \/ i - Len(commands[s]) \in 1 .. n /\ commands'[s][i] = new[i - Len(commands[s])]
    BY <2>2, <2>5, <2>7, <2>9, RedisElim, ConcatProperties
  <2>11. c \in S BY <2>2, <2>8, <2>10 DEF Unsubscribing
  <2> QED BY <2>3, <2>11 DEF S
<1> QED BY <1>1, <1>2, <1>3, <1>4, <1>5, <1>6, <1>7, RedisChanges

\* While a stream awaits its job its channel is marked, and nobody gives it up.
Open(r, s, c) ==
    /\ req[r].pc \in {"subscribing", "checking", "waiting"} => ~Unsubscribing(s, c)
    /\ req[r].pc \in {"checking", "waiting"} => c \in subscribed[s]

LEMMA NotGivenUp ==
    ASSUME ServedInv, Next, NEW r \in Requests, Kind(r) = "stream", Steady(r), r \notin disturbed',
           NEW s, s = Home(r), NEW c, c = ChatOf(r), Open(r, s, c),
           req'[r].pc \in {"subscribing", "checking", "waiting"}
    PROVE  ~Unsubscribing(s, c)'
<1>0. Basics /\ FellowsDisturbed /\ Serves(r, req[r].pc, sse[Home(r)])
  BY DEF ServedInv, ChatsInv, StreamsServed
<1>1. s \in Replicas /\ c \in Ids /\ r # NoClient BY <1>0, SseElim, ResponsesElim
<1>2. req[r].pc \notin {"binding", "bindSubscribing", "bound"}
  BY <1>0, RequestFits DEF Fits, Hooks
<1>3. req[r].pc \in {"idle", "subscribing", "checking", "waiting"}
  BY <1>0, <1>2, RequestsStep DEF Moving, Moves
<1>4. CASE Unsubscribing(s, c)
  <2>1. req[r].pc = "idle" BY <1>3, <1>4 DEF Open
  <2>2. Meet(r) BY <1>0, <2>1, WhoBegins
  <2> QED BY <1>4, <2>2 DEF Meet
<1>5. ASSUME Unsubscribing(s, c)', NEW q \in Requests, CloseStream(q), ChatOf(q) = c,
             req'[q].pc # req[q].pc
      PROVE  FALSE
  <2>1. q # r BY <1>3, <1>5 DEF CloseStream
  <2>2. req[r].pc # "idle" BY <1>0, <1>5, <2>1, OneMoves
  <2>3. InFlight(r) BY <1>3, <2>2 DEF InFlight
  <2> QED BY <1>0, <1>5, <2>1, <2>3, NobodyElse
<1>6. ASSUME CleanUp(s), c \in Stale(s) PROVE FALSE
  <2>1. req' = req BY <1>6 DEF CleanUp
  <2>2. sse[s].clients[c] = r BY <1>0, <2>1 DEF Serves, EarlyPcs
  <2> QED BY <1>1, <1>6, <2>2 DEF Stale, HasClientOrObserver, HasClient
<1> QED BY <1>0, <1>1, <1>4, <1>5, <1>6, UnsubscribingStarts

LEMMA StaysMarked ==
    ASSUME Basics, Next, NEW s \in Replicas, NEW c \in Chats, c \in subscribed[s],
           ~Unsubscribing(s, c)
    PROVE  c \in subscribed'[s]
<1>1. CASE subscribed' = subscribed BY <1>1
<1>2. ASSUME NEW z \in Replicas, RedisAnswers(z) PROVE c \in subscribed'[s]
  <2> DEFINE h == Head(commands[z])
  <2>1. CASE z # s \/ h.chat # c BY <1>2, <2>1, AnswerEffect
  <2>2. CASE z = s /\ h.chat = c
    <3>1. commands[s] # <<>> /\ commands[s] \in Seq(Command)
      BY <1>2, <2>2, RedisAnswersParts, RedisElim
    <3>2. 1 \in DOMAIN commands[s] /\ h = commands[s][1] /\ h \in Command BY <2>2, <3>1
    <3>3. h.op # "unsubscribe" BY <2>2, <3>2 DEF Unsubscribing
    <3>4. h.op = "subscribe" BY <3>2, <3>3 DEF Command
    <3> QED BY <1>2, <2>2, <3>4, AnswerEffect
  <2> QED BY <2>1, <2>2
<1> QED BY <1>1, <1>2, RedisStep

LEMMA BecomesMarked ==
    ASSUME Basics, Next, NEW r \in Requests, req[r].pc = "subscribing", req'[r].pc = "checking"
    PROVE  ChatOf(r) \in subscribed'[Home(r)]
<1>1. ~OwnStep(r)
  BY RequestFits DEF OwnStep, BeginStream, BeginJson, BeginHook, RejectBound, OpenBound, Refuse, Accept,
     Emit, EndRun, SeeResult, CountFails, CloseStream, ReplyJson, CloseHook, BeginCallback, CallBack,
     CallFails, BindHere, BindThere, Publish, Fits
<1>2. PICK s \in Replicas : RedisAnswers(s) /\ Head(commands[s]).by = r
  BY <1>1, WhoGoes
<1> DEFINE h == Head(commands[s])
<1>3. commands[s] # <<>> /\ commands[s] \in Seq(Command) BY <1>2, RedisAnswersParts, RedisElim
<1>4. 1 \in DOMAIN commands[s] /\ h = commands[s][1] /\ h \in Command BY <1>3
<1>5. r # NoOne /\ h.by = r BY <1>2, StreamsAssumption DEF StreamsAssumption
<1>6. Home(r) = s /\ ChatOf(r) = h.chat /\ req[r].pc \in AwaitingPcs(h.op)
  BY <1>4, <1>5, AwaitedElim
<1>7. h.op = "subscribe" BY <1>6 DEF AwaitingPcs
<1>8. Answer(s, h)
  <2>1. SUFFICES ASSUME Refusal(s, h) PROVE FALSE BY <1>2 DEF RedisAnswers
  <2>2. Goto(r, "failed") BY <1>5, <2>1 DEF Refusal, Resume
  <2> QED BY <2>2, GotoPc, SseElim
<1>9. subscribed' = [subscribed EXCEPT ![s] = subscribed[s] \cup {h.chat}]
  BY <1>7, <1>8 DEF Answer
<1> QED BY <1>6, <1>9, RedisElim

LEMMA OpenStep ==
    ASSUME ServedInv, Next, NEW r \in Requests, Kind(r) = "stream", Queued, Steady(r),
           r \notin disturbed', NEW s, s = Home(r), NEW c, c = ChatOf(r), Open(r, s, c)
    PROVE  Open(r, s, c)'
<1>0. Basics BY DEF ServedInv, ChatsInv
<1>1. s \in Replicas /\ c \in Chats BY <1>0, SseElim
<1>2. ASSUME req'[r].pc \in {"checking", "waiting"} PROVE c \in subscribed'[s]
  <2>1. req[r].pc \in {"idle", "subscribing", "checking", "waiting"}
    BY <1>0, <1>2, RequestFits, RequestsStep DEF Moving, Moves, Fits, Hooks
  <2>2. CASE req[r].pc \in {"checking", "waiting"} BY <1>0, <1>1, <2>2, StaysMarked DEF Open
  <2>3. CASE req[r].pc = "subscribing"
    <3>1. req'[r].pc = "checking" BY <1>0, <1>2, <2>3, RequestsStep DEF Moving, Moves
    <3> QED BY <1>0, <2>3, <3>1, BecomesMarked
  <2>4. CASE req[r].pc = "idle"
    <3>1. OwnStep(r) BY <1>0, <1>2, <2>4, WhoGoes DEF Awaiting
    <3>2. BeginStream(r)
      BY <1>0, <2>4, <3>1, RequestFits
         DEF OwnStep, BeginJson, BeginHook, RejectBound, OpenBound, Refuse, Accept, Emit, EndRun,
             SeeResult, CountFails, CloseStream, ReplyJson, CloseHook, BeginCallback, CallBack,
             CallFails, BindHere, BindThere, Publish, Fits, Hooks
    <3>3. c \in subscribed[s]
      BY <1>0, <1>2, <3>2, GotoPc, SseElim DEF BeginStream
    <3>4. subscribed' = subscribed BY <3>2, <3>3 DEF BeginStream, Subscribe, redisVars
    <3> QED BY <3>3, <3>4
  <2> QED BY <2>1, <2>2, <2>3, <2>4
<1> QED BY <1>2, NotGivenUp DEF Open

----------------------------------------------------------------------------
(***************************************************************************)
(* The events of a stream                                                  *)
(***************************************************************************)
\* The numbers of a request change when it emits, or when its replica misses an
\* event: then nothing emitted so far is counted on.
LEMMA WhoCounts ==
    ASSUME Basics, Next, NEW r \in Requests,
           req'[r].tokens # req[r].tokens \/ req'[r].dropped # req[r].dropped
    PROVE  Emit(r) \/ Publish(r) \/ (Missing(r) /\ req'[r].dropped = req'[r].tokens)
<1>0. ReqTyped /\ r # NoOne BY SseElim, StreamsAssumption DEF StreamsAssumption
<1>1. ASSUME NEW p, Goto(r, p) PROVE FALSE
  BY <1>0, <1>1 DEF Goto, ReqTyped, Request
<1>2. ASSUME BeginStream(r) \/ BeginJson(r) \/ RejectBound(r) \/ OpenBound(r) \/ Refuse(r)
             \/ Accept(r) \/ EndRun(r) \/ SeeResult(r) \/ CountFails(r) \/ CloseStream(r)
             \/ ReplyJson(r) \/ CloseHook(r)
      PROVE  FALSE
  <2>1. \E p : Goto(r, p)
    BY <1>2 DEF BeginStream, BeginJson, RejectBound, OpenBound, Refuse, Accept, EndRun, SeeResult,
                CountFails, CloseStream, ReplyJson, CloseHook
  <2> QED BY <1>1, <2>1
<1>3. ASSUME BeginHook(r) PROVE FALSE
  BY <1>0, <1>1, <1>3 DEF BeginHook, ReqTyped, Request
<1>4. ASSUME BeginCallback(r) \/ CallBack(r) PROVE FALSE
  BY <1>0, <1>4 DEF BeginCallback, CallBack, ReqTyped, Request
<1>5. ASSUME CallFails(r) PROVE FALSE BY <1>0, <1>5 DEF CallFails, ReqTyped, Request
<1>6. ASSUME NEW l \in Listeners, BindHere(r, l) \/ BindThere(r, l) PROVE FALSE
  BY <1>0, <1>6 DEF BindHere, BindThere, ReqTyped, Request
<1>7. ASSUME NEW s \in Replicas, RedisAnswers(s), Head(commands[s]).by = r PROVE FALSE
  <2>1. PICK ok \in BOOLEAN : Resume(Head(commands[s]), ok) BY <1>7, RedisAnswersParts
  <2>2. \/ \E p : Goto(r, p)
        \/ \E x, y : req' = [req EXCEPT ![r].todo = x, ![r].pc = y]
    BY <1>0, <1>7, <2>1 DEF Resume
  <2> QED BY <1>0, <1>1, <2>2 DEF ReqTyped, Request
<1>8. ASSUME Missing(r) PROVE req'[r].dropped = req'[r].tokens
  <2>1. PICK s \in Replicas : Miss(s) /\ Head(wire) = r BY <1>8 DEF Missing
  <2>2. req' = [req EXCEPT ![r].dropped = IF Home(r) = s THEN req[r].tokens ELSE req[r].dropped]
    BY <2>1 DEF Miss
  <2> QED BY <1>0, <2>2 DEF ReqTyped, Request
<1> QED BY <1>2, <1>3, <1>4, <1>5, <1>6, <1>7, <1>8, WhoMoves DEF OwnStep

\* Nothing is emitted before the run.
TokensLater ==
    \A r \in Requests :
        req[r].tokens > 0 => req[r].pc \notin EarlyPcs \cup {"subscribing", "checking"}

LEMMA TokensLaterStep ==
    ASSUME Basics, TokensLater, Next
    PROVE  TokensLater'
<1>1. ASSUME NEW r \in Requests, req'[r].tokens > 0
      PROVE  req'[r].pc \notin EarlyPcs \cup {"subscribing", "checking"}
  <2>1. CASE Emit(r) \/ Publish(r)
    <3>1. req[r].pc \in {"running", "waiting"}
      BY <2>1, RequestFits DEF Emit, Publish, Fits
    <3>2. req'[r].pc = req[r].pc BY <2>1, SetupStays, EmitCounts, CountingReq
    <3> QED BY <3>1, <3>2 DEF EarlyPcs
  <2>2. CASE req'[r].tokens = req[r].tokens
    <3>1. req[r].pc \notin EarlyPcs \cup {"subscribing", "checking"}
      BY <1>1, <2>2 DEF TokensLater
    <3> QED BY <3>1, RequestsStep DEF Moving, Moves, EarlyPcs
  <2>3. CASE Missing(r)
    <3>1. PICK s \in Replicas : Miss(s) /\ Head(wire) = r BY <2>3 DEF Missing
    <3>2. req'[r].tokens = req[r].tokens BY <3>1, SseElim DEF Miss, ReqTyped, Request
    <3> QED BY <2>2, <3>2
  <2> QED BY <2>1, <2>2, <2>3, WhoCounts
<1> QED BY <1>1 DEF TokensLater

LEMMA WireChanges ==
    ASSUME Basics, Next
    PROVE  \/ wire' = wire
           \/ \E q \in Requests : wire' = Append(wire, q)
           \/ Deliver \/ \E s \in Replicas : Miss(s)
<1>1. CASE runVars' = runVars BY <1>1 DEF runVars
<1>2. CASE runVars' # runVars
  BY <1>2, RunChanges, RedisAnswersLeaves
     DEF Refuse, Accept, EndRun, CountFails, TakeJob, Publish, EndJob, WorkerDies, AbortArrives,
         AbortChat, runVars
<1> QED BY <1>1, <1>2

\* The event at the head of the wire is written to the client of its chat, where
\* it is heard and the channel has a handler.
LEMMA Delivered ==
    ASSUME Basics, NEW r \in Requests, NEW S, Heard(r, S), NEW s \in Replicas, s \in S,
           handlers[s][ChatOf(r)] > 0, sse[s].clients[ChatOf(r)] = r, r \notin broken
    PROVE  <<"token", r>> \in sse'[s].out[r]
<1> DEFINE e == <<"token", r>>
           c == ChatOf(r)
           t == SafeWrite(sse[s], c, e, broken)
<1>1. sse'[s] = t BY DEF Heard
<1>2. e \in Events /\ c \in Ids /\ sse[s] \in AStreamer /\ r # NoClient
  BY EventsOf, SseElim, StreamerTyped, ResponsesElim
<1> HIDE DEF e
<1>3. Reaches(sse[s], t, c, e, broken) BY <1>2, SafeWriteDeclines DEF AStreamer
<1> HIDE DEF t
<1> QED BY <1>1, <1>2, <1>3 DEF Reaches, e

LEMMA Emitted ==
    ASSUME Basics, NEW r \in Requests, Emit(r), sse[Home(r)].clients[ChatOf(r)] = r, r \notin broken
    PROVE  <<"token", r>> \in sse'[Home(r)].out[r]
<1> DEFINE e == <<"token", r>>
           c == ChatOf(r)
           s == Home(r)
           t == SafeWrite(sse[s], c, e, broken)
<1>1. sse' = [sse EXCEPT ![s] = t] BY DEF Emit
<1>2. /\ e \in Events /\ c \in Ids /\ sse[s] \in AStreamer /\ r # NoClient /\ s \in Replicas
      /\ SseTyped
  BY EventsOf, SseElim, ResponsesElim
<1>3. sse'[s] = t BY <1>1, <1>2 DEF SseTyped
<1> HIDE DEF e
<1>4. Reaches(sse[s], t, c, e, broken) BY <1>2, SafeWriteDeclines DEF AStreamer
<1> HIDE DEF t
<1> QED BY <1>2, <1>3, <1>4 DEF Reaches, e

OnWire(r) == \E i \in DOMAIN wire : wire[i] = r

LEMMA WireKeeps ==
    ASSUME Basics, Next, NEW r \in Requests, OnWire(r), ~(Deliver /\ Head(wire) = r),
           ~Missing(r)
    PROVE  OnWire(r)'
<1>0. wire \in Seq(Requests) BY RunElim
<1>1. PICK i \in DOMAIN wire : wire[i] = r BY DEF OnWire
<1>2. CASE wire' = wire BY <1>1, <1>2 DEF OnWire
<1>3. ASSUME NEW q \in Requests, wire' = Append(wire, q) PROVE OnWire(r)'
  <2>1. i \in DOMAIN wire' /\ wire'[i] = wire[i] BY <1>0, <1>1, <1>3, AppendProperties
  <2> QED BY <1>1, <2>1 DEF OnWire
<1>4. CASE Deliver \/ \E s \in Replicas : Miss(s)
  <2> DEFINE n == Len(wire)
  <2>1. wire # <<>> /\ wire' = Tail(wire) /\ Head(wire) # r BY <1>4 DEF Deliver, Miss, Missing
  <2>2. n \in Nat /\ DOMAIN wire = 1 .. n BY <1>0
  <2>3. /\ Tail(wire) \in Seq(Requests) /\ Len(Tail(wire)) = n - 1 /\ Head(wire) = wire[1]
        /\ \A j \in 1 .. Len(Tail(wire)) : Tail(wire)[j] = wire[j + 1]
    BY <1>0, <2>1, HeadTailProperties
  <2>4. i # 1 BY <1>1, <2>1, <2>3
  <2>5. i - 1 \in 1 .. n - 1 /\ i - 1 + 1 = i BY <1>1, <2>2, <2>4
  <2>6. i - 1 \in DOMAIN wire' /\ wire'[i - 1] = wire[i]
    BY <2>1, <2>2, <2>3, <2>5
  <2> QED BY <1>1, <2>6 DEF OnWire
<1> QED BY <1>2, <1>3, <1>4, WireChanges

EventsGiven(r) ==
    req[r].tokens > req[r].dropped =>
        /\ ~Queued => <<"token", r>> \in Received(r)
        /\ Queued /\ Kind(r) = "stream" /\ req[r].pc = "waiting" =>
              <<"token", r>> \in Received(r) \/ OnWire(r)

StreamsFed ==
    \A r \in Requests : Steady(r) =>
        /\ EventsGiven(r)
        /\ Queued /\ Kind(r) = "stream" => Open(r, Home(r), ChatOf(r))

FedInv == ServedInv /\ ChannelsSettled /\ TokensLater /\ StreamsFed

LEMMA FedInMain ==
    ASSUME FedInv, Next, NEW r \in Requests, ~Queued, Steady(r),
           req'[r].tokens > req'[r].dropped
    PROVE  <<"token", r>> \in sse'[Home(r)].out[r]
<1>0. Basics /\ Serves(r, req[r].pc, sse[Home(r)]) /\ EventsGiven(r)
  BY DEF FedInv, StreamsFed, ServedInv, ChatsInv, StreamsServed
<1>1. CASE Emit(r)
  <2>1. sse[Home(r)].clients[ChatOf(r)] = r BY <1>0, <1>1 DEF Emit, Serves, EarlyPcs
  <2> QED BY <1>0, <1>1, <2>1, Emitted DEF Steady
<1>2. CASE Publish(r) BY <1>0, <1>2, RequestFits DEF Publish, Fits
<1>3. CASE req'[r].tokens = req[r].tokens /\ req'[r].dropped = req[r].dropped
  <2>1. <<"token", r>> \in sse[Home(r)].out[r] BY <1>0, <1>3 DEF EventsGiven, Received
  <2> QED BY <1>0, <2>1, StreamerGrows, SseElim
<1>4. req'[r].tokens # req'[r].dropped
  <2>1. req' \in [Requests -> Request] BY <1>0, RequestsStep DEF ReqTyped
  <2> QED BY <2>1, RequestElim
<1> QED BY <1>0, <1>1, <1>2, <1>3, <1>4, WhoCounts

LEMMA FedFromWorker ==
    ASSUME FedInv, Next, NEW r \in Requests, Queued, Steady(r), Kind(r) = "stream",
           req'[r].pc = "waiting", req'[r].tokens > req'[r].dropped
    PROVE  <<"token", r>> \in sse'[Home(r)].out[r] \/ OnWire(r)'
<1>0. Basics /\ Serves(r, req[r].pc, sse[Home(r)]) /\ EventsGiven(r) /\ Open(r, Home(r), ChatOf(r))
  BY DEF FedInv, StreamsFed, ServedInv, ChatsInv, StreamsServed
<1>1. /\ req[r] \in Request /\ req'[r] \in Request /\ req[r].tokens \in Nat
      /\ req[r].dropped \in Nat /\ req'[r].tokens \in Nat /\ req'[r].dropped \in Nat
  <2>1. req' \in [Requests -> Request] BY <1>0, RequestsStep DEF ReqTyped
  <2> QED BY <1>0, <2>1, RequestElim, RequestFits
<1>2. ASSUME req[r].tokens > req[r].dropped, req[r].pc = "waiting",
             OnWire(r) => ~(Deliver /\ Head(wire) = r) /\ ~Missing(r)
      PROVE  <<"token", r>> \in sse'[Home(r)].out[r] \/ OnWire(r)'
  <2>1. <<"token", r>> \in sse[Home(r)].out[r] \/ OnWire(r)
    BY <1>0, <1>2 DEF EventsGiven, Received
  <2>2. CASE <<"token", r>> \in sse[Home(r)].out[r] BY <1>0, <2>2, StreamerGrows, SseElim
  <2>3. CASE OnWire(r) BY <1>0, <1>2, <2>3, WireKeeps
  <2> QED BY <2>1, <2>2, <2>3
<1>3. ASSUME NEW S, Home(r) \in S, Heard(r, S), req[r].pc = "waiting"
      PROVE  <<"token", r>> \in sse'[Home(r)].out[r]
  <2>1. sse[Home(r)].clients[ChatOf(r)] = r BY <1>0, <1>3 DEF Serves, EarlyPcs
  <2>2. handlers[Home(r)][ChatOf(r)] > 0
    BY <1>0, <1>3, SseElim DEF FedInv, Open, ChannelsSettled
  <2> QED BY <1>0, <1>3, <2>1, <2>2, Delivered, SseElim DEF Steady
<1>4. CASE Publish(r)
  <2>1. wire \in Seq(Requests) /\ req[r].pc = "waiting"
    BY <1>0, <1>4, RunElim, RequestFits DEF Publish, Fits
  <2>2. CASE wire' = Append(wire, r)
    <3>1. Len(wire) + 1 \in DOMAIN wire' /\ wire'[Len(wire) + 1] = r
      BY <2>1, <2>2, AppendProperties
    <3> QED BY <3>1 DEF OnWire
  <2>3. CASE wire' = wire
    <3>1. req' = [req EXCEPT ![r].tokens = req[r].tokens + 1,
                             ![r].dropped = req[r].dropped + 1]
      <4>1. wire # Append(wire, r) BY <2>1
      <4> QED BY <1>4, <2>3, <4>1 DEF Publish
    <3>2. req'[r].tokens = req[r].tokens + 1 /\ req'[r].dropped = req[r].dropped + 1
      BY <1>0, <3>1, SseElim DEF ReqTyped, Request
    <3>3. req[r].tokens > req[r].dropped BY <1>1, <3>2
    <3>4. ~Deliver /\ ~Missing(r)
      <4>1. wire # <<>> => Tail(wire) # wire
        <5>1. wire # <<>> => Len(Tail(wire)) = Len(wire) - 1 /\ Len(wire) \in Nat
          BY <2>1, HeadTailProperties
        <5> QED BY <5>1
      <4> QED BY <2>3, <4>1 DEF Deliver, Missing, Miss
    <3> QED BY <1>2, <2>1, <3>3, <3>4
  <2> QED BY <1>4, <2>2, <2>3 DEF Publish
<1>5. ~Emit(r) BY <1>0, RequestFits DEF Emit, Fits
<1>6. CASE req'[r].tokens = req[r].tokens /\ req'[r].dropped = req[r].dropped
  <2>0. req[r].tokens > 0 BY <1>1, <1>6
  <2>1. req[r].pc = "waiting"
    BY <1>0, <2>0, RequestsStep DEF Moving, Moves, FedInv, TokensLater
  <2>2. CASE Deliver /\ Head(wire) = r BY <1>3, <2>1, <2>2, <1>0, SseElim DEF Deliver
  <2>3. CASE Missing(r)
    <3>1. PICK s \in Replicas : Miss(s) /\ Head(wire) = r BY <2>3 DEF Missing
    <3>2. req' = [req EXCEPT ![r].dropped =
                     IF Home(r) = s THEN req[r].tokens ELSE req[r].dropped]
      BY <3>1 DEF Miss
    <3>3. Home(r) # s BY <1>0, <1>1, <1>6, <3>2, SseElim DEF ReqTyped, Request
    <3>4. Heard(r, Replicas \ {s}) BY <3>1 DEF Miss
    <3> QED BY <1>0, <1>3, <2>1, <3>3, <3>4, SseElim
  <2> QED BY <1>2, <1>6, <2>1, <2>2, <2>3
<1> QED BY <1>0, <1>1, <1>4, <1>5, <1>6, WhoCounts

LEMMA FedStep ==
    ASSUME FedInv, Next
    PROVE  StreamsFed'
<1>0. Basics /\ setup' = setup /\ ServedInv BY SetupStays DEF FedInv, ServedInv, ChatsInv
<1>1. ASSUME NEW r \in Requests, Steady(r)'
      PROVE  /\ EventsGiven(r)'
             /\ Queued /\ Kind(r) = "stream" => Open(r, Home(r), ChatOf(r))'
  <2>1. Steady(r) /\ r \notin disturbed'
    BY <1>0, <1>1, BrokenGrows, DisturbedTypedStep DEF Steady, Streams, Kind
  <2>2. EventsGiven(r)'
    BY <1>0, <2>1, FedInMain, FedFromWorker DEF EventsGiven, Queued, Received, Kind, Home
  <2>3. ASSUME Queued, Kind(r) = "stream" PROVE Open(r, Home(r), ChatOf(r))'
    <3>1. \A s, c : s = Home(r) /\ c = ChatOf(r) => Open(r, s, c)
      BY <2>1, <2>3 DEF FedInv, StreamsFed
    <3>2. ASSUME NEW s, s = Home(r), NEW c, c = ChatOf(r) PROVE Open(r, s, c)'
      <4>1. Open(r, s, c) BY <3>1, <3>2
      <4> QED BY <1>0, <2>1, <2>3, <3>2, <4>1, OpenStep
    <3>3. Home(r)' = Home(r) /\ ChatOf(r)' = ChatOf(r) BY <1>0 DEF Home, ChatOf
    <3> QED BY <3>2, <3>3 DEF Open, Unsubscribing
  <2> QED BY <2>2, <2>3
<1> QED BY <1>0, <1>1 DEF StreamsFed, Queued, Kind

LEMMA FedInvariant == Spec => []FedInv
<1>1. Init => TokensLater /\ StreamsFed /\ ChannelsSettled
  BY DEF Init, TokensLater, StreamsFed, ChannelsSettled, EventsGiven, Open
<1>2. ASSUME FedInv, [Next]_vars PROVE (TokensLater /\ StreamsFed /\ ChannelsSettled)'
  <2>0. Basics BY <1>2 DEF FedInv, ServedInv, ChatsInv
  <2>1. CASE UNCHANGED vars
    <3>1. UNCHANGED <<setup, req, sse, wire, disturbed, broken, subscribed, commands, handlers,
                      forgotten>>
      BY <2>1 DEF vars
    <3> QED BY <1>2, <3>1
       DEF FedInv, TokensLater, StreamsFed, ChannelsSettled, Steady, Streams, Queued, Kind,
           EventsGiven, Received, OnWire, Open, Unsubscribing, Home, ChatOf
  <2>2. CASE Next
    BY <1>2, <2>0, <2>2, FedStep, TokensLaterStep, ChannelsSettledStep DEF FedInv
  <2> QED BY <1>2, <2>1, <2>2
<1> QED BY <1>1, <1>2, ServedInvariant, PTL DEF Spec, FedInv

\* A stream that is alone on its chat gets what its run emits: at once from the
\* server's own run, and from a worker's as soon as it is delivered, for its
\* channel stays subscribed as long as the job is awaited (RedisEventSubscriber's
\* subscribe and cleanup, handleEvent).  What Redis lost is counted out: events
\* safePublish gave up, and those a replica without connection missed.
THEOREM StreamGetsEventsHolds == Spec => []StreamGetsEvents
<1>1. ASSUME FedInv, NEW r \in Requests, Steady(r), req[r].tokens > req[r].dropped, ~OnWire(r),
             ~Queued \/ (Kind(r) = "stream" /\ req[r].pc = "waiting")
      PROVE  <<"token", r>> \in Received(r)
  BY <1>1 DEF FedInv, StreamsFed, EventsGiven
<1>2. FedInv => StreamGetsEvents
  BY <1>1 DEF StreamGetsEvents, Steady, Alone, OnWire
<1> QED BY <1>2, FedInvariant, PTL

----------------------------------------------------------------------------
(***************************************************************************)
(* The observers of a chat                                                 *)
(***************************************************************************)
Bound(q, c, s) == ChatOf(q) = c /\ req[q].pc # "idle" /\ Home(q) # s

\* A message on a bind channel comes from a request served elsewhere.
BindsComeFrom == \A c \in Chats, l \in Listeners :
    <<c, l>> \in binds => \E q \in Requests : Bound(q, c, setup.seat[l])

LEMMA BindsComeFromStep ==
    ASSUME Basics, BindsComeFrom, Next
    PROVE  BindsComeFrom'
<1>0. setup' = setup BY SetupStays
<1>1. ASSUME NEW q \in Requests, NEW c, NEW s, Bound(q, c, s)
      PROVE  ChatOf(q) = c /\ req'[q].pc # "idle" /\ Home(q) # s
  BY <1>1, WhoIsDone DEF Bound
<1>2. ASSUME NEW r \in Requests, NEW m \in Listeners, BindThere(r, m),
             NEW c \in Chats, NEW l \in Listeners, <<c, l>> \in binds', <<c, l>> \notin binds
      PROVE  ChatOf(r) = c /\ req'[r].pc # "idle" /\ Home(r) # setup.seat[l]
  <2>1. ChatOf(r) = c /\ l = m BY <1>2 DEF BindThere
  <2>2. Home(r) # setup.seat[l] /\ req[r].pc # "idle" BY <1>2, <2>1 DEF BindThere
  <2> QED BY <2>1, <2>2, WhoIsDone
<1>3. \/ binds' \subseteq binds
      \/ \E r \in Requests : \E m \in Listeners : BindThere(r, m)
  <2>1. CASE panelVars' = panelVars BY <2>1 DEF panelVars
  <2>2. CASE panelVars' # panelVars
    BY <2>2, PanelChanges, RedisAnswersLeaves
       DEF Evict, BindArrives, Register, OpenPanel, AttachPanel, FirstBeat, Hangup, Unregister, Beat,
           Dismiss, panelVars
  <2> QED BY <2>1, <2>2
<1>4. ASSUME NEW c \in Chats, NEW l \in Listeners, <<c, l>> \in binds'
      PROVE  \E q \in Requests : /\ ChatOf(q) = c /\ req'[q].pc # "idle"
                                 /\ Home(q) # setup.seat[l]
  <2>1. CASE <<c, l>> \in binds BY <1>1, <2>1 DEF BindsComeFrom
  <2>2. CASE <<c, l>> \notin binds BY <1>2, <1>3, <1>4, <2>2
  <2> QED BY <2>1, <2>2
<1> QED BY <1>0, <1>4 DEF BindsComeFrom, Bound, ChatOf, Home

\* Everybody else of the chat of r is yet to come.
LastOne(r) == \A q \in Requests \ {r} : ChatOf(q) = ChatOf(r) => req[q].pc = "idle"

LEMMA NobodyObserves ==
    ASSUME Basics, BindsComeFrom, Next, NEW r \in Requests, req[r].pc = "done", LastOne(r),
           \A q \in Requests \ {r} : ChatOf(q) = ChatOf(r) => req'[q].pc = "idle",
           sse[Home(r)].observers[ChatOf(r)] = {}
    PROVE  sse'[Home(r)].observers[ChatOf(r)] = {}
<1> DEFINE s == Home(r)
           c == ChatOf(r)
<1>0. s \in Replicas /\ c \in Ids /\ c \in Chats BY SseElim
<1>1. CASE Declining(s, sse'[s]) BY <1>0, <1>1, DecliningElim
<1>2. CASE Connecting(s)
  <2>1. PICK x \in Ids, w \in Responses : Connects(s, x, w) BY <1>0, <1>2, ConnectingEffect
  <2> QED BY <2>1 DEF Connects
<1>3. CASE Observing(s)
  <2>1. SUFFICES ASSUME sse'[s].observers[c] # sse[s].observers[c] PROVE FALSE OBVIOUS
  <2>2. CASE \E q \in Requests : /\ ChatOf(q) = c /\ Home(q) = s
                                 /\ req'[q].pc \in {"binding", "bindSubscribing", "bound"}
    <3>1. PICK q \in Requests : ChatOf(q) = c
                                /\ req'[q].pc \in {"binding", "bindSubscribing", "bound"}
      BY <2>2
    <3>2. q = r BY <3>1
    <3> QED BY <3>1, <3>2, WhoIsDone
  <2>3. CASE \E l \in Listeners : <<c, l>> \in binds /\ setup.seat[l] = s
    <3>1. PICK l \in Listeners : <<c, l>> \in binds /\ setup.seat[l] = s BY <2>3
    <3>2. PICK q \in Requests : Bound(q, c, s) BY <1>0, <3>1 DEF BindsComeFrom
    <3>3. q # r /\ ChatOf(q) = c /\ req[q].pc # "idle" BY <3>2 DEF Bound
    <3> QED BY <3>3 DEF LastOne
  <2> QED BY <1>0, <1>3, <2>1, <2>2, <2>3 DEF Observing
<1>4. CASE Answering(s)
  <2>1. PICK q \in Requests, u \in AStreamer : sse'[s] = Answered(u, q) /\ Declining(s, u)
    BY <1>4 DEF Answering
  <2>2. sse'[s].observers = u.observers BY <2>1, AnsweredType
  <2> QED BY <1>0, <2>1, <2>2, DecliningElim
<1> QED BY <1>0, <1>1, <1>2, <1>3, <1>4, SseStep DEF StreamersStep, StreamerStep

\* The step that ends a webhook request lets go of those who observe its chat.
LEMMA HookReleases ==
    ASSUME Basics, NEW r \in Requests,
           CloseHook(r) \/ Leave(r)
    PROVE  sse'[Home(r)].observers[ChatOf(r)] = {}
<1> DEFINE s == Home(r)
           c == ChatOf(r)
<1>0. s \in Replicas /\ c \in Ids /\ sse[s] \in AStreamer /\ SseTyped BY SseElim
<1>1. ASSUME NEW u \in AStreamer, NEW t, t = RemoveClient(u, c, broken)
      PROVE  t \in AStreamer /\ t.observers[c] = {}
  <2>1. t \in AStreamer /\ Finishes(u, t, c, broken) BY <1>0, <1>1, Removal
  <2> QED BY <2>1 DEF Finishes
<1>2. WithLastEvent(r) \in AStreamer
  <2> DEFINE e == LastEvent(r)
  <2>1. WithLastEvent(r) = SafeWrite(sse[s], c, e, broken) /\ e \in Events
    BY EventsOf DEF WithLastEvent
  <2> HIDE DEF e
  <2> QED BY <1>0, <2>1, SafeWriteDeclines DEF AStreamer
<1> DEFINE X(u) == RemoveClient(u, c, broken)
<1>3. \/ sse' = [sse EXCEPT ![s] = X(WithLastEvent(r))]
      \/ sse' = [sse EXCEPT ![s] = X(sse[s])]
      \/ sse' = [sse EXCEPT ![s] = Answered(X(sse[s]), r)]
  BY DEF CloseHook, Leave
<1>4. /\ X(WithLastEvent(r)) \in AStreamer /\ X(WithLastEvent(r)).observers[c] = {}
      /\ X(sse[s]) \in AStreamer /\ X(sse[s]).observers[c] = {}
  BY <1>0, <1>1, <1>2
<1> HIDE DEF X
<1>5. Answered(X(sse[s]), r).observers = X(sse[s]).observers BY <1>4, AnsweredType
<1> QED BY <1>0, <1>3, <1>4, <1>5 DEF SseTyped

LEMMA HookEnds ==
    ASSUME Basics, Next, NEW r \in Requests, Kind(r) \in Hooks, req[r].pc # "done",
           req'[r].pc = "done"
    PROVE  sse'[Home(r)].observers[ChatOf(r)] = {}
<1>1. req[r].pc \in {"counting", "failed", "unsubscribing", "calling"}
  BY RequestsStep DEF Moving, Moves
<1>2. req[r].pc \in {"counting", "failed", "calling"} BY <1>1, RequestFits DEF Fits, Hooks
<1>3. OwnStep(r) /\ ~Publish(r) BY <1>2, WhoGoes DEF Awaiting
<1>4. CloseHook(r) \/ CallBack(r) \/ CallFails(r)
  <2>1. \/ CloseHook(r) \/ CallBack(r) \/ CallFails(r) \/ CountFails(r) \/ BeginCallback(r)
        \/ CloseStream(r) \/ ReplyJson(r)
    BY <1>2, <1>3 DEF OwnStep, BeginStream, BeginJson, BeginHook, RejectBound, OpenBound, Refuse, Accept,
                      Emit, EndRun, SeeResult, BindHere, BindThere
  <2>3. ~CloseStream(r) /\ ~ReplyJson(r) BY DEF CloseStream, ReplyJson, Hooks
  <2>4. ~CountFails(r) BY GotoPc, SseElim DEF CountFails
  <2>5. ~BeginCallback(r) BY SseElim DEF BeginCallback, ReqTyped, Request
  <2> QED BY <2>1, <2>3, <2>4, <2>5
<1>5. CASE CallFails(r)
  <2>1. LastTry(r) BY <1>2, <1>5, SseElim DEF CallFails, ReqTyped, Request
  <2> QED BY <1>5, <2>1, HookReleases DEF CallFails
<1> QED BY <1>4, <1>5, HookReleases DEF CallBack

ReleasedInv == Basics /\ BindsComeFrom /\ ObserversReleased

LEMMA ReleasedStep ==
    ASSUME ReleasedInv, Next
    PROVE  ObserversReleased'
<1>0. Basics /\ BindsComeFrom /\ setup' = setup BY SetupStays DEF ReleasedInv
<1>1. ASSUME NEW r \in Requests, Kind(r) \in Hooks, req'[r].pc = "done",
             \A q \in Requests \ {r} : ChatOf(q) = ChatOf(r) => req'[q].pc = "idle"
      PROVE  sse'[Home(r)].observers[ChatOf(r)] = {}
  <2>1. CASE req[r].pc # "done" BY <1>0, <1>1, <2>1, HookEnds
  <2>2. CASE req[r].pc = "done"
    <3>1. LastOne(r) BY <1>0, <1>1, WhoIsDone DEF LastOne
    <3>2. sse[Home(r)].observers[ChatOf(r)] = {}
      BY <1>1, <2>2, <3>1 DEF ReleasedInv, ObserversReleased, LastOne
    <3> QED BY <1>0, <1>1, <2>2, <3>1, <3>2, NobodyObserves
  <2> QED BY <2>1, <2>2
<1> QED BY <1>0, <1>1 DEF ObserversReleased, Kind, ChatOf, Home

\* Nobody observes the chat of a webhook request that is over, on the server
\* that took it: a bind that arrives late is from another server's request.
THEOREM ObserversReleasedHolds == Spec => []ObserversReleased
<1>1. Init => ReleasedInv
  BY BasicsInit DEF Init, ReleasedInv, BindsComeFrom, ObserversReleased
<1>2. ASSUME ReleasedInv, [Next]_vars PROVE ReleasedInv'
  <2>1. CASE UNCHANGED vars
    <3>1. UNCHANGED <<setup, req, sse, binds>> BY <2>1 DEF vars
    <3>2. BindsComeFrom' /\ ObserversReleased'
      BY <1>2, <3>1
         DEF ReleasedInv, BindsComeFrom, Bound, ObserversReleased, Kind, ChatOf, Home
    <3> QED BY <1>2, <3>2, BasicsStep DEF ReleasedInv
  <2>2. CASE Next
    BY <1>2, <2>2, BasicsStep, BindsComeFromStep, ReleasedStep DEF ReleasedInv
  <2> QED BY <1>2, <2>1, <2>2
<1>3. ReleasedInv => ObserversReleased BY DEF ReleasedInv
<1> QED BY <1>1, <1>2, <1>3, PTL DEF Spec
==============================================================================
