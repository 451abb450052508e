--------------------------- MODULE PredictionStreams ---------------------------
(***************************************************************************)
(* From a prediction request or a webhook to the end of its response: the  *)
(* event streams, the subscriptions to what workers publish, the abort     *)
(* controllers, the prediction queue, and the panels that listen to the    *)
(* webhooks of a flow.                                                     *)
(*                                                                         *)
(* One flow.  In main mode one server runs the flow itself; in queue mode  *)
(* several replicas serve requests and one worker runs the jobs.  What the *)
(* flow does in between is one kind of event: Agentflow is about the rest. *)
(* A configuration (mode, requests, panels) is chosen by Init from Setups. *)
(***************************************************************************)
EXTENDS Naturals, Sequences, FiniteSets, SSEStreamer

CONSTANTS
    Requests,       \* HTTP requests; also names their responses and their jobs
    Listeners,      \* webhook listener ids; also name their responses
    Chats,
    Replicas,       \* server processes
    Setups,         \* the configurations to consider
    MaxTokens,      \* bound: events a run emits
    MaxFaults,      \* bound: Redis errors, lost connections, crashed workers
    MaxClicks,      \* bound: aborts of a chat or of its speech, panels told to stop
    MaxCommands     \* bound: commands to Redis a subscriber has under way

Kinds == {"none", "stream", "json", "fallback", "hookSync", "hookStream", "hookAsync",
          "hookCallback"}

Hooks == {"hookSync", "hookStream", "hookAsync", "hookCallback"}

NoRun == "no run"

NoOne == "no one"

Setup == [mode : {"main", "queue"}, kind : [Requests -> Kinds], chat : [Requests -> Chats],
          home : [Requests -> Replicas], panels : SUBSET Listeners,
          seat : [Listeners -> Replicas],
          faults : 0 .. MaxFaults, clicks : 0 .. MaxClicks]

ASSUME StreamsAssumption ==
    /\ Setups \subseteq Setup
    /\ Requests \cap Listeners = {} /\ Chats \cap Listeners = {} /\ IsFiniteSet(Chats)
    /\ NoClient \notin Requests \cup Listeners /\ {NoRun, NoOne} \cap Requests = {}
    /\ MaxTokens \in Nat /\ MaxFaults \in Nat /\ MaxClicks \in Nat /\ MaxCommands \in Nat

Ids == Chats \cup Listeners

Responses == Requests \cup Listeners

Events == {"token", "metadata", "error"} \X Requests
            \cup {"end", "executionEnd", "speechAborted"} \X Ids

VARIABLES
    setup,          \* never changes
    req,            \* the local state of each request
    sse,            \* the SSEStreamer of each replica
    subscribed,     \* subscribedChannels of each replica's RedisEventSubscriber
    handlers,       \* the handlers its Redis client has for each channel
    commands,       \* subscribe and unsubscribe commands waiting for Redis, in order
    wire,           \* published events on their way to the subscribers
    job,            \* the prediction queue
    pool,           \* AbortControllerPool of the process that runs the flow
    aborted,        \* the runs whose signal is set
    abortEvents,    \* abort events on their way to the worker
    panel,          \* the life of each listener
    registry,       \* the listeners the registry has for the flow
    binds,          \* messages on the replicas' bind channels
    closed,         \* responses whose client has gone
    broken,         \* those of them on which a write throws
    disturbed,      \* history: requests whose chat was not theirs alone
    forgotten,      \* history: channels Redis refused to unsubscribe
    budget

vars == <<setup, req, sse, subscribed, handlers, commands, wire, job, pool, aborted,
          abortEvents, panel, registry, binds, closed, broken, disturbed, forgotten, budget>>

Queued == setup.mode = "queue"

ChatOf(r) == setup.chat[r]

Home(r) == setup.home[r]

Kind(r) == setup.kind[r]

Pcs == {"idle", "binding", "bindSubscribing", "bound", "subscribing", "checking", "running",
        "waiting", "counting", "failed", "unsubscribing", "calling", "done", "rejected"}

InFlight(r) == req[r].pc \notin {"idle", "done", "rejected"}

TypeOK ==
    /\ setup \in Setups
    /\ req \in [Requests -> [pc : Pcs, todo : SUBSET Listeners, tokens : 0 .. MaxTokens,
                             dropped : Nat,
                             built : BOOLEAN, tries : 0 .. 3,
                             received : SUBSET {"SUCCESS", "ERROR"}]]
    /\ sse \in [Replicas -> Streamer(Ids, Responses, Events)]
    /\ subscribed \in [Replicas -> SUBSET Chats]
    /\ handlers \in [Replicas -> [Chats -> Nat]]
    /\ commands \in [Replicas -> Seq([op : {"subscribe", "unsubscribe"}, chat : Chats,
                                      by : Requests \cup {NoOne}])]
    /\ \A s \in Replicas : Len(commands[s]) <= MaxCommands
    /\ wire \in Seq(Requests)
    /\ job \in [Requests -> {"none", "waiting", "active", "completed", "failed"}]
    /\ pool \in [Chats -> Requests \cup {NoRun}]
    /\ aborted \subseteq Requests
    /\ abortEvents \in Seq(Chats)
    /\ panel \in [Listeners -> {"absent", "registered", "opening", "beating", "listening",
                                "deaf", "closing", "gone"}]
    /\ registry \subseteq Listeners
    /\ binds \subseteq Chats \X Listeners
    /\ broken \subseteq closed /\ closed \subseteq Responses
    /\ disturbed \subseteq Requests
    /\ forgotten \subseteq Replicas \X Chats
    /\ budget \in [faults : 0 .. MaxFaults, clicks : 0 .. MaxClicks]

Init ==
    /\ setup \in Setups
    /\ req = [r \in Requests |-> [pc |-> "idle", todo |-> {}, tokens |-> 0, dropped |-> 0,
                                  built |-> FALSE, tries |-> 0, received |-> {}]]
    /\ sse = [s \in Replicas |-> NewStreamer(Ids, Responses)]
    /\ subscribed = [s \in Replicas |-> {}]
    /\ handlers = [s \in Replicas |-> [c \in Chats |-> 0]]
    /\ commands = [s \in Replicas |-> <<>>]
    /\ wire = <<>>
    /\ job = [r \in Requests |-> "none"]
    /\ pool = [c \in Chats |-> NoRun]
    /\ aborted = {} /\ abortEvents = <<>>
    /\ panel = [l \in Listeners |-> "absent"]
    /\ registry = {} /\ binds = {}
    /\ closed = {} /\ broken = {}
    /\ disturbed = {} /\ forgotten = {}
    /\ budget = [faults |-> setup.faults, clicks |-> setup.clicks]

redisVars == <<subscribed, handlers, commands>>
runVars == <<wire, job, pool, aborted, abortEvents>>
panelVars == <<panel, registry, binds>>
faultVars == <<closed, broken, forgotten, budget>>

----------------------------------------------------------------------------
Goto(r, pc) == req' = [req EXCEPT ![r].pc = pc]

Fault ==
    /\ budget.faults > 0
    /\ budget' = [budget EXCEPT !.faults = @ - 1]

Click ==
    /\ budget.clicks > 0
    /\ budget' = [budget EXCEPT !.clicks = @ - 1]

Send(s, op, c, by) ==
    /\ Len(commands[s]) < MaxCommands
    /\ commands' = [commands EXCEPT ![s] = Append(@, [op |-> op, chat |-> c, by |-> by])]
    /\ UNCHANGED <<subscribed, handlers>>

\* RedisEventSubscriber.subscribe up to its await: nothing to wait for if the
\* channel is marked already.  Mutant: it is marked before Redis answers.
SubscribeMarkingFirst(s, c, by) ==
    IF c \in subscribed[s] THEN UNCHANGED redisVars
    ELSE /\ Len(commands[s]) < MaxCommands
         /\ commands' = [commands EXCEPT
               ![s] = Append(@, [op |-> "subscribe", chat |-> c, by |-> by])]
         /\ subscribed' = [subscribed EXCEPT ![s] = @ \cup {c}]
         /\ UNCHANGED handlers

Subscribe(s, c, by) ==
    IF c \in subscribed[s] THEN UNCHANGED redisVars ELSE Send(s, "subscribe", c, by)

\* AbortControllerPool.remove of the server that serves the request; in queue
\* mode its pool is not the one the runs are in.  Mutant: it is not called.
KeepController(c) == UNCHANGED pool

RemoveController(c) ==
    pool' = IF Queued THEN pool ELSE [pool EXCEPT ![c] = NoRun]

\* What the HTTP client of a request without event stream gets.
Answered(s, r) == [s EXCEPT !.ended = @ \cup {r}]

Fellows(r) == {q \in Requests \ {r} : InFlight(q) /\ ChatOf(q) = ChatOf(r)}

Unsubscribing(s, c) ==
    \E i \in DOMAIN commands[s] :
        commands[s][i].op = "unsubscribe" /\ commands[s][i].chat = c

\* History: the request is not alone on its chat, or comes while the channel of
\* its chat is being given up.
Meet(r) ==
    disturbed' = disturbed \cup Fellows(r) \cup
        {q \in {r} : Fellows(r) # {} \/ Unsubscribing(Home(r), ChatOf(r))}

----------------------------------------------------------------------------
(***************************************************************************)
(* Coming in: createPrediction, createInternalPrediction, createWebhook    *)
(***************************************************************************)
BeginStream(r) ==
    LET s == Home(r) c == ChatOf(r) IN
    /\ req[r].pc = "idle" /\ Kind(r) = "stream"
    /\ Meet(r)
    /\ sse' = [sse EXCEPT ![s] = AddClient(@, c, r)]
    /\ IF Queued THEN Subscribe(s, c, r) ELSE UNCHANGED redisVars
    /\ Goto(r, IF Queued /\ c \notin subscribed[s] THEN "subscribing" ELSE "checking")
    /\ UNCHANGED <<setup, runVars, panelVars, faultVars>>

BeginJson(r) ==
    /\ req[r].pc = "idle" /\ Kind(r) \in {"json", "fallback"}
    /\ Meet(r)
    /\ Goto(r, "checking")
    /\ UNCHANGED <<setup, sse, redisVars, runVars, panelVars, faultVars>>

\* bindExecution: every listener of the flow is to observe the chat.  In
\* memory that is done at once; with Redis the listeners are looked up first.
AfterBind(todo) == IF todo = {} THEN "bound" ELSE "binding"

BeginHook(r) ==
    /\ req[r].pc = "idle" /\ Kind(r) \in Hooks
    /\ Meet(r)
    /\ IF Queued
       THEN /\ req' = [req EXCEPT ![r].pc = AfterBind(registry), ![r].todo = registry]
            /\ UNCHANGED sse
       ELSE /\ Goto(r, "bound")
            /\ sse' = [sse EXCEPT ![Home(r)].observers[ChatOf(r)] = @ \cup registry]
    /\ UNCHANGED <<setup, redisVars, runVars, panelVars, faultVars>>

\* One listener of this replica, and one of another.
BindHere(r, l) ==
    LET s == Home(r) c == ChatOf(r) todo == req[r].todo \ {l} IN
    /\ req[r].pc = "binding" /\ l \in req[r].todo /\ setup.seat[l] = s
    /\ sse' = [sse EXCEPT ![s] = AddObserver(@, c, l)]
    /\ Subscribe(s, c, r)
    /\ req' = [req EXCEPT
          ![r].todo = todo,
          ![r].pc = IF c \in subscribed[s] THEN AfterBind(todo) ELSE "bindSubscribing"]
    /\ UNCHANGED <<setup, runVars, panelVars, faultVars, disturbed>>

BindThere(r, l) ==
    LET todo == req[r].todo \ {l} IN
    /\ req[r].pc = "binding" /\ l \in req[r].todo /\ setup.seat[l] # Home(r)
    /\ \/ /\ binds' = binds \cup {<<ChatOf(r), l>>}
          /\ req' = [req EXCEPT ![r].todo = todo, ![r].pc = AfterBind(todo)]
          /\ UNCHANGED budget
       \/ /\ Fault
          /\ req' = [req EXCEPT ![r].todo = {}, ![r].pc = "bound"]
          /\ UNCHANGED binds
    /\ UNCHANGED <<setup, sse, redisVars, runVars, panel, registry, closed, broken,
                   disturbed, forgotten>>

\* The handler of the bind channel, on the replica of the listener.
BindArrives(c, l) ==
    LET s == setup.seat[l] IN
    /\ <<c, l>> \in binds
    /\ binds' = binds \ {<<c, l>>}
    /\ IF HasClient(sse[s], l)
       THEN /\ sse' = [sse EXCEPT ![s] = AddObserver(@, c, l)]
            /\ Subscribe(s, c, NoOne)
       ELSE UNCHANGED <<sse, redisVars>>
    /\ UNCHANGED <<setup, req, runVars, panel, registry, faultVars, disturbed>>

\* After the bind: an invalid callback URL or a failing look at the flow still
\* ends the request, and the chat stays bound; the others get their stream,
\* their 202, or nothing yet.
RejectBound(r) ==
    /\ req[r].pc = "bound" /\ Kind(r) \in {"hookStream", "hookCallback"}
    /\ Goto(r, "rejected")
    /\ sse' = [sse EXCEPT ![Home(r)] = Answered(@, r)]
    /\ UNCHANGED <<setup, redisVars, runVars, panelVars, faultVars, disturbed>>

OpenBound(r) ==
    /\ req[r].pc = "bound"
    /\ Goto(r, "checking")
    /\ sse' = [sse EXCEPT ![Home(r)] =
          IF Kind(r) = "hookStream" THEN AddClient(@, ChatOf(r), r)
          ELSE IF Kind(r) = "hookSync" THEN @ ELSE Answered(@, r)]
    /\ UNCHANGED <<setup, redisVars, runVars, panelVars, faultVars, disturbed>>

----------------------------------------------------------------------------
(***************************************************************************)
(* Running the flow: utilBuildChatflow and the prediction queue            *)
(***************************************************************************)
\* The API key, the workspace or the quota is not in order: the controller of
\* the chat goes, whoever's it is.
Refuse(r) ==
    /\ req[r].pc = "checking"
    /\ Goto(r, "failed")
    /\ RemoveController(ChatOf(r))
    /\ UNCHANGED <<setup, sse, redisVars, wire, job, aborted, abortEvents, panelVars,
                   faultVars, disturbed>>

Accept(r) ==
    /\ req[r].pc = "checking"
    /\ IF Queued
       THEN /\ Goto(r, "waiting")
            /\ job' = [job EXCEPT ![r] = "waiting"]
            /\ UNCHANGED pool
       ELSE /\ Goto(r, "running")
            /\ pool' = [pool EXCEPT ![ChatOf(r)] = r]
            /\ UNCHANGED job
    /\ UNCHANGED <<setup, sse, redisVars, wire, aborted, abortEvents, panelVars,
                   faultVars, disturbed>>

Emit(r) ==
    /\ req[r].pc = "running" /\ req[r].tokens < MaxTokens
    /\ req' = [req EXCEPT ![r].tokens = @ + 1]
    /\ sse' = [sse EXCEPT ![Home(r)] = SafeWrite(@, ChatOf(r), <<"token", r>>, broken)]
    /\ UNCHANGED <<setup, redisVars, runVars, panelVars, faultVars, disturbed>>

EndRun(r) ==
    /\ req[r].pc = "running"
    /\ \/ Goto(r, "counting")
       \/ Goto(r, "failed")
    /\ RemoveController(ChatOf(r))
    /\ UNCHANGED <<setup, sse, redisVars, wire, job, aborted, abortEvents, panelVars,
                   faultVars, disturbed>>

\* updatePredictionsUsage fails.
CountFails(r) ==
    /\ req[r].pc = "counting"
    /\ Fault
    /\ Goto(r, "failed")
    /\ RemoveController(ChatOf(r))
    /\ UNCHANGED <<setup, sse, redisVars, wire, job, aborted, abortEvents, panelVars,
                   closed, broken, forgotten, disturbed>>

\* PredictionQueue.processJob: the controller goes into the worker's pool.
TakeJob(r) ==
    /\ job[r] = "waiting"
    /\ job' = [job EXCEPT ![r] = "active"]
    /\ pool' = [pool EXCEPT ![ChatOf(r)] = r]
    /\ UNCHANGED <<setup, req, sse, redisVars, wire, aborted, abortEvents, panelVars,
                   faultVars, disturbed>>

\* The worker's publisher: safePublish gives the event up, without a word to the
\* run, while its client is not ready or when Redis refuses it.
Publish(r) ==
    /\ job[r] = "active" /\ req[r].tokens < MaxTokens
    /\ \/ /\ req' = [req EXCEPT ![r].tokens = @ + 1]
          /\ wire' = Append(wire, r)
          /\ UNCHANGED budget
       \/ /\ Fault
          /\ req' = [req EXCEPT ![r].tokens = @ + 1, ![r].dropped = @ + 1]
          /\ UNCHANGED wire
    /\ UNCHANGED <<setup, sse, redisVars, job, pool, aborted, abortEvents, panelVars,
                   closed, broken, forgotten, disturbed>>

EndJob(r) ==
    /\ job[r] = "active"
    /\ \E end \in {"completed", "failed"} : job' = [job EXCEPT ![r] = end]
    /\ UNCHANGED <<setup, req, sse, redisVars, wire, pool, aborted, abortEvents,
                   panelVars, faultVars, disturbed>>

\* The worker dies; its jobs are found stalled and taken again by its successor.
\* (BullMQ fails a job the second time: it is taken again and ends "failed".)
WorkerDies ==
    /\ \E r \in Requests : job[r] = "active"
    /\ Fault
    /\ job' = [r \in Requests |-> IF job[r] = "active" THEN "waiting" ELSE job[r]]
    /\ pool' = [c \in Chats |-> NoRun]
    /\ abortEvents' = <<>>
    /\ UNCHANGED <<setup, req, sse, redisVars, wire, aborted, panelVars, closed, broken,
                   forgotten, disturbed>>

\* waitUntilFinished.  Mutant: a failed job is waited for forever.
SeeCompletion(r) ==
    /\ req[r].pc = "waiting" /\ job[r] = "completed"
    /\ Goto(r, "counting")
    /\ UNCHANGED <<setup, sse, redisVars, runVars, panelVars, faultVars, disturbed>>

SeeResult(r) ==
    /\ req[r].pc = "waiting" /\ job[r] \in {"completed", "failed"}
    /\ Goto(r, IF job[r] = "completed" THEN "counting" ELSE "failed")
    /\ UNCHANGED <<setup, sse, redisVars, runVars, panelVars, faultVars, disturbed>>

\* handleEvent, on each replica of S whose Redis client has a handler for the channel.
Heard(r, S) ==
    sse' = [s \in Replicas |->
               IF s \in S /\ handlers[s][ChatOf(r)] > 0
               THEN SafeWrite(sse[s], ChatOf(r), <<"token", r>>, broken) ELSE sse[s]]

Deliver ==
    /\ wire # <<>>
    /\ wire' = Tail(wire)
    /\ Heard(Head(wire), Replicas)
    /\ UNCHANGED <<setup, req, redisVars, job, pool, aborted, abortEvents, panelVars,
                   faultVars, disturbed>>

\* Redis keeps no message for a subscriber whose connection is down; what this
\* request has emitted so far may be what its replica misses.
Miss(s) ==
    /\ wire # <<>>
    /\ Fault
    /\ wire' = Tail(wire)
    /\ Heard(Head(wire), Replicas \ {s})
    /\ LET r == Head(wire) IN
       req' = [req EXCEPT ![r].dropped = IF Home(r) = s THEN req[r].tokens ELSE @]
    /\ UNCHANGED <<setup, redisVars, job, pool, aborted, abortEvents, panelVars,
                   closed, broken, forgotten, disturbed>>

----------------------------------------------------------------------------
(***************************************************************************)
(* Going out: the last event, the end of the stream, the callback          *)
(***************************************************************************)
LastEvent(r) == IF req[r].pc = "counting" THEN <<"metadata", r>> ELSE <<"error", r>>

WithLastEvent(r) == SafeWrite(sse[Home(r)], ChatOf(r), LastEvent(r), broken)

CloseStream(r) ==
    LET s == Home(r) c == ChatOf(r) IN
    /\ req[r].pc \in {"counting", "failed"} /\ Kind(r) = "stream"
    /\ IF Queued /\ c \in subscribed[s]
       THEN /\ Goto(r, "unsubscribing")
            /\ Send(s, "unsubscribe", c, r)
            /\ sse' = [sse EXCEPT ![s] = WithLastEvent(r)]
       ELSE /\ Goto(r, "done")
            /\ UNCHANGED redisVars
            /\ sse' = [sse EXCEPT ![s] = RemoveClient(WithLastEvent(r), c, broken)]
    /\ UNCHANGED <<setup, runVars, panelVars, faultVars, disturbed>>

\* res.json, or the error handler, which keeps silent when the body asked for
\* streaming, even if the flow could not stream.
ReplyJson(r) ==
    /\ req[r].pc \in {"counting", "failed"} /\ Kind(r) \in {"json", "fallback"}
    /\ Goto(r, "done")
    /\ sse' = [sse EXCEPT ![Home(r)] =
          IF Kind(r) = "fallback" /\ req[r].pc = "failed" THEN @ ELSE Answered(@, r)]
    /\ UNCHANGED <<setup, redisVars, runVars, panelVars, faultVars, disturbed>>

CloseHook(r) ==
    LET s == Home(r) c == ChatOf(r) IN
    /\ req[r].pc \in {"counting", "failed"}
    /\ Kind(r) \in {"hookSync", "hookStream", "hookAsync"}
    /\ Goto(r, "done")
    /\ sse' = [sse EXCEPT ![s] =
          IF Kind(r) = "hookStream" THEN RemoveClient(WithLastEvent(r), c, broken)
          ELSE IF Kind(r) = "hookSync" THEN Answered(RemoveClient(@, c, broken), r)
          ELSE RemoveClient(@, c, broken)]
    /\ UNCHANGED <<setup, redisVars, runVars, panelVars, faultVars, disturbed>>

BeginCallback(r) ==
    /\ req[r].pc \in {"counting", "failed"} /\ Kind(r) = "hookCallback"
    /\ req' = [req EXCEPT ![r].pc = "calling", ![r].built = (req[r].pc = "counting")]
    /\ UNCHANGED <<setup, sse, redisVars, runVars, panelVars, faultVars, disturbed>>

Verdict(r) == IF req[r].built THEN "SUCCESS" ELSE "ERROR"

\* Mutant: the stream is left open.
LeaveOpen(r) == UNCHANGED sse

Leave(r) == sse' = [sse EXCEPT ![Home(r)] = RemoveClient(@, ChatOf(r), broken)]

\* dispatchCallback: one of three attempts; the endpoint may have received what
\* the sender takes for lost.  When the last one fails the error is swallowed.
CallBack(r) ==
    /\ req[r].pc = "calling"
    /\ req' = [req EXCEPT ![r].pc = "done", ![r].received = @ \cup {Verdict(r)}]
    /\ Leave(r)
    /\ UNCHANGED <<setup, redisVars, runVars, panelVars, faultVars, disturbed>>

\* Mutant: one attempt more.
OneTryMore(r) == req[r].tries = 3

LastTry(r) == req[r].tries = 2

\* Mutant: the last failure is thrown, and reported as an error of the run.
CallThrows(r) ==
    /\ req[r].pc = "calling" /\ req[r].tries < 3
    /\ \E got \in SUBSET {Verdict(r)} :
         req' = [req EXCEPT ![r].tries = @ + 1, ![r].received = @ \cup got,
                            ![r].built = @ /\ req[r].tries < 1]
    /\ UNCHANGED <<setup, sse, redisVars, runVars, panelVars, faultVars, disturbed>>

CallFails(r) ==
    /\ req[r].pc = "calling"
    /\ \E got \in SUBSET {Verdict(r)} :
         req' = [req EXCEPT ![r].tries = @ + 1, ![r].received = @ \cup got,
                            ![r].pc = IF LastTry(r) THEN "done" ELSE "calling"]
    /\ IF LastTry(r) THEN Leave(r) ELSE UNCHANGED sse
    /\ UNCHANGED <<setup, redisVars, runVars, panelVars, faultVars, disturbed>>

----------------------------------------------------------------------------
(***************************************************************************)
(* The Redis client of a RedisEventSubscriber, and the periodic cleanup    *)
(***************************************************************************)
\* What the caller that waits for a command does next.
Resume(h, ok) ==
    LET r == h.by IN
    IF r = NoOne THEN UNCHANGED <<req, sse>>
    ELSE IF req[r].pc = "unsubscribing" THEN Goto(r, "done") /\ Leave(r)
    ELSE /\ UNCHANGED sse
         /\ IF req[r].pc = "subscribing"
            THEN Goto(r, IF ok THEN "checking" ELSE "failed")
            ELSE req' = [req EXCEPT ![r].todo = IF ok THEN @ ELSE {},
                                    ![r].pc = AfterBind(IF ok THEN req[r].todo ELSE {})]

Answer(s, h) ==
    /\ commands' = [commands EXCEPT ![s] = Tail(@)]
    /\ subscribed' = [subscribed EXCEPT ![s] =
          IF h.op = "subscribe" THEN @ \cup {h.chat} ELSE @ \ {h.chat}]
    /\ handlers' = [handlers EXCEPT ![s][h.chat] = IF h.op = "subscribe" THEN @ + 1 ELSE 0]
    /\ Resume(h, TRUE)
    /\ UNCHANGED <<setup, runVars, panelVars, faultVars, disturbed>>

\* Redis refuses: no handler is added, but the channel is unmarked all the same.
Refusal(s, h) ==
    /\ Fault
    /\ commands' = [commands EXCEPT ![s] = Tail(@)]
    /\ subscribed' = [subscribed EXCEPT ![s] =
          IF h.op = "subscribe" THEN @ ELSE @ \ {h.chat}]
    /\ forgotten' = IF h.op = "subscribe" THEN forgotten ELSE forgotten \cup {<<s, h.chat>>}
    /\ Resume(h, FALSE)
    /\ UNCHANGED <<setup, handlers, runVars, panelVars, closed, broken, disturbed>>

RedisAnswers(s) ==
    /\ commands[s] # <<>>
    /\ Answer(s, Head(commands[s])) \/ Refusal(s, Head(commands[s]))

\* Mutants: only observers count; nothing is stale while anyone is connected.
StaleIgnoringClients(s) == {c \in subscribed[s] : sse[s].observers[c] = {}}

StaleWhenDeserted(s) == {c \in subscribed[s] : \A x \in Ids : ~HasClient(sse[s], x)}

Stale(s) == {c \in subscribed[s] : ~HasClientOrObserver(sse[s], c)}

Orders(S) ==
    {f \in [1 .. Cardinality(S) -> S] : \A i, j \in DOMAIN f : f[i] = f[j] => i = j}

CleanUp(s) ==
    /\ Stale(s) # {}
    /\ Len(commands[s]) + Cardinality(Stale(s)) <= MaxCommands
    /\ \E order \in Orders(Stale(s)) :
         commands' = [commands EXCEPT ![s] = @ \o
            [i \in DOMAIN order |-> [op |-> "unsubscribe", chat |-> order[i], by |-> NoOne]]]
    /\ UNCHANGED <<setup, req, sse, subscribed, handlers, runVars, panelVars, faultVars,
                   disturbed>>

----------------------------------------------------------------------------
(***************************************************************************)
(* Aborts                                                                  *)
(***************************************************************************)
\* AbortControllerPool.abort.
AbortRun(c) ==
    /\ aborted' = aborted \cup ({pool[c]} \ {NoRun})
    /\ pool' = [pool EXCEPT ![c] = NoRun]

AbortChat(c) ==
    /\ Click
    /\ IF Queued
       THEN abortEvents' = Append(abortEvents, c) /\ UNCHANGED <<aborted, pool>>
       ELSE AbortRun(c) /\ UNCHANGED abortEvents
    /\ UNCHANGED <<setup, req, sse, redisVars, wire, job, panelVars, closed, broken,
                   forgotten, disturbed>>

AbortArrives ==
    /\ abortEvents # <<>>
    /\ abortEvents' = Tail(abortEvents)
    /\ AbortRun(Head(abortEvents))
    /\ UNCHANGED <<setup, req, sse, redisVars, wire, job, panelVars, faultVars, disturbed>>

\* abortTextToSpeech ends the stream of the chat, on the server it reaches.
AbortSpeech(s, c) ==
    /\ HasClient(sse[s], c)
    /\ Click
    /\ sse' = [sse EXCEPT ![s] = SpeechAborted(@, c, broken)]
    /\ disturbed' = disturbed \cup {r \in Requests : InFlight(r) /\ ChatOf(r) = c}
    /\ UNCHANGED <<setup, req, redisVars, runVars, panelVars, closed, broken, forgotten>>

----------------------------------------------------------------------------
(***************************************************************************)
(* Listener panels                                                         *)
(***************************************************************************)
Move(l, stage) == panel' = [panel EXCEPT ![l] = stage]

\* registerListener: in memory the eviction timer, and with it the entry, is there.
Register(l) ==
    /\ panel[l] = "absent" /\ l \in setup.panels
    /\ Move(l, "registered")
    /\ registry' = IF Queued THEN registry ELSE registry \cup {l}
    /\ UNCHANGED <<setup, req, sse, redisVars, runVars, binds, faultVars, disturbed>>

\* streamListener: the flow is looked up, the client added, the first heartbeat
\* sent; only then is the close handler installed.
OpenPanel(l) ==
    /\ panel[l] = "registered"
    /\ Move(l, "opening")
    /\ UNCHANGED <<setup, req, sse, redisVars, runVars, registry, binds, faultVars, disturbed>>

Installed(l) == IF l \in closed THEN "deaf" ELSE "listening"

AttachPanel(l) ==
    /\ panel[l] = "opening"
    /\ sse' = [sse EXCEPT ![setup.seat[l]] = AddClient(@, l, l)]
    /\ IF Queued
       THEN Move(l, "beating") /\ UNCHANGED registry
       ELSE Move(l, Installed(l)) /\ registry' = registry \cup {l}
    /\ UNCHANGED <<setup, req, redisVars, runVars, binds, faultVars, disturbed>>

FirstBeat(l) ==
    /\ panel[l] = "beating"
    /\ Move(l, Installed(l))
    /\ \/ registry' = registry \cup {l} /\ UNCHANGED budget
       \/ Fault /\ UNCHANGED registry
    /\ UNCHANGED <<setup, req, sse, redisVars, runVars, binds, closed, broken, forgotten,
                   disturbed>>

Beat(l) ==
    /\ panel[l] \in {"listening", "deaf"} /\ l \notin registry
    /\ registry' = registry \cup {l}
    /\ UNCHANGED <<setup, req, sse, redisVars, runVars, panel, binds, faultVars, disturbed>>

\* unregisterListener, as the panel may ask at any time.
Dismiss(l) ==
    /\ l \in registry /\ panel[l] # "gone"
    /\ Click
    /\ registry' = registry \ {l}
    /\ UNCHANGED <<setup, req, sse, redisVars, runVars, panel, binds, closed, broken, forgotten,
                   disturbed>>

\* The close handler.  Mutant: the streamer keeps the client.
HangupKeepsClient(l) ==
    /\ panel[l] = "listening" /\ l \in closed
    /\ IF Queued
       THEN Move(l, "closing") /\ UNCHANGED registry
       ELSE Move(l, "gone") /\ registry' = registry \ {l}
    /\ UNCHANGED <<setup, req, sse, redisVars, runVars, binds, faultVars, disturbed>>

Hangup(l) ==
    /\ panel[l] = "listening" /\ l \in closed
    /\ sse' = [sse EXCEPT ![setup.seat[l]] = RemoveClient(@, l, broken)]
    /\ IF Queued
       THEN Move(l, "closing") /\ UNCHANGED registry
       ELSE Move(l, "gone") /\ registry' = registry \ {l}
    /\ UNCHANGED <<setup, req, redisVars, runVars, binds, faultVars, disturbed>>

Unregister(l) ==
    /\ panel[l] = "closing"
    /\ Move(l, "gone")
    /\ \/ registry' = registry \ {l} /\ UNCHANGED budget
       \/ Fault /\ UNCHANGED registry
    /\ UNCHANGED <<setup, req, sse, redisVars, runVars, binds, closed, broken, forgotten,
                   disturbed>>

\* The inactivity window: one timer per listener in memory, in Redis one time to
\* live for the listeners of the flow together, which any heartbeat prolongs.
Beating == {l \in Listeners : panel[l] \in {"beating", "listening", "deaf"}}

Evict ==
    /\ \/ /\ ~Queued
          /\ \E l \in registry \ Beating : registry' = registry \ {l}
       \/ /\ Queued /\ registry # {} /\ Beating = {}
          /\ registry' = {}
    /\ UNCHANGED <<setup, req, sse, redisVars, runVars, panel, binds, faultVars, disturbed>>

----------------------------------------------------------------------------
(***************************************************************************)
(* Clients go away; the heartbeat of the streamer finds out                *)
(***************************************************************************)
\* A write to a closed response may throw or go nowhere.
Close(w) ==
    /\ closed' = closed \cup {w}
    /\ broken' = broken \/ broken' = broken \cup {w}

LoseClient(r) ==
    /\ Kind(r) \in {"stream", "hookStream"} /\ InFlight(r) /\ r \notin closed
    /\ Fault
    /\ Close(r)
    /\ UNCHANGED <<setup, req, sse, redisVars, runVars, panelVars, forgotten, disturbed>>

ClosePanel(l) ==
    /\ panel[l] \in {"opening", "beating", "listening"} /\ l \notin closed
    /\ Close(l)
    /\ UNCHANGED <<setup, req, sse, redisVars, runVars, panelVars, forgotten, budget,
                   disturbed>>

StreamerBeats(s) ==
    /\ \E x \in Ids : sse[s].clients[x] \in broken
    /\ sse' = [sse EXCEPT ![s] = Heartbeat(@, broken)]
    /\ UNCHANGED <<setup, req, redisVars, runVars, panelVars, faultVars, disturbed>>

----------------------------------------------------------------------------
Begin(r) == BeginStream(r) \/ BeginJson(r) \/ BeginHook(r)

Serve(r) ==
    \/ \E l \in Listeners : BindHere(r, l) \/ BindThere(r, l)
    \/ RejectBound(r) \/ OpenBound(r)
    \/ Refuse(r) \/ Accept(r)
    \/ Emit(r) \/ EndRun(r) \/ SeeResult(r) \/ CountFails(r)
    \/ CloseStream(r) \/ ReplyJson(r) \/ CloseHook(r)
    \/ BeginCallback(r) \/ CallBack(r) \/ CallFails(r)

Work(r) == TakeJob(r) \/ Publish(r) \/ EndJob(r)

Attach(l) == AttachPanel(l) \/ FirstBeat(l)

Detach(l) == Hangup(l) \/ Unregister(l)

Next ==
    \/ \E r \in Requests : Begin(r) \/ Serve(r) \/ Work(r) \/ LoseClient(r)
    \/ WorkerDies
    \/ Deliver
    \/ \E c \in Chats, l \in Listeners : BindArrives(c, l)
    \/ \E s \in Replicas : RedisAnswers(s) \/ CleanUp(s) \/ StreamerBeats(s) \/ Miss(s)
    \/ \E c \in Chats : AbortChat(c)
    \/ \E s \in Replicas, c \in Chats : AbortSpeech(s, c)
    \/ AbortArrives
    \/ \E l \in Listeners : Register(l) \/ OpenPanel(l) \/ Attach(l) \/ Detach(l)
                              \/ Beat(l) \/ Dismiss(l) \/ ClosePanel(l)
    \/ Evict

Spec == Init /\ [][Next]_vars

(* Redis answers, intervals and timers go off, a run ends (RunsEnd of       *)
(* Agentflow) and an attempt at a callback ends, by its timeout if need be. *)
(* Users and faults owe nothing.                                           *)
FairSpec ==
    /\ Spec
    /\ \A r \in Requests : WF_vars(Serve(r)) /\ WF_vars(Work(r))
    /\ WF_vars(Deliver) /\ WF_vars(AbortArrives) /\ WF_vars(Evict)
    /\ \A c \in Chats, l \in Listeners : WF_vars(BindArrives(c, l))
    /\ \A s \in Replicas :
          WF_vars(RedisAnswers(s)) /\ WF_vars(CleanUp(s)) /\ WF_vars(StreamerBeats(s))
    /\ \A l \in Listeners : WF_vars(Attach(l)) /\ WF_vars(Detach(l))

----------------------------------------------------------------------------
(***************************************************************************)
(* Properties                                                              *)
(***************************************************************************)
Alone(r) == r \notin disturbed

Streams(r) == Kind(r) \in {"stream", "hookStream"}

Received(r) == sse[Home(r)].out[r]

Ended(r) == r \in sse[Home(r)].ended

\* Nothing is written to a response that was ended: neither a late event of a
\* worker, nor an event of another request of the chat, nor a second end.
NothingAfterEnd ==
    [][\A s \in Replicas : \A w \in sse[s].ended : sse'[s].out[w] = sse[s].out[w]]_vars

\* A stream whose chat is its own ends when its request does, not before, and on
\* every path: a refusal, a failed run, a failed subscription.  The last event
\* and the end are in it.
OneEndPerStream ==
    \A r \in Requests : Streams(r) /\ Alone(r) /\ r \notin broken =>
        /\ Ended(r) <=> req[r].pc \in {"done", "rejected"}
        /\ req[r].pc = "done" =>
              /\ <<"end", ChatOf(r)>> \in Received(r)
              /\ {<<"metadata", r>>, <<"error", r>>} \cap Received(r) # {}

\* The pool has the controller of a run that is alone on its chat until it is
\* aborted, so that an abort reaches it; a server that runs the flows itself
\* keeps no controller of a run that is over.
AbortsReachTheRun ==
    /\ \A r \in Requests : Alone(r) /\ (req[r].pc = "running" \/ job[r] = "active") =>
          pool[ChatOf(r)] = r \/ r \in aborted
    /\ ~Queued => \A c \in Chats : pool[c] # NoRun => req[pool[c]].pc = "running"

\* A stream that is alone on its chat gets what its run emits: at once from the
\* server's own run, and when it is delivered while the job is awaited from a
\* worker's, but for events Redis lost (dropped); the cleanup does not cut off
\* its channel.
StreamGetsEvents ==
    \A r \in Requests :
        /\ Streams(r) /\ Alone(r) /\ r \notin broken
        /\ req[r].tokens > req[r].dropped /\ \A i \in DOMAIN wire : wire[i] # r
        /\ ~Queued \/ (Kind(r) = "stream" /\ req[r].pc = "waiting")
        => <<"token", r>> \in Received(r)

\* subscribedChannels says what the Redis client is subscribed to whenever no
\* command about the channel is under way, but for channels Redis refused to
\* unsubscribe (unsubscribe unmarks those all the same).
ChannelsMarked ==
    \A s \in Replicas, c \in Chats :
        (/\ <<s, c>> \notin forgotten
         /\ \A i \in DOMAIN commands[s] : commands[s][i].chat # c)
        => (c \in subscribed[s] <=> handlers[s][c] > 0)

\* An observer that still has its connection is let go of a chat only with the
\* news that the execution ended.
NoSilentDetach ==
    [][\A s \in Replicas, c \in Chats, l \in Listeners :
          (/\ l \in sse[s].observers[c] \ sse'[s].observers[c]
           /\ HasClient(sse[s], l)' /\ l \notin broken)
          => <<"executionEnd", c>> \in sse'[s].out[l]]_vars

\* When the webhook request of a chat is over nobody observes the chat any more
\* on the server that took it, unless it was rejected after the bind.
ObserversReleased ==
    \A r \in Requests :
        (/\ Kind(r) \in Hooks /\ req[r].pc = "done"
         /\ \A q \in Requests \ {r} : ChatOf(q) = ChatOf(r) => req[q].pc = "idle")
        => sse[Home(r)].observers[ChatOf(r)] = {}

\* The endpoint of a callback never hears two verdicts of one execution, however
\* often its answer is lost.
OneVerdict == \A r \in Requests : Cardinality(req[r].received) <= 1

\* Every request comes to its end.
RequestsEnd == \A r \in Requests : InFlight(r) ~> ~InFlight(r)

\* A subscription nobody uses is given up, whoever made it.
StaleChannelsGo ==
    \A s \in Replicas, c \in Chats :
        (c \in subscribed[s] /\ ~HasClientOrObserver(sse[s], c))
            ~> (c \notin subscribed[s] \/ HasClientOrObserver(sse[s], c))

\* A panel whose connection closes once its close handler is there is forgotten
\* by the streamer and, if no other panel keeps the hash alive, by the registry.
\* A webhook request that had looked it up before may bind it after that, and
\* keeps it if it is then rejected.
Rejected(c) == \E r \in Requests : req[r].pc = "rejected" /\ ChatOf(r) = c

ClosedPanelsGo ==
    \A l \in Listeners :
        (panel[l] = "listening" /\ l \in closed) ~>
            /\ ~HasClient(sse[setup.seat[l]], l)
            /\ \A c \in Chats : l \in sse[setup.seat[l]].observers[c] => Rejected(c)
            /\ l \notin registry \/ Beating \ {l} # {}
==============================================================================
