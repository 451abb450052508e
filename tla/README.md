# Verification of Keelflow

TLA+ models of the server of Keelflow (`src/packages/server/src`), the TLC runs
that check them on small instances, and theorems about them checked by TLAPS.
Line numbers are those of the commit the models were written from; `BA` stands
for `utils/buildAgentflow.ts`.

| module | what it is |
|---|---|
| `Log` | the arrays of the engine as sets of stamped items |
| `FlowGraph` | an agentflow's canvas and what the engine derives from it |
| `Agentflow` | the agentflow engine: runs, resumes, aborts, crashes, records |
| `ExecutionLifecycle` | abstract: the states an execution may go through |
| `AgentflowProofs` | theorems about `Agentflow`: types, failures |
| `AgentflowSafetyProofs` | theorems about what feeds a node, what a record says, what a run does |
| `AgentflowRouteProofs` | theorems about routes, loops, joins and what a finished run has executed |
| `LifecycleProofs` | theorems: `Agentflow` implements `ExecutionLifecycle`, finished work is kept |
| `Scheduler` | scheduled agentflows: rows, timers, firings |
| `SchedulerProofs` | theorems about `Scheduler` |
| `SSEStreamer` | the event streamer of one process, as a value |
| `PredictionStreams` | predictions, webhooks and listeners: streams, channels, jobs, aborts |
| `PredictionStreamsProofs` | lemmas about `SSEStreamer`, theorems about `PredictionStreams`: types, callbacks |
| `StreamDeliveryProofs` | theorems about streams, channels, aborts and observers |
| `DocumentStore` | a document store: its row, chunk rows, vectors and records of the record manager |
| `DocumentStoreProofs` | theorems about `DocumentStore` |
| `MCAgentflowJoin`, `-Human`, `-Fork`, `-Blocks` | four small flows for TLC |
| `MCScheduler` | two cron expressions on a clock of three ticks |
| `MCPredictionStreams` | twelve pairings of two requests and a panel |
| `MCDocumentStore` | pairs of operations, followed by a third, with each kind of record manager |

To check a run: `tlc -config <cfg> <module>`; the pairs are in the table of runs
below and in `PROJECT.json`. To check the proofs: `tlapm M.tla` for each of the
eight modules `M` whose name ends in `Proofs` (the longest takes some minutes).

## 1. The system and its parts

Keelflow is a server on which users draw flows and run them from chats, HTTP
calls, webhooks and schedules. One Node.js process holds everything; in queue
mode predictions run in workers reached through Redis. Each request is a chain
of awaits on an event loop: two requests interleave at every await, and nothing
is locked.

| part | state | operations | correct if |
|---|---|---|---|
| Agentflow engine (`BA`) | per run: `nodeExecutionQueue`, `waitingNodes`, `loopCounts`, `agentFlowExecutedData`, `humanInput`; shared: the `Execution` row | start, resume, execute a node, feed its children, stop for a human, iterate, fail, conclude | joins wait for what they must, untaken branches do not run, a run ends, the row tells the truth, a stopped execution can be resumed once and loses no work |
| Execution records (`services/executions`) | `Execution` rows | list, show, publish, delete | a row's state agrees with its items |
| Scheduler (`schedule/`, `services/schedule`) | `ScheduleRecord` rows, `cronJobs` | upsert, remove, toggle, ring, judge, run, expire, load at start | timers and rows agree, runs happen on their slots and only there, an expired schedule stops, an enabled one goes on |
| Flow management (`services/chatflows`) | `ChatFlow` rows | save, delete, toggle the schedule | the flow and what is derived from it change together |
| Prediction entry point (`utils/buildChatflow.ts`, `controllers/predictions`) | abort pool by `flow_chat` | build, abort, stream | every request ends, on every path, and so does its stream; an abort reaches the run it is meant for |
| Event streaming (`SSEStreamer`, `RedisEvent*`) | clients and observers by chat; subscribed channels | add, remove, write, subscribe, clean up | events reach the stream they are for; nothing is written after an end; no channel leaks |
| Job queues (`queue/`) | BullMQ queues | add, process, wait | a job's answer reaches its request, also when its worker dies |
| Webhooks (`services/webhook*`, `controllers/webhook*`) | listener registrations with a time to live | register, heartbeat, bind, evict, call back | a live listener sees the execution and hears of its end; a dead one goes; a callback hears one verdict |
| Owner and sessions (`identity/`) | one user, cached context, session cookies | register, log in, check | one owner only |
| Usage counters, rate limits | cache entries | get, add, set | counts are not lost |
| Document stores (`services/documentstore`) | `DocumentStore` and `DocumentStoreFileChunk` rows, the vector store, its record manager | add, process, upsert, refresh, edit, delete | totals agree with chunk rows; no orphan rows; what is on record is in the vector store; a refresh repairs; a job survives its worker |
| Legacy engines | per request | build a LangChain or LangGraph object | (library) |
| Evaluations, datasets, tools, ... | rows | create, read, update, delete | (database) |

Interactions: the prediction entry point, the webhook service, evaluations and
the schedule executor all call `executeAgentFlow`; the engine writes execution
rows and streams events; the schedule service tells `ScheduleBeat`
(`onScheduleChanged`) what it has written; the chat UI sends an answer to a
human task as a new prediction with `humanInput`. In queue mode a server puts a
job in Redis and subscribes the channel of its chat, on which the worker
publishes the events of the run; aborts go the other way on a channel of their
own. Document stores share only the queue with the rest.

The hard behaviours, each with its line in `PROJECT.json` under "hazards":

* what is read before an await and acted on after it: the state of an execution
  before it is claimed (BA:1784-1866), a schedule row before a long run
  (`ScheduleExecutor.ts:225`) or before it is saved as expired
  (`ScheduleBeat.ts:239`);
* joins whose parents depend on decisions, of which some are not taken
  (BA:672-842);
* runs that stop for a human and go on in another request, whose queue is not
  saved;
* a process that dies: queues, loop counts, timers and streams are in memory,
  rows are not; a job is taken again from its start;
* several requests of one chat that share an entry keyed by that chat: its
  client, its controller, its channel, its observers;
* operations that save the whole row they read some awaits ago: executions
  (BA:213), schedules, document stores (`services/documentstore/index.ts`).

## 2. The agentflow engine: `FlowGraph`, `Agentflow`

### State

`FlowGraph` takes the canvas as CONSTANTS: nodes with a kind, edges (a
*sequence*, because the code asks for the first edge that matches), the
iteration block a node lies in, the target and count of a loop node. It assumes
one starting node: the canvas has one Start node, and a flow with several
starting nodes is refused before anything is recorded
(`checkForMultipleStartNodes`). From it come `ExpectedInputs` and
`ConditionalGroups` (`setupNodeDependencies`), `HasRequiredInputs`
(`hasReceivedRequiredInputs`) and `NodesToIgnore` (`determineNodesToIgnore`).
`ConditionParent` walks up the *first* incoming edge only, as
`findConditionParent` does.

`Agentflow` has the execution table of one session, `records`, in the order of
creation, and for each request `run[r]`, the local variables of
`executeAgentFlow`. A log keeps stamped items: filtering an array leaves a gap
in the stamps, and "first", "last" and "second to last" are asked of the stamps.

### Actions

One action is what happens between two awaits that another request can notice.

| action | code | when |
|---|---|---|
| `StartFlow` | BA:1541-1662, 1893-2019, `addExecution` | no `humanInput` |
| `LoadPrevious`, `RejectResume` | BA:1664-1851 | `humanInput`: latest record read and judged |
| `Claim` | BA:1852-1873 | the row is to be set to INPROGRESS; twice if an item was dropped |
| `SaveRow` | BA:237-238, the save of `updateExecution` | the row that was found is written, whole |
| `BeginNode`, `TerminateAtHead`, `OverrunIterations` | BA:2020-2096 | head of the loop |
| `FailNode` | BA:1093-1500, 2163-2205 | `executeNode` throws, on its own account or because it sees the abort |
| `StopForHuman` | BA:1408-1500, 2102-2105 | a human node without an answer, an agent that asks |
| `FinishNode` | BA:2106-2162, `processNodeOutputs` | a node returns: item, children, loop |
| `BeginIteration`, `BeginItem`, `ItemReturns`, `ItemThrows` | BA:1260-1406, 1874-1892 | an iteration block, one nested run per item |
| `Conclude` | BA:2213-2236 | the loop is left |
| `Abort`, `DeleteExecution`, `Crash` | abort pool, `services/executions`, the process | any time |

### Abstractions

* What nodes compute is left out: a node finishes, fails if it is in `MayFail`,
  asks if it is an agent, names a branch if it is a decision. Memory, messages,
  streaming and telemetry are left out, the chat messages saved after the outcome
  (BA:2308-2400) among them.
* `updateExecution` is two steps: `FoundRow` finds the row and merges what is to
  change into it, `SaveRow` writes the whole of it, over what others wrote
  meanwhile, and inserts it again if it is gone. TypeORM's `save` compares with
  the table as it is then and writes what differs, which comes to the same.
* A nested run of an iteration is not run node by node: it throws, or hands back
  one item, which may be STOPPED. What it does to the table (its own record when
  the parent's is gone) is modelled.
* Sub-flows of Execute Flow nodes are requests of their own, on other flows.

### What is checked

| run | asks |
|---|---|
| `join` | joins, branches, one execution of every unconditional node, termination, abort |
| `human` | stop, answer, failure, retry, crash, deletion, one request after another; refinement of `ExecutionLifecycle` |
| `concurrent` | four overlapping requests on shared records, with stale copies of rows |
| `blocks` | iteration blocks, two loops in a cycle, the iteration limit |
| `double_resume`, `other_route`, `lost_answer` | disagreements, section 7 |

Bounds, and why they are enough. The flows have four to nine nodes: each is the
smallest in which its question is not settled by one edge. `join` has a join of
one unconditional and one of two conditional routes, another of two
unconditional ones of different length, a decision with an output that is not
connected (every decision has one), and two requests, so that orders of arrival
and overlapping starts both occur. `human` needs four requests to start, fail
after an answer, retry and stop again at the agent, and two records to have an
execution that is not the latest. `concurrent` has four requests: a start, two
answers that overlap, and one more start or answer among them. `blocks` allows
10 iterations, so that the limit is hit within the loops, whose counts are 2 and
3. Aborts, deletions and crashes are one each: a second one finds the states the
first one left, from which the model goes on in the same way. Requests are
interchangeable in `human` and `concurrent`, which use symmetry; runs that check
liveness do not.

`CHECK_DEADLOCK FALSE` is set in the agentflow runs: when all requests have
ended the system rests. The scheduler's clock goes on for ever.

Fairness: `FairSpec` gives weak fairness to each request's next step
(`Advance(r)`): a promise the engine awaits settles, because the database
answers and node implementations return or throw. No fairness for users,
deletions, aborts or crashes, and none for any particular outcome of a node.

`ExecutionLifecycle` is what people who look at the table may rely on. A change
of a record is *due* before it is *written*; a crash may lose it, and a deletion
that comes in between is undone by it. Nothing else brings an execution back,
FINISHED and TERMINATED are final, and only the latest one is resumed. `human`
shows that `Agentflow` with requests that do not overlap implements it, with
`due` refined to the rows that requests hold; with overlapping requests it does
not (`double_resume`).

## 3. The scheduler: `Scheduler`

The in-process mode of `ScheduleBeat`. `flow` is the start node of each
agentflow, from which its schedule derives; `rows` the schedule table;
`jobs` the `cronJobs` map (the expression each timer runs on); `ringing` the
timers due at this tick; `call`, `fire` and `boot` the local state of user
requests, timer callbacks and the loading at start.

Time is a clock of `Period` ticks that goes round, and a cron expression is the
set of ticks it names: what is parsed and in which time zone is left out. A date
is kept as the number of ticks until it comes. `Tick` waits until the timers of
the present tick have gone off and nothing but flow executions is under way:
calls of the database are short against a minute, runs are not.

| action | code |
|---|---|
| `SaveFlow`, `DeleteFlow`, `Toggle`, `DeleteBreaks` | `updateChatflow`, `deleteChatflow`, `toggleScheduleEnabled` up to the first query of a schedule |
| `FindRow`, `CheckStatus`, `WriteRow` | `createOrUpdateSchedule`, `deleteScheduleForTarget`, `getScheduleStatus` |
| `ReadBack`, `Apply`, `Drop` | `onScheduleChanged` |
| `Ring` ... `Start` | `_onCronFire`, `executeScheduleJob` |
| `Execute`, `Fail`, `Succeed` | `_executeAgentflow`, `updateScheduleAfterRun` |
| `QueryBatch`, `RegisterBatch` | `_syncAllJobs` |
| `Tick`, `Crash` | the clock, the process |

A save is of the whole copy that was read (TypeORM's `save` of an entity): it
undoes what others wrote in between, and inserts the row again if it is gone.
`updateScheduleAfterRun` is an `update` of two columns and does neither.

The run `schedule` has one flow, one user with three requests, two firings that
may overlap, batches of one row (so that the paging matters), end dates one tick
away, one broken deletion and one crash. Three requests are a save, an edit and
a deletion or a switch; the third lets a schedule be switched off and on again.
Two firings are a run that goes on and one that starts meanwhile. Period 3 with
expressions on slots {0, 2} and {1} is the smallest clock on which two
expressions disagree about every tick and one of them has unequal gaps. With two
users at once `RunsOnSlot` fails, because rows and timers can be left
disagreeing for good; that is the disagreement `schedule_sync` shows, and the
property is stated for one user.

The clock never rests, so that a deadlock would be an error and is checked.

Fairness: requests, callbacks, the loading, the end of an execution (that is
what `RunsEnd` of `Agentflow` says) and the clock. Users owe nothing.

## 4. Streams and webhooks: `SSEStreamer`, `PredictionStreams`

`SSEStreamer` is the class of that name as a value with operators: `AddClient`,
`AddObserver`, `SafeWrite`, `RemoveClient`, `SpeechAborted`, `Heartbeat`. Writes
that throw (to a response that is broken) drop the client, as `safeWrite` does.

`PredictionStreams` composes one streamer per server process with everything
that feeds it.

| state | code |
|---|---|
| `req[r]` | the locals of `createPrediction`, `createWebhook`, `utilBuildChatflow`, `dispatchCallback` |
| `sse[s]` | `SSEStreamer` of replica `s` |
| `subscribed`, `handlers`, `commands` | `subscribedChannels`, the listeners of the Redis client, the commands it has not answered |
| `wire`, `job` | events published and not yet delivered; the prediction queue |
| `pool`, `aborted`, `abortEvents` | `AbortControllerPool`, signals that are set, aborts on their way to the worker |
| `panel`, `registry`, `binds` | listener panels, the registry of the flow's listeners, messages to other replicas' listeners |
| `closed`, `broken` | responses whose client has gone; those on which a write throws |

| action | code |
|---|---|
| `BeginStream`, `BeginJson` | `controllers/predictions`, `internal-predictions` |
| `BeginHook`, `BindHere`, `BindThere`, `BindArrives`, `RejectBound`, `OpenBound` | `controllers/webhook`, `bindExecution` of the registry |
| `Refuse`, `Accept`, `Emit`, `EndRun`, `CountFails` | `utilBuildChatflow` and its catch, in main mode |
| `TakeJob`, `Publish`, `EndJob`, `WorkerDies`, `SeeResult`, `Deliver`, `Miss` | `PredictionQueue`, `RedisEventPublisher`, `RedisEventSubscriber`, in queue mode |
| `CloseStream`, `ReplyJson`, `CloseHook`, `BeginCallback`, `CallBack`, `CallFails` | the ends of the controllers, `dispatchCallback` |
| `RedisAnswers`, `CleanUp` | `subscribe`, `unsubscribe`, `startPeriodicCleanup` |
| `AbortChat`, `AbortArrives`, `AbortSpeech` | `abortChatMessage`, the abort channel, `abortTextToSpeech` |
| `Register` ... `Evict` | `controllers/webhook-listener`, `services/webhook-listener/registry` |
| `LoseClient`, `ClosePanel`, `StreamerBeats` | connections, the streamer's heartbeat |

Abstractions: what a run does is a number of events of one kind and an end; the
ids of chats and listeners are disjoint; Redis delivers in order and answers
commands in order; an event is lost as a whole, before Redis (`Publish`:
`safePublish` gives up) or on the way to one replica (`Miss`); a message to
another replica's listener may arrive at any time after; the signature, method
and body of a webhook are judged before anything is kept and are left out.

The run `streams` has two requests and one panel. `Setups` names the
configurations, of which `Init` chooses one; a configuration fixes the mode, the
kinds of the requests, whether they share a chat and a server, where the panel
sits, and how many faults and clicks there may be. The twelve configurations
pair what shares an entry: two streams of one chat (in both modes), a stream and
a plain request of one chat on one server and on two, webhooks of each kind
observed by a panel on the same and on another replica, with an error of Redis,
a lost event, a lost connection or a dead worker, and an abort. More requests
than two would add a third owner of an entry that two already contend for; a
third one that finds the entry of the second behaves as the second does on
finding the first. One event per run is enough to tell whether events arrive.

Most safety properties are about requests that are *alone* on their chat
(history variable `disturbed`), for two requests of one chat do spoil each
other's stream and controller (section 7). What holds whatever happens is that
nothing is written after an end, that channels are marked when they are
subscribed, that requests end, that unused subscriptions and closed panels go,
and that a callback hears one verdict. `ChannelsMarked` excepts the channels
Redis refused to unsubscribe, `ClosedPanelsGo` and the theorem
`ObserversReleasedHolds` the webhooks that were rejected after the bind, which
leave their observers bound.

`StreamGetsEvents` is about events that Redis has not lost: `dropped` counts, for a
request, those that `safePublish` gave up because its client was not ready or
Redis refused (`RedisEventPublisher.ts:52-62`), and after a message that its
replica missed, all it had emitted so far. It is therefore asked only of
requests that have emitted more than `dropped`. That a lost event costs the stream
nothing but itself is what `OneEndPerStream` and `RequestsEnd` say. Requests that
begin while the channel of their chat is being unsubscribed count as `disturbed`;
section 7 says what can happen to them.

A handler is a listener of the Redis client, and `handlers` counts them for each
channel without a bound: an unsubscription that Redis refuses unmarks the channel
and keeps its listener, so that every later subscription adds one. Only the
number of refusals (`MaxFaults`) keeps the run finite. A worker may die as often
as `MaxFaults` allows, and its jobs are taken again each time; BullMQ fails a job
that it finds stalled a second time, which is a `TakeJob` followed by an `EndJob`
that fails.

Fairness: each request, job, delivery, answer of Redis, interval and timer. A run
ends by `RunsEnd` of `Agentflow`; an attempt at a callback has a timeout. Users
owe nothing. `CHECK_DEADLOCK FALSE`: when all requests are over the system rests.

## 5. Document stores: `DocumentStore`

`row` is the store's row (status, loaders with status and number of chunks),
`chunks` its chunk rows, `vectors` the chunks that the vector store holds,
`records` those that its record manager has on record, both by their keys
(hashes of text and metadata), `op[r]` the locals of an operation: `copy` is the
row it has read and will save, `pending` the chunk rows whose insertion is under
way. `session[r]` is what a request learnt from the record manager when indexing
began: which of its chunks are known, and which keys it is to clean up.

| action | code (`services/documentstore/index.ts`) |
|---|---|
| `BeginUpload`, `Mark` | `saveProcessingLoader` |
| `FindToProcess`, `Split`, `InsertChunk`, `FinishProcessing`, `Report` | `processLoader`, `_saveChunksToStorage`, `getDocumentStoreFileChunks` |
| `BeginUpsert`, `TakeItem`, `FindToMark`, `NoItem` | `executeDocStoreUpsert`, `upsertDocStore` |
| `BeginInsert`, `FindToConfigure`, `SaveConfig`, `SaveUpserting`, `FindToUpsert`, `ReadChunks`, `FinishUpsert` | `insertIntoVectorStore`, `saveVectorStoreConfig`, `_insertIntoVectorStoreWorkerThread` |
| `LookUp`, `AddDocuments`, `Record`, `List`, `Prune`, `Forget` | the upsert of a vector store and, with a record manager, `index()` of `components/src/indexing.ts` |
| `BeginUnlist`, `Clear`, `Unlist` | `deleteLoaderFromDocumentStore` |
| `BeginChunk`, `FindChunk`, `ChangeChunk`, `SaveTotals` | deletion and edit of a chunk |
| `BeginDelete`, `EraseChunks`, `RemoveRow` | `deleteDocumentStore` |
| `BeginTouch`, `Touch`; `BeginUnindex`, `Unindex`, then `Prune`, `Forget` | saves that change nothing modelled; `deleteVectorStoreFromStore` |
| `NotFound`, `Throw`, `WorkerDies`, `ServerDies` | a missing row, a call that throws, a process that dies |

Every save writes the whole copy. In queue mode processing and upserting are
jobs (`queue/UpsertQueue.ts`), which the successor of a dead worker takes again
from their start.

Abstractions: what is loaded, split and embedded; of a loader's totals only the
number of chunks; files, upsert history and configurations;
`saveVectorStoreConfig` is given at least one configuration name; a refresh takes
the loaders in any order; creating a store (one insertion) is `Init`. A request
about a chunk names the loader of that chunk, as the user interface does; the
code never checks it (section 7).

Of vector stores the model has what those of the node library do that use
`index()` (`Postgres.ts` is mapped): `addDocuments` is one step, and so is the
deletion of the listed keys. Of the record manager the clock is left out: what
was on record when indexing began is older than what is recorded afterwards, and
a key that is recorded again, by anyone, is no longer to be cleaned up
(`Renewed`). Batches of 100 documents and of 1000 keys are one batch. A store's
record manager and its cleanup do not change during a behaviour. `cleanup` is
`noManager`, `none`, `incremental` with a source of its own for each loader,
`incrementalShared` with one source for all, or `full`; `changing` says whether a
document that is processed again gives other chunks, and so other keys.

The run `store` has three requests on one store that begins with one processed
loader; each document is split into two chunks, so that one can be inserted and
the other not. Two requests of any two kinds overlap, with one call that throws
or one process that dies, and the third, a refresh, a processing or a deletion
of the store, comes when both are over. Pairs are enough to make every read of a
copy meet every save; the third request is what the promises of repair are
about. One process dies in most configurations, and two in the one in which a
job that processes a loader is followed by a refresh. A job is taken again as
often as its worker dies; BullMQ (with its default, the code sets none) fails it
the second time it finds it stalled, which comes to a restart whose first call
throws.

Operations that delete from the vector store run with each kind of cleanup,
followed by a refresh, also with two loaders and with a loader that is edited
first, so that there are old keys to clean up. The run `full_cleanup` is the
smallest setup in which what it shows can happen, one refresh of two loaders.

The promises that hold are those a user needs when things went wrong: totals
agree with chunk rows at rest, except for loaders that an overlap or a cut may
have spoilt (`suspect`) and that were not processed since (a cut is a change of
chunk rows whose totals are not saved, which happens also when a job that had
finished is taken again, splits the document anew, and then fails: its loader is
still SYNC); without overlaps no chunk row is left without its loader; a refresh
that runs alone and to its end repairs everything, the vector store under two
conditions: cleanup does not reach the chunks of other loaders (`KeepsOthers`),
and no key may have stayed on record of a chunk that is gone (`muddled`:
operations overlapped or a deletion was cut between the vector store and the
records, and not all was deleted since); without these, what is on record is in
the vector store (`RecordsAgree`), although indexing may be cut off anywhere
before it cleans up; loaders that a job is to process end up SYNC although the
worker dies. Fairness: each operation's next step (database, loaders and models
return or throw); users, faults and crashes owe nothing. `CHECK_DEADLOCK FALSE`:
when the three requests are over the system rests.

## 6. Theorems

Every theorem is about `Spec`, without fairness, and for every value of the
constants that the named assumptions of the model modules admit; TLC evaluates
these on every run. Beyond types they ask that sets that are counted are finite,
that the values that stand for "none" are none of the things they are compared
with, and that a scheduler has a flow and a store's documents a greatest number
of chunks. Some theorems have a further hypothesis, named in its module and in
the table. It is there because the property fails without it, for the reason
given below; the passing runs that check the property satisfy it. Two theorems
state a property that no passing run has, because a run shows it to be false
(section 7): their hypothesis is what its counterexample needs to be without.

| theorem | property | hypothesis |
|---|---|---|
| `TypeCorrect`, `FailureCorrect` | `TypeOK`, `FailureIsLast` | |
| `FedByFinishedHolds`, `JoinCompleteHolds` | `FedByFinished`, `JoinComplete` | |
| `OnlyFulfilledBranchesHolds` | `OnlyFulfilledBranches` | `OneTargetPerOutput`: the edges of one output of a decision lead to one node |
| `AnswerConsumedHolds` | `AnswerConsumed` | `NoBlocks`: no node lies in an iteration block |
| `InProgressOwnedHolds` | `InProgressOwned` | `NoStrayRecords`: `NoBlocks`, or nothing is deleted |
| `RecordMatchesDataHolds`, `StoppedIsResumableHolds` | `RecordMatchesData`, `StoppedIsResumable` | `NoStaleState`: `NoBlocks`, or requests do not overlap |
| `WorkBoundedHolds` | `WorkBounded` | `NothingResumed`: no node stops for a human, or there is one request |
| `UnconditionalRunOnceHolds` | `UnconditionalRunOnce` | `NothingResumed`, `NoBlocks`, `NoLoops`, `NoParallelEdges`, `Acyclic` |
| `JoinsServedHolds` | `JoinsServed` | `NothingResumed`, `NoBlocks`, `NoLoops`, `NoParallelEdges`, `Exclusive(Nodes)`, `WellJoined` |
| `ServedInFullHolds` | (none: stated in its module) | as for `JoinsServedHolds`, without `WellJoined` |
| `LoopRunsBoundedHolds` | `LoopRunsBounded` | `NothingResumed`, `OneRoute`, `LoopsOutside` |
| `StopsOnlyCurrentRouteHolds` | `StopsOnlyCurrentRoute`, which fails in `other_route` | `OneRoute` |
| `ResumesOnlyStoppedHolds` | `ResumesOnlyStopped`, which fails in `double_resume` | `OneAtATime` |
| `ImplementsLifecycleHolds` | `ImplementsLifecycle` | `OneAtATime`: requests do not overlap |
| `FinishedWorkKeptHolds` | `FinishedWorkKept` | `OneAtATime`, and `AnswersReachHumans`: no caller names an iteration node as the one it answers |
| `ScheduleTypeCorrect` | `TypeOK` | |
| `RunsOnSlotHolds` | `RunsOnSlot` | `OneUser`: requests come one after another |
| `StreamsTypeCorrect`, `OneVerdictHolds`, `ChannelsMarkedHolds`, `AbortsReachTheRunHolds`, `NothingAfterEndHolds`, `NoSilentDetachHolds`, `OneEndPerStreamHolds`, `StreamGetsEventsHolds` | the property of that name (`TypeOK` for the first) | |
| `ObserversReleasedHolds` | `ObserversReleased`, which no run checks | |
| `StoreTypeCorrect`, `NothingOrphaned`, `TotalsAgreeHolds`, `RefreshRepairsHolds`, `RecordsAgreeHolds` | `TypeOK`, `NoOrphans`, `TotalsAgree`, `RefreshRepairs`, `RecordsAgree` | |

### `AgentflowProofs`

* `TypeCorrect == Spec => []TypeOK`. `TypeOK` is not inductive: a request that
  executes a node must have one, also while it saves a row in between, and one
  that runs an item of an iteration still counts it. `TypeInv == TypeOK /\ Busy`
  adds both; one lemma per action.
* `FailureCorrect == Spec => []FailureIsLast`: an ERROR or TERMINATED item is the
  last of its record, and of every row that is about to be saved. The inductive
  invariant `FailureInv` says of records, rows under way and runs what is needed:
  stamps are unique and below the next one; failures come last; the data of a
  STOPPED record or row, and of every run that goes on, have none. A save of a
  stale row is then as harmless as the row was when it was found. The retry of an
  ERROR record is the delicate case: dropping the last item leaves data without a
  failure only because failures come last.

The lemmas about `Push` and `Without`, and about what `FeedChildren` returns, are
stated once and cited by name.

### `AgentflowSafetyProofs`

Its first section says of each action what it makes of the request that takes it
(`OthersStay`, `SameHold`, ...), so that an invariant that speaks of one run at a
time is proved once per kind of change and not once per action.

* `FedInv`, behind `FedByFinishedHolds`, `OnlyFulfilledBranchesHolds` and half of
  `JoinCompleteHolds`: whatever is queued or waits is fed by nodes that have a
  FINISHED item in the run's own data, by an edge that the item's branch did not
  exclude, and never by the node whose answer is still to be given. The last part
  is what makes it inductive: a resume takes items of exactly that node out of
  the data.
* `JoinCompleteHolds` needs besides that the walk of `findConditionParent` up
  first incoming edges cannot come to a decision when no path up the canvas does.
  Both walks are recursive functions over naturals; that they exist and stay
  within each other is proved with the least number at which something fails
  (`LeastNatural`, from the library's well-founded induction) and the lemmas
  about `Walks` and `Layer`.
* `AnswerInv`: an answer that is not yet consumed is on its way: its node is all
  that is queued, or is current. Nothing but that node's own execution, a failure
  or a death can take it off. Inside a block the engine queues nothing: hence the
  hypothesis, whose failure is the run `lost_answer`.
* `OwnedInv`: each INPROGRESS row, and each row about to be saved as INPROGRESS,
  belongs to its request. A nested run of an iteration whose record was deleted
  inserts a row of nobody: hence the hypothesis.
* `MatchInv`: the state of each record, and of each row under way, is borne out
  by its own items. It is about one row at a time, so that stale saves cannot
  harm it; the exception is a nested run, which adds its items under whatever
  state the record has by then, which another request may have set.
  `StoppedIsResumableHolds` follows with `FailureInv` and a last stopped item,
  which exists because stamps are bounded (`GreatestNatural`).
* `WorkInv`: outside a step the items on the canvas are no more than the nodes
  taken off the queue, during one they are one fewer, and these are at most
  `MaxIterations + 1`. A resumed run begins with the items of those before it:
  hence the hypothesis, with `FreshInv` for what it means on the way (no data or
  row ever has a stopped item; or a request that has not begun finds no record).

### `AgentflowRouteProofs`

These properties depend on the shape of the flow, and each hypothesis but
`NothingResumed` speaks of the flow alone. Section 7 describes flows on which the
properties fail.

| hypothesis | says | without it |
|---|---|---|
| `OneRoute` | a node has one outgoing edge, a decision one for each output, a loop node none | two routes come by one loop node, or a human task ends the other |
| `LoopsOutside` | no loop node lies in an iteration block | each item's nested run has counts of its own |
| `NoLoops`, `Acyclic` | no loop node; nodes can be ranked so that edges go up | nodes run again |
| `NoParallelEdges` | no two edges between the same two nodes | a target of two outputs is dropped with either |
| `Exclusive(Nodes)` | in no course does a node hear two inputs that hang on one decision: its outputs meet there, not a fork behind one of them | the node runs again for the second input |
| `WellJoined` | each join needs one input only, or is `Provided` for: its expected inputs surely run and are no decisions; each decision its other inputs hang on surely runs and brings it an input by each of its connected outputs | the join starves though every decision took an output that leads somewhere |

* `StopsOnlyCurrentRouteHolds` and `LoopRunsBoundedHolds`. `TokenInv` says that a
  run on such a flow is at one place: at most one node is queued, none while one
  is executed, and an answer not yet given is on its way to that node. `LoopInv`
  builds on it: a loop node has at most one finished item more than its count,
  and no more than its count while the route goes on; with one place to be at, the
  item that did not go back is the end of the route. Resets of the counts are why
  `NothingResumed` is asked for.
* `ServedInFullHolds` says what a run of a flow without loops computes, in terms
  that know of no queue. A *step* is a node with the branch it took, a `Course` a
  set of steps in which no node has two and each node has `Earned` its run by
  what the others handed on; it is `Complete` if no other node has. A run that
  finishes has executed a complete course, each node once: the order in which
  parallel routes are taken off the queue makes no difference that the canvas and
  the decisions do not. The inductive invariant `CourseInv` follows the run on
  the way: what it has reached (executed, queued or in hand) is, each once, just
  what the executed nodes have earned, and the other nodes wait with just what
  they have heard. `Exclusive` is what keeps a node that has run from being fed
  again. It asks for courses and not for paths, because whether two inputs can
  both arrive depends on the joins between.
* `UnconditionalRunOnceHolds` uses `CourseInv` for the nodes without a decision
  above them, which need no `Exclusive`: none of their inputs is in a group. Each
  of them is executed by the least counterexample in the ranking of `Acyclic`:
  its inputs have all run, and none withholds its result. Rank and groups are
  used through the least number and the lemmas about `Above`, whose layers reach
  a fixed point within as many steps as there are nodes (`AboveClosed`, by
  cardinality).
* `JoinsServedHolds` adds to `ServedInFullHolds` that in a complete course every
  node that is `Sure` to run has run, or a decision above it took an output that
  leads nowhere. `Sure` and `After` (what runs once a decision's edges are
  followed) are least fixed points, written as the intersection of the sets
  closed under their rule, so that it is enough to show that the set of nodes that
  ran or are excused is closed.

The flow of the run `join` satisfies all of these but `OneRoute`, which that of
`blocks` satisfies with `LoopsOutside`; both are runs in which nothing is resumed.

### `LifecycleProofs`

`ImplementsLifecycleHolds` is the refinement of `ExecutionLifecycle`, with the
mapping of the model: the states of the records, and for `due` the state in the
row that a request holds for that record. For each step of the lifecycle a lemma
says which changes of the mapped variables make it, and for each action of the
engine another says which of these it is, or that it stutters. The inductive
invariant `LifeInv` says that one request at most is in flight, and that its
record is INPROGRESS or deleted, unless the request is still about to claim it,
in which case the record is the latest and STOPPED or in ERROR; that it is
*still* so when the claim is written is what overlapping requests break
(`double_resume`). `CreatedInv` says that records beyond those created are
absent, so that "latest" can be told. `ResumesOnlyStoppedHolds` follows from the
same two: a save that makes an execution INPROGRESS finds it STOPPED or in ERROR
if it is the claim of a resume, and INPROGRESS otherwise.

`FinishedWorkKeptHolds` is an action property of the saves. `KeepInv` chains what
a save relies on: the data of the run keep all finished items of the row it has
found, and that row those of the record. `HumanInv` says that stopped items are
of nodes that may ask, so that the node whose items the filter takes out is not
an iteration, and puts a new item in their place in the same step. An iteration
node named as the one that is answered would lose its own finished item for as
long as it iterates again: hence `AnswersReachHumans`; the canvas gives callers
no reason to name one.

### `SchedulerProofs`

* `ScheduleTypeCorrect`. Rows are numbered as they are inserted, and their number
  has a bound only because a request inserts one at most: `Counted` adds up rows,
  requests that may still insert, and requests that are left.
* `RunsOnSlotHolds`. `SlotInv` says that a timer rings on the expression of its
  row (`TimersFit`), unless a request is about to replace or drop it
  (`AppliedFit`), or the row is gone, or over. A firing starts a run after
  judging a row it read when it went off (`LoadedGood`), which is good if the row
  was (`AwaitedGood`), and a switch writes back a row it has read earlier
  (`CopiesGood`). After a crash timers come from batches (`BatchFits`) while no
  request is served (`BootAlone`). `Good` says of a row that it has no run left,
  or that its next run is still to come, or that the present tick is one its
  expression names: a date of an older expression, which an execution that
  outlasts an edit may write, then only puts a run off. The clock's part is that
  the next date of an expression exists and is one of its slots. With two users a
  request can apply what another has changed since: `AppliedFit` fails and so
  does the property.

### `PredictionStreamsProofs`, `StreamDeliveryProofs`

The first begins with what the operators of the streamer return: `Fades` (nobody is
connected or begins to observe, only connected responses are written to, what is
ended is disconnected), `Tells` (who is let go and has a connection has heard
why), and who keeps a connection. The theorems about `PredictionStreams` rest on
these and never expand the streamer.

* `Basics == TypeOK /\ RequestsFit /\ CommandsAwaited`: each place of a request
  belongs to its kind and mode, and whoever a command to Redis is for waits for
  just that one. Without the last part an answer could move any request.
  `OneVerdictHolds` follows: a verdict is settled before the first attempt.
* `ChannelsInv` adds that a marked channel has a handler and one without a mark
  is on a channel that Redis refused to unsubscribe, at every moment and not only
  while no command is under way.
* `ChatsInv` adds that two requests in flight on one chat are both `disturbed`,
  and that a run that is not has its controller in the pool or was aborted.
* `OwnersInv` adds whose connections they are: a client of an id is that id's
  request or panel, at home, between its start and its end. From it follow the
  action properties `NothingAfterEnd` and `NoSilentDetach`.
* `ServedInv` adds, for requests alone on their chat with a connection that
  works, that the client is this response until the step that ends it.
* `FedInv` adds that such a request keeps its channel open while it waits for its
  job, and that where it has emitted more than Redis lost, an event it has not
  received is on the wire. A loss on the way counts all that was emitted, because
  events are not told apart on the wire.
* `ReleasedInv` adds that a message on a bind channel comes from a request that
  another server took.

### `DocumentStoreProofs`

* `StoreTypeCorrect == Spec => []TypeOK`. The inductive `StoreInv` adds that a
  request that is about a loader has one, that chunk rows are being inserted only
  while a request waits for them or after it failed, and, since a deletion takes
  one off a total that may be that of a stale copy, that no total, of the row or
  of a copy, is below zero by more than the number of requests that are done.
* `NothingOrphaned == Spec => []NoOrphans`. `OrphanInv` has three parts: `Serial`
  (a request that is alone is the only one in flight; while nothing overlapped
  all are alone); while nothing overlapped, what the request in flight holds
  `Agrees` with the tables: its copy lists the loaders that the row lists, what
  it processes or inserts is listed, and a loader that is about to be struck off
  has no rows left; and a deletion of the store that is alone finds no chunk rows
  when it removes the row. The second part is why a restart of a job or an error
  half-way does no harm, the third why the deletion makes good what overlaps had
  spoilt.
* `TotalsAgreeHolds == Spec => []TotalsAgree`. `TotalsInv` says that a request in
  flight that is not alone makes every loader suspect (`Watched`); that a loader
  which nobody has open, and which is not suspect, counts its rows, no two of
  which are versions of one chunk (`AllRight`); what the request that is alone in
  flight relies on: its copy is the row, the rows inserted and those under way
  are the whole split, the chunk it changes is one of the loader's, and the total
  lags behind by just that change (`AllCareful`); and that the places of a
  request belong to its kind (`AllSuit`). Counting is done with one-to-one maps
  from the numbers of chunks, so that no total is computed by recursion. The
  attempt to prove it found a case the model's `suspect` had left out: a job that
  had finished, is taken again and fails after splitting (section 5).
* `RefreshRepairsHolds == Spec => []RefreshRepairs`. `RepairInv` follows a
  refresh that is alone: what it has done with is `Repaired`, the loader in hand
  is repaired as far as its phase says, what is left is still listed, and nothing
  undoes any of it, a dead worker included, which begins the list again. Of the
  vector store it says something where cleanup keeps to the loader's own chunks
  and nothing is muddled (`Vouched`): the loaders that are done are `Indexed`, and
  so is the one in hand once its chunks were added; the chunks that were sent are
  all of the loader's, and what is about to be deleted is `Stale`, the loader's
  own and no chunk of it any more (`Covers`). That a chunk which is skipped
  because it is on record is in the vector store comes from `RecordsAgreeHolds`.
* `RecordsAgreeHolds == Spec => []RecordsAgree`. `TrackInv` says that a store
  without a record manager has nothing on record (`Unmanaged`), that an operation
  that empties the records alone has listed all of them (`Emptied`), and where
  each request in flight stands between the two stores (`Tracked`): what it takes
  for known is still in the vector store, what it is about to record is there,
  what it deleted there is what it is about to forget. It holds only of requests
  that are alone; an overlap makes the state `muddled`.

### Only model-checked

* Liveness: `RunsEnd`, `AbortHeard`, `OrphanTimersGo`, `ExpiredStops`,
  `KeepsRunning`, `RequestsEnd`, `StaleChannelsGo`, `ClosedPanelsGo`,
  `JobsSurviveWorkers`. The prover has no rule for fairness and `ENABLED`.
* `InSync` and `FullCleansOnlyDeleted` are false (section 7), and so is
  `AnswerConsumed` on flows with blocks (`lost_answer`).

`LoopRunsBounded`, `JoinsServed` and `UnconditionalRunOnce` are claimed only for
the flows their theorems are about: section 7 has flows on which they fail.

## 7. Where the code disagrees with what it says

Five runs have a counterexample as their expected result.

* `double_resume`: two answers to one stopped execution both pass the check of
  its state; the second resumes an execution that has meanwhile ended.
* `other_route`: a human task on one route ends the run for all routes; what the
  others had queued is lost.
* `lost_answer`: an answer for an agent inside an iteration block executes
  nothing.
* `schedule_sync`: after an expired firing and an edit that overlap, table and
  timers disagree.
* `full_cleanup`: a record manager that cleans up in full mode deletes, with each
  loader that is indexed, the chunks of all others from the vector store
  (`indexing.ts:352-366`, called once for each loader).

What follows was met while modelling and has no run of its own. The models do
what the code does in each case, and the properties of the passing runs are
stated so that they hold nevertheless.

Engine. Loop counts start again with every resume
(BA:1652). The iteration limit throws outside the try and leaves the execution
INPROGRESS (BA:2028), which `InProgressOwned` has to allow. An iteration whose
record is deleted inserts records nobody updates (BA:1882-1892). A deletion that
comes between the find and the save of `updateExecution` is undone: the row is
inserted again. Overlapping resumes overwrite finished work with stale copies.

Engine, on how a canvas is drawn. One input of a group, the inputs that hang on
the same decision, is enough for a node (BA:770-789); what the others bring is not
looked at.

* A node that joins two nodes of one branch, a decision's output that forks, runs
  once for each of them; a loop node behind it runs more often than its "Max Loop
  Count".
* Of two edges on an output that is not taken only the first is looked up
  (`edges.find`, BA:833): the second target is fed along with the branch that
  was taken. `OnlyFulfilledBranchesHolds` has the hypothesis that excludes it.
* A decision with two outputs to one node feeds it by neither: the target of the
  output not taken is dropped (BA:829-837).
* A join of inputs that hang on two decisions, one above the other, starves when
  the upper one passes the lower by, although every output leads somewhere. So
  does a join of an unconditional input and one branch of a decision that takes
  another.

Scheduler. A run that outlasts an edit writes `nextRunAt` by the expression read
before it (`ScheduleExecutor.ts:225`), and firings of the new one are skipped
until then. The beat does not look for the fallback expression its comment speaks
of (`services/schedule/utils.ts:59-65`); `ScheduleBeat.shutdown` is not called; a
success is logged as FAILED when the usage counter throws
(`ScheduleExecutor.ts:218-237`).

Streams and webhooks.

* A second streaming request of a chat takes the place of the first, whose
  response is then never ended; a request that is refused removes, in its catch,
  the controller of the run that is under way.
* In queue mode a request that streams a webhook's execution subscribes nothing:
  tokens reach a panel only if its listener is bound on that replica.
  `executionEnd` is not published, so that listeners on other replicas never
  hear of the end and their observers stay.
* A webhook rejected after the bind leaves its observers bound, in queue mode
  with a subscription. The handler for a closed panel is attached after awaits: a
  panel that closes before is forgotten by nobody but the eviction. The time to
  live of a flow's registry is shared by its listeners, so that one that lives
  keeps the entries of dead ones.
* A request that asks for a stream of a flow that cannot stream, and fails, gets
  no answer.
* "Prevent duplicate subscription" (`RedisEventSubscriber.ts:58-68`) does not when
  two requests of a chat subscribe at once: there is an await between the look
  and the mark, and events come twice.
* The mark is taken off a channel only after the awaited unsubscription
  (`RedisEventSubscriber.ts:75-84`). A stream that begins while the periodic
  cleanup has the channel of its chat unsubscribed finds it marked, subscribes
  nothing, and gets no event of its job.
* An unsubscription that Redis refuses leaves the handler of the channel in place.
* An event that is emitted while the worker's Redis client is not ready, or whose
  publication fails, is given up with a line in the log: the stream ends without
  it (`RedisEventPublisher.ts:52-62`).
* An abort that reaches the worker before it takes the job is lost; one that is
  late meets the next job of the chat.

Document stores (`services/documentstore/index.ts`).

* A deletion that is cut between the vector store and the record manager
  (`Postgres.ts:314-315`, `indexing.ts:346-347`) leaves keys on record whose chunks
  are gone; `index()` skips them from then on (`indexing.ts:303-311`).
* In incremental mode, too, indexing a loader deletes the chunks of others if
  they name the same source (`incrementalShared`).
* A chunk is deleted or edited by its own id; the loader whose totals are changed
  is named besides, and nothing checks that they belong together
  (`index.ts:379-389`, `502-514`). The model has only requests that name the
  chunk's own loader.
* The first rejection of the `Promise.all` over chunk rows fails the request
  while the other rows are still being inserted.
* A deletion or an edit of a chunk that is cut off leaves totals that are wrong,
  and so does a processing job that is taken again after it had finished and then
  fails: its loader stays SYNC. Totals may become negative.
* Processing a loader that is not listed inserts its rows and then fails on an
  undefined. The save of an edited chunk that is gone inserts it again; the save
  of a store that is gone brings it back, and a save of a stale copy drops
  loaders that were added since.
* An upsert that has no `docId` makes a second loader when its job is taken
  again. UPSERTED is set when one loader was upserted although others were not,
  and stays after edits and deletions; an upsert that fails, or returns nothing,
  leaves UPSERTING. `updateDocumentStoreUsage` does not await its saves.

## 8. What is not modelled

The map covers a small share of the repository, because most of it is not the
program's own control: the node library (`packages/components/nodes`, some 300
wrappers of third-party APIs and models, each a class with an `init` and a
`run` that call one client), the user interface (`packages/ui`, `agentflow`,
`observe`), entities and migrations, and services whose operations are one query
each. Their behaviour is that of libraries that are not in this repository; to a
model they are "returns or throws", and that is how `FinishNode`, `FailNode`,
`Emit` and `Throw` have them. The parts with shared state, order or failure of
their own are the engine, the scheduler, the streams with their queue, and the
document stores.

Within these: queue mode of the scheduler (BullMQ job schedulers) and the
trigger log; the internals of BullMQ and Redis beyond what the code relies on
(commands answered in order, a stalled job taken again once);
`vectors/upsert` of chatflows, which calls a node and keeps nothing; the chat
messages and telemetry written after an outcome.

Other parts are listed as `not_modelled` in `PROJECT.json` with their reasons.
The counter of predictions among them (`utils/quotaUsage.ts:78-125`): it is read,
incremented and set with awaits in between, but every quota of this build is
"unlimited" (`UsageCacheManager.ts:8-14`), and the counter is capped by that -1
from the second prediction on, so that nothing depends on it.

Some hazards have no property, or one that covers part of them; `PROJECT.json`
says which and why. Two edits of one schedule at once, and two first saves of one
flow, which insert two schedule rows (`services/schedule/index.ts:81`), take two
users, and `RunsOnSlot` is stated for one, because with two it fails for the
reason that `schedule_sync` shows. What crashes, overruns, broken deletions and
resumes leave behind for good (an INPROGRESS execution, a schedule of a flow that
is gone, loop counts that start again, the abort entry of a finished job) is
modelled, and the properties have to allow for it, but no text of the repository
says that it should not be so.

## 9. Plan

Every invariant, action property and refinement that the passing runs check is
proved. What is left:

1. `RecordMatchesData` and `StoppedIsResumable` with overlapping requests on
   flows with blocks, for the rows that no nested run writes.
2. What the runs with loops and the resumed runs of a flow execute: courses in
   which a step may be repeated.
3. A timer for two users: `RunsOnSlot` is false there (section 7), but how far
   apart a timer and its row may come can be said.
