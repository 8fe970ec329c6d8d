# AsterMux: specifications, model checking and proofs

AsterMux is a gateway that serves OpenAI- and Anthropic-style HTTP requests with
Cursor agent processes, over ACP (JSON-RPC on pipes) or through the Cursor CLI. This
directory holds TLA+ specifications of its concurrent parts, the TLC configurations
that check them on small instances, and TLAPS proofs for instances of every size.
All specifications are read off the code under `src/`; a document or comment is
quoted only where a property states what it promises.

Contents: [the system](#the-system) - [modules](#modules) -
[how the modules fit together](#how-the-modules-fit-together) -
[state and actions](#state-and-actions) - [runs](#runs) - [bounds](#bounds) -
[fairness](#fairness) - [proofs](#proofs) -
[where the code departs from what is said of it](#where-the-code-departs-from-what-is-said-of-it) -
[not modelled](#not-modelled) - [plan](#plan).

## The system

| Part | Source | State | Operations | Talks to |
|---|---|---|---|---|
| Execution pool | `acp/execution-pool.ts` | per lane: workers, busy flags, waiter queue, trim timer, closed flag | `primePooledAcp`, `runPooledAcpSync/Stream`, `closeAllAcpPools` | executor (calls), ACP workers (children) |
| ACP worker | same file, `AcpWorker` | connection, prepared session, broken flag, counters | `ready`, `run`, `close` | transport |
| Transport | `acp/transport.ts` | pending requests by id, close promise | `request`, `notify`, `close`, line handler | child process |
| Tool pool | `acp/tool-pool.ts` | workers, leases, waiters, trim timer | `prime`, `acquire`, `tryAcquire`, `release`, `close` | tool turns |
| Tool turns | `acp/tool-turn.ts`, `acp/external-tools.ts` | active or parked turn, its timer, the agent's tool calls, the text so far | `start`, `collect`, `resume`, `close` | tool pool, registry, handlers |
| Turn registry | `acp/stateful-turn-registry.ts` | records, reservations, aliases, a mutex per record, the sweep | `reserve`, `createRecord`, `collect`, `resume`, `remove`, `closeAll` | handlers, tool turns |
| Session client | `acp/session-client.ts` | one process and one run | one-shot runs, choice of model and options | child process |
| Batch scheduler | `scheduling/batch-store.ts` | jobs, their files, dirty set, timers, active count | `create`, `cancel`, `list`, `start`, `close`, `#pump` | gateway (loopback HTTP), disk |
| Account pool | `provider/accounts.ts` | active requests, last use, rate limits | `getNextConfigDir`, `report*` | handlers |
| Executor | `provider/executor.ts` | none of its own | a run on the pool, as a one-shot or with the CLI, and the fallback between them | pools, subprocess |
| Catalogue | `provider/model-*.ts`, `protocols/handlers/model-list.ts` | cached list of models, the model used last | `resolveModel`, `getCachedCursorModels` | CLI, handlers |
| Handlers | `protocols/handlers/*.ts` | one request and its event stream | request and response of three protocols | all of the above |
| Server | `gateway/server.ts` | servers, signal flag | start, graceful shutdown | all of the above |
| Translation, command lines, configuration, logs | `protocols/*.ts`, `runtime/*.ts`, `gateway/*.ts` | files at most | pure functions, append | - |
| Commands, SDK, dashboard, menu application | `commands/`, `sdk/`, `ui/`, `apps/` | files | one-shot | gateway |

Everything runs on one Node.js event loop. There is no parallelism, but every
`await` lets other requests, timers and child-process events in, and that is where
the hard behaviour is: a set of workers that is read before an `await` and used
after it; workers that count as busy while they start; a queue whose entries can be
served, time out, be aborted or be rejected; a parked turn that expires while its
client comes back; answers that arrive after their request timed out; a stream
whose status line is gone when the run fails; processes that are killed between two
saves; a shutdown that finds requests half-way. What makes each part correct:

* execution pool, tool pool - one lease per worker, a hard ceiling of processes, an
  exact queue, somebody to serve every queue, nothing left after shutdown;
* worker and transport - each request settles once, a session serves one run, a run
  hears no other run;
* tool turns, registry - limits that hold through failures, no turn left behind,
  every parked call answered, connections reused only when nobody can reach them;
* handlers - a stream that is well formed, whole and closed, text of one run only,
  counters that return to zero, workspaces that go away;
* catalogue - the model and options asked for are those prompted with;
* batch scheduler - a bound on running items, verdicts and saved results that are
  final, nothing lost but what a restart repeats, every job settled;
* server - no agent process that nobody told to stop.

The hazards behind these are listed in `PROJECT.json` at the line where they bite,
with the properties that cover them.

## Modules

| Module | What it models |
|---|---|
| `ExecutionPool` | the pooled execution plane: lanes, borrowing, queues, elastic size, shutdown |
| `AcpConnection` | requests, answers, time-outs, close and exit of one connection |
| `AcpWorker` | a worker on its connection: preparation, runs, aborts, late answers, death |
| `ToolPool` | the pool of warm connections for tool turns |
| `ExternalTools` | the calls of an agent's tools in one turn, as functions on their states |
| `ToolSession` | one tool turn, as functions on a record |
| `TurnRegistry` | reservations, records, limits, the mutex, the sweep |
| `ToolTurns` | tool turns end to end: handlers, registry, turns, agent, timers, clients |
| `TurnStream` | the event streams of the three structured writers |
| `Accounts` | the rotation over accounts and its counters |
| `AgentRuns` | one execution: pool, one-shot or CLI, with abort, failure, kill |
| `Requests` | requests without tool turns, end to end, with fallback, repair and shutdown |
| `Models` | names of models, their variants, resolution and selection, as pure operators |
| `ModelSetup` | the shared cache and the set-up of sessions by concurrent requests |
| `BatchStore` | the persistent batch scheduler |
| `JobBoard` | what the scheduler promises: an abstract specification it implements |
| `MC*` | values of constants for TLC |
| `*Proofs`, `QueueFacts` | theorems and their proofs, see [Proofs](#proofs) |

In the `.tla` files a definition whose comment begins with *Mutant* is a plausible
wrong version of the definition after it. No specification uses it; it is there to
show, by putting it in the place of the right one, that the properties notice.

## How the modules fit together

    JobBoard <- BatchStore                    (implements)

    ExternalTools < ToolSession < TurnRegistry < ToolTurns      (extends)
    Accounts, AgentRuns < Requests
    Models < ModelSetup
    AcpConnection < AcpWorker

* `ToolTurns` composes four source files: the handler branches call the registry's
  operations, these call the turn's, and those the adapter's. The lower three
  modules define operators on records; the actions are in `ToolTurns`, because one
  turn of the event loop runs through all four. The tool pool is there as an
  acquisition that succeeds or fails; `ToolPool` models its inside.
* `Requests` composes the account pool, the executor, the child processes and the
  handlers. Of the execution pool it uses what a run can see: a call is acquired,
  emits, settles or is rejected. That every call settles is `CallsSettle` of
  `ExecutionPool`, checked there and assumed here as fairness.
* `AcpWorker` is the inside of a worker that `ExecutionPool` knows as starting,
  busy, idle or worn.
* `TurnStream` takes the requests of one turn in any order that `ToolTurns` allows.
* `BatchStore` shows by `INSTANCE JobBoard WITH ...` that it implements the board;
  TLC checks it as a property of run `batch`, and TLAPS proves it.

## State and actions

One action is one turn of the event loop, from the event that starts it to the
next `await` of something that is not settled, or, in `ExecutionPool`, `ToolPool`
and `ToolTurns`, a continuation of a settled promise, which comes before any timer,
event or new call (guards `Drained` and `Quiet`). The order of several
continuations is left open. Time is left out: time-outs, ages and idle times may
come due at any moment, and clocks are orders where the code compares them.

**ExecutionPool.** `workers[l]` and `busy` are `#workers` of a bucket and
`worker.busy`; `worn` is `shouldRecycle()`; `waiters[l]` is `#waiters`; `req[r]` is
the call's position in `acquireRunLease`: stage 1 is `tryAcquireNow` of its own
lane, 2 the attempt to borrow, 3 `tryAcquireNow` within `acquire`, and `rest` what is
left of the snapshot the recycling loop walks. `tasks` are calls of `#ensureSize` that
wait in `Promise.all`; `req[r].ahead` is history: who was queued when the call
began. `Enter` and `Resume` are `tryAcquireNow` before and after the awaits of its
recycling loop. `ServeWaiter` is an operator on its caller's updates, because
`release`, `#discard`, `#replenish` and the end of `#ensureSize` call it in the
middle of a turn. What a run does and says, and the preference for a worker with a
prepared session, are left out.

**AcpWorker, AcpConnection.** `pending` is `#pending` of the connection, `working` what
the agent (external) has not answered: a request in `working` and not in `pending`
has timed out, and `AnswerIgnored` is its late answer. `prepared`, `settled` and `flag`
are `#prepared`, whether that promise has settled, and `#preparedReady`. `Chunk` is a
session update; the worker has one listener for all sessions, so the text goes to the
current run, whoever it belongs to. `lapsed` is history: a run was given up while the agent still
worked on its prompt.

**ToolPool.** `fills` are calls of `#ensureSize` and whoever awaits them; `blame` says
whose waiter a failure rejects. A `#discard` is two steps: the connection leaves
(`closing`), and `DiscardDone` refills or dispatches. `TryAcquire` is the handlers'
non-waiting attempt.

**ToolTurns** and below. `turn[s]` is an `AcpToolSession`, with its timer (active or
parked), its calls (`parked`, `exposed`, `resolved`, `rejected`), its connection and
whether its prompt ended. `records` and `reservations` are those of the registry,
`line[s]` is the mutex of a record with whom it lets in next. `stage[r]` is where a
request is in its handler. `CloseTurn` is `close()` up to its first real await and
`CloseDone` the rest, so that expiry, a client's return and the agent's end can
come in between.

**TurnStream.** A piece is a character, numbered as it comes; some are blank. The
turn hands its text to a listener while a request collects and keeps the rest for
the result; `out[r].events` is the response, `emitted` what the writer believes it
sent, and `Rest` adds what is missing by its length, as the three writers do.

**Requests.** `req[r]` is a request in its handler: account, workspace, what its
response has become (`head`, `text`, `last`, `ended`) and `run`, the execution in
progress with its child process. `Settle` is the end of a run with the handler's code
after it: repair, counters (`Tally`), cleanup and the answer (`StreamAnswer`, `Json`,
one operator per protocol and mode). `accounts` are the counters and the orders of last
use and of rate limits.

**ModelSetup.** `catalog` is the cached listing, `last` the model remembered for all
clients; a request is resolved, waits for the first listing if it must, selects a
model among the session's choices and sets the options that its id, or the display name of
its row, asks for, one after another. `options` is `activeConfigOptions`, `told` is
`applied` with the values. The agent is free: `SetOption` puts any set of options in the
place of the old ones, whether or not it has the value just told, or leaves them
(`?? activeConfigOptions`); `SetupFails` is an answer with an error. Two things are assumed
of the data: an option keeps its semantic from one answer to the next, and a display name is
never spelt like an id (names and ids are different values).

**BatchStore.** `obj` is the job objects in memory, `known` the keys of `#jobs`, `disk`
the job files; an object outlives its key while a `#runItem` holds it, which is how
a pruned job can still be written. `dirty` stands for `#dirtyJobs` and
`#persistTimers`. `runs` is the `#runItem` calls; its size is `#active`. `Exit` is
the end of the process, by a crash or after `Close`; `Boot` is `#load`, `#prune` and
`start()`. Bodies and answers of items are left out; which terminal jobs have
expired is a free choice. So is which of two jobs `#pump` takes first (`InTurn`): their
times are whole seconds, and a new process finds them in the order of its directory.
Clients may still create, list and cancel after `Close`, while the servers drain.

**JobBoard.** A job is accepted with all its items pending, gets one result per item,
is over with the verdict its results give or cancelled, and may then be removed.
`saved` is what a new process would find: what clients have seen accepted, over or
cancelled is in it, and a crash takes back at most results of open jobs.

## Runs

| Run | Instance | Shows |
|---|---|---|
| `pool_elastic` | one lane, ceiling 2, warm floor 1, queue 2, 3 requests; 1.6 M states | `TypeOK`, `ExclusiveLease`, `LeaseKeptAlive`, `CeilingRespected`, `QueueSound`, `QueueHasServer`, `NoBypass` through demand, recycling, retirement and shutdown |
| `pool_liveness` | two lanes of one worker, one borrows, one failing start, fair | `CallsSettle`, `ShutdownDrains` |
| `tool_pool` | ceiling 2, warm floor 1, queue 2, 3 calls, one failing start, up to two connections on their way out | `ExclusiveLease`, `CeilingHolds`, `QueueSound`, `QueueHasServer` |
| `acp_worker` | 4 runs on a worker, up to 2 options each, fair | `OwnOutput`, `OneRunPerSession`, `RunsSettle`, `GetsPrepared` |
| `tool_turns` | one start and two resumptions by any of the three handlers, 3 calls, fair | `OpenTurnsGuarded`, `ShownCallsFindable`, `ConnectionsGivenBack`, `RequestsSettle`, `CallsSettle` |
| `tool_limits` | two starts of two owners, limits 1 | `CapsHold`, `ReservationsAccounted` |
| `turn_stream` | a turn of two requests, 3 pieces of text, 2 calls at once, each writer | `EventsWellFormed`, `TextDelivered` |
| `requests` | two requests (a chat stream, a stateless chat body in the batch lane), two accounts, a repair, four configurations; 1.2 M states | `ActiveAccounted`, `OneSource`, `StreamsClosed`, `WorkspaceLifetime`, `NoAgentUntold` |
| `requests_end` | one request of every kind and protocol, up to 2 repairs, fair | `RequestsEnd` |
| `models` | two requests, two catalogues, six offers, display names, an agent that takes, ignores, resets and withdraws options; 0.9 M states | `PromptedAsAsked`, `EffortComesFirst` |
| `strict_model` | one request, strict matching | a counterexample to `StrictMatches`, see [below](#where-the-code-departs-from-what-is-said-of-it) |
| `batch` | two jobs of up to 2 items, 2 slots, a stop of the process, fair | `TypeOK`, `BoundedConcurrency`, `ExecutionAccounted`, `SavedOrDirty`, `ImplementsBoard`, `JobsSettle` |

The properties that carry most:

* `ExclusiveLease` of both pools. Two calls can only meet at one worker through a
  stale snapshot, a worker under construction or a wrong return; all are in the
  models.
* `QueueHasServer` of both pools. A lane with a queue has something under way whose
  end will serve it. Both state their exceptions, which are real. A failed start leaves
  siblings whose readiness nobody awaits. In the execution pool an idle worker that
  wears out while a queue exists fills the bucket and is not fit, and nothing recycles
  it; and a warm-up whose floor is the ceiling takes every place, and nobody looks at
  the queue when it ends. Then only the queue's time-outs help.
* `NoBypass`. An action property over history: a call that found `q` queued gets no
  worker of that lane while `q` waits.
* `OpenTurnsGuarded`, `ShownCallsFindable`. A turn that is open has a request at
  work on it or a timer and a record; what a client was shown it can still answer.
  Expiry, disconnect, a failing agent, a resumption in the line and shutdown all try
  to break the pair.
* `CapsHold`. The limit is tested when a place is reserved, the record comes many
  awaits later, and every failure path gives the place back.
* `OwnOutput`, `OneRunPerSession`. No conversation leaks into another, although the
  worker does not look at the session of an update.
* `TextDelivered`, `EventsWellFormed`. The stream is put together from what a listener
  heard and from the rest of the result, by lengths and indices.
* `ConnectionsGivenBack`. A turn that has sent its prompt has given its connection back
  when it is over, and a connection is used again only when nothing that a client was
  shown can reach it; expiry, aborts, late answers and shutdown all end turns in their
  own way.
* `PromptedAsAsked`. Nothing is assumed of the agent: it may ignore a value, reset or
  withdraw other options, add new ones, or answer without saying what they are now. What
  holds whatever it does is that the prompt waits until every option known by then has the
  value asked for or was told it.
* `EffortComesFirst`. The fit of a variant is a sum of weights. That the effort asked for
  always wins is not true: a variant of another effort is taken before one of that effort
  which suits the request worse in two of speed, thinking and context size, and one that
  names no effort before one which does in any. A tie goes to the first listed. The
  property says that there are no other cases; all of them occur in run `models`.
* `NoAgentUntold`. Shutdown signals the children it knows, once; closing the pools
  makes runs spawn new ones afterwards.
* `ImplementsBoard`. One abstract specification says what the scheduler promises:
  verdicts and results are final, cancelled jobs yield nothing, and what was seen
  accepted, over or cancelled survives crashes.

`requests` exercises one kind of stream and one kind of body, a chat stream and a
stateless chat body; the properties for the other handlers and modes, the events that end
a stream of responses or messages among them, rest on the theorems of `RequestsProofs`,
which cover every kind of request (`requests_end` runs every kind, for its end alone).

The deadlock check is off where the system may stop: a closed pool, requests that
are all answered, a worker without runs left. `BatchStore` keeps it on: a
process can always be started again.

## Bounds

* *Workers* are identities that are used again when nothing refers to them. In
  `ExecutionPool` there are enough: in both of its runs the identities in no use are never
  fewer than those a lane lacks to its ceiling. In `ToolPool` they are a bound:
  `MayLeave` lets a connection leave only while a whole pool of others has a name. With
  four connections and a ceiling of two TLC sees up to two on their way out at
  once, worn ones included; the code has no such limit. The theorems of
  `ToolPoolProofs` are for every number of connections.
* *Requests* of the pools: a holder, a waiter and a newcomer, the least for overtaking
  and for a dispatch of several waiters. In `ExecutionPool` they are slots used again.
* *Ceiling 2, warm floor 1, queue 2*: the least with an elastic part, a full pool, a
  queue of more than one and a full queue.
* *MaxStartFailures* 1: one failing start among several in progress; once a pool is
  closed failures are not bounded.
* *Tool turns*: one start and two resumptions let two requests race for one turn and
  its expiry; three calls make a full batch (`maxParallelToolCalls` 2) and a call
  beyond it. Limits of 1 and two starts are the least for a refused start and for a
  place that is passed on; three starts of two owners exceed thirteen million states.
  `Caps` is proved for every number.
* *Runs of a worker* 4, *options* 2: a run, its successor that may hear late text, and
  two more with sessions prepared in between.
* *Pieces of text* 3, *requests* 2: text before the start, while parked and after a
  resumption; blank and not blank.
* *Requests and repairs*: two requests meet in the counters, the rate limits and the
  shutdown; `MaxRepairs` 1 (2 in `requests_end`) includes a repair that fails again.
* *Listings* 2: a first listing that is waited for, and a refresh behind a stale one.
* *OptionRounds* 3 in TLC, where the code has eight: one less than the four options an
  agent may come up with one after another, so that the rounds can run out.
* *JobBound, maxRequests* 2, *MaxStops* 1: two jobs compete for slots, an item of one
  runs while another settles, and a process stops in every state.
  `BatchStoreProofs` covers any number of stops.
* Symmetry is used over requests, in `pool_elastic` and `models`, which check no liveness.

## Fairness

`ExecutionPool`: strong fairness of each call's own steps, of the continuations of a
lane and of its retirements. A promise that has settled is continued and a due timer
fires; they are disabled only during microtasks of others, which end; a child
answers, fails, or runs into the request time-out of the transport. Nothing makes a
client come, abort, or a worker wear out.

`ToolPool` states the same of its continuations; no run needs it.

`AcpWorker`: weak fairness of the preparation's and the run's failure, which are
timers of the transport and of the run. Nothing is assumed of the agent.

`ToolTurns`: weak fairness of the start (the acquisition and the session set-up have
time-outs), of the handler's continuations (`PromptRaces`, `Collected`, `Admitted`),
of the batch timer, the turn's timers and the end of a close. Nothing is assumed of
agents and clients.

`Requests`: weak fairness of the pool's settlement (`CallsSettle` of `ExecutionPool`),
of a run's timer, and of the exit of a process that was killed with SIGKILL; not of a
process that was only told to stop.

`BatchStore`: weak fairness of each item's progress (the loopback request has a
time-out, line 599), of persist timers, of the exit that ends a shutdown, and of a
restart, which is the part of the supervisor (`compose.yaml:6`, `restart:
unless-stopped`).

## Proofs

Every theorem is proved from the named assumptions on the constants alone
(`PoolConstants`, `ToolPoolConstants`, `WorkerConstants`, `RegistryConstants`,
`RequestConstants`, `TurnOptions`, `CallsAreBounded`, `BatchConstants`,
`AccountsAssumption`, `RequestsAssumption`, `SetupConstants`, `OptionRoundsConstant`):
finite sets of identities, natural numbers as sizes, for any number of each; at least one connection for the tool
pool, whose methods return early without (`tool-pool.ts`); and, of what the CLI and the
sessions list, its shape: catalogues that are not empty (`cursor-agent.ts:61`), sequences
of choices, options that keep their semantic. The argument is always the same: the initial
states satisfy an inductive invariant, one lemma per action shows that a step preserves
it, and the property follows from it.

| Module | Theorems |
|---|---|
| `ExecutionPoolProofs` | `TypeCorrect`, `LeasesExclusive`, `LeasesKeptAlive`, `CeilingHolds`, `QueuesSound`, `NobodyBypassed`, `QueuesServed` |
| `ToolPoolProofs` | `PoolInvariant`, `PoolTypes`, `LeasesStayExclusive`, `CeilingKept`, `QueueKept`, `QueueServed` |
| `AcpWorkerProofs` | `WorkerInvariant`, `WorkerTypes`, `SessionsServeOneRun`, `TextStaysOwn` |
| `ToolTurnsProofs` | `TurnsInvariant`, `PlacesAccounted`, `TurnsGuarded`, `ShownCallsKept`, `ConnectionsDone`, `Caps` |
| `BatchStoreProofs` | `BatchInvariant`, `BatchTypes`, `ConcurrencyBounded`, `RunsAccounted`, `NothingLost`, `BoardImplemented` |
| `RequestsProofs` | `CountersExact`, `TextOfOneRun`, `StreamsEnd`, `WorkspacesGo`, `NobodyUntold` |
| `HandlerProofs` | `SetupInvariant`, `PromptsAsAsked`, `EffortFirst` of `ModelSetup`; `StreamsWellFormed`, `StreamInvariant`, `StreamsDeliver` of `TurnStream` |

`QueueFacts` holds what both pools need about queues: what `SubSeq`, `Tail`, `RemoveAt`
and an emptied array leave of a queue without repetitions and of its order, and that some
places of a queue have a first and a last one; and what the streams need: what sequences
joined are, induction over places (`StepByStep`, from the first place that fails) and the
equations of `FlattenSeq` (`FlattenNone`, `FlattenMore`).

**ExecutionPool.** *Types*: one lemma per operator, one step per action in `TypeNext`.
*Leases*: `ExclusiveLease` is not inductive, since a worker under construction becomes
idle when its start ends, which is only safe if no call holds it. `LeaseInv` adds that
no idle worker is pending in a continuation, that no held worker is, and that no two
continuations wait for the same one. It takes buckets, flags, calls and continuations as
parameters, because `ServeWaiter` begins from its caller's updates. *Ceiling*: inductive
with the types; growth is by the distance to a target below the ceiling, and workers
under construction are counted. *Queues*: each step leaves them alone, takes some
entries out and their calls on, or puts a call that is not queued at the end of a queue
with room. *Order*: `NoBypass` is an action property, whose invariant `OrderState` is
about the calls that a call found queued: they still wait; a call between its look at
an empty queue and its worker found nobody in that queue; and in a call's own queue
they stand before it, so that `#serveWaiter`, which answers the first live entry, passes
only entries whose clients are gone. *Wake-ups*: `WaitState` says that every busy worker
belongs to a call of the lane or to a continuation (`Owned`), that a warm-up starts
fewer workers than the ceiling (`Room`), and that then a lane with a queue has a server
or an idle worn worker (`Awaited`). A full bucket without a fit worker has a server
(`FullIsServed`); with it, whatever a turn did to calls and workers, the `#serveWaiter`
at its end leaves the queue with one (`WaitServed`).

**ToolPool.** `PoolInv` has a part for connections and leases, one for fills, one for the
queue and the ceiling. The lease part says in addition that connections under
construction are busy and that those being closed have left the pool; the part for
fills, that no two wait for one connection, which a failed start relies on.
`DispatchProps` is the heart: what a run of `#dispatchWaiters` makes of any pool, queue
and calls that satisfy the parts, since its callers have changed them before. For
`QueueServed`, `ServeInv` adds that busy connections are leased or under construction and
those under construction awaited by a fill (`Staffed`), and that fills which dispatch
nothing, those after a retirement, wait for fewer connections than the ceiling
(`TrimsFew`): a full pool with a queue has a lease or a fill that dispatches.

**AcpWorker.** `OwnOutput` needs that the agent works on no prompt but the current run's
(`Works`), which needs that a run's session is its own (`Runs`) and older than the
prepared one (`Prepares`), and that requests are about sessions asked for (`Asked`).
`Prompts` counts the prompts of sessions that no run has taken yet.

**ToolTurns.** `TurnsInv` relates, for each turn, its line at the mutex (`LineInv`) and its
record, place, timer and connection (`TurnInv`) to the stage of its start. The methods of
a turn never open one, begin a collect or give a connection back early (`Calmer`), which
settles the turn of most actions; the others are shown one by one. The limits have an
invariant of their own, `CapsInv`: a step gives places back, reserves one after the
test, or turns one into a record (`PlacesStep`).

`Returned` is about the connection alone: a turn without a prompt has nothing to give back
yet, its methods keep prompt and connection as they are (`Holdover`), and what `close()`
does at its end is what `ConnectionsGivenBack` asks for.

**BatchStore.** `Good` says how objects, keys, runs, files and timers fit together; the
synchronous save of a finished job and the delayed one of the others make
`SavedOrDirty` inductive with it. For the refinement `BoardInv` adds that a job with a
timer is pending (`Timed`) and that a job off the board whose object lives was cancelled
(`Left`); each action is then shown to be a step of `JobBoard` or a stutter.

**Requests.** `Sound` says what a request is in each phase: untouched before its run; in
its run with text of that run only, a workspace if it is isolated and no child that runs
untold once its client left (`InRun`, `Attended`); over with the right last event, no
running child and, unless its prompt was refused, no workspace (`Closed`). The first
lemmas show what each operator of `AgentRuns` and each answer makes of one such request,
`RunAnswers` what the end of a run does. The counters need that a run in progress is counted (`RunCounted`), since
`reportRequestEnd` does not go below zero; the set of runs in progress then grows or
shrinks by one request as the counter does (`RebalancedBegin`, `RebalancedEnd`). Nothing
is assumed of the account that the rotation chooses. That the exit comes last
(`ExitLast`) gives `NobodyUntold`.

**ModelSetup.** `SetupInv` says that a decided model is a row of the catalogue it was
decided over or left to the agent, and that every value the agent was told is the one
asked for (`SetWell`). Nothing is said of what it made of that, so a prompt is as asked
because `Prompt` finds nothing to set: an option that is not told and has not the value
would be pending. `EffortComesFirst` is about the selection itself: a choice that is not
taken by name has the best score (`SelectsRanked`), and `EffortOutweighs` compares the
sums: eight points between two efforts, or four to a variant without one, take two of the
other parameters, or one, to make up for.

**TurnStream.** `StreamInv` says of each response of a structured handler what its writer
has put on its stream: while it is open, its first event and, if text came, what opens
item 0 and text about it (`Begun`); when it has ended or failed, items in order. The turn
has a holder whose stream its listener is, and the pieces of a result came before those
to come, so that a later blank does not change what was trimmed (`ServedStays`). The
heart is `LaidInOrder`: items that are laid out one behind the other, each between the
place where it opens and the place where it is shut, are numbered and counted as the
property asks; `EndInOrder` lays out the text and the calls of an ended stream. That the
final object lists the items uses that `Rest` opens the text when the result has any
(`RestBegun`). Chat streams have no items, and the property says nothing of them.

`TextDelivered` speaks of the events, the writers of a length. `ToldInv` ties the two
together: what the events of a stream say of a channel is what its writer counts as
emitted (`Counted`), for every event that any handler puts on it; those that open, shut
or list items, and those of the calls, say no text (`Silent`). Of the request that
collects it says that what it has emitted is a start of what the turn has gathered, and
all of it while the listener is there, unless some of that came while the turn was
parked (`HolderFollows`); for this, what a turn holds while nobody collects must all
have come while it was parked. `CompletedDelivers` is then what `Rest` is for: a start of
the output, completed by the length of the trimmed output, is the output but for blanks
at its end. It needs a first character that is not blank, as the property does; the
slice is wrong without (below). `Delivered` flattens a sequence, for any number of events;
that is a recursive function, whose value at each place follows from the place before
(`FlattenMore`), and `TellsMore` and `TellsNoMore` add one event and many.

Only model-checked: liveness (`CallsSettle`, `ShutdownDrains`, `RequestsSettle`,
`RunsSettle`, `GetsPrepared`, `RequestsEnd`, `JobsSettle`), which needs fairness and
`ENABLED` and is out of the prover's reach.

## Where the code departs from what is said of it

`strict_model` checks one departure and finds it. Of `ASTERMUX_STRICT_MODEL`
`docs/model-selection.md:44` says: "AsterMux returns a deterministic model-selection error
when the requested id cannot be matched to the current Cursor catalog. It does not silently
run an unrelated session-default model." `resolveModelForExecution`
(`model-catalog.ts:246-290`) gives such a request the default model, `auto` or the first row
of the catalogue, without a look at the setting, which only matters when the session has no
match for that substitute. The substitution is meant (`model-catalog.test.ts:34`); that it
comes before the strict mode is what the document does not say. `README.md:228`,
`docs/CONFIGURATION.md:41` and `docs/OPERATIONS.md:132` say the same of the setting in
fewer words.

Others are built into the models, and their properties except them by name:

* *Streams of tool turns.* Text that comes while a turn is parked, and text that begins
  with a blank, are added to the stream by a slice of the trimmed result whose length
  does not fit what was sent: characters are lost or repeated (`TextDelivered`). A text
  of blanks only opens an item that the final object does not list (`EventsWellFormed`).
* *Streams of the CLI mode.* A process that exits with an error ends the stream with
  neither an error event nor `[DONE]` (`StreamsClosed`).
* *Workspaces.* A prompt that does not fit the command line is refused with its
  temporary workspace left behind (`openai-chat.ts:535`, `openai-responses.ts:770`,
  `anthropic-messages.ts:540`; `WorkspaceLifetime`).
* *Models.* The default model is "only the fallback when the caller omits a model"
  (`README.md:216`); `model-resolution.ts:19` takes the model of the request served last,
  whoever sent it. The default is compared with the catalogue as it is configured
  (`model-catalog.ts:248`), so one given by an Anthropic-style name is never found.
* *Accounts.* With all accounts limited, "who recovers first" (`accounts.ts:61`) is
  sorted again by load and use.
* *Workers.* An abort between the choice of a session and its prompt reaches nobody; a
  run given up while its agent still works may be heard by the next (`OwnOutput`).
* *Tool pool.* `acquire()` looks neither at the closed flag nor at the signal after its
  warm-up; a failed start rejects its caller while siblings start that are offered to
  nobody; a failed refill rejects all waiters (`QueueHasServer`).
* *Tool turns.* A turn that its timer closes and whose prompt then settles well is
  reported as completed. A start that fails between the lease of its connection and the
  note of it in the session, because the bridge does not bind (`tool-turn.ts:99`) or the
  client has left meanwhile (`:120`), leaves the connection leased: `close()` finds nothing
  to release. `ConnectionsGivenBack` is about turns that have sent their prompt.
* *Shutdown.* Children get SIGTERM only and are forgotten; runs whose pool is closed
  spawn a CLI process afterwards, which is told to stop because its client is gone; the
  exit waits for no child (`server.ts:86`). The warm-up's warning says that requests
  will use the one-shot mode (`server.ts:236`); they fall back to the CLI.
* *Requests.* A client that leaves is counted as an error or a success of its account,
  by what the run made of the abort. An error of an unstreamed run that is not the
  queue's leaves the handler without `reportRequestError`.
* *Execution pool.* One replenishment starts several workers and serves one waiter
  (`execution-pool.ts:808`), against "steady-state execution uses the full configured
  ceiling" (`docs/OPERATIONS.md:144`). Requests that queued during the warm-up are not
  served when it ends (`:556`). A borrower that recycled a worker may take one although
  the lender's queue has filled, against "queued batch work keeps priority"
  (`:600`). "ACP worker pool is closed" (`:587`) is tested before the awaits and a
  worker is created after them; `ShutdownDrains` shows that it does not stay.
* *Batch.* A cancelled job that was pruned while its item still ran is written again
  (`batch-store.ts:583`), one above "maximum retained job records"
  (`docs/CONFIGURATION.md:115`). A graceful close settles running items as cancelled
  (`batch-store.ts:218`) where a crash would have them run again.

## Not modelled

`PROJECT.json` lists every component with what is left out of it. Not modelled at all:

* argument lists, environment, quoting and process start (`provider/invocation.ts`,
  `provider/max-mode.ts`, `provider/token-cache.ts`, `provider/mode-resolution.ts`,
  `runtime/windows-command-line.ts`, `runtime/client-invocation.ts`): conversions of one
  value, at one time;
* configuration and environment: parsed once at the start; what the modules take from
  it are constants;
* translation between protocols, structured output and tool schemas: JSON shapes; that
  an output is usable is a free choice of `Requests`;
* control surface, status, logs: read-only or append-only;
* commands, SDK, dashboard, menu application, examples, scripts: one-shot or outside
  the gateway.

Within modelled parts: metrics counters; buckets and pools made by calls that come after
their map was emptied; failed writes of job files. One in a timer or a `finally` ends the
process and is a crash to the model; one in `create()` or `cancel()` is answered by the
router with 400 or 500 while the job, or its cancellation, stays in memory, and the
model has no such step. Also permission requests of agents, and the forced exit after ten
seconds.

## Plan

1. The composition of `Requests` with `ExecutionPool` in the place of `PoolSettles`.
2. An abstract pool of leases that both pools implement.
3. Calls that come after `closeAllAcpPools`; failed writes of job files.
4. The stream parser and the structured-output repair as operators against reference
   definitions.
