# TLA+ models of pic-agentic

pic-agentic lets an MCP client run PIConGPU simulations on a cluster it cannot
reach directly. An **MCP server** and a **simulation client** ("simclient") on the
cluster exchange signed messages through a Matrix room. The server turns tool
calls and campaign agendas into commands; the simclient builds and submits the
simulations with SLURM, follows the jobs and reports lifecycle events. The
server's whole knowledge is a projection of the room.

Paths below are relative to `src/pic_agentic/` of the repository.

## 1. Inventory

| Component | State | Operations | Interacts with |
|---|---|---|---|
| simclient commands (`simclient/client.py`, `simclient/simulation.py`) | `_processed` (+ `processed-cmds.jsonl`), `DedupStore`, submit tasks, `_build_semaphore`, `_active_builds`, `_follow_tasks`, `_follow_locks`, control cache | hello, submit, status, logs, result, control; build; start follower; shutdown | room, SLURM, setup directories, followers |
| job follower (`simclient/follow.py`, `parsing/progress.py`) | `TrackedSim` (last state, reason, offset, `terminal_emitted`) | poll, tail progress, emit terminal | SLURM, stdout file, room |
| RCP (`rcp/`) | `DedupStore`, `SequenceState` | sign, verify, dedup | every message |
| transports (`transport/`) | sync token, room list, history page | send, receive, backfill | Matrix homeserver |
| server simulation service (`server/simulation.py`) | `registry`, `event_log`, `_pending*`, `_waiters`, `history_complete` | project event, project ack, submit, pull, control, wait | room, agenda hooks |
| hello service (`server/hello.py`) | pending future, last result | hello | room |
| runtime and tools (`server/app.py`) | the services, the receive loop, the advance lock | route, start, stop, MCP tools | all services |
| agenda service and engine (`server/agenda.py`, `agenda/engine.py`, `agenda/store.py`, `agenda/campaign.py`) | campaign tree, leaf states, budget, callbacks, YAML state files | tick, submit a leaf, defer, fold observations, stop, delete | submit service, reuse registry |
| planner, budget, refinement, reuse (`agenda/`) | reuse registry file | plan, admission, next samples, remember/promote | engine |
| SLURM client (`slurm/client.py`) | none | sbatch, squeue/sacct, scancel | scheduler |
| MAS authentication (`auth/mas.py`) | token cache file and its lock | access token, refresh | homeserver |
| results, analysis, build, fleet, human, CWL, config, version | files only | read, render, convert | |

The hard behaviours: the room delivers late, twice and interleaved with a replay;
the server retries a command whose ack timed out; the simclient is one asyncio
process, so a handler is interrupted at every `await`; builds run in worker threads
that survive the cancellation of their coroutine; the process is killed at any
point, and only `processed-cmds.jsonl`, the setup directories, the SLURM queue and
the room survive; writing that file can fail. The hazards this creates are listed
with their lines under `hazards` in `PROJECT.json`.

The server has hard behaviours of its own: one record per simulation
for runs that overlap; an agenda tick that holds a copy of the campaign across the awaits
of its submissions, while its acks are lost and the server dies; waits that race the
client's own timer; a refresh token that several processes rotate.

What makes the system correct: a submission puts at most one job in the queue; an
accepted command is remembered; answers about one command agree; a finished
outcome is final; one watcher follows a simulation; shutdown ends, and leaves
nothing running; a command being executed gets an outcome; the server's view never mixes
runs or invents an end; a campaign counts every cost once, loses no decision and no
update, and claims as done, failed or reusable only what is; a wait returns and tells the
truth; control acts once; the refresh chain is kept.

## 2. Plan

1. `ProcessedStore`, `SimClient`, `SimClientProofs`: the idempotent execution of
   commands, the core of the system's promise. **Done.**
2. `SubmitService`: the registry a server projects from the room, with runs that
   overlap, retries, late acks and restarts. **Done**, with proofs.
3. `JobFollower`: what a watcher reads and emits, and whether the end of a job is
   reported. **Done**, with proofs.
4. `MatrixTransport`: history replay and sync loop. **Done**, with proofs.
5. `JobControl`: status, logs, results, control and hello, from the tool to SLURM and
   back. **Done**, with proofs.
6. `Planner`, `ReuseRegistry`, `Agenda`: the campaign engine and service with a client
   that loses acks and dies. **Done**, with proofs.
7. `MasTokens`, `MasTokensProofs`: the shared refresh chain. **Done**, with proofs.
8. `CommandLedger`: the abstract specification `SimClient` refines. **Done**, with the
   proof of the refinement (in `SimClientProofs`).
9. `Study`: patch paths, sweeps and refinement. **Done.**
10. `WaitTool`: waits, fleet view, condensed events. **Done**, with proofs.
11. `BuildCapture`: output of concurrent workflow runs. **Done.**
12. Proofs still worth having: `CaptureIsExact` and `TailIsLive` of `BuildCapture`, whose
    folds would first become recursive functions as those of `Agenda` did.

Each later module follows the form of the first ones: constants with a named
assumption, one action per handler or per stretch between two awaits, an MC module,
no `RECURSIVE` operator where theorems are planned.

## 3. Modules

### ProcessedStore

The idempotency store as one value `[mem, order, disk, diskOrder, torn]` and pure
operators on it: `Persist` (`_persist_processed`, with `_rewrite_processed`
inside), `Load` (`_load_processed`). The file is abstracted to what loading it
returns, the order of first appearance of its ids and whether it ends in a partial
line. An append can succeed, fail with nothing written, fail after part of the
line, or succeed with a failing compaction (`WriteOutcomes`).

### SimClient

One action is the code a task runs between two awaits; its name is the code's, or
says which await ends. `task[t].pc` names the await:

| pc | await in the code |
|---|---|
| `ack`, `accept` | `_send` of the last ack; of the accepted ack in `_handle_submit` |
| `helloJob`, `helloWait` | `sbatch` and the wait for the hello job in `_execute_hello` |
| `gate` | `async with self._build_semaphore` in `_run_submit` |
| `generate`, `workflow`, `sbatched` | `asyncio.to_thread(generate)`, `_run_workflow` before and after its `sbatch` |
| `submitted`, `finish`, `fail` | the event sends of `execute_submit` and of the failure path |
| `record`, `recordFail` | resumption after the last send, where the outcome is persisted |
| `followLock`, `followCancel` | the per-simulation lock and the await of the replaced watcher in `_start_follower` |

`Deliver` is `handle()` up to its first await: dedup by event id, idempotency check
by command id, and, for a new command, the pending record, which is persisted in the
same step. `TaskRaises` is an uncaught error (a failing send; `_normalise_workflow_vars`
or `find_stdout_path`). `mode` follows `serve()`: serving, draining (dispatched
handlers cancelled at once, submissions given the grace), expired (submissions
cancelled; their threads become `orphan`s), reaping (watchers cancelled), returned,
down. `Crash` drops everything but file, directories, queue and room; the child process of
a submit step may survive it and still run `sbatch` (`orphan`'s `"child"`), also beside
the next process.

Modelling decisions:

* A posted event may be delivered at any time, in any order and repeatedly; a
  repeated command in `room` is a retry under a fresh event id.
* A command id belongs to one kind of command. Commands without an id or payload are
  not enumerated: the server never builds them.
* `Runner.generate` (external) refuses an existing setup directory; check and
  creation are one step, and it may fail before or after it. The directory is
  `setup_root/sim_id/cmd_id`, so it is keyed
  by the command and not by the id alone.
* The hash of a payload stands for its `sim_id`, which is a prefix of it. It is computed by
  the payload and checked by `prepare_submit`, so the branch of `_submit_replay_ack` for
  missing hashes is out of reach, as is that of `_start_follower` for a submit system other
  than `sbatch`, which `_check_submit_system` refuses.
* A workflow step may fail before or after the one that ran `sbatch`; the code
  cannot tell, and neither can the model.
* Read and control commands are `JobControl`, what a watcher emits is `JobFollower`, and
  what is kept of a workflow's output is `BuildCapture`.

`MCSimClient` gives the rooms: a retry with a changed payload or a resubmission
beside it, three resubmissions of one simulation, a retry under every fault of the disk
and of the process, submissions mixed with a hello.

### CommandLedger

The abstract specification `SimClient` implements (`ImplementsLedger`): one entry per
command id that is opened once, decided once and final, and answers that need an entry
and never contradict it. It has no processes, tasks, files or deliveries. The refinement
mapping takes the record on disk for the entry and the acks in the room for the answers.
The promise is conditional, as the code's is: it ends when a write of the record was lost
or more ids came than `_MAX_PROCESSED` (`sound <- Remembers`).

### SubmitService

The server's registry (`server/simulation.py`), event log and submit calls.
The simclient is an environment: for each run (a command id) it builds the messages
`SimClient` and `JobFollower` would, in the order of `Lifecycle`. A message takes its
whole-second stamp when it is built (`Post`) and reaches the room later (`Land`) or
never (`SendLost`), so stamps tie and messages of different tasks swap. A retried
command is answered by `Replay` with what the record of that moment says.

`Route` is `on_message` for one message: log, project, resolve the submit call.
`ProjectEvent`, `ProjectAck` and `RecordFor` are `_project_event`, `_project_ack` and
`_record_for` as functions of one record. The event log is the set of the room's
positions it retains, since it keeps the room's order; `AppendEventLog` drops those with
`EventLogMax` newer ones of the same simulation. `Restart` begins a new process that
replays the room from any point: `replay` counts the messages `ingest_backfill` still has
to route, and no tool sends before it is zero (`Serves`). `ended` is where its paging ended
(`Endings`): cut by a failed request or the cap, at the room's start, or at a page without
our messages although older ones exist. `complete` is what the transport makes of it
(`HistoryComplete`): only the first counts as incomplete, as in `backfill`, and
`UnknownError` goes by it. `OutcomeFromAck` is what a submit call returns. Records keep the fields
the properties tell apart: run, state, whose job id, last stamp, error. Waits are
`WaitTool`, read and control calls `JobControl`, the hooks of the agenda `Agenda`.

### JobFollower

One watcher (`simclient/follow.py`) beside the job, `scontrol` and the stdout file. A
step of the follower is the code up to the next await: `PollOk`/`PollFails` end the
await of `_poll`, `EmitState`, `TailProgress`, `EmitFinished` and `EmitLast` those of
the sends, `Account` that of `sacct`, `LinkRunResults` that of the thread. The job
writes a progress line in two halves, may be requeued (its file starts afresh), ends
in one of `Ends` and may be forgotten by the scheduler (`Purges`). `Parsed` is the enum
`SlurmJobState`: an answer with any other state raises inside `job_info`, which `_poll`
turns into no answer. Offsets count lines instead of bytes. A requeued job whose new
output is at least as long as what was read is read on from the old offset, as in the
code. Delays, ETA, the manifest and the vacuity probe are left out: they do not change
what is emitted or when.

### MatrixTransport

One end of the room (`transport/matrix.py`) and the part of the runtime that drives it
(`server/app.py`). Events are numbered; tokens are numbers of events. `FirstSync`,
`Page`, `PageFails`, `Finish` are `backfill()` with its loop unrolled into requests, so
that events arrive meanwhile; `BackfillRaises` is an error that `backfill()` does not catch
(a first sync without rooms, or the refresh of the token before a request), with which the
start fails; `Sync` is one round of `receive()` or `drain()`. Two facts
of the homeserver and of matrix-nio are assumed: a sync returns the newest `SyncLimit`
events after the token (ten by default, as the code's comment says), and a request
that fails either raises or returns an error response that has no `rooms`.
The role `"client"` is the simulation client, which never calls `backfill()`.

### Planner, ReuseRegistry, Agenda

`Planner` has the pure decisions of `agenda/planner.py`, `agenda/budget.py` and the plan half
of the engine as operators on a function from leaf paths to `AgendaSim` records;
`ReuseRegistry` those of `agenda/reuse.py` on the content of its file. `Agenda` is the
engine and the service that use them. What the code does in a loop over the leaves is a set
or a function where the order cannot matter, and a recursive function of the position in
the walk where it does (`Kept`, the usage along the reconciliation), so that it can be
both evaluated and proved about.

`op` is the operation that holds `AgendaService._lock`: idle, a tick or a stop. A tick
keeps its own copy of the campaign, `op.c`. `TickStart` is load, fold, reuse, reconciliation,
plan, callbacks and the first save; `RunSteps` goes to the next submission and sends it;
`AckArrives`, `AckTimeout` or `SubmitError` ends its await, and `Resolve` records the outcome
and saves; `TickEnd` ends it. A submission may raise something else than an ack timeout
(preparing the spec, refreshing the token, the answer of the homeserver to the send): whether
its command is in the room by then is open, and the leaf is failed for good
(`SubmitFailed`, `_submit_one`). `spent.raised` remembers these leaves. Tools are actions that
need the lock. The simclient
is an environment: `Receive` answers as `SimClient` does (accepted, refused, replayed, pending),
`Progress` and `Report` move the job and the registry, `ClientDies` leaves a pending
record for ever. `Crash` kills the server; files stay. `said`, `told` and `asked` are
history: what tools acknowledged, what callbacks were drained, what a stop cancelled.
Direct submissions share simulations with leaves, which is what reuse is about.
Costs are small integers, and the accounting of a run may be unreadable (`Actual`); time is
the number of units of a deferral that passed.

### JobControl

Requests about a submitted simulation (`_fetch`, `control`, the human room) from the tool to the
handlers of the client, SLURM and back. The client handles each message in a task of its
own with `pc` at the awaits: `query` (scontrol), `act` (scancel or signal), `read` (a
thread), `send`. A message may be delivered again to the process that read it
(`Redeliver`), or its command comes again in another envelope, which the `DedupStore` takes
for a new message (`ComesAgain`); `cache` is `_control_acks`, from which the client answers
once it has answered a command. A scancel may fail before or after the scheduler took it
(`Act`), and a cancelled job ends some time later (`dying`, `Run`). `HumanStop` is `!stop`: it
cancels one simulation after the other (`left`, `StopNext`) inside the pump, which takes
no message meanwhile (`Reads`). The campaign's part of a stop is `Agenda`. `ClientRestart`
empties its memory and reads the recent room again, so
across processes only the order of the room protects a command; `replay` is the registry
a server that starts now would build from the room, and the one it then has;
`Features` are the capabilities two versions announce in the hello handshake; `pump` is
the request a pump with a human room waits for. A send of the server that raises before a
request is awaited ends the tool call there, and is left out.

### MasTokens

The processes that share one account: `access_token` reads the cache and, if the pair has
expired, waits for the lock; `refresh_locked` reads again and sends the refresh token;
`Grant` and `Refuse` are the endpoint (external); `Write`, `Rejected` and `Fails` end the
exchange. A consumed refresh token is refused. Reading the cache, writing it and the exchange
may fail.
`broken` records the two causes the code cannot avoid.

### Study

What the tools do to a campaign before and between its ticks: `CreateCampaign` with a
patch path and a base spec or without them, `Expand`, `AddLeaf`, `RecordAnalysis`,
`SuggestRefinement`. A spec is a function
from node paths to values; patch paths follow dicts and lists as `_patch_spec` and
`_leaf_target_exists` do. Scores and coordinates are scaled integers.

### WaitTool

`wait_for_simulation`, the fleet summary with its alerts, the notes of a timed-out wait and
`condense_events`. Time is explicit: a wait is asleep until an event wakes it, its poll
interval or its deadline; the loop may run a due task `Lag` late; the MCP client gives up
at `ClientTimer`. The projection of `SubmitService` is repeated with the fields the views
read, without replay. Two history fields say what a verdict was about: `turn` counts how
often the record changed hands, and `lost` marks a run whose task ended with a failed send.

### BuildCapture

What `_run_workflow` captures: the thread of each run, its step processes, the pipe, the
reader thread, the logger of cwltool and the live tail. `Begin` to `Collect` are the stretches of
`_run_workflow` between points where another thread may run. Lines are written in two
pieces. A step may leave a background process that holds the pipe. A reader whose pipe
nobody holds is taken to empty it within the ten seconds of the join.

## 4. Runs and bounds

| Run | Checks | Shows |
|---|---|---|
| `client_safety` | `TypeOK`, `OneExecution`, `ImplementsLedger`, `WatchersControlled`, `AtMostOneJob` | Retried, changed and repeated submissions and a hello, through a kill at any await, an uncaught error, a failing disk and a shutdown: the client implements the abstract ledger of CommandLedger, executes once, accepts durably, watches once, leaves nothing behind, and never puts a second job in the queue. |
| `client_live` | `ExecutionIsRecorded`, `ServeReturnsEventually` | With one build permit: a command in execution gets a recorded outcome while the client serves, and serve() returns after the grace even when builds hang. |
| `registry_safety` | `RegistryConsistent`, `FailuresAreReal`, `LossesAreHonest`, `TerminalStays` | Two runs of one simulation, one run to its end, and two simulations, with retries, lost sends, tied or swapped stamps and a restart: records never mix runs, invent failures or leave a terminal state, and the log keeps the newest events. |
| `follower` | `PostsAreTrue`, `EndReported` | A watcher while its job runs, is requeued, ends or is purged: progress never goes back, all output is read before the end is announced, the last events are true of the job, and an end that is parsed and remembered is reported. |
| `transport` | `ReplayIsFaithful`, `NewestArrives` | Replay and live syncs of a server, a human-facing server and a client over rooms with other events, failing requests, the cap and a restart: in order, once, without holes; a replay cut short says so; the newest message arrives. |
| `agenda` | `BudgetKept`, `DecisionNotLost`, `UpdatesSurvive`, `ClaimsAreReal`, `StopReachesEveryJob`, `SubmitsOnlyReady`, `ReportMatchesFile` | Ticks, stops and every campaign tool against a simclient that loses acks, dies and replays, with submissions that raise, direct submissions of the same simulation and crashes of the server: budgets, callbacks, tool updates, dependencies, failures and reuse stay true. |
| `agenda_live` | `AgendaGoesOn` | With ticks, deliveries and time going on, a deferred leaf is resolved or given up, and no operation keeps the lock, also after a simclient died with its record pending. |
| `control` | `ControlIsExact`, `StatusNotStale`, `ServerGoesOn` | Cancel, signal, status, logs and result requests from tools and the human room (a !stop of several simulations too), redelivered, repeated in a fresh envelope, timed out and interleaved with restarts of the client (in two versions) and of the server and with a scancel that fails after it acted: no message acts twice, no answered command acts again, ok means taken, no status goes back, and every request and the pump go on. |
| `tokens` | `ChainSound`, `NoNeedlessRefresh`, `CallsEnd` | Two processes that share one account refresh its tokens through the cache and the lock file, with crashes, lost answers and unreadable caches: the live refresh token is lost, and a consumed one sent, only when an exchange is given up in doubt or the cache cannot be read under the lock. |
| `study` | `CampaignsAreSound`, `RisingSweepStaysOpen`, `SuggestionsAreNew` | Campaigns seeded over good and bad patch paths, expanded, added to, analysed and refined for two rounds: patches touch one field, leaves can be submitted and have names of their own, a rising sweep is not taken for a converged one, and suggestions are new points next to the best. |
| `waits` | `WakeupsConsistent`, `ServerAnswersFirst`, `ViewsAreTrue`, `WaitEnds` | wait_for_simulation against moving records, overtaking runs, replayed acks and the client's own timer: every accepted wait returns, before the client gives up when its budget is known, without sleeping on what it waits for; and the fleet view, the notes and the condensed events agree with what the runs reported. |
| `capture` | `CaptureIsExact`, `ClassifiedRight`, `TailIsLive`, `WorkflowReturns` | Workflow runs in two threads with failing builds, failing submissions and processes that outlive their step: their output never mixes, none is lost, failures are classified right, the live tail is the newest output of a run in progress, and every run returns. |

A property that is a conjunction of named parts, and the parts:

| Property | Parts |
|---|---|
| `OneExecution` | `AtMostOneExecution`, `AnswersAgree` |
| `WatchersControlled` | `OneWatcherPerSim`, `NothingLeftRunning` |
| `RegistryConsistent` | `TypeOK`, `FieldsOfOneRun`, `AckedIsVisible` |
| `FailuresAreReal` | `FailedIsReal`, `RefusalIsReal` |
| `LossesAreHonest` | `LogKeepsNewest`, `UnknownIsHonest` |
| `WakeupsConsistent` | `TypeOK`, `WaitersAreTheCalls`, `NoLostWakeup` |
| `ViewsAreTrue` | `EndedIsFinal`, `BlockedIsNotWaitedFor`, `AlertsAreTrue`, `SummaryAgrees`, `CondensedIsStretchEnds` |
| `PostsAreTrue` | `TypeOK`, `ProgressForward`, `BoundedCadence`, `CompletionReported`, `EndIsTrue` |
| `ReplayIsFaithful` | `TypeOK`, `InOrderOnce`, `ReplayHasNoHoles`, `CutIsMarked` |
| `BudgetKept` | `TypeOK`, `UsageIsSum`, `JobsWithinCap` |
| `ClaimsAreReal` | `DoneIsReal`, `FailureHasCause`, `ReusableHasResults` |
| `SubmitsOnlyReady` | `HeldUnlessRunning`, `DependenciesReallyDone` |
| `AgendaGoesOn` | `DeferralEnds`, `LockReleased` |
| `ControlIsExact` | `TypeOK`, `ActedOnce`, `AnsweredIsOver`, `OkMeansActed` |
| `ServerGoesOn` | `RequestsEnd`, `PumpResumes` |
| `ChainSound` | `ChainKept`, `ReuseHasCause` |
| `CampaignsAreSound` | `TypeOK`, `PatchesOneField`, `Submittable`, `NamesUnique` |
| `CaptureIsExact` | `TypeOK`, `Isolated`, `CaptureComplete` |
| `TailIsLive` | `TailNotStale`, `TailIsNewest` |

Every part has a mutant of its own, a plausible bug in the code that breaks the property
through that part (`mutants` in `PROJECT.json`).

Bounds, and why they are enough:

* `SimClient`. Rooms hold two to four events: a command, its retry and a competitor,
  which is what every property compares. Two task slots allow every pairwise
  interleaving of builds; tasks meet only in the store, the semaphore, a watcher lock
  and the setup directory. One kill, one shutdown, or (with a hello) both separate
  two processes, and each process starts from `Load` alone, so a third one
  sees what a second one sees. Two disk faults allow a torn line followed by a glued
  one, and a command that is forgotten and executed again. `MaxProcessed = 2`, so that
  the third of three resubmissions evicts the first. Event ids are
  forgotten beyond `MaxSeen`.
* `SubmitService`. Two runs of one simulation, two seconds and one retry give every
  order of two lifecycles with tied and swapped stamps within a room of four messages;
  a second instance of `registry_safety` follows one run through all seven messages
  of its life, with a retry and a restart, and a third has two simulations.
  The log of one event is full at the second. A replay may begin at every position and end
  its paging in each way.
* `JobFollower`. Percentages 30, 40 and 100 with buckets of 25 give two lines in one
  bucket, a crossing and completion; one requeue starts the file again. Each kind
  of disturbance happens at most once and at most two of them together, anywhere.
* `MatrixTransport`. With windows and pages of two events and a cap of four, seven events
  are four pages, more than the cap, and more than a window between two syncs.
* `Agenda`. Ten instances, each a campaign of one or two leaves with a different mix of
  caps, tools, direct submissions and faults (`MCAgenda` names them). Three lost acks
  outlast the deferral window of one unit of time, and the client may die with its record
  pending; one submission may raise, alone among all other faults and as one of two leaves
  (`raises`).
* `JobControl`. Two submissions of one simulation and one of another, one or two requests (or a
  `!stop` of both simulations), one restart, one redelivery, one copy in another envelope
  (`copies`) and one failing SLURM call: the handlers meet only in the cache, the tracked
  job and the scheduler, so two of them and one restart give every overlap.
* `MasTokens`. Two processes, four refreshes, one kill, one fault; the proofs are for any number.
* `WaitTool`. A client timer of 4 s with a skew of 2 s and a loop that lags 1 s has a wait
  that fits, one that just does not and one that is beyond the maximum; eight instances
  combine runs, callers and budgets, one with a command that is sent again between two
  runs of its simulation.
* `Study`. Eleven setups and nine patch paths, four score functions (rising slowly,
  falling, a peak, flat), two rounds of refinement.
* `BuildCapture`. Two runs in two threads or one after the other, a pipe of four pieces,
  tails of two lines and three bytes: the pipe fills, and both limits of the tail evict.

Finite rooms may be fully processed and a finished follower has nothing to do, so the
runs say `CHECK_DEADLOCK FALSE`. Task slots are symmetric in the runs of `SimClient`
that check safety only.

### Fairness

`StopFairness` is what asyncio and the code's timers give: a cancelled task ends, the
grace timer fires, `_cancel_followers` and `serve()` go on when what they await is
done. Builds may hang. `WorkFairness` adds that, while the client
serves, handlers and builds end, and strong
fairness of the semaphore and of the watcher lock, whose waiters asyncio wakes in
FIFO order.
`JobFollower!FairSpec`: the event loop runs the follower, a poll ends, and `scontrol` does
not fail for ever while it could answer (strong fairness of `PollOk`); the job itself may
run for ever. `MatrixTransport!FairSpec`: the start and the sync loop go on.
`Agenda!FairSpec`: the agent keeps calling `advance_agenda`, each tick
goes on, a stop goes on because every cancel has a timeout, time passes, the client
receives what is on the wire and acks arrive, or time out within the bound on losses; jobs and
tools are not fair. `JobControl!FairSpec`: the pump routes, a `!stop` goes on to its next
simulation, and every request and handshake has a timeout (`_fetch`, `hello`); the client
is not fair at all.
`MasTokens!FairSpec`: the token endpoint answers or the exchange times out (aiohttp's
total timeout), a call whose exchange ended ends, and the file lock is strongly fair,
since the release of `flock` wakes its waiters each time. `WaitTool!FairSpec`: time passes
and asyncio runs a woken task and a due timer; how late it runs them is `Lag`, assumed
smaller than the skew. `BuildCapture!FairSpec`: the operating system runs the thread of
each run and its reader; background processes are not fair and may hold the pipe for
ever, which is what the timeout of the join is for.

### Also met while modelling

Behaviours of the code that the models show and that a maintainer may want to know. None
has a run of its own: the properties above are stated so that they hold of the code, and
say what these cost.

* `simclient/client.py:686`: after an `OSError` on the append the record is not even kept
  in memory and the build goes on, so a redelivery is executed again (`client.py:862`
  says a crash "cannot cause a re-run"). The setup directory still prevents a second job
  (`AtMostOneJob`), but the second run reports a failure for a job that is alive.
* `simclient/client.py:775`: nothing completes a record that a dead process left pending;
  every later retry is answered `outcome_unknown` (`server/agenda.py:1633` retries so
  that "the record's eventual completion re-acks"). The agenda gives up after its window
  (`DeferralEnds`).
* A retry during a live build gets the same answer; a changed payload under a known id is
  refused, although `ProcessedCommand` calls it a new simulation; with more than one build
  permit the end of one build unregisters another of the same `sim_id` (`client.py:1024`),
  whose logs are then not found.
* `server/simulation.py:875`: stamps of whole seconds tie, so the record can go back to an
  older run of the same simulation. Acks do not wake a wait; its poll does (`NoLostWakeup`).
* `server/simulation.py:810`: "A replayed ack from an older run must not touch the latest
  record", but the guard before it compares stamps, and the ack of a command sent again
  has a new one: it takes the record back for the older run, and a wait that was told the
  end of the newer run is followed by a record of the other. `EndedIsFinal` holds of a record
  until another run takes it over; `TerminalStays` lets a message of another run do so only
  when it is stamped no older, which the replayed ack of the older run is too: the step the
  docstring forbids is one it has to allow.
* `slurm/client.py:373`: a job that ends in a state the enum does not have (such as
  `OUT_OF_MEMORY`), or is purged before the next poll, is polled for ever: `EndReported`
  is stated for parsed, remembered ends. A job whose results cannot be linked never
  becomes terminal for the server. A workflow step that fails after the one that ran
  `sbatch` is reported as a failed submission while its job runs
  (`simclient/simulation.py:1100`).
* `transport/matrix.py:226`: a page without RCP messages ends the replay, which is then
  called complete (`CutIsMarked` allows it). The server then answers `unknown_sim` for a
  simulation whose messages are in the room, where `server/simulation.py:510` and
  `server/app.py:175` promise `unknown_after_restart`: `UnknownIsHonest` excepts the replays
  that ended so. A sync overrun, or a client that was away
  for more than a window, loses the oldest messages, since only the server's start
  backfills. An error response to a sync ends `receive()`.
* `server/agenda.py:389`: a submission whose ack timed out is deferred without a
  `sim_id`, and a given-up leaf counts as ended; neither is cancelled by a stop
  (`StopReachesEveryJob` is about the leaves that carry one). A given-up leaf whose run
  is observed later goes back to running.
* `server/agenda.py:1211`: `add_agenda_leaf` accepts a payload the campaign already has,
  which `_reject_duplicate_specs` refuses at every later tick. A deferral that is given
  up is reported both as deferred and as failed.
* `server/app.py:203`: a request of the human room awaits an answer inside the pump that
  would route it, so it always times out (`PumpResumes` shows that the pump goes on).
* A cancel after a client restart, or during a build, is answered `not_signalable` while
  the job lives; `get_logs` calls a finished job of an earlier process "still building".
* `auth/mas.py:207`: an exchange that is given up in doubt loses the refresh chain, and an
  aiohttp total timeout surfaces as `TimeoutError`.
* `simclient/client.py:365`: "A control command must not be re-executed (re-signal/re-cancel)
  when the transport redelivers it with a fresh event id inside one process", but the ack is
  cached only after the SLURM call: a copy that comes while the first handler waits for it
  acts again, as does one that a restarted client reads after a later submission of the
  simulation (then on that job).
  `ActedOnce` is about one envelope, `AnsweredIsOver` about a command once answered. A request
  answered `run_failed` may have acted, since a SLURM call may time out after the scheduler
  took it (`slurm/client.py:291`).
* `agenda/engine.py:572`: any error of a submission but a lost ack fails the leaf for good, and
  `server/agenda.py:390` turns only lost acks into deferrals. A send that raises after the
  homeserver took the message (`transport/matrix.py:183`) thus leaves a job that runs under a
  failed leaf: no stop reaches it and its answer is not waited for. `FailureHasCause` counts such
  a raise as the cause.
* `agenda/refine.py`: two samples that tie for best, or a replicated leaf, disable the
  edge check; suggestions below zero are dropped.
* `simclient/simulation.py:822`: a reader that outlives the join writes to a closed
  buffer and closes the read end, so that the background process gets `SIGPIPE`.

## 5. Proofs

Eight modules hold the proofs. Each theorem is for every value of the constants, under the
named assumption of the module it is about and nothing else; each property was checked by
TLC on the run of section 4 first. Every assumption only gives the constants their types
and excludes clashing model values, but for four that carry meaning:
`ClientAssumption` has a command id belong to one kind of command, `FollowerAssumption`
keeps the states a job ends in apart from those it lives in, `AgendaAssumption` and
`IdAssumption` have a campaign seeded with leaves of different paths and the ids of direct
submissions differ from leaf paths, and `WaitAssumption` has the
event loop lag less than the skew the server keeps from the client's timer, without which
the race of `ServerAnswersFirst` is lost.

| Module | Theorem | States |
|---|---|---|
| `SimClientProofs` | `TypeCorrect`, `SetupGuarded`, `OneJobPerSubmission`, `WatchersUnderControl` | `TypeOK`, `SetupGuardsSbatch`, `AtMostOneJob`, `WatchersControlled` |
| | `ExecutedAtMostOnce`, `ClientImplementsLedger` | `OneExecution`; `Spec => ImplementsLedger` |
| `JobFollowerProofs` | `FollowerTypeOK`, `FollowerPostsAreTrue` | `TypeOK`, `PostsAreTrue` |
| `JobControlProofs` | `ControlActsExactly`, `StatusNeverStale` | `ControlIsExact`, `StatusNotStale` |
| `WaitToolProofs` | `WakeupsAreConsistent`, `ServerIsFirst`, `ViewsHold` | `WakeupsConsistent`, `ServerAnswersFirst`, `ViewsAreTrue` |
| `SubmitServiceProofs` | `RegistryIsConsistent`, `FailuresAreReported`, `LossesAreTold`, `EndsStay` | `RegistryConsistent`, `FailuresAreReal`, `LossesAreHonest`; `Spec => TerminalStays` |
| `MasTokensProofs` | `TokensTypeOK`, `TokensChainSound`, `NoRefreshTwice` | `TypeOK`, `ChainSound`; `Spec => NoNeedlessRefresh` |
| `MatrixTransportProofs` | `TransportIsFaithful` | `ReplayIsFaithful` |
| `AgendaProofs` | `AgendaStructure`, `AgendaTypes`, `BudgetHolds`, `DecisionsKept`, `AcknowledgedStays`, `ClaimsAreTrue` | `Structure`, `TypeOK`, `BudgetKept`, `DecisionNotLost`, `UpdatesSurvive`, `ClaimsAreReal` |
| | `StopReaches`, `SubmitsReady`, `ReportsAreTrue` | `Spec => StopReachesEveryJob`, `Spec => SubmitsOnlyReady`, `Spec => ReportMatchesFile` |

The invariants, and why each property needs more than itself:

* `JobInv`. `AtMostOneJob` is not inductive: a task about to run `sbatch` could meet a job
  already submitted. It is strengthened with `SetupGuardsSbatch` (whoever is about to run
  `sbatch` for a command made its directory, is alone, and no job exists; a kill hands that
  turn to the child process of the step, if it survives) and
  `KindsMatch` (a task in a build works on a submission). The step that matters is
  `Generate`: it only reaches the workflow when the directory did not exist.
* `LedgerInv`, which is conditional: while no write of the record was lost and the store was
  not overfull (`Remembers`), memory and file agree, a command that was executed has a
  record, the record is pending while exactly one task works on it, every answer is
  grounded in the record, and a failure that was announced stands. `Remembers` once false
  stays so (`StillRemembers`), so that each step may assume it for both states. The refinement
  proof maps `Init` to the ledger's, and each action to opening, deciding, answering or
  a stutter; a step that ends `Remembers` is the ledger's loss of its promise.
* `WatchInv`. `OneWatcherPerSim` needs the slot to name the live watcher and whoever awaits
  a replaced one to hold the lock with the slot free; `NothingLeftRunning` needs that no task
  is left from `reaping` on that could install a watcher again.
* `FollowerInv`. That the end is announced after all output (`CompletionReported`) needs to
  know where the file was read to and which of its lines are still on their way (`FileRead`);
  that progress never goes back needs the bucket to be at or past every event (`BucketsBehind`);
  `EndIsTrue` needs an end that was seen to be final (`EndSeen`).
* `ControlInv`. The client has no durable note of a control command, so `ActedOnce` rests on
  the order of the room: what a process has read is one stretch of it (`ReadInOrder`), a
  command that acted was read after every submission before it (`ActedInOrder`), and a job
  is followed only by the process that built it (`OwnRuns`). A command read again by a later
  process thus finds no job to act on. `AnsweredIsOver` needs nothing else: an answer is cached
  with the handlers that were at work on the command, and none begins after it. The rest
  relates handlers, answers and records to the rank a job has reached, which never falls;
  a cancel that was taken has its job among the `dying`.
* `WaitInv`. A lost wakeup is excluded because a poll is never further away than one interval
  (`PollsAhead`); the race against the client because no call is later than `Lag` (`OnTime`);
  and an end, once told, because a record changes hands in one direction (`TurnsBehind`).
* `ViewInv` of `WaitToolProofs`. An alert judges a record from its fields, and is true only
  if the record is: each message, stored or under way, agrees with the life of its run
  (`MessageTrue`, `RecordTrue`), and a run that is still early has logged no later state.
  The counts add up because the phases split the records. The condensed events
  (`ListsAt`) are shown event by event to list the ends of the stretches in order; an
  order-keeping list of a set has as many rows from the k-th on as the set has members.
* `ServiceInv`. What a record says is true because every message is, from the moment it is
  built to the moment it is routed, however late (`MessagesTrue`, `RecordsTrue`): a failure is
  a run's last word, and a job once named stays named (`JobKnown`). The log needs the
  lemma that, of the events above a bound, cutting the oldest of one simulation
  keeps its newest and touches no other; `UnknownIsHonest` needs that what was routed is known
  (`RoutedIsKnown`), and that a replay called complete has all of the room or ended at a blank
  page (`CutIsTold`).
  `TerminalStays` follows for each step from `RecordsTrue`.
* `IInv` of `MasTokensProofs`. Nothing in `ChainKept` says that one process at a time talks
  to the endpoint, or that the token it sent is the cached one: the lock has one holder, the
  exchange was sent with the cached token, and its answer is right for its status.
  `NoNeedlessRefresh` needs that a request on its way has the cached access token expired
  (`SentForCause`), which only the one writer could change.
* `TransportInv`. What the pages and the first sync fetched lists exactly the RCP messages of
  one stretch of the room (`ReplayListed`), which each page prolongs; what was delivered
  rises up to the sync token (`DeliveredRises`); and a loop that ended unmarked stopped at a
  page without messages (`CutKnown`), which is why `ReplayHasNoHoles` says what it says.
* `Structure` of `AgendaProofs`: every value has its type, and the copy of the campaign a tick
  works on differs from the file only in what a tick may write (`Kin`). On it rest
  * `BudgetInv`: the copy and the file both count each accepted submission and each cost once
    (`Balanced`, along the loop that reconciles actual costs), and there is room within the
    cap for the submission awaited and for those the plan still holds (`CapKept`);
  * `ToldInv`: every ended leaf has its callback among those kept, or was drained with it,
    through the loops that add and drop callbacks (`LastWord`);
  * `SaidInv`: what a tool acknowledged is in the file, since a tick writes only what is kin;
  * `Truth`: jobs, answers, registry and reuse records, what a tick observed and what leaves
    claim agree, and nothing true of a run stops being true (`Forward`); a leaf that failed
    because its submission raised is among those that are remembered to have (`spent.raised`);
  * `ReportInv`: in the middle of a tick a leaf still to do is in no bucket of its report,
    and any other one in those that fit its status.

Attempts that failed changed the models or the properties:

* `BoundedCadence` was false of a follower whose job is requeued after completion, and
  is now about two events that both report progress below 100.
* `EndedIsFinal` was false: a command sent again gives an ack with a new stamp, which takes the
  record back for an older run (section 4, `server/simulation.py:810`). TLC finds it on the
  instance added for it; the property is stated until the record is taken over.
* A message was delivered again to a process that had never read it, which no transport
  does; `Redeliver` is now limited to what the process was delivered.
* The replay of `SubmitService` was one fold over the room, of which the prover could
  conclude nothing; it is now message by message, as `ingest_backfill` is, and the log
  is a set of positions. This let the interleaving with the simclient into the model.
* Arms of some `CASE` overlapped, where the prover, unlike TLC, may not choose the first.
* `Agenda`, `Planner`, `ReuseRegistry`, `MatrixTransport` and `WaitTool` computed with folds and
  `SelectSeq`, which take an operator and are opaque to the provers. They are now sets,
  functions over the leaves, or recursive functions of a position, and `UsageIsSum` sums
  what each leaf costs (`Cost`) along the walk of the campaign.

Induction over data needs an operator parameter that the provers cannot instantiate, so it is
done with sets and functions instead: `SetInduction` is induction for a set of numbers,
from the well-foundedness of `<`, and `RecursionTo` shows that a recursion from a value by
a function of steps defines a function. A recursive function of a model is then
unfolded like any other, and what it computes is shown along its positions.

Only model-checked, and why:

* Liveness (`ExecutionIsRecorded`, `ServeReturnsEventually`, `EndReported`, `NewestArrives`,
  `AgendaGoesOn`, `ServerGoesOn`, `CallsEnd`, `WaitEnds`, `WorkflowReturns`): the
  prover handles neither fairness nor ENABLED.
* `Study` (`CampaignsAreSound`, `RisingSweepStaysOpen`, `SuggestionsAreNew`): names and patch
  paths are made with `ToString` and folds, of which the provers know nothing.
  `RisingSweepStaysOpen` is besides not true of every study: where the sampled coordinates are
  negative, every suggestion is dropped (`refine_around` keeps what is positive), and TLC
  finds it violated. The instances have positive coordinates, as numbers of steps are.
* `BuildCapture` (`CaptureIsExact`, `ClassifiedRight`, `TailIsLive`): the text operators are folds
  over pieces, `SelectSeq` and `FlattenSeq`. `ClassifiedRight` is besides not true of every
  `Detail`: with one line, TLC finds that the output of another writer can push out the
  line that names the step that failed. The code keeps far more than that.

## 6. Not modelled

Left out for good: reading and rendering of results (`results.py`) and analysis programs
(`analysis*.py`), which are numerics over arrays without state; the translation of
payloads into PICMI objects (`simulation_build.py`), CWL import and export and the
provenance writer, pure conversions whose only effect on the control flow is success
or failure, which the models choose; signatures and keys (`rcp/crypto.py`), reading of
configuration files, interactive setup, the scripts, formatting for humans (`human.py`)
and versions. Messages with a bad signature are dropped before anything else happens,
so the models have none.

Modelled in part: the MCP tools of `server/app.py` beyond the status overlay, waits and the human
room, which only format what the services return; the limits of the safety gate, one
comparison each; the in-memory transport, a test double.
