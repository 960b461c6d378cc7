------------------------------ MODULE SimClient ------------------------------
(***************************************************************************)
(* The simulation-side client (simclient/client.py): one asyncio process   *)
(* that receives signed commands from the room, answers each with an ack,  *)
(* submits jobs to SLURM and follows them.                                 *)
(*                                                                         *)
(* An action is the code a task runs between two awaits.  The room may     *)
(* deliver any posted event at any time and more than once; the server may *)
(* post a command again under a fresh event id; the process may crash, or  *)
(* shut down and restart; an append to the idempotency file and a send to  *)
(* the room may fail.                                                      *)
(***************************************************************************)
EXTENDS ProcessedStore

CONSTANTS
    Commands,          \* the commands the server posts: id, kind and hash
    Scenarios,         \* what is posted, a sequence of commands in which a repeated
                       \* one is a retry under a fresh event id, and (bounds) how
                       \* many faults of each kind may happen meanwhile
    Tasks,             \* slots for concurrently running asyncio tasks
    BuildConcurrency,  \* permits of _build_semaphore
    MaxSeen,           \* DedupStore maxlen
    NoCmd              \* "no watcher in this slot"

\* Kills of the process; orderly exits of serve(); failing writes and reads of the
\* idempotency file; sends that raise, and other uncaught errors.
FaultKinds == {"crash", "shutdown", "disk", "raise"}

ASSUME ClientAssumption ==
    /\ Commands \subseteq [id : CmdIds, kind : {"submit", "hello"}, hash : Hashes]
    /\ \A c, d \in Commands : c.id = d.id => c.kind = d.kind
    /\ BuildConcurrency \in Nat \ {0}
    /\ MaxSeen \in Nat \ {0}
    /\ Scenarios \subseteq [room : Seq(Commands), faults : [FaultKinds -> Nat]]
    /\ Commands # {}
    /\ NoCmd \notin Commands
    /\ IsFiniteSet(Tasks)

VARIABLES
    room,       \* the commands of this behaviour; the position is the event id
    mode,       \* where serve() is
    store,      \* the idempotency store, in memory and on disk
    seen,       \* DedupStore: event ids seen by this process, oldest first
    task,       \* the asyncio tasks
    setupDirs,  \* commands whose setup directory, <root>/sim_id/cmd_id, exists
    jobs,       \* number of SLURM jobs submitted for each command
    orphan,     \* build threads that outlived their coroutine, and submit steps
                \* (child processes) that outlived a killed client
    active,     \* _active_builds: sim_ids with a registered build
    slot,       \* _follow_tasks: the current watcher of each sim_id
    watcher,    \* what the watcher task of each command is doing
    acks,       \* acks in the room
    events,     \* lifecycle events in the room
    execs,      \* history: how often each command id was executed as new
    faults      \* faults spent, by kind

netVars   == <<room, acks, events>>
storeVars == <<store, execs>>
jobVars   == <<setupDirs, jobs, orphan>>
watchVars == <<slot, watcher>>
vars == <<room, mode, store, seen, task, setupDirs, jobs, orphan, active,
          slot, watcher, acks, events, execs, faults>>

-----------------------------------------------------------------------------

\* Awaits of a task created by _track_dispatched, which shutdown cancels at once.
DispatchPC == {"ack", "accept", "helloJob", "helloWait"}
\* Awaits inside _run_submit once the semaphore is held.
BuildPC == {"generate", "workflow", "sbatched", "submitted", "finish", "record",
            "fail", "recordFail", "followLock", "followCancel"}
SubmitPC == {"gate"} \cup BuildPC
PC == {"idle"} \cup DispatchPC \cup SubmitPC

AckStates   == {"accepted", "unknown", "conflict", "finished", "failed"}
EventStates == {"submitted", "workflow_finished", "failed"}
Acks   == [id : CmdIds, st : AckStates, job : BOOLEAN]
Events == [id : CmdIds, st : EventStates]

\* A task: where it awaits, the command it works on, the ack it is about to send,
\* whether its build read a job id, and the watcher it waits for.
Task == [pc : PC, cmd : Commands, reply : Acks, hasJob : BOOLEAN,
         prev : Commands \cup {NoCmd}]

Ack(id, st, job) == [id |-> id, st |-> st, job |-> job]
Event(id, st) == [id |-> id, st |-> st]

\* A free slot; its other fields are unused.
IdleTask == LET any == CHOOSE c \in Commands : TRUE
            IN [pc |-> "idle", cmd |-> any, reply |-> Ack(any.id, "unknown", FALSE),
                hasJob |-> FALSE, prev |-> NoCmd]

At(t) == task[t].pc
CmdOf(t) == task[t].cmd
IdOf(t) == task[t].cmd.id
SimOf(t) == task[t].cmd.hash
Idle(t) == At(t) = "idle"
Goto(t, where) == task' = [task EXCEPT ![t].pc = where]
EndTask(t) == task' = [task EXCEPT ![t] = IdleTask]

\* Faults stay within the bounds of a scenario.
Within(spent) ==
    \E s \in Scenarios : s.room = room /\ \A k \in FaultKinds : spent[k] <= s.faults[k]
Spend(kind) == [faults EXCEPT ![kind] = @ + 1]
CanFail(kind) == Within(Spend(kind))

\* What an access that ends this way takes from the disk faults.
Cost(outcome) == IF outcome = "ok" THEN 0 ELSE 1
DiskAccess(n) ==
    /\ faults' = [faults EXCEPT !["disk"] = @ + n]
    /\ Within(faults')

Init ==
    /\ room \in {s.room : s \in Scenarios} /\ mode = "serving" /\ store = EmptyStore /\ seen = <<>>
    /\ task = [t \in Tasks |-> IdleTask]
    /\ setupDirs = {} /\ jobs = [c \in Commands |-> 0]
    /\ orphan = [c \in Commands |-> {}]
    /\ active = {} /\ slot = [h \in Hashes |-> NoCmd]
    /\ watcher = [c \in Commands |-> "none"]
    /\ acks = {} /\ events = {} /\ execs = [c \in CmdIds |-> 0]
    /\ faults = [k \in FaultKinds |-> 0]

-----------------------------------------------------------------------------
(* Receiving a command. *)

\* DedupStore.seen for a new key: remember it, forgetting the oldest beyond MaxSeen.
Remember(e) ==
    LET longer == Append(seen, e)
    IN IF Len(longer) > MaxSeen THEN Tail(longer) ELSE longer

\* Mutant: a pending record is answered with the failure state alone, without
\* the code that says the outcome is unknown.
ReplayPendingAsFailed(c, r) ==
    IF c.kind = "submit" /\ r.hash # c.hash THEN Ack(c.id, "conflict", FALSE)
    ELSE Ack(c.id, IF r.st = "pending" THEN "failed" ELSE r.st, r.job)

\* Mutant: the record's state is sent as it is stored.
ReplayRaw(c, r) == Ack(c.id, r.st, r.job)

\* The ack _submit_replay_ack and to_result build from an existing record.  (Its
\* last branch, a submission or a record without a payload hash, is out of reach: the
\* hash is computed by the payload itself, and prepare_submit refuses any other.)
ReplayAck(c, r) ==
    IF c.kind = "submit" /\ r.hash # c.hash THEN Ack(c.id, "conflict", FALSE)
    ELSE IF r.st = "pending" THEN Ack(c.id, "unknown", r.job)
    ELSE Ack(c.id, r.st, r.job)

\* Task t takes command c to await a first send, with this ack.
Answer(t, c, where, ack) ==
    task' = [task EXCEPT ![t] = [IdleTask EXCEPT !.pc = where, !.cmd = c, !.reply = ack]]

\* Mutant: only a completed record counts as processed.
KnownIfCompleted(c) == store.mem[c.id].st \in Completed

\* Mutant: another payload under a known id counts as a new command.
KnownIfSamePayload(c) == IsRecord(store.mem[c.id]) /\ store.mem[c.id].hash = c.hash

\* The idempotency check of _handle_submit and _handle_hello: any record counts,
\* pending or completed, whatever its payload.
Known(c) == IsRecord(store.mem[c.id])

\* An already processed command: answer from the record, execute nothing.
Replay(t, c) ==
    /\ Known(c)
    /\ Answer(t, c, "ack", ReplayAck(c, store.mem[c.id]))
    /\ UNCHANGED <<store, execs, faults>>

\* The pending record, written before anything else happens.
PendingStore(s, c, outcome) ==
    Persist(s, c.id, [st |-> "pending", hash |-> c.hash, job |-> FALSE], outcome)

\* A new hello: record it, then run its job.
BeginHello(t, c) ==
    /\ c.kind = "hello"
    /\ \E w \in WriteOutcomes :
         /\ DiskAccess(Cost(w))
         /\ store' = PendingStore(store, c, w)
    /\ Answer(t, c, "helloJob", IdleTask.reply)

\* A new submission that prepare_submit accepts: recorded, about to be acked.
BeginSubmit(t, c) ==
    /\ c.kind = "submit"
    /\ \E w \in WriteOutcomes :
         /\ DiskAccess(Cost(w))
         /\ store' = PendingStore(store, c, w)
    /\ Answer(t, c, "accept", Ack(c.id, "accepted", FALSE))

\* A new submission that prepare_submit refuses: recorded as failed at once.
RejectSubmit(t, c) ==
    /\ c.kind = "submit"
    /\ \E w, v \in WriteOutcomes :
         /\ DiskAccess(Cost(w) + Cost(v))
         /\ store' = Persist(PendingStore(store, c, w), c.id,
                             [st |-> "failed", hash |-> c.hash, job |-> FALSE], v)
    /\ Answer(t, c, "ack", Ack(c.id, "failed", FALSE))

\* handle(): a dispatched task validates event e and runs to its first await.
Deliver(t, e) ==
    LET c == room[e]
        New == \/ BeginHello(t, c) \/ BeginSubmit(t, c) \/ RejectSubmit(t, c)
    IN /\ mode = "serving" /\ Idle(t)
       /\ \A i \in 1 .. Len(seen) : seen[i] # e
       /\ seen' = Remember(e)
       /\ \/ Replay(t, c)
          \/ /\ ~Known(c)
             /\ New
             /\ execs' = [execs EXCEPT ![c.id] = @ + 1]
       /\ UNCHANGED <<room, mode, jobVars, active, watchVars, acks, events>>

\* The send of a handler's only or last ack.
SendAck(t) ==
    /\ At(t) = "ack"
    /\ mode = "serving"
    /\ acks' = acks \cup {task[t].reply}
    /\ EndTask(t)
    /\ UNCHANGED <<room, mode, storeVars, seen, jobVars, active, watchVars, events,
                   faults>>

\* The accepted ack is sent, and the build becomes a background task.
SendAccepted(t) ==
    /\ At(t) = "accept"
    /\ mode = "serving"
    /\ acks' = acks \cup {task[t].reply}
    /\ Goto(t, "gate")
    /\ UNCHANGED <<room, mode, storeVars, seen, jobVars, active, watchVars, events,
                   faults>>

\* transport.send raises, or one of the steps between two stages that no except
\* clause covers (rewriting input.yaml before the workflow, locating stdout after
\* it): the exception ends the task, and the finally block forgets the build.
TaskRaises(t) ==
    /\ At(t) \in {"ack", "accept", "workflow", "submitted", "finish", "record", "fail"}
    /\ CanFail("raise") /\ faults' = Spend("raise")
    /\ EndTask(t)
    /\ active' = IF At(t) \in BuildPC THEN active \ {SimOf(t)} ELSE active
    /\ UNCHANGED <<netVars, mode, storeVars, seen, jobVars, watchVars>>

-----------------------------------------------------------------------------
(* hello: write the message file, sbatch a job that prints it, wait for it. *)

HelloSbatch(t) ==
    /\ At(t) = "helloJob" /\ mode = "serving"
    /\ jobs' = [jobs EXCEPT ![CmdOf(t)] = @ + 1]
    /\ Goto(t, "helloWait")
    /\ UNCHANGED <<netVars, mode, storeVars, seen, setupDirs, orphan, active,
                   watchVars, faults>>

\* The job ended, or an error before or after sbatch became the result: the
\* outcome is recorded and its ack is about to be sent.
HelloResult(t) ==
    /\ At(t) \in {"helloJob", "helloWait"} /\ mode = "serving"
    /\ \E st \in (IF At(t) = "helloJob" THEN {"failed"} ELSE Completed),
          w \in WriteOutcomes :
         /\ DiskAccess(Cost(w))
         /\ store' = Persist(store, IdOf(t),
                             [st |-> st, hash |-> SimOf(t),
                              job |-> At(t) = "helloWait"], w)
         /\ task' = [task EXCEPT ![t].pc = "ack",
                                 ![t].reply = Ack(IdOf(t), st, At(t) = "helloWait")]
    /\ UNCHANGED <<netVars, mode, execs, seen, jobVars, active, watchVars>>

-----------------------------------------------------------------------------
(* The background task of an accepted submission. *)

Builders == {t \in Tasks : At(t) \in BuildPC}

\* The semaphore is acquired and the build is registered for get_logs.
AcquireBuild(t) ==
    /\ At(t) = "gate" /\ Cardinality(Builders) < BuildConcurrency
    /\ Goto(t, "generate")
    /\ active' = active \cup {SimOf(t)}
    /\ UNCHANGED <<netVars, mode, storeVars, seen, jobVars, watchVars, faults>>

\* Mutant: an existing setup directory is used again.
GenerateAnyway(t) ==
    /\ At(t) = "generate"
    /\ setupDirs' = setupDirs \cup {CmdOf(t)}
    /\ Goto(t, "workflow") \/ Goto(t, "fail")
    /\ UNCHANGED <<netVars, mode, storeVars, seen, jobs, orphan, active, watchVars,
                   faults>>

\* Runner.generate refuses a setup directory that exists; otherwise it creates
\* it.  It may fail before that and after.
Generate(t) ==
    /\ At(t) = "generate"
    /\ \/ Goto(t, "fail") /\ UNCHANGED setupDirs
       \/ /\ CmdOf(t) \notin setupDirs
          /\ setupDirs' = setupDirs \cup {CmdOf(t)}
          /\ Goto(t, "workflow") \/ Goto(t, "fail")
    /\ UNCHANGED <<netVars, mode, storeVars, seen, jobs, orphan, active, watchVars,
                   faults>>

\* The workflow's submit step runs sbatch.
Sbatch(t) ==
    /\ At(t) = "workflow"
    /\ jobs' = [jobs EXCEPT ![CmdOf(t)] = @ + 1]
    /\ Goto(t, "sbatched")
    /\ UNCHANGED <<netVars, mode, storeVars, seen, setupDirs, orphan, active,
                   watchVars, faults>>

\* A step of the workflow fails, before or after the one that ran sbatch.
WorkflowFails(t) ==
    /\ At(t) \in {"workflow", "sbatched"}
    /\ Goto(t, "fail")
    /\ UNCHANGED <<netVars, mode, storeVars, seen, jobVars, active, watchVars,
                   faults>>

\* The workflow returns; the job id may or may not be readable.
WorkflowReturns(t) ==
    /\ At(t) = "sbatched"
    /\ \E found \in BOOLEAN :
         task' = [task EXCEPT ![t].hasJob = found,
                              ![t].pc = IF found THEN "submitted" ELSE "finish"]
    /\ UNCHANGED <<netVars, mode, storeVars, seen, jobVars, active, watchVars,
                   faults>>

\* The lifecycle event a task posts at an await, and where it goes next.
EmitStep == [submitted |-> [st |-> "submitted", next |-> "finish"],
             finish    |-> [st |-> "workflow_finished", next |-> "record"],
             fail      |-> [st |-> "failed", next |-> "recordFail"]]

Emit(t) ==
    /\ At(t) \in DOMAIN EmitStep
    /\ events' = events \cup {Event(IdOf(t), EmitStep[At(t)].st)}
    /\ Goto(t, EmitStep[At(t)].next)
    /\ UNCHANGED <<room, acks, mode, storeVars, seen, jobVars, active, watchVars,
                   faults>>

\* Mutant: the failure is reported but not recorded.
FailUnrecorded(t) ==
    /\ At(t) = "recordFail"
    /\ active' = active \ {SimOf(t)}
    /\ EndTask(t)
    /\ UNCHANGED <<netVars, mode, storeVars, seen, jobVars, watchVars, faults>>

\* Mutant: every ended build is recorded as one that succeeded.
RecordFailureAsDone(t) ==
    /\ At(t) = "recordFail"
    /\ store' = Persist(store, IdOf(t),
                        [st |-> "finished", hash |-> SimOf(t), job |-> FALSE], "ok")
    /\ active' = active \ {SimOf(t)}
    /\ EndTask(t)
    /\ UNCHANGED <<netVars, mode, execs, seen, jobVars, watchVars, faults>>

\* After the failed event: the failure is recorded and the task ends.
RecordFailure(t) ==
    /\ At(t) = "recordFail"
    /\ \E w \in WriteOutcomes :
         /\ DiskAccess(Cost(w))
         /\ store' = Persist(store, IdOf(t),
                             [st |-> "failed", hash |-> SimOf(t), job |-> FALSE], w)
    /\ active' = active \ {SimOf(t)}
    /\ EndTask(t)
    /\ UNCHANGED <<netVars, mode, execs, seen, jobVars, watchVars>>

-----------------------------------------------------------------------------
(* Watchers (_start_follower).  The per-sim_id lock is held exactly while a *)
(* task awaits the watcher it replaces.                                     *)

LockHeld(h) == \E u \in Tasks : At(u) = "followCancel" /\ SimOf(u) = h

\* Install task t's watcher in the slot of its sim_id.
Install(t) ==
    /\ slot' = [slot EXCEPT ![SimOf(t)] = task[t].cmd]
    /\ watcher' = [watcher EXCEPT ![task[t].cmd] = "live"]
    /\ EndTask(t)

\* With the lock: take the previous watcher out of its slot, cancel it and wait
\* for it; without one that still runs, install the new watcher at once.
ReplaceWatcher(t) ==
    LET p == slot[SimOf(t)]
    IN IF p # NoCmd /\ watcher[p] = "live"
       THEN /\ slot' = [slot EXCEPT ![SimOf(t)] = NoCmd]
            /\ watcher' = [watcher EXCEPT ![p] = "cancelling"]
            /\ task' = [task EXCEPT ![t].pc = "followCancel", ![t].prev = p]
       ELSE Install(t)

\* Mutant: the cancel-and-replace sequence is not serialised.
StartUnlocked(t) ==
    IF mode # "serving" THEN EndTask(t) /\ UNCHANGED watchVars
    ELSE ReplaceWatcher(t)

\* Called with the outcome recorded: no watcher outside serve(), else wait for
\* the lock or go on at once.  (A submission prepare_submit accepts is one by sbatch,
\* _check_submit_system: it is followed with and without a job id.)
StartFollower(t) ==
    IF mode # "serving" THEN EndTask(t) /\ UNCHANGED watchVars
    ELSE IF LockHeld(SimOf(t)) THEN Goto(t, "followLock") /\ UNCHANGED watchVars
    ELSE ReplaceWatcher(t)

\* execute_submit returned: record the outcome and start the watcher.
RecordFinished(t) ==
    /\ At(t) = "record"
    /\ \E w \in WriteOutcomes :
         /\ DiskAccess(Cost(w))
         /\ store' = Persist(store, IdOf(t),
                             [st |-> "finished", hash |-> SimOf(t),
                              job |-> task[t].hasJob], w)
    /\ active' = active \ {SimOf(t)}
    /\ StartFollower(t)
    /\ UNCHANGED <<netVars, mode, execs, seen, jobVars>>

FollowLocked(t) ==
    /\ At(t) = "followLock" /\ ~LockHeld(SimOf(t))
    /\ ReplaceWatcher(t)
    /\ UNCHANGED <<netVars, mode, storeVars, seen, jobVars, active, faults>>

FollowReplaced(t) ==
    /\ At(t) = "followCancel" /\ watcher[task[t].prev] \notin {"live", "cancelling"}
    /\ Install(t)
    /\ UNCHANGED <<netVars, mode, storeVars, seen, jobVars, active, faults>>

\* A watcher finishes: its job ended, it crashed, or its cancellation arrived.
WatcherEnds(c) ==
    /\ watcher[c] \in {"live", "cancelling"}
    /\ watcher' = [watcher EXCEPT ![c] = "done"]
    /\ UNCHANGED <<netVars, mode, storeVars, seen, task, jobVars, active, slot,
                   faults>>

-----------------------------------------------------------------------------
(* Leaving serve(), and coming back. *)

\* The transport closes: serve() stops receiving.
Shutdown ==
    /\ mode = "serving" /\ CanFail("shutdown") /\ faults' = Spend("shutdown")
    /\ mode' = "draining"
    /\ UNCHANGED <<netVars, storeVars, seen, task, jobVars, active, watchVars>>

\* A dispatched handler is cancelled at its await; what it awaited may still
\* take effect (the message posted, the hello job submitted).
CancelDispatch(t) ==
    /\ mode = "draining" /\ At(t) \in DispatchPC
    /\ \E landed \in BOOLEAN :
         /\ acks' = IF landed /\ At(t) \in {"ack", "accept"}
                    THEN acks \cup {task[t].reply} ELSE acks
         /\ jobs' = IF landed /\ At(t) = "helloJob"
                    THEN [jobs EXCEPT ![CmdOf(t)] = @ + 1] ELSE jobs
    /\ EndTask(t)
    /\ UNCHANGED <<room, events, mode, storeVars, seen, setupDirs, orphan, active,
                   watchVars, faults>>

\* Mutant: the grace only ends submissions that still wait for a permit.
GraceSparesBuilds ==
    /\ mode = "draining" /\ \A t \in Tasks : At(t) \notin DispatchPC
    /\ \E t \in Tasks : At(t) = "gate"
    /\ mode' = "expired"
    /\ UNCHANGED <<netVars, storeVars, seen, task, jobVars, active, watchVars,
                   faults>>

\* shutdown_grace_s passes with builds still running.
GraceExpires ==
    /\ mode = "draining" /\ \A t \in Tasks : At(t) \notin DispatchPC
    /\ \E t \in Tasks : At(t) \in SubmitPC
    /\ mode' = "expired"
    /\ UNCHANGED <<netVars, storeVars, seen, task, jobVars, active, watchVars,
                   faults>>

\* A submission is cancelled at its await.  The worker thread of a build runs on
\* without it; an event being sent may still arrive; a task awaiting the watcher
\* it replaces swallows the cancellation and goes on (FollowReplaced).
CancelSubmit(t) ==
    /\ mode = "expired" /\ At(t) \in SubmitPC \ {"followCancel"}
    /\ orphan' = IF At(t) \in {"generate", "workflow"}
                 THEN [orphan EXCEPT ![CmdOf(t)] = @ \cup {At(t)}] ELSE orphan
    /\ \E landed \in BOOLEAN :
         events' = IF landed /\ At(t) \in DOMAIN EmitStep
                   THEN events \cup {Event(IdOf(t), EmitStep[At(t)].st)} ELSE events
    /\ EndTask(t)
    /\ active' = IF At(t) \in BuildPC THEN active \ {SimOf(t)} ELSE active
    /\ UNCHANGED <<room, acks, mode, storeVars, seen, setupDirs, jobs, watchVars,
                   faults>>

\* What is left of an abandoned build: generate may create the directory, the
\* workflow or its submit step may run sbatch; nobody records the outcome.
OrphanRuns(c) ==
    \E at \in orphan[c] :
        /\ orphan' = [orphan EXCEPT ![c] = @ \ {at}]
        /\ \/ /\ at = "generate"
              /\ setupDirs' \in {setupDirs, setupDirs \cup {c}} /\ UNCHANGED jobs
           \/ /\ at \in {"workflow", "child"}
              /\ jobs' \in {jobs, [jobs EXCEPT ![c] = @ + 1]} /\ UNCHANGED setupDirs
        /\ UNCHANGED <<netVars, mode, storeVars, seen, task, active, watchVars,
                       faults>>

\* Mutant: the watchers are cancelled while submissions are still draining.
CancelFollowersEarly ==
    /\ mode \in {"draining", "expired"} /\ \A t \in Tasks : At(t) \notin DispatchPC
    /\ mode' = "reaping"
    /\ watcher' = [c \in Commands |-> IF watcher[c] = "live" THEN "cancelling"
                                      ELSE watcher[c]]
    /\ UNCHANGED <<netVars, storeVars, seen, task, jobVars, active, slot, faults>>

\* _cancel_followers, once every submission has ended.
CancelFollowers ==
    /\ mode \in {"draining", "expired"} /\ \A t \in Tasks : Idle(t)
    /\ mode' = "reaping"
    /\ watcher' = [c \in Commands |-> IF watcher[c] = "live" THEN "cancelling"
                                      ELSE watcher[c]]
    /\ UNCHANGED <<netVars, storeVars, seen, task, jobVars, active, slot, faults>>

\* serve() returns when every watcher has been awaited.
ServeReturns ==
    /\ mode = "reaping" /\ \A c \in Commands : watcher[c] # "cancelling"
    /\ mode' = "returned"
    /\ slot' = [h \in Hashes |-> NoCmd]
    /\ UNCHANGED <<netVars, storeVars, seen, task, jobVars, active, watcher,
                   faults>>

\* The interpreter exits after joining the worker threads.
ProcessExits ==
    /\ mode = "returned" /\ \A c \in Commands : orphan[c] \subseteq {"child"}
    /\ mode' = "down"
    /\ UNCHANGED <<netVars, storeVars, seen, task, jobVars, active, watchVars,
                   faults>>

AtWorkflow(c) == {t \in Tasks : At(t) = "workflow" /\ CmdOf(t) = c}

\* The abandoned threads and child processes that may still run sbatch for a command.
Strays(c) == orphan[c] \cap {"workflow", "child"}

\* The process is killed: every task, thread and watcher is gone, but the child
\* process of a running submit step may survive it; what is on disk, in the room and
\* in the scheduler stays.
Crash ==
    /\ mode # "down" /\ CanFail("crash") /\ faults' = Spend("crash")
    /\ mode' = "down"
    /\ task' = [t \in Tasks |-> IdleTask]
    /\ \E survives \in SUBSET {c \in Commands : AtWorkflow(c) # {} \/ Strays(c) # {}} :
         orphan' = [c \in Commands |-> IF c \in survives THEN {"child"}
                                       ELSE orphan[c] \cap {"child"}]
    /\ watcher' = [c \in Commands |-> IF watcher[c] = "none" THEN "none" ELSE "done"]
    /\ UNCHANGED <<netVars, storeVars, seen, setupDirs, jobs, active, slot>>

\* A new process: only the idempotency file is read back.
Restart ==
    /\ mode = "down"
    /\ mode' = "serving"
    /\ \E readable \in BOOLEAN :
         /\ DiskAccess(IF readable THEN 0 ELSE 1)
         /\ store' = Load(store, readable)
    /\ seen' = <<>> /\ active' = {} /\ slot' = [h \in Hashes |-> NoCmd]
    /\ UNCHANGED <<netVars, execs, task, jobVars, watcher>>

-----------------------------------------------------------------------------

Handler(t) ==
    \/ SendAck(t) \/ SendAccepted(t) \/ HelloSbatch(t) \/ HelloResult(t)

\* Once the grace has expired every submission but one that swallowed its
\* cancellation is about to end.
Build(t) ==
    \/ FollowReplaced(t)
    \/ /\ mode # "expired"
       /\ \/ AcquireBuild(t) \/ Generate(t) \/ Sbatch(t) \/ WorkflowFails(t)
          \/ WorkflowReturns(t) \/ Emit(t) \/ RecordFailure(t) \/ RecordFinished(t)
          \/ FollowLocked(t)

Stop ==
    \/ Shutdown \/ GraceExpires \/ CancelFollowers \/ ServeReturns \/ ProcessExits
    \/ Crash \/ Restart
    \/ \E t \in Tasks : CancelDispatch(t) \/ CancelSubmit(t)

Next ==
    \/ \E t \in Tasks, e \in 1 .. Len(room) : Deliver(t, e)
    \/ \E t \in Tasks : Handler(t) \/ Build(t) \/ TaskRaises(t)
    \/ \E c \in Commands : WatcherEnds(c) \/ OrphanRuns(c)
    \/ Stop

Spec == Init /\ [][Next]_vars

\* What serve() needs to return: asyncio runs ready tasks, the grace timer fires,
\* cancelled tasks and watchers end.  Builds, external commands, may hang.
StopFairness ==
    /\ \A t \in Tasks : /\ WF_vars(CancelDispatch(t)) /\ WF_vars(CancelSubmit(t))
                        /\ WF_vars(FollowReplaced(t))
    /\ \A c \in Commands : WF_vars(watcher[c] = "cancelling" /\ WatcherEnds(c))
    /\ WF_vars(GraceExpires) /\ WF_vars(CancelFollowers) /\ WF_vars(ServeReturns)

\* What a command needs to be resolved by a client that goes on serving: threads
\* and external commands end, and the semaphore and the lock wake their waiters in
\* order, so that a waiter is served if the permit keeps coming free.
WorkFairness ==
    LET Serving(A) == mode = "serving" /\ A
    IN \A t \in Tasks : /\ WF_vars(Serving(Handler(t))) /\ WF_vars(Serving(Build(t)))
                        /\ SF_vars(Serving(AcquireBuild(t)))
                        /\ SF_vars(Serving(FollowLocked(t)))

FairSpec == Spec /\ StopFairness /\ WorkFairness

-----------------------------------------------------------------------------
(* Properties. *)

Modes == {"serving", "draining", "expired", "reaping", "returned", "down"}

\* The shape of the client's state: tasks, store, watchers and room history.
TypeOK ==
    /\ room \in Seq(Commands) /\ mode \in Modes /\ store \in Store
    /\ seen \in Seq(Nat)
    /\ task \in [Tasks -> Task]
    /\ setupDirs \in SUBSET Commands /\ jobs \in [Commands -> Nat]
    /\ orphan \in [Commands -> SUBSET {"generate", "workflow", "child"}]
    /\ active \in SUBSET Hashes /\ slot \in [Hashes -> Commands \cup {NoCmd}]
    /\ watcher \in [Commands -> {"none", "live", "cancelling", "done"}]
    /\ acks \in SUBSET Acks /\ events \in SUBSET Events
    /\ execs \in [CmdIds -> Nat] /\ faults \in [FaultKinds -> Nat]

\* A submission never puts a second job in the queue, whatever is redelivered,
\* killed, restarted, lost from the idempotency file or evicted from it: the setup
\* directory of a payload under a command id is generated once
\* (_execute_accepted_submit, runner_from_payload).
Submits == {c \in Commands : c.kind = "submit"}
AtMostOneJob == \A c \in Submits : jobs[c] <= 1

\* Why: whoever is about to run sbatch for a command, a task, an abandoned thread
\* or a surviving child, has made its setup directory, is the only one, and no job was
\* submitted before; and every submitted job left its directory behind.
SetupGuardsSbatch ==
    /\ \A t, u \in Tasks :
          At(t) = "workflow" /\ At(u) = "workflow" /\ CmdOf(t) = CmdOf(u) => t = u
    /\ \A c \in Commands :
          /\ AtWorkflow(c) # {} \/ Strays(c) # {}
                => c \in setupDirs /\ (c \in Submits => jobs[c] = 0)
          /\ Strays(c) # {} => AtWorkflow(c) = {}
          /\ Strays(c) # {"workflow", "child"}
    /\ \A c \in Submits : jobs[c] > 0 => c \in setupDirs

\* The disk works, and the store has room for every command id posted.
Remembers ==
    faults["disk"] = 0 /\ Cardinality({room[i].id : i \in 1 .. Len(room)}) <= MaxProcessed

\* With a working disk and room for every id, a command id is executed as new at
\* most once over all processes ("Persist before executing so a crash mid-build
\* cannot cause a re-run on restart", _handle_submit).
AtMostOneExecution == Remembers => \A c \in CmdIds : execs[c] <= 1

\* Answers about one command never contradict each other: no command is both
\* reported finished and reported failed, in acks or events (replayed acks come
\* from the stored record, _submit_replay_ack).
AnswersAgree ==
    Remembers => \A c \in CmdIds :
        ~ /\ \E a \in acks : a.id = c /\ a.st = "finished"
          /\ \/ \E a \in acks : a.id = c /\ a.st = "failed"
             \/ \E e \in events : e.id = c /\ e.st = "failed"

\* Two watchers never follow one sim_id at the same time (the cancel-and-replace
\* sequence of _start_follower under its lock).
OneWatcherPerSim ==
    \A a, b \in Commands :
        watcher[a] = "live" /\ watcher[b] = "live" /\ a.hash = b.hash => a = b

\* When serve() has returned nothing of it is left running: no task awaits and
\* no watcher polls, even if a watcher was installed while shutting down.
NothingLeftRunning ==
    mode \in {"returned", "down"} =>
        /\ \A t \in Tasks : Idle(t)
        /\ \A c \in Commands : watcher[c] \notin {"live", "cancelling"}

Ledger == INSTANCE CommandLedger WITH
    Ids     <- CmdIds,
    ledger  <- [c \in CmdIds |-> IF IsRecord(store.disk[c]) THEN store.disk[c].st ELSE "new"],
    answers <- {[id |-> a.id, st |-> a.st] : a \in acks},
    sound   <- Remembers

\* The client implements the ledger of CommandLedger, the record on disk being its entry
\* and the acks in the room its answers: through kills, restarts, redeliveries, retries and
\* conflicting payloads a command is taken on once and decided once, and no ack is ahead
\* of the record or against it (_handle_submit, _submit_replay_ack).
ImplementsLedger == Ledger!Spec

Executing(c) ==
    \E t \in Tasks : IdOf(t) = c /\ At(t) \in SubmitPC \cup {"accept", "helloJob", "helloWait"}

\* A command that is being executed ends with a recorded outcome, as long as the
\* process serves and no task dies of an uncaught error (_run_submit, _handle_hello).
ExecutionIsRecorded ==
    \A c \in CmdIds :
        Executing(c) ~> store.mem[c].st \in Completed \/ mode # "serving"

\* Leaving serve() takes a bounded time even when a build hangs: it returns after
\* the grace, whatever task holds the semaphore or a watcher lock.
ServeReturnsEventually == mode = "draining" ~> mode \in {"returned", "down"}

\* What a retrying server may rely on while the memory is sound: a command is executed
\* once, and acks and events about it agree (_handle_submit, _execute_accepted_submit).
OneExecution == AtMostOneExecution /\ AnswersAgree

\* Watchers are under control: one per simulation while the client serves, none after
\* (_start_follower against itself and against _cancel_followers).
WatchersControlled == OneWatcherPerSim /\ NothingLeftRunning
=============================================================================
