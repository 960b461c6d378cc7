------------------------------ MODULE WaitTool ------------------------------
(***************************************************************************)
(* What a caller of the server sees of a run: wait_for_simulation, which   *)
(* blocks until a state is reached (wait_for_state in                      *)
(* server/simulation.py), and the views that judge the registry, the fleet *)
(* summary with its alerts (fleet.py) and the condensed event list.        *)
(*                                                                         *)
(* Three clocks race in a wait: the deadline the caller asked for, the     *)
(* poll interval, and the request timer of the MCP client, which the       *)
(* server knows only if the setup stamped it into the configuration.  The  *)
(* registry moves meanwhile: events wake the waits, acks do not, another   *)
(* run of the simulation may take the record over.  SubmitService models   *)
(* the projection under replays and restarts; here a message is routed as  *)
(* it lands and the record keeps the fields the views read.                *)
(***************************************************************************)
EXTENDS Integers, Sequences, SequencesExt, FiniteSets, FiniteSetsExt

CONSTANTS
    Runs, NoRun,         \* command ids
    Sims, SimIdOf,       \* the simulation each run submits
    Callers,             \* tool calls that may be open at the same time
    Timeouts,            \* the timeout_s values callers ask for
    MinTimeout, MaxTimeout,   \* MIN_WAIT_TIMEOUT_S, MAX_WAIT_TIMEOUT_S
    Poll,                \* the wakeup ceiling, poll_interval_s
    Skew,                \* WAIT_CLIENT_TIMEOUT_SKEW_S
    Lag,                 \* how late the event loop runs a task that is due
    ClientTimer,         \* how long the MCP client really waits for an answer
    StallAfter,          \* fleet_stall_after_s
    MaxEventPage,        \* MAX_EVENT_PAGE
    Limits               \* bounds, as instances to explore: the runs, the calls, the
                         \* budgets stamped, seconds, commands sent again, events per run

\* PIC_AGENTIC_MCP_TIMEOUT_MS as the configuration may have it.
Stamps == [form : {"absent", "malformed", "number"}, n : {0, ClientTimer}]

\* A call is answered in time only if the event loop is less late than the skew, and
\* a stamped budget is the timer of the client (the setup scripts write both).
ASSUME WaitAssumption ==
    /\ SimIdOf \in [Runs -> Sims] /\ NoRun \notin Runs
    /\ {MinTimeout, MaxTimeout, Poll, Skew, Lag, ClientTimer, MaxEventPage} \subseteq Nat \ {0}
    /\ Lag < Skew /\ Timeouts \subseteq Nat /\ StallAfter \in Nat
    /\ Limits \subseteq [runs : SUBSET Runs, callers : SUBSET Callers, stamps : SUBSET Stamps,
                        clock : Nat, again : Nat, events : Nat]

Terminal == {"results_ready", "failed", "job_failed", "cancelled"}
States == Terminal \cup {"accepted", "submitted", "workflow_finished", "job_running",
                         "step_finished", "job_finished"}

\* _RUNNING_OR_LATER_STATES
RunningOrLater == Terminal \cup {"job_running", "step_finished", "job_finished"}

Reasons == {"none", "transient", "permanent"}

\* A message of the simclient: a submit ack ("unknown": outcome_unknown) or an event.
Message == [kind : {"ack", "event"}, run : Runs, st : States \cup {"unknown"},
            job : BOOLEAN, reason : Reasons, exit : BOOLEAN, suspect : BOOLEAN, ts : Nat]
NoMessage == [kind |-> "none"]

\* SimRecord, as the views read it: exit says that a non-zero exit code was reported.
\* The last three fields are history: when the state was projected, from what, and how
\* often the record has changed hands.
SimRecord == [run : Runs \cup {NoRun}, st : States \cup {""}, job : BOOLEAN,
              reason : Reasons, exit : BOOLEAN, suspect : BOOLEAN, ts : Nat,
              seen : Nat, by : {"none", "ack", "event"}, turn : Nat]
Fresh(r, n) == [run |-> r, st |-> "", job |-> FALSE, reason |-> "none", exit |-> FALSE,
                suspect |-> FALSE, ts |-> 0, seen |-> 0, by |-> "none", turn |-> n]

VARIABLES
    limit,     \* the instance explored
    stamp,     \* PIC_AGENTIC_MCP_TIMEOUT_MS as the server's configuration has it
    now,
    life,      \* what each run has reported last, the events it has posted, and whether
               \* a send that raised has ended it
    wire,      \* the message of each run under way
    acks,      \* replayed acks under way
    again,     \* commands sent again
    registry,  \* sim_id -> SimRecord
    log,       \* event_log
    call,      \* the wait_for_state calls
    waiters,   \* _waiters: the wakeups registered for each simulation
    wakeups    \* the wakeup events that are set

runVars == <<life, wire, acks, again>>
callVars == <<call, waiters, wakeups>>
vars == <<limit, stamp, now, runVars, registry, log, callVars>>

Idle == [pc |-> "idle", sim |-> CHOOSE s \in Sims : TRUE, turn |-> 0, targets |-> Terminal,
         started |-> 0, deadline |-> 0, until |-> 0, verdict |-> "none"]

Init ==
    /\ limit \in Limits /\ stamp \in limit.stamps /\ now = 1
    /\ life = [r \in Runs |-> [st |-> "none", job |-> FALSE, reason |-> "none", events |-> 0,
                             lost |-> FALSE]]
    /\ wire = [r \in Runs |-> NoMessage] /\ acks = {} /\ again = 0
    /\ registry = [s \in Sims |-> Fresh(NoRun, 0)] /\ log = <<>>
    /\ call = [c \in Callers |-> Idle] /\ waiters = [s \in Sims |-> {}] /\ wakeups = {}

-----------------------------------------------------------------------------
(* The environment: what the simclient posts (SimClient, JobFollower). *)

Step(st, job, reason) == [st |-> st, job |-> job, reason |-> reason]

\* The next report of a run.  The follower says why a job is pending whenever the
\* reason changes, and a job whose results cannot be linked is job_finished for good.
Lifecycle(l) ==
    LET pending == {Step("queued", TRUE, x) : x \in {"transient", "permanent"} \ {l.reason}}
        running == {Step(x, TRUE, "none") : x \in {"job_running", "job_failed", "cancelled"}}
        ending  == {Step(x, TRUE, "none") :
                        x \in {"step_finished", "job_finished", "job_failed", "cancelled"}}
    IN CASE l.st = "none" -> {Step("accepted", FALSE, "none"), Step("rejected", FALSE, "none")}
         [] l.st = "accepted" -> {Step("submitted", TRUE, "none"), Step("failed", FALSE, "none")}
         [] l.st = "submitted" -> {Step("workflow_finished", TRUE, "none")}
         [] l.st \in {"workflow_finished", "queued"} -> pending \cup running
         [] l.st \in {"job_running", "step_finished"} -> ending
         [] l.st = "job_finished" ->
                {Step("results_ready", TRUE, "none"), Step("unlinked", TRUE, "none")}
         [] OTHER -> {}

\* The state on the wire: a rejection is a failed ack, a pending reason another
\* simulation.submitted, a failed link another simulation.job_finished.
OnWire(st) ==
    CASE st = "rejected" -> "failed" [] st = "queued" -> "submitted"
      [] st = "unlinked" -> "job_finished" [] OTHER -> st

\* A run's task builds its next message; the first is the ack of its command.
Post(r) ==
    /\ r \in limit.runs /\ wire[r] = NoMessage /\ ~life[r].lost
    /\ life[r].events < limit.events
    /\ \E n \in Lifecycle(life[r]), empty \in BOOLEAN :
         /\ empty => n.st = "results_ready"
         /\ life' = [life EXCEPT ![r] = [st |-> n.st, job |-> n.job, reason |-> n.reason,
                                         events |-> @.events + 1, lost |-> FALSE]]
         /\ wire' = [wire EXCEPT ![r] =
                [kind |-> IF life[r].st = "none" THEN "ack" ELSE "event", run |-> r,
                 st |-> OnWire(n.st), job |-> n.job, reason |-> n.reason,
                 exit |-> n.st = "job_failed", suspect |-> empty, ts |-> now]]
    /\ UNCHANGED <<limit, stamp, now, acks, again, registry, log, callVars>>

\* The send raises: the run's task ends and reports nothing any more.
SendLost(r) ==
    /\ wire[r] # NoMessage
    /\ wire' = [wire EXCEPT ![r] = NoMessage]
    /\ life' = [life EXCEPT ![r].lost = TRUE]
    /\ UNCHANGED <<limit, stamp, now, acks, again, registry, log, callVars>>

\* The record of a run is pending: its build has not ended, or the event that says so
\* is not sent, or was lost.
Unsettled(r) ==
    \/ life[r].st \in {"accepted", "submitted"}
    \/ life[r].st \in {"failed", "workflow_finished"} /\ (wire[r] # NoMessage \/ life[r].lost)

\* The command is sent again and answered from its record: unknown while it is pending,
\* the outcome of the build later.
AckAgain(r) ==
    /\ again < limit.again /\ again' = again + 1
    /\ life[r].st # "none"
    /\ acks' = acks \cup
         {[kind |-> "ack", run |-> r,
           st |-> IF Unsettled(r) THEN "unknown"
                  ELSE IF life[r].st \in {"failed", "rejected"} THEN "failed"
                  ELSE "workflow_finished",
           job |-> ~Unsettled(r) /\ life[r].job, reason |-> "none",
           exit |-> FALSE, suspect |-> FALSE, ts |-> now]}
    /\ UNCHANGED <<limit, stamp, now, life, wire, registry, log, callVars>>

-----------------------------------------------------------------------------
(* Projection. *)

\* _record_for: another run takes the record over unless its message is older.
RecordFor(rec, m) ==
    IF rec.run = NoRun \/ (m.run # rec.run /\ m.ts >= rec.ts)
    THEN Fresh(m.run, rec.turn + 1) ELSE rec

Applies(rec, m) == m.run = rec.run /\ rec.st \notin Terminal

\* Mutant: the pending reason outlives the queue wait.
EventKeepsReason(rec, m) ==
    [rec EXCEPT !.st = m.st, !.job = @ \/ m.job, !.exit = @ \/ m.exit,
                !.reason = IF m.reason # "none" THEN m.reason ELSE @,
                !.suspect = m.suspect, !.ts = m.ts, !.seen = now, !.by = "event"]

\* Mutant: the job id is taken from acks only.
EventKeepsJob(rec, m) ==
    [rec EXCEPT !.st = m.st, !.exit = @ \/ m.exit,
                !.reason = IF m.st \in RunningOrLater THEN "none"
                           ELSE IF m.reason # "none" THEN m.reason ELSE @,
                !.suspect = m.suspect, !.ts = m.ts, !.seen = now, !.by = "event"]

\* Mutant: an unknown state is stored as it comes.
EventRaw(rec, m) == [rec EXCEPT !.st = m.kind, !.ts = m.ts, !.seen = now, !.by = "event"]

\* _project_event: fields the event carries are taken over; the pending reason is
\* dropped once the job runs, the health flag is kept by results.ready only.
ProjectEvent(rec, m) ==
    [rec EXCEPT !.st = m.st, !.job = @ \/ m.job, !.exit = @ \/ m.exit,
                !.reason = IF m.st \in RunningOrLater THEN "none"
                           ELSE IF m.reason # "none" THEN m.reason ELSE @,
                !.suspect = m.st = "results_ready" /\ m.suspect,
                !.ts = m.ts, !.seen = now, !.by = "event"]

\* Mutant: an ack replaces the state it finds.
AckOverrides(rec, m) ==
    IF m.st = "unknown" THEN rec
    ELSE [rec EXCEPT !.st = m.st, !.seen = now, !.by = "ack", !.job = @ \/ m.job,
                     !.ts = IF @ = 0 THEN m.ts ELSE @]

\* _project_ack: gives a state to a record that has none.
ProjectAck(rec, m) ==
    LET stamped == [rec EXCEPT !.ts = IF @ = 0 THEN m.ts ELSE @]
    IN IF m.st = "unknown" THEN stamped
       ELSE IF rec.st # "" THEN [stamped EXCEPT !.job = @ \/ m.job]
       ELSE [stamped EXCEPT !.st = m.st, !.job = m.job, !.seen = now, !.by = "ack"]

\* Mutant: only the end of a run wakes the waits.
WakeAtEnd(s, m) == IF m.st \in Terminal THEN wakeups \cup waiters[s] ELSE wakeups

\* _wake_waiters: every wait on the simulation is woken.
WakeWaiters(s, m) == wakeups \cup waiters[s]

\* on_message: an event is logged and, if it applies, projected with a wakeup; an
\* ack is projected without one.
Receive(m) ==
    LET s   == SimIdOf[m.run]
        rec == RecordFor(registry[s], m)
    IN /\ registry' = [registry EXCEPT ![s] =
            CASE m.kind = "event" -> IF Applies(rec, m) THEN ProjectEvent(rec, m) ELSE rec
              [] m.kind = "ack" -> IF m.run = rec.run THEN ProjectAck(rec, m) ELSE rec]
       /\ log' = IF m.kind = "event" THEN Append(log, m) ELSE log
       /\ wakeups' = IF m.kind = "event" /\ Applies(rec, m) THEN WakeWaiters(s, m) ELSE wakeups

Deliver(r) ==
    /\ wire[r] # NoMessage /\ Receive(wire[r])
    /\ wire' = [wire EXCEPT ![r] = NoMessage]
    /\ UNCHANGED <<limit, stamp, now, life, acks, again, call, waiters>>

DeliverAck ==
    /\ \E m \in acks : Receive(m) /\ acks' = acks \ {m}
    /\ UNCHANGED <<limit, stamp, now, life, wire, again, call, waiters>>

-----------------------------------------------------------------------------
(* A wait. *)

\* What a caller may ask for: nothing or "terminal", a mix with the alias, a name
\* that is no state.
Requests == {{}, {"terminal"}, {"job_running"}, {"terminal", "job_running"},
             {"results_ready"}, {"no_such_state"}}

\* _resolve_wait_targets
Targets(request) ==
    IF request = {} THEN Terminal
    ELSE (request \ {"terminal"}) \cup (IF "terminal" \in request THEN Terminal ELSE {})
KnownTargets(request) == Targets(request) \subseteq States

\* _validate_timeout: refused rather than clamped.
ValidTimeout(timeout) == MinTimeout <= timeout /\ timeout <= MaxTimeout

\* mcp_client_timeout_s: a stamp that is absent, no number or not positive is no budget.
BudgetKnown == stamp.form = "number" /\ stamp.n > 0

\* Mutant: the wait may use the whole budget.
FitsExactly(timeout) == ~BudgetKnown \/ timeout <= stamp.n

\* _check_client_budget: the client must stay on the wire Skew longer than the server
\* blocks.
FitsBudget(timeout) == ~BudgetKnown \/ timeout <= stamp.n - Skew

\* get: the registry knows the simulation.
Known(s) == registry[s].run # NoRun

\* wait_for_state up to its loop: a bad argument is a soft error of the tool
\* (_wait_tool), a good one registers a wakeup and starts the clock.
Wait(c) ==
    /\ c \in limit.callers /\ call[c].pc = "idle"
    /\ \E s \in Sims, request \in Requests, timeout \in Timeouts :
         LET accepted == KnownTargets(request) /\ ValidTimeout(timeout) /\ Known(s)
                            /\ FitsBudget(timeout)
             deadline == now + timeout
         IN /\ accepted => deadline + Lag <= limit.clock
            /\ call' = [call EXCEPT ![c] =
                 IF accepted
                 THEN [pc |-> "loop", sim |-> s, turn |-> 0, targets |-> Targets(request),
                       started |-> now, deadline |-> deadline, until |-> now,
                       verdict |-> "none"]
                 ELSE [Idle EXCEPT !.pc = "done", !.verdict = "refused"]]
            /\ waiters' = [waiters EXCEPT ![s] = IF accepted THEN @ \cup {c} ELSE @]
    /\ UNCHANGED <<limit, stamp, now, runVars, registry, log, wakeups>>

\* Mutant: a call that is cut off leaves its wakeup behind.
LeaveOnReturn(c, verdict) ==
    /\ call' = [call EXCEPT ![c].pc = "done", ![c].verdict = verdict,
                            ![c].turn = registry[call[c].sim].turn]
    /\ waiters' = IF verdict = "aborted" THEN waiters
                  ELSE [waiters EXCEPT ![call[c].sim] = @ \ {c}]
    /\ wakeups' = wakeups \ {c}

\* The call ends with a verdict about the run it saw; the finally clause takes its
\* wakeup out of _waiters.
Leave(c, verdict) ==
    /\ call' = [call EXCEPT ![c].pc = "done", ![c].verdict = verdict,
                            ![c].turn = registry[call[c].sim].turn]
    /\ waiters' = [waiters EXCEPT ![call[c].sim] = @ \ {c}]
    /\ wakeups' = wakeups \ {c}

\* What the loop finds: a target, an end that is none, the deadline, or nothing.
Verdict(c) ==
    LET st == registry[call[c].sim].st
    IN IF st \in call[c].targets THEN "matched"
       ELSE IF st \in Terminal THEN "ended"
       ELSE IF now >= call[c].deadline THEN "timed_out" ELSE "none"

\* Mutant: every round of the loop starts the timeout again.
SleepAfresh(c) ==
    [call EXCEPT ![c].pc = "asleep", ![c].deadline = now + @ - call[c].started,
                 ![c].started = now, ![c].until = now + Poll]

\* The wakeup is cleared, then awaited for the poll interval or what is left.
Sleep(c) ==
    [call EXCEPT ![c].pc = "asleep",
                 ![c].until = IF now + Poll < call[c].deadline THEN now + Poll
                              ELSE call[c].deadline]

\* One round of the loop of wait_for_state, which runs without an await.
Loop(c) ==
    /\ call[c].pc = "loop"
    /\ IF Verdict(c) = "none"
       THEN call' = Sleep(c) /\ wakeups' = wakeups \ {c} /\ UNCHANGED waiters
       ELSE Leave(c, Verdict(c))
    /\ UNCHANGED <<limit, stamp, now, runVars, registry, log>>

\* The await ends, by the wakeup or by its timeout.
Wake(c) ==
    /\ call[c].pc = "asleep" /\ (c \in wakeups \/ now >= call[c].until)
    /\ call' = [call EXCEPT ![c].pc = "loop"]
    /\ UNCHANGED <<limit, stamp, now, runVars, registry, log, waiters, wakeups>>

\* The client gives up on the request, and the call is cancelled.
ClientAborts(c) ==
    /\ call[c].pc \in {"loop", "asleep"} /\ now >= call[c].started + ClientTimer
    /\ Leave(c, "aborted")
    /\ UNCHANGED <<limit, stamp, now, runVars, registry, log>>

\* Time passes; a call whose deadline is over has been run within Lag.
Tick ==
    /\ now < limit.clock /\ now' = now + 1
    /\ \A c \in Callers :
         call[c].pc \in {"loop", "asleep"} => now < call[c].deadline + Lag
    /\ UNCHANGED <<limit, stamp, runVars, registry, log, callVars>>

Next ==
    \/ \E r \in Runs : Post(r) \/ SendLost(r) \/ AckAgain(r) \/ Deliver(r)
    \/ DeliverAck \/ Tick
    \/ \E c \in Callers : Wait(c) \/ Loop(c) \/ Wake(c) \/ ClientAborts(c)

Spec == Init /\ [][Next]_vars

\* Time passes, and asyncio runs a woken task and the timer of an await.
FairSpec == Spec /\ WF_vars(Tick) /\ \A c \in Callers : WF_vars(Loop(c)) /\ WF_vars(Wake(c))

-----------------------------------------------------------------------------
(* The views. *)

\* Mutant: a finished job is classified by its job id.
PhaseByJob(rec) ==
    CASE rec.st \in {"failed", "job_failed"} -> "failed"
      [] rec.st = "results_ready" -> "done"
      [] rec.st = "cancelled" -> "cancelled"
      [] rec.st \in {"job_running", "step_finished"} -> "running"
      [] OTHER -> IF rec.job THEN "queued" ELSE "building"

\* simulation_phase: by the state where it decides, else by the job id.
Phase(rec) ==
    CASE rec.st \in {"results_ready", "job_finished"} -> "done"
      [] rec.st \in {"failed", "job_failed"} -> "failed"
      [] rec.st = "cancelled" -> "cancelled"
      [] rec.st \in {"job_running", "step_finished"} -> "running"
      [] OTHER -> IF rec.job THEN "queued" ELSE "building"

\* active, slurm_blocked (is_permanent_reason) and the two state sets of fleet.py.
Active(rec) == rec.st \notin Terminal
Blocked(rec) == rec.reason = "permanent"
DoneStates == {"results_ready", "job_finished"}
FailedStates == {"failed", "job_failed"}

\* _is_stalled: only a running record can be; the idle time is over the limit.
Stalled(rec) ==
    /\ Active(rec) /\ Phase(rec) = "running" /\ rec.ts > 0
    /\ now - rec.ts > StallAfter

\* The kinds of alert, in the order in which detect_alerts tries them.
AlertKinds == <<"failed", "cancelled", "nonzero_exit", "suspect", "blocked", "stalled">>

Raises(rec, kind) ==
    CASE kind = "failed" -> rec.st \in FailedStates
      [] kind = "cancelled" -> rec.st = "cancelled"
      [] kind = "nonzero_exit" -> ~Active(rec) /\ rec.exit
      [] kind = "suspect" -> rec.st \in DoneStates /\ rec.suspect
      [] kind = "blocked" -> Active(rec) /\ Blocked(rec)
      [] kind = "stalled" -> Stalled(rec)

\* detect_alerts for one record: the first kind that applies, at most one.
Alert(rec) ==
    LET hits == {i \in DOMAIN AlertKinds : Raises(rec, AlertKinds[i])}
    IN IF hits = {} THEN "none" ELSE AlertKinds[Min(hits)]

\* list, fleet_summary: the registered records and how many of them count as what.
Listed == {s \in Sims : registry[s].run # NoRun}
Count(P(_)) == Cardinality({s \in Listed : P(registry[s])})

CountsDone(rec) == rec.st \in DoneStates
CountsFailed(rec) ==
    ~CountsDone(rec) /\ (rec.st \in FailedStates \/ rec.st = "cancelled")
CountsRunning(rec) == Active(rec) /\ rec.st \notin DoneStates \cup FailedStates

FleetSummary ==
    [total |-> Cardinality(Listed), active |-> Count(Active),
     done |-> Count(CountsDone), failed |-> Count(CountsFailed),
     running |-> Count(CountsRunning),
     byPhase |-> [p \in {"building", "queued", "running", "done", "failed", "cancelled"} |->
                    Count(LAMBDA rec : Phase(rec) = p)]]

\* _wait_note of a wait that timed out with this record.
TimeoutNote(rec) ==
    IF ~rec.job THEN "still_building"
    ELSE IF Blocked(rec) THEN "change_the_request" ELSE "call_again"

\* An event get_events asks for.
Wanted(m, s, since, types) ==
    SimIdOf[m.run] = s /\ m.ts >= since /\ (types = {} \/ m.st \in types)

\* The events of the log it keeps, and below the rows they collapse into: recursive
\* functions of the position, so that proofs can unfold them.
Kept(s, since, types) ==
    LET kept[i \in 0 .. Len(log)] ==   \* of the first i events
            IF i = 0 THEN <<>>
            ELSE IF Wanted(log[i], s, since, types) THEN Append(kept[i - 1], log[i])
            ELSE kept[i - 1]
    IN kept[Len(log)]

\* Mutant: the first event of a stretch is kept.
CollapseFirst(rows, m) ==
    IF rows # <<>> /\ Last(rows).st = m.st THEN rows ELSE Append(rows, m)

\* An event of the same state replaces the row before it.
Collapse(rows, m) ==
    IF rows # <<>> /\ Last(rows).st = m.st THEN Append(Front(rows), m) ELSE Append(rows, m)

\* The rows after all the events.
Collapsed(events) ==
    LET rows[i \in 0 .. Len(events)] == IF i = 0 THEN <<>> ELSE Collapse(rows[i - 1], events[i])
    IN rows[Len(events)]

\* condense_events
CondenseEvents(s, since, types, n) ==
    LET rows   == Collapsed(Kept(s, since, types))
        capped == IF n > MaxEventPage THEN MaxEventPage ELSE n
    IN SubSeq(rows, IF Len(rows) > capped THEN Len(rows) - capped + 1 ELSE 1, Len(rows))

-----------------------------------------------------------------------------
(* Properties. *)

\* The shape of the runs, the registry, the log and the calls.
TypeOK ==
    /\ limit \in Limits /\ stamp \in Stamps /\ now \in Nat /\ again \in Nat
    /\ wire \in [Runs -> Message \cup {NoMessage}] /\ acks \in SUBSET Message
    /\ registry \in [Sims -> SimRecord] /\ log \in Seq(Message)
    /\ waiters \in [Sims -> SUBSET Callers] /\ wakeups \in SUBSET Callers
    /\ \A c \in Callers :
         /\ call[c].pc \in {"idle", "loop", "asleep", "done"}
         /\ call[c].verdict \in {"none", "refused", "matched", "ended", "timed_out", "aborted"}

\* With the client's budget stamped, a wait that was accepted is always answered by
\* the server and never cut off by the client's timer (WAIT_CLIENT_TIMEOUT_SKEW_S:
\* "a request that fits the budget exactly still races the client's own timer").
ServerAnswersFirst == BudgetKnown => \A c \in Callers : call[c].verdict # "aborted"

\* A wait never sleeps on what it waits for: when the record shows a target or an end
\* an event has set the wakeup, or, for a state an ack brought, the next poll is at
\* most one interval after it (wait_for_state: clear, check and await interleave with
\* _wake_waiters).
NoLostWakeup ==
    \A c \in Callers :
        LET rec == registry[call[c].sim]
        IN call[c].pc = "asleep" /\ rec.st \in call[c].targets \cup Terminal
             => c \in wakeups \/ (rec.by = "ack" /\ call[c].until <= rec.seen + Poll)

\* The wakeups registered are those of the calls that wait, each under its own
\* simulation, whichever way the others ended (the finally clause of wait_for_state).
WaitersAreTheCalls ==
    \A s \in Sims :
        waiters[s] = {c \in Callers : call[c].pc \in {"loop", "asleep"} /\ call[c].sim = s}

\* A caller told that the run ended in another state was told the truth: the record
\* never shows a requested state later, whatever is replayed, until another run takes
\* it over (wait_for_state: "can never reach one (terminal is monotonic)").
EndedIsFinal ==
    \A c \in Callers :
        call[c].verdict = "ended" /\ registry[call[c].sim].turn = call[c].turn
            => registry[call[c].sim].st \in Terminal \ call[c].targets

\* A job the scheduler will never start is reported so by a wait that times out, not
\* as a build or a queue to wait for again (_wait_note; F3).
BlockedIsNotWaitedFor ==
    \A s \in Listed :
        LET rec == registry[s]
        IN Active(rec) /\ Blocked(rec) => TimeoutNote(rec) = "change_the_request"

\* An alert agrees with the run: a failure or a cancel was reported by it, an empty
\* result is one of a finished run, a blocked job has not been seen to start, and a
\* stalled one has (detect_alerts over _project_event).
AlertsAreTrue ==
    \A s \in Listed :
        LET rec  == registry[s]
            told == {m.st : m \in {log[i] : i \in {j \in DOMAIN log : log[j].run = rec.run}}}
        IN CASE Alert(rec) = "failed" -> life[rec.run].st \in {"failed", "job_failed",
                                                               "rejected"}
             [] Alert(rec) = "cancelled" -> "cancelled" \in told
             [] Alert(rec) = "suspect" -> "results_ready" \in told
             [] Alert(rec) = "blocked" -> told \cap RunningOrLater = {}
             [] Alert(rec) = "stalled" -> told \cap {"job_running", "step_finished"} # {}
             [] OTHER -> TRUE

\* The summary counts every record exactly once as done, failed or running, and the
\* counts agree with the phases, which another table decides (fleet_summary and
\* simulation_phase).
SummaryAgrees ==
    LET f == FleetSummary
    IN /\ f.done + f.failed + f.running = f.total
       /\ f.done = f.byPhase["done"]
       /\ f.failed = f.byPhase["failed"] + f.byPhase["cancelled"]
       /\ f.running = f.byPhase["building"] + f.byPhase["queued"] + f.byPhase["running"]

\* The condensed list has one row for each stretch of events with the same state, the
\* last of the stretch, in order, and of those the newest ones (condense_events).
CondensedIsStretchEnds ==
    \A s \in Sims, types \in {{}, {"submitted", "step_finished"}}, n \in {0, 2, MaxEventPage + 1} :
        LET kept == Kept(s, 2, types)
            ends == {i \in DOMAIN kept : i = Len(kept) \/ kept[i + 1].st # kept[i].st}
            rows == CondenseEvents(s, 2, types, n)
            size == Min({Cardinality(ends), n, MaxEventPage})
        IN /\ Len(rows) = size
           /\ \A k \in 1 .. size :
                \E i \in ends : kept[i] = rows[k] /\ Cardinality({j \in ends : j >= i}) = size - k + 1

\* Every wait returns (wait_for_state: a dropped event cannot wedge the call past the
\* deadline).
WaitEnds == \A c \in Callers : call[c].pc \in {"loop", "asleep"} ~> call[c].pc = "done"

\* The wakeups are consistent: those of the calls that wait, and none of them lost
\* (wait_for_state, _wake_waiters).
WakeupsConsistent == TypeOK /\ WaitersAreTheCalls /\ NoLostWakeup

\* What the tools say of a run is true of it: the verdict of a wait, the note of one that
\* timed out, the alerts, the counts and the condensed events.
ViewsAreTrue ==
    EndedIsFinal /\ BlockedIsNotWaitedFor /\ AlertsAreTrue /\ SummaryAgrees /\ CondensedIsStretchEnds
=============================================================================
