---------------------------- MODULE SubmitService ----------------------------
(***************************************************************************)
(* The server's simulation service (server/simulation.py): it sends submit *)
(* commands, projects the simclient's acks and lifecycle events into one   *)
(* record per simulation.  A restart rebuilds the registry by replaying    *)
(* the room, one message after the other.  (Waiting is in WaitTool.)       *)
(*                                                                         *)
(* A run is one submission, named by its command id; resubmitting a        *)
(* simulation gives a second run of the same sim_id.  The simclient is an  *)
(* environment that posts what SimClient and the job follower post: each   *)
(* message is stamped when it is built and lands in the room later, so     *)
(* messages of different tasks may swap, and stamps (whole seconds) tie.   *)
(***************************************************************************)
EXTENDS Naturals, Sequences, FiniteSets

CONSTANTS
    Runs,         \* command ids
    NoRun,
    Sims,         \* sim_ids
    SimIdOf,      \* the simulation each run submits
    EventLogMax,  \* event_log_max: events retained per simulation
    Limits        \* bounds, as instances to explore: the runs submitted, seconds that
                  \* pass, commands sent again, restarts and messages in the room

ASSUME ServiceAssumption ==
    /\ SimIdOf \in [Runs -> Sims] /\ NoRun \notin Runs
    /\ EventLogMax \in Nat \ {0}
    /\ Limits \subseteq [runs : SUBSET Runs, clock : Nat, retries : Nat, restarts : Nat,
                        room : Nat]

\* TERMINAL_STATES; "failed" is simulation.failed.
Terminal == {"results_ready", "failed", "job_failed", "cancelled"}
States == Terminal \cup {"accepted", "submitted", "workflow_finished",
                         "job_running", "job_finished"}

\* A message of the simclient about a run.  An ack may have the state "unknown":
\* on the wire a failure with the code already_submitted:outcome_unknown.
Message == [kind : {"ack", "event"}, run : Runs, st : States \cup {"unknown"},
            job : BOOLEAN, ts : Nat]

\* SimRecord: the run it shows, its state ("" before any), whose job id it
\* carries, the stamp of the last message (0: none), and whether it has an error.
SimRecord == [run : Runs \cup {NoRun}, st : States \cup {""},
              job : Runs \cup {NoRun}, ts : Nat, err : BOOLEAN]
Fresh(r) == [run |-> r, st |-> "", job |-> NoRun, ts |-> 0, err |-> FALSE]
Unregistered == Fresh(NoRun)

VARIABLES
    limit,     \* the instance explored
    clock,     \* the simclient's clock
    phase,     \* the last lifecycle message each run has built
    dead,      \* runs whose task ended because a send raised
    sending,   \* that message while its send is awaited
    replies,   \* replayed acks being sent
    owed,      \* commands of each run the simclient has not answered yet
    room,      \* the messages in the room, oldest first
    pos,       \* how many of them the server process has routed
    first,     \* where in the room its replay began
    replay,    \* how many messages are left of it
    registry,  \* sim_id -> SimRecord
    log,       \* event_log, as positions in the room: it keeps the room's order
    ended,     \* where the paging of that replay ended (Endings)
    complete,  \* history_complete: what the transport says of it
    pend,      \* the server's submit call for each run
    retries,   \* how often commands were sent again
    restarts   \* how often the server was restarted

clientVars == <<limit, clock, phase, dead, sending, replies>>
serverVars == <<pos, first, replay, registry, log, ended, complete>>
vars == <<limit, clock, phase, dead, sending, replies, owed, room, pos, first, replay,
          registry, log, ended, complete, pend, retries, restarts>>

Phases == [st : States \cup {"none", "rejected", "queued"}, job : BOOLEAN]
NoMessage == [kind |-> "none"]

Init ==
    /\ limit \in Limits /\ clock = 1 /\ phase = [r \in Runs |-> [st |-> "none", job |-> FALSE]]
    /\ dead = {}
    /\ sending = [r \in Runs |-> NoMessage] /\ replies = {}
    /\ owed = [r \in Runs |-> 0]
    /\ room = <<>> /\ pos = 0 /\ first = 1 /\ replay = 0 /\ log = {}
    /\ ended = "start" /\ complete = TRUE
    /\ registry = [s \in Sims |-> Unregistered]
    /\ pend = [r \in Runs |-> "none"]
    /\ retries = 0 /\ restarts = 0

-----------------------------------------------------------------------------
(* The environment: what the simclient posts. *)

\* The next lifecycle messages of a run, from the states of its last one: the
\* first ack, the events of execute_submit, those of the follower (which has
\* nothing to follow without a job id).
Some(states, job) == {[st |-> st, job |-> job] : st \in states}
Lifecycle(p) ==
    CASE p.st = "none" -> Some({"accepted", "rejected"}, FALSE)
      [] p.st = "accepted" ->
            Some({"submitted"}, TRUE) \cup Some({"workflow_finished", "failed"}, FALSE)
      [] p.st = "submitted" -> Some({"workflow_finished"}, TRUE)
      [] p.st = "workflow_finished" /\ p.job ->
            Some({"queued", "job_running", "job_finished", "job_failed", "cancelled"}, TRUE)
      [] p.st = "queued" -> Some({"job_running", "job_finished", "job_failed", "cancelled"}, TRUE)
      [] p.st = "job_running" -> Some({"job_finished", "job_failed", "cancelled"}, TRUE)
      [] p.st = "job_finished" -> Some({"results_ready"}, TRUE)
      [] OTHER -> {}

\* The state on the wire: a rejection is a failed ack, and the follower reports the
\* scheduler's pending reason as another simulation.submitted.
OnWire(st) == CASE st = "rejected" -> "failed" [] st = "queued" -> "submitted" [] OTHER -> st

\* The run's task builds its next message and starts to send it.
Post(r) ==
    /\ sending[r] = NoMessage /\ r \notin dead
    /\ phase[r].st = "none" => owed[r] > 0
    /\ \E n \in Lifecycle(phase[r]) :
         /\ phase' = [phase EXCEPT ![r] = n]
         /\ sending' = [sending EXCEPT ![r] =
                [kind |-> IF phase[r].st = "none" THEN "ack" ELSE "event",
                 run |-> r, st |-> OnWire(n.st), job |-> n.job, ts |-> clock]]
    /\ owed' = [owed EXCEPT ![r] = IF phase[r].st = "none" THEN @ - 1 ELSE @]
    /\ UNCHANGED <<limit, clock, dead, replies, room, serverVars, pend, retries,
                   restarts>>

\* What the simclient may answer to a command it has a record of
\* (SimClient!ReplayAck): the outcome of the build, or unknown before it is recorded
\* and for ever if the task died before.
Recorded(r) ==
    LET p == phase[r].st
    IN CASE p \in {"accepted", "submitted"} -> {"unknown"}
         [] p = "rejected" -> {"failed"}
         [] p \in {"failed", "workflow_finished"} -> IF r \in dead THEN {"unknown"}
                                                    ELSE {p, "unknown"}
         [] OTHER -> {"workflow_finished"}

Replay(r) ==
    /\ owed[r] > 0 /\ phase[r].st # "none"
    /\ owed' = [owed EXCEPT ![r] = @ - 1]
    /\ \E st \in Recorded(r) :
         replies' = replies \cup
            {[kind |-> "ack", run |-> r, st |-> st,
              job |-> st = "workflow_finished" /\ phase[r].job, ts |-> clock]}
    /\ UNCHANGED <<limit, clock, phase, dead, sending, room, serverVars, pend, retries,
                   restarts>>

\* A send returns: the message is in the room.
Land ==
    /\ Len(room) < limit.room
    /\ \/ \E r \in Runs :
            /\ sending[r] # NoMessage
            /\ room' = Append(room, sending[r])
            /\ sending' = [sending EXCEPT ![r] = NoMessage] /\ UNCHANGED replies
       \/ \E m \in replies :
            /\ room' = Append(room, m) /\ replies' = replies \ {m} /\ UNCHANGED sending
    /\ UNCHANGED <<limit, clock, phase, dead, owed, serverVars, pend, retries, restarts>>

\* A send raises and ends the run's task.
SendLost(r) ==
    /\ sending[r] # NoMessage
    /\ sending' = [sending EXCEPT ![r] = NoMessage]
    /\ dead' = dead \cup {r}
    /\ UNCHANGED <<limit, clock, phase, replies, owed, room, serverVars, pend, retries,
                   restarts>>

Tick ==
    /\ clock < limit.clock /\ clock' = clock + 1
    /\ UNCHANGED <<limit, phase, dead, sending, replies, owed, room, serverVars, pend,
                   retries, restarts>>

-----------------------------------------------------------------------------
(* Projection. *)

\* Mutant: another run's message takes over the record it finds.
RecordKept(rec, m) ==
    IF rec.run = NoRun THEN Fresh(m.run)
    ELSE IF m.run # rec.run /\ m.ts >= rec.ts THEN [rec EXCEPT !.run = m.run]
    ELSE rec

\* Mutant: any other run's message takes over, the older one's too.
RecordAnyStamp(rec, m) == IF rec.run = m.run THEN rec ELSE Fresh(m.run)

\* _record_for: the record a message is projected into.  Another run takes over,
\* from a blank record, unless its message is older than the last one projected.
RecordFor(rec, m) ==
    IF rec.run = NoRun \/ (m.run # rec.run /\ m.ts >= rec.ts) THEN Fresh(m.run) ELSE rec

\* An event changes the record if it belongs to the run shown, and that run has
\* not ended.
Applies(rec, m) == m.run = rec.run /\ rec.st \notin Terminal

\* _project_event: fields the event does not carry keep their value.
ProjectEvent(rec0, m) ==
    LET rec == RecordFor(rec0, m)
    IN IF ~Applies(rec, m) THEN rec
       ELSE [rec EXCEPT !.st = m.st, !.job = IF m.job THEN m.run ELSE @, !.ts = m.ts,
                        !.err = @ \/ m.st \in {"failed", "job_failed", "cancelled"}]

\* Mutant: an unknown outcome is projected like the failure it is sent as.
AckUnknownFails(rec0, m) ==
    LET rec == RecordFor(rec0, m)
        st  == IF m.st = "unknown" THEN "failed" ELSE m.st
    IN IF m.run # rec.run THEN rec
       ELSE [rec EXCEPT !.st = IF @ = "" THEN st ELSE @, !.err = @ \/ st = "failed",
                        !.job = IF m.job THEN m.run ELSE @,
                        !.ts = IF @ = 0 THEN m.ts ELSE @]

\* Mutant: the ack's state is stored whatever it is.
AckRaw(rec0, m) ==
    LET rec == RecordFor(rec0, m)
    IN IF m.run # rec.run THEN rec
       ELSE [rec EXCEPT !.st = IF @ = "" THEN m.st ELSE @, !.ts = IF @ = 0 THEN m.ts ELSE @]

\* Mutant: an unknown outcome does not make the simulation known.
AckUnregistered(rec0, m) ==
    LET rec == RecordFor(rec0, m)
    IN IF m.run # rec.run THEN rec
       ELSE IF m.st = "unknown" THEN rec0
       ELSE [rec EXCEPT !.st = IF @ = "" THEN m.st ELSE @, !.ts = IF @ = 0 THEN m.ts ELSE @]

\* Mutant: the ack overrides a state projected from a later event.
AckOverrides(rec0, m) ==
    LET rec == RecordFor(rec0, m)
    IN IF m.run # rec.run \/ m.st = "unknown" THEN rec
       ELSE [rec EXCEPT !.st = m.st, !.ts = IF @ = 0 THEN m.ts ELSE @]

\* _project_ack: seeds a record that has no state, never overrides one; an unknown
\* outcome only makes the simulation known.
ProjectAck(rec0, m) ==
    LET rec == RecordFor(rec0, m)
        stamped == [rec EXCEPT !.ts = IF @ = 0 THEN m.ts ELSE @]
    IN IF m.run # rec.run THEN rec
       ELSE IF m.st = "unknown" THEN stamped
       ELSE [stamped EXCEPT !.st = IF @ = "" THEN m.st ELSE @,
                            !.job = IF m.job THEN m.run ELSE @,
                            !.err = @ \/ m.st = "failed"]

Project(reg, m) ==
    [reg EXCEPT ![SimIdOf[m.run]] =
        IF m.kind = "event" THEN ProjectEvent(@, m) ELSE ProjectAck(@, m)]

IsEvent(m) == m.kind = "event"

\* The positions among S that hold messages about the simulation s.
OfSim(S, s) == {k \in S : SimIdOf[room[k].run] = s}
Newer(S, k) == {j \in S : j > k}

\* Mutant: the cap counts the events of every simulation.
AppendGlobally(l, i) == {k \in l \cup {i} : Cardinality(Newer(l \cup {i}, k)) < EventLogMax}

\* _append_event_log: beyond EventLogMax events of one simulation, its oldest go.
AppendEventLog(l, i) ==
    LET matching == OfSim(l \cup {i}, SimIdOf[room[i].run])
    IN (l \cup {i}) \ {k \in matching : Cardinality(Newer(matching, k)) >= EventLogMax}

-----------------------------------------------------------------------------
(* The server. *)

\* The pump and the tools run after ingest_backfill (HelloRuntime.start).
Serves == replay = 0

\* submit / submit_spec: the command is sent and its ack awaited.
Submit(r) ==
    /\ Serves /\ r \in limit.runs /\ pend[r] = "none"
    /\ pend' = [pend EXCEPT ![r] = "waiting"]
    /\ owed' = [owed EXCEPT ![r] = @ + 1]
    /\ UNCHANGED <<clientVars, room, serverVars, retries, restarts>>

\* The ack does not come in time.
AckTimeout(r) ==
    /\ pend[r] = "waiting"
    /\ pend' = [pend EXCEPT ![r] = "timed_out"]
    /\ UNCHANGED <<clientVars, owed, room, serverVars, retries, restarts>>

\* The agenda sends the command again under the same id: after a timeout, or when the
\* ack said that the outcome is unknown.
Retry(r) ==
    /\ Serves /\ pend[r] \in {"timed_out", "unknown"} /\ retries < limit.retries
    /\ retries' = retries + 1
    /\ pend' = [pend EXCEPT ![r] = "waiting"]
    /\ owed' = [owed EXCEPT ![r] = @ + 1]
    /\ UNCHANGED <<clientVars, room, serverVars, restarts>>

\* Mutant: an unknown outcome is the failure it is sent as.
OutcomeRejects(m) == IF m.st \in {"failed", "unknown"} THEN "failed" ELSE "accepted"

\* _outcome_from_ack, SubmitOutcome.
OutcomeFromAck(m) ==
    CASE m.st = "unknown" -> "unknown" [] m.st = "failed" -> "failed" [] OTHER -> "accepted"

\* on_message, from the pump or from ingest_backfill: the next message is logged and
\* projected, and a submit ack resolves the call that waits for it.
Route ==
    /\ pos < Len(room)
    /\ LET m == room[pos + 1]
       IN /\ registry' = Project(registry, m)
          /\ log' = IF IsEvent(m) THEN AppendEventLog(log, pos + 1) ELSE log
          /\ pend' = [pend EXCEPT ![m.run] =
                        IF m.kind = "ack" /\ @ = "waiting" THEN OutcomeFromAck(m) ELSE @]
    /\ pos' = pos + 1 /\ replay' = IF replay = 0 THEN 0 ELSE replay - 1
    /\ UNCHANGED <<clientVars, owed, room, first, ended, complete, retries, restarts>>

\* unknown_error: what a tool answers for a simulation the registry does not know.
UnknownError(s) ==
    IF registry[s].run # NoRun THEN ""
    ELSE IF complete THEN "unknown_sim" ELSE "unknown_after_restart"

\* Paging back is cut by a request that fails or by the cap, or it ends where nothing of
\* ours is left, or at a page that holds nothing of ours (other chat, or what fails to
\* verify) although older ones do.
Endings == {"cut", "start", "blank page"}

\* backfill's history_complete: a blank page ends the paging like the room's start does.
HistoryComplete(ending) == ending # "cut"

\* A new process is to replay the room's messages from the position from on: the calls of
\* the old one are gone.
Starts(from, ending, whole) ==
    /\ restarts < limit.restarts /\ restarts' = restarts + 1
    /\ first' = from /\ pos' = from - 1 /\ replay' = Len(room) + 1 - from
    /\ ended' = ending /\ complete' = whole
    /\ registry' = [s \in Sims |-> Unregistered] /\ log' = {}
    /\ pend' = [r \in Runs |-> IF pend[r] = "none" THEN "none" ELSE "timed_out"]
    /\ UNCHANGED <<clientVars, owed, room, retries>>

\* Where a paging that left out what is before the position from may have ended.
EndingsAt(from) == {"cut", IF from = 1 THEN "start" ELSE "blank page"}

\* Mutant: a failed page or the cap ends the paging like the room's start does.
RestartComplete ==
    \E from \in 1 .. Len(room) + 1 : \E e \in EndingsAt(from) : Starts(from, e, TRUE)

\* A new process replays the room from wherever its paging back ended.
Restart ==
    \E from \in 1 .. Len(room) + 1 :
        \E e \in EndingsAt(from) : Starts(from, e, HistoryComplete(e))

Next ==
    \/ \E r \in Runs : Post(r) \/ Replay(r) \/ SendLost(r)
    \/ Land \/ Tick
    \/ \E r \in Runs : Submit(r) \/ AckTimeout(r) \/ Retry(r)
    \/ Route \/ Restart

Spec == Init /\ [][Next]_vars

-----------------------------------------------------------------------------
(* Properties. *)

\* The shape of the registry, the log, the calls and the room.
TypeOK ==
    /\ limit \in Limits /\ clock \in Nat /\ phase \in [Runs -> Phases]
    /\ dead \in SUBSET Runs /\ owed \in [Runs -> Nat]
    /\ sending \in [Runs -> Message \cup {NoMessage}] /\ replies \in SUBSET Message
    /\ room \in Seq(Message) /\ pos \in 0 .. Len(room) /\ first \in 1 .. pos + 1
    /\ replay \in 0 .. Len(room) - pos /\ registry \in [Sims -> SimRecord] /\ log \subseteq 1 .. Len(room)
    /\ pend \in [Runs -> {"none", "waiting", "accepted", "unknown", "failed", "timed_out"}]
    /\ ended \in Endings /\ complete \in BOOLEAN
    /\ retries \in Nat /\ restarts \in Nat

\* A record never mixes runs: the job id it carries is that of the run it shows
\* (_record_for: never "the first run's cmd_id alongside the second run's
\* state/job_id").
FieldsOfOneRun == \A s \in Sims : registry[s].job \in {registry[s].run, NoRun}

\* A record shows a failure or an error only of a run that reported one: an unknown
\* outcome, a late ack or another run never makes a live run look failed
\* (_project_ack).
FailedIsReal ==
    \A s \in Sims :
        registry[s].err \/ registry[s].st = "failed"
            => phase[registry[s].run].st \in {"failed", "job_failed", "cancelled", "rejected"}

\* The log holds exactly the newest EventLogMax events of each simulation that the
\* process has seen, whatever the others produce (_append_event_log).
LogKeepsNewest ==
    \A s \in Sims :
        LET seen == OfSim({i \in first .. pos : IsEvent(room[i])}, s)
        IN OfSim(log, s) = {i \in seen : Cardinality(Newer(seen, i)) < EventLogMax}

\* A submit call that returned has a record to wait on (on_message projects the ack
\* before it resolves the call).
AckedIsVisible ==
    \A r \in Runs : pend[r] \in {"accepted", "unknown", "failed"} => registry[SimIdOf[r]].run # NoRun

\* A submit call reports a failure only of a run that was rejected or whose build failed:
\* a pending record or a late ack never presents a live run as one (SubmitOutcome:
\* "Callers must treat this as transient (defer and retry), not as a rejection").
RefusalIsReal ==
    \A r \in Runs : pend[r] = "failed" => phase[r].st \in {"rejected", "failed"}

\* A simulation of which the process has seen a message is never called unknown, and one
\* is called unknown_sim only if the room has nothing of it or the paging of the replay
\* met a page without messages (which backfill takes for the room's start): what a failed
\* page or the cap has left out is unknown_after_restart (unknown_error).
UnknownIsHonest ==
    \A s \in Sims :
        /\ UnknownError(s) # "" => OfSim(first .. pos, s) = {}
        /\ UnknownError(s) = "unknown_sim" => OfSim(1 .. pos, s) = {} \/ ended = "blank page"

\* Once the record of a run has reached a terminal state it keeps it as long as the
\* process lives ("Terminal is monotonic within a run", _project_event), unless a message
\* of another run, stamped no older, takes the record over.  That run may be an older one:
\* the ack of a command sent again has a new stamp (_project_ack says that it must not).
TerminalStays ==
    [][\A s \in Sims :
          registry[s].st \in Terminal /\ restarts' = restarts
              => \/ registry'[s] = [registry[s] EXCEPT !.err = registry'[s].err]
                 \/ /\ registry'[s].run # registry[s].run
                    /\ registry'[s].ts >= registry[s].ts]_vars

\* The registry is consistent: well formed, one run per record, and a record for every
\* submit call that returned (_record_for, on_message).
RegistryConsistent == TypeOK /\ FieldsOfOneRun /\ AckedIsVisible

\* A failure the server shows or returns is one the run reported (_project_ack,
\* SubmitOutcome).
FailuresAreReal == FailedIsReal /\ RefusalIsReal

\* Capped logs and cut replays lose only what they say they lose (_append_event_log,
\* unknown_error).
LossesAreHonest == LogKeepsNewest /\ UnknownIsHonest
=============================================================================
