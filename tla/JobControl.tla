----------------------------- MODULE JobControl -----------------------------
(***************************************************************************)
(* Requests about a submitted simulation: status, logs, results and        *)
(* control, from the tool call on the server (SubmitService._fetch, the    *)
(* pump of HelloRuntime, the human room) to the handlers of the simclient  *)
(* and SLURM, and back.  The hello handshake brings the capabilities.      *)
(*                                                                         *)
(* The room is the ordered history of what each side sent.  The simclient  *)
(* handles each message in a task of its own, so its handlers interleave   *)
(* at every await; a restart empties its memory and delivers the recent    *)
(* part of the room again.                                                 *)
(***************************************************************************)
EXTENDS Integers, Sequences

CONSTANTS
    Runs,      \* submissions, in the order of their numbers
    SimOf,     \* the sim_id of each
    Features,  \* the request kinds and ops each version of the client supports
    Limits     \* instances: see LimitAssumption

Sims == {SimOf[r] : r \in Runs}
Versions == DOMAIN Features
ControlOps == {"checkpoint", "stop", "cancel"}
Pulls == {"status", "logs", "result", "control"}

ASSUME LimitAssumption ==
    /\ Runs \subseteq Nat \ {0} /\ SimOf \in [Runs -> STRING]
    /\ \A l \in Limits :
        /\ l.runs \subseteq Runs /\ l.versions \subseteq Versions /\ l.enabled \in BOOLEAN
        /\ l.asks \subseteq Pulls \X (ControlOps \cup {"", "png"}) \X BOOLEAN
        /\ {l.pulls, l.copies, l.hellos, l.crashes, l.repeats, l.reboots, l.faults, l.events} \subseteq Nat

VARIABLES
    limit, spent,
    version,   \* of the simclient that runs
    record,    \* its durable record of each run: _processed
    tracked,   \* _tracked: the job it follows for each simulation
    building,  \* _active_builds: the runs in a build
    seen,      \* the DedupStore: positions in the room
    cache,     \* _control_acks: command -> its ack, and what was seen when it was given (history)
    tasks,     \* the handlers that wait for something
    job,       \* the scheduler's job of each run
    dying,     \* the runs whose job the scheduler was told to cancel
    told,      \* the state of each job the follower last emitted
    room,      \* the commands sent, in order
    pos,       \* how far the client has read it
    replies,   \* acks and events sent, in order
    rpos,      \* how far the server has read them
    replay,    \* what a server that reads all of them from the start has by then
    caps,      \* client_capabilities: a version, or unknown
    proj,      \* the registry: the run each simulation shows and its state
    pull,      \* the requests of this server, by command id
    pump,      \* the request the pump waits for in _handle_human, or 0
    left,      \* the simulations a !stop has still to cancel
    hello,     \* the attempts of the hello in progress, and whether it was answered
    acted      \* how often each message of the room reached the scheduler (history)

clientMem == <<tracked, building, seen, cache, tasks>>
serverMem == <<caps, proj, pull, pump, left, hello>>
jobs == <<job, dying>>
sent == <<replies, replay>>
vars == <<limit, spent, version, record, clientMem, jobs, told, room, pos, sent, rpos,
          serverMem, acted>>

\* How far a job is: a job that ended has the highest rank.
Rank == [none |-> 0, queued |-> 1, running |-> 2, checkpoint |-> 2, completed |-> 3, failed |-> 3, cancelled |-> 3]
Ended(r) == Rank[job[r]] = 3

NoReply == [kind |-> "", out |-> "", run |-> 0, st |-> "none"]
NoPull == [kind |-> "none", sim |-> "", op |-> "", st |-> "none", base |-> NoReply, ans |-> NoReply]
NoHello == [try |-> 0, done |-> FALSE]

\* What the server projects from the room: the capabilities and the registry.
Unread == [caps |-> "unknown", proj |-> [s \in Sims |-> NoReply]]

\* An event of the run shown that has not ended, or of a newer one, is projected.
Project(p, a) ==
    IF a.run > p[a.out].run \/ (a.run = p[a.out].run /\ Rank[p[a.out].st] < 3)
    THEN [p EXCEPT ![a.out] = a] ELSE p

\* on_message, as far as it projects: a hello ack and an event.
Projected(v, a) ==
    [caps |-> IF a.kind = "hello" THEN a.out ELSE v.caps,
     proj |-> IF a.kind = "event" THEN Project(v.proj, a) ELSE v.proj]

Init ==
    /\ limit \in Limits
    /\ spent = [pulls |-> 0, copies |-> 0, hellos |-> 0, crashes |-> 0, repeats |-> 0, reboots |-> 0,
              faults |-> 0, events |-> 0]
    /\ version \in limit.versions
    /\ record = [r \in Runs |-> "none"] /\ tracked = [s \in Sims |-> 0] /\ building = {}
    /\ seen = {} /\ cache = <<>> /\ tasks = {}
    /\ job = [r \in Runs |-> "none"] /\ dying = {} /\ told = [r \in Runs |-> "none"]
    /\ room = <<>> /\ pos = 0 /\ replies = <<>> /\ rpos = 0 /\ replay = Unread
    /\ caps = "unknown" /\ proj = [s \in Sims |-> NoReply]
    /\ pull = <<>> /\ pump = 0 /\ left = {} /\ hello = NoHello /\ acted = <<>>

Spend(what) == spent[what] < limit[what] /\ spent' = [spent EXCEPT ![what] = @ + 1]

\* A command is in the room, and has done nothing yet.
SendCommand(m) == room' = Append(room, m) /\ acted' = Append(acted, 0)

-----------------------------------------------------------------------------
(* The simclient's builds and the cluster. *)

\* A submit_simulation of this server or an earlier one.
SendSubmit(r) ==
    /\ r \in limit.runs /\ \A i \in DOMAIN room : room[i].cmd # -r
    /\ SendCommand([kind |-> "submit", cmd |-> -r, sim |-> SimOf[r], op |-> ""])
    /\ UNCHANGED <<limit, spent, version, record, clientMem, jobs, told, pos, sent, rpos,
                   serverMem>>

\* The build of a run ends: with a job, with one that has no id, or with a failure.
BuildEnds(r) ==
    /\ r \in building /\ building' = building \ {r}
    /\ \/ /\ job' = [job EXCEPT ![r] = "queued"] /\ record' = [record EXCEPT ![r] = "done"]
          /\ \E id \in {r, -1} : tracked' = [tracked EXCEPT ![SimOf[r]] = id]
       \/ record' = [record EXCEPT ![r] = "failed"] /\ UNCHANGED <<job, tracked>>
    /\ UNCHANGED <<limit, spent, version, seen, cache, tasks, dying, told, room, pos, sent, rpos,
                   serverMem, acted>>

\* A job goes on in the scheduler, and ends there some time after a cancel.
JobMoves(r) ==
    /\ \/ job[r] = "queued" /\ job' = [job EXCEPT ![r] = "running"]
       \/ job[r] = "running" /\ \E end \in {"completed", "failed"} : job' = [job EXCEPT ![r] = end]
       \/ r \in dying /\ ~Ended(r) /\ job' = [job EXCEPT ![r] = "cancelled"]
    /\ UNCHANGED <<limit, spent, version, record, clientMem, dying, told, room, pos, sent,
                   rpos, serverMem, acted>>

Event(r, st) == [kind |-> "event", cmd |-> 0, out |-> SimOf[r], run |-> r, st |-> st]

\* transport.send: a message of the simclient is in the room.
SendReply(a) == replies' = Append(replies, a) /\ replay' = Projected(replay, a)

\* The follower of a tracked job reports where it is (JobFollower).
Follow(r) ==
    /\ tracked[SimOf[r]] = r /\ told[r] # job[r] /\ Spend("events")
    /\ told' = [told EXCEPT ![r] = job[r]]
    /\ SendReply(Event(r, job[r]))
    /\ UNCHANGED <<limit, version, record, clientMem, jobs, room, pos, rpos, serverMem, acted>>

-----------------------------------------------------------------------------
(* The handlers of the simclient. *)

Reply(m, out, run, st) == [kind |-> m.kind, cmd |-> m.cmd, out |-> out, run |-> run, st |-> st]
Task(at, pc, run) == [at |-> at, m |-> room[at], pc |-> pc, run |-> run, out |-> "", st |-> "none"]

\* _latest_record_for_sim: the newest run of the simulation with a record.
LatestRecord(s) ==
    LET known == {r \in Runs : SimOf[r] = s /\ record[r] # "none"}
    IN IF known = {} THEN "none" ELSE record[CHOOSE r \in known : \A q \in known : q <= r]

\* client_capability_mismatch: a kind, or an op, this version does not know.
Unsupported(v, m) == m.kind \notin Features[v] \/ (m.op # "" /\ m.op \notin Features[v])

\* _handle_control up to its first await: "" if it asks the scheduler.  A simulation
\* that is known but not followed, or followed without a job id, has nothing to signal.
ControlUntracked(s) == IF LatestRecord(s) = "none" THEN "unknown_sim" ELSE "not_signalable"

\* Mutant: a followed simulation is taken to have a job id.
ControlAtOnceNoId(m) ==
    IF tracked[m.sim] = 0 THEN ControlUntracked(m.sim) ELSE ""

ControlAtOnce(m) ==
    CASE tracked[m.sim] = 0  -> ControlUntracked(m.sim)
      [] tracked[m.sim] = -1 -> "not_signalable"
      [] OTHER -> ""

\* _handle_status.
StatusAtOnce(m) ==
    CASE tracked[m.sim] = 0 -> "unknown_sim"
      [] tracked[m.sim] = -1 -> "workflow_finished"
      [] OTHER -> ""

\* _handle_logs: for a simulation that is not followed, its record and its build tell.
LogsAtOnce(m) ==
    LET latest == LatestRecord(m.sim)
    IN IF tracked[m.sim] # 0 THEN ""
       ELSE CASE latest = "none" -> "unknown_sim"
              [] latest = "failed" -> "failed"
              [] OTHER -> IF \E r \in building : SimOf[r] = m.sim THEN "build_log" ELSE "not_available"

\* _handle_result.
ResultAtOnce(m) == IF tracked[m.sim] = 0 THEN "unknown_sim" ELSE ""

\* A request this client does not take is answered in the shape of its kind.
Rejection(m) ==
    IF ~limit.enabled THEN "rejected" ELSE IF Unsupported(version, m) THEN "unsupported" ELSE ""

AnswerAtOnce(m) ==
    IF Rejection(m) # "" THEN Rejection(m)
    ELSE CASE m.kind = "control" -> ControlAtOnce(m)
           [] m.kind = "status" -> StatusAtOnce(m)
           [] m.kind = "logs" -> LogsAtOnce(m)
           [] m.kind = "result" -> ResultAtOnce(m)

\* Mutant: the answer to a control command is not looked up.
NeverRemembered(m) == FALSE

\* A control command that comes again, in whatever envelope, was answered by this process.
Remembered(m) == m.kind = "control" /\ Rejection(m) = "" /\ m.cmd \in DOMAIN cache

\* Once its ack is sent, a control handler keeps it (_send_control_ack; a shaped rejection
\* is not kept).
Cached(a) ==
    IF a.kind = "control" /\ a.out \notin {"rejected", "unsupported"}
    THEN [c \in DOMAIN cache \cup {a.cmd} |->
            IF c # a.cmd THEN cache[c]
            ELSE [ack |-> a, taken |-> IF c \in DOMAIN cache THEN cache[c].taken ELSE seen]]
    ELSE cache

\* handle and _dispatch_m2, up to the first await.
Handle(at) ==
    LET m   == room[at]
        now == AnswerAtOnce(m)
    IN CASE m.kind = "hello" ->
              /\ SendReply(Reply(m, version, 0, "none"))
              /\ UNCHANGED <<record, building, tasks, cache>>
         [] m.kind = "submit" ->
              /\ record' = [record EXCEPT ![-m.cmd] = IF @ = "none" THEN "pending" ELSE @]
              /\ building' = IF record[-m.cmd] = "none" THEN building \cup {-m.cmd} ELSE building
              /\ UNCHANGED <<sent, tasks, cache>>
         [] Remembered(m) ->
              /\ SendReply(cache[m.cmd].ack)
              /\ UNCHANGED <<record, building, tasks, cache>>
         [] m.kind \in Pulls /\ ~Remembered(m) /\ now # "" ->
              /\ SendReply(Reply(m, now, 0, "none"))
              /\ cache' = Cached(Reply(m, now, 0, "none")) /\ UNCHANGED <<record, building, tasks>>
         [] OTHER ->
              /\ tasks' = tasks \cup {Task(at, IF m.kind \in {"control", "status"} THEN "query" ELSE "read",
                                           tracked[m.sim])}
              /\ UNCHANGED <<record, building, sent, cache>>

\* Mutant: a message that was seen before is handled again.
ReceiveAgain ==
    /\ pos < Len(room) /\ pos' = pos + 1 /\ seen' = seen \cup {pos + 1}
    /\ Handle(pos + 1)
    /\ UNCHANGED <<limit, spent, version, tracked, jobs, told, room, rpos, serverMem, acted>>

\* serve and _accepts: each new message of the room starts a task.
Receive ==
    /\ pos < Len(room) /\ pos' = pos + 1 /\ seen' = seen \cup {pos + 1}
    /\ IF pos + 1 \in seen THEN UNCHANGED <<record, building, tasks, cache, sent>>
       ELSE Handle(pos + 1)
    /\ UNCHANGED <<limit, spent, version, tracked, jobs, told, room, rpos, serverMem, acted>>

\* The homeserver delivers again what it has delivered to this process: _since is past
\* everything older.
Redeliver ==
    /\ Spend("repeats") /\ \E p \in 0 .. pos - 1 : p + 1 .. pos \subseteq seen /\ pos' = p
    /\ UNCHANGED <<limit, version, record, clientMem, jobs, told, room, sent, rpos, serverMem, acted>>

\* A control command comes again in another envelope: under a fresh event id, which the
\* DedupStore takes for a new message.
ComesAgain ==
    /\ Spend("copies")
    /\ \E i \in DOMAIN room : room[i].kind = "control" /\ SendCommand(room[i])
    /\ UNCHANGED <<limit, version, record, clientMem, jobs, told, pos, sent, rpos, serverMem>>

\* The answer is sent, after the event of a checkpoint that was taken.
Finish(t, out, run, st) ==
    /\ IF t.m.op = "checkpoint" /\ out = "ok"
       THEN LET taken == Event(run, "checkpoint")
            IN /\ replies' = replies \o <<taken, Reply(t.m, out, run, st)>>
               /\ replay' = Projected(replay, taken)
       ELSE SendReply(Reply(t.m, out, run, st))
    /\ tasks' = tasks \ {t} /\ cache' = Cached(Reply(t.m, out, run, st))

Goes(t, pc, out, st) ==
    tasks' = (tasks \ {t}) \cup {[t EXCEPT !.pc = pc, !.out = out, !.st = st]} /\ UNCHANGED <<sent, cache>>

\* _handle_status has the scheduler's answer, and probes the results in a thread before
\* it sends the ack.
QueryStatus(t, st) == Goes(t, "send", IF st = "none" THEN "job_info_failed" ELSE "state", st)

\* The rest of _control_gate.
QueryControl(t, st) ==
    CASE t.m.op # "cancel" /\ st # "running" -> Finish(t, "not_signalable", t.run, st)
      [] t.m.op = "cancel" /\ Rank[st] = 3 -> Finish(t, "not_terminal", t.run, st)
      [] OTHER -> Goes(t, "act", "", st)

\* The scheduler answers, or fails to (job_info).
Query(t) ==
    /\ t \in tasks /\ t.pc = "query"
    /\ \E st \in {job[t.run], "none"} :
        /\ IF st = "none" THEN Spend("faults") ELSE UNCHANGED spent
        /\ IF t.m.kind = "status" THEN QueryStatus(t, st) ELSE QueryControl(t, st)
    /\ UNCHANGED <<limit, version, record, tracked, building, seen, jobs, told, room, pos, rpos,
                   serverMem, acted>>

\* signal_job and cancel_job: the scheduler takes the command about the job that the
\* handler looked up at its start; it ends a cancelled job in its own time.
Scancel(t) ==
    /\ acted' = [acted EXCEPT ![t.at] = @ + 1]
    /\ dying' = IF t.m.op = "cancel" THEN dying \cup {t.run} ELSE dying

\* control_fn: the call succeeds, or it fails, before or after the scheduler took the
\* command (_run gives up on a scancel that does not return).
Act(t) ==
    /\ t \in tasks /\ t.pc = "act"
    /\ \/ Scancel(t) /\ Goes(t, "send", "ok", "none") /\ UNCHANGED spent
       \/ Scancel(t) /\ Goes(t, "send", "run_failed", "none") /\ Spend("faults")
       \/ UNCHANGED <<acted, dying>> /\ Goes(t, "send", "run_failed", "none") /\ Spend("faults")
    /\ UNCHANGED <<limit, version, record, tracked, building, seen, job, told, room, pos, rpos,
                   serverMem>>

\* Mutant: a failed scancel is acknowledged all the same.
SendOk(t) ==
    /\ t \in tasks /\ t.pc = "send" /\ Finish(t, "ok", t.run, t.st)
    /\ UNCHANGED <<limit, spent, version, record, tracked, building, seen, jobs, told, room, pos,
                   rpos, serverMem, acted>>

\* The ack of a control or status request is sent.
Send(t) ==
    /\ t \in tasks /\ t.pc = "send" /\ Finish(t, t.out, t.run, t.st)
    /\ UNCHANGED <<limit, spent, version, record, tracked, building, seen, jobs, told, room, pos,
                   rpos, serverMem, acted>>

\* _handle_logs and _handle_result read files in a thread; a result may fail.
ReadLogs(t) == t.m.kind = "logs" /\ Finish(t, "read", t.run, "none") /\ UNCHANGED spent
ReadResult(t) ==
    /\ t.m.kind = "result"
    /\ \/ Finish(t, "read", t.run, "none") /\ UNCHANGED spent
       \/ Finish(t, "result_failed", t.run, "none") /\ Spend("faults")
Read(t) ==
    /\ t \in tasks /\ t.pc = "read" /\ (ReadLogs(t) \/ ReadResult(t))
    /\ UNCHANGED <<limit, version, record, tracked, building, seen, jobs, told, room, pos, rpos,
                   serverMem, acted>>

\* The simclient dies and starts again, perhaps in another version: its memory is lost,
\* the records stay, and the first sync delivers the newest commands again.
ClientRestart ==
    /\ Spend("crashes") /\ version' \in limit.versions
    /\ tracked' = [s \in Sims |-> 0] /\ building' = {} /\ seen' = {} /\ cache' = <<>> /\ tasks' = {}
    /\ \E p \in 0 .. pos : pos' = p
    /\ UNCHANGED <<limit, record, jobs, told, room, sent, rpos, serverMem, acted>>

-----------------------------------------------------------------------------
(* The server. *)

\* _fetch under a fresh command id, unless the client is known not to support it.
Request(kind, s, op, human) ==
    LET m == [kind |-> kind, cmd |-> Len(pull) + 1, sim |-> s, op |-> op]
        refused == caps # "unknown" /\ Unsupported(caps, m)
    IN /\ pull' = Append(pull, [kind |-> kind, sim |-> s, op |-> op,
                                st |-> IF refused THEN "unsupported" ELSE "waiting",
                                base |-> proj[s], ans |-> NoReply])
       /\ IF refused THEN UNCHANGED <<room, acted>> ELSE SendCommand(m)
       /\ pump' = IF human /\ ~refused THEN Len(pull) + 1 ELSE pump
       /\ UNCHANGED <<limit, version, record, clientMem, jobs, told, pos, sent, rpos, caps,
                      proj, hello>>

\* A tool or a command of the human room asks.
Ask(kind, s, op, human) ==
    /\ <<kind, op, human>> \in limit.asks /\ Spend("pulls") /\ Request(kind, s, op, human)
    /\ UNCHANGED left

\* get_status asks for a record that is active; the other tools always do.
AskStatus(s) == Rank[proj[s].st] < 3 /\ proj[s] # NoReply /\ Ask("status", s, "", FALSE)
AskLogs(s) == Ask("logs", s, "", FALSE)
AskControl(s, op) == Ask("control", s, op, FALSE)
AskResult(s) == Ask("result", s, "png", FALSE)

\* The pump carries out a command of the human room before it reads on.
Reads == pump = 0 /\ left = {}

\* !png renders a result; the verbs but !stop ask the client nothing.
HumanPng(s) == Reads /\ Ask("result", s, "png", TRUE)

\* !stop, the agenda's kill-switch (Agenda!Stop), once it has the lock and has saved that
\* the campaign is stopped: it is to cancel every simulation of a leaf in flight.
HumanStop ==
    /\ Reads /\ <<"control", "cancel", TRUE>> \in limit.asks /\ Spend("pulls")
    /\ left' \in SUBSET Sims \ {{}}
    /\ UNCHANGED <<limit, version, record, clientMem, jobs, told, room, pos, sent, rpos, caps,
                   proj, pull, pump, hello, acted>>

\* It goes on to the next one whatever the last one was answered.
StopNext ==
    /\ pump = 0 /\ UNCHANGED spent
    /\ \E s \in left : Request("control", s, "cancel", TRUE) /\ left' = left \ {s}

\* Mutant: a request the pump waits for has no timeout.
PullTimeoutTools(c) ==
    /\ pull[c].st = "waiting" /\ pump # c /\ pull' = [pull EXCEPT ![c].st = "timeout"]
    /\ UNCHANGED <<limit, spent, version, record, clientMem, jobs, told, room, pos, sent, rpos,
                   caps, proj, pump, left, hello, acted>>

\* Mutant: the pump is not resumed after a request of the human room timed out.
PullTimeoutStuck(c) ==
    /\ pull[c].st = "waiting" /\ pull' = [pull EXCEPT ![c].st = "timeout"]
    /\ UNCHANGED <<limit, spent, version, record, clientMem, jobs, told, room, pos, sent, rpos,
                   caps, proj, pump, left, hello, acted>>

\* No ack within ack_timeout_s: the future is dropped, and the pump goes on.
PullTimeout(c) ==
    /\ pull[c].st = "waiting" /\ pull' = [pull EXCEPT ![c].st = "timeout"]
    /\ pump' = IF pump = c THEN 0 ELSE pump
    /\ UNCHANGED <<limit, spent, version, record, clientMem, jobs, told, room, pos, sent, rpos,
                   caps, proj, left, hello, acted>>

\* on_message: an ack resolves the waiting request of its command id and its kind.
Answers(c, a) == pull[c].st = "waiting" /\ a.cmd = c /\ pull[c].kind = a.kind

\* Mutant: the record is read after the request instead of before it.
OverlayLate(c, a) == [pull[c] EXCEPT !.st = "answered", !.ans = a, !.base = proj[pull[c].sim]]

\* The tool resumes with the ack, and overlays it on the record it read before
\* (_status_tool, _merge_status).
Overlay(c, a) == [pull[c] EXCEPT !.st = "answered", !.ans = a]

\* _route one message.
Route ==
    /\ Reads /\ rpos < Len(replies) /\ rpos' = rpos + 1
    /\ LET a    == replies[rpos + 1]
           view == Projected([caps |-> caps, proj |-> proj], a)
       IN /\ caps' = view.caps /\ proj' = view.proj
          /\ hello' = IF a.kind = "hello" /\ hello.try > 0 THEN [hello EXCEPT !.done = TRUE] ELSE hello
          /\ pull' = [c \in DOMAIN pull |->
                        IF Answers(c, a) THEN Overlay(c, a) ELSE pull[c]]
    /\ UNCHANGED <<limit, spent, version, record, clientMem, jobs, told, room, pos, sent, pump, left,
                   acted>>

\* hello: the command is sent, and once more if its first ack does not come.
HelloAttempt ==
    /\ hello.try < 2 /\ ~hello.done
    /\ IF hello.try = 0 THEN Spend("hellos") ELSE UNCHANGED spent
    /\ hello' = [hello EXCEPT !.try = @ + 1]
    /\ SendCommand([kind |-> "hello", cmd |-> 0, sim |-> "", op |-> ""])
    /\ UNCHANGED <<limit, version, record, clientMem, jobs, told, pos, sent, rpos, caps, proj,
                   pull, pump, left>>

\* It returns the ack, or raises AckTimeoutError after the second attempt.
HelloEnds ==
    /\ hello.done \/ hello.try = 2
    /\ hello' = NoHello
    /\ UNCHANGED <<limit, spent, version, record, clientMem, jobs, told, room, pos, sent, rpos,
                   caps, proj, pull, pump, left, acted>>

\* The server dies and a new one replays the room (HelloRuntime.start): the requests of
\* the old one are gone, the capabilities and the registry are those of the replay.
ServerRestart ==
    /\ Spend("reboots")
    /\ caps' = replay.caps /\ proj' = replay.proj
    /\ pull' = [c \in DOMAIN pull |-> IF pull[c].st = "waiting" THEN [pull[c] EXCEPT !.st = "lost"] ELSE pull[c]]
    /\ pump' = 0 /\ left' = {} /\ hello' = NoHello /\ rpos' = Len(replies)
    /\ UNCHANGED <<limit, version, record, clientMem, jobs, told, room, pos, sent, acted>>

-----------------------------------------------------------------------------
Serve == Receive \/ \E t \in tasks : Query(t) \/ Act(t) \/ Send(t) \/ Read(t)
Next ==
    \/ Serve \/ Route \/ Redeliver \/ ComesAgain \/ ClientRestart \/ ServerRestart
    \/ HelloAttempt \/ HelloEnds \/ HumanStop \/ StopNext
    \/ \E r \in Runs : SendSubmit(r) \/ BuildEnds(r) \/ JobMoves(r) \/ Follow(r)
    \/ \E s \in Sims : AskStatus(s) \/ AskLogs(s) \/ AskResult(s) \/ HumanPng(s)
                     \/ \E op \in ControlOps : AskControl(s, op)
    \/ \E c \in DOMAIN pull : PullTimeout(c)

Spec == Init /\ [][Next]_vars

\* Every wait of the server has a timeout, and its loops go on.
FairSpec ==
    /\ Spec /\ WF_vars(Route) /\ WF_vars(StopNext) /\ WF_vars(HelloEnds)
    /\ WF_vars(\E c \in DOMAIN pull : PullTimeout(c))

-----------------------------------------------------------------------------
(* Properties. *)

\* The shape of the state.
TypeOK ==
    /\ version \in Versions /\ caps \in Versions \cup {"unknown"}
    /\ record \in [Runs -> {"none", "pending", "failed", "done"}]
    /\ tracked \in [Sims -> Runs \cup {0, -1}] /\ building \subseteq Runs
    /\ job \in [Runs -> DOMAIN Rank] /\ pos \in 0 .. Len(room) /\ rpos \in 0 .. Len(replies)
    /\ \A t \in tasks : t.pc \in {"query", "act", "send", "read"} /\ (t.pc \in {"query", "act"} => t.run \in Runs)
    /\ dying \subseteq Runs /\ DOMAIN acted = DOMAIN room
    /\ pump \in {0} \cup DOMAIN pull /\ left \subseteq Sims

\* A message of the room reaches the scheduler at most once: not again when it is
\* redelivered while its first handler still waits for SLURM, nor when a restarted client
\* that lost its cache reads the room again.
ActedOnce == \A i \in DOMAIN acted : acted[i] <= 1

\* A command that comes again in another envelope after this process has answered it is
\* not carried out again: whoever still works on it began before the answer
\* (_handle_control, "instead of signalling/cancelling twice").  A copy that comes while
\* the first handler waits, or after a restart, may be.
AnsweredIsOver ==
    \A t \in tasks :
        t.m.kind = "control" /\ t.pc \in {"query", "act"} /\ t.m.cmd \in DOMAIN cache =>
            t.at \in cache[t.m.cmd].taken

\* The scheduler took the command c.
Taken(c) == \E i \in DOMAIN room : room[i].cmd = c /\ acted[i] = 1

\* A control request answered ok was carried out, although the handler looked its job up
\* before two awaits: the scheduler took it, and a cancel told it to end the very job the
\* answer names.  (A request that failed may have been carried out as well.)
OkMeansActed ==
    \A c \in DOMAIN pull :
        pull[c].st = "answered" /\ pull[c].kind = "control" /\ pull[c].ans.out = "ok" =>
            /\ Taken(c)
            /\ pull[c].op = "cancel" => pull[c].ans.run \in dying

\* The live status overlaid on the registry's record is never older than that record, in
\* whatever order the acks of the handlers and the events of the follower arrive
\* (_status_tool, _merge_status).
StatusNotStale ==
    \A c \in DOMAIN pull :
        pull[c].st = "answered" /\ pull[c].ans.out = "state" /\ pull[c].ans.run = pull[c].base.run =>
            Rank[pull[c].ans.st] >= Rank[pull[c].base.st]

Waiting(c) == c \in DOMAIN pull /\ pull[c].st = "waiting"

\* Every request of a tool or of the human room ends (_fetch).
RequestsEnd == \A c \in 1 .. 2 : Waiting(c) ~> ~Waiting(c)

\* The pump resumes, although a request it waits for in _handle_human can only be answered
\* by the pump, and a !stop makes one after the other.
PumpResumes == ~Reads ~> Reads

\* A control command acts as it is answered: once at most for a message, not again once
\* answered, and when the answer is ok (_handle_control, _send_control_ack).
ControlIsExact == TypeOK /\ ActedOnce /\ AnsweredIsOver /\ OkMeansActed

\* The server never hangs on the client: requests end and the pump goes on.
ServerGoesOn == RequestsEnd /\ PumpResumes
=============================================================================
