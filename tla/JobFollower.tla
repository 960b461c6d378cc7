----------------------------- MODULE JobFollower -----------------------------
(***************************************************************************)
(* The watcher of one SLURM job (simclient/follow.py) beside the job, the  *)
(* scheduler that answers for it (slurm/client.py) and the stdout file the *)
(* job writes.  The file is its sequence of complete progress lines, each  *)
(* a percentage, and a line being written; offsets count lines.            *)
(***************************************************************************)
EXTENDS Naturals, Sequences, SequencesExt

CONSTANTS
    Percents,     \* percentages the job prints
    StepPercent,  \* PROGRESS_EVENT_STEP_PERCENT
    Reasons,      \* scheduler reasons of a pending job
    NoReason,     \* Reason=None
    Ends,         \* the states in which the scheduler may end the job
    Purges,       \* whether the scheduler forgets an ended job
    MaxDisturbances  \* bound: of a change of the pending reason, a requeue, a failing
                     \* read of the file and a stop of the follower, how many happen

\* SlurmJobState: the states scontrol's output is parsed into.
ParsedEnds == {"COMPLETED", "FAILED", "CANCELLED", "TIMEOUT"}
Parsed == ParsedEnds \cup {"PENDING", "RUNNING", "COMPLETING"}

ASSUME FollowerAssumption ==
    /\ Percents \subseteq 0 .. 100 /\ StepPercent \in 1 .. 100
    /\ NoReason \notin Reasons /\ Purges \in BOOLEAN
    /\ Ends \cap {"PENDING", "RUNNING", "COMPLETING"} = {}
    /\ MaxDisturbances \in Nat

VARIABLES
    job,      \* scheduler state of the job
    clean,    \* whether its exit code is 0
    reason,   \* why it is pending
    purged,   \* the scheduler has forgotten it
    lines,    \* complete progress lines in its stdout
    partial,  \* the percentage of the line being written, or NoLine
    linked,   \* run_dir/simOutput exists
    pc,       \* where the follower is
    info,     \* the snapshot of its last successful poll
    tracked,  \* TrackedSim: what was emitted, and how far the file was read
    todo,     \* lines read and not yet looked at
    posted,   \* events it has emitted, oldest first
    spent     \* reason changes, requeues, failed reads and stops so far

jobVars == <<job, clean, reason, purged, lines, partial>>
vars == <<job, clean, reason, purged, lines, partial, linked, pc, info, tracked,
          todo, posted, spent>>

NoLine == 101
Snapshot == [st : Parsed, clean : BOOLEAN, reason : Reasons \cup {NoReason}]
Event(st, pct) == [st |-> st, percent |-> pct]

Init ==
    /\ job = "PENDING" /\ clean = TRUE /\ reason \in Reasons \cup {NoReason}
    /\ purged = FALSE /\ lines = <<>> /\ partial = NoLine /\ linked = FALSE
    /\ pc = "poll" /\ todo = <<>> /\ posted = <<>>
    /\ info = [st |-> "PENDING", clean |-> TRUE, reason |-> NoReason]
    /\ tracked = [running |-> FALSE, reason |-> NoReason, offset |-> 0, bucket |-> 0]
    /\ spent = [reason |-> 0, requeue |-> 0, read |-> 0, stop |-> 0]

Disturb(kind) ==
    /\ spent[kind] = 0
    /\ spent.reason + spent.requeue + spent.read + spent.stop < MaxDisturbances
    /\ spent' = [spent EXCEPT ![kind] = @ + 1]

-----------------------------------------------------------------------------
(* The job and its scheduler. *)

JobStarts ==
    /\ job = "PENDING" /\ job' = "RUNNING" /\ reason' = NoReason
    /\ UNCHANGED <<clean, purged, lines, partial>>

ReasonChanges ==
    /\ job = "PENDING" /\ Disturb("reason")
    /\ reason' \in Reasons \ {reason}
    /\ UNCHANGED <<job, clean, purged, lines, partial>>

\* A progress line reaches the file in two writes; percentages grow.
JobWrites ==
    /\ job = "RUNNING"
    /\ IF partial # NoLine
       THEN lines' = Append(lines, partial) /\ partial' = NoLine
       ELSE /\ partial' \in {p \in Percents : \A i \in 1 .. Len(lines) : p > lines[i]}
            /\ UNCHANGED lines
    /\ UNCHANGED <<job, clean, reason, purged>>

JobCompletes ==
    /\ job = "RUNNING" /\ job' = "COMPLETING"
    /\ UNCHANGED <<clean, reason, purged, lines, partial>>

JobEnds ==
    /\ \/ job \in {"RUNNING", "COMPLETING"} /\ job' \in Ends
       \/ job = "PENDING" /\ job' \in Ends \cap {"CANCELLED"}
    /\ clean' \in IF job' = "COMPLETED" THEN BOOLEAN ELSE {FALSE}
    /\ UNCHANGED <<reason, purged, lines, partial>>

\* The scheduler puts a running job back into the queue; its file is truncated.
Requeue ==
    /\ job = "RUNNING" /\ Disturb("requeue")
    /\ job' = "PENDING" /\ reason' \in Reasons \cup {NoReason}
    /\ lines' = <<>> /\ partial' = NoLine
    /\ UNCHANGED <<clean, purged>>

Purge ==
    /\ Purges /\ job \in Ends /\ purged' = TRUE
    /\ UNCHANGED <<job, clean, reason, lines, partial>>

Job ==
    /\ \/ /\ JobStarts \/ JobWrites \/ JobCompletes \/ JobEnds \/ Purge
          /\ UNCHANGED spent
       \/ ReasonChanges \/ Requeue
    /\ UNCHANGED <<linked, pc, info, tracked, todo, posted>>

-----------------------------------------------------------------------------
(* The follower. *)

\* _run: what a snapshot calls for before the file is read.
AfterPoll(i) ==
    IF i.st = "RUNNING" /\ ~tracked.running THEN "emitRunning"
    ELSE IF i.st = "PENDING" /\ i.reason \notin {NoReason, tracked.reason} THEN "emitReason"
    ELSE "tail"

\* scontrol answers with a state the client knows (job_info).
PollOk ==
    /\ pc = "poll" /\ ~purged /\ job \in Parsed
    /\ info' = [st |-> job, clean |-> clean, reason |-> reason]
    /\ pc' = AfterPoll(info')
    /\ tracked' = [tracked EXCEPT
                     !.running = @ \/ pc' = "emitRunning",
                     !.reason = IF pc' = "emitReason" THEN info'.reason ELSE @]
    /\ UNCHANGED <<jobVars, linked, todo, posted, spent>>

\* scontrol fails, or names a state the client does not know: no snapshot.
PollFails ==
    /\ pc = "poll" /\ pc' = "sleep"
    /\ UNCHANGED <<jobVars, linked, info, tracked, todo, posted, spent>>

Wake ==
    /\ pc = "sleep" /\ pc' = "poll"
    /\ UNCHANGED <<jobVars, linked, info, tracked, todo, posted, spent>>

\* job_running, or the scheduler's reason as another simulation.submitted.
EmitState ==
    /\ pc \in {"emitRunning", "emitReason"} /\ pc' = "tail"
    /\ posted' = Append(posted, Event(IF pc = "emitRunning" THEN "job_running"
                                      ELSE "submitted", NoLine))
    /\ UNCHANGED <<jobVars, linked, info, tracked, todo, spent>>

\* Mutant: the line being written counts as read.
ConsumedWithPartial == Len(lines) + (IF partial # NoLine THEN 1 ELSE 0)

\* The new offset: every complete line is consumed, a partial one is left.
Consumed == Len(lines)

\* _read_new_lines: from the offset, or from the start of a file that shrank.
ReadLines ==
    /\ pc = "tail" /\ pc' = "lines"
    /\ LET from == IF tracked.offset > Len(lines) THEN 0 ELSE tracked.offset
       IN /\ todo' = SubSeq(lines, from + 1, Len(lines))
          /\ tracked' = [tracked EXCEPT !.offset = Consumed]
    /\ UNCHANGED <<jobVars, linked, info, posted, spent>>

ReadFails ==
    /\ pc = "tail" /\ Disturb("read")
    /\ pc' = "lines"
    /\ UNCHANGED <<jobVars, linked, info, tracked, todo, posted>>

\* Mutant: every change of bucket is emitted.
WorthAnyChange(p) == p \div StepPercent # tracked.bucket \/ p >= 100

\* Mutant: every line past the first bucket is emitted.
WorthAnyLine(p) == p >= StepPercent

\* A line is emitted when it enters a new bucket, or reports completion.
WorthEmitting(p) == p \div StepPercent > tracked.bucket \/ p >= 100

\* _tail_progress: the next line, emitted or skipped.
TailProgress ==
    /\ pc = "lines" /\ todo # <<>>
    /\ todo' = Tail(todo)
    /\ LET p == Head(todo)
       IN IF WorthEmitting(p)
          THEN /\ posted' = Append(posted, Event("step_finished", p))
               /\ tracked' = [tracked EXCEPT !.bucket = p \div StepPercent]
          ELSE UNCHANGED <<posted, tracked>>
    /\ UNCHANGED <<jobVars, linked, pc, info, spent>>

\* Mutant: only a clean completion is taken for the end of a job.
TailDoneCompleted ==
    /\ pc = "lines" /\ todo = <<>>
    /\ pc' = IF info.st = "COMPLETED" THEN "account" ELSE "sleep"
    /\ UNCHANGED <<jobVars, linked, info, tracked, todo, posted, spent>>

\* The lines are done: go on with the end of the job, or sleep.
TailDone ==
    /\ pc = "lines" /\ todo = <<>>
    /\ pc' = IF info.st \in ParsedEnds THEN "account" ELSE "sleep"
    /\ UNCHANGED <<jobVars, linked, info, tracked, todo, posted, spent>>

\* _emit_terminal: accounting is awaited, then the end is classified.
Account ==
    /\ pc = "account"
    /\ pc' = IF info.st = "COMPLETED" /\ info.clean THEN "finished" ELSE "failed"
    /\ UNCHANGED <<jobVars, linked, info, tracked, todo, posted, spent>>

EmitFinished ==
    /\ pc = "finished" /\ pc' = "link"
    /\ posted' = Append(posted, Event("job_finished", NoLine))
    /\ UNCHANGED <<jobVars, linked, info, tracked, todo, spent>>

\* link_run_results, in a thread.
LinkRunResults ==
    /\ pc = "link" /\ linked' \in {linked, TRUE}
    /\ pc' = IF linked' THEN "ready" ELSE "unlinked"
    /\ UNCHANGED <<jobVars, info, tracked, todo, posted, spent>>

\* Mutant: the results are announced whether they are linked or not.
LastEventReady ==
    CASE pc = "failed" -> IF info.st = "CANCELLED" THEN "cancelled" ELSE "job_failed"
      [] OTHER -> "results_ready"

\* Mutant: the event is named after the scheduler's state.
LastEventNamed == IF pc = "failed" THEN info.st ELSE "results_ready"

\* The last event of a followed job.
LastEvent ==
    CASE pc = "failed" -> IF info.st = "CANCELLED" THEN "cancelled" ELSE "job_failed"
      [] pc = "unlinked" -> "job_finished"
      [] OTHER -> "results_ready"

EmitLast ==
    /\ pc \in {"ready", "unlinked", "failed"} /\ pc' = "done"
    /\ posted' = Append(posted, Event(LastEvent, NoLine))
    /\ UNCHANGED <<jobVars, linked, info, tracked, todo, spent>>

\* The follower is cancelled at an await, or a send raises: it ends there.
Stopped ==
    /\ pc \notin {"done", "stopped"} /\ Disturb("stop")
    /\ pc' = "stopped"
    /\ UNCHANGED <<jobVars, linked, info, tracked, todo, posted>>

Step == \/ EmitState \/ ReadLines \/ TailProgress \/ TailDone \/ Account
        \/ EmitFinished \/ LinkRunResults \/ EmitLast \/ Wake

Next == Job \/ PollOk \/ PollFails \/ ReadFails \/ Step \/ Stopped

Spec == Init /\ [][Next]_vars

\* The event loop runs the follower, and scontrol does not fail for ever while it
\* can answer.
FairSpec == Spec /\ WF_vars(Step) /\ SF_vars(PollOk) /\ WF_vars(PollFails)

-----------------------------------------------------------------------------
(* Properties. *)

LastStates == {"results_ready", "job_failed", "cancelled"}
PostedStates == LastStates \cup {"job_running", "submitted", "step_finished",
                                 "job_finished"}

\* The shape of the job, the file and the follower.
TypeOK ==
    /\ job \in {"PENDING", "RUNNING", "COMPLETING"} \cup Ends
    /\ reason \in Reasons \cup {NoReason}
    /\ clean \in BOOLEAN /\ purged \in BOOLEAN /\ linked \in BOOLEAN
    /\ lines \in Seq(Percents) /\ partial \in Percents \cup {NoLine}
    /\ pc \in {"poll", "sleep", "emitRunning", "emitReason", "tail", "lines", "account",
               "finished", "link", "ready", "unlinked", "failed", "done", "stopped"}
    /\ info \in Snapshot /\ todo \in Seq(Percents)
    /\ tracked \in [running : BOOLEAN, reason : Reasons \cup {NoReason},
                    offset : Nat, bucket : Nat]
    /\ posted \in Seq([st : PostedStates, percent : Percents \cup {NoLine}])
    /\ spent \in [{"reason", "requeue", "read", "stop"} -> Nat]

\* The events that report progress, by their place among the posted ones.
ProgressEvents == {i \in 1 .. Len(posted) : posted[i].st = "step_finished"}

\* Emitted progress never goes back, also when the job is requeued and its file
\* starts afresh (the buckets of _tail_progress).
ProgressForward ==
    \A i, j \in ProgressEvents : i < j => posted[i].percent <= posted[j].percent

\* Progress is emitted at most once per bucket, but for the completion line
\* ("bounded cadence").
BoundedCadence ==
    \A i, j \in ProgressEvents :
        i # j /\ posted[i].percent < 100 /\ posted[j].percent < 100
            => posted[i].percent \div StepPercent # posted[j].percent \div StepPercent

\* When the end of a job is emitted, every complete line of its output has been
\* read, and completion, if printed, was emitted before: the file is read after
\* the poll that saw the end, and partial lines are never consumed
\* (_read_new_lines).  A requeued job starts its file afresh, which the code notices
\* only if the new file is shorter than what was read, and a failed last read is not
\* repeated: neither is claimed.
CompletionReported ==
    pc = "done" /\ spent.requeue = 0 /\ spent.read = 0 =>
        /\ tracked.offset = Len(lines)
        /\ lines # <<>> /\ Last(lines) = 100 =>
              \E i \in 1 .. Len(posted) - 1 : posted[i].percent = 100

\* results.ready means that the job completed cleanly, that its end was announced
\* before and that the output is linked (SimulationState: "only after job_finished
\* and a present run_dir/simOutput"); the other final events name the job's end.
EndIsTrue ==
    \A i \in 1 .. Len(posted) :
        /\ posted[i].st = "results_ready" =>
              /\ job = "COMPLETED" /\ clean /\ linked
              /\ \E j \in 1 .. i - 1 : posted[j].st = "job_finished"
        /\ posted[i].st \in {"job_failed", "cancelled"} =>
              /\ job \in Ends /\ ~(job = "COMPLETED" /\ clean)
              /\ posted[i].st = "cancelled" <=> job = "CANCELLED"

\* A follower that is not stopped reports an end it can parse, unless the scheduler
\* forgets the job first (_run: "Follow one SLURM job to its terminal transition").
EndReported ==
    job \in ParsedEnds ~> pc \in {"done", "stopped"} \/ purged

\* What a watcher posts is true, complete and in order, through requeues, failing polls
\* and its own cancellation (_run, _tail_progress, _emit_terminal).
PostsAreTrue ==
    TypeOK /\ ProgressForward /\ BoundedCadence /\ CompletionReported /\ EndIsTrue
=============================================================================
