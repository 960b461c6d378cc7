------------------------------- MODULE Agenda -------------------------------
(***************************************************************************)
(* The agenda: AgendaService (server/agenda.py) and AgendaEngine           *)
(* (agenda/engine.py) over a campaign file and a reuse registry file.      *)
(*                                                                         *)
(* Every operation runs under one asyncio lock, but an engine tick awaits  *)
(* the simclient's ack of each submission and a stop awaits each cancel,   *)
(* so the campaign in memory, the file, the registry of observed states    *)
(* and the cluster's jobs drift apart, and the server may die in between.  *)
(*                                                                         *)
(* A run is one command id.  A leaf's is a function of campaign name, path *)
(* and spec, so it is named by the leaf's path; direct submissions have a  *)
(* fresh one each.  The simclient and the registry are an environment that *)
(* answers as SimClient and SubmitService do.                              *)
(***************************************************************************)
EXTENDS Planner

CONSTANTS
    Direct,     \* runs of submit_simulation, outside the campaign
    DirectSim,  \* the sim_id each of them submits
    Actual,     \* the cost the cluster reports for a run, [core, gpu]; runs whose
                \* accounting cannot be read are outside its domain
    EmptyRuns,  \* runs whose results read zero
    Window,     \* deferred_outcome_timeout_s, in units of time
    Limits      \* instances to explore, see LimitType

Reuse == INSTANCE ReuseRegistry

\* _idempotency_key: one command id for each leaf and spec.
Runs == Paths \cup Direct
\* _wire_hash: the simulation is the payload that is sent, without the point.
SimOf == [r \in Runs |-> IF r \in Direct THEN DirectSim[r] ELSE SpecAt[r].sim]
Sims == {SimOf[r] : r \in Runs}
ASSUME IdAssumption == Direct \cap Paths = {} /\ NoRun \notin Runs /\ NoSim \notin Sims
\* _reuse_key: the payload and the point; a direct submission has no point.
ReuseKey(p) == <<SpecAt[p].sim, SpecAt[p].point>>
DirectKey(d) == <<DirectSim[d], "">>
ReuseKeys == {ReuseKey(p) : p \in Paths} \cup {DirectKey(d) : d \in Direct}

\* seed: the leaves of create_campaign; extra: those add_leaf may bring; budget and
\* policy: the caps and gates that are set; the rest bound how often things happen.
LimitType == [seed : Seq(Paths), extra : SUBSET Paths, direct : SUBSET Direct,
              submits : Nat, losses : Nat, raises : Nat, deaths : Nat, crashes : Nat, ops : Nat,
              tools : SUBSET STRING]
ASSUME AgendaAssumption ==
    /\ DirectSim \in [Direct -> STRING] /\ Window \in Nat
    /\ Actual \in [DOMAIN Actual -> [core : Nat, gpu : Nat]]
    /\ \A l \in Limits : /\ l.seed \in Seq(Paths) /\ IsInjective(l.seed)
                         /\ l.extra \subseteq Paths
                         /\ "jobs" \in DOMAIN l.budget => l.budget.jobs \in Nat

VARIABLES
    limit,     \* the instance explored
    disk,      \* the campaign file
    reuse,     \* the reuse registry file
    pending,   \* _pending_direct_run_ids
    op,        \* the operation that holds the lock
    waited,    \* time since deferred_since of each leaf, up to Window
    wire,      \* commands on their way
    acks,      \* acks on their way
    cmd,       \* the simclient's idempotency record of each run
    job,       \* the cluster's job of each run
    shown,     \* the job state each run last reported
    registry,  \* SubmitService.registry: sim_id -> the run it shows and its state
    direct,    \* the submit_simulation calls
    said,      \* what the tools acknowledged of the campaign (history)
    told,      \* the kind of the last callback of each leaf that was drained (history)
    asked,     \* the sim_ids a finished stop_agenda asked to cancel (history)
    spent      \* what the bounds of limit count; raised: the leaves whose submission
               \* ended with an error (history)

fileVars == <<disk, reuse, pending>>
clusterVars == <<wire, acks, cmd, job, shown, registry>>
history == <<said, told, asked>>
vars == <<limit, disk, reuse, pending, op, waited, wire, acks, cmd, job, shown, registry,
          direct, said, told, asked, spent>>

NoCampaign == [state |-> "none", leaf |-> <<>>]
Idle == [kind |-> "idle"]
NoStop == {"no stop"}
Campaign(order) ==
    [order |-> order, leaf |-> [p \in Range(order) |-> NewLeaf], usage |-> NoUsage,
     state |-> "running", callbacks |-> <<>>, analysed |-> {}, concluded |-> FALSE]
\* AgendaStore.save: the file is replaced as a whole, so that a crash leaves the old
\* campaign or the new one.
Save(c) == disk' = c
NothingSaid == [state |-> "running", approved |-> {}, added |-> {}, analysed |-> {}]

Init ==
    /\ limit \in Limits /\ disk = NoCampaign
    /\ reuse = [k \in ReuseKeys |-> Reuse!NoRecord] /\ pending = {} /\ op = Idle
    /\ waited = [p \in Paths |-> 0]
    /\ wire = {} /\ acks = {} /\ cmd = [r \in Runs |-> "none"]
    /\ job = [r \in Runs |-> "none"] /\ shown = [r \in Runs |-> "none"]
    /\ registry = [s \in Sims |-> [run |-> NoRun, st |-> ""]]
    /\ direct = [d \in Direct |-> "none"]
    /\ said = NothingSaid /\ told = [p \in Paths |-> ""] /\ asked = NoStop
    /\ spent = [losses |-> 0, raised |-> {}, deaths |-> 0, crashes |-> 0, ops |-> 0]

-----------------------------------------------------------------------------
(* The environment: simclient, cluster, and the server's projection. *)

Live == {"running"}
\* The state each job state is reported as.
StateOf == [running |-> "job_running",
             finished |-> "job_finished", ready |-> "results_ready",
             failed |-> "job_failed", cancelled |-> "cancelled"]

Ack(r, out, st) == [run |-> r, out |-> out, st |-> st]

\* The answer to a command the simclient has a record of (_submit_replay_ack).
Replay(r) ==
    CASE cmd[r] = "pending" -> Ack(r, "unknown", "")
      [] cmd[r] = "done" -> Ack(r, "accepted", "workflow_finished")
      [] cmd[r] = "refused" -> Ack(r, "refused", "failed")

\* An ack is sent; an earlier one of the run that did not arrive yet never will.
Send(a) == acks' = {x \in acks : x.run # a.run} \cup {a}

\* The simclient handles a command: a new one is accepted or refused.
Receive(r) ==
    /\ r \in wire /\ wire' = wire \ {r}
    /\ \/ /\ cmd[r] = "none" /\ Send(Ack(r, "accepted", "accepted"))
          /\ cmd' = [cmd EXCEPT ![r] = "pending"] /\ job' = [job EXCEPT ![r] = "building"]
       \/ /\ cmd[r] = "none" /\ Send(Ack(r, "refused", "failed"))
          /\ cmd' = [cmd EXCEPT ![r] = "refused"] /\ UNCHANGED job
       \/ /\ cmd[r] # "none" /\ Send(Replay(r)) /\ UNCHANGED <<cmd, job>>
    /\ UNCHANGED <<limit, fileVars, op, waited, shown, registry, direct, history, spent>>

\* The build, then the job, goes on.
Progress(r) ==
    /\ \E next \in CASE job[r] = "building" -> {"running", "failed"}
                     [] job[r] = "running" -> {"finished", "failed"}
                     [] job[r] = "finished" -> {"ready"}
                     [] OTHER -> {} :
         /\ job' = [job EXCEPT ![r] = next]
         /\ cmd' = IF job[r] # "building" \/ cmd[r] # "pending" THEN cmd
                   ELSE [cmd EXCEPT ![r] = IF next = "running" THEN "done" ELSE "refused"]
    /\ UNCHANGED <<limit, fileVars, op, waited, wire, acks, shown, registry, direct, history,
                   spent>>

\* The simclient dies while it builds, before or after it ran sbatch: the record stays
\* pending for ever.
ClientDies(r) ==
    /\ job[r] = "building" /\ spent.deaths < limit.deaths
    /\ spent' = [spent EXCEPT !.deaths = @ + 1]
    /\ \E next \in {"lost", "running"} : job' = [job EXCEPT ![r] = next]
    /\ UNCHANGED <<limit, fileVars, op, waited, wire, acks, cmd, shown, registry, direct,
                   history>>

\* An event of the job is projected; results.ready runs on_run_ready, which is
\* promote_reuse for the runs it has a pending record of.
Report(r) ==
    /\ job[r] \in DOMAIN StateOf /\ shown[r] # job[r]
    /\ shown' = [shown EXCEPT ![r] = job[r]]
    /\ registry' = [registry EXCEPT ![SimOf[r]] = [run |-> r, st |-> StateOf[job[r]]]]
    /\ IF job[r] = "ready" /\ r \in pending
       THEN reuse' = Reuse!Promote(reuse, {r}) /\ pending' = pending \ {r}
       ELSE UNCHANGED <<reuse, pending>>
    /\ UNCHANGED <<limit, disk, op, waited, wire, acks, cmd, job, direct, history, spent>>

\* Time passes for the deferred leaves.
Elapse ==
    /\ \E p \in DOMAIN disk.leaf : disk.leaf[p].deferred /\ waited[p] < Window
    /\ waited' = [p \in Paths |->
            IF p \in DOMAIN disk.leaf /\ disk.leaf[p].deferred /\ waited[p] < Window
            THEN waited[p] + 1 ELSE waited[p]]
    /\ UNCHANGED <<limit, fileVars, op, clusterVars, direct, history, spent>>

-----------------------------------------------------------------------------
(* Direct submissions and the reuse file. *)

DirectSubmit(d) ==
    /\ d \in limit.direct /\ direct[d] = "none"
    /\ direct' = [direct EXCEPT ![d] = "waiting"] /\ wire' = wire \cup {d}
    /\ UNCHANGED <<limit, fileVars, op, waited, acks, cmd, job, shown, registry, history, spent>>

DirectTimeout(d) ==
    /\ direct[d] = "waiting" /\ direct' = [direct EXCEPT ![d] = "over"]
    /\ UNCHANGED <<limit, fileVars, op, waited, clusterVars, history, spent>>

\* _direct_reuse_record: done if the registry already shows the results of this run.
DirectRecord(d) ==
    IF registry[DirectSim[d]] = [run |-> d, st |-> "results_ready"]
    THEN Reuse!Done(DirectSim[d], d) ELSE Reuse!Pending(DirectSim[d], d)

\* The accepted call resumes: remember_direct_spec, which holds no lock.
RememberDirect(d) ==
    /\ direct[d] = "acked" /\ direct' = [direct EXCEPT ![d] = "over"]
    /\ reuse' = Reuse!RecordDirect(reuse, DirectKey(d), DirectRecord(d))
    /\ pending' = IF reuse'[DirectKey(d)].st = "pending" THEN pending \cup {d} ELSE pending \ {d}
    /\ UNCHANGED <<limit, disk, op, waited, clusterVars, history, spent>>

-----------------------------------------------------------------------------
(* One engine tick: load, fold and plan. *)

\* The last leaf of the walk that carries a sim_id is the one its state is folded into.
LastPath(c, s) ==
    LET at == {i \in DOMAIN c.order : c.leaf[c.order[i]].sim = s}
    IN c.order[CHOOSE i \in at : \A j \in at : j <= i]

\* observe, by leaf.
PathStates(c) ==
    [p \in {q \in DOMAIN c.leaf : c.leaf[q].sim # NoSim /\ LastPath(c, c.leaf[q].sim) = q} |->
        registry[c.leaf[p].sim].st]

\* _apply_reuse: a planned leaf whose content was already run is done.
ApplyReuse(leaf) ==
    [p \in DOMAIN leaf |->
        LET hit == Reuse!Lookup(reuse, ReuseKey(p))
        IN IF leaf[p].status # "planned" \/ hit = Reuse!NoRecord THEN leaf[p]
           ELSE [leaf[p] EXCEPT !.sim = hit.sim, !.run = hit.run, !.status = "done", !.reused = TRUE]]

\* Mutant: a leaf is reconciled on every tick.
OwesActualAlways(l) ==
    /\ ~l.reused /\ l.status \in Ended /\ l.sim # NoSim
    /\ registry[l.sim].st \in {"job_finished", "results_ready", "job_failed", "cancelled"}
    /\ registry[l.sim].run \in DOMAIN Actual

\* An ended leaf whose actual cost is known and not yet stamped.
OwesActual(l) ==
    /\ ~l.reused /\ l.status \in Ended /\ l.actCore = Unset /\ l.sim # NoSim
    /\ registry[l.sim].st \in {"job_finished", "results_ready", "job_failed", "cancelled"}
    /\ registry[l.sim].run \in DOMAIN Actual

ActualOf(l) == Actual[registry[l.sim].run]

\* _reconcile_actuals: each leaf that owes is corrected and stamped, in walk order.
ReconcileActuals(c) ==
    LET usage[n \in 0 .. Len(c.order)] ==   \* after the first n leaves
            IF n = 0 THEN c.usage
            ELSE LET l == c.leaf[c.order[n]]
                 IN IF OwesActual(l) THEN Reconcile(usage[n - 1], l, ActualOf(l)) ELSE usage[n - 1]
    IN [c EXCEPT !.usage = usage[Len(c.order)],
                 !.leaf = [p \in DOMAIN c.leaf |->
                    IF ~OwesActual(c.leaf[p]) THEN c.leaf[p]
                    ELSE [c.leaf[p] EXCEPT !.actCore = ActualOf(c.leaf[p]).core,
                                           !.actGpu = ActualOf(c.leaf[p]).gpu]]]

\* _plan: the campaign with the observed states, reuse and actual costs folded in.
Fold(c) ==
    LET leaf == ApplyReuse(ApplyStates(c.leaf, PathStates(c)))
    IN ReconcileActuals([c EXCEPT !.leaf = leaf, !.usage.running = Running(leaf)])

Callback(p, kind, why) == [path |-> p, kind |-> kind, why |-> why]
Tell(c, p, why) == [c EXCEPT !.callbacks = Append(@, Callback(p, c.leaf[p].status, why))]

\* The reason and the health flag the registry has for a leaf.
FailureOf(l) == IF l.sim # NoSim /\ registry[l.sim].st \in {"failed", "job_failed", "cancelled"}
                THEN "run" ELSE ""
Suspect(l) == l.sim # NoSim /\ registry[l.sim].st = "results_ready"
              /\ registry[l.sim].run \in EmptyRuns

\* Mutant: the statuses are saved without their callbacks.
EmitLater(c, before) == c

\* _emit_callbacks: one for each leaf whose status on disk was not yet this end.
EmitCallbacks(c, before) ==
    LET new    == {p \in DOMAIN c.leaf : c.leaf[p].status \in Ended /\ before[p] # c.leaf[p].status}
        Why(p) == IF c.leaf[p].status = "failed" THEN FailureOf(c.leaf[p]) ELSE ""
        ended  == Kept(c.order, new)
    IN [c EXCEPT !.callbacks = @ \o [i \in DOMAIN ended |->
                                Callback(ended[i], c.leaf[ended[i]].status, Why(ended[i]))],
                 !.leaf = [p \in DOMAIN c.leaf |->
                    [c.leaf[p] EXCEPT !.suspect = @ \/ (c.leaf[p].status = "done" /\ Suspect(c.leaf[p])),
                                      !.why = IF p \in new /\ Why(p) # "" THEN Why(p) ELSE @]]]

\* TickResult: the leaves the tick tells the agent about, by bucket.
NoResult == [b \in {"submitted", "waiting", "held", "pending_approval", "deferred", "done",
                    "failed"} |-> {}]

\* tick up to its first save.  A duplicate payload raises before that and changes
\* nothing.
TickStart ==
    /\ op = Idle /\ disk # NoCampaign
    /\ \E before \in {[p \in DOMAIN disk.leaf |-> disk.leaf[p].status]}, folded \in {Fold(disk)} :
       \E steps \in {NextActions(folded.order, folded.leaf, limit.budget, folded.usage)},
          c \in {EmitCallbacks(folded, before)} :
          /\ ~Collides(folded.leaf, steps)
          /\ Save(c)
          /\ op' = [kind |-> "tick", c |-> c, steps |-> steps, before |-> before,
                    observed |-> [s \in Sims |-> registry[s].st], result |-> NoResult,
                    inFlight |-> c.usage.running, await |-> NoRun, raises |-> FALSE]
    /\ UNCHANGED <<limit, reuse, pending, waited, clusterVars, direct, history, spent>>

-----------------------------------------------------------------------------
(* The steps of a tick. *)

InTick == op.kind = "tick"

\* _persist_terminal, over some steps: those that end a leaf no observation ended.
PersistTerminal(c, steps) ==
    LET ends == {s \in Range(steps) : s.action \in Ended /\ c.leaf[s.path].status \notin Ended}
        walk == Kept(steps, ends)
        Of(p) == CHOOSE s \in ends : s.path = p
    IN [c EXCEPT !.callbacks = @ \o [i \in DOMAIN walk |->
                                Callback(walk[i].path, walk[i].action, walk[i].why)],
                 !.leaf = [p \in DOMAIN c.leaf |->
                    IF \E s \in ends : s.path = p
                    THEN [c.leaf[p] EXCEPT !.status = Of(p).action, !.why = Of(p).why]
                    ELSE c.leaf[p]]]

\* _may_submit.
MaySubmit(l, p) ==
    \/ l.approved
    \/ /\ ~SpecAt[p].gated /\ "all" \notin DOMAIN limit.policy
       /\ "over" \in DOMAIN limit.policy => SpecAt[p].core <= limit.policy.over

\* The submissions of a tick and the jobs in flight at their limits.
AtLimit ==
    \/ Cardinality(op.result.submitted) >= limit.submits
    \/ "running" \in DOMAIN limit.budget /\ op.inFlight >= limit.budget.running

\* Mutant: the lifecycle state is not consulted.
BlockedByGates(c, p) ==
    \/ AtLimit
    \/ ~MaySubmit(c.leaf[p], p)

\* _submission_block: held, waiting or pending approval.
Blocked(c, p) ==
    \/ c.state # "running"
    \/ AtLimit
    \/ ~MaySubmit(c.leaf[p], p)

\* The steps up to the next submission that nothing blocks, and those after it.
Submittable(i) == op.steps[i].action = "submit" /\ ~Blocked(op.c, op.steps[i].path)
NextSubmission == CHOOSE i \in 1 .. Len(op.steps) + 1 :
    /\ i <= Len(op.steps) => Submittable(i)
    /\ \A j \in 1 .. i - 1 : ~Submittable(j)
Passed == SubSeq(op.steps, 1, NextSubmission - 1)
Skipped == PersistTerminal(op.c, Passed)

\* _bucket, _submission_block: where a step that submits nothing is reported.
Bucket(s) ==
    CASE s.action = "wait" -> "waiting"
      [] s.action \in Ended -> s.action
      [] s.action = "submit" -> IF op.c.state # "running" THEN "held"
                                ELSE IF AtLimit THEN "waiting" ELSE "pending_approval"

\* The report over the steps before the next submission.
Reported(result) ==
    [b \in DOMAIN result |-> result[b] \cup {s.path : s \in {x \in Range(Passed) : Bucket(x) = b}}]

\* _run_steps up to a submission: it is sent under the leaf's command id and awaited.  A
\* submission that is going to raise never reaches the room (prepare_spec, _refresh_token),
\* or is there all the same (room_send).
RunSteps ==
    /\ InTick /\ op.await = NoRun /\ NextSubmission <= Len(op.steps)
    /\ LET p == op.steps[NextSubmission].path
       IN \E raises \in BOOLEAN :
             /\ raises => Cardinality(spent.raised \cup {p}) <= limit.raises
             /\ wire' \in {wire \cup {p}} \cup (IF raises THEN {wire} ELSE {})
             /\ op' = [op EXCEPT !.c = Skipped, !.await = p, !.raises = raises, !.result = Reported(@),
                                 !.steps = SubSeq(@, NextSubmission + 1, Len(@))]
    /\ UNCHANGED <<limit, fileVars, waited, acks, cmd, job, shown, registry, direct, history,
                   spent>>

\* _do_submit after the ack: the leaf is linked to its run and its cost reserved.
Accepted(c, p) ==
    LET q == SpecAt[p]
        accounted == Account(c.usage, q)
    IN [c EXCEPT !.leaf[p] = [@ EXCEPT !.sim = q.sim, !.run = p, !.status = "submitted",
                                !.deferred = FALSE, !.why = "", !.estCore = q.core,
                                !.estGpu = q.gpu, !.isGpu = q.isGpu],
                 !.usage = [accounted EXCEPT !.running = @ + 1]]

\* The last except of _submit_one: the leaf is failed at once, and keeps what it had.
SubmitFailed(c, p, why) ==
    Tell([c EXCEPT !.leaf[p].status = "failed", !.leaf[p].why = why], p, why)

\* Mutant: each attempt starts the window again.
DeferredForEver(c, p, out) ==
    [c EXCEPT !.leaf[p].deferred = TRUE,
              !.leaf[p].sim = IF out = "unknown" /\ @ = NoSim THEN SpecAt[p].sim ELSE @]

\* _record_deferral: only an unknown outcome names the simulation; at the end of the
\* window the leaf is given up.
Deferred(c, p, out) ==
    LET l == c.leaf[p]
        elapsed == IF l.deferred THEN waited[p] ELSE 0
        named == IF out = "unknown" /\ l.sim = NoSim THEN SpecAt[p].sim ELSE l.sim
        d == [c EXCEPT !.leaf[p] = [l EXCEPT !.deferred = TRUE, !.why = "outcome_unknown", !.sim = named]]
    IN IF elapsed < Window THEN d
       ELSE Tell([d EXCEPT !.leaf[p].status = "failed"], p, "outcome_unknown")

\* Mutant: an AckTimeoutError is not caught, like the other errors.
ClassifySubmitBlind(out) ==
    CASE out = "accepted" -> "sim_id"
      [] out = "refused" -> "SubmitFailureError"
      [] out = "unknown" -> "TransientSubmitError"
      [] out \in {"lost", "error"} -> "Exception"

\* The submit closure and _classify_submit: a lost ack and an unknown outcome are
\* transient, a refusal is final, and so is any other error, which the closure lets through.
ClassifySubmit(out) ==
    CASE out = "accepted" -> "sim_id"
      [] out = "refused" -> "SubmitFailureError"
      [] out \in {"lost", "unknown"} -> "TransientSubmitError"
      [] out = "error" -> "Exception"

\* Mutant: whatever is not an acceptance is a failure.
SubmitOneFails(c, p, out) ==
    IF out = "accepted" THEN Accepted(c, p) ELSE SubmitFailed(c, p, "refused")

\* _submit_one.
SubmitOne(c, p, out) ==
    CASE ClassifySubmit(out) = "sim_id" -> Accepted(c, p)
      [] ClassifySubmit(out) = "TransientSubmitError" -> Deferred(c, p, out)
      [] ClassifySubmit(out) = "SubmitFailureError" -> SubmitFailed(c, p, "refused")
      [] ClassifySubmit(out) = "Exception" -> SubmitFailed(c, p, "error")

\* Mutant: a deferral that was given up is reported as one that goes on.
BucketsDeferred(c, p, out) ==
    IF out = "accepted" THEN {"submitted"}
    ELSE IF out \in {"unknown", "lost"} THEN {"deferred"} ELSE {"failed"}

\* Where _run_steps reports a submission: one that was given up as deferred and failed.
Buckets(c, p, out) ==
    (CASE out = "accepted" -> {"submitted"} [] out \in {"unknown", "lost"} -> {"deferred"}
       [] OTHER -> {})
        \cup (IF c.leaf[p].status = "failed" THEN {"failed"} ELSE {})

\* The awaited submission ends with an outcome: the campaign is saved at once.
Resolve(out) ==
    LET p == op.await
        c == SubmitOne(op.c, p, out)
        one == IF out = "accepted" THEN 1 ELSE 0
    IN /\ Save(c)
       /\ op' = [op EXCEPT !.c = c, !.await = NoRun, !.raises = FALSE, !.result = [b \in DOMAIN @ |->
                                IF b \in Buckets(c, p, out) THEN @[b] \cup {p} ELSE @[b]],
                           !.inFlight = @ + one]
       /\ waited' = IF c.leaf[p].deferred /\ ~op.c.leaf[p].deferred
                    THEN [waited EXCEPT ![p] = 0] ELSE waited

\* AckTimeoutError: the command or its ack is late, or lost.
AckTimeout ==
    /\ InTick /\ op.await # NoRun /\ ~op.raises /\ Resolve("lost")
    /\ spent.losses < limit.losses /\ spent' = [spent EXCEPT !.losses = @ + 1]
    /\ UNCHANGED <<limit, reuse, pending, clusterVars, direct, history>>

\* The submission raises, whatever its command does in the room.
SubmitError ==
    /\ InTick /\ op.await # NoRun /\ op.raises /\ Resolve("error")
    /\ spent' = [spent EXCEPT !.raised = @ \cup {op.await}]
    /\ UNCHANGED <<limit, reuse, pending, clusterVars, direct, history>>

\* The future of a submission that is going to raise is never looked at.
Awaits(r) == InTick /\ op.await = r /\ ~op.raises

\* An ack is routed: it registers its run, and resolves the call that awaits it (an
\* earlier attempt's ack too, the command id being the same).
AckArrives(a) ==
    /\ a \in acks /\ acks' = acks \ {a}
    /\ registry' = [registry EXCEPT ![SimOf[a.run]] =
            IF @.run # a.run THEN [run |-> a.run, st |-> a.st]
            ELSE IF @.st = "" THEN [@ EXCEPT !.st = a.st] ELSE @]
    /\ IF Awaits(a.run) THEN Resolve(a.out) ELSE UNCHANGED <<disk, op, waited>>
    /\ direct' = IF a.run \in Direct /\ direct[a.run] = "waiting"
                 THEN [direct EXCEPT ![a.run] = IF a.out = "accepted" THEN "acked" ELSE "over"]
                 ELSE direct
    /\ UNCHANGED <<limit, reuse, pending, wire, cmd, job, shown, history, spent>>

\* Mutant: a finished job is offered before its results are there.
OfferableFinished(c, s) ==
    /\ op.observed[s] \in {"results_ready", "job_finished"}
    /\ \E p \in DOMAIN c.leaf : c.leaf[p].sim = s
    /\ LET p == LastPath(c, s) IN ~c.leaf[p].reused /\ op.before[p] # "done"

\* A leaf that this tick saw reach its results.
Offerable(c, s) ==
    /\ op.observed[s] = "results_ready"
    /\ \E p \in DOMAIN c.leaf : c.leaf[p].sim = s
    /\ LET p == LastPath(c, s) IN ~c.leaf[p].reused /\ op.before[p] # "done"

\* _record_reuse: under the leaf's own command id.
RecordReuse(c) ==
    [k \in ReuseKeys |->
        LET hits == {s \in Sims : Offerable(c, s) /\ ReuseKey(LastPath(c, s)) = k}
        IN IF hits = {} THEN reuse[k]
           ELSE Reuse!Done(k[1], LastPath(c, CHOOSE s \in hits : TRUE))]

\* The end of a tick: the rest of the steps, the reuse records and the last save.
TickEnd ==
    /\ InTick /\ op.await = NoRun /\ NextSubmission > Len(op.steps)
    /\ reuse' = RecordReuse(Skipped) /\ Save(Skipped) /\ op' = Idle
    /\ UNCHANGED <<limit, pending, waited, clusterVars, direct, history, spent>>

-----------------------------------------------------------------------------
(* The other operations of AgendaService, each under the lock. *)

Locked == op = Idle
Agent(tool) == /\ tool \in limit.tools /\ spent.ops < limit.ops
               /\ spent' = [spent EXCEPT !.ops = @ + 1]
OnlyFile == UNCHANGED <<limit, reuse, pending, op, waited, clusterVars, direct>>
NoTwins(paths) == \A p, q \in paths : SpecAt[p].sim = SpecAt[q].sim => p = q

\* create_campaign: refused over an existing one and for identical leaves.
CreateCampaign ==
    /\ Locked /\ Agent("create") /\ disk = NoCampaign /\ NoTwins(Range(limit.seed))
    /\ Save(Campaign(limit.seed)) /\ said' = NothingSaid /\ asked' = NoStop
    /\ told' = [p \in Paths |-> ""]
    /\ OnlyFile

\* add_leaf: a new name under the root; its payload is not compared with the others'.
AddLeaf(p) ==
    /\ Locked /\ Agent("add") /\ disk # NoCampaign
    /\ p \in limit.extra /\ p \notin DOMAIN disk.leaf
    /\ Save([disk EXCEPT !.order = Append(@, p),
                         !.leaf = [q \in DOMAIN @ \cup {p} |-> IF q = p THEN NewLeaf ELSE @[q]]])
    /\ said' = [said EXCEPT !.added = @ \cup {p}]
    /\ UNCHANGED <<told, asked>> /\ OnlyFile

\* approve.
Approve(p) ==
    /\ Locked /\ Agent("approve") /\ p \in DOMAIN disk.leaf
    /\ Save([disk EXCEPT !.leaf[p].approved = TRUE])
    /\ said' = [said EXCEPT !.approved = @ \cup {p}]
    /\ UNCHANGED <<told, asked>> /\ OnlyFile

\* Mutant: the note is written without waiting for the operation that holds the lock.
RecordAnalysisUnlocked(p) ==
    /\ Agent("record") /\ p \in DOMAIN disk.leaf
    /\ Save([disk EXCEPT !.analysed = @ \cup {p}])
    /\ said' = [said EXCEPT !.analysed = @ \cup {p}]
    /\ UNCHANGED <<told, asked>> /\ OnlyFile

\* record_analysis and record_conclusion.
RecordAnalysis(p) ==
    /\ Locked /\ Agent("record") /\ p \in DOMAIN disk.leaf
    /\ Save([disk EXCEPT !.analysed = @ \cup {p}])
    /\ said' = [said EXCEPT !.analysed = @ \cup {p}]
    /\ UNCHANGED <<told, asked>> /\ OnlyFile

RecordConclusion ==
    /\ Locked /\ Agent("record") /\ disk # NoCampaign
    /\ Save([disk EXCEPT !.concluded = TRUE])
    /\ UNCHANGED history /\ OnlyFile

\* set_state: any state may follow any other.
SetState(s) ==
    /\ Locked /\ Agent("set_state") /\ disk # NoCampaign
    /\ Save([disk EXCEPT !.state = s]) /\ said' = [said EXCEPT !.state = s]
    /\ asked' = NoStop /\ UNCHANGED told /\ OnlyFile

\* The kind of the last callback of a leaf, if there is one.
LastWord(callbacks, p, otherwise) ==
    LET mine == {i \in DOMAIN callbacks : callbacks[i].path = p}
    IN IF mine = {} THEN otherwise ELSE callbacks[Max(mine)].kind

\* take_callbacks: cleared on disk, then handed over.
TakeCallbacks ==
    /\ Locked /\ Agent("take") /\ disk # NoCampaign /\ disk.callbacks # <<>>
    /\ Save([disk EXCEPT !.callbacks = <<>>])
    /\ told' = [p \in Paths |-> LastWord(disk.callbacks, p, told[p])]
    /\ UNCHANGED <<said, asked>> /\ OnlyFile

\* Mutant: only a leaf that is shown in flight may have one.
MayBeLiveInFlight(l) == l.status \in InFlight /\ l.sim # NoSim

\* A leaf that may have a live job, as far as its record tells.
MayBeLive(l) == l.status \notin Ended /\ l.sim # NoSim

\* delete_campaign: refused while a leaf may be live, unless forced.
DeleteCampaign(force) ==
    /\ Locked /\ Agent("delete") /\ disk # NoCampaign
    /\ force \/ \A p \in DOMAIN disk.leaf : ~MayBeLive(disk.leaf[p])
    /\ disk' = NoCampaign /\ reuse' = [k \in ReuseKeys |-> Reuse!NoRecord]
    /\ said' = NothingSaid /\ asked' = NoStop /\ UNCHANGED told
    /\ UNCHANGED <<limit, pending, op, waited, clusterVars, direct>>

\* stop: the state is saved first; the leaves to cancel are taken from the file.
StopStart ==
    /\ Locked /\ Agent("stop") /\ disk # NoCampaign
    /\ Save([disk EXCEPT !.state = "stopped"]) /\ said' = [said EXCEPT !.state = "stopped"]
    /\ LET sims == {disk.leaf[p].sim : p \in {q \in DOMAIN disk.leaf : MayBeLive(disk.leaf[q])}}
       IN op' = [kind |-> "stop", left |-> sims, asked |-> sims]
    /\ UNCHANGED <<limit, reuse, pending, waited, clusterVars, direct, told, asked>>

\* Mutant: a cancel that was not confirmed is asked again.
StopNextRetries ==
    /\ op.kind = "stop"
    /\ \E s \in op.left : \E r \in Runs : SimOf[r] = s /\ job[r] \in Live
            /\ job' = [job EXCEPT ![r] = "cancelled"] /\ op' = [op EXCEPT !.left = @ \ {s}]
    /\ UNCHANGED <<limit, fileVars, waited, wire, acks, cmd, shown, registry, direct, history,
                   spent>>

\* One control request: a live job is cancelled, or the answer is an error or says
\* there is nothing to cancel.
StopNext ==
    /\ op.kind = "stop"
    /\ \E s \in op.left :
         /\ op' = [op EXCEPT !.left = @ \ {s}]
         /\ \/ UNCHANGED job
            \/ \E r \in Runs : SimOf[r] = s /\ job[r] \in Live
                               /\ job' = [job EXCEPT ![r] = "cancelled"]
    /\ UNCHANGED <<limit, fileVars, waited, wire, acks, cmd, shown, registry, direct, history,
                   spent>>

StopEnd ==
    /\ op.kind = "stop" /\ op.left = {}
    /\ op' = Idle /\ asked' = op.asked
    /\ UNCHANGED <<limit, fileVars, waited, clusterVars, direct, said, told, spent>>

\* The server dies and a new one starts: the files stay; the pending runs are read
\* back, and the replayed results.ready events promote theirs.  (Nothing is lost when
\* an idle server dies.)
Crash ==
    /\ op # Idle \/ pending # {} \/ \E d \in Direct : direct[d] \in {"waiting", "acked"}
    /\ spent.crashes < limit.crashes /\ spent' = [spent EXCEPT !.crashes = @ + 1]
    /\ op' = Idle
    /\ direct' = [d \in Direct |-> IF direct[d] = "none" THEN "none" ELSE "over"]
    /\ LET waiting == UNION {Reuse!Candidates(reuse[k]) : k \in {j \in ReuseKeys : reuse[j].st = "pending"}}
           ready   == {r \in waiting : shown[r] = "ready"}
       IN /\ reuse' = Reuse!Promote(reuse, ready)
          /\ pending' = waiting \ ready
    /\ UNCHANGED <<limit, disk, waited, clusterVars, history>>

-----------------------------------------------------------------------------
Tick == TickStart \/ RunSteps \/ AckTimeout \/ SubmitError \/ TickEnd
Stop == StopStart \/ StopNext \/ StopEnd
Next ==
    \/ Tick \/ Stop \/ Crash \/ Elapse \/ TakeCallbacks \/ CreateCampaign \/ RecordConclusion
    \/ \E a \in acks : AckArrives(a)
    \/ \E r \in Runs : Receive(r) \/ Progress(r) \/ ClientDies(r) \/ Report(r)
    \/ \E d \in Direct : DirectSubmit(d) \/ DirectTimeout(d) \/ RememberDirect(d)
    \/ \E p \in Paths : AddLeaf(p) \/ Approve(p) \/ RecordAnalysis(p)
    \/ \E s \in {"running", "paused", "stopped"} : SetState(s)
    \/ \E force \in BOOLEAN : DeleteCampaign(force)

Spec == Init /\ [][Next]_vars

\* The agent keeps calling advance_agenda, time passes, and each await ends: by the
\* answer, or, within the bound on losses, by its timeout.
FairSpec ==
    /\ Spec /\ WF_vars(Tick) /\ WF_vars(Stop) /\ WF_vars(Elapse)
    /\ WF_vars(\E r \in Runs : Receive(r)) /\ WF_vars(\E k \in acks : AckArrives(k))

-----------------------------------------------------------------------------
(* Properties. *)

\* The shape of the files, of the operation in progress and of the cluster.
TypeOK ==
    /\ disk = NoCampaign \/
       (/\ Range(disk.order) = DOMAIN disk.leaf /\ disk.state \in {"running", "paused", "stopped"}
        /\ \A p \in DOMAIN disk.leaf : disk.leaf[p].status \in Statuses
                                       /\ disk.leaf[p].run \in Runs \cup {NoRun})
    /\ op.kind \in {"idle", "tick", "stop"} /\ pending \subseteq Runs
    /\ wire \subseteq Runs /\ waited \in [Paths -> 0 .. Window]
    /\ \A k \in ReuseKeys : reuse[k].st \in {"none", "pending", "done"}

\* What a leaf costs the campaign: its actual cost once it is known, or what was reserved.
Cost(l) == IF l.reused THEN 0 ELSE IF l.actCore = Unset THEN l.estCore ELSE l.actCore

\* The cost of all the leaves.
CostOf(c) ==
    LET cost[n \in 0 .. Len(c.order)] == IF n = 0 THEN 0 ELSE cost[n - 1] + Cost(c.leaf[c.order[n]])
    IN cost[Len(c.order)]

\* The submissions that were accepted.
Counted(c) == {p \in DOMAIN c.leaf : ~c.leaf[p].reused /\ c.leaf[p].run = p}

\* The usage on disk is what the accepted and the ended leaves cost, each counted once,
\* whatever was retried, deferred or interrupted (_do_submit, _reconcile_actuals).
UsageIsSum ==
    disk # NoCampaign =>
        disk.usage.jobs = Cardinality(Counted(disk)) /\ disk.usage.core = CostOf(disk)

\* The submissions counted never exceed the cap on jobs (check_admission).
JobsWithinCap ==
    disk # NoCampaign /\ "jobs" \in DOMAIN limit.budget => disk.usage.jobs <= limit.budget.jobs

\* A leaf that is done or failed on disk has its callback on disk, or it was drained:
\* no crash loses a decision point (tick saves the fold "together with its callbacks").
DecisionNotLost ==
    disk # NoCampaign =>
        \A p \in DOMAIN disk.leaf :
            disk.leaf[p].status \in Ended =>
                LastWord(disk.callbacks, p, told[p]) = disk.leaf[p].status

\* What a tool acknowledged stays in the file: no tick in progress overwrites it, least
\* of all a stop (AgendaService._lock).
UpdatesSurvive ==
    disk # NoCampaign =>
        /\ disk.state = said.state
        /\ said.added \subseteq DOMAIN disk.leaf /\ said.analysed \subseteq disk.analysed
        /\ \A p \in said.approved : disk.leaf[p].approved

\* Nothing is submitted for a campaign that is paused or stopped.
HeldUnlessRunning == [][\A p \in Paths : p \in wire' \ wire => disk.state = "running"]_vars

\* A leaf is submitted only when a run of each of its dependencies has really finished.
DependenciesReallyDone ==
    [][\A p \in Paths : p \in wire' \ wire =>
          \A dep \in SpecAt[p].deps :
              LET group == ResolveDependency(op.c.leaf, p, dep)
              IN group # {} /\ \A q \in group :
                    \E r \in Runs : SimOf[r] = SpecAt[q].sim /\ job[r] \in {"finished", "ready"}]_vars

\* A leaf is done only if some run of its simulation really finished, also when it was
\* satisfied by reuse.
DoneIsReal ==
    disk # NoCampaign =>
        \A p \in DOMAIN disk.leaf : disk.leaf[p].status = "done" =>
            \E r \in Runs : SimOf[r] = SpecAt[p].sim /\ job[r] \in {"finished", "ready"}

\* A leaf is failed only if a run of its simulation was refused, failed or was
\* cancelled, a dependency failed, the window passed without an outcome, or its submission
\* raised, and then it says so: a lost ack alone never fails it (_classify_submit,
\* _record_deferral).  When its submission raised its run may still go on, because the
\* command may be in the room (_submit_one: "any other submission failure is terminal
\* immediately").
FailureHasCause ==
    disk # NoCampaign =>
        \A p \in DOMAIN disk.leaf : disk.leaf[p].status = "failed" =>
            \/ disk.leaf[p].why = "dependency"
            \/ disk.leaf[p].why = "outcome_unknown" /\ waited[p] = Window
            \/ disk.leaf[p].why = "error" /\ p \in spent.raised
            \/ \E r \in Runs : SimOf[r] = SpecAt[p].sim
                               /\ (cmd[r] = "refused" \/ job[r] \in {"failed", "cancelled"})

\* A reusable record is about a simulation some run of which has its results on disk
\* ("records only runs that finished successfully", agenda/reuse.py).
ReusableHasResults ==
    \A k \in ReuseKeys : reuse[k].st = "done" =>
        \E r \in Runs : SimOf[r] = k[1] /\ job[r] = "ready"

\* What a tick reports is what it saved: every leaf is in one bucket, and in done,
\* failed or submitted only if it is that on disk; only a deferral that was given up is
\* in two, deferred and failed (TickResult, _run_steps).
ReportMatchesFile ==
    [][InTick /\ TickEnd =>
          LET report == Reported(op.result)
              In(p) == {b \in DOMAIN report : p \in report[b]}
          IN \A p \in DOMAIN disk'.leaf :
                LET now == disk'.leaf[p].status
                IN /\ Cardinality(In(p) \ {"deferred"}) <= 1 /\ In(p) # {}
                   /\ \A b \in {"done", "failed"} : b \in In(p) <=> now = b
                   /\ "submitted" \in In(p) => now = "submitted"
                   /\ "deferred" \in In(p) => now = "planned" \/ "failed" \in In(p)]_vars

\* A deferred leaf does not stay deferred: it is accepted, observed, or given up, as
\* long as the campaign runs (_record_deferral: "cannot defer forever").
DeferralEnds ==
    \A p \in Paths :
        disk # NoCampaign /\ p \in DOMAIN disk.leaf /\ disk.leaf[p].deferred
                /\ disk.leaf[p].status = "planned"
            ~> \/ disk.state # "running" \/ p \notin DOMAIN disk.leaf
               \/ disk.leaf[p].status # "planned" \/ ~disk.leaf[p].deferred

\* No operation keeps the lock for ever.
LockReleased == op # Idle ~> op = Idle

\* When stop_agenda returns it has asked to cancel every live job it can know of: the job
\* of a leaf that has not ended and whose record names the simulation, also while that leaf
\* is still planned because the client did not know the outcome of its first submission
\* ("leaving it out would orphan a job that may well be running", AgendaService.stop).
StopReachesEveryJob ==
    [][op.kind = "stop" /\ asked' # asked =>
         \A p \in DOMAIN disk.leaf :
             job[p] \in Live /\ disk.leaf[p].sim # NoSim /\ disk.leaf[p].status \notin Ended
                 => SpecAt[p].sim \in asked']_vars

\* The campaign is well formed and its budget kept: every cost counted once, and no more
\* jobs than allowed.
BudgetKept == TypeOK /\ UsageIsSum /\ JobsWithinCap

\* What the files claim of a simulation, done, failed or reusable, is true of its runs.
ClaimsAreReal == DoneIsReal /\ FailureHasCause /\ ReusableHasResults

\* A submission leaves the server only for a running campaign and only after what it
\* depends on.
SubmitsOnlyReady == HeldUnlessRunning /\ DependenciesReallyDone

\* The agenda goes on: deferrals are resolved and the lock is released, also after a
\* simclient died with its record pending.
AgendaGoesOn == DeferralEnds /\ LockReleased
=============================================================================
