------------------------------- MODULE Planner -------------------------------
(***************************************************************************)
(* The pure decisions of the agenda (agenda/planner.py, agenda/budget.py   *)
(* and the plan half of agenda/engine.py): what each leaf of a campaign    *)
(* should do next, given the statuses on disk, the states observed in the  *)
(* server's registry, the budget and what was already spent.               *)
(*                                                                         *)
(* An agenda is the sequence of its leaf paths in walk order, with one     *)
(* AgendaSim record per path; a group is the set of leaves below it.       *)
(***************************************************************************)
EXTENDS Integers, Sequences, FiniteSets, SequencesExt, Functions

CONSTANTS
    Paths,    \* the paths a leaf may have: sequences of entry names
    SpecAt,   \* what the leaf at a path is: see SpecType
    NoSim,    \* a leaf without sim_id
    NoRun     \* a leaf without run_id

\* The wire payload (it decides the sim_id), the sweep point, depends_on, the
\* resource request, and requires_approval.
SpecType == [sim : STRING, point : STRING, deps : SUBSET STRING, core : Nat, gpu : Nat,
             isGpu : BOOLEAN, partition : STRING, gated : BOOLEAN]
ASSUME SpecAssumption == SpecAt \in [Paths -> SpecType]

\* SIMULATION_STATE_STATUS: the coarse status of an observed state.
StatusOf ==
    [accepted |-> "submitted", submitted |-> "submitted",
     job_running |-> "running", workflow_finished |-> "running",
     results_ready |-> "done", job_finished |-> "done",
     job_failed |-> "failed", failed |-> "failed", cancelled |-> "failed"]

Ended == {"done", "failed"}
InFlight == {"submitted", "running"}     \* _RUNNING_STATUSES
Statuses == {"planned"} \cup InFlight \cup Ended

Unset == -1   \* an actual cost that is not known

\* AgendaSim, fresh.  deferred stands for deferred_since; why for error, error_code
\* and stage; est and act are the reserved and the reported hours.
NewLeaf == [status |-> "planned", sim |-> NoSim, run |-> NoRun, reused |-> FALSE,
            approved |-> FALSE, deferred |-> FALSE, why |-> "", suspect |-> FALSE,
            estCore |-> 0, estGpu |-> 0, isGpu |-> FALSE, actCore |-> Unset, actGpu |-> Unset]

NoUsage == [core |-> 0, gpu |-> 0, jobs |-> 0, running |-> 0]

-----------------------------------------------------------------------------
\* Mutant: the observed state itself becomes the status.
ApplyStatesRaw(leaf, states) ==
    [p \in DOMAIN leaf |-> IF p \in DOMAIN states THEN [leaf[p] EXCEPT !.status = states[p]] ELSE leaf[p]]

\* apply_states: leaves without a recognised state keep their status.
ApplyStates(leaf, states) ==
    [p \in DOMAIN leaf |->
        IF p \in DOMAIN states /\ states[p] \in DOMAIN StatusOf
        THEN [leaf[p] EXCEPT !.status = StatusOf[states[p]]] ELSE leaf[p]]

\* The leaves at or below an entry.
Subtree(leaf, entry) == {p \in DOMAIN leaf : IsPrefix(entry, p)}

\* _resolve_dependency: a sibling (or a sibling group) before an entry of the root;
\* the empty set if there is neither.  (A name has no "/", validate_entry_name, so it is
\* its own last segment and a full path only of a root entry; and every group a tool
\* makes has a leaf.)
ResolveDependency(leaf, p, dep) ==
    LET sibling == Subtree(leaf, Append(Front(p), dep))
    IN IF sibling # {} THEN sibling ELSE Subtree(leaf, <<dep>>)

\* check_admission: every cap that is set (a field of budget) is inclusive.
CheckAdmission(budget, usage, request) ==
    /\ "jobs" \in DOMAIN budget => usage.jobs + 1 <= budget.jobs
    /\ "running" \in DOMAIN budget => usage.running + 1 <= budget.running
    /\ "core" \in DOMAIN budget => usage.core + request.core <= budget.core
    /\ "gpu" \in DOMAIN budget /\ request.isGpu => usage.gpu + request.gpu <= budget.gpu
    /\ "partitions" \in DOMAIN budget => request.partition \in budget.partitions

\* account: one admitted submission.
Account(usage, request) ==
    [usage EXCEPT !.core = @ + request.core, !.jobs = @ + 1,
                  !.gpu = @ + IF request.isGpu THEN request.gpu ELSE 0]

\* reconcile: a leaf's estimate is replaced by its actual cost.  (Called with a known one
\* only: both costs come with a report or neither, _accounting_fields.)
Reconcile(usage, l, actual) ==
    LET core == usage.core + actual.core - l.estCore
        gpu  == IF l.isGpu THEN usage.gpu + actual.gpu - l.estGpu ELSE usage.gpu
    IN [usage EXCEPT !.core = IF core < 0 THEN 0 ELSE core, !.gpu = IF gpu < 0 THEN 0 ELSE gpu]

\* simulations: those of a walk that are in S, in walk order.
Kept(walk, S) ==
    LET kept[n \in Nat] == IF n = 0 THEN <<>>
                           ELSE IF walk[n] \in S THEN Append(kept[n - 1], walk[n]) ELSE kept[n - 1]
    IN kept[Len(walk)]

Running(leaf) == Cardinality({p \in DOMAIN leaf : leaf[p].status \in InFlight})

-----------------------------------------------------------------------------
Step(p, action, why) == [path |-> p, action |-> action, why |-> why]

\* Mutant: a dependency counts as met unless it failed.
PlanLeafEager(leaf, p, budget, usage) ==
    LET groups == {ResolveDependency(leaf, p, d) : d \in SpecAt[p].deps}
    IN CASE leaf[p].status \in Ended -> Step(p, leaf[p].status, "")
         [] leaf[p].status \in InFlight -> Step(p, "wait", "in_flight")
         [] OTHER -> IF \E g \in groups : \E q \in g : leaf[q].status = "failed"
                     THEN Step(p, "failed", "dependency") ELSE Step(p, "submit", "")

\* Mutant: the caps are not consulted.
PlanLeafUncapped(leaf, p, budget, usage) ==
    LET groups == {ResolveDependency(leaf, p, d) : d \in SpecAt[p].deps}
    IN CASE leaf[p].status \in Ended -> Step(p, leaf[p].status, "")
         [] leaf[p].status \in InFlight -> Step(p, "wait", "in_flight")
         [] OTHER -> IF \E g \in groups : \E q \in g : leaf[q].status = "failed" THEN Step(p, "failed", "dependency")
                     ELSE IF \E g \in groups : g = {} \/ \E q \in g : leaf[q].status # "done"
                          THEN Step(p, "wait", "dependency") ELSE Step(p, "submit", "")

\* _plan_leaf: a failed dependency is final, one that is unresolved or not done holds
\* the leaf, and so does the budget.
PlanLeaf(leaf, p, budget, usage) ==
    LET groups  == {ResolveDependency(leaf, p, d) : d \in SpecAt[p].deps}
        blocked == \E g \in groups : \E q \in g : leaf[q].status = "failed"
        unmet   == \E g \in groups : g = {} \/ \E q \in g : leaf[q].status # "done"
    IN CASE leaf[p].status \in Ended -> Step(p, leaf[p].status, "")
         [] leaf[p].status \in InFlight -> Step(p, "wait", "in_flight")
         [] OTHER -> IF blocked THEN Step(p, "failed", "dependency")
                     ELSE IF unmet THEN Step(p, "wait", "dependency")
                     ELSE IF CheckAdmission(budget, usage, SpecAt[p]) THEN Step(p, "submit", "")
                     ELSE Step(p, "wait", "budget")

\* next_actions: one step per leaf in walk order; a planned submission counts against
\* the caps of the leaves after it.
NextActions(order, leaf, budget, usage) ==
    LET planned[n \in 0 .. Len(order)] ==   \* the usage after the first n leaves
            IF n = 0 THEN [usage EXCEPT !.running = Running(leaf)]
            ELSE LET before == planned[n - 1]
                 IN IF PlanLeaf(leaf, order[n], budget, before).action # "submit" THEN before
                    ELSE [Account(before, SpecAt[order[n]]) EXCEPT !.running = @ + 1]
    IN [n \in DOMAIN order |-> PlanLeaf(leaf, order[n], budget, planned[n - 1])]

\* _reject_duplicate_specs: a leaf about to be submitted shares its wire payload with
\* another one about to be, or with one that has a sim_id.
Collides(leaf, steps) ==
    LET submits == {steps[i].path : i \in {j \in DOMAIN steps : steps[j].action = "submit"}}
        known   == {p \in DOMAIN leaf : leaf[p].sim # NoSim}
    IN \E p \in submits : \E q \in (submits \cup known) \ {p} : SpecAt[p].sim = SpecAt[q].sim
=============================================================================
