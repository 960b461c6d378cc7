------------------------------- MODULE Study -------------------------------
(***************************************************************************)
(* How a parameter study is set up and steered: a campaign seeded from one *)
(* base spec and a patch path (AgendaService.create_campaign), expanded by *)
(* a sweep, leaves added to it, analyses recorded, and the refinement the  *)
(* server suggests from them (agenda/refine.py), which the agent follows   *)
(* by adding the suggested leaves.                                         *)
(*                                                                         *)
(* A spec is a function from the path of each of its nodes to what is      *)
(* there; list items are named by their position.  Coordinates and scores  *)
(* are integers scaled so that the tenths the refinement takes are exact.  *)
(***************************************************************************)
EXTENDS Integers, Sequences, FiniteSets, SequencesExt

CONSTANTS
    Index,      \* what int() makes of the segments that spell a list index
    BaseSpec,   \* the base spec
    Setups,     \* patch paths and value lists the campaign may be created with
    Sweeps,     \* value lists a group may be expanded with
    Spellings,  \* what repr() and the escaping of a name make of a sweep value
    Broken,     \* the values that make a spec unsubmittable, and why
    Measure(_, _), \* the score a simulation of an objective has at a coordinate
    Objectives, \* the objectives studied
    Extra,      \* values the agent adds unasked
    Names,      \* names the agent gives to added leaves
    Rounds,     \* bound: summaries asked for
    MaxLeaves   \* bound: leaves of the campaign

ASSUME StudyAssumption ==
    /\ Index \in [DOMAIN Index -> Int] /\ {Rounds, MaxLeaves} \subseteq Nat
    /\ <<>> \in DOMAIN BaseSpec /\ BaseSpec[<<>>].kind = "dict"

VARIABLES
    objective,  \* what the study measures (external)
    exists,     \* a campaign file exists
    leaves,     \* the root group of its agenda: leaves in the order they were added
    analyses,   \* the analysis recorded for each leaf, by position
    asked,      \* the last summary, with the samples it was made from
    rounds

vars == <<objective, exists, leaves, analyses, asked, rounds>>

Containers == {"dict", "list"}
\* A node: a number, or a container, a string, a boolean or a JSON value put in whole.
Num(n) == [kind |-> "num", n |-> n]
Other(k) == [kind |-> k, n |-> 0]
NoPoint == Other("none")
Fail == <<"fail">>

Init ==
    /\ objective \in Objectives /\ exists = FALSE /\ leaves = <<>> /\ analyses = <<>>
    /\ rounds = 0
    /\ asked = [samples |-> <<>>, best |-> 0, converged |-> FALSE, suggestions |-> <<>>]

-----------------------------------------------------------------------------
(* Specs and patch paths. *)

Length(spec, at) == Cardinality({q \in DOMAIN spec : Len(q) = Len(at) + 1 /\ IsPrefix(at, q)})

\* The node a segment addresses: a dict by its key, a list by the integer the segment
\* spells, from the end when it is negative.  The node need not exist.
Child(spec, at, part) ==
    IF at = Fail \/ at \notin DOMAIN spec THEN Fail
    ELSE CASE spec[at].kind = "dict" -> Append(at, part)
           [] spec[at].kind = "list" /\ part \in DOMAIN Index ->
                LET n == Length(spec, at)
                    i == IF Index[part] < 0 THEN Index[part] + n ELSE Index[part]
                IN IF i \in 0..(n - 1) THEN Append(at, ToString(i)) ELSE Fail
           [] OTHER -> Fail

\* _patch_child: an intermediate node must be an object or a list.
PatchChild(spec, at, part) ==
    LET next == Child(spec, at, part)
    IN IF next \in DOMAIN spec /\ spec[next].kind \in Containers THEN next ELSE Fail

Parent(spec, path) == FoldLeft(LAMBDA at, part : PatchChild(spec, at, part), <<>>, Front(path))

\* Mutant: a dict takes any key as its last segment.
LeafTargetLoose(spec, path) ==
    Child(spec, Parent(spec, path), Last(path)) # Fail

\* _leaf_target_exists: the last segment addresses a field that is there.
LeafTargetExists(spec, path) ==
    Child(spec, Parent(spec, path), Last(path)) \in DOMAIN spec

\* _patch_spec: a copy with the node set to the value; a key that is not there is made.
PatchSpec(spec, path, value) ==
    LET target == Child(spec, Parent(spec, path), Last(path))
        kept   == {q \in DOMAIN spec : ~IsPrefix(target, q)}
    IN IF target = Fail THEN Fail
       ELSE [q \in kept \cup {target} |-> IF q = target THEN value ELSE spec[q]]

\* sweep_parameter_for: the path without its list positions.
SweepParameterFor(spec, path) ==
    FoldLeft(LAMBDA acc, part :
                LET list == acc.at \in DOMAIN spec /\ spec[acc.at].kind = "list" /\ part \in DOMAIN Index
                IN [at   |-> Child(spec, acc.at, part),
                    kept |-> IF list THEN acc.kept ELSE Append(acc.kept, part)],
             [at |-> <<>>, kept |-> <<>>], path).kept

\* The wire form of a spec: its "sim" part.
Wire(spec) == [q \in {r \in DOMAIN spec : r # <<>> /\ Head(r) = "sim"} |-> spec[q]]

\* Mutant: a whole spec is not checked against the inline limit.
ValidateNoSize(spec, patched) ==
    LET holds(why) == \E q \in DOMAIN spec : spec[q] \in Broken[why]
    IN CASE holds("unsupported") \/ holds("schema") -> "invalid_campaign_spec"
         [] patched /\ holds("inconsistent") -> "invalid_campaign_spec"
         [] OTHER -> ""

\* _validate_leaf_spec: the checks of a submission; the derived invariants are checked only
\* for a patched spec.
ValidateLeafSpec(spec, patched) ==
    LET holds(why) == \E q \in DOMAIN spec : spec[q] \in Broken[why]
    IN CASE holds("unsupported") \/ holds("schema") -> "invalid_campaign_spec"
         [] patched /\ holds("inconsistent") -> "invalid_campaign_spec"
         [] holds("big") -> "spec_exceeds_inline_limit"
         [] OTHER -> ""

\* Mutant: a point of any JSON value.
PointForAny(value) == value

\* _point_for: numbers and strings only.
PointFor(value) == IF value.kind \in {"num", "str"} THEN value ELSE NoPoint

Leaf(from, name, spec, point, param) ==
    [from |-> from, name |-> name, spec |-> spec, point |-> point, param |-> param]
Named(ls) == {ls[i].name : i \in DOMAIN ls}

-----------------------------------------------------------------------------
(* The tools that make and grow a campaign. *)

Seeded(path, values) ==
    [i \in DOMAIN values |->
        Leaf("seed", "leaf" \o ToString(i - 1), PatchSpec(BaseSpec, path, values[i]), PointFor(values[i]),
             SweepParameterFor(BaseSpec, path))]

\* _seed_campaign: the soft error it answers with, in the order of the code.
SeedError(path, values) ==
    IF ~LeafTargetExists(BaseSpec, path) THEN "invalid_campaign"
    ELSE LET seeded == Seeded(path, values)
             bad    == {i \in DOMAIN seeded : ValidateLeafSpec(seeded[i].spec, TRUE) # ""}
         IN CASE bad # {} -> ValidateLeafSpec(seeded[CHOOSE i \in bad : \A j \in bad : i <= j].spec, TRUE)
              [] \E i, j \in DOMAIN seeded : i < j /\ Wire(seeded[i].spec) = Wire(seeded[j].spec)
                   -> "duplicate_campaign_spec"
              [] OTHER -> ""

Save(ls) ==
    leaves' = ls /\ analyses' = [i \in DOMAIN ls |-> IF i \in DOMAIN analyses THEN analyses[i] ELSE "none"]

\* create_campaign, with a base spec or without one.  A soft error writes nothing.  A path of
\* <<>> is none: an empty campaign, unless values are given.
CreateCampaign(path, values, based) ==
    /\ ~exists
    /\ LET error == CASE path = <<>> -> IF values # <<>> THEN "invalid_campaign" ELSE ""
                      [] path # <<>> /\ ~based -> "invalid_campaign"
                      [] path # <<>> /\ based /\ values = <<>> -> "no_values"
                      [] OTHER -> SeedError(path, values)
       IN IF error # "" THEN UNCHANGED <<exists, leaves, analyses>>
          ELSE exists' = TRUE /\ Save(IF path = <<>> THEN <<>> ELSE Seeded(path, values))
    /\ UNCHANGED <<objective, asked, rounds>>

\* Mutant: only the names that were there before are compared.
ExpandOver(values) ==
    /\ exists /\ Len(leaves) + Len(values) <= MaxLeaves
    /\ LET new(i) == Leaf("sweep", "scan__" \o Spellings[values[i]],
                          PatchSpec(BaseSpec, <<"sim", "steps">>, values[i]), values[i], <<"steps">>)
       IN IF {new(i).name : i \in DOMAIN values} \cap Named(leaves) # {} THEN UNCHANGED <<leaves, analyses>>
          ELSE Save(leaves \o [i \in DOMAIN values |-> new(i)])
    /\ UNCHANGED <<objective, exists, asked, rounds>>

\* AgendaGroup.expand: one leaf per value, or none when a name is taken.
Expand(values) ==
    /\ exists /\ Len(leaves) + Len(values) <= MaxLeaves
    /\ LET new(i) == Leaf("sweep", "scan__" \o Spellings[values[i]], PatchSpec(BaseSpec, <<"sim", "steps">>, values[i]),
                          values[i], <<"steps">>)
           names  == {new(i).name : i \in DOMAIN values}
       IN IF values = <<>> \/ Cardinality(names) < Len(values) \/ names \cap Named(leaves) # {}
          THEN UNCHANGED <<leaves, analyses>>
          ELSE Save(leaves \o [i \in DOMAIN values |-> new(i)])
    /\ UNCHANGED <<objective, exists, asked, rounds>>

\* add_leaf: a name that is taken is refused first, then a spec that cannot be submitted,
\* then a name or a dependency list the model does not accept.
AddLeaf(name, spec, point, legal) ==
    /\ exists /\ Len(leaves) < MaxLeaves
    /\ LET error == IF name \in Named(leaves) THEN "duplicate_leaf"
                    ELSE IF ValidateLeafSpec(spec, FALSE) # "" THEN ValidateLeafSpec(spec, FALSE)
                    ELSE IF ~legal THEN "invalid_leaf" ELSE ""
       IN IF error # "" THEN UNCHANGED <<leaves, analyses>>
          ELSE Save(Append(leaves, Leaf("added", name, spec, point, <<>>)))
    /\ UNCHANGED <<objective, exists, asked, rounds>>

-----------------------------------------------------------------------------
(* Analyses and refinement. *)

\* The value a leaf was simulated at, which its point may not tell.
Simulated(leaf) == leaf.spec[<<"sim", "steps">>].n

\* record_analysis with a score, or with an analysis no score can be read from.
RecordAnalysis(i, ranked) ==
    /\ analyses[i] = "none" /\ leaves[i].spec[<<"sim", "steps">>].kind = "num"
    /\ analyses' = [analyses EXCEPT ![i] = IF ranked THEN "scored" ELSE "unranked"]
    /\ UNCHANGED <<objective, exists, leaves, asked, rounds>>

\* _analysed_points with _leaf_coordinates: the score of a leaf is what its analysis says,
\* never its point; leaves without one are left out.
Samples ==
    LET used == SelectSeq([i \in DOMAIN leaves |-> i], LAMBDA i : analyses[i] = "scored")
    IN [k \in DOMAIN used |-> [leaf  |-> used[k], score |-> Measure(objective, Simulated(leaves[used[k]])),
                               placed |-> leaves[used[k]].point.kind = "num",
                               coord |-> leaves[used[k]].point.n]]

Abs(n) == IF n < 0 THEN -n ELSE n
Tenth(n) == n \div 10
First(s, Better(_, _)) ==
    CHOOSE i \in DOMAIN s : \A j \in DOMAIN s : ~Better(s[j], s[i]) /\ (j < i => Better(s[i], s[j]))
Higher(a, b) == a.score > b.score

\* best_point: the first of the highest.
BestPoint(s) == IF s = <<>> THEN 0 ELSE First(s, Higher)

\* The samples form a positional frame: each has a coordinate.
Framed(s) == s # <<>> /\ \A i \in DOMAIN s : s[i].placed
Coords(s) == {s[i].coord : i \in DOMAIN s}
\* _ordered_samples, when they do.
Ordered(s) == SetToSortSeq(DOMAIN s, LAMBDA i, j : s[i].coord < s[j].coord \/ (s[i].coord = s[j].coord /\ i < j))

\* Mutant: the last sample is never seen as the edge.
ImprovingLowEdge(s) ==
    IF ~Framed(s) \/ Len(s) < 2 \/ Cardinality(Coords(s)) # Len(s) THEN 0
    ELSE LET order == Ordered(s)
             along == [k \in DOMAIN order |-> s[order[k]]]
         IN IF First(along, Higher) = 1 /\ along[1].score > along[2].score THEN -1 ELSE 0

\* _improving_edge: the best sample is the first or the last, and higher than its neighbour.
ImprovingEdge(s) ==
    IF ~Framed(s) \/ Len(s) < 2 \/ Cardinality(Coords(s)) # Len(s) THEN 0
    ELSE LET order == Ordered(s)
             along == [k \in DOMAIN order |-> s[order[k]]]
             best  == First(along, Higher)
             n     == Len(s)
         IN CASE best = 1 /\ along[1].score > along[2].score -> -1
              [] best = n /\ along[n].score > along[n - 1].score -> 1
              [] OTHER -> 0

OrOwn(step, own) == IF step = 0 THEN Tenth(Abs(own)) ELSE step
MinOf(S) == CHOOSE m \in S : \A n \in S : m <= n
MaxOf(S) == CHOOSE m \in S : \A n \in S : m >= n

\* _edge_step: a tenth of the tested range.
EdgeStep(s) == OrOwn(Tenth(MaxOf(Coords(s)) - MinOf(Coords(s))), MaxOf(Coords(s)))

\* Mutant: the step is the whole gap.
InteriorWhole(s, best) ==
    LET gaps == {Abs(s[i].coord - s[best].coord) : i \in DOMAIN s \ {best}}
    IN IF gaps = {} THEN Abs(s[best].coord) ELSE MinOf(gaps)

\* _interior_step: a tenth of the gap to the nearest sample.
InteriorStep(s, best) ==
    LET gaps == {Abs(s[i].coord - s[best].coord) : i \in DOMAIN s \ {best}}
    IN OrOwn(Tenth(IF gaps = {} THEN Abs(s[best].coord) ELSE MinOf(gaps)), s[best].coord)

\* The step when positions are unknown: a tenth of the gap between the two best scores.
ScoreStep(s, best) ==
    LET others == {s[i].score : i \in DOMAIN s \ {best}}
    IN OrOwn(Tenth(IF others = {} THEN Abs(s[best].score) ELSE Abs(s[best].score - MaxOf(others))),
             s[best].score)

\* refine_around, for the two suggestions a summary asks for: both sides of the best
\* sample, or twice beyond an improving edge; what is not positive is dropped.
RefineAround(s) ==
    LET best == BestPoint(s)
        edge == ImprovingEdge(s)
        step == CASE ~Framed(s) -> ScoreStep(s, best)
                  [] edge # 0 -> EdgeStep(s)
                  [] OTHER -> InteriorStep(s, best)
        base == IF Framed(s) THEN s[best].coord ELSE s[best].score
        at   == IF edge # 0 THEN <<base + edge * step, base + 2 * edge * step>>
                ELSE <<base + step, base - step>>
    IN IF step = 0 THEN <<>> ELSE SelectSeq(at, LAMBDA v : v > 0)

\* is_converged: the two best scores agree within a twentieth, and not at an improving edge.
IsConverged(s) ==
    /\ Len(s) >= 2
    /\ LET best   == BestPoint(s)
           second == MaxOf({s[i].score : i \in DOMAIN s \ {best}})
           scale  == IF s[best].score = 0 THEN 1 ELSE Abs(s[best].score)
       IN 20 * (s[best].score - second) <= scale
    /\ ImprovingEdge(s) = 0

\* suggest_refinement: the summary of the recorded analyses.
SuggestRefinement ==
    /\ exists /\ rounds < Rounds /\ rounds' = rounds + 1
    /\ LET s == Samples IN
       /\ \A i \in DOMAIN s : s[i].coord % 10 = 0 /\ s[i].score % 10 = 0  \* bound: exact tenths
       /\ asked' = [samples |-> s, best |-> BestPoint(s), converged |-> IsConverged(s),
                    suggestions |-> IF s = <<>> \/ IsConverged(s) THEN <<>> ELSE RefineAround(s)]
    /\ UNCHANGED <<objective, exists, leaves, analyses>>

\* What the agent adds: the suggested points, or others of its own.
Wanted == {Num(asked.suggestions[i]) : i \in DOMAIN asked.suggestions} \cup Extra

Next ==
    \/ \E setup \in Setups, based \in BOOLEAN : CreateCampaign(setup[1], setup[2], based)
    \/ \E values \in Sweeps : Expand(values)
    \/ \E name \in Names, v \in Wanted, pointed, legal \in BOOLEAN :
         AddLeaf(name, PatchSpec(BaseSpec, <<"sim", "steps">>, v), IF pointed THEN v ELSE NoPoint, legal)
    \/ \E i \in DOMAIN leaves, ranked \in BOOLEAN : RecordAnalysis(i, ranked)
    \/ SuggestRefinement

Spec == Init /\ [][Next]_vars

-----------------------------------------------------------------------------

\* The shape of the campaign and of the last summary.
TypeOK ==
    /\ objective \in Objectives /\ exists \in BOOLEAN /\ rounds \in 0..Rounds
    /\ Len(leaves) <= MaxLeaves /\ analyses \in [DOMAIN leaves -> {"none", "scored", "unranked"}]
    /\ \A i \in DOMAIN leaves : /\ <<"sim">> \in DOMAIN leaves[i].spec
                                /\ leaves[i].point.kind \in {"num", "str", "none"}
    /\ asked.converged \in BOOLEAN /\ asked.best \in 0..Len(asked.samples)

\* A patch path changes the field it names and nothing else: every seeded leaf is the base
\* spec with one existing node replaced, the same for all, so a mistyped path adds no field
\* the Runner would ignore.
PatchesOneField ==
    \E target \in DOMAIN BaseSpec :
        \A i \in DOMAIN leaves : leaves[i].from = "seed" =>
            /\ DOMAIN leaves[i].spec \subseteq DOMAIN BaseSpec
            /\ \A q \in DOMAIN BaseSpec : ~IsPrefix(target, q) =>
                    q \in DOMAIN leaves[i].spec /\ leaves[i].spec[q] = BaseSpec[q]

\* "a campaign that could never be submitted is refused at creation time": no leaf a tool
\* made is unsupported, off the schema or too big, and the seeded ones differ on the wire.
Submittable ==
    \A i \in DOMAIN leaves :
        /\ leaves[i].from # "sweep" =>
              \A q \in DOMAIN leaves[i].spec :
                  leaves[i].spec[q] \notin Broken["unsupported"] \cup Broken["schema"] \cup Broken["big"]
        /\ leaves[i].from = "seed" =>
              \A j \in DOMAIN leaves \ {i} :
                  leaves[j].from = "seed" => Wire(leaves[i].spec) # Wire(leaves[j].spec)

\* Leaves are known by their names (dependencies, analyses, reports): whatever mix of
\* seeds, sweeps and additions made them, no two share one.
NamesUnique == Cardinality(Named(leaves)) = Len(leaves)

OneBest(s) == \A i, j \in DOMAIN s : i # j /\ s[i].score = s[j].score => s[i].score < s[BestPoint(s)].score
Axis(s) == Framed(s) /\ Cardinality(Coords(s)) = Len(s)
\* The points were the values simulated, and the scores rise along them.
Rises(s) == \A i, j \in DOMAIN s : s[i].coord < s[j].coord => s[i].score < s[j].score

\* "a monotone sweep whose best point sits at the edge of the tested range" is not taken
\* for a converged one, however flat it is: the summary stays open and every suggestion
\* lies beyond the tested range, over any number of rounds.
RisingSweepStaysOpen ==
    LET s == asked.samples IN
    Axis(s) /\ Len(s) >= 2 /\ Rises(s) =>
        /\ ~asked.converged /\ asked.suggestions # <<>>
        /\ \A k \in DOMAIN asked.suggestions : asked.suggestions[k] > MaxOf(Coords(s))

\* A suggestion is a point not yet sampled, next to the best one: no other sample lies
\* between them, so refining never asks for a run the campaign has.
SuggestionsAreNew ==
    LET s == asked.samples IN
    Axis(s) /\ OneBest(s) =>
        \A k \in DOMAIN asked.suggestions, i \in DOMAIN s :
            LET v == asked.suggestions[k]
                b == s[asked.best].coord
            IN s[i].coord # v /\ ~(v < s[i].coord /\ s[i].coord < b) /\ ~(b < s[i].coord /\ s[i].coord < v)

\* The tools build only campaigns that can run: patched where the path says, submittable,
\* and with leaves that can be told apart.
CampaignsAreSound == TypeOK /\ PatchesOneField /\ Submittable /\ NamesUnique
============================================================================
