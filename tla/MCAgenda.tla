------------------------------ MODULE MCAgenda ------------------------------
(* Small instances of Agenda for TLC. *)
EXTENDS Agenda

a == <<"a">>
b == <<"b">>
c1 == <<"g", "c">>
e == <<"e">>
d1 == <<"direct", "1">>
d2 == <<"direct", "2">>

MCPaths == {a, b, c1, e}
Leaf(sim, point, deps, core, gpu, gated) ==
    [sim |-> sim, point |-> point, deps |-> deps, core |-> core, gpu |-> gpu,
     isGpu |-> gpu > 0, partition |-> IF gpu > 0 THEN "gpu" ELSE "cpu", gated |-> gated]

\* a has no point, like a direct submission; b waits for a, the grouped leaf for
\* nobody; e is expensive, must be approved and waits for a group.
MCSpecAt ==
    (a :> Leaf("sa", "", {}, 2, 0, FALSE)) @@ (b :> Leaf("sb", "x=1", {"a"}, 1, 1, FALSE)) @@
    (c1 :> Leaf("sc", "x=2", {}, 3, 0, FALSE)) @@ (e :> Leaf("se", "", {"g"}, 1, 0, TRUE))
MCDirect == {d1, d2}
MCEmpty == {d2}
MCDirectSim == (d1 :> "sa") @@ (d2 :> "sa")
\* The accounting of the grouped leaf's job cannot be read.
MCActual == [r \in {a, b, e, d1, d2} |-> [core |-> 1, gpu |-> 2]]

Limit(leaves, more, calls, caps, gates, perTick, faults, calledTools, toolCalls) ==
    [seed |-> leaves, extra |-> more, direct |-> calls, budget |-> caps, policy |-> gates,
     submits |-> perTick, losses |-> faults[1], deaths |-> faults[2], crashes |-> faults[3],
     raises |-> IF Len(faults) = 4 THEN faults[4] ELSE 0,
     tools |-> {"create"} \cup calledTools, ops |-> toolCalls]
None == <<>>

\* One leaf with every fault; a dependency under caps; pauses and stops; the other tools
\* of the campaign; a direct submission of a leaf's simulation; a group, a gate and
\* add_leaf; two direct submissions and no campaign; a cap on the number of jobs; an error
\* of the send, alone and of one of two leaves.
L1 == Limit(<<a>>, {}, {}, None, None, 8, <<3, 1, 1>>, {}, 1)
L2 == Limit(<<a, b>>, {}, {}, [jobs |-> 2, core |-> 3], None, 8, <<1, 0, 0>>, {}, 1)
L3 == Limit(<<a>>, {}, {}, None, None, 8, <<1, 0, 1>>, {"set_state", "stop"}, 3)
L4 == Limit(<<a>>, {}, {}, None, None, 8, <<1, 0, 0>>, {"record", "delete", "take"}, 3)
L5 == Limit(<<a>>, {}, {d1}, None, None, 8, <<0, 0, 0>>, {}, 1)
L6 == Limit(<<c1>>, {e}, {}, [jobs |-> 2, running |-> 1, partitions |-> {"cpu"}], [over |-> 2],
            1, <<0, 0, 0>>, {"add", "approve"}, 4)
L7 == Limit(<<a>>, {}, {d1, d2}, None, None, 8, <<0, 0, 1>>, {}, 0)
L8 == Limit(<<a, c1>>, {}, {}, [jobs |-> 1], None, 8, <<1, 0, 0>>, {"take"}, 2)
L9 == Limit(<<a>>, {}, {}, None, None, 8, <<1, 1, 1, 1>>, {"stop"}, 2)
L10 == Limit(<<a, b>>, {}, {}, None, None, 8, <<0, 0, 0, 1>>, {}, 1)
MCLimits == {L1, L2, L3, L4, L5, L6, L7, L8, L9, L10}
LiveLimits == {Limit(<<a>>, {}, {}, None, None, 8, <<1, 0, 0, 1>>, {}, 1),
               Limit(<<a>>, {}, {}, None, None, 8, <<2, 1, 0>>, {}, 1), L6,
               Limit(<<a>>, {}, {}, None, None, 8, <<1, 0, 1>>, {"stop"}, 2)}
=============================================================================
