----------------------------- MODULE MCWaitTool -----------------------------
(* Small instances of WaitTool for TLC. *)
EXTENDS WaitTool, TLC

MCSims == ("r1" :> "s1") @@ ("r2" :> "s1") @@ ("r3" :> "s2")

Stamp(form, n) == [form |-> form, n |-> n]
Known4 == {Stamp("number", ClientTimer)}
NotKnown == {Stamp("absent", 0), Stamp("malformed", 0), Stamp("number", 0)}

Limit(rs, callers, stamps, seconds, resent, events) ==
    [runs |-> rs, callers |-> callers, stamps |-> stamps, clock |-> seconds,
     again |-> resent, events |-> events]

\* One run to its end; two runs of one simulation under a wait; two waits on one run;
\* a budget that is not known; a command sent again under a wait, and between two runs;
\* a wait as long as the client's; two simulations.
MCLimits ==
    {Limit({"r1"}, {}, Known4, 4, 0, 7), Limit({"r1", "r2"}, {"c1"}, Known4, 4, 0, 2),
     Limit({"r1"}, {"c1", "c2"}, Known4, 4, 0, 2), Limit({"r1"}, {"c1"}, NotKnown, 5, 0, 2),
     Limit({"r1"}, {"c1"}, Known4, 4, 1, 4), Limit({"r1", "r2"}, {}, Known4, 2, 1, 2),
     Limit({"r1"}, {"c1"}, Known4, 6, 0, 1), Limit({"r1", "r3"}, {}, Known4, 1, 0, 4)}
=============================================================================
