--------------------------- MODULE MCSubmitService ---------------------------
(* Small instances of SubmitService for TLC. *)
EXTENDS SubmitService, TLC

\* Two runs of one simulation, and one of another.
MCSims == ("r1" :> "s1") @@ ("r2" :> "s1") @@ ("r3" :> "s2")

Limit(rs, seconds, again, restarted, messages) ==
    [runs |-> rs, clock |-> seconds, retries |-> again, restarts |-> restarted,
     room |-> messages]

\* Two runs that overlap, with a retry; one run to its end, with a retry and a
\* restart; two simulations and a restart.
SafetyLimits ==
    {Limit({"r1", "r2"}, 2, 1, 0, 4), Limit({"r1"}, 2, 1, 1, 7),
     Limit({"r1", "r3"}, 1, 0, 1, 4)}
=============================================================================
