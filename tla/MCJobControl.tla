---------------------------- MODULE MCJobControl ----------------------------
(* Small instances of JobControl for TLC: two submissions of one simulation, and one of
   another. *)
EXTENDS JobControl

MCRuns == {1, 2, 3}
MCSimOf == [r \in MCRuns |-> IF r = 3 THEN "t" ELSE "s"]
Old == {"status", "control", "logs", "cancel", "stop"}
MCFeatures == [v0 |-> Old, v1 |-> Old \cup {"result", "png", "checkpoint"}]

Limit(runsOf, asked, pulled, copied, faults, fail, report, on) ==
    [runs |-> runsOf, asks |-> asked, pulls |-> pulled, copies |-> copied, hellos |-> faults[1],
     crashes |-> faults[2], repeats |-> faults[3], reboots |-> faults[4], faults |-> fail,
     events |-> report, enabled |-> on,
     versions |-> IF faults[1] = 0 THEN {"v1"} ELSE {"v0", "v1"}]

Cancel == <<"control", "cancel", FALSE>>
Checkpoint == <<"control", "checkpoint", FALSE>>
Png == <<"result", "png", TRUE>>
Status == <<"status", "", FALSE>>

\* A cancel that is redelivered, comes in a second envelope, or is read again after a
\* restart; one between two runs, with a restart; two status requests; the handshake with
\* clients of two versions; logs and requests of the human room; a client without a submit
\* handler; a server that dies; a !stop of two simulations; a cancel between two runs that
\* comes in a second envelope.
L1 == Limit({1}, {Cancel}, 1, 1, <<0, 1, 1, 0>>, 1, 0, TRUE)
L2 == Limit({1, 2}, {Cancel}, 1, 0, <<0, 1, 0, 0>>, 0, 0, TRUE)
L3 == Limit({1}, {Status}, 2, 0, <<0, 0, 1, 0>>, 1, 2, TRUE)
L4 == Limit({}, {Checkpoint}, 1, 0, <<1, 1, 0, 1>>, 0, 0, TRUE)
L5 == Limit({1}, {<<"logs", "", FALSE>>, <<"result", "png", FALSE>>, Png, <<"control", "stop", FALSE>>}, 1, 0, <<0, 1, 0, 0>>, 1, 0, TRUE)
L6 == Limit({1}, {Cancel}, 1, 1, <<0, 0, 0, 0>>, 0, 0, FALSE)
L7 == Limit({1}, {Checkpoint}, 1, 0, <<0, 0, 0, 1>>, 0, 1, TRUE)
L8 == Limit({1}, {<<"control", "cancel", TRUE>>}, 1, 0, <<0, 0, 0, 1>>, 0, 1, TRUE)
L9 == Limit({1, 2}, {Cancel}, 1, 1, <<0, 0, 0, 0>>, 0, 0, TRUE)
MCLimits == {L1, L2, L3, L4, L5, L6, L7, L8, L9}
=============================================================================
