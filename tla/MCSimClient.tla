----------------------------- MODULE MCSimClient -----------------------------
(* Small instances of SimClient for TLC. *)
EXTENDS SimClient, TLC

Cmd(i, k, h) == [id |-> i, kind |-> k, hash |-> h]

First    == Cmd("c1", "submit", "h1")   \* a submission
Twin     == Cmd("c2", "submit", "h1")   \* the same simulation under a new id
Third    == Cmd("c3", "submit", "h1")   \* and under another one
Changed  == Cmd("c1", "submit", "h2")   \* another payload under the first id
Greeting == Cmd("c4", "hello", "h2")    \* a hello

MCCommands == {First, Twin, Third, Changed, Greeting}

Scenario(r, crash, shutdown, disk, raise) ==
    [room |-> r,
     faults |-> [crash |-> crash, shutdown |-> shutdown, disk |-> disk, raise |-> raise]]

\* Retries with another payload, or a resubmission beside them, and a kill; three
\* resubmissions, one more than the store remembers; a failing disk and every other fault; a
\* build beside a hello, and both kinds of end.
SafetyScenarios ==
    {Scenario(<<First, First, First, Changed>>, 1, 0, 0, 1),
     Scenario(<<First, First, Twin>>, 1, 0, 0, 1),
     Scenario(<<First, Twin, Third>>, 0, 0, 0, 0),
     Scenario(<<First, First>>, 1, 1, 2, 1),
     Scenario(<<First, Greeting, Greeting>>, 1, 1, 0, 1)}

\* Two builds, or a build and a hello, and a shutdown.
LiveScenarios ==
    {Scenario(<<First, Twin>>, 0, 1, 0, 0),
     Scenario(<<First, Greeting, Greeting>>, 0, 1, 0, 0)}

TaskSymmetry == Permutations(Tasks)
=============================================================================
