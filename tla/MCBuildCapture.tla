---------------------------- MODULE MCBuildCapture ----------------------------
(* A small instance of BuildCapture for TLC. *)
EXTENDS BuildCapture

Build(lines, ok) == [name |-> "build", lines |-> lines, ok |-> ok, stays |-> FALSE]
Submit(lines, ok, stays) == [name |-> "submit", lines |-> lines, ok |-> ok, stays |-> stays]

BuildFails == <<Build(<<"marker", "marker">>, FALSE)>>
BuildFailsShort == <<Build(<<"marker">>, FALSE)>>
SubmitFails == <<Build(<<>>, TRUE), Submit(<<"noise">>, FALSE, FALSE)>>
LeavesProcess == <<Build(<<"noise">>, TRUE), Submit(<<>>, TRUE, TRUE)>>
FailsAndLeavesProcess == <<Build(<<>>, TRUE), Submit(<<"noise">>, FALSE, TRUE)>>

\* One run with all its output, and two at a time, in two threads or one after the other.
MCPlans ==
    {<<a, b>> : a \in {BuildFails, LeavesProcess, FailsAndLeavesProcess}, b \in {<<>>}}
    \cup {<<BuildFailsShort, SubmitFails>>, <<SubmitFails, <<Submit(<<>>, TRUE, TRUE)>> >>}
==============================================================================
