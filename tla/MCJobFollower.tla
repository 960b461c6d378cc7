---------------------------- MODULE MCJobFollower ----------------------------
(* Small instances of JobFollower for TLC. *)
EXTENDS JobFollower

\* Two lines in one bucket of 25, and completion.
ThreePercents == {30, 40, 100}

\* The ends the client parses, and one that it does not.
SlurmEnds == ParsedEnds \cup {"OUT_OF_MEMORY"}
=============================================================================
