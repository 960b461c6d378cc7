---------------------------- MODULE CommandLedger ----------------------------
(***************************************************************************)
(* What the idempotency of the simclient promises a server that retries:   *)
(* one ledger entry per command id, opened once, decided once, and answers *)
(* that are never ahead of it or against it.  Nothing of processes, tasks, *)
(* files or redeliveries appears here.                                     *)
(*                                                                         *)
(* The promise holds as long as the memory behind it is sound: once a      *)
(* write was lost, or more commands came than are remembered, nothing is   *)
(* promised any more.                                                      *)
(***************************************************************************)
CONSTANT Ids

VARIABLES
    ledger,   \* what has become of each command id
    answers,  \* the answers given, each about a command id
    sound     \* the memory lost nothing so far

vars == <<ledger, answers, sound>>

Outcomes == {"finished", "failed"}

Init == ledger = [c \in Ids |-> "new"] /\ answers = {} /\ sound \in BOOLEAN

\* A command is taken on.
Open(c) ==
    /\ ledger[c] = "new" /\ ledger' = [ledger EXCEPT ![c] = "pending"]
    /\ UNCHANGED answers

\* It gets its outcome; a command may be refused without having been taken on.
Decide(c, outcome) ==
    /\ ledger[c] = "pending" \/ (ledger[c] = "new" /\ outcome = "failed")
    /\ ledger' = [ledger EXCEPT ![c] = outcome]
    /\ UNCHANGED answers

\* What may be said of a command: that it is taken on, that its outcome is not known, or
\* that it clashes with another payload, once there is an entry; an outcome, once it is
\* this one.
Answer(c, says) ==
    /\ ledger[c] # "new" /\ says \in Outcomes => ledger[c] = says
    /\ answers' = answers \cup {[id |-> c, st |-> says]}
    /\ UNCHANGED ledger

Next ==
    \/ /\ sound /\ sound'
       /\ \E c \in Ids : \/ Open(c)
                         \/ \E outcome \in Outcomes : Decide(c, outcome)
                         \/ \E says \in Outcomes \cup {"accepted", "unknown", "conflict"} : Answer(c, says)
    \/ ~sound'

Spec == Init /\ [][Next]_vars
=============================================================================
