--------------------------- MODULE WaitToolProofs ---------------------------
(***************************************************************************)
(* Proofs about WaitTool, for any runs, callers, timers and limits: a wait *)
(* never sleeps on what it waits for, it is answered before the client's   *)
(* timer goes off, and what the tools say of a run is true of it.          *)
(*                                                                         *)
(* None of the three is inductive.  The wakeup needs to know that a poll   *)
(* is never further away than one interval; the race against the client    *)
(* that no call is later than Lag; both need the messages under way to be  *)
(* ones the projection stores as states (WaitInv).  The alerts need every  *)
(* message, stored or under way, to be one its run has reached (ViewInv).  *)
(* The condensed events are a matter of data: the rows are shown, event by *)
(* event, to list the ends of the stretches in order.                      *)
(***************************************************************************)
EXTENDS WaitTool, FiniteSetTheorems, SequenceTheorems, WellFoundedInduction, TLAPS

Waits(c) == call[c].pc \in {"loop", "asleep"}

\* A call, once made, is about a simulation.
CallShape ==
    [pc : {"idle", "loop", "asleep", "done"}, sim : Sims \cup {Idle.sim}, turn : Nat,
     targets : SUBSET States, started : Nat, deadline : Nat, until : Nat,
     verdict : {"none", "refused", "matched", "ended", "timed_out", "aborted"}]
CallsShaped ==
    /\ call \in [Callers -> CallShape]
    /\ \A c \in Callers : Waits(c) \/ call[c].verdict = "ended" => call[c].sim \in Sims

LifeStates == States \cup {"none", "rejected", "queued", "unlinked"}
LifeShape == [st : LifeStates, job : BOOLEAN, reason : Reasons, events : Nat, lost : BOOLEAN]

\* Only an ack has an unknown outcome, and a pending reason is that of a job.
Storable(m) ==
    m \in Message /\ (m.kind = "event" => m.st \in States) /\ (m.reason # "none" => m.job = TRUE)

\* So is the pending reason a record has, which no record has before a state.
Sound(rec) ==
    rec \in SimRecord /\ (rec.reason # "none" => rec.job = TRUE /\ rec.st # "")

RunsShaped ==
    /\ life \in [Runs -> LifeShape]
    /\ \A r \in Runs : wire[r] # NoMessage => Storable(wire[r])
    /\ \A m \in acks : Storable(m)
    /\ \A s \in Sims : Sound(registry[s])

\* An await is never set further ahead than one poll interval.
PollsAhead == \A c \in Callers : call[c].pc = "asleep" => call[c].until <= now + Poll

\* A call that waits has asked for no more than the client's budget less the skew, and
\* is run at most Lag after its deadline.
OnTime ==
    \A c \in Callers : Waits(c) =>
        /\ BudgetKnown => call[c].deadline + Skew <= call[c].started + ClientTimer
        /\ now <= call[c].deadline + Lag

\* A record changes hands in one direction: a verdict is never about a later turn.
TurnsBehind ==
    \A c \in Callers : call[c].verdict = "ended" => call[c].turn <= registry[call[c].sim].turn

WaitInv ==
    /\ TypeOK /\ CallsShaped /\ RunsShaped /\ PollsAhead /\ OnTime /\ TurnsBehind
    /\ WaitersAreTheCalls /\ NoLostWakeup /\ ServerAnswersFirst /\ EndedIsFinal

-----------------------------------------------------------------------------
(* The operators. *)

\* Timers are positive numbers.
LEMMA Timers ==
  /\ MinTimeout \in Nat /\ MaxTimeout \in Nat /\ Poll \in Nat /\ Skew \in Nat /\ Lag \in Nat
  /\ ClientTimer \in Nat /\ Lag < Skew /\ Timeouts \subseteq Nat
  BY WaitAssumption

\* The next report of a run is one, and a state on the wire.
LEMMA LifecycleType ==
  ASSUME NEW l \in LifeShape, NEW n \in Lifecycle(l)
  PROVE  /\ n.st \in LifeStates /\ n.job \in BOOLEAN /\ n.reason \in Reasons
         /\ OnWire(n.st) \in States /\ (n.reason # "none" => n.job)
<1>1. \E st \in LifeStates \ {"none"}, job \in BOOLEAN, reason \in Reasons :
        n = Step(st, job, reason) /\ (reason # "none" => job)
  BY DEF Lifecycle, Step, LifeStates, States, Terminal, Reasons
<1>2. PICK st \in LifeStates \ {"none"}, job \in BOOLEAN, reason \in Reasons :
        n = Step(st, job, reason) /\ (reason # "none" => job)
  BY <1>1
<1>3. n.st = st /\ n.job = job /\ n.reason = reason
  BY <1>2 DEF Step
<1>4. OnWire(st) \in States
  BY DEF OnWire, LifeStates, States, Terminal
<1> QED
  BY <1>2, <1>3, <1>4

\* What becomes of the record a message is projected into.
After(rec0, m) ==
    LET rec == RecordFor(rec0, m)
    IN CASE m.kind = "event" -> IF Applies(rec, m) THEN ProjectEvent(rec, m) ELSE rec
         [] m.kind = "ack" -> IF m.run = rec.run THEN ProjectAck(rec, m) ELSE rec

\* The record a message is projected into is a fresh one or the one that was there.
LEMMA RecordForType ==
  ASSUME NEW rec, Sound(rec), NEW m, Storable(m)
  PROVE  /\ Sound(RecordFor(rec, m))
         /\ \/ RecordFor(rec, m) = rec
            \/ RecordFor(rec, m) = Fresh(m.run, rec.turn + 1)
<1>0. rec.turn \in Nat /\ m.run \in Runs
  BY DEF Sound, SimRecord, Storable, Message
<1>1. rec.turn + 1 \in Nat
  BY <1>0
<1>2. Sound(Fresh(m.run, rec.turn + 1))
  BY <1>0, <1>1 DEF Fresh, Sound, SimRecord, Reasons
<1> QED
  BY <1>2 DEF RecordFor

\* An event that applies is stored.
LEMMA ProjectEventType ==
  ASSUME NEW rec, Sound(rec), NEW m, Storable(m), m.kind = "event", now \in Nat
  PROVE  /\ Sound(ProjectEvent(rec, m))
         /\ ProjectEvent(rec, m).turn = rec.turn
<1> DEFINE job == rec.job \/ m.job
           exit == rec.exit \/ m.exit
           suspect == m.st = "results_ready" /\ m.suspect
           reason == IF m.st \in RunningOrLater THEN "none"
                     ELSE IF m.reason # "none" THEN m.reason ELSE rec.reason
           p == ProjectEvent(rec, m)
<1>1. /\ m.st \in States /\ m.job \in BOOLEAN /\ m.exit \in BOOLEAN /\ m.reason \in Reasons
      /\ m.suspect \in BOOLEAN /\ m.ts \in Nat
  BY DEF Storable, Message
<1>2. rec \in SimRecord /\ rec.job \in BOOLEAN /\ rec.exit \in BOOLEAN /\ rec.reason \in Reasons
  BY DEF Sound, SimRecord
<1>3. job \in BOOLEAN /\ exit \in BOOLEAN /\ suspect \in BOOLEAN
  OBVIOUS
<1>4. reason \in Reasons /\ (reason # "none" => job = TRUE)
  BY <1>1, <1>2 DEF Sound, Storable, Reasons
<1>5. p = [rec EXCEPT !.st = m.st, !.job = job, !.exit = exit, !.reason = reason,
                      !.suspect = suspect, !.ts = m.ts, !.seen = now, !.by = "event"]
  BY DEF ProjectEvent
<1> HIDE DEF job, exit, suspect, reason, p
<1>6. /\ p \in SimRecord /\ p.turn = rec.turn /\ p.reason = reason /\ p.job = job /\ p.st = m.st
  BY <1>1, <1>2, <1>3, <1>4, <1>5, ZenonT(60) DEF SimRecord
<1>7. m.st # ""
  BY <1>1 DEF States, Terminal
<1> QED
  BY <1>4, <1>6, <1>7 DEF Sound, p

\* An ack gives a state to a record that has none, and changes no other.
LEMMA ProjectAckType ==
  ASSUME NEW rec, Sound(rec), NEW m, Storable(m), m.kind = "ack", now \in Nat
  PROVE  /\ Sound(ProjectAck(rec, m))
         /\ ProjectAck(rec, m).turn = rec.turn
         /\ \/ /\ ProjectAck(rec, m).st = rec.st /\ ProjectAck(rec, m).by = rec.by
               /\ ProjectAck(rec, m).seen = rec.seen
            \/ /\ rec.st = "" /\ ProjectAck(rec, m).by = "ack"
               /\ ProjectAck(rec, m).seen = now
<1>1. /\ m.st \in States \cup {"unknown"} /\ m.job \in BOOLEAN /\ m.ts \in Nat
  BY DEF Storable, Message
<1>2. /\ rec \in SimRecord /\ rec.job \in BOOLEAN /\ rec.reason \in Reasons /\ rec.ts \in Nat
      /\ (rec.reason # "none" => rec.job = TRUE /\ rec.st # "")
  BY DEF Sound, SimRecord
<1> DEFINE stamped == [rec EXCEPT !.ts = IF rec.ts = 0 THEN m.ts ELSE rec.ts]
<1>3. /\ stamped \in SimRecord /\ stamped.job = rec.job /\ stamped.reason = rec.reason
      /\ stamped.st = rec.st /\ stamped.by = rec.by /\ stamped.seen = rec.seen
      /\ stamped.turn = rec.turn
  BY <1>1, <1>2 DEF SimRecord
<1>4. ProjectAck(rec, m) = IF m.st = "unknown" THEN stamped
                           ELSE IF rec.st # "" THEN [stamped EXCEPT !.job = stamped.job \/ m.job]
                           ELSE [stamped EXCEPT !.st = m.st, !.job = m.job, !.seen = now,
                                                !.by = "ack"]
  BY DEF ProjectAck
<1> HIDE DEF stamped
<1>5. CASE m.st = "unknown"
  BY <1>2, <1>3, <1>4, <1>5 DEF Sound
<1>6. CASE m.st # "unknown" /\ rec.st # ""
  <2> DEFINE job == stamped.job \/ m.job
  <2>1. job \in BOOLEAN /\ (rec.job = TRUE => job = TRUE)
    BY <1>3
  <2>2. ProjectAck(rec, m) = [stamped EXCEPT !.job = job]
    BY <1>4, <1>6
  <2> HIDE DEF job
  <2>3. /\ [stamped EXCEPT !.job = job] \in SimRecord
        /\ [stamped EXCEPT !.job = job].reason = rec.reason
        /\ [stamped EXCEPT !.job = job].job = job
        /\ [stamped EXCEPT !.job = job].st = rec.st
        /\ [stamped EXCEPT !.job = job].by = rec.by
        /\ [stamped EXCEPT !.job = job].seen = rec.seen
        /\ [stamped EXCEPT !.job = job].turn = rec.turn
    BY <1>3, <2>1 DEF SimRecord
  <2> QED
    BY <1>2, <2>1, <2>2, <2>3 DEF Sound
<1>7. CASE m.st # "unknown" /\ rec.st = ""
  BY <1>1, <1>2, <1>3, <1>4, <1>7, ZenonT(60) DEF Sound, SimRecord
<1> QED
  BY <1>5, <1>6, <1>7

\* A message of the run shown replaces nothing but by an event that applies, by the
\* first ack, or by a fresh record of another run; an end stays.
LEMMA AfterFacts ==
  ASSUME NEW rec, Sound(rec), NEW m, Storable(m), now \in Nat
  PROVE  /\ Sound(After(rec, m))
         /\ m.kind = "event" /\ ~Applies(RecordFor(rec, m), m) => After(rec, m) = rec
         /\ m.kind # "event" =>
              \/ /\ After(rec, m).st = rec.st /\ After(rec, m).by = rec.by
                 /\ After(rec, m).seen = rec.seen
              \/ After(rec, m).st = ""
              \/ After(rec, m).by = "ack" /\ After(rec, m).seen = now
         /\ After(rec, m).turn = rec.turn \/ After(rec, m).turn = rec.turn + 1
         /\ After(rec, m).turn = rec.turn /\ rec.st \in Terminal => After(rec, m).st = rec.st
<1> DEFINE to == RecordFor(rec, m)
<1>1. Sound(to) /\ (to = rec \/ to = Fresh(m.run, rec.turn + 1))
  BY RecordForType
<1>2. m.kind \in {"event", "ack"}
  BY DEF Storable, Message
<1>3. After(rec, m) = IF m.kind = "event" THEN IF Applies(to, m) THEN ProjectEvent(to, m) ELSE to
                      ELSE IF m.run = to.run THEN ProjectAck(to, m) ELSE to
  BY <1>2 DEF After
<1>4. to = Fresh(m.run, rec.turn + 1) =>
        to.st = "" /\ to.turn = rec.turn + 1 /\ to.run = m.run /\ Applies(to, m)
  <2> DEFINE f == Fresh(m.run, rec.turn + 1)
  <2>1. f.st = "" /\ f.turn = rec.turn + 1 /\ f.run = m.run
    BY DEF Fresh
  <2>2. "" \notin Terminal
    BY DEF Terminal
  <2> HIDE DEF f, to
  <2>3. Applies(f, m)
    BY <2>1, <2>2 DEF Applies
  <2> QED
    BY <2>1, <2>3 DEF f
<1>5. rec.turn \in Nat
  BY DEF Sound, SimRecord
<1>6. rec.turn + 1 # rec.turn
  BY <1>5
<1> HIDE DEF to
<1>7. CASE m.kind = "event"
  <2>1. Applies(to, m) => Sound(ProjectEvent(to, m)) /\ ProjectEvent(to, m).turn = to.turn
    BY <1>1, <1>7, ProjectEventType
  <2> QED
    BY <1>1, <1>3, <1>4, <1>6, <1>7, <2>1 DEF to, Applies
<1>8. CASE m.kind = "ack"
  <2>1. /\ Sound(ProjectAck(to, m)) /\ ProjectAck(to, m).turn = to.turn
        /\ \/ /\ ProjectAck(to, m).st = to.st /\ ProjectAck(to, m).by = to.by
              /\ ProjectAck(to, m).seen = to.seen
           \/ to.st = "" /\ ProjectAck(to, m).by = "ack" /\ ProjectAck(to, m).seen = now
    BY <1>1, <1>8, ProjectAckType
  <2>2. "" \notin Terminal
    BY DEF Terminal
  <2> QED
    BY <1>1, <1>3, <1>4, <1>6, <1>8, <2>1, <2>2
<1> QED
  BY <1>2, <1>7, <1>8
-----------------------------------------------------------------------------
(* Every step keeps the invariant. *)

(* The inductive invariant holds initially. *)
LEMMA InitOK == ASSUME Init PROVE WaitInv
<1> USE DEF Init
<1>1. limit \in Limits /\ stamp \in Stamps /\ now \in Nat /\ again \in Nat
  BY WaitAssumption
<1>2. wire \in [Runs -> Message \cup {NoMessage}] /\ acks \in SUBSET Message /\ log \in Seq(Message)
  OBVIOUS
<1>3. Sound(Fresh(NoRun, 0))
  BY DEF Sound, Fresh, SimRecord, Reasons
<1>4. registry \in [Sims -> SimRecord] /\ \A s \in Sims : Sound(registry[s])
  BY <1>3 DEF Sound
<1>5. Idle \in CallShape /\ Idle.pc = "idle" /\ Idle.verdict = "none"
  BY DEF Idle, CallShape, States
<1>6. \A c \in Callers : call[c] = Idle
  OBVIOUS
<1>7. CallsShaped
  BY <1>5, <1>6 DEF CallsShaped, Waits
<1>8. TypeOK
  BY <1>1, <1>2, <1>4, <1>5, <1>6 DEF TypeOK
<1>9. RunsShaped
  <2>1. [st |-> "none", job |-> FALSE, reason |-> "none", events |-> 0, lost |-> FALSE] \in LifeShape
    BY DEF LifeShape, LifeStates, Reasons
  <2> QED
    BY <1>4, <2>1 DEF RunsShaped
<1> QED
  BY <1>5, <1>6, <1>7, <1>8, <1>9 DEF WaitInv, PollsAhead, OnTime, Waits, WaitersAreTheCalls,
     NoLostWakeup, ServerAnswersFirst, EndedIsFinal, TurnsBehind

\* What a run does touches neither the registry nor the calls.
LEMMA RunStep ==
  ASSUME WaitInv, RunsShaped', wire' \in [Runs -> Message \cup {NoMessage}],
         acks' \in SUBSET Message, again' \in Nat,
         UNCHANGED <<limit, stamp, now, registry, log, callVars>>
  PROVE  WaitInv'
  BY DEF WaitInv, TypeOK, CallsShaped, Waits, PollsAhead, OnTime, WaitersAreTheCalls, NoLostWakeup,
     ServerAnswersFirst, EndedIsFinal, TurnsBehind, BudgetKnown, callVars

(* A job posting its next lifecycle event keeps the invariant. *)
LEMMA PostStep ==
  ASSUME WaitInv, NEW r \in Runs, Post(r)
  PROVE  WaitInv'
<1>1. life[r] \in LifeShape /\ now \in Nat
  BY DEF WaitInv, TypeOK, RunsShaped
<1>2. PICK n \in Lifecycle(life[r]), empty \in BOOLEAN :
        /\ life' = [life EXCEPT ![r] = [st |-> n.st, job |-> n.job, reason |-> n.reason,
                                        events |-> life[r].events + 1, lost |-> FALSE]]
        /\ wire' = [wire EXCEPT ![r] =
                [kind |-> IF life[r].st = "none" THEN "ack" ELSE "event", run |-> r,
                 st |-> OnWire(n.st), job |-> n.job, reason |-> n.reason,
                 exit |-> n.st = "job_failed", suspect |-> empty, ts |-> now]]
  BY DEF Post
<1>3. /\ n.st \in LifeStates /\ n.job \in BOOLEAN /\ n.reason \in Reasons
      /\ OnWire(n.st) \in States /\ (n.reason # "none" => n.job)
  BY <1>1, LifecycleType
<1>4. life[r].events + 1 \in Nat
  <2>1. life[r].events \in Nat
    BY <1>1 DEF LifeShape
  <2> QED
    BY <2>1
<1>5. [st |-> n.st, job |-> n.job, reason |-> n.reason, events |-> life[r].events + 1,
       lost |-> FALSE] \in LifeShape
  BY <1>3, <1>4 DEF LifeShape
<1> DEFINE kind == IF life[r].st = "none" THEN "ack" ELSE "event"
           exit == n.st = "job_failed"
           m == [kind |-> kind, run |-> r, st |-> OnWire(n.st), job |-> n.job, reason |-> n.reason,
                 exit |-> exit, suspect |-> empty, ts |-> now]
<1>6. kind \in {"ack", "event"} /\ exit \in BOOLEAN
  OBVIOUS
<1>7. wire' = [wire EXCEPT ![r] = m]
  BY <1>2
<1> HIDE DEF kind, exit
<1>8. m \in Message
  BY <1>1, <1>3, <1>6 DEF Message
<1>9. Storable(m)
  BY <1>3, <1>8 DEF Storable
<1> HIDE DEF m
<1>10. /\ UNCHANGED <<limit, stamp, now, acks, again, registry, log, callVars>>
       /\ wire \in [Runs -> Message \cup {NoMessage}] /\ life \in [Runs -> LifeShape]
       /\ acks \in SUBSET Message /\ again \in Nat
  BY DEF Post, WaitInv, TypeOK, RunsShaped
<1>11. wire' \in [Runs -> Message \cup {NoMessage}]
  BY <1>7, <1>8, <1>10
<1>12. \A q \in Runs : wire'[q] # NoMessage => Storable(wire'[q])
  BY <1>7, <1>9, <1>10 DEF WaitInv, RunsShaped
<1>13. life' \in [Runs -> LifeShape]
  BY <1>2, <1>5, <1>10
<1>14. RunsShaped'
  BY <1>10, <1>12, <1>13 DEF WaitInv, RunsShaped, Storable, Sound
<1> QED
  BY <1>10, <1>11, <1>14, RunStep

(* A submission whose ack was lost keeps the invariant. *)
LEMMA SendLostStep ==
  ASSUME WaitInv, NEW r \in Runs, SendLost(r)
  PROVE  WaitInv'
<1>1. /\ UNCHANGED <<limit, stamp, now, acks, again, registry, log, callVars>>
      /\ wire \in [Runs -> Message \cup {NoMessage}] /\ life \in [Runs -> LifeShape]
      /\ acks \in SUBSET Message /\ again \in Nat
      /\ wire' = [wire EXCEPT ![r] = NoMessage] /\ life' = [life EXCEPT ![r].lost = TRUE]
  BY DEF SendLost, WaitInv, TypeOK, RunsShaped
<1>2. [life[r] EXCEPT !.lost = TRUE] \in LifeShape
  BY <1>1 DEF LifeShape
<1>3. life' \in [Runs -> LifeShape]
  BY <1>1, <1>2
<1>4. wire' \in [Runs -> Message \cup {NoMessage}]
  BY <1>1
<1>5. \A q \in Runs : wire'[q] # NoMessage => Storable(wire'[q])
  BY <1>1 DEF WaitInv, RunsShaped
<1>6. RunsShaped'
  BY <1>1, <1>3, <1>5 DEF WaitInv, RunsShaped, Storable, Sound
<1> QED
  BY <1>1, <1>4, <1>6, RunStep

(* A client acknowledging a command sent again keeps the invariant. *)
LEMMA AckAgainStep ==
  ASSUME WaitInv, NEW r \in Runs, AckAgain(r)
  PROVE  WaitInv'
<1> DEFINE st == IF Unsettled(r) THEN "unknown"
                 ELSE IF life[r].st \in {"failed", "rejected"} THEN "failed"
                 ELSE "workflow_finished"
           job == ~Unsettled(r) /\ life[r].job
           m == [kind |-> "ack", run |-> r, st |-> st, job |-> job, reason |-> "none",
                 exit |-> FALSE, suspect |-> FALSE, ts |-> now]
<1>1. /\ UNCHANGED <<limit, stamp, now, life, wire, registry, log, callVars>>
      /\ wire \in [Runs -> Message \cup {NoMessage}]
      /\ acks \in SUBSET Message /\ again \in Nat /\ now \in Nat
      /\ again' = again + 1 /\ acks' = acks \cup {m}
  BY DEF AckAgain, WaitInv, TypeOK
<1>2. st \in States \cup {"unknown"} /\ job \in BOOLEAN
  BY DEF States, Terminal
<1> HIDE DEF st, job
<1>3. m \in Message
  BY <1>1, <1>2 DEF Message, Reasons
<1>4. Storable(m)
  BY <1>3 DEF Storable
<1> HIDE DEF m
<1>5. again' \in Nat
  BY <1>1
<1>6. acks' \in SUBSET Message /\ \A x \in acks' : Storable(x)
  BY <1>1, <1>3, <1>4 DEF WaitInv, RunsShaped
<1>7. RunsShaped'
  BY <1>1, <1>6 DEF WaitInv, RunsShaped, Storable, Sound
<1> QED
  BY <1>1, <1>5, <1>6, <1>7, RunStep
\* A message is routed: a state that an event stores wakes every wait on it, one that
\* an ack stores is found at the next poll, and an end stays until the record changes
\* hands.
LEMMA ReceiveStep ==
  ASSUME WaitInv, NEW m, Storable(m), Receive(m),
         UNCHANGED <<limit, stamp, now, life, again, call, waiters>>,
         wire' \in [Runs -> Message \cup {NoMessage}], acks' \in SUBSET Message,
         \A r \in Runs : wire'[r] # NoMessage => Storable(wire'[r]),
         \A x \in acks' : Storable(x)
  PROVE  WaitInv'
<1> DEFINE s == SimIdOf[m.run]
           rec == registry[s]
           new == After(rec, m)
<1>1. m.run \in Runs /\ s \in Sims /\ m \in Message
  BY WaitAssumption DEF Storable, Message
<1>2. registry \in [Sims -> SimRecord] /\ now \in Nat /\ Sound(rec) /\ Poll \in Nat
  BY <1>1, Timers DEF WaitInv, TypeOK, RunsShaped
<1>3. /\ registry' = [registry EXCEPT ![s] = new]
      /\ log' = IF m.kind = "event" THEN Append(log, m) ELSE log
      /\ wakeups' = IF m.kind = "event" /\ Applies(RecordFor(rec, m), m)
                    THEN wakeups \cup waiters[s] ELSE wakeups
  BY DEF Receive, After, WakeWaiters
<1>4. /\ Sound(new)
      /\ m.kind = "event" /\ ~Applies(RecordFor(rec, m), m) => new = rec
      /\ m.kind # "event" =>
           \/ new.st = rec.st /\ new.by = rec.by /\ new.seen = rec.seen
           \/ new.st = ""
           \/ new.by = "ack" /\ new.seen = now
      /\ new.turn = rec.turn \/ new.turn = rec.turn + 1
      /\ new.turn = rec.turn /\ rec.st \in Terminal => new.st = rec.st
  BY <1>2, AfterFacts
<1> HIDE DEF new, s
<1>5. \A q \in Sims : registry'[q] = IF q = s THEN new ELSE registry[q]
  BY <1>1, <1>2, <1>3
<1>6. registry' \in [Sims -> SimRecord] /\ \A q \in Sims : Sound(registry'[q])
  BY <1>1, <1>2, <1>3, <1>4, <1>5 DEF WaitInv, RunsShaped, Sound
<1>7. wakeups \subseteq wakeups' /\ wakeups' \in SUBSET Callers
  BY <1>1, <1>3 DEF WaitInv, TypeOK
<1>8. log' \in Seq(Message)
  BY <1>1, <1>3 DEF WaitInv, TypeOK
<1>9. TypeOK'
  BY <1>6, <1>7, <1>8 DEF WaitInv, TypeOK
<1>10. CallsShaped' /\ PollsAhead' /\ OnTime' /\ WaitersAreTheCalls' /\ ServerAnswersFirst'
  BY DEF WaitInv, CallsShaped, PollsAhead, OnTime, Waits, WaitersAreTheCalls, ServerAnswersFirst,
     BudgetKnown
<1>11. RunsShaped'
  BY <1>6 DEF WaitInv, RunsShaped, Storable, Sound
<1>12. NoLostWakeup'
  <2> SUFFICES ASSUME NEW c \in Callers, call[c].pc = "asleep",
                      registry'[call[c].sim].st \in call[c].targets \cup Terminal,
                      c \notin wakeups'
               PROVE  /\ registry'[call[c].sim].by = "ack"
                      /\ call[c].until <= registry'[call[c].sim].seen + Poll
    BY DEF NoLostWakeup
  <2>1. call[c].sim \in Sims /\ call[c].targets \subseteq States /\ c \notin wakeups
    BY <1>7 DEF WaitInv, CallsShaped, Waits, CallShape
  <2>2. CASE call[c].sim # s
    BY <1>5, <2>1, <2>2 DEF WaitInv, NoLostWakeup
  <2>3. CASE call[c].sim = s
    <3>1. c \in waiters[s]
      BY <1>1, <2>3 DEF WaitInv, WaitersAreTheCalls
    <3>2. ~(m.kind = "event" /\ Applies(RecordFor(rec, m), m))
      BY <1>3, <3>1
    <3>3. registry'[call[c].sim] = new
      BY <1>1, <1>5, <2>3
    <3>4. rec.st \in call[c].targets \cup Terminal =>
            rec.by = "ack" /\ call[c].until <= rec.seen + Poll
      BY <2>1, <2>3 DEF WaitInv, NoLostWakeup
    <3>5. new.st # ""
      BY <2>1, <3>3 DEF States, Terminal
    <3>6. call[c].until <= now + Poll
      BY DEF WaitInv, PollsAhead
    <3> QED
      BY <1>4, <3>2, <3>3, <3>4, <3>5, <3>6
  <2> QED
    BY <2>2, <2>3
<1>13. ASSUME NEW c \in Callers, call[c].verdict = "ended"
       PROVE  /\ call[c].turn <= registry'[call[c].sim].turn
              /\ registry'[call[c].sim].turn = call[c].turn =>
                    registry'[call[c].sim].st \in Terminal \ call[c].targets
  <2>1. /\ call[c].sim \in Sims /\ call[c].turn \in Nat
        /\ call[c].turn <= registry[call[c].sim].turn
        /\ registry[call[c].sim].turn = call[c].turn =>
              registry[call[c].sim].st \in Terminal \ call[c].targets
    BY <1>13 DEF WaitInv, CallsShaped, CallShape, TurnsBehind, EndedIsFinal
  <2>2. CASE call[c].sim # s
    BY <1>5, <2>1, <2>2
  <2>3. CASE call[c].sim = s
    <3>1. registry'[call[c].sim] = new /\ registry[call[c].sim] = rec
      BY <1>5, <2>1, <2>3
    <3>2. rec.turn \in Nat
      BY <1>2 DEF Sound, SimRecord
    <3>3. new.turn = rec.turn => rec.turn = call[c].turn \/ call[c].turn < new.turn
      BY <2>1, <3>1, <3>2
    <3>4. CASE new.turn = rec.turn
      BY <1>4, <2>1, <3>1, <3>4
    <3>5. CASE new.turn = rec.turn + 1
      <4>1. call[c].turn < new.turn
        BY <2>1, <3>1, <3>2, <3>5
      <4> QED
        BY <2>1, <3>1, <3>2, <3>5, <4>1
    <3> QED
      BY <1>4, <3>4, <3>5
  <2> QED
    BY <2>2, <2>3
<1>14. EndedIsFinal' /\ TurnsBehind'
  BY <1>13 DEF EndedIsFinal, TurnsBehind
<1> QED
  BY <1>9, <1>10, <1>11, <1>12, <1>14 DEF WaitInv

\* A message of a run is routed.
LEMMA DeliverStep ==
  ASSUME WaitInv, NEW r \in Runs, Deliver(r)
  PROVE  WaitInv'
<1>1. /\ Receive(wire[r]) /\ Storable(wire[r])
      /\ UNCHANGED <<limit, stamp, now, life, acks, again, call, waiters>>
      /\ wire \in [Runs -> Message \cup {NoMessage}] /\ acks \in SUBSET Message
      /\ wire' = [wire EXCEPT ![r] = NoMessage]
  BY DEF Deliver, WaitInv, TypeOK, RunsShaped
<1>2. /\ wire' \in [Runs -> Message \cup {NoMessage}] /\ acks' \in SUBSET Message
      /\ \A q \in Runs : wire'[q] # NoMessage => Storable(wire'[q])
      /\ \A x \in acks' : Storable(x)
  BY <1>1 DEF WaitInv, RunsShaped
<1> QED
  BY <1>1, <1>2, ReceiveStep

\* So is the answer to a command that was sent again.
LEMMA DeliverAckStep ==
  ASSUME WaitInv, DeliverAck
  PROVE  WaitInv'
<1>1. PICK m \in acks : Receive(m) /\ acks' = acks \ {m}
  BY DEF DeliverAck
<1>2. /\ Storable(m) /\ UNCHANGED <<limit, stamp, now, life, wire, again, call, waiters>>
      /\ wire' \in [Runs -> Message \cup {NoMessage}] /\ acks' \in SUBSET Message
      /\ \A q \in Runs : wire'[q] # NoMessage => Storable(wire'[q])
      /\ \A x \in acks' : Storable(x)
  BY <1>1 DEF DeliverAck, WaitInv, TypeOK, RunsShaped
<1> QED
  BY <1>1, <1>2, ReceiveStep
-----------------------------------------------------------------------------
(* The calls. *)

\* What a call must be like for the invariant, whatever the others are like.
Fits(n, c) ==
    /\ n \in CallShape
    /\ n.pc \in {"loop", "asleep"} \/ n.verdict = "ended" => n.sim \in Sims
    /\ n.pc = "asleep" => n.until <= now + Poll
    /\ n.pc \in {"loop", "asleep"} =>
         /\ BudgetKnown => n.deadline + Skew <= n.started + ClientTimer
         /\ now <= n.deadline + Lag
    /\ n.verdict = "ended" =>
         /\ n.turn <= registry[n.sim].turn
         /\ registry[n.sim].turn = n.turn => registry[n.sim].st \in Terminal \ n.targets
    /\ BudgetKnown => n.verdict # "aborted"
    /\ n.pc = "asleep" /\ registry[n.sim].st \in n.targets \cup Terminal =>
         \/ c \in wakeups
         \/ registry[n.sim].by = "ack" /\ n.until <= registry[n.sim].seen + Poll

\* The call c becomes n, and the wakeups registered follow.
Becomes(c, n) ==
    /\ call' = [call EXCEPT ![c] = n]
    /\ waiters' \in [Sims -> SUBSET Callers]
    /\ \A s \in Sims : waiters'[s] =
          (waiters[s] \ {c}) \cup (IF n.pc \in {"loop", "asleep"} /\ n.sim = s THEN {c} ELSE {})
    /\ wakeups' \in SUBSET Callers /\ wakeups \ {c} \subseteq wakeups'
    /\ UNCHANGED <<limit, stamp, now, runVars, registry, log>>

\* What the invariant says of one call.
LEMMA CallFits ==
  ASSUME WaitInv, NEW c \in Callers
  PROVE  Fits(call[c], c)
  BY DEF WaitInv, Fits, CallsShaped, Waits, PollsAhead, OnTime, TurnsBehind, EndedIsFinal,
     ServerAnswersFirst, NoLostWakeup

\* A call that changes alone keeps the invariant if it fits it.
LEMMA CallStep ==
  ASSUME WaitInv, NEW c \in Callers, NEW n, Becomes(c, n), Fits(n, c)'
  PROVE  WaitInv'
<1>1. /\ call \in [Callers -> CallShape] /\ call' = [call EXCEPT ![c] = n] /\ n \in CallShape
      /\ UNCHANGED <<limit, stamp, now, life, wire, acks, again, registry, log>>
  BY DEF Becomes, Fits, WaitInv, CallsShaped, CallShape, runVars
<1>2. call' \in [Callers -> CallShape] /\ call'[c] = n
      /\ \A d \in Callers \ {c} : call'[d] = call[d]
  BY <1>1
<1>3. \A d \in Callers : Fits(call[d], d)
  BY CallFits
<1>4. \A d \in Callers : Fits(call[d], d)'
  <2> SUFFICES ASSUME NEW d \in Callers
               PROVE  Fits(call[d], d)'
    OBVIOUS
  <2>1. CASE d = c
    BY <1>2, <2>1
  <2>2. CASE d # c
    BY <1>1, <1>2, <1>3, <2>2 DEF Fits, Becomes, BudgetKnown
  <2> QED
    BY <2>1, <2>2
<1>5. TypeOK'
  <2>1. \A d \in Callers :
          /\ call'[d].pc \in {"idle", "loop", "asleep", "done"}
          /\ call'[d].verdict \in {"none", "refused", "matched", "ended", "timed_out", "aborted"}
    BY <1>2 DEF CallShape
  <2> QED
    BY <1>1, <2>1 DEF WaitInv, TypeOK, Becomes
<1>6. CallsShaped' /\ PollsAhead' /\ OnTime' /\ TurnsBehind'
  BY <1>2, <1>4 DEF CallsShaped, PollsAhead, OnTime, TurnsBehind, Fits, Waits
<1>7. EndedIsFinal' /\ ServerAnswersFirst' /\ NoLostWakeup'
  BY <1>4 DEF EndedIsFinal, ServerAnswersFirst, NoLostWakeup, Fits
<1>8. RunsShaped'
  BY <1>1 DEF WaitInv, RunsShaped, Storable, Sound
<1>9. WaitersAreTheCalls'
  <2> SUFFICES ASSUME NEW s \in Sims
               PROVE  waiters'[s] = {d \in Callers : call'[d].pc \in {"loop", "asleep"}
                                                      /\ call'[d].sim = s}
    BY DEF WaitersAreTheCalls
  <2>1. waiters[s] = {d \in Callers : call[d].pc \in {"loop", "asleep"} /\ call[d].sim = s}
    BY DEF WaitInv, WaitersAreTheCalls
  <2>2. waiters'[s] =
          (waiters[s] \ {c}) \cup (IF n.pc \in {"loop", "asleep"} /\ n.sim = s THEN {c} ELSE {})
    BY DEF Becomes
  <2> QED
    BY <1>2, <2>1, <2>2
<1> QED
  BY <1>5, <1>6, <1>7, <1>8, <1>9 DEF WaitInv

\* A wait is refused, or begins: it asks for no more than the budget allows.
LEMMA WaitStep ==
  ASSUME WaitInv, NEW c \in Callers, Wait(c)
  PROVE  WaitInv'
<1>1. PICK s \in Sims, request \in Requests, timeout \in Timeouts :
        LET accepted == KnownTargets(request) /\ ValidTimeout(timeout) /\ Known(s)
                            /\ FitsBudget(timeout)
        IN /\ call' = [call EXCEPT ![c] =
                 IF accepted
                 THEN [pc |-> "loop", sim |-> s, turn |-> 0, targets |-> Targets(request),
                       started |-> now, deadline |-> now + timeout, until |-> now,
                       verdict |-> "none"]
                 ELSE [Idle EXCEPT !.pc = "done", !.verdict = "refused"]]
           /\ waiters' = [waiters EXCEPT ![s] = IF accepted THEN waiters[s] \cup {c} ELSE waiters[s]]
  BY DEF Wait
<1>2. /\ call[c].pc = "idle" /\ UNCHANGED <<limit, stamp, now, runVars, registry, log, wakeups>>
      /\ waiters \in [Sims -> SUBSET Callers] /\ wakeups \in SUBSET Callers /\ now \in Nat
      /\ stamp \in Stamps
  BY DEF Wait, WaitInv, TypeOK
<1>3. \A q \in Sims : c \notin waiters[q]
  BY <1>2 DEF WaitInv, WaitersAreTheCalls
<1> DEFINE accepted == KnownTargets(request) /\ ValidTimeout(timeout) /\ Known(s)
                            /\ FitsBudget(timeout)
<1>4. CASE accepted
  <2>1. PICK n : n = [pc |-> "loop", sim |-> s, turn |-> 0, targets |-> Targets(request),
                      started |-> now, deadline |-> now + timeout, until |-> now,
                      verdict |-> "none"]
    OBVIOUS
  <2>2. Targets(request) \in SUBSET States
    BY <1>4 DEF KnownTargets
  <2>3. now + timeout \in Nat /\ timeout \in Nat
    BY <1>2, Timers
  <2>4. n \in CallShape
    BY <1>2, <2>1, <2>2, <2>3 DEF CallShape
  <2>5. BudgetKnown => now + timeout + Skew <= now + ClientTimer
    <3> SUFFICES ASSUME BudgetKnown
                 PROVE  now + timeout + Skew <= now + ClientTimer
      OBVIOUS
    <3>1. stamp.n \in {0, ClientTimer} /\ stamp.n > 0
      BY <1>2 DEF BudgetKnown, Stamps
    <3>2. stamp.n = ClientTimer
      BY <3>1
    <3>3. timeout <= ClientTimer - Skew
      BY <1>4, <3>2 DEF FitsBudget
    <3> QED
      BY <1>2, <2>3, <3>3, Timers
  <2>6. now <= now + timeout + Lag
    BY <1>2, <2>3, Timers
  <2>7. Fits(n, c)'
    BY <1>2, <2>1, <2>4, <2>5, <2>6 DEF Fits, BudgetKnown
  <2>8. Becomes(c, n)
    <3>1. call' = [call EXCEPT ![c] = n] /\ waiters' = [waiters EXCEPT ![s] = waiters[s] \cup {c}]
      BY <1>1, <1>4, <2>1
    <3>2. n.pc = "loop" /\ n.sim = s
      BY <2>1
    <3> QED
      BY <1>2, <1>3, <3>1, <3>2 DEF Becomes
  <2> QED
    BY <2>7, <2>8, CallStep
<1>5. CASE ~accepted
  <2>1. PICK n : n = [Idle EXCEPT !.pc = "done", !.verdict = "refused"]
    OBVIOUS
  <2>2. n \in CallShape /\ n.pc = "done" /\ n.verdict = "refused"
    BY <2>1 DEF Idle, CallShape, States
  <2>3. Fits(n, c)'
    BY <2>2 DEF Fits
  <2>4. Becomes(c, n)
    <3>1. call' = [call EXCEPT ![c] = n] /\ waiters' = [waiters EXCEPT ![s] = waiters[s]]
      BY <1>1, <1>5, <2>1
    <3> QED
      BY <1>2, <1>3, <2>2, <3>1 DEF Becomes
  <2> QED
    BY <2>3, <2>4, CallStep
<1> QED
  BY <1>4, <1>5
\* A wait ends with a verdict that is true of the record it saw.
LEMMA LeaveStep ==
  ASSUME WaitInv, NEW c \in Callers, Waits(c), NEW verdict \in {"matched", "ended", "timed_out", "aborted"},
         Leave(c, verdict), UNCHANGED <<limit, stamp, now, runVars, registry, log>>,
         BudgetKnown => verdict # "aborted",
         verdict = "ended" => registry[call[c].sim].st \in Terminal \ call[c].targets
  PROVE  WaitInv'
<1>1. PICK n : n = [call[c] EXCEPT !.pc = "done", !.verdict = verdict,
                                   !.turn = registry[call[c].sim].turn]
  OBVIOUS
<1>2. /\ call[c] \in CallShape /\ call[c].sim \in Sims /\ registry \in [Sims -> SimRecord]
      /\ call \in [Callers -> CallShape]
      /\ waiters \in [Sims -> SUBSET Callers] /\ wakeups \in SUBSET Callers
  BY DEF WaitInv, TypeOK, CallsShaped
<1>3. registry[call[c].sim].turn \in Nat
  BY <1>2 DEF SimRecord
<1>4. /\ n \in CallShape /\ n.pc = "done" /\ n.verdict = verdict /\ n.sim = call[c].sim
      /\ n.targets = call[c].targets /\ n.turn = registry[n.sim].turn
  BY <1>1, <1>2, <1>3 DEF CallShape
<1>5. n.turn <= registry[n.sim].turn
  BY <1>3, <1>4
<1>6. Fits(n, c)'
  BY <1>2, <1>4, <1>5 DEF Fits, BudgetKnown
<1>7. Becomes(c, n)
  <2>1. /\ call' = [call EXCEPT ![c] = n]
        /\ waiters' = [waiters EXCEPT ![call[c].sim] = waiters[call[c].sim] \ {c}]
        /\ wakeups' = wakeups \ {c}
    BY <1>1, <1>2 DEF Leave
  <2>2. \A s \in Sims : s # call[c].sim => c \notin waiters[s]
    BY DEF WaitInv, WaitersAreTheCalls
  <2> QED
    BY <1>2, <1>4, <2>1, <2>2 DEF Becomes
<1> QED
  BY <1>6, <1>7, CallStep

\* One round of the loop: the wakeup is cleared when nothing has been found, in one step
\* with the look at the record.
LEMMA LoopStep ==
  ASSUME WaitInv, NEW c \in Callers, Loop(c)
  PROVE  WaitInv'
<1>1. /\ call[c].pc = "loop" /\ Waits(c) /\ UNCHANGED <<limit, stamp, now, runVars, registry, log>>
  BY DEF Loop, Waits
<1>2. CASE Verdict(c) = "none"
  <2>1. call' = Sleep(c) /\ wakeups' = wakeups \ {c} /\ waiters' = waiters
    BY <1>2 DEF Loop
  <2>2. /\ call[c] \in CallShape /\ call[c].sim \in Sims /\ call \in [Callers -> CallShape]
        /\ waiters \in [Sims -> SUBSET Callers] /\ wakeups \in SUBSET Callers /\ now \in Nat
    BY <1>1 DEF WaitInv, TypeOK, CallsShaped
  <2> DEFINE until == IF now + Poll < call[c].deadline THEN now + Poll ELSE call[c].deadline
  <2>3. PICK n : n = [call[c] EXCEPT !.pc = "asleep", !.until = until]
    OBVIOUS
  <2>4. call[c].deadline \in Nat
    BY <2>2 DEF CallShape
  <2>5. until \in Nat /\ until <= now + Poll
    BY <2>2, <2>4, Timers
  <2>6. call' = [call EXCEPT ![c] = n]
    BY <2>1, <2>2, <2>3 DEF Sleep
  <2> HIDE DEF until
  <2>7. /\ n \in CallShape /\ n.pc = "asleep" /\ n.until = until /\ n.sim = call[c].sim
        /\ n.targets = call[c].targets /\ n.deadline = call[c].deadline
        /\ n.started = call[c].started /\ n.verdict = call[c].verdict /\ n.turn = call[c].turn
    BY <2>2, <2>3, <2>5 DEF CallShape
  <2>8. registry[call[c].sim].st \notin call[c].targets \cup Terminal
    BY <1>2 DEF Verdict
  <2>9. Fits(call[c], c)
    BY CallFits
  <2>10. Fits(n, c)'
    BY <1>1, <2>5, <2>7, <2>8, <2>9 DEF Fits, BudgetKnown
  <2>11. \A s \in Sims : c \in waiters[s] <=> call[c].sim = s
    BY <1>1 DEF WaitInv, WaitersAreTheCalls
  <2>12. Becomes(c, n)
    BY <1>1, <2>1, <2>2, <2>6, <2>7, <2>11 DEF Becomes
  <2> QED
    BY <2>10, <2>12, CallStep
<1>3. CASE Verdict(c) # "none"
  <2>1. Leave(c, Verdict(c))
    BY <1>3 DEF Loop
  <2>2. PICK v : v = Verdict(c)
    OBVIOUS
  <2>3. /\ v \in {"matched", "ended", "timed_out", "aborted"} /\ v # "aborted"
        /\ v = "ended" => registry[call[c].sim].st \in Terminal \ call[c].targets
    BY <1>3, <2>2 DEF Verdict
  <2> QED
    BY <1>1, <2>1, <2>2, <2>3, LeaveStep
<1> QED
  BY <1>2, <1>3

\* A sleeping call is run again.
LEMMA WakeStep ==
  ASSUME WaitInv, NEW c \in Callers, Wake(c)
  PROVE  WaitInv'
<1>1. PICK n : n = [call[c] EXCEPT !.pc = "loop"]
  OBVIOUS
<1>2. /\ call[c].pc = "asleep" /\ call[c] \in CallShape /\ call \in [Callers -> CallShape]
      /\ waiters \in [Sims -> SUBSET Callers] /\ wakeups \in SUBSET Callers
      /\ UNCHANGED <<limit, stamp, now, runVars, registry, log, waiters, wakeups>>
      /\ call' = [call EXCEPT ![c].pc = "loop"]
  BY DEF Wake, WaitInv, TypeOK, CallsShaped
<1>3. call' = [call EXCEPT ![c] = n]
  BY <1>1, <1>2
<1>4. /\ n \in CallShape /\ n.pc = "loop" /\ n.sim = call[c].sim
      /\ n.targets = call[c].targets /\ n.deadline = call[c].deadline
      /\ n.started = call[c].started /\ n.verdict = call[c].verdict /\ n.turn = call[c].turn
  BY <1>1, <1>2 DEF CallShape
<1>5. Fits(call[c], c)
  BY CallFits
<1>6. Fits(n, c)'
  BY <1>2, <1>4, <1>5 DEF Fits, BudgetKnown
<1>7. \A s \in Sims : c \in waiters[s] <=> call[c].sim = s
  BY <1>2 DEF WaitInv, WaitersAreTheCalls
<1>8. \A s \in Sims : waiters[s] =
        (waiters[s] \ {c}) \cup (IF n.pc \in {"loop", "asleep"} /\ n.sim = s THEN {c} ELSE {})
  BY <1>4, <1>7
<1>9. UNCHANGED <<limit, stamp, now, runVars, registry, log, waiters, wakeups>>
  BY <1>2
<1>10. Becomes(c, n)
  BY <1>2, <1>3, <1>8, <1>9 DEF Becomes
<1> QED
  BY <1>6, <1>10, CallStep

\* The client's timer never goes off when the server knew of it.
LEMMA ClientAbortsStep ==
  ASSUME WaitInv, NEW c \in Callers, ClientAborts(c)
  PROVE  WaitInv'
<1>1. /\ Waits(c) /\ now >= call[c].started + ClientTimer /\ Leave(c, "aborted")
      /\ UNCHANGED <<limit, stamp, now, runVars, registry, log>>
  BY DEF ClientAborts, Waits
<1>2. ~BudgetKnown
  <2>1. SUFFICES ASSUME BudgetKnown PROVE FALSE
    OBVIOUS
  <2>2. /\ call[c].deadline + Skew <= call[c].started + ClientTimer
        /\ now <= call[c].deadline + Lag
    BY <1>1, <2>1 DEF WaitInv, OnTime
  <2>3. call[c].deadline \in Nat /\ call[c].started \in Nat /\ now \in Nat
    BY DEF WaitInv, CallsShaped, CallShape, TypeOK
  <2> QED
    BY <1>1, <2>2, <2>3, Timers
<1> QED
  BY <1>1, <1>2, LeaveStep

\* Time passes.
LEMMA TickStep ==
  ASSUME WaitInv, Tick
  PROVE  WaitInv'
<1>1. /\ now' = now + 1 /\ now \in Nat
      /\ \A c \in Callers : Waits(c) => now < call[c].deadline + Lag
      /\ UNCHANGED <<limit, stamp, life, wire, acks, again, registry, log, call, waiters, wakeups>>
  BY DEF Tick, Waits, WaitInv, TypeOK, runVars, callVars
<1>2. call \in [Callers -> CallShape]
  BY DEF WaitInv, CallsShaped
<1>3. TypeOK' /\ CallsShaped' /\ RunsShaped' /\ TurnsBehind'
  <2>1. now' \in Nat
    BY <1>1
  <2>2. TypeOK'
    BY <1>1, <2>1 DEF WaitInv, TypeOK
  <2>3. CallsShaped' /\ TurnsBehind'
    BY <1>1 DEF WaitInv, CallsShaped, TurnsBehind, Waits
  <2>4. RunsShaped'
    BY <1>1 DEF WaitInv, RunsShaped, Storable, Sound
  <2> QED
    BY <2>2, <2>3, <2>4
<1>4. WaitersAreTheCalls' /\ NoLostWakeup' /\ ServerAnswersFirst' /\ EndedIsFinal'
  BY <1>1 DEF WaitInv, WaitersAreTheCalls, NoLostWakeup, ServerAnswersFirst, EndedIsFinal,
     BudgetKnown
<1>5. PollsAhead'
  <2> SUFFICES ASSUME NEW c \in Callers, call[c].pc = "asleep"
               PROVE  call[c].until <= now + 1 + Poll
    BY <1>1 DEF PollsAhead
  <2>1. call[c].until \in Nat /\ call[c].until <= now + Poll
    BY <1>2 DEF CallShape, WaitInv, PollsAhead
  <2> QED
    BY <1>1, <2>1, Timers
<1>6. OnTime'
  <2> SUFFICES ASSUME NEW c \in Callers, Waits(c)
               PROVE  /\ BudgetKnown => call[c].deadline + Skew <= call[c].started + ClientTimer
                      /\ now + 1 <= call[c].deadline + Lag
    BY <1>1 DEF OnTime, Waits, BudgetKnown
  <2>1. /\ call[c].deadline \in Nat /\ now < call[c].deadline + Lag
        /\ BudgetKnown => call[c].deadline + Skew <= call[c].started + ClientTimer
    BY <1>1, <1>2 DEF CallShape, WaitInv, OnTime
  <2> QED
    BY <1>1, <2>1, Timers
<1> QED
  BY <1>3, <1>4, <1>5, <1>6 DEF WaitInv

(* Every step keeps the inductive invariant. *)
LEMMA WaitInvKept == ASSUME WaitInv, [Next]_vars PROVE WaitInv'
<1>1. ASSUME NEW r \in Runs, Post(r) \/ SendLost(r) \/ AckAgain(r) \/ Deliver(r)
      PROVE  WaitInv'
  BY <1>1, PostStep, SendLostStep, AckAgainStep, DeliverStep
<1>2. CASE DeliverAck
  BY <1>2, DeliverAckStep
<1>3. CASE Tick
  BY <1>3, TickStep
<1>4. ASSUME NEW c \in Callers, Wait(c) \/ Loop(c) \/ Wake(c) \/ ClientAborts(c)
      PROVE  WaitInv'
  BY <1>4, WaitStep, LoopStep, WakeStep, ClientAbortsStep
<1>5. CASE UNCHANGED vars
  <2>1. UNCHANGED <<limit, stamp, now, life, wire, acks, again, registry, log, callVars>>
    BY <1>5 DEF vars, runVars
  <2>2. RunsShaped'
    BY <2>1 DEF WaitInv, RunsShaped, Storable, Sound
  <2>3. wire' \in [Runs -> Message \cup {NoMessage}] /\ acks' \in SUBSET Message /\ again' \in Nat
    BY <2>1 DEF WaitInv, TypeOK
  <2> QED
    BY <2>1, <2>2, <2>3, RunStep
<1> QED
  BY <1>1, <1>2, <1>3, <1>4, <1>5 DEF Next

(* The inductive invariant holds in every reachable state. *)
LEMMA WaitInvAlways == Spec => []WaitInv
<1> QED
  BY InitOK, WaitInvKept, PTL DEF Spec

-----------------------------------------------------------------------------
(* The views.  What an alert says of a run rests on what the run has told: *)
(* its events in the log, and where its life stands.                       *)

\* The states that the events of a run report, in a log.
Told(events, r) == {m.st : m \in {events[i] : i \in {j \in DOMAIN events : events[j].run = r}}}

\* A run that has not been seen to start, and one that failed.
Early == {"none", "accepted", "submitted", "workflow_finished", "queued", "rejected"}
Ruined == {"failed", "job_failed", "rejected"}

\* What a message of a run says agrees with the life of the run: only the queue has a
\* reason, and an ack brings no state but the end of a build.
MessageTrue(m, l) ==
    /\ m.st \in FailedStates => l.st \in Ruined
    /\ m.kind = "ack" => m.st \notin RunningOrLater \ {"failed"} /\ m.reason = "none"
    /\ m.kind = "event" /\ m.st \in RunningOrLater => l.st \notin Early
    /\ m.reason # "none" => l.st = "queued"

\* What a record says agrees with the life of its run and with what was logged of it.
RecordTrue(rec, l, told) ==
    /\ rec.st \in FailedStates => l.st \in Ruined
    /\ rec.st \in RunningOrLater \ {"failed"} => rec.st \in told
    /\ rec.suspect => rec.st = "results_ready"
    /\ Blocked(rec) /\ Active(rec) => told \cap RunningOrLater = {}

ViewInv ==
    /\ \A r \in Runs : wire[r] # NoMessage => wire[r].run = r /\ MessageTrue(wire[r], life[r])
    /\ \A m \in acks : m.kind = "ack" /\ MessageTrue(m, life[m.run])
    /\ \A r \in Runs : life[r].st \in Early => Told(log, r) \cap RunningOrLater = {}
    /\ \A s \in Listed :
         /\ SimIdOf[registry[s].run] = s
         /\ RecordTrue(registry[s], life[registry[s].run], Told(log, registry[s].run))
    /\ IsFiniteSet(Listed)


\* Told, element by element.
LEMMA ToldIs ==
  \A events, r, x :
    x \in Told(events, r) <=> \E j \in DOMAIN events : events[j].run = r /\ events[j].st = x
<1> SUFFICES ASSUME NEW events, NEW r, NEW x
             PROVE  x \in Told(events, r) <=> \E j \in DOMAIN events : events[j].run = r /\ events[j].st = x
  OBVIOUS
<1> DEFINE mine == {j \in DOMAIN events : events[j].run = r}
           of == {events[i] : i \in mine}
<1>1. Told(events, r) = {m.st : m \in of}
  BY DEF Told
<1>2. \A m : m \in of <=> \E j \in mine : m = events[j]
  OBVIOUS
<1> HIDE DEF of
<1>3. x \in Told(events, r) <=> \E m \in of : m.st = x
  BY <1>1
<1>4. (\E m \in of : m.st = x) <=> \E j \in mine : events[j].st = x
  BY <1>2
<1> QED
  BY <1>3, <1>4

\* An event adds its state to what its run has told, and to nothing else.
LEMMA ToldGrows ==
  ASSUME NEW events \in Seq(Message), NEW m \in Message, NEW longer, NEW n,
         DOMAIN longer = DOMAIN events \cup {n}, longer[n] = m,
         \A j \in DOMAIN events : longer[j] = events[j]
  PROVE  /\ Told(longer, m.run) = Told(events, m.run) \cup {m.st}
         /\ \A r : r # m.run => Told(longer, r) = Told(events, r)
<1>2. ASSUME NEW r, NEW x
      PROVE  x \in Told(longer, r) <=> x \in Told(events, r) \/ (r = m.run /\ x = m.st)
  <2>1. x \in Told(longer, r) <=> \E j \in DOMAIN longer : longer[j].run = r /\ longer[j].st = x
    BY ToldIs
  <2>2. x \in Told(events, r) <=> \E j \in DOMAIN events : events[j].run = r /\ events[j].st = x
    BY ToldIs
  <2> QED
    BY <2>1, <2>2
<1>3. ASSUME NEW r, r # m.run PROVE Told(longer, r) = Told(events, r)
  <2>1. \A x : x \in Told(longer, r) <=> x \in Told(events, r)
    BY <1>2, <1>3
  <2> QED
    BY <2>1, Zenon
<1>4. Told(longer, m.run) = Told(events, m.run) \cup {m.st}
  BY <1>2
<1> QED
  BY <1>3, <1>4

\* A fresh record says nothing.
LEMMA FreshTrue ==
  ASSUME NEW r, NEW n, NEW l, NEW told
  PROVE  RecordTrue(Fresh(r, n), l, told)
<1>1. /\ Fresh(r, n).st = "" /\ Fresh(r, n).suspect = FALSE /\ Fresh(r, n).reason = "none"
  BY DEF Fresh
<1>2. "" \notin FailedStates /\ "" \notin RunningOrLater
  BY DEF FailedStates, RunningOrLater, Terminal
<1> QED
  BY <1>1, <1>2 DEF RecordTrue, Blocked

\* An event that applies leaves the record true.
LEMMA ProjectEventTrue ==
  ASSUME NEW rec, Sound(rec), NEW m, Storable(m), m.kind = "event", NEW l, NEW told, NEW more,
         rec.st \notin Terminal, RecordTrue(rec, l, told), MessageTrue(m, l), now \in Nat,
         more = told \cup {m.st}, l.st \in Early => more \cap RunningOrLater = {}
  PROVE  RecordTrue(ProjectEvent(rec, m), l, more)
<1>1. PICK p : p = ProjectEvent(rec, m)
  OBVIOUS
<1>2. /\ p.st = m.st
      /\ p.reason = IF m.st \in RunningOrLater THEN "none"
                    ELSE IF m.reason # "none" THEN m.reason ELSE rec.reason
      /\ p.suspect => m.st = "results_ready"
  BY <1>1 DEF ProjectEvent, Sound, SimRecord
<1>3. p.st \in FailedStates => l.st \in Ruined
  BY <1>2 DEF MessageTrue
<1>4. p.st \in more
  BY <1>2
<1>5. ASSUME Blocked(p) PROVE more \cap RunningOrLater = {}
  <2>1. m.st \notin RunningOrLater /\ p.reason = "permanent"
    BY <1>2, <1>5 DEF Blocked
  <2>2. CASE m.reason # "none"
    BY <2>2 DEF MessageTrue, Early
  <2>3. CASE m.reason = "none"
    <3>1. Blocked(rec) /\ Active(rec)
      BY <1>2, <2>1, <2>3 DEF Blocked, Active
    <3> QED
      BY <2>1, <3>1 DEF RecordTrue
  <2> QED
    BY <2>2, <2>3
<1>6. RecordTrue(p, l, more)
  BY <1>2, <1>3, <1>4, <1>5 DEF RecordTrue
<1> QED
  BY <1>1, <1>6

\* So does an ack.
LEMMA ProjectAckTrue ==
  ASSUME NEW rec, Sound(rec), NEW m, Storable(m), m.kind = "ack", NEW l, NEW told,
         RecordTrue(rec, l, told), MessageTrue(m, l), now \in Nat
  PROVE  RecordTrue(ProjectAck(rec, m), l, told)
<1>1. PICK p : p = ProjectAck(rec, m)
  OBVIOUS
<1>2. /\ p.reason = rec.reason /\ p.suspect = rec.suspect
      /\ p.st = rec.st \/ (rec.st = "" /\ p.st = m.st)
  BY <1>1 DEF ProjectAck, Sound, SimRecord
<1>5. (p.suspect <=> rec.suspect) /\ (Blocked(p) <=> Blocked(rec))
  BY <1>2 DEF Blocked
<1>3. CASE p.st = rec.st
  <2>1. Active(p) <=> Active(rec)
    BY <1>3 DEF Active
  <2>2. (p.st \in FailedStates <=> rec.st \in FailedStates) /\ (p.st \in told <=> rec.st \in told)
        /\ (p.st \in RunningOrLater \ {"failed"} <=> rec.st \in RunningOrLater \ {"failed"})
        /\ (p.st = "results_ready" <=> rec.st = "results_ready")
    BY <1>3
  <2>3. RecordTrue(p, l, told)
    BY <1>5, <2>1, <2>2, Zenon DEF RecordTrue
  <2> QED
    BY <1>1, <2>3
<1>4. CASE rec.st = "" /\ p.st = m.st
  <2>1. ~Blocked(rec) /\ ~rec.suspect
    BY <1>4 DEF Sound, SimRecord, RecordTrue, Blocked
  <2>2. /\ p.st \in FailedStates => l.st \in Ruined
        /\ p.st \notin RunningOrLater \ {"failed"}
    BY <1>4 DEF MessageTrue
  <2>3. RecordTrue(p, l, told)
    BY <1>5, <2>1, <2>2, Zenon DEF RecordTrue
  <2> QED
    BY <1>1, <2>3
<1> QED
  BY <1>1, <1>2, <1>3, <1>4

-----------------------------------------------------------------------------
(* Every step keeps the views true. *)

\* The next report of a run: where it comes from, and that only a queue has a reason.
LEMMA LifecycleIs ==
  ASSUME NEW l \in LifeShape, NEW n \in Lifecycle(l)
  PROVE  \/ l.st = "none" /\ n.st \in {"accepted", "rejected"} /\ n.reason = "none"
         \/ l.st = "accepted" /\ n.st \in {"submitted", "failed"} /\ n.reason = "none"
         \/ l.st = "submitted" /\ n.st = "workflow_finished" /\ n.reason = "none"
         \/ l.st \in {"workflow_finished", "queued"} /\ n.st = "queued"
         \/ /\ l.st \in {"workflow_finished", "queued"} /\ n.reason = "none"
            /\ n.st \in {"job_running", "job_failed", "cancelled"}
         \/ /\ l.st \in {"job_running", "step_finished"} /\ n.reason = "none"
            /\ n.st \in {"step_finished", "job_finished", "job_failed", "cancelled"}
         \/ l.st = "job_finished" /\ n.st \in {"results_ready", "unlinked"} /\ n.reason = "none"
<1>1. PICK st, job, reason : n = Step(st, job, reason) /\ n \in Lifecycle(l)
  BY DEF Lifecycle, Step
<1>2. n.st = st /\ n.reason = reason
  BY <1>1 DEF Step
<1> QED
  BY <1>1 DEF Lifecycle, Step

\* The message a run posts agrees with the life it goes on to, and neither a ruined run
\* goes on nor does a run become early again.
LEMMA PostedTrue ==
  ASSUME NEW l \in LifeShape, NEW n \in Lifecycle(l), NEW m, NEW k,
         m.kind = IF l.st = "none" THEN "ack" ELSE "event", m.st = OnWire(n.st),
         m.reason = n.reason, k.st = n.st
  PROVE  /\ MessageTrue(m, k) /\ l.st \notin Ruined
         /\ k.st \in Early => l.st \in Early
<1> USE DEF MessageTrue, OnWire, FailedStates, Ruined, RunningOrLater, Terminal, Early
<1>1. CASE l.st = "none" /\ n.st \in {"accepted", "rejected"} /\ n.reason = "none"
  BY <1>1
<1>2. CASE l.st = "accepted" /\ n.st \in {"submitted", "failed"} /\ n.reason = "none"
  BY <1>2
<1>3. CASE l.st = "submitted" /\ n.st = "workflow_finished" /\ n.reason = "none"
  BY <1>3
<1>4. CASE l.st \in {"workflow_finished", "queued"} /\ n.st = "queued"
  BY <1>4
<1>5. CASE /\ l.st \in {"workflow_finished", "queued"} /\ n.reason = "none"
           /\ n.st \in {"job_running", "job_failed", "cancelled"}
  BY <1>5
<1>6. CASE /\ l.st \in {"job_running", "step_finished"} /\ n.reason = "none"
           /\ n.st \in {"step_finished", "job_finished", "job_failed", "cancelled"}
  BY <1>6
<1>7. CASE l.st = "job_finished" /\ n.st \in {"results_ready", "unlinked"} /\ n.reason = "none"
  BY <1>7
<1> QED
  BY <1>1, <1>2, <1>3, <1>4, <1>5, <1>6, <1>7, LifecycleIs

\* What a run does: its life and what it has under way change, the others' stay.
LEMMA ViewOfRun ==
  ASSUME WaitInv, ViewInv, NEW r \in Runs, UNCHANGED <<registry, log>>,
         DOMAIN life' = Runs, \A q \in Runs \ {r} : life'[q] = life[q] /\ wire'[q] = wire[q],
         life'[r].st = life[r].st \/ life[r].st \notin Ruined,
         life'[r].st \in Early => life[r].st \in Early,
         wire'[r] # NoMessage => wire'[r].run = r /\ MessageTrue(wire'[r], life'[r]),
         \A m \in acks' : m \in acks \/ (m.run = r /\ life'[r].st = life[r].st /\ MessageTrue(m, life[r])
                                         /\ m.kind = "ack")
  PROVE  ViewInv'
<1>1. \A q \in Runs : life[q].st \in Ruined => life'[q].st = life[q].st
  OBVIOUS
<1>2. ASSUME NEW m \in acks'
      PROVE  m.kind = "ack" /\ MessageTrue(m, life'[m.run])
  <2>1. CASE m \in acks
    <3>1. /\ m.kind = "ack" /\ MessageTrue(m, life[m.run]) /\ m.run \in Runs
      BY <2>1 DEF ViewInv, WaitInv, RunsShaped, Storable, Message
    <3>2. /\ m.st \in FailedStates => life'[m.run].st \in Ruined
          /\ m.st \notin RunningOrLater \ {"failed"} /\ m.reason = "none"
      BY <1>1, <3>1 DEF MessageTrue
    <3> QED
      BY <3>1, <3>2 DEF MessageTrue
  <2>2. CASE m.run = r /\ life'[r].st = life[r].st /\ MessageTrue(m, life[r]) /\ m.kind = "ack"
    BY <2>2 DEF MessageTrue
  <2> QED
    BY <2>1, <2>2
<1>3. ASSUME NEW s \in Listed
      PROVE  RecordTrue(registry[s], life'[registry[s].run], Told(log, registry[s].run))
  <2>1. registry[s].run \in Runs /\ RecordTrue(registry[s], life[registry[s].run], Told(log, registry[s].run))
    BY <1>3 DEF Listed, ViewInv, WaitInv, TypeOK, SimRecord
  <2> QED
    BY <1>1, <2>1 DEF RecordTrue
<1>4. Listed' = Listed
  BY DEF Listed
<1>5. \A q \in Runs : wire'[q] # NoMessage => wire'[q].run = q /\ MessageTrue(wire'[q], life'[q])
  BY DEF ViewInv
<1>6. \A q \in Runs : life'[q].st \in Early => Told(log, q) \cap RunningOrLater = {}
  BY DEF ViewInv
<1>7. /\ \A s \in Listed : SimIdOf[registry[s].run] = s
      /\ IsFiniteSet(Listed)
  BY DEF ViewInv
<1> QED
  BY <1>2, <1>3, <1>4, <1>5, <1>6, <1>7 DEF ViewInv

\* A run posts its next report.
LEMMA ViewPost ==
  ASSUME WaitInv, ViewInv, NEW r \in Runs, Post(r)
  PROVE  ViewInv'
<1>1. /\ life[r] \in LifeShape /\ life \in [Runs -> LifeShape]
      /\ wire \in [Runs -> Message \cup {NoMessage}]
      /\ UNCHANGED <<acks, registry, log>>
  BY DEF Post, WaitInv, TypeOK, RunsShaped
<1>2. PICK n, k, m :
        /\ n \in Lifecycle(life[r])
        /\ life' = [life EXCEPT ![r] = k] /\ wire' = [wire EXCEPT ![r] = m]
        /\ k = [st |-> n.st, job |-> n.job, reason |-> n.reason,
                events |-> life[r].events + 1, lost |-> FALSE]
        /\ m.kind = (IF life[r].st = "none" THEN "ack" ELSE "event")
        /\ m.run = r /\ m.st = OnWire(n.st) /\ m.reason = n.reason
  <2>1. PICK n \in Lifecycle(life[r]), empty \in BOOLEAN :
        /\ life' = [life EXCEPT ![r] = [st |-> n.st, job |-> n.job, reason |-> n.reason,
                                        events |-> life[r].events + 1, lost |-> FALSE]]
        /\ wire' = [wire EXCEPT ![r] =
                [kind |-> IF life[r].st = "none" THEN "ack" ELSE "event", run |-> r,
                 st |-> OnWire(n.st), job |-> n.job, reason |-> n.reason,
                 exit |-> n.st = "job_failed", suspect |-> empty, ts |-> now]]
    BY DEF Post
  <2>2. PICK m : m = [kind |-> IF life[r].st = "none" THEN "ack" ELSE "event", run |-> r,
                      st |-> OnWire(n.st), job |-> n.job, reason |-> n.reason,
                      exit |-> n.st = "job_failed", suspect |-> empty, ts |-> now]
    OBVIOUS
  <2>3. wire' = [wire EXCEPT ![r] = m]
    BY <2>1, <2>2
  <2>4. /\ m.kind = (IF life[r].st = "none" THEN "ack" ELSE "event")
        /\ m.run = r /\ m.st = OnWire(n.st) /\ m.reason = n.reason
    BY <2>2
  <2> QED
    BY <2>1, <2>3, <2>4
<1>3. k.st = n.st
  BY <1>2
<1>4. MessageTrue(m, k) /\ life[r].st \notin Ruined /\ (k.st \in Early => life[r].st \in Early)
  BY <1>1, <1>2, <1>3, PostedTrue
<1>5. /\ DOMAIN life' = Runs /\ life'[r] = k /\ wire'[r] = m
      /\ \A q \in Runs \ {r} : life'[q] = life[q] /\ wire'[q] = wire[q]
  BY <1>1, <1>2
<1> QED
  BY <1>1, <1>2, <1>4, <1>5, ViewOfRun

\* A send raises.
LEMMA ViewSendLost ==
  ASSUME WaitInv, ViewInv, NEW r \in Runs, SendLost(r)
  PROVE  ViewInv'
<1>1. /\ life \in [Runs -> LifeShape] /\ wire \in [Runs -> Message \cup {NoMessage}]
      /\ UNCHANGED <<acks, registry, log>> /\ wire' = [wire EXCEPT ![r] = NoMessage]
      /\ life' = [life EXCEPT ![r].lost = TRUE]
  BY DEF SendLost, WaitInv, TypeOK, RunsShaped
<1>2. /\ DOMAIN life' = Runs /\ life'[r].st = life[r].st /\ wire'[r] = NoMessage
      /\ \A q \in Runs \ {r} : life'[q] = life[q] /\ wire'[q] = wire[q]
  BY <1>1 DEF LifeShape
<1> QED
  BY <1>1, <1>2, ViewOfRun, PostedTrue

\* A command is sent again.
LEMMA ViewAckAgain ==
  ASSUME WaitInv, ViewInv, NEW r \in Runs, AckAgain(r)
  PROVE  ViewInv'
<1>1. /\ life \in [Runs -> LifeShape] /\ UNCHANGED <<life, wire, registry, log>>
  BY DEF AckAgain, WaitInv, RunsShaped
<1>2. PICK st, m :
        /\ acks' = acks \cup {m} /\ m.run = r /\ m.st = st /\ m.kind = "ack" /\ m.reason = "none"
        /\ st = IF Unsettled(r) THEN "unknown"
                ELSE IF life[r].st \in {"failed", "rejected"} THEN "failed" ELSE "workflow_finished"
  <2>1. PICK m : m = [kind |-> "ack", run |-> r,
           st |-> IF Unsettled(r) THEN "unknown"
                  ELSE IF life[r].st \in {"failed", "rejected"} THEN "failed"
                  ELSE "workflow_finished",
           job |-> ~Unsettled(r) /\ life[r].job, reason |-> "none",
           exit |-> FALSE, suspect |-> FALSE, ts |-> now]
    OBVIOUS
  <2>2. acks' = acks \cup {m}
    BY <2>1 DEF AckAgain
  <2>3. /\ m.run = r /\ m.kind = "ack" /\ m.reason = "none"
        /\ m.st = IF Unsettled(r) THEN "unknown"
                  ELSE IF life[r].st \in {"failed", "rejected"} THEN "failed"
                  ELSE "workflow_finished"
    BY <2>1
  <2> QED
    BY <2>2, <2>3
<1>3. MessageTrue(m, life[r])
  BY <1>2 DEF MessageTrue, FailedStates, Ruined, RunningOrLater, Terminal
<1> QED
  BY <1>1, <1>2, <1>3, ViewOfRun DEF ViewInv

\* What becomes of the record, and of what its run has told, when a message arrives.
LEMMA AfterTrue ==
  ASSUME NEW rec, Sound(rec), NEW m, Storable(m), NEW l, NEW told, NEW more, now \in Nat,
         rec.run = m.run => RecordTrue(rec, l, told),
         MessageTrue(m, l),
         m.kind = "ack" => more = told,
         m.kind = "event" => more = told \cup {m.st},
         l.st \in Early => more \cap RunningOrLater = {}
  PROVE  /\ After(rec, m).run = m.run \/ After(rec, m) = rec
         /\ After(rec, m).run = m.run => RecordTrue(After(rec, m), l, more)
<1>1. PICK to : to = RecordFor(rec, m)
  OBVIOUS
<1>2. /\ Sound(to)
      /\ to = rec \/ to = Fresh(m.run, rec.turn + 1)
  BY <1>1, RecordForType
<1>3. m.kind \in {"event", "ack"} /\ "event" # "ack"
  BY DEF Storable, Message
<1>4. After(rec, m) = IF m.kind = "event" THEN IF Applies(to, m) THEN ProjectEvent(to, m) ELSE to
                      ELSE IF m.run = to.run THEN ProjectAck(to, m) ELSE to
  BY <1>1, <1>3 DEF After
<1>5. to = Fresh(m.run, rec.turn + 1) => to.run = m.run /\ to.st = ""
  <2>1. Fresh(m.run, rec.turn + 1).run = m.run /\ Fresh(m.run, rec.turn + 1).st = ""
    BY DEF Fresh
  <2> QED
    BY <2>1
<1>6. to.run = m.run => RecordTrue(to, l, told)
  BY <1>2, FreshTrue
<1>7. to = Fresh(m.run, rec.turn + 1) => Applies(to, m)
  <2>1. "" \notin Terminal
    BY DEF Terminal
  <2> QED
    BY <1>5, <2>1 DEF Applies
<1>9. CASE m.kind = "event" /\ Applies(to, m)
  <2>1. to.run = m.run /\ to.st \notin Terminal
    BY <1>9 DEF Applies
  <2>2. RecordTrue(ProjectEvent(to, m), l, more)
    BY <1>2, <1>6, <1>9, <2>1, ProjectEventTrue
  <2>3. ProjectEvent(to, m).run = to.run
    BY <1>2 DEF ProjectEvent, Sound, SimRecord
  <2> QED
    BY <1>4, <1>9, <2>1, <2>2, <2>3
<1>10. CASE m.kind = "event" /\ ~Applies(to, m)
  <2>1. After(rec, m) = rec
    BY <1>2, <1>4, <1>7, <1>10
  <2>2. ASSUME rec.run = m.run PROVE RecordTrue(rec, l, more)
    <3>1. rec.st \in Terminal /\ to = rec
      BY <1>2, <1>7, <1>10, <2>2 DEF Applies
    <3>2. ~Active(rec)
      BY <3>1 DEF Active
    <3>3. more = told \cup {m.st}
      BY <1>10
    <3> QED
      BY <2>2, <3>2, <3>3 DEF RecordTrue
  <2> QED
    BY <2>1, <2>2
<1>11. CASE m.kind = "ack" /\ m.run = to.run
  <2>1. RecordTrue(ProjectAck(to, m), l, more)
    BY <1>2, <1>6, <1>11, ProjectAckTrue
  <2>2. ProjectAck(to, m).run = to.run
    BY <1>2 DEF ProjectAck, Sound, SimRecord
  <2> QED
    BY <1>3, <1>4, <1>11, <2>1, <2>2
<1>12. CASE m.kind = "ack" /\ m.run # to.run
  BY <1>2, <1>3, <1>4, <1>5, <1>12
<1> QED
  BY <1>3, <1>9, <1>10, <1>11, <1>12

\* A message is routed: the log grows by what its run says, and one record changes.
LEMMA ViewReceive ==
  ASSUME WaitInv, ViewInv, NEW m, Storable(m), Receive(m), MessageTrue(m, life[m.run]),
         UNCHANGED life,
         \A r \in Runs : wire'[r] = wire[r] \/ wire'[r] = NoMessage, acks' \subseteq acks
  PROVE  ViewInv'
<1>1. PICK s, rec, new : s = SimIdOf[m.run] /\ rec = registry[s] /\ new = After(rec, m)
  OBVIOUS
<1>2. /\ m.run \in Runs /\ m \in Message /\ s \in Sims /\ now \in Nat /\ log \in Seq(Message)
      /\ registry \in [Sims -> SimRecord] /\ Sound(rec)
  BY <1>1, WaitAssumption DEF Storable, Message, WaitInv, TypeOK, RunsShaped
<1>3. /\ registry' = [registry EXCEPT ![s] = new]
      /\ log' = IF m.kind = "event" THEN Append(log, m) ELSE log
  BY <1>1 DEF Receive, After
<1>4. /\ \A q \in Sims : registry'[q] = IF q = s THEN new ELSE registry[q]
      /\ DOMAIN registry' = Sims
  BY <1>2, <1>3
<1>5. m.kind \in {"event", "ack"} /\ "event" # "ack"
  BY DEF Storable, Message
<1>6. /\ m.kind = "ack" => Told(log', m.run) = Told(log, m.run)
      /\ m.kind = "event" => Told(log', m.run) = Told(log, m.run) \cup {m.st}
      /\ \A r : r # m.run => Told(log', r) = Told(log, r)
  <2>1. CASE m.kind = "ack"
    BY <1>3, <1>5, <2>1
  <2>2. CASE m.kind = "event"
    <3>1. PICK n, longer : n = Len(log) + 1 /\ longer = log'
      OBVIOUS
    <3>2. longer = Append(log, m)
      BY <1>3, <2>2, <3>1
    <3>3. /\ DOMAIN longer = DOMAIN log \cup {n} /\ longer[n] = m
          /\ \A j \in DOMAIN log : longer[j] = log[j]
      BY <1>2, <3>1, <3>2
    <3> HIDE <3>2
    <3>4. /\ Told(longer, m.run) = Told(log, m.run) \cup {m.st}
          /\ \A r : r # m.run => Told(longer, r) = Told(log, r)
      BY <1>2, <3>3, ToldGrows
    <3> QED
      BY <1>5, <2>2, <3>1, <3>4
  <2> QED
    BY <1>5, <2>1, <2>2
<1>7. \A r \in Runs : life[r].st \in Early => Told(log', r) \cap RunningOrLater = {}
  <2> SUFFICES ASSUME NEW r \in Runs, life[r].st \in Early
               PROVE  Told(log', r) \cap RunningOrLater = {}
    OBVIOUS
  <2>1. Told(log, r) \cap RunningOrLater = {}
    BY DEF ViewInv
  <2>2. CASE r # m.run \/ m.kind = "ack"
    BY <1>6, <2>1, <2>2
  <2>3. CASE r = m.run /\ m.kind = "event"
    <3>1. m.st \notin RunningOrLater
      BY <2>3 DEF MessageTrue
    <3> QED
      BY <1>6, <2>1, <2>3, <3>1
  <2> QED
    BY <1>5, <2>2, <2>3
<1>8. rec.run # NoRun => SimIdOf[rec.run] = s /\ RecordTrue(rec, life[rec.run], Told(log, rec.run))
  BY <1>1, <1>2 DEF ViewInv, Listed
<1>9. rec.run = m.run => RecordTrue(rec, life[m.run], Told(log, m.run))
  BY <1>2, <1>8, WaitAssumption
<1>10. /\ new.run = m.run \/ new = rec
       /\ new.run = m.run => RecordTrue(new, life[m.run], Told(log', m.run))
  <2>1. PICK l, told, more : l = life[m.run] /\ told = Told(log, m.run) /\ more = Told(log', m.run)
    OBVIOUS
  <2>2. /\ rec.run = m.run => RecordTrue(rec, l, told)
        /\ MessageTrue(m, l)
        /\ m.kind = "ack" => more = told
        /\ m.kind = "event" => more = told \cup {m.st}
        /\ l.st \in Early => more \cap RunningOrLater = {}
    BY <1>2, <1>6, <1>7, <1>9, <2>1
  <2>3. /\ After(rec, m).run = m.run \/ After(rec, m) = rec
        /\ After(rec, m).run = m.run => RecordTrue(After(rec, m), l, more)
    BY <1>2, <2>2, AfterTrue
  <2> QED
    BY <1>1, <2>1, <2>3
<1>11. ASSUME NEW q \in Sims, registry'[q].run # NoRun
       PROVE  /\ SimIdOf[registry'[q].run] = q
              /\ RecordTrue(registry'[q], life[registry'[q].run], Told(log', registry'[q].run))
  <2>1. CASE q = s /\ new.run = m.run
    BY <1>1, <1>4, <1>10, <2>1
  <2>2. CASE q = s /\ new.run # m.run
    BY <1>4, <1>6, <1>8, <1>10, <1>11, <2>2
  <2>3. CASE q # s
    <3>1. registry'[q] = registry[q] /\ q \in Listed
      BY <1>4, <1>11, <2>3 DEF Listed
    <3>2. SimIdOf[registry[q].run] = q /\ RecordTrue(registry[q], life[registry[q].run], Told(log, registry[q].run))
      BY <3>1 DEF ViewInv
    <3>3. registry[q].run # m.run
      BY <1>1, <2>3, <3>2
    <3> QED
      BY <1>6, <3>1, <3>2, <3>3
  <2> QED
    BY <2>1, <2>2, <2>3
<1>12. IsFiniteSet(Listed')
  <2>1. Listed' \subseteq Listed \cup {s}
    BY <1>4 DEF Listed
  <2>2. IsFiniteSet(Listed \cup {s})
    BY FS_AddElement DEF ViewInv
  <2> QED
    BY <2>1, <2>2, FS_Subset
<1>13. \A r \in Runs : wire'[r] # NoMessage => wire'[r].run = r /\ MessageTrue(wire'[r], life[r])
  BY DEF ViewInv
<1>14. \A x \in acks' : x.kind = "ack" /\ MessageTrue(x, life[x.run])
  BY DEF ViewInv
<1>15. \A q \in Listed' : /\ SimIdOf[registry'[q].run] = q
                          /\ RecordTrue(registry'[q], life[registry'[q].run], Told(log', registry'[q].run))
  BY <1>11 DEF Listed
<1> QED
  BY <1>7, <1>12, <1>13, <1>14, <1>15 DEF ViewInv

\* The views are true in the beginning.
LEMMA ViewInit == ASSUME Init PROVE ViewInv
<1>1. Listed = {}
  BY DEF Init, Listed, Fresh
<1>2. \A r : Told(log, r) = {}
  BY DEF Init, Told
<1>3. IsFiniteSet(Listed)
  BY <1>1, FS_EmptySet
<1> QED
  BY <1>1, <1>2, <1>3 DEF Init, ViewInv

\* Every step keeps the views true.
LEMMA ViewInvKept == ASSUME WaitInv, ViewInv, [Next]_vars PROVE ViewInv'
<1>1. ASSUME NEW r \in Runs, Post(r) \/ SendLost(r) \/ AckAgain(r)
      PROVE  ViewInv'
  BY <1>1, ViewPost, ViewSendLost, ViewAckAgain
<1>2. ASSUME NEW r \in Runs, Deliver(r)
      PROVE  ViewInv'
  <2>1. /\ Receive(wire[r]) /\ Storable(wire[r]) /\ wire[r].run = r /\ MessageTrue(wire[r], life[r])
        /\ UNCHANGED <<life, acks>> /\ wire' = [wire EXCEPT ![r] = NoMessage]
        /\ wire \in [Runs -> Message \cup {NoMessage}]
    BY <1>2 DEF Deliver, WaitInv, TypeOK, RunsShaped, ViewInv
  <2>2. \A q \in Runs : wire'[q] = wire[q] \/ wire'[q] = NoMessage
    BY <2>1
  <2> QED
    BY <2>1, <2>2, ViewReceive
<1>3. CASE DeliverAck
  <2>1. PICK m \in acks : Receive(m) /\ acks' = acks \ {m} /\ UNCHANGED <<life, wire>>
    BY <1>3 DEF DeliverAck
  <2>2. Storable(m) /\ MessageTrue(m, life[m.run])
    BY <2>1 DEF WaitInv, RunsShaped, ViewInv
  <2> QED
    BY <2>1, <2>2, ViewReceive
<1>4. ASSUME UNCHANGED <<life, wire, acks, registry, log>>
      PROVE  ViewInv'
  BY <1>4 DEF ViewInv, Listed
<1>5. CASE Tick
  BY <1>4, <1>5 DEF Tick, runVars
<1>6. ASSUME NEW c \in Callers, Wait(c) \/ Loop(c) \/ Wake(c) \/ ClientAborts(c)
      PROVE  ViewInv'
  BY <1>4, <1>6 DEF Wait, Loop, Wake, ClientAborts, runVars
<1>7. CASE UNCHANGED vars
  BY <1>4, <1>7 DEF vars, runVars
<1> QED
  BY <1>1, <1>2, <1>3, <1>5, <1>6, <1>7 DEF Next

\* The views are true in every reachable state.
LEMMA ViewInvAlways == Spec => [](WaitInv /\ ViewInv)
<1>1. Init => WaitInv /\ ViewInv
  BY InitOK, ViewInit
<1>2. WaitInv /\ ViewInv /\ [Next]_vars => (WaitInv /\ ViewInv)'
  BY WaitInvKept, ViewInvKept
<1> QED
  BY <1>1, <1>2, PTL DEF Spec

-----------------------------------------------------------------------------
(* What the views show. *)

\* The first of some kinds is one of them.
LEMMA FirstIsOne ==
  ASSUME NEW hits \in SUBSET (1 .. 6), hits # {}
  PROVE  Min(hits) \in hits
<1>1. \E x \in hits : \A y \in hits : x <= y
  <2>1. CASE 1 \in hits
    BY <2>1
  <2>2. CASE 1 \notin hits /\ 2 \in hits
    BY <2>2
  <2>3. CASE 1 \notin hits /\ 2 \notin hits /\ 3 \in hits
    BY <2>3
  <2>4. CASE 1 \notin hits /\ 2 \notin hits /\ 3 \notin hits /\ 4 \in hits
    BY <2>4
  <2>5. CASE 1 \notin hits /\ 2 \notin hits /\ 3 \notin hits /\ 4 \notin hits /\ 5 \in hits
    BY <2>5
  <2>6. CASE 1 \notin hits /\ 2 \notin hits /\ 3 \notin hits /\ 4 \notin hits /\ 5 \notin hits
    <3>1. \A y \in hits : y = 6
      BY <2>6
    <3>2. 6 \in hits
      BY <3>1
    <3> QED
      BY <3>1, <3>2
  <2> QED
    BY <2>1, <2>2, <2>3, <2>4, <2>5, <2>6
<1> QED
  BY <1>1 DEF Min

\* An alert that is shown has a reason.
LEMMA AlertRaises ==
  ASSUME NEW rec, Alert(rec) # "none"
  PROVE  Raises(rec, Alert(rec))
<1>1. PICK hits : hits = {i \in DOMAIN AlertKinds : Raises(rec, AlertKinds[i])}
  OBVIOUS
<1>2. hits \in SUBSET (1 .. 6) /\ \A i \in hits : Raises(rec, AlertKinds[i])
  <2>1. DOMAIN AlertKinds = 1 .. 6
    BY DEF AlertKinds
  <2> QED
    BY <1>1, <2>1
<1>3. Alert(rec) = IF hits = {} THEN "none" ELSE AlertKinds[Min(hits)]
  BY <1>1 DEF Alert
<1>4. hits # {}
  BY <1>3
<1> QED
  BY <1>2, <1>3, <1>4, FirstIsOne

\* An alert agrees with the run (detect_alerts).
LEMMA AlertsHold == ASSUME WaitInv, ViewInv PROVE AlertsAreTrue
<1> SUFFICES ASSUME NEW s \in Listed
             PROVE  LET rec  == registry[s]
                        told == {m.st : m \in {log[i] : i \in {j \in DOMAIN log : log[j].run = rec.run}}}
                    IN CASE Alert(rec) = "failed" -> life[rec.run].st \in {"failed", "job_failed",
                                                                           "rejected"}
                         [] Alert(rec) = "cancelled" -> "cancelled" \in told
                         [] Alert(rec) = "suspect" -> "results_ready" \in told
                         [] Alert(rec) = "blocked" -> told \cap RunningOrLater = {}
                         [] Alert(rec) = "stalled" -> told \cap {"job_running", "step_finished"} # {}
                         [] OTHER -> TRUE
  BY DEF AlertsAreTrue
<1>1. PICK rec, l, told, kind :
        /\ rec = registry[s] /\ l = life[rec.run] /\ told = Told(log, rec.run) /\ kind = Alert(rec)
  OBVIOUS
<1>2. told = {m.st : m \in {log[i] : i \in {j \in DOMAIN log : log[j].run = rec.run}}}
  BY <1>1 DEF Told
<1>3. RecordTrue(rec, l, told)
  BY <1>1 DEF ViewInv
<1>4. kind # "none" => Raises(rec, kind)
  BY <1>1, AlertRaises
<1>5. kind = "failed" => l.st \in {"failed", "job_failed", "rejected"}
  BY <1>3, <1>4 DEF Raises, RecordTrue, Ruined
<1>6. kind = "cancelled" => "cancelled" \in told
  BY <1>3, <1>4 DEF Raises, RecordTrue, RunningOrLater, Terminal
<1>7. kind = "suspect" => "results_ready" \in told
  BY <1>3, <1>4 DEF Raises, RecordTrue, RunningOrLater, Terminal
<1>8. kind = "blocked" => told \cap RunningOrLater = {}
  BY <1>3, <1>4 DEF Raises, RecordTrue
<1>9. kind = "stalled" => told \cap {"job_running", "step_finished"} # {}
  <2> SUFFICES ASSUME kind = "stalled"
               PROVE  told \cap {"job_running", "step_finished"} # {}
    OBVIOUS
  <2>1. Phase(rec) = "running"
    BY <1>4 DEF Raises, Stalled
  <2>2. rec.st \in {"job_running", "step_finished"}
    BY <2>1 DEF Phase
  <2> QED
    BY <1>3, <2>2 DEF RecordTrue, RunningOrLater, Terminal
<1> QED
  BY <1>1, <1>2, <1>5, <1>6, <1>7, <1>8, <1>9

\* Two disjoint parts of a finite set are counted apart.
Parts(A, B, S) == A \cup B \subseteq S /\ A \cap B = {}
Adds(A, B) ==
    /\ Cardinality(A \cup B) = Cardinality(A) + Cardinality(B)
    /\ Cardinality(A) \in Nat /\ Cardinality(B) \in Nat
LEMMA CountedApart ==
  ASSUME NEW S, IsFiniteSet(S), NEW A, NEW B, Parts(A, B, S)
  PROVE  Adds(A, B)
<1>1. IsFiniteSet(A) /\ IsFiniteSet(B)
  BY FS_Subset DEF Parts
<1>2. Cardinality(A \cap B) = 0
  BY FS_EmptySet DEF Parts
<1>3. PICK a \in Nat, b \in Nat : a = Cardinality(A) /\ b = Cardinality(B)
  BY <1>1, FS_CardinalityType
<1>4. Cardinality(A \cup B) = a + b - 0
  BY <1>1, <1>2, <1>3, FS_Union
<1> QED
  BY <1>3, <1>4 DEF Adds

\* The counts of the summary agree with each other and with the phases (fleet_summary).
LEMMA SummaryHolds == ASSUME WaitInv, ViewInv PROVE SummaryAgrees
<1>1. PICK L : L = Listed
  OBVIOUS
<1>2. IsFiniteSet(L) /\ \A s \in L : registry[s].st \in States \cup {""}
  <2>1. \A s \in L : Sound(registry[s])
    BY <1>1 DEF WaitInv, RunsShaped, Listed
  <2> QED
    BY <1>1, <2>1 DEF ViewInv, Sound, SimRecord
<1> DEFINE In(p) == {s \in L : Phase(registry[s]) = p}
<1>3. PICK done, failed, running :
        /\ done = {s \in L : CountsDone(registry[s])}
        /\ failed = {s \in L : CountsFailed(registry[s])}
        /\ running = {s \in L : CountsRunning(registry[s])}
  OBVIOUS
<1>4. /\ FleetSummary.total = Cardinality(L) /\ FleetSummary.done = Cardinality(done)
      /\ FleetSummary.failed = Cardinality(failed) /\ FleetSummary.running = Cardinality(running)
  BY <1>1, <1>3 DEF FleetSummary, Count
<1>5. /\ FleetSummary.byPhase["building"] = Cardinality(In("building"))
      /\ FleetSummary.byPhase["queued"] = Cardinality(In("queued"))
      /\ FleetSummary.byPhase["running"] = Cardinality(In("running"))
      /\ FleetSummary.byPhase["done"] = Cardinality(In("done"))
      /\ FleetSummary.byPhase["failed"] = Cardinality(In("failed"))
      /\ FleetSummary.byPhase["cancelled"] = Cardinality(In("cancelled"))
  BY <1>1 DEF FleetSummary, Count
<1>6. ASSUME NEW rec, rec.st \in States \cup {""}
      PROVE  /\ CountsDone(rec) <=> Phase(rec) = "done"
             /\ CountsFailed(rec) <=> Phase(rec) \in {"failed", "cancelled"}
             /\ CountsRunning(rec) <=> Phase(rec) \in {"building", "queued", "running"}
             /\ Phase(rec) \in {"building", "queued", "running", "done", "failed", "cancelled"}
  <2> USE DEF CountsDone, CountsFailed, CountsRunning, Phase, Active, DoneStates, FailedStates,
              Terminal
  <2>1. CASE rec.st \in {"results_ready", "job_finished"}
    BY <2>1
  <2>2. CASE rec.st \in {"failed", "job_failed"}
    BY <2>2
  <2>3. CASE rec.st = "cancelled"
    BY <2>3
  <2>4. CASE rec.st \in {"job_running", "step_finished"}
    BY <2>4
  <2>5. CASE rec.st \in {"", "accepted", "submitted", "workflow_finished"}
    <3>1. Phase(rec) = IF rec.job THEN "queued" ELSE "building"
      BY <2>5
    <3>2. Phase(rec) \in {"queued", "building"}
      BY <3>1
    <3> QED
      BY <2>5, <3>2
  <2> QED
    BY <1>6, <2>1, <2>2, <2>3, <2>4, <2>5 DEF States
<1>7. /\ done = In("done") /\ failed = In("failed") \cup In("cancelled")
      /\ running = In("building") \cup (In("queued") \cup In("running"))
      /\ L = done \cup (failed \cup running)
      /\ done \cap (failed \cup running) = {} /\ failed \cap running = {}
  BY <1>2, <1>3, <1>6
<1>8. /\ In("failed") \cap In("cancelled") = {} /\ In("queued") \cap In("running") = {}
      /\ In("building") \cap (In("queued") \cup In("running")) = {}
  OBVIOUS
<1> HIDE DEF In
<1>9. Cardinality(failed) = Cardinality(In("failed")) + Cardinality(In("cancelled"))
  <2>1. Parts(In("failed"), In("cancelled"), L)
    BY <1>7, <1>8 DEF Parts
  <2>2. Adds(In("failed"), In("cancelled"))
    BY <1>2, <2>1, CountedApart
  <2> QED
    BY <1>7, <2>2 DEF Adds
<1>10. Cardinality(running) = Cardinality(In("building")) + Cardinality(In("queued")) + Cardinality(In("running"))
  <2>1. PICK q, b, g : q = In("queued") /\ b = In("building") /\ g = In("running")
    OBVIOUS
  <2>2. Parts(q, g, L) /\ Parts(b, q \cup g, L)
    BY <1>7, <1>8, <2>1 DEF Parts
  <2>3. Adds(q, g) /\ Adds(b, q \cup g)
    BY <1>2, <2>2, CountedApart
  <2>5. PICK x \in Nat, y \in Nat, z \in Nat :
          x = Cardinality(b) /\ y = Cardinality(q) /\ z = Cardinality(g)
    BY <2>3 DEF Adds
  <2>6. Cardinality(running) = x + (y + z)
    BY <1>7, <2>1, <2>3, <2>5 DEF Adds
  <2> QED
    BY <2>1, <2>5, <2>6
<1>11. Cardinality(L) = Cardinality(done) + Cardinality(failed) + Cardinality(running)
  <2>1. Parts(failed, running, L) /\ Parts(done, failed \cup running, L)
    BY <1>7 DEF Parts
  <2>2. Adds(failed, running) /\ Adds(done, failed \cup running)
    BY <1>2, <2>1, CountedApart
  <2>3. PICK x \in Nat, y \in Nat, z \in Nat :
          x = Cardinality(done) /\ y = Cardinality(failed) /\ z = Cardinality(running)
    BY <2>2 DEF Adds
  <2>4. Cardinality(L) = x + (y + z)
    BY <1>7, <2>2, <2>3 DEF Adds
  <2> QED
    BY <2>3, <2>4
<1> QED
  BY <1>4, <1>5, <1>7, <1>9, <1>10, <1>11 DEF SummaryAgrees

-----------------------------------------------------------------------------
(* Recursion up to a number, and the condensed events.                     *)

\* Induction, over a set in the place of a predicate.
LEMMA SetInduction ==
  ASSUME NEW S, 0 \in S, \A n \in Nat : n \in S => n + 1 \in S
  PROVE  Nat \subseteq S
<1> DEFINE T == Nat \ S
<1> SUFFICES ASSUME T # {} PROVE FALSE
  OBVIOUS
<1>1. PICK m \in T : \A n \in T : ~(<<n, m>> \in OpToRel(<, Nat))
  <2>1. T \subseteq Nat
    OBVIOUS
  <2> HIDE DEF T
  <2> QED
    BY <2>1, NatLessThanWellFounded, WFMin
<1>2. ASSUME NEW n \in T, n < m
      PROVE  FALSE
  <2>1. <<n, m>> \in Nat \X Nat /\ <<n, m>>[1] < <<n, m>>[2]
    BY <1>2
  <2> QED
    BY <2>1, <1>1 DEF OpToRel
<1>3. m # 0
  OBVIOUS
<1>4. m - 1 \in Nat /\ m - 1 \in S
  BY <1>2, <1>3
<1> QED
  BY <1>4

\* f is the recursion from c by the steps of G, up to N.
RecursTo(f, N, c, G, V) ==
    /\ f \in [0 .. N -> V] /\ f[0] = c
    /\ \A n \in 1 .. N : f[n] = G[n][f[n - 1]]

\* A recursion up to a number defines a function.
LEMMA RecursionTo ==
  ASSUME NEW N \in Nat, NEW V, NEW c \in V, NEW G \in [1 .. N -> [V -> V]]
  PROVE  \E f : RecursTo(f, N, c, G, V)
<1> DEFINE S == {n \in Nat : n <= N => \E g : RecursTo(g, n, c, G, V)}
<1>1. 0 \in S
  <2>1. RecursTo([k \in 0 .. 0 |-> c], 0, c, G, V)
    BY DEF RecursTo
  <2> QED
    BY <2>1
<1>2. ASSUME NEW n \in Nat, n \in S, n + 1 <= N
      PROVE  \E g : RecursTo(g, n + 1, c, G, V)
  <2>1. PICK g : RecursTo(g, n, c, G, V)
    BY <1>2
  <2> DEFINE h == [k \in 0 .. n + 1 |-> IF k <= n THEN g[k] ELSE G[n + 1][g[n]]]
  <2>2. n + 1 \in 1 .. N
    BY <1>2
  <2>3. g \in [0 .. n -> V] /\ g[n] \in V /\ G[n + 1] \in [V -> V] /\ G[n + 1][g[n]] \in V
    BY <2>1, <2>2 DEF RecursTo
  <2>4. h \in [0 .. n + 1 -> V] /\ h[0] = c
    BY <2>1, <2>3 DEF RecursTo
  <2>5. ASSUME NEW k \in 1 .. n + 1
        PROVE  h[k] = G[k][h[k - 1]]
    <3>1. CASE k = n + 1
      BY <3>1
    <3>2. CASE k # n + 1
      <4>1. k \in 1 .. n /\ k - 1 \in 0 .. n
        BY <3>2
      <4> QED
        BY <4>1, <2>1 DEF RecursTo
    <3> QED
      BY <3>1, <3>2
  <2> HIDE DEF h
  <2> QED
    BY <2>4, <2>5 DEF RecursTo
<1>3. \A n \in Nat : n \in S => n + 1 \in S
  BY <1>2
<1> HIDE DEF S
<1>4. Nat \subseteq S
  BY <1>1, <1>3, SetInduction
<1> QED
  BY <1>4 DEF S

\* The events that are kept are a sequence of messages.
LEMMA KeptType ==
  ASSUME log \in Seq(Message), NEW s, NEW since, NEW types
  PROVE  Kept(s, since, types) \in Seq(Message)
<1> DEFINE N == Len(log)
           V == Seq(Message)
           W(n) == Wanted(log[n], s, since, types)
           Body(g) == [n \in 0 .. N |->
               IF n = 0 THEN <<>> ELSE IF W(n) THEN Append(g[n - 1], log[n]) ELSE g[n - 1]]
           F == CHOOSE g : g = Body(g)
           G == [n \in 1 .. N |-> [v \in V |-> IF W(n) THEN Append(v, log[n]) ELSE v]]
           c == <<>>
<1>1. N \in Nat /\ c \in V /\ \A n \in 1 .. N : log[n] \in Message
  OBVIOUS
<1>2. G \in [1 .. N -> [V -> V]]
  <2>1. ASSUME NEW n \in 1 .. N, NEW v \in V
        PROVE  (IF W(n) THEN Append(v, log[n]) ELSE v) \in V
    <3> HIDE DEF W
    <3> QED
      BY <1>1
  <2> QED
    BY <2>1
<1>3. PICK h : RecursTo(h, N, c, G, V)
  <2> HIDE DEF N, V, G, c
  <2> QED
    BY <1>1, <1>2, RecursionTo
<1>4. h = Body(h)
  <2>1. \A n \in 1 .. N : n - 1 \in 0 .. N
    BY <1>1
  <2>2. \A n \in 1 .. N : h[n] = IF W(n) THEN Append(h[n - 1], log[n]) ELSE h[n - 1]
    <3> HIDE DEF W, N, V
    <3> QED
      BY <1>3, <2>1 DEF RecursTo
  <2>3. DOMAIN h = 0 .. N /\ h[0] = <<>> /\ h \in [0 .. N -> V]
    BY <1>3 DEF RecursTo
  <2> HIDE DEF W, N, V, G
  <2>4. ASSUME NEW n \in 0 .. N
        PROVE  h[n] = IF n = 0 THEN <<>> ELSE IF W(n) THEN Append(h[n - 1], log[n]) ELSE h[n - 1]
    <3>1. n = 0 \/ n \in 1 .. N
      BY <1>1
    <3> QED
      BY <2>2, <2>3, <3>1
  <2>5. h = [n \in 0 .. N |-> h[n]]
    BY <2>3
  <2> QED
    BY <2>4, <2>5
<1>5. F = Body(F)
  BY <1>4
<1>6. \A n \in 1 .. N : n \in 0 .. N /\ n # 0 /\ n - 1 \in Nat
  BY <1>1
<1>7. F[0] = <<>> /\ \A n \in 1 .. N : F[n] = IF W(n) THEN Append(F[n - 1], log[n]) ELSE F[n - 1]
  <2> HIDE DEF F, W
  <2>1. 0 \in 0 .. N
    BY <1>1
  <2>2. Body(F)[0] = <<>> /\ \A n \in 1 .. N :
            Body(F)[n] = IF W(n) THEN Append(F[n - 1], log[n]) ELSE F[n - 1]
    BY <1>6, <2>1
  <2> QED
    BY <2>2, <1>5
<1> DEFINE S == {n \in Nat : n <= N => F[n] \in V}
<1>8. Nat \subseteq S
  <2> HIDE DEF F, W
  <2>1. 0 \in S
    BY <1>1, <1>7
  <2>2. ASSUME NEW n \in Nat, n \in S
        PROVE  n + 1 \in S
    <3>1. CASE n + 1 <= N
      <4>1. n + 1 \in 1 .. N /\ (n + 1) - 1 = n /\ F[n] \in V
        BY <3>1, <2>2, <1>1
      <4>2. F[n + 1] = IF W(n + 1) THEN Append(F[n], log[n + 1]) ELSE F[n]
        BY <4>1, <1>7
      <4>3. Append(F[n], log[n + 1]) \in V
        BY <4>1, <1>1, AppendProperties
      <4>4. F[n + 1] \in V
        <5>1. CASE W(n + 1)
          BY <4>2, <4>3, <5>1
        <5>2. CASE ~W(n + 1)
          BY <4>1, <4>2, <5>2
        <5> QED
          BY <5>1, <5>2
      <4> QED
        BY <4>4, <4>1
    <3> QED
      BY <3>1, <1>1
  <2> HIDE DEF S
  <2> QED
    BY <2>1, <2>2, SetInduction
<1>9. F[N] \in V
  BY <1>8, <1>1
<1>10. Kept(s, since, types) = F[N]
  BY DEF Kept
<1> QED
  BY <1>9, <1>10

\* The last events of the stretches of the first n events.
Ends(ev, n) == {i \in 1 .. n : i = n \/ ev[i + 1].st # ev[i].st}

\* The rows are the events at those places, in order.
ListsAt(row, at, ev, n) ==
    /\ row \in Seq(Message) /\ at \in [1 .. Len(row) -> Ends(ev, n)]
    /\ \A k \in 1 .. Len(row) : row[k] = ev[at[k]]
    /\ \A k, l \in 1 .. Len(row) : k < l => at[k] < at[l]
    /\ \A i \in Ends(ev, n) : \E k \in 1 .. Len(row) : at[k] = i
    /\ n > 0 => Len(row) > 0 /\ at[Len(row)] = n

\* The rows after the next event are the first j of those before, then that event.
Extends(new, j, row, m) ==
    /\ new \in Seq(Message) /\ Len(new) = j + 1 /\ j <= Len(row)
    /\ \A k \in 1 .. j : new[k] = row[k]
    /\ new[j + 1] = m

\* They list the ends if the first j rows listed all the ends but the last.
LEMMA ListsLonger ==
  ASSUME NEW ev \in Seq(Message), NEW n \in Nat, NEW row, NEW at, ListsAt(row, at, ev, n),
         NEW j \in Nat, NEW new, Extends(new, j, row, ev[n + 1]),
         Ends(ev, n + 1) = {at[k] : k \in 1 .. j} \cup {n + 1}
  PROVE  \E new_at : ListsAt(new, new_at, ev, n + 1)
<1> DEFINE na == [k \in 1 .. j + 1 |-> IF k = j + 1 THEN n + 1 ELSE at[k]]
<1>1. PICK L \in Nat : L = Len(row) /\ j <= L
  BY DEF ListsAt, Extends
<1>2. /\ \A k \in 1 .. j : k \in 1 .. L /\ k \in 1 .. j + 1 /\ k # j + 1
      /\ \A k \in 1 .. j + 1 : k = j + 1 \/ k \in 1 .. j
      /\ j + 1 \in 1 .. j + 1
  BY <1>1
<1>3. \A k \in 1 .. L : at[k] \in 1 .. n
  BY <1>1 DEF ListsAt, Ends
<1>4. /\ DOMAIN na = 1 .. j + 1 /\ na[j + 1] = n + 1 /\ \A k \in 1 .. j : na[k] = at[k]
      /\ na = [k \in 1 .. j + 1 |-> na[k]]
  BY <1>2
<1> HIDE DEF na
<1>5. Len(new) = j + 1 /\ new \in Seq(Message) /\ new[j + 1] = ev[n + 1]
  BY DEF Extends
<1>6. na \in [1 .. j + 1 -> Ends(ev, n + 1)]
  <2>1. \A k \in 1 .. j + 1 : na[k] \in Ends(ev, n + 1)
    BY <1>2, <1>4
  <2> QED
    BY <1>4, <2>1
<1>7. \A k \in 1 .. j + 1 : new[k] = ev[na[k]]
  <2>1. \A k \in 1 .. j : new[k] = ev[at[k]]
    BY <1>1, <1>2 DEF Extends, ListsAt
  <2> QED
    BY <1>2, <1>4, <1>5, <2>1
<1>8. ASSUME NEW k \in 1 .. j + 1, NEW l \in 1 .. j + 1, k < l
      PROVE  na[k] < na[l]
  <2>1. k \in 1 .. j /\ k \in 1 .. L /\ na[k] = at[k] /\ at[k] \in 1 .. n
    BY <1>1, <1>2, <1>3, <1>4, <1>8
  <2>2. CASE l = j + 1
    BY <2>1, <2>2, <1>4
  <2>3. CASE l \in 1 .. j
    <3>1. l \in 1 .. L /\ na[l] = at[l]
      BY <1>2, <1>4, <2>3
    <3>2. at[k] < at[l]
      BY <1>1, <1>8, <2>1, <3>1 DEF ListsAt
    <3> QED
      BY <2>1, <3>1, <3>2
  <2> QED
    BY <1>2, <2>2, <2>3
<1>9. \A i \in Ends(ev, n + 1) : \E k \in 1 .. j + 1 : na[k] = i
  BY <1>2, <1>4
<1>10. \A k, l \in 1 .. j + 1 : k < l => na[k] < na[l]
  BY <1>8
<1>11. ListsAt(new, na, ev, n + 1)
  <2>1. PICK M \in Nat : M = j + 1 /\ M > 0
    OBVIOUS
  <2> QED
    BY <2>1, <1>4, <1>5, <1>6, <1>7, <1>9, <1>10 DEF ListsAt
<1> QED
  BY <1>11

\* Collapsing the next event into the rows lists the ends with it.
LEMMA CollapseLists ==
  ASSUME NEW ev \in Seq(Message), NEW n \in Nat, n + 1 <= Len(ev),
         NEW row, NEW at, ListsAt(row, at, ev, n)
  PROVE  \E new_at : ListsAt(Collapse(row, ev[n + 1]), new_at, ev, n + 1)
<1> DEFINE new == Collapse(row, ev[n + 1])
<1>1. PICK L \in Nat : L = Len(row) /\ row \in Seq(Message)
  BY DEF ListsAt
<1>2. PICK m \in Message : m = ev[n + 1]
  <2>1. n + 1 \in 1 .. Len(ev)
    OBVIOUS
  <2> QED
    BY <2>1
<1>3. row = <<>> <=> L = 0
  BY <1>1
<1>4. L > 0 => n > 0
  <2>1. Ends(ev, 0) = {}
    BY DEF Ends
  <2>2. L > 0 => at[1] \in Ends(ev, n)
    BY <1>1 DEF ListsAt
  <2> QED
    BY <2>1, <2>2
<1>5. L > 0 => at[L] = n /\ row[L] = ev[n] /\ n \in 1 .. n
  BY <1>1, <1>4 DEF ListsAt
<1>6. /\ {at[k] : k \in 1 .. L} = Ends(ev, n)
      /\ \A k \in 1 .. L : at[k] \in 1 .. n /\ (k < L => at[k] < n)
  <2>1. at \in [1 .. L -> Ends(ev, n)] /\ \A i \in Ends(ev, n) : \E k \in 1 .. L : at[k] = i
    BY <1>1 DEF ListsAt
  <2>2. Ends(ev, n) \subseteq 1 .. n
    BY DEF Ends
  <2>3. ASSUME NEW k \in 1 .. L, k < L
        PROVE  at[k] < n
    <3>1. L \in 1 .. L /\ at[L] = n
      BY <1>5, <2>3
    <3>2. at[k] < at[L]
      BY <1>1, <2>3, <3>1 DEF ListsAt
    <3> QED
      BY <3>1, <3>2
  <2> QED
    BY <2>1, <2>2, <2>3
<1>7. n + 1 \in Ends(ev, n + 1) /\ \A i \in 1 .. n - 1 : i \in Ends(ev, n) <=> i \in Ends(ev, n + 1)
  BY DEF Ends
<1>8. Ends(ev, n) \subseteq 1 .. n /\ Ends(ev, n + 1) \subseteq 1 .. n + 1
  BY DEF Ends
<1>9. CASE row # <<>> /\ Last(row).st = m.st
  <2>1. PICK j \in Nat : j + 1 = L
    BY <1>1, <1>3, <1>9
  <2>2. n > 0 /\ at[L] = n /\ ev[n].st = ev[n + 1].st
    BY <1>1, <1>2, <1>3, <1>4, <1>5, <1>9 DEF Last
  <2>3. n \notin Ends(ev, n + 1)
    BY <2>2 DEF Ends
  <2>4. Ends(ev, n + 1) = {at[k] : k \in 1 .. j} \cup {n + 1}
    <3>1. ASSUME NEW i \in Ends(ev, n + 1), i # n + 1
          PROVE  i \in {at[k] : k \in 1 .. j}
      <4>1. i \in 1 .. n - 1 /\ i \in Ends(ev, n)
        BY <1>7, <1>8, <2>3, <3>1
      <4>2. PICK k \in 1 .. L : at[k] = i
        BY <1>6, <4>1
      <4>3. k \in 1 .. j
        BY <2>1, <2>2, <4>1, <4>2
      <4> QED
        BY <4>2, <4>3
    <3>2. ASSUME NEW k \in 1 .. j
          PROVE  at[k] \in Ends(ev, n + 1)
      <4>1. k \in 1 .. L /\ k < L
        BY <2>1
      <4>2. at[k] \in Ends(ev, n) /\ at[k] \in 1 .. n - 1
        BY <1>6, <4>1
      <4> QED
        BY <1>7, <4>2
    <3> QED
      BY <1>7, <3>1, <3>2
  <2>5. Extends(new, j, row, m)
    <3>1. PICK front : front = Front(row)
      OBVIOUS
    <3>2. front \in Seq(Message) /\ Len(front) = j /\ \A k \in 1 .. j : front[k] = row[k]
      <4>1. front = SubSeq(row, 1, j)
        BY <1>1, <2>1, <3>1 DEF Front
      <4>2. \A k \in 1 .. L : row[k] \in Message
        BY <1>1
      <4> QED
        BY <1>1, <2>1, <4>1, <4>2
    <3>3. new = Append(front, m)
      BY <1>2, <1>9, <3>1 DEF Collapse
    <3> HIDE DEF new
    <3> QED
      BY <1>1, <2>1, <3>2, <3>3 DEF Extends
  <2> HIDE DEF new
  <2>6. Extends(new, j, row, ev[n + 1])
    BY <1>2, <2>5
  <2> QED
    BY <2>4, <2>6, ListsLonger DEF new
<1>10. CASE ~(row # <<>> /\ Last(row).st = m.st)
  <2>1. n > 0 => n \in Ends(ev, n + 1)
    <3>1. n > 0 => row # <<>> /\ Last(row) = ev[n]
      <4>1. n > 0 => L > 0
        BY <1>1 DEF ListsAt
      <4> QED
        BY <1>1, <1>3, <1>5, <4>1 DEF Last
    <3>2. n > 0 => ev[n + 1].st # ev[n].st
      BY <1>2, <1>10, <3>1
    <3> QED
      BY <3>2 DEF Ends
  <2>2. Ends(ev, n + 1) = {at[k] : k \in 1 .. L} \cup {n + 1}
    <3>1. n > 0 => n \in Ends(ev, n)
      BY DEF Ends
    <3>2. ASSUME NEW i \in 1 .. n
          PROVE  i \in Ends(ev, n) <=> i \in Ends(ev, n + 1)
      <4>1. CASE i = n
        BY <2>1, <3>1, <4>1
      <4>2. CASE i # n
        BY <1>7, <4>2
      <4> QED
        BY <4>1, <4>2
    <3>3. \A i \in 1 .. n + 1 : i = n + 1 \/ i \in 1 .. n
      OBVIOUS
    <3> QED
      BY <1>6, <1>7, <1>8, <3>2, <3>3
  <2>3. Extends(new, L, row, m)
    <3>1. new = Append(row, m)
      BY <1>2, <1>10 DEF Collapse
    <3> HIDE DEF new
    <3> QED
      BY <1>1, <3>1, AppendProperties DEF Extends
  <2> HIDE DEF new
  <2>4. Extends(new, L, row, ev[n + 1])
    BY <1>2, <2>3
  <2> QED
    BY <2>2, <2>4, ListsLonger DEF new
<1> QED
  BY <1>9, <1>10

\* Collapsing event after event.
CollapsedBy(rows, ev) ==
    /\ rows[0] = <<>> /\ Collapsed(ev) = rows[Len(ev)]
    /\ \A n \in 1 .. Len(ev) : rows[n] = Collapse(rows[n - 1], ev[n])

\* There is such a function.
LEMMA CollapsedSteps ==
  ASSUME NEW ev \in Seq(Message)
  PROVE  \E rows : CollapsedBy(rows, ev)
<1> DEFINE N == Len(ev)
           V == Seq(Message)
           Body(g) == [n \in 0 .. N |-> IF n = 0 THEN <<>> ELSE Collapse(g[n - 1], ev[n])]
           F == CHOOSE g : g = Body(g)
           G == [n \in 1 .. N |-> [v \in V |-> Collapse(v, ev[n])]]
           c == <<>>
<1>1. N \in Nat /\ c \in V /\ \A n \in 1 .. N : ev[n] \in Message
  OBVIOUS
<1>2. G \in [1 .. N -> [V -> V]]
  <2>1. ASSUME NEW n \in 1 .. N, NEW v \in V
        PROVE  Collapse(v, ev[n]) \in V
    <3>1. PICK m \in Message : m = ev[n]
      BY <1>1
    <3>2. Front(v) \in Seq(Message) \/ v = <<>>
      BY DEF Front
    <3> QED
      BY <3>1, <3>2 DEF Collapse
  <2> QED
    BY <2>1
<1>3. PICK h : RecursTo(h, N, c, G, V)
  <2> HIDE DEF N, V, G, c
  <2> QED
    BY <1>1, <1>2, RecursionTo
<1>4. h = Body(h)
  <2>1. \A n \in 1 .. N : n - 1 \in 0 .. N
    BY <1>1
  <2>2. \A n \in 1 .. N : h[n] = Collapse(h[n - 1], ev[n])
    <3> HIDE DEF N, V
    <3> QED
      BY <1>3, <2>1 DEF RecursTo
  <2>3. DOMAIN h = 0 .. N /\ h[0] = <<>> /\ h \in [0 .. N -> V]
    BY <1>3 DEF RecursTo
  <2> HIDE DEF N, V, G
  <2>4. ASSUME NEW n \in 0 .. N
        PROVE  h[n] = IF n = 0 THEN <<>> ELSE Collapse(h[n - 1], ev[n])
    <3>1. n = 0 \/ n \in 1 .. N
      BY <1>1
    <3> QED
      BY <2>2, <2>3, <3>1
  <2>5. h = [n \in 0 .. N |-> h[n]]
    BY <2>3
  <2> QED
    BY <2>4, <2>5
<1>5. F = Body(F)
  BY <1>4
<1>6. \A n \in 1 .. N : n \in 0 .. N /\ n # 0
  BY <1>1
<1>7. F[0] = <<>> /\ \A n \in 1 .. N : F[n] = Collapse(F[n - 1], ev[n])
  <2> HIDE DEF F
  <2>1. 0 \in 0 .. N
    BY <1>1
  <2>2. Body(F)[0] = <<>> /\ \A n \in 1 .. N : Body(F)[n] = Collapse(F[n - 1], ev[n])
    BY <1>6, <2>1
  <2> QED
    BY <2>2, <1>5
<1>8. Collapsed(ev) = F[N]
  BY DEF Collapsed
<1>9. CollapsedBy(F, ev)
  <2> HIDE DEF F
  <2> QED
    BY <1>7, <1>8 DEF CollapsedBy
<1> QED
  BY <1>9

\* The collapsed rows list the ends of all the events.
LEMMA CollapsedLists ==
  ASSUME NEW ev \in Seq(Message)
  PROVE  \E at : ListsAt(Collapsed(ev), at, ev, Len(ev))
<1>1. PICK rows : CollapsedBy(rows, ev)
  BY CollapsedSteps
<1> DEFINE S == {n \in Nat : n <= Len(ev) => \E at : ListsAt(rows[n], at, ev, n)}
<1>2. 0 \in S
  <2> DEFINE none == <<>>
  <2>1. none \in Seq(Message) /\ Len(none) = 0 /\ Ends(ev, 0) = {} /\ 1 .. 0 = {}
    BY DEF Ends
  <2>2. none \in [1 .. 0 -> Ends(ev, 0)]
    OBVIOUS
  <2> HIDE DEF none
  <2>3. ListsAt(none, none, ev, 0)
    BY <2>1, <2>2 DEF ListsAt
  <2>4. rows[0] = none
    BY <1>1 DEF CollapsedBy, none
  <2> QED
    BY <2>3, <2>4
<1>3. ASSUME NEW n \in Nat, n \in S, n + 1 <= Len(ev)
      PROVE  \E at : ListsAt(rows[n + 1], at, ev, n + 1)
  <2>1. n + 1 \in 1 .. Len(ev) /\ (n + 1) - 1 = n /\ n <= Len(ev)
    BY <1>3
  <2>2. PICK at : ListsAt(rows[n], at, ev, n)
    BY <1>3, <2>1
  <2>3. rows[n + 1] = Collapse(rows[n], ev[n + 1])
    BY <1>1, <2>1 DEF CollapsedBy
  <2>4. \E new_at : ListsAt(Collapse(rows[n], ev[n + 1]), new_at, ev, n + 1)
    BY <1>3, <2>2, CollapseLists
  <2> QED
    BY <2>3, <2>4
<1>4. ASSUME NEW n \in Nat, n \in S
      PROVE  n + 1 \in S
  <2>1. n + 1 \in Nat
    OBVIOUS
  <2>2. n + 1 <= Len(ev) => \E at : ListsAt(rows[n + 1], at, ev, n + 1)
    BY <1>3, <1>4
  <2> QED
    BY <2>1, <2>2
<1> HIDE DEF S
<1>5. Nat \subseteq S
  BY <1>2, <1>4, SetInduction
<1>6. Len(ev) \in Nat
  OBVIOUS
<1>7. \E at : ListsAt(rows[Len(ev)], at, ev, Len(ev))
  BY <1>5, <1>6 DEF S
<1> QED
  BY <1>1, <1>7 DEF CollapsedBy

\* As many ends are not before the k-th row as there are rows from the k-th on.
From(ev, i) == {j \in Ends(ev, Len(ev)) : j >= i}
LEMMA ListCounts ==
  ASSUME NEW ev \in Seq(Message), NEW row, NEW at, ListsAt(row, at, ev, Len(ev)),
         NEW k \in 1 .. Len(row)
  PROVE  Cardinality(From(ev, at[k])) = Len(row) - k + 1
<1>1. PICK L \in Nat, n \in Nat : L = Len(row) /\ n = Len(ev) /\ k \in 1 .. L
  BY DEF ListsAt
<1> DEFINE T == From(ev, at[k])
           f == [l \in k .. L |-> at[l]]
<1>2. /\ at \in [1 .. L -> Ends(ev, n)]
      /\ \A p, q \in 1 .. L : p < q => at[p] < at[q]
      /\ \A i \in Ends(ev, n) : \E l \in 1 .. L : at[l] = i
  BY <1>1 DEF ListsAt
<1>3. \A l \in 1 .. L : at[l] \in Ends(ev, n) /\ at[l] \in 1 .. n
  BY <1>2 DEF Ends
<1>4. \A l \in k .. L : l \in 1 .. L
  BY <1>1
<1>5. f \in [k .. L -> T]
  <2>1. ASSUME NEW l \in k .. L
        PROVE  at[l] \in T
    <3>1. at[l] >= at[k]
      <4>1. l = k \/ k < l
        OBVIOUS
      <4> QED
        BY <1>1, <1>2, <1>3, <1>4, <4>1
    <3> QED
      BY <1>1, <1>3, <1>4, <3>1 DEF From
  <2> HIDE DEF T
  <2> QED
    BY <2>1
<1>6. \A p, q \in k .. L : f[p] = f[q] => p = q
  <2>1. SUFFICES ASSUME NEW p \in k .. L, NEW q \in k .. L, p # q PROVE at[p] # at[q]
    OBVIOUS
  <2>2. p < q \/ q < p
    BY <2>1
  <2>3. at[p] < at[q] \/ at[q] < at[p]
    BY <1>2, <1>4, <2>2
  <2> QED
    BY <1>3, <1>4, <2>3
<1>7. \A t \in T : \E l \in k .. L : f[l] = t
  <2>1. SUFFICES ASSUME NEW t \in T PROVE \E l \in k .. L : at[l] = t
    OBVIOUS
  <2>2. t \in Ends(ev, n) /\ t >= at[k]
    BY <1>1, <2>1 DEF From
  <2>3. PICK l \in 1 .. L : at[l] = t
    BY <1>2, <2>2
  <2>4. ~(l < k)
    <3>1. SUFFICES ASSUME l < k PROVE FALSE
      OBVIOUS
    <3>2. at[l] < at[k]
      BY <1>1, <1>2, <3>1
    <3> QED
      BY <1>1, <1>3, <2>2, <2>3, <3>2
  <2> QED
    BY <1>1, <2>3, <2>4
<1>8. f \in Bijection(k .. L, T)
  <2> HIDE DEF f, T
  <2> QED
    BY <1>5, <1>6, <1>7 DEF Bijection, Injection, Surjection, IsInjective
<1>9. ExistsBijection(k .. L, T)
  BY <1>8 DEF ExistsBijection
<1>10. IsFiniteSet(k .. L) /\ Cardinality(k .. L) = L - k + 1
  BY <1>1, FS_Interval
<1> HIDE DEF T
<1>11. Cardinality(T) = Cardinality(k .. L)
  BY <1>9, <1>10, FS_Bijection
<1> QED
  BY <1>1, <1>10, <1>11 DEF T

\* The least of three numbers.
LEMMA MinIs ==
  ASSUME NEW a \in Int, NEW b \in Int, NEW c \in Int, NEW m \in {a, b, c},
         m <= a, m <= b, m <= c
  PROVE  Min({a, b, c}) = m
<1>1. \A x \in {a, b, c} : m <= x
  OBVIOUS
<1>2. \A x \in {a, b, c} : (\A y \in {a, b, c} : x <= y) => x = m
  <2>1. ASSUME NEW x \in {a, b, c}, \A y \in {a, b, c} : x <= y
        PROVE  x = m
    <3>1. x <= m /\ m <= x /\ x \in Int /\ m \in Int
      BY <1>1, <2>1
    <3> QED
      BY <3>1
  <2> QED
    BY <2>1
<1>3. (CHOOSE x \in {a, b, c} : \A y \in {a, b, c} : x <= y) = m
  BY <1>1, <1>2
<1> QED
  BY <1>3 DEF Min

\* The newest rows of a list of the ends are what the property asks for.
Page(rows, ev, size) ==
    /\ Len(rows) = size
    /\ \A k \in 1 .. size :
         \E i \in Ends(ev, Len(ev)) : ev[i] = rows[k] /\ Cardinality(From(ev, i)) = size - k + 1
LEMMA NewestRows ==
  ASSUME NEW ev \in Seq(Message), NEW R, NEW at, ListsAt(R, at, ev, Len(ev)),
         NEW size \in Nat, size <= Len(R), NEW lo, lo = Len(R) - size + 1
  PROVE  Page(SubSeq(R, lo, Len(R)), ev, size)
<1>1. PICK L \in Nat : L = Len(R) /\ R \in Seq(Message)
  BY DEF ListsAt
<1> DEFINE rows == SubSeq(R, lo, L)
<1>2. Len(rows) = size /\ \A k \in 1 .. size : rows[k] = R[L - size + k]
  <2>1. /\ lo \in 1 .. L + 1 /\ L \in lo - 1 .. Len(R)
        /\ L - lo + 1 = size /\ (lo <= L \/ size = 0)
    BY <1>1
  <2>2. /\ Len(rows) = IF lo <= L THEN L - lo + 1 ELSE 0
        /\ \A i \in 1 .. L - lo + 1 : rows[i] = R[lo + i - 1]
    BY <1>1, <2>1, SubSeqProperties
  <2>3. \A k \in 1 .. size : lo + k - 1 = L - size + k
    BY <1>1
  <2> HIDE DEF rows
  <2> QED
    BY <2>1, <2>2, <2>3
<1>3. ASSUME NEW k \in 1 .. size
      PROVE  \E i \in Ends(ev, Len(ev)) :
                ev[i] = rows[k] /\ Cardinality(From(ev, i)) = size - k + 1
  <2>0. L - size + k \in 1 .. L /\ L - (L - size + k) + 1 = size - k + 1
    BY <1>1
  <2>1. PICK kk \in 1 .. L : kk = L - size + k /\ L - kk + 1 = size - k + 1
    BY <2>0
  <2>2. at[kk] \in Ends(ev, Len(ev)) /\ R[kk] = ev[at[kk]]
    BY <1>1 DEF ListsAt
  <2>3. Cardinality(From(ev, at[kk])) = L - kk + 1
    BY <1>1, ListCounts
  <2> HIDE DEF rows
  <2> QED
    BY <1>2, <2>1, <2>2, <2>3
<1> HIDE DEF rows
<1>4. Page(rows, ev, size)
  BY <1>2, <1>3 DEF Page
<1> QED
  BY <1>1, <1>4 DEF rows

\* There are as many rows as ends.
LEMMA EndsCounted ==
  ASSUME NEW ev \in Seq(Message), NEW R, NEW at, ListsAt(R, at, ev, Len(ev))
  PROVE  Cardinality(Ends(ev, Len(ev))) = Len(R)
<1>1. PICK L \in Nat, n \in Nat : L = Len(R) /\ n = Len(ev)
  BY DEF ListsAt
<1>2. CASE L = 0
  <2>1. n = 0
    BY <1>1, <1>2 DEF ListsAt
  <2>2. Ends(ev, n) = {}
    BY <2>1 DEF Ends
  <2> QED
    BY <1>1, <1>2, <2>2, FS_EmptySet
<1>3. CASE L > 0
  <2>1. 1 \in 1 .. L
    BY <1>3
  <2>2. ASSUME NEW i \in Ends(ev, n)
        PROVE  i >= at[1]
    <3>1. PICK k \in 1 .. L : at[k] = i
      BY <1>1 DEF ListsAt
    <3>2. at[1] \in 1 .. n /\ at[k] \in 1 .. n
      BY <1>1, <2>1 DEF ListsAt, Ends
    <3>3. 1 < k => at[1] < at[k]
      BY <1>1, <2>1 DEF ListsAt
    <3> QED
      BY <3>1, <3>2, <3>3
  <2>3. From(ev, at[1]) = Ends(ev, n)
    BY <1>1, <2>2 DEF From
  <2>4. Cardinality(From(ev, at[1])) = L - 1 + 1
    BY <1>1, <2>1, ListCounts
  <2> QED
    BY <1>1, <2>3, <2>4
<1> QED
  BY <1>2, <1>3

\* The condensed list is the newest ends of stretches.
LEMMA CondensedHolds ==
  ASSUME WaitInv
  PROVE  CondensedIsStretchEnds
<1>1. SUFFICES ASSUME NEW s \in Sims, NEW types \in {{}, {"submitted", "step_finished"}},
                      NEW n \in {0, 2, MaxEventPage + 1}
      PROVE  LET kept == Kept(s, 2, types)
                 ends == {i \in DOMAIN kept : i = Len(kept) \/ kept[i + 1].st # kept[i].st}
                 rows == CondenseEvents(s, 2, types, n)
                 size == Min({Cardinality(ends), n, MaxEventPage})
             IN /\ Len(rows) = size
                /\ \A k \in 1 .. size :
                     \E i \in ends : kept[i] = rows[k] /\ Cardinality({j \in ends : j >= i}) = size - k + 1
  BY DEF CondensedIsStretchEnds
<1>2. PICK kept \in Seq(Message) : kept = Kept(s, 2, types)
  <2>1. log \in Seq(Message)
    BY DEF WaitInv, TypeOK
  <2> QED
    BY <2>1, KeptType
<1>3. PICK R, at : R = Collapsed(kept) /\ ListsAt(R, at, kept, Len(kept))
  BY CollapsedLists
<1>4. PICK L \in Nat : L = Len(R)
  BY <1>3 DEF ListsAt
<1>5. PICK page \in Nat : page = MaxEventPage /\ n \in Nat
  BY WaitAssumption
<1> DEFINE capped == IF n > page THEN page ELSE n
           lo == IF L > capped THEN L - capped + 1 ELSE 1
<1>6. PICK size \in Nat : /\ size = IF L > capped THEN capped ELSE L
                          /\ size <= L /\ lo = L - size + 1
                          /\ size \in {L, n, page} /\ size <= n /\ size <= page
  BY <1>5
<1>7. Min({L, n, page}) = size
  BY <1>5, <1>6, MinIs
<1>8. CondenseEvents(s, 2, types, n) = SubSeq(R, lo, L)
  BY <1>2, <1>3, <1>4, <1>5 DEF CondenseEvents
<1>9. {i \in DOMAIN kept : i = Len(kept) \/ kept[i + 1].st # kept[i].st} = Ends(kept, Len(kept))
  BY DEF Ends
<1>10. Cardinality(Ends(kept, Len(kept))) = L
  BY <1>3, <1>4, EndsCounted
<1> HIDE DEF capped, lo
<1>11. Page(SubSeq(R, lo, L), kept, size)
  BY <1>3, <1>4, <1>6, NewestRows
<1> DEFINE K    == Kept(s, 2, types)
           ends == {i \in DOMAIN K : i = Len(K) \/ K[i + 1].st # K[i].st}
           rows == CondenseEvents(s, 2, types, n)
           most == Min({Cardinality(ends), n, MaxEventPage})
<1>12. K = kept /\ ends = Ends(kept, Len(kept)) /\ rows = SubSeq(R, lo, L)
  BY <1>2, <1>8, <1>9
<1> HIDE DEF ends, rows, K
<1>13. most = size
  BY <1>5, <1>7, <1>10, <1>12
<1>14. \A i : {j \in ends : j >= i} = From(kept, i)
  BY <1>12 DEF From
<1>15. Len(rows) = size /\ \A k \in 1 .. size :
         \E i \in ends : K[i] = rows[k] /\ Cardinality({j \in ends : j >= i}) = size - k + 1
  BY <1>11, <1>12, <1>14 DEF Page
<1> HIDE DEF most
<1>16. Len(rows) = most /\ \A k \in 1 .. most :
         \E i \in ends : K[i] = rows[k] /\ Cardinality({j \in ends : j >= i}) = most - k + 1
  BY <1>13, <1>15
<1> QED
  BY <1>16 DEF most, rows, ends, K

-----------------------------------------------------------------------------
(* The theorems. *)

\* The wakeups registered are those of the calls that wait, and a call never sleeps on
\* the state it waits for (wait_for_state and _wake_waiters), whatever the poll interval
\* and however many calls and runs there are.
THEOREM WakeupsAreConsistent == Spec => []WakeupsConsistent
<1>1. WaitInv => WakeupsConsistent
  BY DEF WaitInv, WakeupsConsistent
<1> QED
  BY <1>1, WaitInvAlways, PTL

\* A wait that was accepted under a stamped budget is answered by the server, if the
\* event loop is less late than the skew (WAIT_CLIENT_TIMEOUT_SKEW_S).
THEOREM ServerIsFirst == Spec => []ServerAnswersFirst
<1>1. WaitInv => ServerAnswersFirst
  BY DEF WaitInv
<1> QED
  BY <1>1, WaitInvAlways, PTL

\* A wait told that the run ended elsewhere was told the truth for as long as the record
\* is that run's, and one that timed out on a job that will never start is told to
\* change the request (wait_for_state, _wait_note).
LEMMA VerdictsAreTrue == Spec => [](EndedIsFinal /\ BlockedIsNotWaitedFor)
<1>1. WaitInv => EndedIsFinal /\ BlockedIsNotWaitedFor
  <2> SUFFICES ASSUME WaitInv
               PROVE  EndedIsFinal /\ BlockedIsNotWaitedFor
    OBVIOUS
  <2>1. EndedIsFinal
    BY DEF WaitInv
  <2>2. ASSUME NEW s \in Listed, Blocked(registry[s])
        PROVE  TimeoutNote(registry[s]) = "change_the_request"
    <3>1. Sound(registry[s]) /\ registry[s].reason = "permanent"
      BY <2>2 DEF Listed, WaitInv, RunsShaped, Blocked
    <3>2. registry[s].job = TRUE
      BY <3>1 DEF Sound
    <3>3. ~registry[s].job <=> FALSE
      BY <3>2
    <3> QED
      BY <2>2, <3>3 DEF TimeoutNote
  <2> QED
    BY <2>1, <2>2 DEF BlockedIsNotWaitedFor
<1> QED
  BY <1>1, WaitInvAlways, PTL

\* In every reachable state what the tools say of a run is true of it: the verdict of a
\* wait and the note of one that timed out (wait_for_simulation), the alerts and the
\* counts of the fleet (FleetRow, summarize_fleet), and the condensed events
\* (condense_events).
THEOREM ViewsHold == Spec => []ViewsAreTrue
<1>1. WaitInv /\ ViewInv => AlertsAreTrue /\ SummaryAgrees /\ CondensedIsStretchEnds
  BY AlertsHold, SummaryHolds, CondensedHolds
<1> QED
  BY <1>1, ViewInvAlways, VerdictsAreTrue, PTL DEF ViewsAreTrue
=============================================================================
