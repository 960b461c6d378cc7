------------------------- MODULE SubmitServiceProofs -------------------------
(***************************************************************************)
(* Proofs about SubmitService, for any runs, simulations, log size and     *)
(* limits: records never mix runs or invent a failure, an end that is      *)
(* shown stays, and the log and the replay lose only what they say.        *)
(*                                                                         *)
(* What a record says is true because every message is, from the moment it *)
(* is built to the moment it is routed, however late that is: a failure    *)
(* that a run reported is its last word, and a job once named stays named. *)
(***************************************************************************)
EXTENDS SubmitService, FiniteSetTheorems, TLAPS

Reported == {"failed", "job_failed", "cancelled", "rejected"}
WithJob == {"submitted", "queued", "job_running", "job_finished", "results_ready", "job_failed",
            "cancelled"}

\* A run has a job from its submission on, and none if it was refused or its build failed.
JobKnown ==
    \A r \in Runs : /\ phase[r].st \in WithJob => phase[r].job = TRUE
                    /\ phase[r].st \in {"none", "accepted", "rejected", "failed"} => phase[r].job = FALSE

\* A message says what its run has reported by now.
Truthful(m) ==
    /\ m \in Message /\ m.ts > 0
    /\ m.st = "failed" => phase[m.run].st \in {"rejected", "failed"}
    /\ m.st \in {"job_failed", "cancelled"} => phase[m.run].st = m.st
    /\ m.job = TRUE => phase[m.run].job = TRUE
    /\ m.kind = "event" => m.st \in States /\ (m.st \in WithJob => m.job = TRUE)
    /\ m.kind = "ack" => m.st \in {"accepted", "failed", "workflow_finished", "unknown"}
MessagesTrue ==
    /\ \A r \in Runs : sending[r] # NoMessage => Truthful(sending[r])
    /\ \A m \in replies : Truthful(m)
    /\ \A i \in 1 .. Len(room) : Truthful(room[i])

\* So does a record, of the one run it shows.
RecordTrue(rec) ==
    /\ rec \in SimRecord
    /\ rec.run = NoRun => rec = Unregistered
    /\ rec.st # "" => rec.ts > 0
    /\ rec.st = "failed" => phase[rec.run].st \in {"rejected", "failed"}
    /\ rec.err = TRUE => phase[rec.run].st \in Reported
    /\ rec.st \in Terminal \ {"failed"} => rec.job = rec.run
    /\ rec.job \in {rec.run, NoRun}
RecordsTrue == \A s \in Sims : RecordTrue(registry[s])

\* What was routed is known.
RoutedIsKnown == \A i \in first .. pos : registry[SimIdOf[room[i].run]].run # NoRun

\* Only a blank page lets a replay that left something out be called complete.
CutIsTold == complete = TRUE => first = 1 \/ ended = "blank page"

ServiceInv ==
    /\ TypeOK /\ clock > 0 /\ JobKnown /\ MessagesTrue /\ RecordsTrue /\ RoutedIsKnown /\ CutIsTold
    /\ AckedIsVisible /\ RefusalIsReal /\ LogKeepsNewest

-----------------------------------------------------------------------------
(* The shapes. *)

\* The names of the states, the simulation of a run and the size of the log.
LEMMA Names ==
  /\ Terminal \subseteq States /\ "" \notin States /\ "unknown" \notin States
  /\ Terminal = {"results_ready", "failed", "job_failed", "cancelled"}
  /\ SimIdOf \in [Runs -> Sims] /\ NoRun \notin Runs /\ EventLogMax \in Nat \ {0}
  BY ServiceAssumption DEF States, Terminal

\* The record of a simulation that is not known.
LEMMA Blank ==
  /\ Unregistered.run = NoRun /\ Unregistered.st = "" /\ Unregistered.err = FALSE
  /\ Unregistered.job = NoRun /\ Unregistered \in SimRecord
  BY DEF Unregistered, Fresh, SimRecord

\* The record of a run nothing is known of.
LEMMA FreshIs == \A r : Fresh(r).run = r /\ Fresh(r).st = "" /\ Fresh(r).ts = 0
  BY DEF Fresh

\* No message of a run is the absence of one.
LEMMA NotNoMessage == \A m \in Message : m # NoMessage
  BY DEF Message, NoMessage

-----------------------------------------------------------------------------
(* A message and a record stay true. *)

\* What runs report: a failure is final, and a job that is known stays known.
Onward ==
    \A r \in Runs : /\ phase[r].st \in Reported => phase'[r].st = phase[r].st
                    /\ phase[r].job = TRUE => phase'[r].job = TRUE

\* A true message stays true.
LEMMA StaysTruthful == ASSUME NEW m, Truthful(m), Onward PROVE Truthful(m)'
<1>1. m \in Message /\ m.run \in Runs
  BY DEF Truthful, Message
<1> QED
  BY <1>1 DEF Truthful, Onward, Reported

\* A true record stays true.
LEMMA StaysTrue == ASSUME NEW rec, RecordTrue(rec), Onward PROVE RecordTrue(rec)'
<1>1. rec \in SimRecord /\ (rec.run = NoRun \/ rec.run \in Runs)
  BY DEF RecordTrue, SimRecord
<1>2. CASE rec.run \in Runs
  BY <1>1, <1>2 DEF RecordTrue, Onward, Reported
<1>3. CASE rec.run = NoRun
  <2>1. rec.st = "" /\ rec.err = FALSE
    BY <1>3, Blank DEF RecordTrue
  <2> QED
    BY <2>1, <1>3 DEF RecordTrue, Terminal
<1> QED
  BY <1>1, <1>2, <1>3

-----------------------------------------------------------------------------
(* Projection. *)

\* The record a message is projected into is that of a run, blank or as it was.
LEMMA RecordForTrue ==
  ASSUME NEW rec, RecordTrue(rec), NEW m, Truthful(m)
  PROVE  /\ RecordTrue(RecordFor(rec, m)) /\ RecordFor(rec, m).run \in Runs
         /\ rec.run # NoRun /\ m.run = rec.run => RecordFor(rec, m) = rec
         /\ RecordFor(rec, m).run = rec.run => rec.run # NoRun /\ RecordFor(rec, m) = rec
         /\ RecordFor(rec, m).run # rec.run => RecordFor(rec, m) = Fresh(m.run)
         /\ RecordFor(rec, m).run # rec.run /\ rec.run # NoRun => m.ts >= rec.ts
<1>1. m.run \in Runs /\ m.run # NoRun
  BY Names DEF Truthful, Message
<1>2. /\ Fresh(m.run) \in SimRecord /\ Fresh(m.run).run = m.run /\ Fresh(m.run).st = ""
      /\ Fresh(m.run).err = FALSE /\ Fresh(m.run).job = NoRun
  BY <1>1 DEF Fresh, SimRecord
<1>3. RecordTrue(Fresh(m.run))
  BY <1>1, <1>2, Names DEF RecordTrue
<1>4. rec \in SimRecord /\ (rec.run = NoRun \/ rec.run \in Runs)
  BY DEF RecordTrue, SimRecord
<1> QED
  BY <1>1, <1>2, <1>3, <1>4 DEF RecordFor

\* What a projection does to a record: it keeps it true, shows a run, and leaves an end
\* alone but for a message of another run, stamped no older.
Projects(rec, new) ==
    /\ RecordTrue(new) /\ new.run \in Runs
    /\ rec.st \in Terminal => \/ new = [rec EXCEPT !.err = new.err]
                              \/ new.run # rec.run /\ new.ts >= rec.ts

\* An event is projected so.
LEMMA EventProjects ==
  ASSUME NEW rec, RecordTrue(rec), NEW m, Truthful(m), m.kind = "event"
  PROVE  Projects(rec, ProjectEvent(rec, m))
<1> DEFINE old == RecordFor(rec, m)
           new == ProjectEvent(rec, m)
<1>1. /\ RecordTrue(old) /\ old.run \in Runs /\ old.run # NoRun
      /\ old.run = rec.run => old = rec
  BY RecordForTrue, Names
<1>0. ASSUME rec.st \in Terminal, old.run # rec.run PROVE Applies(old, m) /\ m.ts >= rec.ts
  <2>1. rec.run # NoRun
    BY <1>0, Blank, Names DEF RecordTrue
  <2>2. old = Fresh(m.run) /\ m.ts >= rec.ts
    BY <1>0, <2>1, RecordForTrue
  <2>3. old.run = m.run /\ old.st = ""
    BY <2>2, FreshIs
  <2>4. m.run = old.run /\ old.st \notin Terminal
    BY <2>3, Names
  <2> HIDE DEF old
  <2> QED
    BY <2>2, <2>4 DEF Applies
<1>2. CASE ~Applies(old, m)
  <2>1. new = old
    BY <1>2 DEF ProjectEvent
  <2>2. rec \in SimRecord /\ old = rec => old = [rec EXCEPT !.err = old.err]
    BY DEF SimRecord
  <2> QED
    BY <1>0, <1>1, <1>2, <2>1, <2>2 DEF Projects, RecordTrue
<1>3. CASE Applies(old, m)
  <2> DEFINE err == (old.err = TRUE \/ m.st \in {"failed", "job_failed", "cancelled"})
  <2>1. old \in SimRecord /\ m \in Message /\ m.run = old.run /\ old.st \notin Terminal
    BY <1>1, <1>3 DEF RecordTrue, Truthful, Applies
  <2>2. old.err \in BOOLEAN /\ (old.err \/ m.st \in {"failed", "job_failed", "cancelled"}) = err
    BY <2>1 DEF SimRecord
  <2>3. new = [old EXCEPT !.st = m.st, !.job = IF m.job THEN m.run ELSE old.job, !.ts = m.ts, !.err = err]
    BY <1>3, <2>2 DEF ProjectEvent
  <2>4. m.st \in States /\ m.ts \in Nat /\ m.ts > 0 /\ m.job \in BOOLEAN /\ err \in BOOLEAN
    BY <2>1 DEF Truthful, Message
  <2>5. /\ new \in SimRecord /\ new.run = old.run /\ new.st = m.st /\ new.ts = m.ts /\ new.err = err
        /\ new.job = IF m.job THEN m.run ELSE old.job
    <3> HIDE DEF err
    <3> QED
      BY <2>1, <2>3, <2>4 DEF SimRecord
  <2>6. new.st = "failed" => phase[new.run].st \in {"rejected", "failed"}
    BY <2>1, <2>5 DEF Truthful
  <2>7. new.err = TRUE => phase[new.run].st \in Reported
    BY <1>1, <2>1, <2>5 DEF Truthful, RecordTrue, Reported
  <2>8. new.st \in Terminal \ {"failed"} => new.job = new.run
    BY <2>1, <2>4, <2>5, Names DEF Truthful, WithJob
  <2>9. new.job \in {new.run, NoRun}
    BY <1>1, <2>1, <2>5 DEF RecordTrue
  <2>10. RecordTrue(new)
    BY <1>1, <2>4, <2>5, <2>6, <2>7, <2>8, <2>9, Names DEF RecordTrue
  <2>11. rec.st \in Terminal => new.run # rec.run /\ new.ts >= rec.ts
    BY <1>0, <1>1, <2>1, <2>5
  <2> QED
    BY <1>1, <2>5, <2>10, <2>11 DEF Projects
<1> QED
  BY <1>2, <1>3

\* An ack is projected so: it seeds a record without a state, and names the job of the
\* run, which an end has named before.
LEMMA AckProjects ==
  ASSUME JobKnown, NEW rec, RecordTrue(rec), NEW m, Truthful(m), m.kind = "ack"
  PROVE  Projects(rec, ProjectAck(rec, m))
<1> DEFINE old == RecordFor(rec, m)
           new == ProjectAck(rec, m)
           ts  == IF old.ts = 0 THEN m.ts ELSE old.ts
           st  == IF old.st = "" THEN m.st ELSE old.st
           job == IF m.job THEN m.run ELSE old.job
           err == (old.err = TRUE \/ m.st = "failed")
           stamped == [old EXCEPT !.ts = ts]
<1>1. /\ RecordTrue(old) /\ old.run \in Runs /\ old.run # NoRun
      /\ old.run = rec.run => old = rec
  BY RecordForTrue, Names
<1>2. old \in SimRecord /\ m \in Message /\ m.ts \in Nat /\ m.ts > 0 /\ old.ts \in Nat
  BY <1>1 DEF RecordTrue, Truthful, SimRecord, Message
<1>3. rec \in SimRecord /\ old = rec => old = [rec EXCEPT !.err = old.err]
  BY DEF SimRecord
<1>0. /\ old.st # "" => old.ts > 0
      /\ old.st = "failed" => phase[old.run].st \in {"rejected", "failed"}
      /\ old.st \in Terminal \ {"failed"} => old.job = old.run
  BY <1>1 DEF RecordTrue
<1>9. ASSUME rec.st \in Terminal, old.run # rec.run
      PROVE  m.run = old.run /\ old.ts = 0 /\ m.ts >= rec.ts
  <2>1. rec.run # NoRun
    BY <1>9, Blank, Names DEF RecordTrue
  <2>2. old = Fresh(m.run) /\ m.ts >= rec.ts
    BY <1>9, <2>1, RecordForTrue
  <2>3. old.run = m.run /\ old.ts = 0
    BY <2>2, FreshIs
  <2> HIDE DEF old
  <2> QED
    BY <2>2, <2>3
<1> HIDE DEF old
<1>4. CASE m.run # old.run
  <2>1. new = old
    BY <1>4 DEF ProjectAck, old
  <2> QED
    BY <1>1, <1>3, <1>4, <1>9, <2>1 DEF Projects, RecordTrue
<1>5. ts \in Nat /\ ts > 0 /\ (old.st # "" => ts = old.ts)
  <2>1. CASE old.ts = 0
    <3>0. ~(old.ts > 0)
      BY <2>1
    <3>1. old.st = ""
      BY <1>0, <3>0, Zenon
    <3>2. ts = m.ts
      BY <2>1
    <3> QED
      BY <1>2, <3>1, <3>2
  <2>2. CASE old.ts # 0
    BY <1>2, <2>2
  <2> QED
    BY <2>1, <2>2
<1>6. /\ stamped \in SimRecord /\ stamped.run = old.run /\ stamped.st = old.st
      /\ stamped.ts = ts /\ stamped.err = old.err /\ stamped.job = old.job
  <2> HIDE DEF ts
  <2> QED
    BY <1>2, <1>5 DEF SimRecord
<1>7. CASE m.run = old.run /\ m.st = "unknown"
  <2>1. new = stamped
    BY <1>7 DEF ProjectAck, old
  <2>2. RecordTrue(stamped)
    <3> HIDE DEF stamped, ts
    <3> QED
      BY <1>1, <1>5, <1>6 DEF RecordTrue
  <2>3. ASSUME rec.st \in Terminal, new.run = rec.run
        PROVE  new = [rec EXCEPT !.err = new.err]
    <3>1. old = rec /\ old.st # ""
      BY <1>1, <1>6, <2>1, <2>3, Names
    <3>2. ts = old.ts
      BY <1>5, <3>1
    <3>3. stamped = old
      BY <1>2, <3>2 DEF SimRecord
    <3> QED
      BY <1>2, <1>3, <2>1, <3>1, <3>3
  <2> QED
    BY <1>1, <1>6, <1>9, <2>1, <2>2, <2>3 DEF Projects
<1>8. CASE m.run = old.run /\ m.st # "unknown"
  <2>1. m.st \in {"accepted", "failed", "workflow_finished"} /\ m.job \in BOOLEAN
    BY <1>2, <1>8 DEF Truthful, Message
  <2>2. old.err \in BOOLEAN /\ (old.err \/ m.st = "failed") = err /\ err \in BOOLEAN
    BY <1>2 DEF SimRecord
  <2>3. st \in States \cup {""} /\ job \in Runs \cup {NoRun}
    BY <1>2, <2>1 DEF SimRecord, Message, States, Terminal
  <2>4. new = [stamped EXCEPT !.st = st, !.job = job, !.err = err]
    <3>1. new = [stamped EXCEPT !.st = IF stamped.st = "" THEN m.st ELSE stamped.st,
                                !.job = IF m.job THEN m.run ELSE stamped.job,
                                !.err = stamped.err \/ m.st = "failed"]
      BY <1>8 DEF ProjectAck, old
    <3> HIDE DEF stamped
    <3> QED
      BY <1>6, <2>2, <3>1
  <2>5. /\ new \in SimRecord /\ new.run = old.run /\ new.st = st /\ new.ts = ts
        /\ new.job = job /\ new.err = err
    <3> HIDE DEF stamped, st, job, err, ts, new
    <3> QED
      BY <1>6, <2>2, <2>3, <2>4 DEF SimRecord
  <2>6. new.st = "failed" => phase[new.run].st \in {"rejected", "failed"}
    BY <1>1, <1>8, <2>5 DEF Truthful, RecordTrue
  <2>7. new.err = TRUE => phase[new.run].st \in Reported
    BY <1>1, <1>8, <2>5 DEF Truthful, RecordTrue, Reported
  <2>8. new.st \in Terminal \ {"failed"} => new.job = new.run
    BY <1>1, <1>8, <2>1, <2>5, Names DEF RecordTrue
  <2>9. new.job \in {new.run, NoRun}
    BY <1>1, <1>8, <2>5 DEF RecordTrue
  <2>10. RecordTrue(new)
    <3> HIDE DEF new, st, job, err, ts
    <3> QED
      BY <1>1, <1>5, <2>5, <2>6, <2>7, <2>8, <2>9 DEF RecordTrue
  <2>11. ASSUME rec.st \in Terminal, new.run = rec.run
         PROVE  new = [rec EXCEPT !.err = err]
    <3>1. old = rec /\ old.run = rec.run /\ old.st # "" /\ old.st \in Terminal
      BY <1>1, <2>5, <2>11, Names
    <3>2. ts = old.ts /\ st = old.st
      BY <1>5, <3>1
    <3>3. ASSUME old.st # "failed" PROVE old.job = m.run
      BY <1>0, <1>8, <3>1, <3>3
    <3>4. ASSUME old.st = "failed", m.job = TRUE PROVE FALSE
      <4>1. phase[m.run].st \in {"rejected", "failed"} /\ m.run \in Runs
        BY <1>0, <1>1, <1>8, <3>4
      <4> QED
        BY <3>4, <4>1 DEF Truthful, JobKnown
    <3>5. job = old.job
      BY <2>1, <3>3, <3>4
    <3> QED
      <4> HIDE DEF new, st, job, err, ts
      <4>0. new = [old EXCEPT !.err = err]
        BY <1>2, <2>2, <2>5, <3>2, <3>5 DEF SimRecord
      <4>1. new \in SimRecord /\ rec \in SimRecord /\ old \in SimRecord
        BY <1>2, <2>5, <3>1
      <4> QED
        BY <3>1, <4>0
  <2> QED
    BY <1>1, <1>9, <2>5, <2>10, <2>11 DEF Projects
<1> QED
  BY <1>4, <1>7, <1>8

-----------------------------------------------------------------------------
(* The event log. *)

Newest(S, cap) == {i \in S : Cardinality(Newer(S, i)) < cap}
Overflow(S, cap) == {k \in S : Cardinality(Newer(S, k)) >= cap}

\* The newest of a set stay the newest when a later one is added and the oldest beyond
\* the cap are dropped.
LEMMA NewestKept ==
  ASSUME NEW seen \in SUBSET Nat, IsFiniteSet(seen), NEW n \in Nat, \A k \in seen : k < n,
         NEW cap \in Nat \ {0}, NEW kept, kept = Newest(seen, cap), NEW most, most = kept \cup {n}
  PROVE  most \ Overflow(most, cap) = Newest(seen \cup {n}, cap)
<1> DEFINE all  == seen \cup {n}
<1>0. kept = {i \in seen : Cardinality(Newer(seen, i)) < cap}
  BY DEF Newest
<1>1. n \notin seen
  OBVIOUS
<1>2. ASSUME NEW i \in seen
      PROVE  /\ IsFiniteSet(Newer(seen, i)) /\ Cardinality(Newer(seen, i)) \in Nat
             /\ Newer(all, i) = Newer(seen, i) \cup {n}
             /\ Cardinality(Newer(all, i)) = Cardinality(Newer(seen, i)) + 1
  <2>1. Newer(seen, i) \in SUBSET seen /\ n \notin Newer(seen, i)
    BY <1>1 DEF Newer
  <2>2. IsFiniteSet(Newer(seen, i)) /\ Cardinality(Newer(seen, i)) \in Nat
    BY <2>1, FS_Subset, FS_CardinalityType
  <2>3. Newer(all, i) = Newer(seen, i) \cup {n}
    BY DEF Newer
  <2> QED
    BY <2>1, <2>2, <2>3, FS_AddElement
<1>3. ASSUME NEW i \in kept PROVE Newer(most, i) = Newer(all, i)
  <2>1. i \in seen /\ Cardinality(Newer(seen, i)) < cap
    BY <1>0
  <2>2. ASSUME NEW j \in seen, j > i PROVE j \in kept
    <3>0. ASSUME NEW k \in seen, k > j PROVE k > i
      <4>1. i \in Nat /\ j \in Nat /\ k \in Nat
        BY <2>1
      <4> QED
        BY <2>2, <3>0, <4>1
    <3>1. Newer(seen, j) \in SUBSET Newer(seen, i)
      BY <3>0 DEF Newer
    <3>2. Cardinality(Newer(seen, j)) <= Cardinality(Newer(seen, i))
      BY <1>2, <2>1, <3>1, FS_Subset
    <3>3. Cardinality(Newer(seen, j)) < cap
      BY <1>2, <2>1, <3>2
    <3> QED
      BY <1>0, <3>3
  <2>3. kept \subseteq seen
    BY <1>0
  <2> QED
    BY <2>2, <2>3 DEF Newer
<1>4. Newer(most, n) = {} /\ Newer(all, n) = {} /\ Cardinality({}) = 0 /\ 0 < cap
  <2>1. \A k \in all : k \in Nat /\ ~(k > n)
    OBVIOUS
  <2>2. most \subseteq all
    BY <1>0
  <2>3. Newer(most, n) = {} /\ Newer(all, n) = {}
    BY <2>1, <2>2 DEF Newer
  <2>4. 0 < cap
    OBVIOUS
  <2> QED
    BY <2>3, <2>4, FS_EmptySet
<1>5. ASSUME NEW i \in all
      PROVE  i \in most /\ ~(Cardinality(Newer(most, i)) >= cap) <=> Cardinality(Newer(all, i)) < cap
  <2>1. CASE i = n
    BY <1>4, <2>1
  <2>2. CASE i \in kept
    <3>1. Cardinality(Newer(all, i)) \in Nat /\ Newer(most, i) = Newer(all, i)
      <4>1. i \in seen
        BY <1>0, <2>2
      <4> QED
        BY <1>2, <1>3, <2>2, <4>1
    <3> QED
      BY <2>2, <3>1
  <2>3. CASE i \in seen /\ i \notin kept
    <3>1. ~(Cardinality(Newer(seen, i)) < cap) /\ i \notin most
      BY <1>0, <1>1, <2>3
    <3>2. ~(Cardinality(Newer(all, i)) < cap)
      BY <1>2, <2>3, <3>1
    <3> QED
      BY <3>1, <3>2
  <2> QED
    BY <2>1, <2>2, <2>3
<1>6. most \subseteq all
  BY <1>0
<1> QED
  BY <1>5, <1>6 DEF Newest, Overflow

\* The events of a simulation that the process has seen.
SeenOf(s) == OfSim({i \in first .. pos : IsEvent(room[i])}, s)

\* The log is as good after an event as before it.
LEMMA LogAppends ==
  ASSUME TypeOK, LogKeepsNewest, pos < Len(room), IsEvent(room[pos + 1]),
         log' = AppendEventLog(log, pos + 1), pos' = pos + 1, UNCHANGED <<room, first>>
  PROVE  LogKeepsNewest' /\ log' \subseteq 1 .. Len(room)
<1> DEFINE n == pos + 1
           of == SimIdOf[room[n].run]
<1>1. /\ pos \in Nat /\ first \in Nat \ {0} /\ first <= pos + 1 /\ n \in 1 .. Len(room)
      /\ n \in Nat /\ Len(room) \in Nat
  BY DEF TypeOK
<1>2. ASSUME NEW s
      PROVE  /\ SeenOf(s) \in SUBSET Nat /\ IsFiniteSet(SeenOf(s)) /\ \A k \in SeenOf(s) : k < n
             /\ SeenOf(s)' = IF s = of THEN SeenOf(s) \cup {n} ELSE SeenOf(s)
  <2>1. SeenOf(s) \in SUBSET (first .. pos)
    BY DEF SeenOf, OfSim
  <2>2. IsFiniteSet(SeenOf(s))
    <3>1. IsFiniteSet(first .. pos)
      BY <1>1, FS_Interval
    <3> QED
      BY <2>1, <3>1, FS_Subset
  <2>3. SeenOf(s) \in SUBSET Nat /\ \A k \in SeenOf(s) : k < n
    BY <1>1, <2>1
  <2>4. first .. pos + 1 = (first .. pos) \cup {n}
    BY <1>1
  <2>5. SeenOf(s)' = OfSim({i \in first .. pos + 1 : IsEvent(room[i])}, s)
    BY DEF SeenOf, OfSim, IsEvent
  <2>6. SeenOf(s)' = IF s = of THEN SeenOf(s) \cup {n} ELSE SeenOf(s)
    BY <2>4, <2>5 DEF SeenOf, OfSim
  <2> QED
    BY <2>2, <2>3, <2>6
<1> DEFINE matching == OfSim(log \cup {n}, of)
           drop == Overflow(matching, EventLogMax)
<1>3. log' = (log \cup {n}) \ drop /\ drop \subseteq matching
  BY DEF AppendEventLog, Overflow
<1>4. matching = OfSim(log, of) \cup {n}
  BY DEF OfSim
<1>5. log' \subseteq 1 .. Len(room)
  BY <1>1, <1>3 DEF TypeOK
<1>6. ASSUME NEW s \in Sims
      PROVE  OfSim(log, s) = Newest(SeenOf(s), EventLogMax)
  BY DEF LogKeepsNewest, SeenOf, Newest
<1>7. ASSUME NEW s \in Sims
      PROVE  OfSim(log', s) = Newest(SeenOf(s)', EventLogMax)
  <2>1. CASE s # of
    <3>1. OfSim(log', s) = OfSim(log, s)
      BY <1>3, <2>1 DEF OfSim
    <3> QED
      BY <1>2, <1>6, <2>1, <3>1
  <2>2. CASE s = of
    <3>1. OfSim(log', s) = matching \ drop
      BY <1>3, <2>2 DEF OfSim
    <3>2. matching = OfSim(log, s) \cup {n} /\ OfSim(log, s) = Newest(SeenOf(s), EventLogMax)
      BY <1>4, <1>6, <2>2
    <3>3. /\ SeenOf(s) \in SUBSET Nat /\ IsFiniteSet(SeenOf(s)) /\ \A k \in SeenOf(s) : k < n
          /\ n \in Nat /\ EventLogMax \in Nat \ {0}
      BY <1>1, <1>2, Names
    <3> HIDE DEF matching, n
    <3>4. matching \ Overflow(matching, EventLogMax) = Newest(SeenOf(s) \cup {n}, EventLogMax)
      <4>1. PICK seen, kept, most, new :
               seen = SeenOf(s) /\ kept = OfSim(log, s) /\ most = matching /\ new = n
        OBVIOUS
      <4>2. /\ seen \in SUBSET Nat /\ IsFiniteSet(seen) /\ new \in Nat
            /\ \A k \in seen : k < new
        BY <3>3, <4>1
      <4>3. kept = Newest(seen, EventLogMax) /\ most = kept \cup {new}
        BY <3>2, <4>1
      <4>4. most \ Overflow(most, EventLogMax) = Newest(seen \cup {new}, EventLogMax)
        BY <3>3, <4>2, <4>3, NewestKept
      <4> QED
        BY <4>1, <4>4
    <3>5. SeenOf(s)' = SeenOf(s) \cup {n}
      BY <1>2, <2>2
    <3> QED
      BY <3>1, <3>4, <3>5
  <2> QED
    BY <2>1, <2>2
<1>8. LogKeepsNewest'
  BY <1>7 DEF LogKeepsNewest, SeenOf, OfSim, Newest
<1> QED
  BY <1>5, <1>8

\* A message that is not an event leaves the log as it is.
LEMMA LogStays ==
  ASSUME TypeOK, LogKeepsNewest, pos < Len(room), ~IsEvent(room[pos + 1]), pos' = pos + 1,
         UNCHANGED <<room, first, log>>
  PROVE  LogKeepsNewest'
<1>1. pos \in Nat /\ first \in Nat /\ first <= pos + 1
  BY DEF TypeOK
<1>2. first .. pos + 1 = (first .. pos) \cup {pos + 1}
  BY <1>1
<1>3. {i \in first .. pos + 1 : IsEvent(room[i])} = {i \in first .. pos : IsEvent(room[i])}
  BY <1>2
<1>4. {i \in first .. pos : IsEvent(room[i])}' = {i \in first .. pos : IsEvent(room[i])}
  BY <1>3 DEF IsEvent
<1> QED
  BY <1>4 DEF LogKeepsNewest, OfSim

\* A room that grows leaves the log as it is.
LEMMA LogOfPrefix ==
  ASSUME TypeOK, LogKeepsNewest, Len(room') >= Len(room), \A i \in 1 .. Len(room) : room'[i] = room[i],
         UNCHANGED <<pos, first, log>>
  PROVE  LogKeepsNewest'
<1>1. first .. pos \subseteq 1 .. Len(room) /\ log \subseteq 1 .. Len(room)
  BY DEF TypeOK
<1>2. {i \in first .. pos : IsEvent(room[i])}' = {i \in first .. pos : IsEvent(room[i])}
  BY <1>1 DEF IsEvent
<1>3. ASSUME NEW S \in SUBSET (1 .. Len(room)), NEW s PROVE OfSim(S, s)' = OfSim(S, s)
  BY DEF OfSim
<1>4. ASSUME NEW s \in Sims
      PROVE  OfSim(log, s)' = Newest(SeenOf(s), EventLogMax)'
  <2>1. OfSim(log, s)' = OfSim(log, s)
    BY <1>1, <1>3 DEF OfSim
  <2>2. SeenOf(s)' = SeenOf(s)
    BY <1>1, <1>2, <1>3 DEF SeenOf, OfSim
  <2>3. OfSim(log, s) = Newest(SeenOf(s), EventLogMax)
    BY DEF LogKeepsNewest, SeenOf, Newest
  <2> QED
    BY <2>1, <2>2, <2>3 DEF Newest, Newer
<1> QED
  BY <1>4 DEF LogKeepsNewest, SeenOf, Newest

-----------------------------------------------------------------------------
(* The steps. *)

\* What a step of the runs and of the calls leaves to be shown.
Quiet == UNCHANGED <<room, serverVars, retries, restarts>>

\* While the server does nothing, all but the types, the messages and the calls is kept.
LEMMA QuietStep ==
  ASSUME ServiceInv, Quiet, Onward
  PROVE  /\ RecordsTrue' /\ RoutedIsKnown' /\ CutIsTold' /\ LogKeepsNewest'
         /\ \A m : Truthful(m) => Truthful(m)'
         /\ \A i \in 1 .. Len(room') : Truthful(room[i])'
<1>1. UNCHANGED <<room, pos, first, replay, registry, log, ended, complete>>
  BY DEF Quiet, serverVars
<1>2. ASSUME NEW s \in Sims PROVE RecordTrue(registry[s])'
  <2>1. PICK rec : rec = registry[s]
    OBVIOUS
  <2>2. RecordTrue(rec)
    BY <2>1 DEF ServiceInv, RecordsTrue
  <2>3. RecordTrue(rec)'
    BY <2>2, StaysTrue
  <2> QED
    BY <1>1, <2>1, <2>3 DEF RecordTrue
<1>3. ASSUME NEW m, Truthful(m) PROVE Truthful(m)'
  BY <1>3, StaysTruthful
<1>4. ASSUME NEW i \in 1 .. Len(room') PROVE Truthful(room[i])'
  <2>1. PICK m : m = room[i]
    OBVIOUS
  <2>2. Truthful(m)
    BY <1>1, <2>1 DEF ServiceInv, MessagesTrue
  <2>3. Truthful(m)'
    BY <1>3, <2>2
  <2> QED
    BY <1>1, <2>1, <2>3 DEF Truthful
<1>5. RoutedIsKnown' /\ CutIsTold'
  BY <1>1 DEF ServiceInv, RoutedIsKnown, CutIsTold
<1>6. LogKeepsNewest'
  BY <1>1 DEF ServiceInv, LogKeepsNewest, OfSim, IsEvent
<1> QED
  BY <1>2, <1>3, <1>4, <1>5, <1>6 DEF RecordsTrue

\* A step that leaves what runs report.
LEMMA PhaseStays == ASSUME phase' = phase PROVE Onward
  BY DEF Onward

\* What follows in a lifecycle: a run that ended reports nothing more, and a job that is
\* known is never unknown again.
LEMMA LifecycleGoesOn ==
  ASSUME NEW p \in Phases, NEW n \in Lifecycle(p),
         p.st \in WithJob => p.job = TRUE,
         p.st \in {"none", "accepted", "rejected", "failed"} => p.job = FALSE
  PROVE  /\ n \in Phases /\ n.st \in States \cup {"rejected", "queued"}
         /\ n.st \in WithJob => n.job = TRUE
         /\ n.st \in {"accepted", "rejected", "failed"} => n.job = FALSE
         /\ p.st \notin Reported /\ (p.job = TRUE => n.job = TRUE)
         /\ p.st = "none" => n.st \in {"accepted", "rejected"}
         /\ p.st # "none" => n.st \in States \cup {"queued"} /\ n.st # "rejected"
<1>0. p.job \in BOOLEAN
  BY DEF Phases
<1>1. CASE p.st = "none"
  <2>1. n \in Some({"accepted", "rejected"}, FALSE)
    BY <1>1 DEF Lifecycle
  <2>2. n.st \in {"accepted", "rejected"} /\ n.job = FALSE /\ n = [st |-> n.st, job |-> n.job]
    BY <2>1 DEF Some
  <2> QED
    BY <1>1, <2>2 DEF States, Terminal, WithJob, Reported, Phases
<1>2. CASE p.st = "submitted"
  <2>1. n \in Some({"workflow_finished"}, TRUE)
    BY <1>2 DEF Lifecycle
  <2>2. n.st \in {"workflow_finished"} /\ n.job = TRUE /\ n = [st |-> n.st, job |-> n.job]
    BY <2>1 DEF Some
  <2> QED
    BY <1>2, <2>2 DEF States, Terminal, WithJob, Reported, Phases
<1>3. CASE p.st = "workflow_finished" /\ p.job = TRUE
  <2>1. n \in Some({"queued", "job_running", "job_finished", "job_failed", "cancelled"}, TRUE)
    BY <1>3 DEF Lifecycle
  <2>2. n.st \in {"queued", "job_running", "job_finished", "job_failed", "cancelled"} /\ n.job = TRUE /\ n = [st |-> n.st, job |-> n.job]
    BY <2>1 DEF Some
  <2> QED
    BY <1>3, <2>2 DEF States, Terminal, WithJob, Reported, Phases
<1>4. CASE p.st = "queued"
  <2>1. n \in Some({"job_running", "job_finished", "job_failed", "cancelled"}, TRUE)
    BY <1>4 DEF Lifecycle
  <2>2. n.st \in {"job_running", "job_finished", "job_failed", "cancelled"} /\ n.job = TRUE /\ n = [st |-> n.st, job |-> n.job]
    BY <2>1 DEF Some
  <2> QED
    BY <1>4, <2>2 DEF States, Terminal, WithJob, Reported, Phases
<1>5. CASE p.st = "job_running"
  <2>1. n \in Some({"job_finished", "job_failed", "cancelled"}, TRUE)
    BY <1>5 DEF Lifecycle
  <2>2. n.st \in {"job_finished", "job_failed", "cancelled"} /\ n.job = TRUE /\ n = [st |-> n.st, job |-> n.job]
    BY <2>1 DEF Some
  <2> QED
    BY <1>5, <2>2 DEF States, Terminal, WithJob, Reported, Phases
<1>6. CASE p.st = "job_finished"
  <2>1. n \in Some({"results_ready"}, TRUE)
    BY <1>6 DEF Lifecycle
  <2>2. n.st \in {"results_ready"} /\ n.job = TRUE /\ n = [st |-> n.st, job |-> n.job]
    BY <2>1 DEF Some
  <2> QED
    BY <1>6, <2>2 DEF States, Terminal, WithJob, Reported, Phases
<1>7. CASE p.st = "accepted"
  <2>1. n \in Some({"submitted"}, TRUE) \cup Some({"workflow_finished", "failed"}, FALSE)
    BY <1>7 DEF Lifecycle
  <2>2. /\ n = [st |-> n.st, job |-> n.job]
        /\ \/ n.st = "submitted" /\ n.job = TRUE
           \/ n.st \in {"workflow_finished", "failed"} /\ n.job = FALSE
    BY <2>1 DEF Some
  <2> QED
    BY <1>7, <2>2 DEF States, Terminal, WithJob, Reported, Phases
<1>8. CASE /\ p.st \notin {"none", "accepted", "submitted", "queued", "job_running", "job_finished"}
           /\ ~(p.st = "workflow_finished" /\ p.job = TRUE)
  <2>1. Lifecycle(p) = {}
    BY <1>0, <1>8 DEF Lifecycle
  <2> QED
    BY <2>1
<1> QED
  BY <1>1, <1>2, <1>3, <1>4, <1>5, <1>6, <1>7, <1>8

\* A run builds its next message.
LEMMA PostStep == ASSUME ServiceInv, NEW r \in Runs, Post(r) PROVE ServiceInv'
<1>1. /\ sending[r] = NoMessage /\ (phase[r].st = "none" => owed[r] > 0)
      /\ owed' = [owed EXCEPT ![r] = IF phase[r].st = "none" THEN owed[r] - 1 ELSE owed[r]]
      /\ UNCHANGED <<limit, clock, dead, replies, room, serverVars, pend, retries, restarts>>
  BY DEF Post
<1>2. PICK n, m :
         /\ n \in Lifecycle(phase[r]) /\ phase' = [phase EXCEPT ![r] = n]
         /\ m = [kind |-> IF phase[r].st = "none" THEN "ack" ELSE "event",
                 run |-> r, st |-> OnWire(n.st), job |-> n.job, ts |-> clock]
         /\ sending' = [sending EXCEPT ![r] = m]
  BY DEF Post
<1>3. /\ phase \in [Runs -> Phases] /\ sending \in [Runs -> Message \cup {NoMessage}]
      /\ clock \in Nat /\ clock > 0 /\ owed \in [Runs -> Nat]
  BY DEF ServiceInv, TypeOK
<1>4. /\ phase[r].st \in WithJob => phase[r].job = TRUE
      /\ phase[r].st \in {"none", "accepted", "rejected", "failed"} => phase[r].job = FALSE
  BY DEF ServiceInv, JobKnown
<1>5. /\ n \in Phases /\ n.st \in States \cup {"rejected", "queued"}
      /\ n.st \in WithJob => n.job = TRUE
      /\ n.st \in {"accepted", "rejected", "failed"} => n.job = FALSE
      /\ phase[r].st \notin Reported /\ (phase[r].job = TRUE => n.job = TRUE)
      /\ phase[r].st = "none" => n.st \in {"accepted", "rejected"}
      /\ phase[r].st # "none" => n.st \in States \cup {"queued"} /\ n.st # "rejected"
  <2>1. PICK p : p = phase[r]
    OBVIOUS
  <2>2. /\ p \in Phases /\ n \in Lifecycle(p) /\ (p.st \in WithJob => p.job = TRUE)
        /\ p.st \in {"none", "accepted", "rejected", "failed"} => p.job = FALSE
    BY <1>2, <1>3, <1>4, <2>1
  <2> QED
    BY <2>1, <2>2, LifecycleGoesOn
<1>6. /\ OnWire(n.st) \in States /\ (OnWire(n.st) = "failed" => n.st \in {"failed", "rejected"})
      /\ OnWire(n.st) \in {"job_failed", "cancelled"} => n.st = OnWire(n.st)
      /\ n.st # "rejected" /\ OnWire(n.st) \in WithJob => n.st \in WithJob
      /\ n.st \in {"accepted", "rejected"} => OnWire(n.st) \in {"accepted", "failed"}
  BY <1>5 DEF OnWire, States, Terminal, WithJob
<1>7. /\ phase'[r] = n /\ phase' \in [Runs -> Phases]
      /\ \A q \in Runs : q # r => phase'[q] = phase[q]
  BY <1>2, <1>3, <1>5
<1>8. Onward
  BY <1>5, <1>7 DEF Onward
<1>9. Truthful(m)'
  <2>1. /\ m.run = r /\ m.st = OnWire(n.st) /\ m.job = n.job /\ m.ts = clock /\ m \in Message
        /\ m.kind = IF phase[r].st = "none" THEN "ack" ELSE "event"
    <3>1. PICK k : k = (IF phase[r].st = "none" THEN "ack" ELSE "event") /\ k \in {"ack", "event"}
      OBVIOUS
    <3>2. m = [kind |-> k, run |-> r, st |-> OnWire(n.st), job |-> n.job, ts |-> clock]
      BY <1>2, <3>1
    <3> QED
      BY <1>3, <1>5, <1>6, <3>1, <3>2 DEF Message, Phases
  <2>2. phase'[m.run] = n
    BY <1>7, <2>1
  <2>3. CASE phase[r].st = "none"
    BY <1>3, <1>5, <1>6, <2>1, <2>2, <2>3 DEF Truthful
  <2>4. CASE phase[r].st # "none"
    BY <1>3, <1>5, <1>6, <2>1, <2>2, <2>4 DEF Truthful
  <2> QED
    BY <2>3, <2>4
<1>q. /\ RecordsTrue' /\ RoutedIsKnown' /\ CutIsTold' /\ LogKeepsNewest'
      /\ \A k : Truthful(k) => Truthful(k)'
      /\ \A i \in 1 .. Len(room') : Truthful(room[i])'
  BY <1>1, <1>8, QuietStep DEF Quiet
<1>10. ASSUME NEW q \in Runs, sending'[q] # NoMessage PROVE Truthful(sending[q])'
  <2>1. CASE q = r
    <3>1. sending'[q] = m
      BY <1>2, <1>3, <2>1
    <3> QED
      BY <1>9, <3>1 DEF Truthful
  <2>2. CASE q # r
    <3>1. PICK k : k = sending[q] /\ k = sending'[q]
      BY <1>2, <1>3, <2>2
    <3>2. Truthful(k)
      BY <1>10, <3>1 DEF ServiceInv, MessagesTrue
    <3>3. Truthful(k)'
      BY <1>q, <3>2
    <3> QED
      BY <3>1, <3>3 DEF Truthful
  <2> QED
    BY <2>1, <2>2
<1>11. ASSUME NEW k \in replies' PROVE Truthful(k)'
  BY <1>1, <1>q DEF ServiceInv, MessagesTrue
<1>12. MessagesTrue'
  BY <1>10, <1>11, <1>q DEF MessagesTrue
<1>13. JobKnown'
  <2>1. ASSUME NEW q \in Runs
        PROVE  /\ phase'[q].st \in WithJob => phase'[q].job = TRUE
               /\ phase'[q].st \in {"none", "accepted", "rejected", "failed"} => phase'[q].job = FALSE
    <3>1. CASE q = r
      <4>1. n.st # "none"
        BY <1>5 DEF States, Terminal
      <4> QED
        BY <1>5, <1>7, <3>1, <4>1
    <3>2. CASE q # r
      BY <1>7, <3>2 DEF ServiceInv, JobKnown
    <3> QED
      BY <3>1, <3>2
  <2> QED
    BY <2>1 DEF JobKnown
<1>14. TypeOK'
  <2>1. sending' \in [Runs -> Message \cup {NoMessage}]
    BY <1>2, <1>3, <1>9 DEF Truthful
  <2>2. owed' \in [Runs -> Nat]
    BY <1>1, <1>3
  <2> QED
    BY <1>1, <1>7, <2>1, <2>2 DEF ServiceInv, TypeOK, serverVars
<1>15. RefusalIsReal' /\ AckedIsVisible' /\ clock' > 0
  <2>1. pend' = pend /\ registry' = registry /\ clock' = clock
    BY <1>1 DEF serverVars
  <2>2. RefusalIsReal'
    BY <1>8, <2>1 DEF ServiceInv, RefusalIsReal, Onward, Reported
  <2>3. AckedIsVisible'
    BY <2>1 DEF ServiceInv, AckedIsVisible
  <2> QED
    BY <1>3, <2>1, <2>2, <2>3
<1> QED
  BY <1>q, <1>12, <1>13, <1>14, <1>15 DEF ServiceInv

\* A command sent again is answered from the record of the run.
LEMMA ReplayStep == ASSUME ServiceInv, NEW r \in Runs, Replay(r) PROVE ServiceInv'
<1>1. /\ phase[r].st # "none" /\ owed[r] > 0 /\ owed' = [owed EXCEPT ![r] = owed[r] - 1]
      /\ UNCHANGED <<limit, clock, phase, dead, sending, room, serverVars, pend, retries, restarts>>
  BY DEF Replay
<1>2. PICK st, m :
         /\ st \in Recorded(r)
         /\ m = [kind |-> "ack", run |-> r, st |-> st,
                 job |-> st = "workflow_finished" /\ phase[r].job, ts |-> clock]
         /\ replies' = replies \cup {m}
  BY DEF Replay
<1>3. /\ phase \in [Runs -> Phases] /\ clock \in Nat /\ clock > 0 /\ owed \in [Runs -> Nat]
  BY DEF ServiceInv, TypeOK
<1>4. /\ st \in {"unknown", "failed", "workflow_finished"}
      /\ st = "failed" => phase[r].st \in {"rejected", "failed"}
  <2>1. CASE phase[r].st \in {"accepted", "submitted"}
    BY <1>2, <2>1 DEF Recorded
  <2>2. CASE phase[r].st = "rejected"
    BY <1>2, <2>2 DEF Recorded
  <2>3. CASE phase[r].st \in {"failed", "workflow_finished"}
    <3>1. Recorded(r) \subseteq {phase[r].st, "unknown"}
      BY <2>3 DEF Recorded
    <3> QED
      BY <1>2, <2>3, <3>1
  <2>4. CASE phase[r].st \notin {"accepted", "submitted", "rejected", "failed", "workflow_finished"}
    <3>1. Recorded(r) = {"workflow_finished"}
      BY <2>4 DEF Recorded
    <3> QED
      BY <1>2, <3>1
  <2> QED
    BY <2>1, <2>2, <2>3, <2>4
<1>5. Onward
  BY <1>1, PhaseStays
<1>6. Truthful(m)
  <2>1. PICK job : job = (st = "workflow_finished" /\ phase[r].job)
    OBVIOUS
  <2>2. job \in BOOLEAN /\ (job = TRUE => phase[r].job = TRUE)
    <3>1. phase[r].job \in BOOLEAN
      BY <1>3 DEF Phases
    <3> QED
      BY <2>1, <3>1
  <2>3. m = [kind |-> "ack", run |-> r, st |-> st, job |-> job, ts |-> clock]
    BY <1>2, <2>1
  <2>4. st \in States \cup {"unknown"}
    BY <1>4 DEF States, Terminal
  <2> QED
    BY <1>3, <1>4, <2>2, <2>3, <2>4 DEF Truthful, Message
<1>q. /\ RecordsTrue' /\ RoutedIsKnown' /\ CutIsTold' /\ LogKeepsNewest'
      /\ \A k : Truthful(k) => Truthful(k)'
      /\ \A i \in 1 .. Len(room') : Truthful(room[i])'
  BY <1>1, <1>5, QuietStep DEF Quiet
<1>7. MessagesTrue'
  <2>1. ASSUME NEW k \in replies' PROVE Truthful(k)'
    BY <1>2, <1>6, <1>q DEF ServiceInv, MessagesTrue
  <2>2. ASSUME NEW q \in Runs, sending'[q] # NoMessage PROVE Truthful(sending[q])'
    <3>1. Truthful(sending[q])
      BY <1>1, <2>2 DEF ServiceInv, MessagesTrue
    <3> QED
      BY <1>1, <3>1 DEF Truthful
  <2> QED
    BY <1>q, <2>1, <2>2 DEF MessagesTrue
<1>8. TypeOK'
  <2>1. owed' \in [Runs -> Nat]
    BY <1>1, <1>3
  <2>2. replies' \in SUBSET Message
    BY <1>2, <1>6 DEF ServiceInv, TypeOK, Truthful
  <2> QED
    BY <1>1, <2>1, <2>2 DEF ServiceInv, TypeOK, serverVars
<1>9. RefusalIsReal' /\ AckedIsVisible' /\ clock' > 0 /\ JobKnown'
  BY <1>1 DEF ServiceInv, RefusalIsReal, AckedIsVisible, serverVars, JobKnown
<1> QED
  BY <1>q, <1>7, <1>8, <1>9 DEF ServiceInv

\* A send that raises, and time.
LEMMA LostStep == ASSUME ServiceInv, (\E r \in Runs : SendLost(r)) \/ Tick PROVE ServiceInv'
<1>1. /\ UNCHANGED <<limit, phase, replies, owed, room, serverVars, pend, retries, restarts>>
      /\ clock' \in Nat /\ clock' > 0 /\ dead' \in SUBSET Runs
      /\ sending' \in [Runs -> Message \cup {NoMessage}]
      /\ \A q \in Runs : sending'[q] # NoMessage => sending'[q] = sending[q]
  <2>1. /\ clock \in Nat /\ clock > 0 /\ dead \in SUBSET Runs
        /\ sending \in [Runs -> Message \cup {NoMessage}]
    BY DEF ServiceInv, TypeOK
  <2>2. CASE \E r \in Runs : SendLost(r)
    BY <2>1, <2>2 DEF SendLost
  <2>3. CASE Tick
    BY <2>1, <2>3 DEF Tick
  <2> QED
    BY <2>2, <2>3
<1>2. /\ RecordsTrue' /\ RoutedIsKnown' /\ CutIsTold' /\ LogKeepsNewest'
      /\ \A i \in 1 .. Len(room') : Truthful(room[i])'
  <2>1. Onward
    BY <1>1, PhaseStays
  <2> QED
    BY <1>1, <2>1, QuietStep DEF Quiet
<1>3. MessagesTrue'
  <2>1. ASSUME NEW q \in Runs, sending'[q] # NoMessage PROVE Truthful(sending[q])'
    <3>1. Truthful(sending[q])
      BY <1>1, <2>1 DEF ServiceInv, MessagesTrue
    <3> QED
      BY <1>1, <2>1, <3>1 DEF Truthful
  <2>2. ASSUME NEW k \in replies' PROVE Truthful(k)'
    BY <1>1 DEF ServiceInv, MessagesTrue, Truthful
  <2> QED
    BY <1>2, <2>1, <2>2 DEF MessagesTrue
<1>4. TypeOK' /\ RefusalIsReal' /\ AckedIsVisible' /\ JobKnown'
  BY <1>1 DEF ServiceInv, TypeOK, RefusalIsReal, AckedIsVisible, serverVars, JobKnown
<1> QED
  BY <1>1, <1>2, <1>3, <1>4 DEF ServiceInv

\* The message of a run, or an answer, lands in the room.
LEMMA LandStep == ASSUME ServiceInv, Land PROVE ServiceInv'
<1>1. UNCHANGED <<limit, clock, phase, dead, owed, serverVars, pend, retries, restarts>>
  BY DEF Land
<1>2. PICK m : /\ Truthful(m) /\ room' = Append(room, m) /\ replies' \subseteq replies
               /\ sending' \in [Runs -> Message \cup {NoMessage}]
               /\ \A q \in Runs : sending'[q] # NoMessage => sending'[q] = sending[q]
  <2>1. CASE \E r \in Runs : /\ sending[r] # NoMessage /\ room' = Append(room, sending[r])
                             /\ sending' = [sending EXCEPT ![r] = NoMessage] /\ UNCHANGED replies
    BY <2>1 DEF ServiceInv, TypeOK, MessagesTrue
  <2>2. CASE \E m \in replies :
               room' = Append(room, m) /\ replies' = replies \ {m} /\ UNCHANGED sending
    BY <2>2 DEF ServiceInv, TypeOK, MessagesTrue
  <2> QED
    BY <2>1, <2>2 DEF Land
<1>3. /\ m \in Message /\ room \in Seq(Message) /\ pos \in 0 .. Len(room) /\ first \in 1 .. pos + 1
      /\ Len(room) \in Nat
  BY <1>2 DEF Truthful, ServiceInv, TypeOK
<1>4. /\ room' \in Seq(Message) /\ Len(room') = Len(room) + 1 /\ room'[Len(room) + 1] = m
      /\ \A i \in 1 .. Len(room) : room'[i] = room[i]
  BY <1>2, <1>3
<1>5. MessagesTrue'
  <2>1. ASSUME NEW q \in Runs, sending'[q] # NoMessage PROVE Truthful(sending[q])'
    <3>1. Truthful(sending[q])
      BY <1>2, <2>1 DEF ServiceInv, MessagesTrue
    <3> QED
      BY <1>1, <1>2, <2>1, <3>1 DEF Truthful
  <2>2. ASSUME NEW k \in replies' PROVE Truthful(k)'
    BY <1>1, <1>2 DEF ServiceInv, MessagesTrue, Truthful
  <2>3. ASSUME NEW i \in 1 .. Len(room') PROVE Truthful(room[i])'
    <3>1. i \in 1 .. Len(room) \/ i = Len(room) + 1
      BY <1>3, <1>4
    <3>2. Truthful(room'[i])
      BY <1>2, <1>4, <3>1 DEF ServiceInv, MessagesTrue
    <3> QED
      BY <1>1, <3>2 DEF Truthful
  <2> QED
    BY <2>1, <2>2, <2>3 DEF MessagesTrue
<1>6. UNCHANGED <<pos, first, replay, registry, log, ended, complete>>
  BY <1>1 DEF serverVars
<1>7. TypeOK'
  <2>1. /\ pos' \in 0 .. Len(room') /\ first' \in 1 .. pos' + 1 /\ replay' \in 0 .. Len(room') - pos'
        /\ log' \subseteq 1 .. Len(room')
    <3>1. replay \in 0 .. Len(room) - pos /\ log \subseteq 1 .. Len(room)
      BY DEF ServiceInv, TypeOK
    <3>2. 0 .. Len(room) - pos \subseteq 0 .. Len(room) + 1 - pos /\ 1 .. Len(room) \subseteq 1 .. Len(room) + 1
      BY <1>3
    <3>3. pos \in 0 .. Len(room) + 1
      BY <1>3
    <3> QED
      BY <1>3, <1>4, <1>6, <3>1, <3>2, <3>3
  <2> QED
    BY <1>1, <1>2, <1>4, <1>6, <2>1 DEF ServiceInv, TypeOK
<1>a. CutIsTold'
  BY <1>6 DEF ServiceInv, CutIsTold
<1>8. RoutedIsKnown'
  <2>1. \A i \in first .. pos : i \in 1 .. Len(room)
    BY <1>3
  <2> QED
    BY <1>4, <1>6, <2>1 DEF ServiceInv, RoutedIsKnown
<1>9. LogKeepsNewest'
  BY <1>3, <1>4, <1>6, LogOfPrefix DEF ServiceInv
<1>10. RefusalIsReal' /\ AckedIsVisible' /\ clock' > 0 /\ JobKnown' /\ RecordsTrue'
  <2>1. RecordsTrue'
    BY <1>1, <1>6 DEF ServiceInv, RecordsTrue, RecordTrue
  <2> QED
    BY <1>1, <1>6, <2>1 DEF ServiceInv, RefusalIsReal, AckedIsVisible, JobKnown
<1> QED
  BY <1>5, <1>7, <1>a, <1>8, <1>9, <1>10 DEF ServiceInv

\* A call is made, times out or is made again.
LEMMA CallStep ==
  ASSUME ServiceInv, NEW r \in Runs, Submit(r) \/ AckTimeout(r) \/ Retry(r)
  PROVE  ServiceInv'
<1>1. /\ UNCHANGED <<clientVars, room, serverVars, restarts>>
      /\ \/ pend' = [pend EXCEPT ![r] = "waiting"]
         \/ pend' = [pend EXCEPT ![r] = "timed_out"]
      /\ owed' = owed \/ owed' = [owed EXCEPT ![r] = owed[r] + 1]
      /\ retries' = retries \/ retries' = retries + 1
  BY DEF Submit, AckTimeout, Retry
<1>2. UNCHANGED <<limit, clock, phase, dead, sending, replies, pos, first, replay, registry, log,
                 ended, complete>>
  BY <1>1 DEF clientVars, serverVars
<1>3. TypeOK'
  <2>1. /\ owed \in [Runs -> Nat] /\ retries \in Nat
        /\ pend \in [Runs -> {"none", "waiting", "accepted", "unknown", "failed", "timed_out"}]
    BY DEF ServiceInv, TypeOK
  <2>2. owed' \in [Runs -> Nat] /\ retries' \in Nat
    BY <1>1, <2>1
  <2>3. pend' \in [Runs -> {"none", "waiting", "accepted", "unknown", "failed", "timed_out"}]
    BY <1>1, <2>1
  <2> QED
    BY <1>1, <1>2, <2>2, <2>3 DEF ServiceInv, TypeOK
<1>4. \A q \in Runs : pend'[q] \in {"accepted", "unknown", "failed"} => pend[q] = pend'[q]
  BY <1>1 DEF ServiceInv, TypeOK
<1>5. RefusalIsReal' /\ AckedIsVisible'
  BY <1>2, <1>4 DEF ServiceInv, RefusalIsReal, AckedIsVisible
<1>6. MessagesTrue' /\ RecordsTrue'
  BY <1>1, <1>2 DEF ServiceInv, MessagesTrue, RecordsTrue, Truthful, RecordTrue
<1>7. RoutedIsKnown' /\ CutIsTold' /\ clock' > 0 /\ JobKnown'
  BY <1>1, <1>2 DEF ServiceInv, RoutedIsKnown, CutIsTold, JobKnown
<1>8. LogKeepsNewest'
  BY <1>1, <1>2 DEF ServiceInv, LogKeepsNewest, OfSim, IsEvent
<1> QED
  BY <1>3, <1>5, <1>6, <1>7, <1>8 DEF ServiceInv

\* What routing the next message does to the registry.
LEMMA RouteProjects ==
  ASSUME ServiceInv, Route
  PROVE  \E m, of : /\ m = room[pos + 1] /\ Truthful(m) /\ of = SimIdOf[m.run] /\ of \in Sims
                    /\ Projects(registry[of], registry'[of])
                    /\ \A s \in Sims : s # of => registry'[s] = registry[s]
<1>1. PICK m, of : m = room[pos + 1] /\ of = SimIdOf[m.run]
  OBVIOUS
<1>2. pos \in Nat /\ pos + 1 \in 1 .. Len(room)
  BY DEF ServiceInv, TypeOK, Route
<1>3. Truthful(m)
  BY <1>1, <1>2 DEF ServiceInv, MessagesTrue
<1>4. of \in Sims
  BY <1>1, <1>3, Names DEF Truthful, Message
<1>5. registry' = [registry EXCEPT ![of] =
        IF m.kind = "event" THEN ProjectEvent(registry[of], m) ELSE ProjectAck(registry[of], m)]
  BY <1>1 DEF Route, Project
<1>6. PICK old, new : /\ old = registry[of]
                      /\ new = IF m.kind = "event" THEN ProjectEvent(old, m) ELSE ProjectAck(old, m)
  OBVIOUS
<1>7. registry' = [registry EXCEPT ![of] = new]
  BY <1>5, <1>6
<1>8. RecordTrue(old) /\ JobKnown /\ registry \in [Sims -> SimRecord]
  BY <1>4, <1>6 DEF ServiceInv, RecordsTrue, TypeOK
<1>9. Projects(old, new)
  <2>1. CASE m.kind = "event"
    BY <1>3, <1>6, <1>8, <2>1, EventProjects
  <2>2. CASE m.kind # "event"
    <3>1. m.kind = "ack"
      BY <1>3, <2>2 DEF Truthful, Message
    <3> QED
      BY <1>3, <1>6, <1>8, <3>1, AckProjects
  <2> QED
    BY <2>1, <2>2
<1>10. registry'[of] = new /\ \A s \in Sims : s # of => registry'[s] = registry[s]
  BY <1>4, <1>7, <1>8
<1> QED
  BY <1>1, <1>3, <1>4, <1>6, <1>9, <1>10

\* The next message is routed, live or in the replay of a new process.
LEMMA RouteStep == ASSUME ServiceInv, Route PROVE ServiceInv'
<1>1. /\ pos < Len(room) /\ pos' = pos + 1 /\ replay' = IF replay = 0 THEN 0 ELSE replay - 1
      /\ log' = IF IsEvent(room[pos + 1]) THEN AppendEventLog(log, pos + 1) ELSE log
      /\ UNCHANGED <<clientVars, owed, room, first, ended, complete, retries, restarts>>
  BY DEF Route
<1>2. UNCHANGED <<limit, clock, phase, dead, sending, replies>>
  BY <1>1 DEF clientVars
<1>3. PICK m, of : /\ m = room[pos + 1] /\ Truthful(m) /\ of = SimIdOf[m.run] /\ of \in Sims
                   /\ Projects(registry[of], registry'[of])
                   /\ \A s \in Sims : s # of => registry'[s] = registry[s]
  BY RouteProjects
<1>4. /\ pos \in Nat /\ first \in 1 .. pos + 1 /\ Len(room) \in Nat /\ pos + 1 \in 1 .. Len(room)
      /\ replay \in 0 .. Len(room) - pos /\ m.run \in Runs
  BY <1>1, <1>3 DEF ServiceInv, TypeOK, Truthful, Message
<1>5. ASSUME NEW s \in Sims
      PROVE  RecordTrue(registry'[s]) /\ (registry[s].run # NoRun => registry'[s].run # NoRun)
  <2>1. CASE s = of
    <3>1. registry'[of].run \in Runs /\ RecordTrue(registry'[of])
      BY <1>3 DEF Projects
    <3> QED
      BY <2>1, <3>1, Names
  <2>2. CASE s # of
    BY <1>3, <2>2 DEF ServiceInv, RecordsTrue
  <2> QED
    BY <2>1, <2>2
<1>6. registry'[of].run # NoRun
  BY <1>3, Names DEF Projects
<1>7. RecordsTrue'
  BY <1>2, <1>5 DEF RecordsTrue, RecordTrue
<1>8. MessagesTrue' /\ JobKnown' /\ clock' > 0
  BY <1>1, <1>2 DEF ServiceInv, MessagesTrue, Truthful, JobKnown
<1>9. registry' \in [Sims -> SimRecord]
  <2>1. registry' = [s \in Sims |-> registry'[s]]
    BY DEF Route, Project, ServiceInv, TypeOK
  <2> QED
    BY <1>5, <2>1 DEF RecordTrue
<1>10. RoutedIsKnown'
  <2>1. ASSUME NEW i \in first .. pos + 1
        PROVE  registry'[SimIdOf[room[i].run]].run # NoRun
    <3>1. CASE i = pos + 1
      BY <1>3, <1>6, <3>1
    <3>2. CASE i \in first .. pos
      <4>1. i \in 1 .. Len(room) /\ registry[SimIdOf[room[i].run]].run # NoRun
        BY <1>1, <1>4, <3>2 DEF ServiceInv, RoutedIsKnown
      <4>2. SimIdOf[room[i].run] \in Sims
        BY <4>1, Names DEF ServiceInv, MessagesTrue, Truthful, Message
      <4> QED
        BY <1>5, <4>1, <4>2
    <3> QED
      BY <1>4, <3>1, <3>2
  <2> QED
    BY <1>1, <2>1 DEF ServiceInv, RoutedIsKnown
<1>a. CutIsTold'
  BY <1>1 DEF ServiceInv, CutIsTold
<1>11. LogKeepsNewest' /\ log' \subseteq 1 .. Len(room)
  <2>1. CASE IsEvent(room[pos + 1])
    BY <1>1, <2>1, LogAppends DEF ServiceInv
  <2>2. CASE ~IsEvent(room[pos + 1])
    BY <1>1, <2>2, LogStays DEF ServiceInv, TypeOK
  <2> QED
    BY <2>1, <2>2
<1>12. /\ pend' \in [Runs -> {"none", "waiting", "accepted", "unknown", "failed", "timed_out"}]
       /\ \A q \in Runs : q # m.run => pend'[q] = pend[q]
       /\ \/ pend'[m.run] = pend[m.run]
          \/ m.kind = "ack" /\ pend'[m.run] = OutcomeFromAck(m)
  <2>1. pend' = [pend EXCEPT ![m.run] =
                   IF m.kind = "ack" /\ pend[m.run] = "waiting" THEN OutcomeFromAck(m) ELSE pend[m.run]]
    BY <1>3 DEF Route
  <2>2. OutcomeFromAck(m) \in {"accepted", "unknown", "failed"}
    BY DEF OutcomeFromAck
  <2>3. pend \in [Runs -> {"none", "waiting", "accepted", "unknown", "failed", "timed_out"}]
    BY DEF ServiceInv, TypeOK
  <2> QED
    BY <1>4, <2>1, <2>2, <2>3
<1>13. TypeOK'
  <2>1. replay' \in 0 .. Len(room) - (pos + 1)
    <3>1. CASE replay = 0
      BY <1>1, <1>4, <3>1
    <3>2. CASE replay # 0
      BY <1>1, <1>4, <3>2
    <3> QED
      BY <3>1, <3>2
  <2>2. pos' \in 0 .. Len(room) /\ first \in 1 .. pos' + 1
    BY <1>1, <1>4
  <2> QED
    BY <1>1, <1>2, <1>9, <1>11, <1>12, <2>1, <2>2 DEF ServiceInv, TypeOK
<1>14. AckedIsVisible'
  <2>1. ASSUME NEW q \in Runs, pend'[q] \in {"accepted", "unknown", "failed"}
        PROVE  registry'[SimIdOf[q]].run # NoRun
    <3>1. CASE q = m.run
      BY <1>3, <1>6, <3>1
    <3>2. CASE q # m.run
      BY <1>5, <1>12, <2>1, <3>2, Names DEF ServiceInv, AckedIsVisible
    <3> QED
      BY <3>1, <3>2
  <2> QED
    BY <2>1 DEF AckedIsVisible
<1>15. RefusalIsReal'
  <2>1. ASSUME NEW q \in Runs, pend'[q] = "failed" PROVE phase[q].st \in {"rejected", "failed"}
    <3>1. CASE pend'[q] = pend[q]
      BY <2>1, <3>1 DEF ServiceInv, RefusalIsReal
    <3>2. CASE q = m.run /\ pend'[q] = OutcomeFromAck(m)
      <4>1. m.st = "failed"
        BY <2>1, <3>2 DEF OutcomeFromAck
      <4> QED
        BY <1>3, <3>2, <4>1 DEF Truthful
    <3> QED
      BY <1>12, <3>1, <3>2
  <2> QED
    BY <1>2, <2>1 DEF RefusalIsReal
<1> QED
  BY <1>7, <1>8, <1>10, <1>a, <1>11, <1>13, <1>14, <1>15 DEF ServiceInv

\* A new process starts.
LEMMA RestartStep == ASSUME ServiceInv, Restart PROVE ServiceInv'
<1>a. PICK from \in 1 .. Len(room) + 1 :
         \E e \in EndingsAt(from) : Starts(from, e, HistoryComplete(e))
  BY DEF Restart
<1>1. PICK e \in EndingsAt(from) : Starts(from, e, HistoryComplete(e))
  BY <1>a
<1>0. e \in Endings /\ (e = "start" => from = 1) /\ HistoryComplete(e) = (e # "cut")
  BY DEF EndingsAt, Endings, HistoryComplete
<1>2. /\ first' = from /\ pos' = from - 1 /\ replay' = Len(room) + 1 - from
      /\ ended' = e /\ complete' = HistoryComplete(e) /\ restarts' = restarts + 1
      /\ registry' = [s \in Sims |-> Unregistered] /\ log' = {}
      /\ pend' = [r \in Runs |-> IF pend[r] = "none" THEN "none" ELSE "timed_out"]
      /\ UNCHANGED <<limit, clock, phase, dead, sending, replies, owed, room, retries>>
  BY <1>1 DEF Starts, clientVars
<1>3. Len(room) \in Nat
  BY DEF ServiceInv, TypeOK
<1>4. first' .. pos' = {}
  BY <1>2, <1>3
<1>5. TypeOK'
  <2>1. pos' \in 0 .. Len(room) /\ first' \in 1 .. pos' + 1 /\ replay' \in 0 .. Len(room) - pos'
    BY <1>2, <1>3
  <2>2. registry' \in [Sims -> SimRecord] /\ ended' \in Endings /\ complete' \in BOOLEAN
    BY <1>0, <1>2, Blank
  <2>3. pend' \in [Runs -> {"none", "waiting", "accepted", "unknown", "failed", "timed_out"}]
    BY <1>2
  <2>4. restarts' \in Nat
    BY <1>2 DEF ServiceInv, TypeOK
  <2> QED
    BY <1>2, <2>1, <2>2, <2>3, <2>4 DEF ServiceInv, TypeOK
<1>6. MessagesTrue' /\ JobKnown' /\ clock' > 0
  BY <1>2 DEF ServiceInv, MessagesTrue, Truthful, JobKnown
<1>7. RecordTrue(Unregistered)
  BY Blank, Names DEF RecordTrue
<1>8. RecordsTrue'
  BY <1>2, <1>7 DEF RecordsTrue, RecordTrue
<1>9. RoutedIsKnown'
  BY <1>2, <1>4 DEF RoutedIsKnown
<1>12. CutIsTold'
  BY <1>0, <1>2 DEF CutIsTold, Endings
<1>10. AckedIsVisible' /\ RefusalIsReal'
  BY <1>2 DEF AckedIsVisible, RefusalIsReal
<1>11. LogKeepsNewest'
  <2>1. ASSUME NEW s \in Sims PROVE OfSim({}, s)' = {}
    BY DEF OfSim
  <2>2. {i \in first .. pos : IsEvent(room[i])}' = {}
    BY <1>4
  <2> QED
    BY <1>2, <2>1, <2>2 DEF LogKeepsNewest, OfSim
<1> QED
  BY <1>5, <1>6, <1>8, <1>9, <1>10, <1>11, <1>12 DEF ServiceInv

\* Nothing was submitted yet.
LEMMA InitOK == ASSUME Init PROVE ServiceInv
<1>1. TypeOK
  <2>1. [st |-> "none", job |-> FALSE] \in Phases
    BY DEF Phases
  <2>2. room = <<>> /\ room \in Seq(Message) /\ Len(room) = 0
    BY DEF Init
  <2>3. /\ phase \in [Runs -> Phases] /\ dead \in SUBSET Runs /\ owed \in [Runs -> Nat]
        /\ sending \in [Runs -> Message \cup {NoMessage}] /\ replies \in SUBSET Message
        /\ registry \in [Sims -> SimRecord]
        /\ pend \in [Runs -> {"none", "waiting", "accepted", "unknown", "failed", "timed_out"}]
    BY <2>1, Blank DEF Init
  <2>4. /\ limit \in Limits /\ clock \in Nat /\ ended \in Endings /\ complete \in BOOLEAN
        /\ retries \in Nat /\ restarts \in Nat
    BY DEF Init, Endings
  <2>5. /\ pos \in 0 .. Len(room) /\ first \in 1 .. pos + 1 /\ replay \in 0 .. Len(room) - pos
        /\ log \subseteq 1 .. Len(room)
    BY <2>2 DEF Init
  <2> QED
    BY <2>2, <2>3, <2>4, <2>5 DEF TypeOK
<1>2. RecordTrue(Unregistered)
  BY Blank, Names DEF RecordTrue
<1>3. RecordsTrue
  BY <1>2 DEF Init, RecordsTrue
<1>4. clock > 0 /\ JobKnown /\ MessagesTrue
  BY DEF Init, JobKnown, MessagesTrue, WithJob
<1>5. first .. pos = {}
  BY DEF Init
<1>6. RoutedIsKnown /\ CutIsTold /\ AckedIsVisible /\ RefusalIsReal
  BY <1>5 DEF Init, RoutedIsKnown, CutIsTold, AckedIsVisible, RefusalIsReal
<1>7. LogKeepsNewest
  BY <1>5 DEF Init, LogKeepsNewest, OfSim
<1> QED
  BY <1>1, <1>3, <1>4, <1>6, <1>7 DEF ServiceInv

\* Every step keeps the inductive invariant.
LEMMA ServiceInvKept == ASSUME ServiceInv, [Next]_vars PROVE ServiceInv'
<1>1. CASE Next
  BY <1>1, PostStep, ReplayStep, LostStep, LandStep, CallStep, RouteStep, RestartStep DEF Next
<1>2. CASE UNCHANGED vars
  <2>1. TypeOK' /\ clock' > 0 /\ JobKnown' /\ AckedIsVisible' /\ RefusalIsReal' /\ RoutedIsKnown'
        /\ CutIsTold'
    BY <1>2 DEF vars, ServiceInv, TypeOK, JobKnown, AckedIsVisible, RefusalIsReal, RoutedIsKnown, CutIsTold
  <2>2. MessagesTrue'
    BY <1>2 DEF vars, ServiceInv, MessagesTrue, Truthful
  <2>3. RecordsTrue'
    BY <1>2 DEF vars, ServiceInv, RecordsTrue, RecordTrue
  <2>4. LogKeepsNewest'
    BY <1>2 DEF vars, ServiceInv, LogKeepsNewest, OfSim, IsEvent
  <2> QED
    BY <2>1, <2>2, <2>3, <2>4 DEF ServiceInv
<1> QED
  BY <1>1, <1>2

\* The inductive invariant holds in every reachable state.
LEMMA ServiceInvAlways == Spec => []ServiceInv
  BY InitOK, ServiceInvKept, PTL DEF Spec

-----------------------------------------------------------------------------
(* The theorems. *)

\* Records never mix runs, and a submit call that returned has one to wait on
\* (_record_for, on_message), whatever is sent again, swapped, late or replayed.
THEOREM RegistryIsConsistent == Spec => []RegistryConsistent
<1>1. ServiceInv => RegistryConsistent
  BY DEF ServiceInv, RegistryConsistent, RecordsTrue, RecordTrue, FieldsOfOneRun
<1> QED
  BY <1>1, ServiceInvAlways, PTL

\* A failure that a record shows or a submit call returns is one the run reported
\* (_project_ack, SubmitOutcome).
THEOREM FailuresAreReported == Spec => []FailuresAreReal
<1>1. ServiceInv => FailuresAreReal
  <2>1. ServiceInv => FailedIsReal
    BY DEF ServiceInv, RecordsTrue, RecordTrue, FailedIsReal, Reported
  <2> QED
    BY <2>1 DEF ServiceInv, FailuresAreReal
<1> QED
  BY <1>1, ServiceInvAlways, PTL

\* The log keeps the newest events of each simulation, what was routed is known, and what
\* a failed page or the cap left out is not called unknown_sim (_append_event_log,
\* unknown_error).
THEOREM LossesAreTold == Spec => []LossesAreHonest
<1>1. ASSUME ServiceInv, NEW s \in Sims, UnknownError(s) # ""
      PROVE  OfSim(first .. pos, s) = {}
  <2>1. registry[s].run = NoRun
    BY <1>1 DEF UnknownError
  <2> QED
    BY <1>1, <2>1 DEF ServiceInv, RoutedIsKnown, OfSim
<1>2. ASSUME ServiceInv, NEW s \in Sims, UnknownError(s) = "unknown_sim", ended # "blank page"
      PROVE  OfSim(1 .. pos, s) = {}
  <2>1. complete = TRUE
    BY <1>2 DEF UnknownError, ServiceInv, TypeOK
  <2>2. first = 1
    BY <1>2, <2>1 DEF ServiceInv, CutIsTold
  <2>3. OfSim(first .. pos, s) = {}
    BY <1>1, <1>2
  <2> QED
    BY <2>2, <2>3
<1>3. ServiceInv => UnknownIsHonest
  BY <1>1, <1>2 DEF UnknownIsHonest
<1>4. ServiceInv => LossesAreHonest
  BY <1>3 DEF ServiceInv, LossesAreHonest
<1> QED
  BY <1>4, ServiceInvAlways, PTL

\* An end that a record shows stays while the process lives, unless a message of another
\* run, stamped no older, takes the record over (_project_event: terminal is monotonic
\* within a run).
THEOREM EndsStay == Spec => TerminalStays
<1>1. ASSUME ServiceInv, [Next]_vars, NEW s \in Sims, registry[s].st \in Terminal, restarts' = restarts
      PROVE  \/ registry'[s] = [registry[s] EXCEPT !.err = registry'[s].err]
             \/ registry'[s].run # registry[s].run /\ registry'[s].ts >= registry[s].ts
  <2>1. CASE registry' = registry
    <3>1. PICK rec : rec = registry[s]
      OBVIOUS
    <3>2. rec \in SimRecord
      BY <1>1, <3>1 DEF ServiceInv, TypeOK
    <3>3. rec = [rec EXCEPT !.err = rec.err]
      BY <3>2 DEF SimRecord
    <3> QED
      BY <2>1, <3>1, <3>3
  <2>2. CASE Route
    <3>1. PICK of \in Sims : /\ Projects(registry[of], registry'[of])
                             /\ \A q \in Sims : q # of => registry'[q] = registry[q]
      BY <1>1, <2>2, RouteProjects
    <3>2. CASE s = of
      BY <1>1, <3>1, <3>2 DEF Projects
    <3>3. CASE s # of
      <4>1. PICK rec : rec = registry[s] /\ rec = registry'[s]
        BY <3>1, <3>3
      <4>2. rec \in SimRecord
        BY <1>1, <4>1 DEF ServiceInv, TypeOK
      <4>3. rec = [rec EXCEPT !.err = rec.err]
        BY <4>2 DEF SimRecord
      <4> QED
        BY <4>1, <4>3
    <3> QED
      BY <3>2, <3>3
  <2>3. CASE Restart
    <3>1. restarts' = restarts + 1 /\ restarts \in Nat
      BY <1>1, <2>3 DEF Restart, Starts, ServiceInv, TypeOK
    <3> QED
      BY <1>1, <3>1
  <2>4. CASE UNCHANGED vars
    BY <2>1, <2>4 DEF vars
  <2>5. CASE Land \/ Tick \/ \E r \in Runs : \/ Post(r) \/ Replay(r) \/ SendLost(r)
                                            \/ Submit(r) \/ AckTimeout(r) \/ Retry(r)
    <3>1. registry' = registry
      BY <2>5 DEF Land, Tick, Post, Replay, SendLost, Submit, AckTimeout, Retry, serverVars
    <3> QED
      BY <2>1, <3>1
  <2> QED
    BY <1>1, <2>2, <2>3, <2>4, <2>5 DEF Next
<1>2. ServiceInv /\ [Next]_vars =>
        [\A s \in Sims :
           registry[s].st \in Terminal /\ restarts' = restarts
             => \/ registry'[s] = [registry[s] EXCEPT !.err = registry'[s].err]
                \/ /\ registry'[s].run # registry[s].run
                   /\ registry'[s].ts >= registry[s].ts]_vars
  BY <1>1
<1> QED
  BY <1>2, ServiceInvAlways, PTL DEF Spec, TerminalStays
=============================================================================
