-------------------------- MODULE JobFollowerProofs --------------------------
(***************************************************************************)
(* Theorems about JobFollower, for every set of percentages, every step    *)
(* between emitted ones, every set of scheduler ends and every bound on    *)
(* requeues, failing reads and stops.                                      *)
(***************************************************************************)
EXTENDS JobFollower, TLAPS

-----------------------------------------------------------------------------
(* The inductive invariant. *)

\* An end that was seen stays: the scheduler requeues no job that has ended, so
\* the snapshot of an end is never stale.
EndSeen ==
    info.st \in ParsedEnds => job = info.st /\ clean = info.clean /\ job \in Ends

\* Where the follower is on its way to the last event, and what it has done by then.
OnTheWay ==
    /\ pc \notin {"lines", "stopped"} => todo = <<>>
    /\ pc \in {"account", "finished", "link", "ready", "unlinked", "failed", "done"} =>
          info.st \in ParsedEnds
    /\ pc \in {"finished", "link", "ready", "unlinked"} =>
          info.st = "COMPLETED" /\ info.clean
    /\ pc \in {"link", "ready", "unlinked"} =>
          \E i \in 1 .. Len(posted) : posted[i].st = "job_finished"
    /\ pc = "ready" => linked
    /\ pc = "failed" => ~(info.st = "COMPLETED" /\ info.clean)

\* The bucket is at or past that of every event that reports progress.
BucketsBehind ==
    \A i \in ProgressEvents :
        /\ posted[i].percent \in Percents
        /\ posted[i].percent \div StepPercent <= tracked.bucket

\* Completion has been emitted; the last event of all does not count.
CompletionPosted ==
    \E i \in 1 .. Len(posted) - (IF pc = "done" THEN 1 ELSE 0) : posted[i].percent = 100

\* Without a requeue or a failing read: the file was read up to the offset, a line of
\* it that reports completion is still to be looked at or was emitted, and once the
\* end was seen and the file read again nothing is left to read.
FileRead ==
    spent.requeue = 0 /\ spent.read = 0 =>
        /\ tracked.offset <= Len(lines)
        /\ \A i \in 1 .. tracked.offset : lines[i] = 100 =>
              \/ CompletionPosted
              \/ pc = "stopped"
              \/ \E k \in 1 .. Len(todo) : todo[k] = 100
        /\ info.st \in ParsedEnds /\ pc \notin {"tail", "stopped"} =>
              tracked.offset = Len(lines)

\* What holds in every reachable state, strong enough to be kept by every step.
FollowerInv ==
    /\ TypeOK /\ EndSeen /\ OnTheWay /\ BucketsBehind /\ FileRead
    /\ ProgressForward /\ BoundedCadence /\ EndIsTrue

-----------------------------------------------------------------------------
(* Arithmetic and sequences. *)

\* Larger percentages are in later buckets.
LEMMA BucketsGrow ==
  ASSUME NEW p \in Nat, NEW q \in Nat
  PROVE  /\ p \div StepPercent \in Nat
         /\ p <= q => p \div StepPercent <= q \div StepPercent
<1>1. StepPercent \in 1 .. 100
  BY FollowerAssumption
<1> QED
  BY <1>1

\* What appending an event changes.
LEMMA Appended ==
  ASSUME NEW S, NEW s \in Seq(S), NEW e \in S
  PROVE  /\ Append(s, e) \in Seq(S) /\ Len(Append(s, e)) = Len(s) + 1
         /\ \A i \in 1 .. Len(s) : Append(s, e)[i] = s[i]
         /\ Append(s, e)[Len(s) + 1] = e
  OBVIOUS

\* Strings the follower's positions and the events are named with.
LEMMA EventType ==
  ASSUME NEW st \in PostedStates, NEW pct \in Percents \cup {NoLine}
  PROVE  Event(st, pct) \in [st : PostedStates, percent : Percents \cup {NoLine}]
  BY DEF Event

-----------------------------------------------------------------------------
(* Type correctness. *)

(* The types hold initially. *)
LEMMA TypeInit == Init => TypeOK
<1> SUFFICES ASSUME Init PROVE TypeOK
  OBVIOUS
<1>1. /\ clean \in BOOLEAN /\ purged \in BOOLEAN /\ linked \in BOOLEAN
      /\ job = "PENDING" /\ reason \in Reasons \cup {NoReason}
  BY DEF Init
<1>2. lines \in Seq(Percents) /\ todo \in Seq(Percents) /\ partial = NoLine
  BY DEF Init
<1>3. info \in Snapshot
  BY DEF Init, Snapshot, Parsed
<1>4. tracked \in [running : BOOLEAN, reason : Reasons \cup {NoReason},
                   offset : Nat, bucket : Nat]
  BY DEF Init
<1>5. posted \in Seq([st : PostedStates, percent : Percents \cup {NoLine}])
  BY DEF Init
<1>6. spent \in [{"reason", "requeue", "read", "stop"} -> Nat]
  BY DEF Init
<1> QED
  BY <1>1, <1>2, <1>3, <1>4, <1>5, <1>6 DEF TypeOK, Init

\* Disturbances are counted.
LEMMA DisturbType ==
  ASSUME TypeOK, NEW kind \in {"reason", "requeue", "read", "stop"}, Disturb(kind)
  PROVE  /\ spent' \in [{"reason", "requeue", "read", "stop"} -> Nat]
         /\ spent'[kind] # 0
         /\ \A k \in {"reason", "requeue", "read", "stop"} : k # kind => spent'[k] = spent[k]
  BY DEF TypeOK, Disturb

(* A step of the job keeps the types. *)
LEMMA TypeJob == TypeOK /\ Job => TypeOK'
<1> SUFFICES ASSUME TypeOK, Job PROVE TypeOK'
  OBVIOUS
<1>1. UNCHANGED <<linked, pc, info, tracked, todo, posted>>
  BY DEF Job
<1>2. spent' \in [{"reason", "requeue", "read", "stop"} -> Nat]
  BY DisturbType DEF Job, ReasonChanges, Requeue, TypeOK
<1>3. /\ job' \in {"PENDING", "RUNNING", "COMPLETING"} \cup Ends
      /\ reason' \in Reasons \cup {NoReason}
  BY DEF Job, JobStarts, JobWrites, JobCompletes, JobEnds, Purge, ReasonChanges, Requeue,
         TypeOK
<1>5. clean' \in BOOLEAN
  <2>1. CASE JobEnds
    <3>1. clean' \in BOOLEAN \/ clean' \in {FALSE}
      BY <2>1 DEF JobEnds
    <3> QED
      BY <3>1
  <2>2. CASE ~JobEnds
    BY <2>2 DEF Job, JobStarts, JobWrites, JobCompletes, Purge, ReasonChanges, Requeue,
                TypeOK
  <2> QED
    BY <2>1, <2>2
<1>6. purged' \in BOOLEAN
  BY DEF Job, JobStarts, JobWrites, JobCompletes, JobEnds, Purge, ReasonChanges, Requeue,
         TypeOK
<1>4. lines' \in Seq(Percents) /\ partial' \in Percents \cup {NoLine}
  <2>1. CASE JobWrites
    <3>1. lines \in Seq(Percents) /\ partial \in Percents \cup {NoLine}
      BY DEF TypeOK
    <3>2. CASE partial # NoLine
      <4>1. partial \in Percents /\ lines' = Append(lines, partial) /\ partial' = NoLine
        BY <2>1, <3>1, <3>2 DEF JobWrites
      <4> QED
        BY <3>1, <4>1
    <3>3. CASE partial = NoLine
      BY <2>1, <3>1, <3>3 DEF JobWrites
    <3> QED
      BY <3>2, <3>3
  <2>2. CASE Requeue
    BY <2>2 DEF Requeue
  <2>3. CASE ~JobWrites /\ ~Requeue
    <3>1. UNCHANGED <<lines, partial>>
      BY <2>3 DEF Job, JobStarts, JobCompletes, JobEnds, Purge, ReasonChanges
    <3> QED
      BY <3>1 DEF TypeOK
  <2> QED
    BY <2>1, <2>2, <2>3
<1> QED
  BY <1>1, <1>2, <1>3, <1>4, <1>5, <1>6 DEF TypeOK

\* A posted event keeps the sequence of events one.
LEMMA TypePost ==
  ASSUME TypeOK, NEW st \in PostedStates, NEW pct \in Percents \cup {NoLine},
         posted' = Append(posted, Event(st, pct))
  PROVE  /\ posted' \in Seq([st : PostedStates, percent : Percents \cup {NoLine}])
         /\ Len(posted') = Len(posted) + 1 /\ Len(posted) \in Nat
         /\ \A i \in 1 .. Len(posted) : posted'[i] = posted[i]
         /\ posted'[Len(posted) + 1].st = st /\ posted'[Len(posted) + 1].percent = pct
<1>1. Event(st, pct) \in [st : PostedStates, percent : Percents \cup {NoLine}]
  BY EventType
<1>2. posted \in Seq([st : PostedStates, percent : Percents \cup {NoLine}])
  BY DEF TypeOK
<1>3. Event(st, pct).st = st /\ Event(st, pct).percent = pct
  BY DEF Event
<1> QED
  BY <1>1, <1>2, <1>3, Appended

\* What the next line to look at is, and what is left after it.
LEMMA TakeLine ==
  ASSUME TypeOK, todo # <<>>, todo' = Tail(todo)
  PROVE  /\ Head(todo) \in Percents /\ Head(todo) \in Nat /\ Head(todo) <= 100
         /\ todo' \in Seq(Percents)
         /\ \A k \in 1 .. Len(todo) : 
              k = 1 \/ \E m \in 1 .. Len(todo') : todo'[m] = todo[k]
         /\ todo[1] = Head(todo)
<1>1. todo \in Seq(Percents)
  BY DEF TypeOK
<1>2. Head(todo) \in Percents /\ Head(todo) = todo[1]
  BY <1>1
<1>3. Tail(todo) \in Seq(Percents) /\ Len(Tail(todo)) = Len(todo) - 1
  BY <1>1
<1>4. \A k \in 1 .. Len(todo) - 1 : Tail(todo)[k] = todo[k + 1]
  BY <1>1
<1>5. \A k \in 1 .. Len(todo) : k = 1 \/ \E m \in 1 .. Len(todo') : todo'[m] = todo[k]
  <2> TAKE k \in 1 .. Len(todo)
  <2>1. k # 1 => k - 1 \in 1 .. Len(todo) - 1 /\ (k - 1) + 1 = k
    BY <1>1
  <2>2. k # 1 => Tail(todo)[k - 1] = todo[k]
    BY <1>4, <2>1
  <2> QED
    BY <1>3, <2>1, <2>2
<1>6. Head(todo) \in Nat /\ Head(todo) <= 100
  <2>1. \A p \in Percents : p \in Nat /\ p <= 100
    BY FollowerAssumption
  <2> QED
    BY <1>2, <2>1
<1> QED
  BY <1>2, <1>3, <1>5, <1>6

\* The lines a read returns.
LEMMA ReadType ==
  ASSUME TypeOK, ReadLines
  PROVE  /\ todo' \in Seq(Percents)
         /\ tracked' = [tracked EXCEPT !.offset = Len(lines)] /\ Len(lines) \in Nat
         /\ tracked.offset <= Len(lines) =>
              \A i \in 1 .. Len(lines) : i > tracked.offset =>
                 i - tracked.offset \in 1 .. Len(todo') /\ todo'[i - tracked.offset] = lines[i]
<1>1. lines \in Seq(Percents) /\ tracked.offset \in Nat
  BY DEF TypeOK
<1> DEFINE from == IF tracked.offset > Len(lines) THEN 0 ELSE tracked.offset
<1>2. from \in Nat /\ (tracked.offset <= Len(lines) => from = tracked.offset)
  BY <1>1
<1>3. todo' = SubSeq(lines, from + 1, Len(lines)) /\ tracked' = [tracked EXCEPT !.offset = Len(lines)]
  BY DEF ReadLines, Consumed
<1> HIDE DEF from
<1> QED
  BY <1>1, <1>2, <1>3

\* Every step of the program keeps the types.
LEMMA TypeStep == TypeOK /\ [Next]_vars => TypeOK'
<1> SUFFICES ASSUME TypeOK, [Next]_vars PROVE TypeOK'
  OBVIOUS
<1> USE DEF jobVars
<1>1. CASE Job
  BY <1>1, TypeJob
<1>2. CASE PollOk
  <2>1. info' \in Snapshot
    BY <1>2 DEF PollOk, TypeOK, Snapshot
  <2>2. pc' \in {"emitRunning", "emitReason", "tail"}
    BY <1>2 DEF PollOk, AfterPoll
  <2>3. tracked' \in [running : BOOLEAN, reason : Reasons \cup {NoReason},
                      offset : Nat, bucket : Nat]
    BY <1>2, <2>1 DEF PollOk, TypeOK, Snapshot
  <2> QED
    BY <1>2, <2>1, <2>2, <2>3 DEF PollOk, TypeOK
<1>3. CASE PollFails
  BY <1>3 DEF PollFails, TypeOK
<1>4. CASE Wake
  BY <1>4 DEF Wake, TypeOK
<1>5. CASE EmitState
  BY <1>5, TypePost, ZenonT(60) DEF EmitState, TypeOK, PostedStates
<1>6. CASE ReadLines
  <2>1. tracked' \in [running : BOOLEAN, reason : Reasons \cup {NoReason},
                      offset : Nat, bucket : Nat]
    <3>1. tracked' = [tracked EXCEPT !.offset = Len(lines)] /\ Len(lines) \in Nat
      BY <1>6, ReadType
    <3> QED
      BY <3>1 DEF TypeOK
  <2> QED
    BY <1>6, <2>1, ReadType DEF ReadLines, TypeOK
<1>7. CASE ReadFails
  BY <1>7, DisturbType DEF ReadFails, TypeOK
<1>8. CASE TailProgress
  <2>1. Head(todo) \in Percents /\ Head(todo) \in Nat /\ todo' \in Seq(Percents)
    <3>1. todo # <<>> /\ todo' = Tail(todo)
      BY <1>8 DEF TailProgress
    <3> QED
      BY <3>1, TakeLine
  <2>2. CASE WorthEmitting(Head(todo))
    <3>1. Head(todo) \div StepPercent \in Nat
      BY <2>1, BucketsGrow
    <3>2. tracked' \in [running : BOOLEAN, reason : Reasons \cup {NoReason},
                        offset : Nat, bucket : Nat]
      BY <1>8, <2>2, <3>1 DEF TailProgress, TypeOK
    <3>3. posted' \in Seq([st : PostedStates, percent : Percents \cup {NoLine}])
      BY <1>8, <2>1, <2>2, TypePost DEF TailProgress, PostedStates
    <3> QED
      BY <1>8, <2>1, <3>2, <3>3 DEF TailProgress, TypeOK
  <2>3. CASE ~WorthEmitting(Head(todo))
    BY <1>8, <2>1, <2>3 DEF TailProgress, TypeOK
  <2> QED
    BY <2>2, <2>3
<1>9. CASE TailDone
  BY <1>9 DEF TailDone, TypeOK
<1>10. CASE Account
  BY <1>10 DEF Account, TypeOK
<1>11. CASE EmitFinished
  BY <1>11, TypePost DEF EmitFinished, TypeOK, PostedStates
<1>12. CASE LinkRunResults
  BY <1>12 DEF LinkRunResults, TypeOK
<1>13. CASE EmitLast
  <2>1. LastEvent \in PostedStates
    BY DEF LastEvent, PostedStates, LastStates
  <2> QED
    BY <1>13, <2>1, TypePost DEF EmitLast, TypeOK
<1>14. CASE Stopped
  BY <1>14, DisturbType DEF Stopped, TypeOK
<1>15. CASE UNCHANGED vars
  BY <1>15 DEF vars, TypeOK
<1> QED
  BY <1>1, <1>2, <1>3, <1>4, <1>5, <1>6, <1>7, <1>8, <1>9, <1>10, <1>11, <1>12, <1>13,
     <1>14, <1>15 DEF Next, Step

\* Type correctness: every program state has the declared shape.
THEOREM FollowerTypeOK == Spec => []TypeOK
  BY TypeInit, TypeStep, PTL DEF Spec

-----------------------------------------------------------------------------
(* The end of the job. *)

\* The scheduler leaves an ended job and its output alone.
LEMMA EndsStay ==
  ASSUME Job, job \in Ends
  PROVE  job' = job /\ clean' = clean /\ lines' = lines /\ spent' = spent
<1>1. job \notin {"PENDING", "RUNNING", "COMPLETING"}
  BY FollowerAssumption
<1> QED
  BY <1>1 DEF Job, JobStarts, JobWrites, JobCompletes, JobEnds, Purge, ReasonChanges, Requeue

\* A snapshot of an end is never stale.
LEMMA EndSeenStep == TypeOK /\ EndSeen /\ [Next]_vars => EndSeen'
<1> SUFFICES ASSUME TypeOK, EndSeen, [Next]_vars PROVE EndSeen'
  OBVIOUS
<1>1. CASE Job
  <2>1. info' = info
    BY <1>1 DEF Job
  <2> QED
    BY <1>1, <2>1, EndsStay DEF EndSeen
<1>2. CASE PollOk
  <2>1. /\ info'.st = job /\ info'.clean = clean /\ job' = job /\ clean' = clean
    BY <1>2 DEF PollOk, jobVars
  <2> QED
    BY <2>1 DEF EndSeen, TypeOK, ParsedEnds
<1>3. CASE UNCHANGED <<job, clean, info>>
  BY <1>3 DEF EndSeen
<1> QED
  BY <1>1, <1>2, <1>3 DEF Next, Step, vars, jobVars, PollFails, ReadFails, EmitState, ReadLines,
     TailProgress, TailDone, Account, EmitFinished, LinkRunResults, EmitLast, Wake, Stopped

\* The follower passes its stations in order.
LEMMA OnTheWayStep == TypeOK /\ OnTheWay /\ [Next]_vars => OnTheWay'
<1> SUFFICES ASSUME TypeOK, OnTheWay, [Next]_vars PROVE OnTheWay'
  OBVIOUS
<1> USE DEF OnTheWay
<1>1. CASE Job
  BY <1>1 DEF Job
<1>2. CASE PollOk
  <2>1. pc' \in {"emitRunning", "emitReason", "tail"}
    BY <1>2 DEF PollOk, AfterPoll
  <2> QED
    BY <1>2, <2>1 DEF PollOk
<1>3. CASE PollFails
  BY <1>3 DEF PollFails
<1>4. CASE Wake
  BY <1>4 DEF Wake
<1>5. CASE EmitState
  BY <1>5 DEF EmitState
<1>6. CASE ReadLines
  BY <1>6 DEF ReadLines
<1>7. CASE ReadFails
  BY <1>7 DEF ReadFails
<1>8. CASE TailProgress
  BY <1>8 DEF TailProgress
<1>9. CASE TailDone
  BY <1>9 DEF TailDone
<1>10. CASE Account
  BY <1>10 DEF Account
<1>11. CASE EmitFinished
  <2>1. /\ Len(posted') = Len(posted) + 1 /\ Len(posted) \in Nat
        /\ posted'[Len(posted) + 1].st = "job_finished"
    BY <1>11, TypePost DEF EmitFinished, PostedStates
  <2>2. \E i \in 1 .. Len(posted') : posted'[i].st = "job_finished"
    BY <2>1
  <2> QED
    BY <1>11, <2>2 DEF EmitFinished
<1>12. CASE LinkRunResults
  BY <1>12 DEF LinkRunResults, TypeOK
<1>13. CASE EmitLast
  BY <1>13 DEF EmitLast
<1>14. CASE Stopped
  BY <1>14 DEF Stopped
<1>15. CASE UNCHANGED vars
  BY <1>15 DEF vars
<1> QED
  BY <1>1, <1>2, <1>3, <1>4, <1>5, <1>6, <1>7, <1>8, <1>9, <1>10, <1>11, <1>12, <1>13,
     <1>14, <1>15 DEF Next, Step

-----------------------------------------------------------------------------
(* Progress. *)

\* Percentages are numbers up to 100.
LEMMA PercentRange == \A p \in Percents : p \in Nat /\ p <= 100
  BY FollowerAssumption

\* What is said of the events that report progress.
ProgressOrdered == BucketsBehind /\ ProgressForward /\ BoundedCadence

\* Nothing changes for a step that adds no event of this kind.
LEMMA ProgressKept ==
  ASSUME ProgressOrdered, ProgressEvents' = ProgressEvents, tracked'.bucket = tracked.bucket,
         \A i \in ProgressEvents : posted'[i] = posted[i]
  PROVE  ProgressOrdered'
<1>1. BucketsBehind'
  BY DEF ProgressOrdered, BucketsBehind
<1>2. ProgressForward'
  BY DEF ProgressOrdered, ProgressForward
<1>3. BoundedCadence'
  BY DEF ProgressOrdered, BoundedCadence
<1> QED
  BY <1>1, <1>2, <1>3 DEF ProgressOrdered

\* Events of another kind do not disturb the order of progress.
LEMMA OtherPost ==
  ASSUME TypeOK, ProgressOrdered, NEW st \in PostedStates, st # "step_finished",
         posted' = Append(posted, Event(st, NoLine)), tracked' = tracked
  PROVE  ProgressOrdered'
<1>2. /\ Len(posted') = Len(posted) + 1 /\ Len(posted) \in Nat
      /\ \A i \in 1 .. Len(posted) : posted'[i] = posted[i]
      /\ posted'[Len(posted) + 1].st = st
  BY TypePost
<1>1. ProgressEvents' = ProgressEvents /\ \A i \in ProgressEvents : posted'[i] = posted[i]
  BY <1>2 DEF ProgressEvents
<1> QED
  BY <1>1, ProgressKept

\* An event that is past all the others in bucket and percentage can be added.
LEMMA ProgressAdded ==
  ASSUME ProgressOrdered, NEW n, NEW p \in Percents, p \in Nat,
         ProgressEvents' = ProgressEvents \cup {n}, n \notin ProgressEvents,
         posted'[n].percent = p, tracked'.bucket = p \div StepPercent,
         p \div StepPercent \in Nat,
         \A i \in ProgressEvents :
            /\ i < n /\ ~(n < i) /\ posted'[i] = posted[i]
            /\ posted[i].percent \in Percents /\ posted[i].percent <= p
            /\ posted[i].percent \div StepPercent <= p \div StepPercent
            /\ posted[i].percent < 100 /\ p < 100 =>
                  posted[i].percent \div StepPercent # p \div StepPercent,
         ~(n < n)
  PROVE  ProgressOrdered'
<1>1. BucketsBehind'
  BY DEF ProgressOrdered, BucketsBehind
<1>2. ProgressForward'
  BY DEF ProgressOrdered, ProgressForward
<1>3. BoundedCadence'
  BY DEF ProgressOrdered, BoundedCadence
<1> QED
  BY <1>1, <1>2, <1>3 DEF ProgressOrdered

\* A line that is worth emitting is past every bucket emitted before, or reports
\* completion.
LEMMA ProgressPost ==
  ASSUME TypeOK, ProgressOrdered, NEW p \in Percents, WorthEmitting(p),
         posted' = Append(posted, Event("step_finished", p)),
         tracked' = [tracked EXCEPT !.bucket = p \div StepPercent]
  PROVE  ProgressOrdered'
<1> DEFINE n == Len(posted) + 1
<1>1. /\ ProgressEvents' = ProgressEvents \cup {n} /\ n \notin ProgressEvents
      /\ posted'[n].percent = p /\ \A i \in ProgressEvents : posted'[i] = posted[i]
      /\ ~(n < n) /\ \A i \in ProgressEvents : i < n /\ ~(n < i)
  <2>1. /\ Len(posted') = Len(posted) + 1 /\ Len(posted) \in Nat
        /\ \A i \in 1 .. Len(posted) : posted'[i] = posted[i]
        /\ posted'[n].st = "step_finished" /\ posted'[n].percent = p
    BY TypePost DEF PostedStates
  <2> QED
    BY <2>1 DEF ProgressEvents
<1>2. p \in Nat /\ p <= 100 /\ p \div StepPercent \in Nat
  BY PercentRange, BucketsGrow
<1>3. tracked'.bucket = p \div StepPercent
  BY DEF TypeOK
<1>4. ASSUME NEW i \in ProgressEvents
      PROVE  /\ posted[i].percent \in Percents /\ posted[i].percent <= p
             /\ posted[i].percent \div StepPercent <= p \div StepPercent
             /\ posted[i].percent < 100 /\ p < 100 =>
                   posted[i].percent \div StepPercent # p \div StepPercent
  <2> DEFINE q == posted[i].percent
  <2>1. q \in Percents /\ q \div StepPercent <= tracked.bucket
    BY DEF ProgressOrdered, BucketsBehind
  <2>2. q \in Nat /\ q <= 100 /\ q \div StepPercent \in Nat
    BY <2>1, PercentRange, BucketsGrow
  <2>3. tracked.bucket \in Nat
    BY DEF TypeOK
  <2> HIDE DEF q
  <2>4. q \div StepPercent < p \div StepPercent \/ p = 100
    BY <1>2, <2>1, <2>2, <2>3 DEF WorthEmitting
  <2>5. p \div StepPercent <= q \div StepPercent \/ q <= p
    BY <1>2, <2>2, BucketsGrow
  <2>6. q <= p
    BY <1>2, <2>2, <2>4, <2>5
  <2>7. q \div StepPercent <= p \div StepPercent
    BY <1>2, <2>2, <2>6, BucketsGrow
  <2> QED
    BY <1>2, <2>1, <2>2, <2>4, <2>6, <2>7 DEF q
<1> HIDE DEF n
<1> QED
  BY <1>1, <1>2, <1>3, <1>4, ProgressAdded

\* Every step keeps progress ordered.
LEMMA ProgressStep == TypeOK /\ ProgressOrdered /\ [Next]_vars => ProgressOrdered'
<1> SUFFICES ASSUME TypeOK, ProgressOrdered, [Next]_vars PROVE ProgressOrdered'
  OBVIOUS
<1>1. CASE EmitState
  BY <1>1, OtherPost DEF EmitState, PostedStates
<1>2. CASE EmitFinished
  BY <1>2, OtherPost DEF EmitFinished, PostedStates
<1>3. CASE EmitLast
  <2>1. LastEvent \in PostedStates /\ LastEvent # "step_finished"
    BY DEF LastEvent, PostedStates, LastStates
  <2> QED
    BY <1>3, <2>1, OtherPost DEF EmitLast
<1>4. CASE TailProgress
  <2>1. todo # <<>> /\ todo' = Tail(todo)
    BY <1>4 DEF TailProgress
  <2>2. Head(todo) \in Percents
    BY <2>1, TakeLine
  <2>3. CASE WorthEmitting(Head(todo))
    BY <1>4, <2>2, <2>3, ProgressPost DEF TailProgress
  <2>4. CASE ~WorthEmitting(Head(todo))
    BY <1>4, <2>4, ProgressKept DEF TailProgress, ProgressEvents
  <2> QED
    BY <2>3, <2>4
<1>5. CASE posted' = posted /\ tracked'.bucket = tracked.bucket
  BY <1>5, ProgressKept DEF ProgressEvents
<1>6. CASE PollOk
  BY <1>5, <1>6 DEF PollOk, TypeOK
<1>7. CASE ReadLines
  BY <1>5, <1>7, ReadType DEF ReadLines, TypeOK
<1>8. CASE UNCHANGED <<posted, tracked>>
  BY <1>5, <1>8
<1> QED
  BY <1>1, <1>2, <1>3, <1>4, <1>6, <1>7, <1>8 DEF Next, Step, vars, Job, PollFails, ReadFails,
     TailDone, Account, LinkRunResults, Wake, Stopped

-----------------------------------------------------------------------------
(* The file. *)

\* An emitted completion stays emitted, before the last event of all.
LEMMA CompletionKept ==
  ASSUME CompletionPosted, Len(posted) \in Nat, Len(posted') \in Nat,
         \A i \in 1 .. Len(posted) : posted'[i] = posted[i],
         \/ pc' # "done" /\ Len(posted') >= Len(posted)
         \/ Len(posted') = Len(posted) + 1
         \/ pc' = pc /\ Len(posted') = Len(posted)
  PROVE  CompletionPosted'
  BY DEF CompletionPosted

\* A step that neither reads nor writes the file keeps what is known of it.
LEMMA FileKept ==
  ASSUME FileRead, spent'.requeue = spent.requeue, spent'.read = spent.read,
         lines' = lines, tracked'.offset = tracked.offset, todo' = todo,
         CompletionPosted => CompletionPosted',
         pc = "stopped" => pc' = "stopped",
         info'.st \in ParsedEnds /\ pc' \notin {"tail", "stopped"} =>
            info.st \in ParsedEnds /\ pc \notin {"tail", "stopped"}
  PROVE  FileRead'
  BY DEF FileRead

\* The job writes only behind what was read, and not after its end.
LEMMA FileJob ==
  ASSUME TypeOK, EndSeen, FileRead, Job PROVE FileRead'
<1>1. UNCHANGED <<pc, info, tracked, todo, posted>>
  BY DEF Job
<1>2. CompletionPosted' = CompletionPosted
  BY <1>1 DEF CompletionPosted
<1>3. CASE Requeue
  <2>1. spent'.requeue # 0
    BY <1>3, DisturbType DEF Requeue
  <2> QED
    BY <2>1 DEF FileRead
<1>4. CASE ~Requeue
  <2>1. spent'.requeue = spent.requeue /\ spent'.read = spent.read
    BY <1>4, DisturbType DEF Job, ReasonChanges
  <2>2. /\ Len(lines) \in Nat /\ Len(lines') \in Nat /\ Len(lines) <= Len(lines')
        /\ \A i \in 1 .. Len(lines) : lines'[i] = lines[i]
    <3>1. CASE lines' = lines
      BY <3>1 DEF TypeOK
    <3>2. CASE JobWrites /\ partial # NoLine
      <4>1. partial \in Percents /\ lines' = Append(lines, partial) /\ lines \in Seq(Percents)
        BY <3>2 DEF JobWrites, TypeOK
      <4> QED
        BY <4>1, Appended
    <3> QED
      BY <1>4, <3>1, <3>2 DEF Job, JobStarts, JobWrites, JobCompletes, JobEnds, Purge, ReasonChanges
  <2>3. info.st \in ParsedEnds => lines' = lines
    BY EndsStay DEF EndSeen
  <2>4. tracked.offset \in Nat
    BY DEF TypeOK
  <2> QED
    BY <1>1, <1>2, <2>1, <2>2, <2>3, <2>4 DEF FileRead
<1> QED
  BY <1>3, <1>4

\* A read leaves the new lines to be looked at, up to the last complete one.
LEMMA FileReadLines ==
  ASSUME TypeOK, OnTheWay, FileRead, ReadLines PROVE FileRead'
<1>1. /\ pc = "tail" /\ pc' = "lines" /\ todo = <<>>
      /\ UNCHANGED <<lines, posted, spent>>
  BY DEF ReadLines, OnTheWay, jobVars
<1>2. CompletionPosted' = CompletionPosted
  BY <1>1 DEF CompletionPosted
<1>3. tracked'.offset = Len(lines) /\ Len(lines) \in Nat /\ tracked.offset \in Nat
  BY ReadType DEF TypeOK
<1>4. ASSUME spent.requeue = 0, spent.read = 0, NEW i \in 1 .. Len(lines), lines[i] = 100
      PROVE  CompletionPosted \/ \E k \in 1 .. Len(todo') : todo'[k] = 100
  <2>1. CASE i <= tracked.offset
    BY <1>1, <1>3, <1>4, <2>1 DEF FileRead
  <2>2. CASE i > tracked.offset
    <3>1. tracked.offset <= Len(lines)
      BY <1>4 DEF FileRead
    <3>2. i - tracked.offset \in 1 .. Len(todo') /\ todo'[i - tracked.offset] = lines[i]
      BY <2>2, <3>1, ReadType
    <3> QED
      BY <1>4, <3>2
  <2> QED
    BY <1>3, <2>1, <2>2
<1> QED
  BY <1>1, <1>2, <1>3, <1>4 DEF FileRead

\* A line that reports completion is emitted when it is looked at.
LEMMA FileTail ==
  ASSUME TypeOK, FileRead, TailProgress PROVE FileRead'
<1>1. /\ todo # <<>> /\ todo' = Tail(todo) /\ pc = "lines"
      /\ UNCHANGED <<lines, spent, pc, info>>
  BY DEF TailProgress, jobVars
<1>2. tracked'.offset = tracked.offset
  BY DEF TailProgress, TypeOK
<1>3. Head(todo) \in Percents /\ Head(todo) \in Nat /\ Len(posted) \in Nat
  BY <1>1, TakeLine DEF TypeOK
<1>4. /\ CompletionPosted => CompletionPosted'
      /\ Head(todo) = 100 => CompletionPosted'
  <2>1. CASE WorthEmitting(Head(todo))
    <3>1. /\ Len(posted') = Len(posted) + 1
          /\ \A i \in 1 .. Len(posted) : posted'[i] = posted[i]
          /\ posted'[Len(posted) + 1].percent = Head(todo)
      BY <1>3, <2>1, TypePost DEF TailProgress, PostedStates
    <3>2. CompletionPosted => CompletionPosted'
      BY <1>3, <3>1, CompletionKept
    <3>3. Head(todo) = 100 => CompletionPosted'
      BY <1>1, <1>3, <3>1 DEF CompletionPosted
    <3> QED
      BY <3>2, <3>3
  <2>2. CASE ~WorthEmitting(Head(todo))
    <3>1. Head(todo) # 100
      BY <2>2 DEF WorthEmitting
    <3> QED
      BY <1>1, <2>2, <3>1 DEF TailProgress, CompletionPosted
  <2> QED
    BY <2>1, <2>2
<1>5. (\E k \in 1 .. Len(todo) : todo[k] = 100) =>
         Head(todo) = 100 \/ \E k \in 1 .. Len(todo') : todo'[k] = 100
  BY <1>1, TakeLine
<1> QED
  BY <1>1, <1>2, <1>4, <1>5 DEF FileRead

\* Every step keeps what is known of the file.
LEMMA FileStep == TypeOK /\ EndSeen /\ OnTheWay /\ FileRead /\ [Next]_vars => FileRead'
<1> SUFFICES ASSUME TypeOK, EndSeen, OnTheWay, FileRead, [Next]_vars PROVE FileRead'
  OBVIOUS
<1>0. Len(posted) \in Nat
  BY DEF TypeOK
<1> USE DEF jobVars
<1>1. CASE Job
  BY <1>1, FileJob
<1>2. CASE PollOk
  <2>1. tracked'.offset = tracked.offset
    BY <1>2 DEF PollOk, TypeOK
  <2>2. info'.st \in ParsedEnds => pc' = "tail"
    BY <1>2 DEF PollOk, AfterPoll, ParsedEnds
  <2>3. pc = "poll" /\ pc' # "done" /\ UNCHANGED <<posted, lines, todo, spent>>
    BY <1>2 DEF PollOk, AfterPoll
  <2>4. CompletionPosted => CompletionPosted'
    BY <1>0, <2>3 DEF CompletionPosted
  <2> QED
    BY <2>1, <2>2, <2>3, <2>4, FileKept
<1>3. CASE PollFails \/ Wake \/ TailDone \/ Account \/ LinkRunResults
  <2>1. /\ UNCHANGED <<posted, lines, todo, spent, info, tracked>>
        /\ pc' \notin {"done", "stopped"} /\ pc \notin {"done", "tail", "stopped"}
    BY <1>3 DEF PollFails, Wake, TailDone, Account, LinkRunResults
  <2>2. CompletionPosted => CompletionPosted'
    BY <2>1 DEF CompletionPosted
  <2> QED
    BY <2>1, <2>2, FileKept
<1>4. CASE EmitState \/ EmitFinished \/ EmitLast
  <2>1. PICK st \in PostedStates : posted' = Append(posted, Event(st, NoLine))
    BY <1>4 DEF EmitState, EmitFinished, EmitLast, LastEvent, PostedStates, LastStates
  <2>2. /\ Len(posted') = Len(posted) + 1
        /\ \A i \in 1 .. Len(posted) : posted'[i] = posted[i]
    BY <2>1, TypePost
  <2>3. CompletionPosted => CompletionPosted'
    BY <1>0, <2>2, CompletionKept
  <2>4. /\ UNCHANGED <<lines, todo, spent, info, tracked>>
        /\ pc # "stopped" /\ (pc' = "tail" \/ pc # "tail")
    BY <1>4 DEF EmitState, EmitFinished, EmitLast
  <2> QED
    BY <2>3, <2>4, FileKept
<1>5. CASE ReadLines
  BY <1>5, FileReadLines
<1>6. CASE ReadFails
  <2>1. spent'.read # 0
    BY <1>6, DisturbType DEF ReadFails
  <2> QED
    BY <2>1 DEF FileRead
<1>7. CASE TailProgress
  BY <1>7, FileTail
<1>8. CASE Stopped
  <2>1. pc' = "stopped" /\ UNCHANGED <<lines, tracked>>
    BY <1>8 DEF Stopped
  <2>2. spent'.requeue = spent.requeue /\ spent'.read = spent.read
    BY <1>8, DisturbType DEF Stopped
  <2> QED
    BY <2>1, <2>2 DEF FileRead
<1>9. CASE UNCHANGED vars
  BY <1>9 DEF vars, FileRead, CompletionPosted
<1> QED
  BY <1>1, <1>2, <1>3, <1>4, <1>5, <1>6, <1>7, <1>8, <1>9 DEF Next, Step

-----------------------------------------------------------------------------
(* The final events. *)

\* What a final event st at place i says of the job, its output and the events before.
EndTrueAt(st, i) ==
    /\ st = "results_ready" =>
          /\ job = "COMPLETED" /\ clean /\ linked
          /\ \E j \in 1 .. i - 1 : posted[j].st = "job_finished"
    /\ st \in {"job_failed", "cancelled"} =>
          /\ job \in Ends /\ ~(job = "COMPLETED" /\ clean)
          /\ st = "cancelled" <=> job = "CANCELLED"

\* What was true of an event stays true: the end of a job is final, and so is its link.
LEMMA EndTrueStays ==
  ASSUME TypeOK, EndIsTrue, [Next]_vars,
         \A j \in 1 .. Len(posted) : posted'[j] = posted[j],
         NEW i \in 1 .. Len(posted)
  PROVE  EndTrueAt(posted[i].st, i)'
<1>1. CASE posted[i].st = "results_ready"
  <2>1. /\ job = "COMPLETED" /\ clean /\ linked /\ job \in Ends
        /\ \E j \in 1 .. i - 1 : posted[j].st = "job_finished"
    BY <1>1 DEF EndIsTrue, TypeOK
  <2>2. job' = job /\ clean' = clean
    BY <2>1, EndsStay DEF Next, Step, vars, jobVars, PollOk, PollFails, ReadFails, EmitState,
       ReadLines, TailProgress, TailDone, Account, EmitFinished, LinkRunResults, EmitLast, Wake,
       Stopped
  <2>3. linked'
    BY <2>1 DEF Next, Step, vars, Job, PollOk, PollFails, ReadFails, EmitState,
       ReadLines, TailProgress, TailDone, Account, EmitFinished, LinkRunResults, EmitLast, Wake,
       Stopped
  <2>4. \E j \in 1 .. i - 1 : posted'[j].st = "job_finished"
    <3>1. PICK j \in 1 .. i - 1 : posted[j].st = "job_finished"
      BY <2>1
    <3>2. j \in 1 .. Len(posted)
      BY DEF TypeOK
    <3> QED
      BY <3>1, <3>2
  <2> QED
    BY <1>1, <2>1, <2>2, <2>3, <2>4 DEF EndTrueAt
<1>2. CASE posted[i].st \in {"job_failed", "cancelled"}
  <2>1. /\ job \in Ends /\ ~(job = "COMPLETED" /\ clean)
        /\ posted[i].st = "cancelled" <=> job = "CANCELLED"
    BY <1>2 DEF EndIsTrue
  <2>2. job' = job /\ clean' = clean
    BY <2>1, EndsStay DEF Next, Step, vars, jobVars, PollOk, PollFails, ReadFails, EmitState,
       ReadLines, TailProgress, TailDone, Account, EmitFinished, LinkRunResults, EmitLast, Wake,
       Stopped
  <2> QED
    BY <1>2, <2>1, <2>2 DEF EndTrueAt
<1>3. CASE posted[i].st \notin LastStates
  BY <1>3 DEF EndTrueAt, LastStates
<1> QED
  BY <1>1, <1>2, <1>3 DEF LastStates

\* Every step keeps the final events true.
LEMMA EndStep == TypeOK /\ EndSeen /\ OnTheWay /\ EndIsTrue /\ [Next]_vars => EndIsTrue'
<1> SUFFICES ASSUME TypeOK, EndSeen, OnTheWay, EndIsTrue, [Next]_vars PROVE EndIsTrue'
  OBVIOUS
<1>1. CASE posted' = posted
  <2>1. \A i \in 1 .. Len(posted) : EndTrueAt(posted[i].st, i)'
    BY <1>1, EndTrueStays
  <2> QED
    BY <1>1, <2>1 DEF EndTrueAt, EndIsTrue
<1>2. ASSUME NEW st \in PostedStates, NEW pct \in Percents \cup {NoLine},
             posted' = Append(posted, Event(st, pct)), EndTrueAt(st, Len(posted))'
      PROVE  EndIsTrue'
  <2>1. /\ Len(posted') = Len(posted) + 1 /\ Len(posted) \in Nat
        /\ \A i \in 1 .. Len(posted) : posted'[i] = posted[i]
        /\ posted'[Len(posted) + 1].st = st
    BY <1>2, TypePost
  <2>2. \A i \in 1 .. Len(posted) : EndTrueAt(posted[i].st, i)'
    BY <2>1, EndTrueStays
  <2>3. ASSUME NEW i \in 1 .. Len(posted')
        PROVE  EndTrueAt(posted[i].st, i)'
    <3>1. CASE i = Len(posted) + 1
      BY <1>2, <2>1, <3>1 DEF EndTrueAt
    <3>2. CASE i \in 1 .. Len(posted)
      BY <2>1, <2>2, <3>2
    <3> QED
      BY <2>1, <3>1, <3>2
  <2> HIDE <1>2
  <2> QED
    BY <2>3 DEF EndTrueAt, EndIsTrue
<1>3. CASE EmitState
  BY <1>2, <1>3 DEF EmitState, PostedStates, EndTrueAt
<1>4. CASE EmitFinished
  BY <1>2, <1>4 DEF EmitFinished, PostedStates, EndTrueAt
<1>5. CASE TailProgress
  <2>1. todo # <<>> /\ todo' = Tail(todo)
    BY <1>5 DEF TailProgress
  <2>2. Head(todo) \in Percents
    BY <2>1, TakeLine
  <2> QED
    BY <1>1, <1>2, <1>5, <2>2 DEF TailProgress, PostedStates, EndTrueAt
<1>6. CASE EmitLast
  <2>1. PICK st \in PostedStates : st = LastEvent
    BY DEF LastEvent, PostedStates, LastStates
  <2>2. UNCHANGED <<job, clean, linked>> /\ posted' = Append(posted, Event(st, NoLine))
    BY <1>6, <2>1 DEF EmitLast, jobVars
  <2>3. EndTrueAt(st, Len(posted))'
    <3>1. CASE pc = "ready"
      <4>1. st = "results_ready" /\ job = "COMPLETED" /\ clean /\ linked
        BY <2>1, <3>1 DEF LastEvent, OnTheWay, EndSeen, ParsedEnds
      <4>2. \E j \in 1 .. Len(posted) : posted'[j].st = "job_finished"
        BY <2>2, <3>1, TypePost DEF OnTheWay
      <4>3. Len(posted') - 1 = Len(posted)
        BY <2>2, TypePost
      <4>4. \E j \in 1 .. Len(posted') - 1 : posted'[j].st = "job_finished"
        BY <4>2, <4>3
      <4> QED
        BY <2>2, <4>1, <4>4 DEF EndTrueAt
    <3>2. CASE pc = "unlinked"
      BY <2>1, <3>2 DEF EndTrueAt, LastEvent
    <3>3. CASE pc = "failed"
      <4>1. info.st \in ParsedEnds /\ ~(info.st = "COMPLETED" /\ info.clean)
        BY <3>3 DEF OnTheWay
      <4>2. job = info.st /\ clean = info.clean /\ job \in Ends
        BY <4>1 DEF EndSeen
      <4>3. st = IF info.st = "CANCELLED" THEN "cancelled" ELSE "job_failed"
        BY <2>1, <3>3 DEF LastEvent
      <4> QED
        BY <2>2, <4>1, <4>2, <4>3 DEF EndTrueAt
    <3> QED
      BY <1>6, <3>1, <3>2, <3>3 DEF EmitLast
  <2> QED
    BY <1>2, <2>2, <2>3
<1> QED
  BY <1>1, <1>3, <1>4, <1>5, <1>6 DEF Next, Step, vars, Job, PollOk, PollFails, ReadFails,
     ReadLines, TailDone, Account, LinkRunResults, Wake, Stopped

-----------------------------------------------------------------------------
(* The invariant, and what follows from it. *)

(* The inductive invariant holds initially. *)
LEMMA InvInit == Init => FollowerInv
<1> SUFFICES ASSUME Init PROVE FollowerInv
  OBVIOUS
<1>1. posted = <<>> /\ Len(posted) = 0 /\ todo = <<>> /\ lines = <<>> /\ Len(lines) = 0
  BY DEF Init
<1>2. ProgressEvents = {}
  BY <1>1 DEF ProgressEvents
<1>3. EndSeen /\ OnTheWay /\ FileRead
  BY <1>1 DEF Init, EndSeen, OnTheWay, FileRead, ParsedEnds
<1>4. BucketsBehind /\ ProgressForward /\ BoundedCadence
  BY <1>2 DEF BucketsBehind, ProgressForward, BoundedCadence
<1>5. EndIsTrue
  BY <1>1 DEF EndIsTrue
<1> QED
  BY <1>3, <1>4, <1>5, TypeInit DEF FollowerInv

(* Every step keeps the inductive invariant. *)
LEMMA InvStep == FollowerInv /\ [Next]_vars => FollowerInv'
  BY TypeStep, EndSeenStep, OnTheWayStep, ProgressStep, FileStep, EndStep
     DEF FollowerInv, ProgressOrdered

\* The last read left nothing, so completion, if printed, was emitted.
LEMMA InvReported == FollowerInv => CompletionReported
<1> SUFFICES ASSUME FollowerInv, pc = "done", spent.requeue = 0, spent.read = 0
             PROVE  /\ tracked.offset = Len(lines)
                    /\ lines # <<>> /\ Last(lines) = 100 =>
                          \E i \in 1 .. Len(posted) - 1 : posted[i].percent = 100
  BY DEF CompletionReported
<1>1. todo = <<>> /\ info.st \in ParsedEnds
  BY DEF FollowerInv, OnTheWay
<1>2. tracked.offset = Len(lines)
  BY <1>1 DEF FollowerInv, FileRead
<1>3. ASSUME lines # <<>>, Last(lines) = 100
      PROVE  \E i \in 1 .. Len(posted) - 1 : posted[i].percent = 100
  <2>1. Len(lines) \in 1 .. Len(lines) /\ lines[Len(lines)] = 100
    BY <1>3 DEF Last, FollowerInv, TypeOK
  <2>2. CompletionPosted \/ \E k \in 1 .. Len(todo) : todo[k] = 100
    BY <1>2, <2>1 DEF FollowerInv, FileRead
  <2> QED
    BY <1>1, <2>2 DEF CompletionPosted
<1> QED
  BY <1>2, <1>3

\* What a watcher posts is true, complete and in order, for every job, every output,
\* every interleaving of the two and every requeue, failing read and cancellation.
THEOREM FollowerPostsAreTrue == Spec => []PostsAreTrue
<1>1. FollowerInv => PostsAreTrue
  BY InvReported DEF FollowerInv, PostsAreTrue
<1> QED
  BY InvInit, InvStep, <1>1, PTL DEF Spec
=============================================================================
