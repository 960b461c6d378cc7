-------------------------- MODULE JobControlProofs --------------------------
(***************************************************************************)
(* Proofs about JobControl, for any runs, versions and limits: a message   *)
(* with a control command reaches the scheduler at most once, one that     *)
(* comes after the command was answered does not, a command is             *)
(* acknowledged only if it did, and the status a tool shows is never older *)
(* than the record it started from.                                        *)
(*                                                                         *)
(* The client keeps no durable note of a control command, so that it acts  *)
(* once rests on the order of the room: what a process has read is one     *)
(* stretch of it, a command was read only after every submission before    *)
(* it, and a job is followed only by the process that built it.  A message *)
(* that has acted and is read again by a later process thus finds no job   *)
(* to act on.                                                              *)
(***************************************************************************)
EXTENDS JobControl, TLAPS

Verdicts ==
    {"", "ok", "state", "rejected", "unsupported", "unknown_sim", "not_signalable", "not_terminal",
     "workflow_finished", "failed", "build_log", "not_available", "job_info_failed", "run_failed",
     "read", "result_failed"}
Outs == Verdicts \cup Versions \cup Sims
Ops == ControlOps \cup {"", "png"}
JobStates == {"none", "queued", "running", "checkpoint", "completed", "failed", "cancelled"}

MsgShape == [kind : Pulls \cup {"submit", "hello"}, cmd : Int, sim : Sims \cup {""}, op : Ops]
ReplyShape == [kind : Pulls \cup {"hello", "event"}, cmd : Int, out : Outs, run : Int, st : JobStates]
Shown == ReplyShape \cup {NoReply}
PullShape ==
    [kind : Pulls, sim : Sims, op : Ops, base : Shown, ans : Shown,
     st : {"unsupported", "waiting", "timeout", "answered", "lost"}]
TaskShape ==
    [at : Nat, m : MsgShape, pc : {"query", "act", "send", "read"}, run : Int, out : Outs, st : JobStates]
ViewShape == [caps : Versions \cup {"unknown"}, proj : [Sims -> Shown]]

\* The shape of the state, as far as TypeOK leaves it open.
Shapes ==
    /\ limit \in Limits /\ room \in Seq(MsgShape) /\ replies \in Seq(ReplyShape)
    /\ pull \in Seq(PullShape) /\ acted \in Seq(Nat) /\ Len(acted) = Len(room)
    /\ tasks \in SUBSET TaskShape /\ replay \in ViewShape /\ proj \in [Sims -> Shown]
    /\ seen \subseteq 1 .. Len(room)

-----------------------------------------------------------------------------
(* The room and the process that reads it. *)

\* A message is that of one submission, one request or a hello.
SaysWhat(m) ==
    /\ m.kind = "submit" => \E r \in Runs : m.cmd = -r /\ m.sim = SimOf[r]
    /\ m.kind = "hello" => m.cmd = 0
    /\ m.kind \in Pulls =>
         /\ m.cmd \in 1 .. Len(pull) /\ m.sim \in Sims
         /\ pull[m.cmd].kind = m.kind /\ pull[m.cmd].op = m.op
RoomSays == \A i \in 1 .. Len(room) : SaysWhat(room[i])

\* A submission that was read has a record.
Recorded(j) == room[j].kind = "submit" => record[-room[j].cmd] # "none"

\* What a process has read is one stretch of the room, and a process begins no later than
\* where another one has come to.
ReadInOrder ==
    /\ \A j \in seen : (j .. pos) \cup (pos + 1 .. j) \subseteq seen
    /\ \A j \in 1 .. pos : Recorded(j)
    /\ \A i \in seen : \A j \in 1 .. i : Recorded(j)

\* A message that acted was read after every submission before it.
HasActed(i) == acted[i] > 0
ActedInOrder == \A i \in 1 .. Len(room) : HasActed(i) => \A j \in 1 .. i : Recorded(j)

\* A run that is built or followed was read by this process, and so was every command
\* after it that acted.
Own(r) ==
    \E j \in seen : /\ room[j].cmd = -r
                    /\ \A i \in j + 1 .. Len(room) : HasActed(i) => i \in seen
OwnRuns ==
    /\ \A r \in building : Own(r)
    /\ \A s \in Sims : tracked[s] \in Runs => Own(tracked[s])

\* A run has a job once its build has ended, and before it is followed or cancelled.
BuiltOnce ==
    /\ \A r \in Runs : record[r] = "none" => job[r] = "none"
    /\ \A r \in building : job[r] = "none" /\ record[r] # "none"
    /\ \A s \in Sims : tracked[s] \in Runs => Rank[job[tracked[s]]] >= 1
    /\ \A r \in dying : Rank[job[r]] >= 1

-----------------------------------------------------------------------------
(* The handlers and what they answer. *)

\* The status of a run is at least as far as the record the request began with.
NotOlder(c, run, st) ==
    /\ c \in 1 .. Len(pull)
    /\ run = pull[c].base.run => Rank[st] >= Rank[pull[c].base.st]

\* The scheduler took the command c about the job of run.
Reached(c) == \E i \in 1 .. Len(room) : room[i].cmd = c /\ acted[i] = 1
CarriedOut(c, run) ==
    /\ c \in 1 .. Len(pull) /\ Reached(c) /\ run \in Runs
    /\ pull[c].op = "cancel" => run \in dying
    /\ pull[c].op = "checkpoint" => Rank[job[run]] >= 2

\* A handler that may still act began before any answer to its command.
BeganBefore(t) ==
    t.m.kind = "control" /\ t.pc \in {"query", "act"} /\ t.m.cmd \in DOMAIN cache =>
        t.at \in cache[t.m.cmd].taken

TaskOK(t) ==
    /\ t.m.kind \in Pulls /\ t.at \in seen /\ room[t.at] = t.m
    /\ t.pc = "read" <=> t.m.kind \in {"logs", "result"}
    /\ t.pc \in {"query", "act"} => t.run \in Runs /\ Rank[job[t.run]] >= 1
    /\ t.m.kind = "control" /\ t.pc \in {"query", "act"} => acted[t.at] = 0
    /\ BeganBefore(t)
    /\ t.pc = "act" => t.m.kind = "control"
    /\ t.pc = "act" /\ t.m.op = "checkpoint" => Rank[job[t.run]] >= 2
    /\ t.pc = "send" /\ t.out = "ok" => t.m.kind = "control" /\ CarriedOut(t.m.cmd, t.run)
    /\ t.pc = "send" /\ t.out = "state" => t.m.kind = "status" /\ NotOlder(t.m.cmd, t.run, t.st)
Handlers ==
    /\ \A t \in tasks : TaskOK(t)
    /\ \A t, u \in tasks : t.at = u.at => t = u

\* A job is at least as far as an event or a record says.
JobReached(a) == a.run # 0 => a.run \in Runs /\ Rank[a.st] <= Rank[job[a.run]]

ReplyOK(a) ==
    /\ a.kind = "hello" => a.out \in Versions
    /\ a.kind = "event" => a.run \in Runs /\ a.out = SimOf[a.run] /\ JobReached(a)
    /\ a.kind = "control" /\ a.out = "ok" => CarriedOut(a.cmd, a.run)
    /\ a.kind \in Pulls /\ a.out = "state" => NotOlder(a.cmd, a.run, a.st)
CacheOK == \A c \in DOMAIN cache : cache[c].ack \in ReplyShape /\ ReplyOK(cache[c].ack)
Answered ==
    /\ \A i \in 1 .. Len(replies) : ReplyOK(replies[i])
    /\ \A c \in 1 .. Len(pull) : pull[c].st = "answered" =>
         /\ pull[c].ans \in ReplyShape /\ pull[c].ans.kind = pull[c].kind /\ pull[c].ans.cmd = c
         /\ ReplyOK(pull[c].ans)

\* So do the registry, the one a replay would build, and the records requests began with.
Registries ==
    /\ \A s \in Sims : JobReached(proj[s]) /\ JobReached(replay.proj[s])
    /\ \A c \in 1 .. Len(pull) : JobReached(pull[c].base)

ControlInv ==
    /\ TypeOK /\ Shapes /\ RoomSays /\ ReadInOrder /\ ActedInOrder /\ OwnRuns /\ BuiltOnce
    /\ CacheOK /\ Handlers /\ Answered /\ Registries /\ ActedOnce
-----------------------------------------------------------------------------
(* What only grows. *)

\* The ranks of the job states.
LEMMA RankFacts ==
  /\ DOMAIN Rank = JobStates /\ \A x \in JobStates : Rank[x] \in 0 .. 3
  /\ Rank["none"] = 0 /\ Rank["queued"] = 1 /\ Rank["running"] = 2 /\ Rank["checkpoint"] = 2
  /\ Rank["completed"] = 3 /\ Rank["failed"] = 3 /\ Rank["cancelled"] = 3
<1>1. DOMAIN Rank = JobStates
  BY DEF Rank, JobStates
<1>2. /\ Rank["none"] = 0 /\ Rank["queued"] = 1 /\ Rank["running"] = 2 /\ Rank["checkpoint"] = 2
      /\ Rank["completed"] = 3 /\ Rank["failed"] = 3 /\ Rank["cancelled"] = 3
  BY DEF Rank
<1> QED
  BY <1>1, <1>2 DEF JobStates

\* Jobs go on, records stay, the room and the requests grow, and a message that acted and
\* a job that was told to end stay so.
Onward ==
    /\ \A r \in Runs : Rank[job[r]] <= Rank[job'[r]]
    /\ \A r \in Runs : record[r] # "none" => record'[r] # "none"
    /\ Len(room) <= Len(room') /\ dying \subseteq dying'
    /\ \A i \in 1 .. Len(room) : room'[i] = room[i] /\ (acted[i] = 1 => acted'[i] = 1)
    /\ Len(pull) <= Len(pull')
    /\ \A c \in 1 .. Len(pull) :
          pull'[c].kind = pull[c].kind /\ pull'[c].op = pull[c].op /\ pull'[c].base = pull[c].base

\* The types the growing state has before and after a step.
Grown ==
    /\ Len(room) \in Nat /\ Len(room') \in Nat /\ Len(pull) \in Nat /\ Len(pull') \in Nat
    /\ \A r \in Runs : Rank[job[r]] \in 0 .. 3 /\ Rank[job'[r]] \in 0 .. 3

(* The lengths and the ranks are numbers, before and after a step. *)
LEMMA GrownFact == ASSUME TypeOK, Shapes, TypeOK', Shapes' PROVE Grown
<1>1. Len(room) \in Nat /\ Len(pull) \in Nat
  BY DEF Shapes
<1>2. (Len(room) \in Nat /\ Len(pull) \in Nat)'
  BY DEF Shapes
<1>3. job \in [Runs -> JobStates] /\ job' \in [Runs -> JobStates]
  BY RankFacts DEF TypeOK
<1> QED
  BY <1>1, <1>2, <1>3, RankFacts DEF Grown

\* A command that reached the scheduler has reached it.
LEMMA ReachedStays == ASSUME Onward, Grown, NEW c, Reached(c) PROVE Reached(c)'
<1>1. PICK i \in 1 .. Len(room) : room[i].cmd = c /\ acted[i] = 1
  BY DEF Reached
<1>2. i \in 1 .. Len(room') /\ room'[i].cmd = c /\ acted'[i] = 1
  BY <1>1 DEF Onward, Grown
<1> QED
  BY <1>2 DEF Reached

\* What was said of a job, a command or an answer stays true.
LEMMA StaysTrue ==
  ASSUME Onward, Grown
  PROVE  /\ \A a : a.run # 0 /\ a.st \in JobStates /\ JobReached(a) =>
                    a.run \in Runs /\ Rank[a.st] <= Rank[job'[a.run]]
         /\ \A c, run : CarriedOut(c, run) =>
                /\ c \in 1 .. Len(pull') /\ Reached(c)' /\ run \in Runs
                /\ pull'[c].op = "cancel" => run \in dying'
                /\ pull'[c].op = "checkpoint" => Rank[job'[run]] >= 2
         /\ \A c, run, st : NotOlder(c, run, st) =>
                /\ c \in 1 .. Len(pull')
                /\ run = pull'[c].base.run => Rank[st] >= Rank[pull'[c].base.st]
<1>1. ASSUME NEW a, a.run # 0, a.st \in JobStates, JobReached(a)
      PROVE  a.run \in Runs /\ Rank[a.st] <= Rank[job'[a.run]]
  <2>1. a.run \in Runs /\ Rank[a.st] <= Rank[job[a.run]] /\ Rank[a.st] \in 0 .. 3
    BY <1>1, RankFacts DEF JobReached
  <2>2. Rank[job[a.run]] <= Rank[job'[a.run]] /\ Rank[job[a.run]] \in 0 .. 3 /\ Rank[job'[a.run]] \in 0 .. 3
    BY <2>1 DEF Onward, Grown
  <2> QED
    BY <2>1, <2>2
<1>2. ASSUME NEW c, NEW run, CarriedOut(c, run)
      PROVE  /\ c \in 1 .. Len(pull') /\ Reached(c)' /\ run \in Runs
             /\ pull'[c].op = "cancel" => run \in dying'
             /\ pull'[c].op = "checkpoint" => Rank[job'[run]] >= 2
  <2>1. /\ c \in 1 .. Len(pull) /\ Reached(c) /\ run \in Runs
        /\ pull[c].op = "cancel" => run \in dying
        /\ pull[c].op = "checkpoint" => Rank[job[run]] >= 2
    BY <1>2 DEF CarriedOut
  <2>2. /\ Rank[job[run]] <= Rank[job'[run]] /\ Rank[job[run]] \in 0 .. 3 /\ Rank[job'[run]] \in 0 .. 3
        /\ pull'[c].op = pull[c].op /\ Len(pull) <= Len(pull') /\ dying \subseteq dying'
        /\ Len(pull) \in Nat /\ Len(pull') \in Nat
    BY <2>1 DEF Onward, Grown
  <2>3. Reached(c)'
    BY <2>1, ReachedStays
  <2> QED
    BY <2>1, <2>2, <2>3
<1>3. ASSUME NEW c, NEW run, NEW st, NotOlder(c, run, st)
      PROVE  /\ c \in 1 .. Len(pull')
             /\ run = pull'[c].base.run => Rank[st] >= Rank[pull'[c].base.st]
  BY <1>3 DEF NotOlder, Onward, Grown
<1> QED
  BY <1>1, <1>2, <1>3

\* So an answer that was right is right.
LEMMA ReplyStays ==
  ASSUME Onward, Grown, NEW a \in ReplyShape, ReplyOK(a)
  PROVE  ReplyOK(a)'
<1>1. a.st \in JobStates
  BY DEF ReplyShape
<1>2. a.kind = "event" => a.run \in Runs /\ a.out = SimOf[a.run] /\ JobReached(a)'
  BY <1>1, StaysTrue DEF ReplyOK, JobReached
<1>3. a.kind = "control" /\ a.out = "ok" => CarriedOut(a.cmd, a.run)'
  BY StaysTrue DEF ReplyOK, CarriedOut
<1>4. a.kind \in Pulls /\ a.out = "state" => NotOlder(a.cmd, a.run, a.st)'
  BY StaysTrue DEF ReplyOK, NotOlder
<1> QED
  BY <1>2, <1>3, <1>4 DEF ReplyOK

-----------------------------------------------------------------------------
(* What a step leaves as it was. *)

\* A message acts for the first time only while the process that read it runs.
FewActs ==
    \A i \in 1 .. Len(room') : HasActed(i)' => (i \in 1 .. Len(room) /\ HasActed(i)) \/ i \in seen

\* The process follows only what it has built.
OwnWork ==
    /\ building' \subseteq building
    /\ \A s \in Sims : tracked'[s] \in Runs => tracked'[s] = tracked[s] \/ tracked'[s] \in building

\* What had been read when a command was first answered is kept with the answer.
TakenKept ==
    \A c \in DOMAIN cache' : \/ c \in DOMAIN cache /\ cache'[c].taken = cache[c].taken
                             \/ seen \subseteq cache'[c].taken

\* A submission that was taken stays taken.
LEMMA RecordedStays ==
  ASSUME Onward, RoomSays, NEW j \in 1 .. Len(room), Recorded(j)
  PROVE  Recorded(j)'
<1>1. room'[j] = room[j]
  BY DEF Onward
<1> SUFFICES ASSUME room[j].kind = "submit" PROVE record'[-room[j].cmd] # "none"
  BY <1>1 DEF Recorded
<1>2. PICK r \in Runs : room[j].cmd = -r
  BY DEF RoomSays, SaysWhat
<1>3. -room[j].cmd = r
  <2>1. r \in Nat
    BY LimitAssumption
  <2> QED
    BY <1>2, <2>1
<1> QED
  BY <1>3 DEF Recorded, Onward

\* A run the process owns stays its own.
LEMMA OwnStays ==
  ASSUME Onward, Grown, FewActs, seen \subseteq seen', seen \subseteq 1 .. Len(room), NEW r, Own(r)
  PROVE  Own(r)'
<1>1. PICK j \in seen : room[j].cmd = -r /\ \A i \in j + 1 .. Len(room) : HasActed(i) => i \in seen
  BY DEF Own
<1>2. j \in 1 .. Len(room) /\ j \in seen' /\ room'[j].cmd = -r
  BY <1>1 DEF Onward
<1>3. ASSUME NEW i \in j + 1 .. Len(room'), HasActed(i)' PROVE i \in seen'
  <2>1. i \in 1 .. Len(room')
    BY <1>2 DEF Grown
  <2>2. (i \in 1 .. Len(room) /\ HasActed(i)) \/ i \in seen
    BY <1>3, <2>1 DEF FewActs
  <2>3. i \in 1 .. Len(room) => i \in j + 1 .. Len(room)
    BY <1>2 DEF Grown
  <2> QED
    BY <1>1, <2>2, <2>3
<1> QED
  BY <1>2, <1>3 DEF Own

\* A step that reads nothing keeps the order of the room.
LEMMA ReaderStays ==
  ASSUME ControlInv, Onward, Grown, FewActs, OwnWork, UNCHANGED <<pos, seen>>
  PROVE  ReadInOrder' /\ ActedInOrder' /\ OwnRuns'
<1> USE DEF ControlInv
<1>1. seen \subseteq 1 .. Len(room) /\ pos \in 0 .. Len(room)
  BY DEF Shapes, TypeOK
<1>2. \A j \in 1 .. Len(room) : Recorded(j) => Recorded(j)'
  BY RecordedStays
<1>3. ReadInOrder'
  <2>1. \A j \in 1 .. pos : Recorded(j)'
    BY <1>1, <1>2 DEF ReadInOrder, Grown
  <2>2. \A i \in seen : \A j \in 1 .. i : Recorded(j)'
    BY <1>1, <1>2 DEF ReadInOrder, Grown
  <2> QED
    BY <2>1, <2>2 DEF ReadInOrder
<1>4. ActedInOrder'
  <2> SUFFICES ASSUME NEW i \in 1 .. Len(room'), HasActed(i)', NEW j \in 1 .. i PROVE Recorded(j)'
    BY DEF ActedInOrder
  <2>1. (i \in 1 .. Len(room) /\ HasActed(i)) \/ i \in seen
    BY DEF FewActs
  <2>2. i \in 1 .. Len(room) /\ j \in 1 .. Len(room)
    BY <2>1, <1>1 DEF Grown
  <2>3. Recorded(j)
    BY <2>1, <2>2 DEF ActedInOrder, ReadInOrder
  <2> QED
    BY <2>2, <2>3, <1>2
<1>5. OwnRuns'
  <2>1. \A r : Own(r) => Own(r)'
    BY <1>1, OwnStays
  <2>2. \A r \in building' : Own(r)'
    BY <2>1 DEF OwnWork, OwnRuns
  <2>3. ASSUME NEW s \in Sims, tracked'[s] \in Runs PROVE Own(tracked'[s])
    BY <2>3 DEF OwnWork, OwnRuns
  <2>4. ASSUME NEW s \in Sims, tracked'[s] \in Runs PROVE Own(tracked[s])'
    <3>1. PICK r : r = tracked'[s]
      OBVIOUS
    <3>2. Own(r)'
      BY <2>1, <2>3, <2>4, <3>1
    <3> QED
      BY <3>1, <3>2 DEF Own
  <2> QED
    BY <2>2, <2>4 DEF OwnRuns
<1> QED
  BY <1>3, <1>4, <1>5

\* Only right answers are put into the cache.
CacheRight ==
    \A c \in DOMAIN cache' : \/ c \in DOMAIN cache /\ cache'[c].ack = cache[c].ack
                             \/ cache'[c].ack \in ReplyShape /\ ReplyOK(cache'[c].ack)

\* Those in the cache stay right.
LEMMA CacheStays ==
  ASSUME ControlInv, Onward, Grown,
         CacheRight
  PROVE  CacheOK'
<1> SUFFICES ASSUME NEW c \in DOMAIN cache' PROVE cache'[c].ack \in ReplyShape /\ ReplyOK(cache[c].ack)'
  BY DEF CacheOK
<1>1. PICK a : a = cache'[c].ack
  OBVIOUS
<1>2. a \in ReplyShape /\ ReplyOK(a)
  BY <1>1 DEF ControlInv, CacheOK, CacheRight
<1>3. ReplyOK(a)'
  BY <1>2, ReplyStays
<1> QED
  BY <1>1, <1>2, <1>3 DEF ReplyOK, JobReached, CarriedOut, NotOlder

\* A handler whose message has not acted since is still right.
LEMMA TaskStays ==
  ASSUME Onward, Grown, TakenKept, seen \subseteq seen', seen \subseteq 1 .. Len(room),
         NEW t \in TaskShape, TaskOK(t), acted'[t.at] = acted[t.at]
  PROVE  TaskOK(t)'
<1>1. t.at \in seen' /\ room'[t.at] = t.m
  BY DEF TaskOK, Onward
<1>2. t.pc = "send" /\ t.out = "ok" => CarriedOut(t.m.cmd, t.run)'
  BY StaysTrue DEF TaskOK, CarriedOut
<1>6. BeganBefore(t)'
  BY DEF TaskOK, BeganBefore, TakenKept
<1>3. t.pc = "send" /\ t.out = "state" => NotOlder(t.m.cmd, t.run, t.st)'
  BY StaysTrue DEF TaskOK, NotOlder
<1>4. t.pc = "act" /\ t.m.op = "checkpoint" => Rank[job'[t.run]] >= 2
  <2> HAVE t.pc = "act" /\ t.m.op = "checkpoint"
  <2>1. t.run \in Runs /\ Rank[job[t.run]] >= 2
    BY DEF TaskOK
  <2> QED
    BY <2>1 DEF Onward, Grown
<1>5. t.pc \in {"query", "act"} => t.run \in Runs /\ Rank[job'[t.run]] >= 1
  <2> HAVE t.pc \in {"query", "act"}
  <2>1. t.run \in Runs /\ Rank[job[t.run]] >= 1
    BY DEF TaskOK
  <2> QED
    BY <2>1 DEF Onward, Grown
<1> QED
  BY <1>1, <1>2, <1>3, <1>4, <1>5, <1>6 DEF TaskOK

\* The command of a handler is one of the requests.
LEMMA TaskCommand ==
  ASSUME ControlInv, NEW t \in tasks
  PROVE  /\ t \in TaskShape /\ TaskOK(t)
         /\ t.m.cmd \in 1 .. Len(pull) /\ t.m.sim \in Sims
         /\ pull[t.m.cmd].kind = t.m.kind /\ pull[t.m.cmd].op = t.m.op
         /\ t.at \in 1 .. Len(room) /\ t.at \in seen /\ room[t.at] = t.m
<1>1. t \in TaskShape /\ TaskOK(t) /\ seen \subseteq 1 .. Len(room)
  BY DEF ControlInv, Shapes, Handlers
<1>2. t.at \in 1 .. Len(room) /\ t.at \in seen /\ room[t.at] = t.m
  BY <1>1 DEF TaskOK
<1>3. SaysWhat(t.m) /\ t.m.kind \in Pulls
  BY <1>1, <1>2 DEF ControlInv, RoomSays, TaskOK
<1> QED
  BY <1>1, <1>2, <1>3 DEF SaysWhat

\* A step that does not touch the handlers keeps them right.
LEMMA TasksStay ==
  ASSUME ControlInv, Onward, Grown, UNCHANGED <<seen, tasks, cache>>,
         \A i \in 1 .. Len(room) : acted'[i] = acted[i]
  PROVE  Handlers'
<1>1. ASSUME NEW t \in tasks PROVE TaskOK(t)'
  <2>1. TakenKept
    BY DEF TakenKept
  <2> QED
    BY <2>1, TaskCommand, TaskStays DEF ControlInv, Shapes
<1> QED
  BY <1>1 DEF ControlInv, Handlers

\* A step that sends nothing and answers nothing keeps the answers right.
LEMMA AnswersStay ==
  ASSUME ControlInv, Onward, Grown, UNCHANGED replies,
         \A c \in 1 .. Len(pull') : pull'[c].st = "answered" =>
             c \in 1 .. Len(pull) /\ pull[c].st = "answered" /\ pull'[c].ans = pull[c].ans
  PROVE  Answered'
<1>1. \A i \in 1 .. Len(replies) : ReplyOK(replies[i]) /\ replies[i] \in ReplyShape
  BY DEF ControlInv, Shapes, Answered
<1>2. \A i \in 1 .. Len(replies) : ReplyOK(replies[i])'
  <2> TAKE i \in 1 .. Len(replies)
  <2>1. PICK a : a = replies[i]
    OBVIOUS
  <2>2. ReplyOK(a)'
    BY <1>1, <2>1, ReplyStays
  <2> QED
    BY <2>1, <2>2
<1>3. ASSUME NEW c \in 1 .. Len(pull'), pull'[c].st = "answered"
      PROVE  (/\ pull[c].ans \in ReplyShape /\ pull[c].ans.kind = pull[c].kind /\ pull[c].ans.cmd = c
              /\ ReplyOK(pull[c].ans))'
  <2>1. PICK a : a = pull[c].ans
    OBVIOUS
  <2>2. /\ c \in 1 .. Len(pull) /\ pull'[c].ans = a /\ pull'[c].kind = pull[c].kind
        /\ a \in ReplyShape /\ a.kind = pull[c].kind /\ a.cmd = c /\ ReplyOK(a)
    BY <1>3, <2>1 DEF ControlInv, Answered, Onward
  <2>3. ReplyOK(a)'
    BY <2>2, ReplyStays
  <2> QED
    BY <2>2, <2>3
<1> QED
  BY <1>2, <1>3 DEF Answered

\* A record has a state.
LEMMA ShownState == ASSUME NEW a \in Shown PROVE a.st \in JobStates
<1>1. CASE a \in ReplyShape
  BY <1>1 DEF ReplyShape
<1>2. CASE a = NoReply
  BY <1>2 DEF NoReply, JobStates
<1> QED
  BY <1>1, <1>2 DEF Shown

\* What is known of a record stays true of it.
LEMMA RecordStays ==
  ASSUME Onward, Grown, NEW a \in Shown, JobReached(a)
  PROVE  JobReached(a)'
<1>1. a.st \in JobStates
  BY ShownState
<1> QED
  BY <1>1, StaysTrue DEF JobReached

\* A step that projects nothing keeps the registries true.
LEMMA RegistriesStay ==
  ASSUME ControlInv, Onward, Grown, Shapes',
         \A s \in Sims : proj'[s] = proj[s] \/ proj'[s] = replay.proj[s],
         \A s \in Sims : replay'.proj[s] = replay.proj[s],
         \A c \in 1 .. Len(pull') : c \in 1 .. Len(pull) \/ \E s \in Sims : pull'[c].base = proj[s]
  PROVE  Registries'
<1>1. \A s \in Sims : /\ proj[s] \in Shown /\ JobReached(proj[s])
                      /\ replay.proj[s] \in Shown /\ JobReached(replay.proj[s])
  BY DEF ControlInv, Shapes, ViewShape, Registries
<1>2. \A a \in Shown : JobReached(a) => JobReached(a)'
  BY RecordStays
<1>3. ASSUME NEW s \in Sims PROVE JobReached(proj[s])' /\ JobReached(replay.proj[s])'
  <2>1. PICK a, b : a = proj'[s] /\ b = replay'.proj[s]
    OBVIOUS
  <2>2. JobReached(a)' /\ JobReached(b)'
    BY <1>1, <1>2, <2>1
  <2> QED
    BY <2>1, <2>2 DEF JobReached
<1>4. ASSUME NEW c \in 1 .. Len(pull') PROVE JobReached(pull[c].base)'
  <2>1. PICK a : a = pull'[c].base
    OBVIOUS
  <2>2. c \in 1 .. Len(pull) => a = pull[c].base /\ JobReached(a)
    BY <2>1 DEF Onward, ControlInv, Registries
  <2>3. a \in Shown
    <3>1. pull' \in Seq(PullShape)
      BY DEF Shapes
    <3>2. pull'[c] \in PullShape
      BY <3>1
    <3> QED
      BY <2>1, <3>2 DEF PullShape
  <2>4. JobReached(a)
    BY <2>1, <2>2, <1>1
  <2>5. JobReached(a)'
    BY <2>3, <2>4, <1>2
  <2> QED
    BY <2>1, <2>5 DEF JobReached
<1> QED
  BY <1>3, <1>4 DEF Registries

\* A message that says what it should still does.
LEMMA SaysStays ==
  ASSUME Onward, Grown, NEW m, SaysWhat(m)
  PROVE  SaysWhat(m)'
BY DEF SaysWhat, Onward, Grown

\* A step that sends no command keeps what the room says.
LEMMA RoomStays ==
  ASSUME ControlInv, Onward, Grown, UNCHANGED room
  PROVE  RoomSays'
<1> SUFFICES ASSUME NEW i \in 1 .. Len(room) PROVE SaysWhat(room[i])'
  BY DEF RoomSays
<1>1. PICK m : m = room[i]
  OBVIOUS
<1>2. SaysWhat(m)'
  BY <1>1, SaysStays DEF ControlInv, RoomSays
<1> QED
  BY <1>1, <1>2

\* What an element appended to a sequence changes.
LEMMA AppendedAny ==
  ASSUME NEW S, NEW q \in Seq(S), NEW m \in S, NEW q1, q1 = Append(q, m)
  PROVE  /\ q1 \in Seq(S) /\ Len(q1) = Len(q) + 1 /\ Len(q) \in Nat
         /\ \A i \in 1 .. Len(q) : q1[i] = q[i]
         /\ q1[Len(q) + 1] = m
         /\ \A i \in 1 .. Len(q1) : i \in 1 .. Len(q) \/ i = Len(q) + 1
OBVIOUS

\* A command that is sent is one more in the room, and has not acted.
LEMMA CommandSent ==
  ASSUME ControlInv, NEW m \in MsgShape, SendCommand(m)
  PROVE  /\ room' \in Seq(MsgShape) /\ Len(room') = Len(room) + 1 /\ Len(room) \in Nat
         /\ \A i \in 1 .. Len(room) : room'[i] = room[i] /\ acted'[i] = acted[i]
         /\ room'[Len(room) + 1] = m
         /\ \A i \in 1 .. Len(room') : i \in 1 .. Len(room) \/ i = Len(room) + 1
         /\ acted' \in Seq(Nat) /\ Len(acted') = Len(room') /\ acted'[Len(room) + 1] = 0
         /\ FewActs /\ ActedOnce'
<1>1. room \in Seq(MsgShape) /\ acted \in Seq(Nat) /\ Len(acted) = Len(room) /\ 0 \in Nat
  BY DEF ControlInv, Shapes
<1>2. room' = Append(room, m) /\ acted' = Append(acted, 0)
  BY DEF SendCommand
<1>3. /\ room' \in Seq(MsgShape) /\ Len(room') = Len(room) + 1 /\ Len(room) \in Nat
      /\ \A i \in 1 .. Len(room) : room'[i] = room[i]
      /\ room'[Len(room) + 1] = m
      /\ \A i \in 1 .. Len(room') : i \in 1 .. Len(room) \/ i = Len(room) + 1
  BY <1>1, <1>2, AppendedAny
<1>4. /\ acted' \in Seq(Nat) /\ Len(acted') = Len(acted) + 1
      /\ \A i \in 1 .. Len(acted) : acted'[i] = acted[i]
      /\ acted'[Len(acted) + 1] = 0
  BY <1>1, <1>2, AppendedAny
<1>5. FewActs
  <2> SUFFICES ASSUME NEW i \in 1 .. Len(room'), acted'[i] > 0 PROVE i \in 1 .. Len(room) /\ acted[i] > 0
    BY DEF FewActs, HasActed
  <2>1. i # Len(room) + 1
    BY <1>1, <1>4
  <2>2. i \in 1 .. Len(room)
    BY <1>3, <2>1
  <2> QED
    BY <1>1, <1>4, <2>2
<1>6. ActedOnce'
  <2> SUFFICES ASSUME NEW i \in DOMAIN acted' PROVE acted'[i] <= 1
    BY DEF ActedOnce
  <2>1. i \in 1 .. Len(room') /\ DOMAIN acted = 1 .. Len(room)
    BY <1>1, <1>3, <1>4
  <2>2. CASE i = Len(room) + 1
    BY <1>1, <1>4, <2>2
  <2>3. CASE i \in 1 .. Len(room)
    BY <1>1, <1>4, <2>1, <2>3 DEF ControlInv, ActedOnce
  <2> QED
    BY <1>3, <2>1, <2>2, <2>3
<1> QED
  BY <1>1, <1>3, <1>4, <1>5, <1>6

\* A command sent keeps what the room says.
LEMMA RoomGrows ==
  ASSUME ControlInv, Onward, Grown, NEW m \in MsgShape, SendCommand(m), SaysWhat(m)'
  PROVE  RoomSays'
<1>1. /\ \A i \in 1 .. Len(room) : room'[i] = room[i]
      /\ room'[Len(room) + 1] = m
      /\ \A i \in 1 .. Len(room') : i \in 1 .. Len(room) \/ i = Len(room) + 1
  BY CommandSent
<1> SUFFICES ASSUME NEW i \in 1 .. Len(room') PROVE SaysWhat(room[i])'
  BY DEF RoomSays
<1>2. PICK n : n = room'[i]
  OBVIOUS
<1>3. SaysWhat(n)'
  <2>1. CASE i \in 1 .. Len(room)
    BY <1>1, <1>2, <2>1, SaysStays DEF ControlInv, RoomSays
  <2>2. CASE i = Len(room) + 1
    BY <1>1, <1>2, <2>2
  <2> QED
    BY <1>1, <2>1, <2>2
<1> QED
  BY <1>2, <1>3 DEF SaysWhat

\* Nothing that grows changes.
LEMMA OnwardStill ==
  ASSUME Grown, UNCHANGED <<job, dying, record, room, pull, acted>>
  PROVE  Onward
BY DEF Onward, Grown

\* No message acts in a step that changes neither the count nor the room.
LEMMA NoActs ==
  ASSUME UNCHANGED <<room, acted>>
  PROVE  FewActs
BY DEF FewActs, HasActed

-----------------------------------------------------------------------------
(* The steps of the cluster and of the server. *)

\* The parts of the invariant about the client, in a step that leaves the client alone.
LEMMA ClientLeftAlone ==
  ASSUME ControlInv, Onward, Grown, FewActs, UNCHANGED <<pos, clientMem>>,
         \A i \in 1 .. Len(room) : acted'[i] = acted[i]
  PROVE  ReadInOrder' /\ ActedInOrder' /\ OwnRuns' /\ CacheOK' /\ Handlers'
<1>1. UNCHANGED <<pos, tracked, building, seen, cache, tasks>>
  BY DEF clientMem
<1>2. OwnWork
  BY <1>1 DEF OwnWork
<1>3. ReadInOrder' /\ ActedInOrder' /\ OwnRuns'
  BY <1>1, <1>2, ReaderStays
<1>4. CacheOK'
  BY <1>1, CacheStays DEF CacheRight
<1>5. Handlers'
  BY <1>1, TasksStay
<1> QED
  BY <1>3, <1>4, <1>5

\* A command is sent, and nothing else happens.
LEMMA CommandStep ==
  ASSUME ControlInv, NEW m \in MsgShape, SaysWhat(m), SendCommand(m),
         UNCHANGED <<limit, version, record, job, dying, pos, rpos, clientMem>>,
         UNCHANGED <<caps, proj, pull, pump, left, replies, replay>>
  PROVE  ControlInv'
<1>1. /\ room' \in Seq(MsgShape) /\ Len(room') = Len(room) + 1 /\ Len(room) \in Nat
      /\ \A i \in 1 .. Len(room) : room'[i] = room[i] /\ acted'[i] = acted[i]
      /\ acted' \in Seq(Nat) /\ Len(acted') = Len(room')
      /\ FewActs /\ ActedOnce'
  BY CommandSent
<1>2. UNCHANGED <<tracked, building, seen, cache, tasks>>
  BY DEF clientMem
<1>3. Shapes'
  BY <1>1, <1>2 DEF ControlInv, Shapes
<1>4. TypeOK'
  <2>1. DOMAIN acted' = DOMAIN room'
    BY <1>1
  <2>2. pos' \in 0 .. Len(room')
    BY <1>1 DEF ControlInv, TypeOK
  <2> QED
    BY <1>2, <2>1, <2>2 DEF ControlInv, TypeOK
<1>5. Grown
  BY <1>3, <1>4, GrownFact DEF ControlInv
<1>6. Onward
  BY <1>1, <1>5 DEF Onward, Grown
<1>7. RoomSays'
  <2>1. SaysWhat(m)'
    BY <1>5, <1>6, SaysStays
  <2> QED
    BY <1>5, <1>6, <2>1, RoomGrows
<1>8. ReadInOrder' /\ ActedInOrder' /\ OwnRuns' /\ CacheOK' /\ Handlers'
  BY <1>1, <1>5, <1>6, ClientLeftAlone
<1>9. Answered'
  BY <1>5, <1>6, AnswersStay
<1>10. Registries'
  BY <1>3, <1>5, <1>6, RegistriesStay
<1>11. BuiltOnce'
  BY <1>2 DEF ControlInv, BuiltOnce
<1> QED
  BY <1>1, <1>3, <1>4, <1>7, <1>8, <1>9, <1>10, <1>11 DEF ControlInv

\* A submission is sent.
LEMMA SendSubmitStep == ASSUME ControlInv, NEW r \in Runs, SendSubmit(r) PROVE ControlInv'
<1> DEFINE m == [kind |-> "submit", cmd |-> -r, sim |-> SimOf[r], op |-> ""]
<1>1. /\ UNCHANGED <<limit, version, record, job, dying, pos, rpos, clientMem>>
      /\ UNCHANGED <<caps, proj, pull, pump, left, replies, replay>>
      /\ SendCommand(m)
  BY DEF SendSubmit, jobs, serverMem, sent
<1>2. m \in MsgShape /\ m.kind = "submit" /\ m.cmd = -r /\ m.sim = SimOf[r]
  <2>1. r \in Nat /\ SimOf[r] \in Sims
    BY LimitAssumption DEF Sims
  <2>2. -r \in Int
    BY <2>1
  <2> QED
    BY <2>1, <2>2 DEF MsgShape, Ops
<1> HIDE DEF m
<1>3. SaysWhat(m)
  BY <1>2 DEF SaysWhat, Pulls
<1> QED
  BY <1>1, <1>2, <1>3, CommandStep

\* A hello is sent.
LEMMA HelloAttemptStep == ASSUME ControlInv, HelloAttempt PROVE ControlInv'
<1> DEFINE m == [kind |-> "hello", cmd |-> 0, sim |-> "", op |-> ""]
<1>1. /\ UNCHANGED <<limit, version, record, job, dying, pos, rpos, clientMem>>
      /\ UNCHANGED <<caps, proj, pull, pump, left, replies, replay>>
      /\ SendCommand(m)
  BY DEF HelloAttempt, jobs, sent
<1>2. m \in MsgShape /\ m.kind = "hello" /\ m.cmd = 0
  BY DEF MsgShape, Ops
<1> HIDE DEF m
<1>3. SaysWhat(m)
  BY <1>2 DEF SaysWhat, Pulls
<1> QED
  BY <1>1, <1>2, <1>3, CommandStep

\* A control command comes again in another envelope.
LEMMA ComesAgainStep == ASSUME ControlInv, ComesAgain PROVE ControlInv'
<1>1. PICK i \in DOMAIN room : SendCommand(room[i])
  BY DEF ComesAgain
<1>2. /\ UNCHANGED <<limit, version, record, job, dying, pos, rpos, clientMem>>
      /\ UNCHANGED <<caps, proj, pull, pump, left, replies, replay>>
  BY DEF ComesAgain, jobs, serverMem, sent
<1>3. PICK m : m = room[i]
  OBVIOUS
<1>4. m \in MsgShape /\ SaysWhat(m)
  <2>1. room \in Seq(MsgShape)
    BY DEF ControlInv, Shapes
  <2>2. i \in 1 .. Len(room)
    BY <2>1
  <2> QED
    BY <1>3, <2>1, <2>2 DEF ControlInv, RoomSays
<1>5. SendCommand(m)
  BY <1>1, <1>3
<1> QED
  BY <1>2, <1>4, <1>5, CommandStep

\* A job goes on.
LEMMA JobMovesStep == ASSUME ControlInv, NEW r \in Runs, JobMoves(r) PROVE ControlInv'
<1>1. /\ UNCHANGED <<limit, spent, version, record, told, pos, rpos, acted, room, dying>>
      /\ UNCHANGED <<tracked, building, seen, cache, tasks>> /\ UNCHANGED clientMem
      /\ UNCHANGED <<caps, proj, pull, pump, left, hello>> /\ UNCHANGED <<replies, replay>>
  BY DEF JobMoves, clientMem, serverMem, sent
<1>2. job \in [Runs -> JobStates]
  BY RankFacts DEF ControlInv, TypeOK
<1>3. PICK n \in JobStates : /\ job' = [job EXCEPT ![r] = n]
                             /\ Rank[job[r]] <= Rank[n] /\ job[r] # "none"
  <2>1. CASE job[r] = "queued" /\ job' = [job EXCEPT ![r] = "running"]
    BY <2>1, RankFacts DEF JobStates
  <2>2. CASE job[r] = "running" /\ \E end \in {"completed", "failed"} : job' = [job EXCEPT ![r] = end]
    <3>1. PICK end \in {"completed", "failed"} : job' = [job EXCEPT ![r] = end]
      BY <2>2
    <3>2. end \in JobStates /\ Rank[job[r]] <= Rank[end] /\ job[r] # "none"
      BY <2>2, <3>1, RankFacts DEF JobStates
    <3> QED
      BY <3>1, <3>2
  <2>3. CASE r \in dying /\ ~Ended(r) /\ job' = [job EXCEPT ![r] = "cancelled"]
    <3>1. Rank[job[r]] \in 0 .. 3 /\ Rank[job[r]] >= 1
      BY <1>2, <2>3, RankFacts DEF ControlInv, BuiltOnce
    <3> QED
      BY <2>3, <3>1, RankFacts DEF JobStates
  <2> QED
    BY <2>1, <2>2, <2>3 DEF JobMoves
<1>4. TypeOK' /\ Shapes'
  <2>1. job' \in [Runs -> DOMAIN Rank]
    BY <1>2, <1>3, RankFacts
  <2> QED
    BY <1>1, <2>1 DEF ControlInv, TypeOK, Shapes
<1>5. Grown
  BY <1>4, GrownFact DEF ControlInv
<1>6. Onward
  <2>1. \A q \in Runs : job'[q] = IF q = r THEN n ELSE job[q]
    BY <1>2, <1>3
  <2> QED
    BY <1>1, <1>3, <1>5, <2>1 DEF Onward, Grown
<1>7. RoomSays'
  BY <1>1, <1>5, <1>6, RoomStays
<1>8. FewActs
  BY <1>1, NoActs
<1>9. ReadInOrder' /\ ActedInOrder' /\ OwnRuns' /\ CacheOK' /\ Handlers'
  BY <1>1, <1>5, <1>6, <1>8, ClientLeftAlone
<1>10. Answered'
  BY <1>1, <1>5, <1>6, AnswersStay
<1>11. Registries'
  BY <1>1, <1>4, <1>5, <1>6, RegistriesStay
<1>12. BuiltOnce' /\ ActedOnce'
  <2>1. \A q \in Runs : job[q] = "none" => job'[q] = "none"
    BY <1>2, <1>3
  <2>2. building \subseteq Runs /\ dying \subseteq Runs
    BY DEF ControlInv, TypeOK
  <2>3. \A s \in Sims : tracked[s] \in Runs => Rank[job'[tracked[s]]] >= 1
    BY <1>5, <1>6 DEF ControlInv, BuiltOnce, Onward, Grown
  <2>4. \A q \in dying : Rank[job'[q]] >= 1
    BY <1>5, <1>6, <2>2 DEF ControlInv, BuiltOnce, Onward, Grown
  <2> QED
    BY <1>1, <2>1, <2>2, <2>3, <2>4 DEF ControlInv, BuiltOnce, ActedOnce
<1> QED
  BY <1>4, <1>7, <1>9, <1>10, <1>11, <1>12 DEF ControlInv

\* A step that changes nothing the invariant speaks of but what a !stop has left to do.
LEMMA IdleStep ==
  ASSUME ControlInv, left' \subseteq Sims,
         UNCHANGED <<limit, version, record, job, dying, pos, rpos, acted, room, replies, replay>>,
         UNCHANGED <<tracked, building, seen, cache, tasks>>, UNCHANGED <<caps, proj, pull, pump>>
  PROVE  ControlInv'
<1>1. TypeOK' /\ Shapes' /\ RoomSays' /\ ReadInOrder' /\ ActedInOrder' /\ OwnRuns' /\ BuiltOnce'
  BY DEF ControlInv, TypeOK, Shapes, RoomSays, SaysWhat, ReadInOrder, Recorded, ActedInOrder, HasActed,
         OwnRuns, Own, BuiltOnce
<1>2. CacheOK' /\ Handlers' /\ Answered' /\ Registries' /\ ActedOnce'
  BY ZenonT(60) DEF ControlInv, CacheOK, Handlers, TaskOK, BeganBefore, CarriedOut, Reached, NotOlder, Answered,
         ReplyOK, JobReached, Registries, ActedOnce
<1> QED
  BY <1>1, <1>2 DEF ControlInv

\* The hello ends.
LEMMA HelloEndsStep == ASSUME ControlInv, HelloEnds PROVE ControlInv'
<1>1. /\ UNCHANGED <<limit, version, record, job, dying, pos, rpos, acted, room, replies, replay>>
      /\ UNCHANGED <<tracked, building, seen, cache, tasks>> /\ UNCHANGED <<caps, proj, pull, pump, left>>
  BY DEF HelloEnds, clientMem, jobs, sent
<1> QED
  BY <1>1, IdleStep DEF ControlInv, TypeOK

\* A !stop begins.
LEMMA HumanStopStep == ASSUME ControlInv, HumanStop PROVE ControlInv'
<1>1. /\ UNCHANGED <<limit, version, record, job, dying, pos, rpos, acted, room, replies, replay>>
      /\ UNCHANGED <<tracked, building, seen, cache, tasks>> /\ UNCHANGED <<caps, proj, pull, pump>>
      /\ left' \subseteq Sims
  BY DEF HumanStop, clientMem, jobs, sent
<1> QED
  BY <1>1, IdleStep

\* What a step of the server that changes only its requests keeps.
RequestsOnly ==
    /\ UNCHANGED <<limit, version, record, job, dying, told, pos, room, acted, replies, replay>>
    /\ UNCHANGED <<tracked, building, seen, cache, tasks>> /\ UNCHANGED clientMem
    /\ pull' \in Seq(PullShape) /\ Len(pull') = Len(pull)
    /\ \A c \in 1 .. Len(pull) :
          pull'[c].kind = pull[c].kind /\ pull'[c].op = pull[c].op /\ pull'[c].base = pull[c].base

(* A step that changes only how requests stand keeps what is said of the room and the client. *)
LEMMA RequestsOnlyKeeps ==
  ASSUME ControlInv, RequestsOnly, proj' \in [Sims -> Shown], caps' \in Versions \cup {"unknown"},
         rpos' \in 0 .. Len(replies), pump' \in {0} \cup 1 .. Len(pull), left' \subseteq Sims
  PROVE  /\ TypeOK' /\ Shapes' /\ Grown /\ Onward /\ RoomSays' /\ ReadInOrder' /\ ActedInOrder' /\ OwnRuns'
         /\ BuiltOnce' /\ CacheOK' /\ Handlers' /\ ActedOnce'
<1>1. pull \in Seq(PullShape) /\ DOMAIN pull' = DOMAIN pull /\ DOMAIN pull = 1 .. Len(pull)
  BY DEF ControlInv, Shapes, RequestsOnly
<1>2. TypeOK' /\ Shapes'
  BY <1>1 DEF ControlInv, TypeOK, Shapes, RequestsOnly
<1>3. Grown
  BY <1>2, GrownFact DEF ControlInv
<1>4. Onward
  BY <1>3 DEF Onward, Grown, RequestsOnly
<1>5. RoomSays'
  BY <1>3, <1>4, RoomStays DEF RequestsOnly
<1>6. FewActs
  BY NoActs DEF RequestsOnly
<1>7. ReadInOrder' /\ ActedInOrder' /\ OwnRuns' /\ CacheOK' /\ Handlers'
  BY <1>3, <1>4, <1>6, ClientLeftAlone DEF RequestsOnly
<1>8. BuiltOnce' /\ ActedOnce'
  BY DEF RequestsOnly, ControlInv, BuiltOnce, ActedOnce
<1> QED
  BY <1>2, <1>3, <1>4, <1>5, <1>7, <1>8

\* A function on the positions of a sequence is a sequence.
LEMMA SeqOver ==
  ASSUME NEW S, NEW q \in Seq(S), NEW f \in [1 .. Len(q) -> S]
  PROVE  f \in Seq(S) /\ Len(f) = Len(q)
OBVIOUS

\* A request times out.
LEMMA PullTimeoutStep == ASSUME ControlInv, NEW c \in DOMAIN pull, PullTimeout(c) PROVE ControlInv'
<1>1. /\ UNCHANGED <<limit, spent, version, record, job, dying, told, pos, rpos, acted, room>>
      /\ UNCHANGED <<tracked, building, seen, cache, tasks>> /\ UNCHANGED clientMem
      /\ UNCHANGED <<caps, proj, left, hello>> /\ UNCHANGED <<replies, replay>>
      /\ pull' = [pull EXCEPT ![c].st = "timeout"] /\ pump' \in {0, pump}
  BY DEF PullTimeout, clientMem, jobs, sent
<1>2. /\ pull \in Seq(PullShape) /\ DOMAIN pull = 1 .. Len(pull)
      /\ \A d \in 1 .. Len(pull) : pull[d] \in PullShape
  BY DEF ControlInv, Shapes
<1>3. [pull[c] EXCEPT !.st = "timeout"] \in PullShape
  BY <1>2 DEF PullShape
<1>4. pull' \in [1 .. Len(pull) -> PullShape]
  BY <1>1, <1>2, <1>3
<1>5. pull' \in Seq(PullShape) /\ Len(pull') = Len(pull)
  BY <1>2, <1>4, SeqOver
<1>6. ASSUME NEW d \in 1 .. Len(pull)
      PROVE  /\ pull'[d].kind = pull[d].kind /\ pull'[d].op = pull[d].op /\ pull'[d].base = pull[d].base
             /\ pull'[d].st = "answered" => pull[d].st = "answered" /\ pull'[d].ans = pull[d].ans
  <2>1. pull'[d] = IF d = c THEN [pull[c] EXCEPT !.st = "timeout"] ELSE pull[d]
    BY <1>1, <1>2
  <2> QED
    BY <2>1, <1>2 DEF PullShape
<1>7. RequestsOnly
  BY <1>1, <1>5, <1>6 DEF RequestsOnly
<1>8. /\ TypeOK' /\ Shapes' /\ Grown /\ Onward /\ RoomSays' /\ ReadInOrder' /\ ActedInOrder' /\ OwnRuns'
      /\ BuiltOnce' /\ CacheOK' /\ Handlers' /\ ActedOnce'
  BY <1>1, <1>2, <1>7, RequestsOnlyKeeps DEF ControlInv, Shapes, TypeOK
<1>9. Answered'
  BY <1>1, <1>5, <1>6, <1>8, AnswersStay
<1>10. Registries'
  BY <1>1, <1>5, <1>8, RegistriesStay
<1> QED
  BY <1>8, <1>9, <1>10 DEF ControlInv

\* The server restarts.
LEMMA ServerRestartStep == ASSUME ControlInv, ServerRestart PROVE ControlInv'
<1>1. /\ UNCHANGED <<limit, version, record, job, dying, told, pos, acted, room>>
      /\ UNCHANGED <<tracked, building, seen, cache, tasks>> /\ UNCHANGED clientMem
      /\ UNCHANGED <<replies, replay>>
      /\ caps' = replay.caps /\ proj' = replay.proj /\ pump' = 0 /\ left' = {} /\ rpos' = Len(replies)
      /\ pull' = [c \in DOMAIN pull |-> IF pull[c].st = "waiting" THEN [pull[c] EXCEPT !.st = "lost"] ELSE pull[c]]
  BY DEF ServerRestart, clientMem, jobs, sent
<1>2. /\ pull \in Seq(PullShape) /\ DOMAIN pull = 1 .. Len(pull)
      /\ \A d \in 1 .. Len(pull) : pull[d] \in PullShape
  BY DEF ControlInv, Shapes
<1>3. ASSUME NEW d \in 1 .. Len(pull)
      PROVE  /\ pull'[d] \in PullShape
             /\ pull'[d].kind = pull[d].kind /\ pull'[d].op = pull[d].op /\ pull'[d].base = pull[d].base
             /\ pull'[d].st = "answered" => pull[d].st = "answered" /\ pull'[d].ans = pull[d].ans
  <2>1. pull'[d] = IF pull[d].st = "waiting" THEN [pull[d] EXCEPT !.st = "lost"] ELSE pull[d]
    BY <1>1, <1>2
  <2>2. [pull[d] EXCEPT !.st = "lost"] \in PullShape
    BY <1>2 DEF PullShape
  <2> QED
    BY <2>1, <2>2, <1>2 DEF PullShape
<1>4. pull' \in [1 .. Len(pull) -> PullShape]
  BY <1>1, <1>2, <1>3
<1>5. pull' \in Seq(PullShape) /\ Len(pull') = Len(pull)
  BY <1>2, <1>4, SeqOver
<1>6. RequestsOnly
  BY <1>1, <1>5, <1>3 DEF RequestsOnly
<1>7. /\ proj' \in [Sims -> Shown] /\ caps' \in Versions \cup {"unknown"} /\ Len(replies) \in Nat
  BY <1>1 DEF ControlInv, Shapes, ViewShape
<1>8. /\ TypeOK' /\ Shapes' /\ Grown /\ Onward /\ RoomSays' /\ ReadInOrder' /\ ActedInOrder' /\ OwnRuns'
      /\ BuiltOnce' /\ CacheOK' /\ Handlers' /\ ActedOnce'
  BY <1>1, <1>6, <1>7, RequestsOnlyKeeps
<1>9. Answered'
  BY <1>1, <1>5, <1>3, <1>8, AnswersStay
<1>10. Registries'
  BY <1>1, <1>5, <1>8, RegistriesStay
<1> QED
  BY <1>8, <1>9, <1>10 DEF ControlInv

\* A message projected on a registry that is true leaves it true.
LEMMA ProjectedTrue ==
  ASSUME NEW v \in ViewShape, NEW a \in ReplyShape, ReplyOK(a), \A s \in Sims : JobReached(v.proj[s])
  PROVE  Projected(v, a) \in ViewShape /\ \A s \in Sims : JobReached(Projected(v, a).proj[s])
<1> DEFINE c == IF a.kind = "hello" THEN a.out ELSE v.caps
           p == IF a.kind = "event" THEN Project(v.proj, a) ELSE v.proj
<1>1. Projected(v, a).caps = c /\ Projected(v, a).proj = p /\ Projected(v, a) = [caps |-> c, proj |-> p]
  BY DEF Projected
<1>2. c \in Versions \cup {"unknown"}
  BY DEF ReplyOK, ViewShape
<1>3. v.proj \in [Sims -> Shown] /\ a \in Shown
  BY DEF ViewShape, Shown
<1>4. p \in [Sims -> Shown] /\ \A s \in Sims : JobReached(p[s])
  <2>1. CASE p = v.proj
    BY <2>1, <1>3
  <2>2. CASE a.kind = "event" /\ p = [v.proj EXCEPT ![a.out] = a]
    BY <2>2, <1>3 DEF ReplyOK
  <2> QED
    BY <2>1, <2>2 DEF Project
<1> HIDE DEF c, p
<1> QED
  BY <1>1, <1>2, <1>4 DEF ViewShape

\* The server routes a message of the client.
LEMMA RouteStep == ASSUME ControlInv, Route PROVE ControlInv'
<1> DEFINE a == replies[rpos + 1]
           v == [caps |-> caps, proj |-> proj]
<1>1. /\ UNCHANGED <<limit, version, record, job, dying, told, pos, acted, room>>
      /\ UNCHANGED <<tracked, building, seen, cache, tasks>> /\ UNCHANGED clientMem
      /\ UNCHANGED <<replies, replay, pump, left>> /\ rpos < Len(replies) /\ rpos' = rpos + 1
      /\ caps' = Projected(v, a).caps /\ proj' = Projected(v, a).proj
      /\ pull' = [c \in DOMAIN pull |-> IF Answers(c, a) THEN Overlay(c, a) ELSE pull[c]]
  BY DEF Route, clientMem, jobs, sent
<1>2. /\ pull \in Seq(PullShape) /\ DOMAIN pull = 1 .. Len(pull) /\ Len(replies) \in Nat
      /\ \A d \in 1 .. Len(pull) : pull[d] \in PullShape
  BY DEF ControlInv, Shapes
<1>3. a \in ReplyShape /\ ReplyOK(a) /\ rpos' \in 0 .. Len(replies)
  <2>1. rpos + 1 \in 1 .. Len(replies) /\ replies \in Seq(ReplyShape) /\ rpos' \in 0 .. Len(replies)
    BY <1>1, <1>2 DEF ControlInv, Shapes, TypeOK
  <2> QED
    BY <2>1 DEF ControlInv, Answered
<1>4. v \in ViewShape /\ v.proj = proj /\ \A s \in Sims : JobReached(v.proj[s])
  <2>1. caps \in Versions \cup {"unknown"} /\ proj \in [Sims -> Shown] /\ \A s \in Sims : JobReached(proj[s])
    BY DEF ControlInv, TypeOK, Shapes, Registries
  <2> QED
    BY <2>1 DEF ViewShape
<1> HIDE DEF a, v
<1>5. /\ proj' \in [Sims -> Shown] /\ caps' \in Versions \cup {"unknown"} /\ \A s \in Sims : JobReached(proj'[s])
  <2>1. Projected(v, a) \in ViewShape /\ \A s \in Sims : JobReached(Projected(v, a).proj[s])
    BY <1>3, <1>4, ProjectedTrue
  <2> QED
    BY <1>1, <2>1 DEF ViewShape
<1>6. ASSUME NEW d \in 1 .. Len(pull)
      PROVE  /\ pull'[d] \in PullShape
             /\ pull'[d].kind = pull[d].kind /\ pull'[d].op = pull[d].op /\ pull'[d].base = pull[d].base
             /\ pull'[d].st = "answered" =>
                  \/ pull[d].st = "answered" /\ pull'[d].ans = pull[d].ans
                  \/ pull'[d].ans = a /\ a.cmd = d /\ a.kind = pull[d].kind
  <2>1. pull'[d] = IF Answers(d, a) THEN [pull[d] EXCEPT !.st = "answered", !.ans = a] ELSE pull[d]
    BY <1>1, <1>2 DEF Overlay
  <2>2. a \in Shown
    BY <1>3 DEF Shown
  <2>3. [pull[d] EXCEPT !.st = "answered", !.ans = a] \in PullShape
    BY <1>2, <2>2 DEF PullShape
  <2> QED
    BY <2>1, <2>3, <1>2 DEF PullShape, Answers
<1>7. pull' \in [1 .. Len(pull) -> PullShape]
  BY <1>1, <1>2, <1>6
<1>8. pull' \in Seq(PullShape) /\ Len(pull') = Len(pull)
  BY <1>2, <1>7, SeqOver
<1>9. RequestsOnly
  BY <1>1, <1>8, <1>6 DEF RequestsOnly
<1>10. /\ TypeOK' /\ Shapes' /\ Grown /\ Onward /\ RoomSays' /\ ReadInOrder' /\ ActedInOrder' /\ OwnRuns'
       /\ BuiltOnce' /\ CacheOK' /\ Handlers' /\ ActedOnce'
  <2>1. pump' \in {0} \cup 1 .. Len(pull)
    BY <1>1, <1>2 DEF ControlInv, TypeOK
  <2>2. left' \subseteq Sims
    BY <1>1 DEF ControlInv, TypeOK
  <2> QED
    BY <1>3, <1>5, <1>9, <2>1, <2>2, RequestsOnlyKeeps
<1>11. Answered'
  <2>1. \A b : ReplyOK(b)' <=> ReplyOK(b)
    BY <1>1, <1>2, <1>8, <1>6 DEF ReplyOK, JobReached, CarriedOut, Reached, NotOlder
  <2>2. \A i \in 1 .. Len(replies) : ReplyOK(replies[i])'
    <3> TAKE i \in 1 .. Len(replies)
    <3>1. PICK b : b = replies[i]
      OBVIOUS
    <3>2. ReplyOK(b)'
      BY <2>1, <3>1 DEF ControlInv, Answered
    <3> QED
      BY <1>1, <3>1, <3>2 DEF ReplyOK, JobReached, CarriedOut, Reached, NotOlder
  <2>3. ASSUME NEW c \in 1 .. Len(pull'), pull'[c].st = "answered"
        PROVE  (/\ pull[c].ans \in ReplyShape /\ pull[c].ans.kind = pull[c].kind /\ pull[c].ans.cmd = c
                /\ ReplyOK(pull[c].ans))'
    <3>1. PICK b : b = pull'[c].ans
      OBVIOUS
    <3>2. b \in ReplyShape /\ b.kind = pull[c].kind /\ b.cmd = c /\ ReplyOK(b) /\ pull'[c].kind = pull[c].kind
      BY <1>3, <1>6, <1>8, <2>3, <3>1 DEF ControlInv, Answered
    <3>3. ReplyOK(b)'
      BY <2>1, <3>2
    <3> QED
      BY <3>1, <3>2, <3>3 DEF ReplyOK, JobReached, CarriedOut, Reached, NotOlder
  <2> QED
    BY <1>1, <2>2, <2>3 DEF Answered
<1>12. Registries'
  <2>1. \A s \in Sims : (JobReached(proj[s]) /\ JobReached(replay.proj[s]))'
    BY <1>1, <1>5 DEF ControlInv, Registries, JobReached
  <2>2. \A c \in 1 .. Len(pull') : JobReached(pull[c].base)'
    <3> TAKE c \in 1 .. Len(pull')
    <3>1. PICK b : b = pull'[c].base
      OBVIOUS
    <3>2. c \in 1 .. Len(pull) /\ b = pull[c].base
      BY <1>6, <1>8, <3>1
    <3>3. JobReached(b)
      BY <3>2 DEF ControlInv, Registries
    <3> QED
      BY <1>1, <3>1, <3>3 DEF JobReached
  <2> QED
    BY <2>1, <2>2 DEF Registries
<1> QED
  BY <1>10, <1>11, <1>12 DEF ControlInv

\* The client is asked something.
LEMMA RequestStep ==
  ASSUME ControlInv, NEW kind \in Pulls, NEW s \in Sims, NEW op \in Ops, NEW human, left' \subseteq Sims,
         Request(kind, s, op, human)
  PROVE  ControlInv'
<1>0. PICK n : n = Len(pull) + 1
  OBVIOUS
<1> DEFINE m == [kind |-> kind, cmd |-> n, sim |-> s, op |-> op]
           refused == caps # "unknown" /\ Unsupported(caps, m)
           st == IF refused THEN "unsupported" ELSE "waiting"
           q == [kind |-> kind, sim |-> s, op |-> op, st |-> st, base |-> proj[s], ans |-> NoReply]
<1>1. /\ UNCHANGED <<limit, version, record, job, dying, told, pos, rpos>>
      /\ UNCHANGED <<tracked, building, seen, cache, tasks>> /\ UNCHANGED clientMem
      /\ UNCHANGED <<replies, replay, caps, proj, hello>>
      /\ pull' = Append(pull, q)
      /\ UNCHANGED <<room, acted>> \/ SendCommand(m)
      /\ pump' \in {n, pump}
  BY <1>0 DEF Request, clientMem, jobs, sent
<1>2. kind \in Pulls /\ op \in Ops
  OBVIOUS
<1>3. /\ pull \in Seq(PullShape) /\ Len(pull) \in Nat
      /\ room \in Seq(MsgShape) /\ Len(room) \in Nat /\ proj[s] \in Shown /\ n \in Nat
      /\ acted \in Seq(Nat) /\ Len(acted) = Len(room)
  BY <1>0 DEF ControlInv, Shapes
<1>4. st \in {"unsupported", "waiting"}
  OBVIOUS
<1> HIDE DEF st
<1>5. q \in PullShape /\ q.kind = kind /\ q.op = op /\ q.base = proj[s] /\ q.st = st
  BY <1>2, <1>3, <1>4 DEF PullShape, Shown
<1>6. m \in MsgShape /\ m.kind = kind /\ m.cmd = n /\ m.sim = s /\ m.op = op
  <2> HIDE DEF q, m
  <2>1. kind \in Pulls \cup {"submit", "hello"} /\ s \in Sims \cup {""} /\ op \in Ops
    BY <1>2
  <2>2. n \in Int
    BY <1>3
  <2> USE DEF m
  <2> QED
    BY <2>1, <2>2 DEF MsgShape
<1> HIDE DEF q, m
<1>7. /\ pull' \in Seq(PullShape) /\ Len(pull') = Len(pull) + 1 /\ pull'[n] = q
      /\ \A c \in 1 .. Len(pull) : pull'[c] = pull[c]
      /\ \A c \in 1 .. Len(pull') : c \in 1 .. Len(pull) \/ c = n
  BY <1>1, <1>3, <1>5, AppendedAny, <1>0
<1>8. /\ room' \in Seq(MsgShape) /\ Len(room) <= Len(room') /\ Len(room') \in Nat
      /\ \A i \in 1 .. Len(room) : room'[i] = room[i] /\ acted'[i] = acted[i]
      /\ acted' \in Seq(Nat) /\ Len(acted') = Len(room')
      /\ FewActs /\ ActedOnce'
  <2>1. CASE UNCHANGED <<room, acted>>
    BY <1>3, <2>1, NoActs DEF ControlInv, ActedOnce
  <2>2. CASE SendCommand(m)
    <3>1. /\ room' \in Seq(MsgShape) /\ Len(room') = Len(room) + 1 /\ Len(room) \in Nat
          /\ \A i \in 1 .. Len(room) : room'[i] = room[i] /\ acted'[i] = acted[i]
          /\ acted' \in Seq(Nat) /\ Len(acted') = Len(room')
          /\ FewActs /\ ActedOnce'
      BY <1>6, <2>2, CommandSent
    <3> QED
      BY <3>1
  <2> QED
    BY <1>1, <2>1, <2>2
<1>9. Shapes'
  BY <1>1, <1>3, <1>7, <1>8 DEF ControlInv, Shapes
<1>10. TypeOK'
  <2>1. n \in DOMAIN pull' /\ DOMAIN pull \subseteq DOMAIN pull'
    BY <1>3, <1>7, <1>0
  <2>2. DOMAIN acted' = DOMAIN room' /\ pos' \in 0 .. Len(room')
    BY <1>1, <1>3, <1>8 DEF ControlInv, TypeOK
  <2> QED
    BY <1>1, <2>1, <2>2 DEF ControlInv, TypeOK
<1>11. Grown
  BY <1>9, <1>10, GrownFact DEF ControlInv
<1>12. Onward
  <2>1. \A i \in 1 .. Len(room) : room'[i] = room[i] /\ (acted[i] = 1 => acted'[i] = 1)
    BY <1>8
  <2>2. \A c \in 1 .. Len(pull) :
          pull'[c].kind = pull[c].kind /\ pull'[c].op = pull[c].op /\ pull'[c].base = pull[c].base
    BY <1>7
  <2>3. Len(pull) <= Len(pull') /\ Len(room) <= Len(room')
    BY <1>3, <1>7, <1>8
  <2>4. \A r \in Runs : Rank[job[r]] <= Rank[job'[r]]
    BY <1>1, <1>11 DEF Grown
  <2> QED
    BY <1>1, <2>1, <2>2, <2>3, <2>4 DEF Onward
<1>13. RoomSays'
  <2>1. CASE UNCHANGED room
    BY <1>11, <1>12, <2>1, RoomStays
  <2>2. CASE SendCommand(m)
    <3>1. SaysWhat(m)'
      <4>1. n \in 1 .. Len(pull') /\ pull'[n].kind = kind /\ pull'[n].op = op
        BY <1>3, <1>5, <1>7, <1>0
      <4> QED
        BY <1>2, <1>6, <4>1 DEF SaysWhat, Pulls
    <3> QED
      BY <1>6, <1>11, <1>12, <2>2, <3>1, RoomGrows
  <2> QED
    BY <1>1, <2>1, <2>2
<1>14. ReadInOrder' /\ ActedInOrder' /\ OwnRuns' /\ CacheOK' /\ Handlers'
  BY <1>1, <1>8, <1>11, <1>12, ClientLeftAlone
<1>15. Answered'
  <2>1. \A c \in 1 .. Len(pull') : pull'[c].st = "answered" =>
             c \in 1 .. Len(pull) /\ pull[c].st = "answered" /\ pull'[c].ans = pull[c].ans
    BY <1>4, <1>5, <1>7
  <2> QED
    BY <1>1, <1>11, <1>12, <2>1, AnswersStay
<1>16. Registries'
  BY <1>1, <1>5, <1>7, <1>9, <1>11, <1>12, RegistriesStay
<1>17. BuiltOnce'
  BY <1>1 DEF ControlInv, BuiltOnce
<1> QED
  BY <1>8, <1>9, <1>10, <1>13, <1>14, <1>15, <1>16, <1>17 DEF ControlInv

\* A tool or the human room asks.
LEMMA AskStep ==
  ASSUME ControlInv, NEW kind, NEW s \in Sims, NEW op, NEW human, Ask(kind, s, op, human)
  PROVE  ControlInv'
<1>1. <<kind, op, human>> \in limit.asks /\ limit \in Limits
  BY DEF Ask, ControlInv, Shapes
<1>2. <<kind, op, human>> \in Pulls \X (ControlOps \cup {"", "png"}) \X BOOLEAN
  BY <1>1, LimitAssumption
<1>3. kind \in Pulls /\ op \in Ops
  BY <1>2 DEF Ops
<1>4. Request(kind, s, op, human) /\ left' \subseteq Sims
  BY DEF Ask, ControlInv, TypeOK
<1> QED
  BY <1>3, <1>4, RequestStep

\* A !stop goes on to the next simulation.
LEMMA StopNextStep == ASSUME ControlInv, StopNext PROVE ControlInv'
<1>1. PICK s \in left : Request("control", s, "cancel", TRUE) /\ left' = left \ {s}
  BY DEF StopNext
<1>2. s \in Sims /\ left' \subseteq Sims /\ "control" \in Pulls /\ "cancel" \in Ops
  BY <1>1 DEF ControlInv, TypeOK, Pulls, Ops, ControlOps
<1> QED
  BY <1>1, <1>2, RequestStep
-----------------------------------------------------------------------------
(* The steps of the client that read nothing. *)

\* The build of a run ends.
LEMMA BuildEndsStep == ASSUME ControlInv, NEW r \in Runs, BuildEnds(r) PROVE ControlInv'
<1>1. /\ UNCHANGED <<limit, spent, version, seen, cache, tasks, dying, told, room, pos, rpos, acted>>
      /\ UNCHANGED <<caps, proj, pull, pump, left, hello>> /\ UNCHANGED <<replies, replay>>
      /\ r \in building /\ building' = building \ {r}
  BY DEF BuildEnds, serverMem, sent
<1>2. /\ job' = job \/ job' = [job EXCEPT ![r] = "queued"]
      /\ \E x \in {"done", "failed"} : record' = [record EXCEPT ![r] = x]
      /\ \/ tracked' = tracked
         \/ /\ job' = [job EXCEPT ![r] = "queued"]
            /\ \E id \in {r, -1} : tracked' = [tracked EXCEPT ![SimOf[r]] = id]
  BY DEF BuildEnds
<1>3. /\ job \in [Runs -> JobStates] /\ record \in [Runs -> {"none", "pending", "failed", "done"}]
      /\ tracked \in [Sims -> Runs \cup {0, -1}] /\ building \subseteq Runs /\ SimOf[r] \in Sims
      /\ job[r] = "none"
  BY <1>1, RankFacts DEF ControlInv, TypeOK, BuiltOnce, Sims
<1>4. TypeOK' /\ Shapes'
  <2>1. job' \in [Runs -> DOMAIN Rank]
    BY <1>2, <1>3, RankFacts DEF JobStates
  <2>2. record' \in [Runs -> {"none", "pending", "failed", "done"}]
    BY <1>2, <1>3
  <2>3. tracked' \in [Sims -> Runs \cup {0, -1}]
    BY <1>2, <1>3
  <2> QED
    BY <1>1, <1>3, <2>1, <2>2, <2>3 DEF ControlInv, TypeOK, Shapes
<1>5. Grown
  BY <1>4, GrownFact DEF ControlInv
<1>6. \A q \in Runs : q # r => job'[q] = job[q] /\ record'[q] = record[q]
  BY <1>2, <1>3
<1>7. record'[r] # "none"
  BY <1>2, <1>3
<1>8. Onward
  <2>1. \A q \in Runs : Rank[job[q]] <= Rank[job'[q]]
    BY <1>3, <1>5, <1>6, RankFacts DEF Grown
  <2>2. \A q \in Runs : record[q] # "none" => record'[q] # "none"
    BY <1>6, <1>7
  <2> QED
    BY <1>1, <1>5, <2>1, <2>2 DEF Onward, Grown
<1>9. RoomSays'
  BY <1>1, <1>5, <1>8, RoomStays
<1>10. ReadInOrder' /\ ActedInOrder' /\ OwnRuns'
  <2>1. FewActs
    BY <1>1, NoActs
  <2>2. ASSUME NEW s \in Sims, tracked'[s] \in Runs PROVE tracked'[s] = tracked[s] \/ tracked'[s] \in building
    <3>1. \A q \in Runs : q \in Nat
      BY LimitAssumption
    <3> QED
      BY <1>1, <1>2, <1>3, <2>2, <3>1
  <2>3. OwnWork
    BY <1>1, <2>2 DEF OwnWork
  <2> QED
    BY <1>1, <1>5, <1>8, <2>1, <2>3, ReaderStays
<1>11. Handlers'
  BY <1>1, <1>5, <1>8, TasksStay
<1>12. Answered' /\ CacheOK'
  BY <1>1, <1>5, <1>8, AnswersStay, CacheStays DEF CacheRight
<1>13. Registries'
  BY <1>1, <1>4, <1>5, <1>8, RegistriesStay
<1>14. BuiltOnce' /\ ActedOnce'
  <2>1. ASSUME NEW s \in Sims, tracked'[s] \in Runs PROVE Rank[job'[tracked'[s]]] >= 1
    <3>1. CASE tracked'[s] = r /\ job'[r] = "queued"
      BY <3>1, RankFacts
    <3>2. CASE tracked'[s] = tracked[s]
      BY <2>1, <3>2, <1>5, <1>8 DEF ControlInv, BuiltOnce, Onward, Grown
    <3>3. \A q \in Runs : q \in Nat
      BY LimitAssumption
    <3> QED
      BY <1>2, <1>3, <2>1, <3>1, <3>2, <3>3
  <2>2. \A q \in dying : Rank[job'[q]] >= 1
    BY <1>5, <1>8 DEF ControlInv, TypeOK, BuiltOnce, Onward, Grown
  <2> QED
    BY <1>1, <1>3, <1>6, <1>7, <2>1, <2>2 DEF ControlInv, BuiltOnce, ActedOnce
<1> QED
  BY <1>4, <1>9, <1>10, <1>11, <1>12, <1>13, <1>14 DEF ControlInv

\* An answer is right after a step that changes no job, request or count if it was before.
LEMMA ReplySame ==
  ASSUME UNCHANGED <<job, dying, pull, acted, room>>, NEW a
  PROVE  ReplyOK(a)' <=> ReplyOK(a)
BY DEF ReplyOK, JobReached, CarriedOut, Reached, NotOlder

\* The answers stay right when right ones are sent.
LEMMA AnswersGrow ==
  ASSUME ControlInv, UNCHANGED <<job, dying, pull, acted, room>>,
         \A i \in 1 .. Len(replies') :
            (i \in 1 .. Len(replies) /\ replies'[i] = replies[i]) \/ ReplyOK(replies'[i])
  PROVE  Answered'
<1>1. ASSUME NEW i \in 1 .. Len(replies') PROVE ReplyOK(replies[i])'
  <2>1. PICK a : a = replies'[i]
    OBVIOUS
  <2>2. ReplyOK(a)
    BY <2>1 DEF ControlInv, Answered
  <2>3. ReplyOK(a)'
    BY <2>2, ReplySame
  <2> QED
    BY <2>1, <2>3
<1>2. ASSUME NEW c \in 1 .. Len(pull), pull[c].st = "answered" PROVE ReplyOK(pull[c].ans)'
  <2>1. PICK a : a = pull[c].ans
    OBVIOUS
  <2>2. ReplyOK(a)
    BY <1>2, <2>1 DEF ControlInv, Answered
  <2>3. ReplyOK(a)'
    BY <2>2, ReplySame
  <2> QED
    BY <2>1, <2>3
<1> QED
  BY <1>1, <1>2 DEF ControlInv, Answered

\* What a message sent by the client leaves.
LEMMA Sends ==
  ASSUME ControlInv, NEW a \in ReplyShape, ReplyOK(a), SendReply(a),
         UNCHANGED <<job, dying, pull, acted, room, proj>>
  PROVE  /\ replies' \in Seq(ReplyShape) /\ Len(replies') = Len(replies) + 1 /\ Len(replies) \in Nat
         /\ replay' \in ViewShape /\ Answered' /\ Registries'
<1>1. replies' = Append(replies, a) /\ replay' = Projected(replay, a)
  BY DEF SendReply
<1>2. replies \in Seq(ReplyShape) /\ replay \in ViewShape /\ \A s \in Sims : JobReached(replay.proj[s])
  BY DEF ControlInv, Shapes, Registries
<1>3. /\ replies' \in Seq(ReplyShape) /\ Len(replies') = Len(replies) + 1 /\ Len(replies) \in Nat
      /\ \A i \in 1 .. Len(replies') : (i \in 1 .. Len(replies) /\ replies'[i] = replies[i]) \/ replies'[i] = a
  <2>1. /\ replies' \in Seq(ReplyShape) /\ Len(replies') = Len(replies) + 1 /\ Len(replies) \in Nat
        /\ \A i \in 1 .. Len(replies) : replies'[i] = replies[i]
        /\ replies'[Len(replies) + 1] = a
        /\ \A i \in 1 .. Len(replies') : i \in 1 .. Len(replies) \/ i = Len(replies) + 1
    BY <1>1, <1>2, AppendedAny
  <2> QED
    BY <2>1
<1>4. Answered'
  BY <1>3, AnswersGrow
<1>5. replay' \in ViewShape /\ \A s \in Sims : JobReached(replay'.proj[s])
  BY <1>1, <1>2, ProjectedTrue
<1>6. Registries'
  BY <1>5 DEF ControlInv, Registries, JobReached
<1> QED
  BY <1>3, <1>4, <1>5, <1>6

\* The follower reports a job.
LEMMA FollowStep == ASSUME ControlInv, NEW r \in Runs, Follow(r) PROVE ControlInv'
<1>1. /\ UNCHANGED <<limit, version, record, job, dying, room, pos, rpos, acted>>
      /\ UNCHANGED <<tracked, building, seen, cache, tasks>> /\ UNCHANGED clientMem
      /\ UNCHANGED <<caps, proj, pull, pump, left, hello>> /\ SendReply(Event(r, job[r]))
  BY DEF Follow, clientMem, jobs, serverMem
<1>2. PICK a : a = Event(r, job[r])
  OBVIOUS
<1>3. job \in [Runs -> JobStates] /\ r \in Nat /\ SimOf[r] \in Sims
  BY RankFacts, LimitAssumption DEF ControlInv, TypeOK, Sims
<1>4. a \in ReplyShape /\ a.kind = "event" /\ a.run = r /\ a.out = SimOf[r] /\ a.st = job[r]
  <2>1. job[r] \in JobStates /\ r \in Int /\ SimOf[r] \in Outs
    BY <1>3 DEF Outs
  <2> QED
    BY <1>2, <2>1 DEF Event, ReplyShape
<1>5. ReplyOK(a)
  <2>1. Rank[job[r]] \in 0 .. 3
    BY <1>3, RankFacts
  <2> QED
    BY <1>4, <2>1 DEF ReplyOK, JobReached, Pulls
<1>6. /\ replies' \in Seq(ReplyShape) /\ Len(replies') = Len(replies) + 1 /\ Len(replies) \in Nat
      /\ replay' \in ViewShape /\ Answered' /\ Registries'
  BY <1>1, <1>2, <1>4, <1>5, Sends
<1>7. TypeOK' /\ Shapes'
  BY <1>1, <1>6 DEF ControlInv, TypeOK, Shapes
<1>8. Grown
  BY <1>7, GrownFact DEF ControlInv
<1>9. Onward
  BY <1>1, <1>8, OnwardStill
<1>10. RoomSays'
  BY <1>1, <1>8, <1>9, RoomStays
<1>11. FewActs
  BY <1>1, NoActs
<1>12. ReadInOrder' /\ ActedInOrder' /\ OwnRuns' /\ CacheOK' /\ Handlers'
  BY <1>1, <1>8, <1>9, <1>11, ClientLeftAlone
<1>13. BuiltOnce' /\ ActedOnce'
  BY <1>1 DEF ControlInv, BuiltOnce, ActedOnce
<1> QED
  BY <1>6, <1>7, <1>10, <1>12, <1>13 DEF ControlInv

\* The positions between a point and one that moves back.
LEMMA Between ==
  ASSUME NEW j \in Int, NEW p \in Int, NEW q \in Int, p <= q
  PROVE  (j .. p) \cup (p + 1 .. j) \subseteq (j .. q) \cup (q + 1 .. j) \cup (p + 1 .. q)
OBVIOUS

\* The homeserver delivers a part of the room again.
LEMMA RedeliverStep == ASSUME ControlInv, Redeliver PROVE ControlInv'
<1>1. /\ UNCHANGED <<limit, version, record, job, dying, room, rpos, acted, told>>
      /\ UNCHANGED <<tracked, building, seen, cache, tasks>>
      /\ UNCHANGED <<caps, proj, pull, pump, left, hello>> /\ UNCHANGED <<replies, replay>>
      /\ pos' \in 0 .. pos - 1 /\ pos' + 1 .. pos \subseteq seen
  BY DEF Redeliver, clientMem, jobs, serverMem, sent
<1>2. pos \in Nat /\ pos <= Len(room) /\ Len(room) \in Nat /\ seen \subseteq 1 .. Len(room)
  BY DEF ControlInv, TypeOK, Shapes
<1>3. TypeOK' /\ Shapes'
  BY <1>1, <1>2 DEF ControlInv, TypeOK, Shapes
<1>4. ReadInOrder'
  <2>1. ASSUME NEW j \in seen PROVE (j .. pos') \cup (pos' + 1 .. j) \subseteq seen
    <3>1. (j .. pos) \cup (pos + 1 .. j) \subseteq seen
      BY DEF ControlInv, ReadInOrder
    <3>2. j \in Int /\ pos' \in Int /\ pos \in Int /\ pos' <= pos
      BY <1>1, <1>2
    <3>3. (j .. pos') \cup (pos' + 1 .. j) \subseteq (j .. pos) \cup (pos + 1 .. j) \cup (pos' + 1 .. pos)
      BY <3>2, Between
    <3> QED
      BY <1>1, <3>1, <3>3
  <2>2. \A j \in 1 .. pos' : Recorded(j)
    BY <1>1, <1>2 DEF ControlInv, ReadInOrder
  <2> QED
    BY <1>1, <2>1, <2>2 DEF ControlInv, ReadInOrder, Recorded
<1>5. RoomSays' /\ ActedInOrder' /\ OwnRuns' /\ BuiltOnce'
  BY <1>1 DEF ControlInv, RoomSays, SaysWhat, Recorded, ActedInOrder, HasActed, OwnRuns, Own, BuiltOnce
<1>6. CacheOK' /\ Handlers' /\ Answered' /\ Registries' /\ ActedOnce'
  BY <1>1, ZenonT(60) DEF ControlInv, CacheOK, Handlers, TaskOK, BeganBefore, CarriedOut, Reached,
              NotOlder, Answered, ReplyOK, JobReached, Registries, ActedOnce
<1> QED
  BY <1>3, <1>4, <1>5, <1>6 DEF ControlInv

\* The client restarts: it has read nothing, and follows nothing.
LEMMA ClientRestartStep == ASSUME ControlInv, ClientRestart PROVE ControlInv'
<1>1. /\ UNCHANGED <<limit, record, job, dying, room, rpos, acted, told>>
      /\ tracked' = [s \in Sims |-> 0] /\ building' = {} /\ seen' = {} /\ cache' = <<>> /\ tasks' = {}
      /\ UNCHANGED <<caps, proj, pull, pump, left, hello>> /\ UNCHANGED <<replies, replay>>
      /\ pos' \in 0 .. pos /\ version' \in limit.versions
  BY DEF ClientRestart, jobs, serverMem, sent
<1>2. pos \in Nat /\ pos <= Len(room) /\ Len(room) \in Nat /\ limit \in Limits
  BY DEF ControlInv, TypeOK, Shapes
<1>3. TypeOK' /\ Shapes'
  <2>1. version' \in Versions
    BY <1>1, <1>2, LimitAssumption
  <2> QED
    BY <1>1, <1>2, <2>1 DEF ControlInv, TypeOK, Shapes
<1>4. ReadInOrder'
  <2>1. \A j \in 1 .. pos' : Recorded(j)
    BY <1>1, <1>2 DEF ControlInv, ReadInOrder
  <2> QED
    BY <1>1, <2>1 DEF ReadInOrder, Recorded
<1>5. RoomSays' /\ ActedInOrder' /\ BuiltOnce'
  BY <1>1, LimitAssumption DEF ControlInv, RoomSays, SaysWhat, Recorded, ActedInOrder, HasActed, BuiltOnce
<1>6. OwnRuns'
  BY <1>1, LimitAssumption DEF OwnRuns
<1>7. CacheOK' /\ Handlers'
  BY <1>1 DEF CacheOK, Handlers
<1>8. Answered' /\ Registries' /\ ActedOnce'
  BY <1>1, ZenonT(60) DEF ControlInv, CarriedOut, Reached, NotOlder, Answered, ReplyOK, JobReached, Registries, ActedOnce
<1> QED
  BY <1>3, <1>4, <1>5, <1>6, <1>7, <1>8 DEF ControlInv
-----------------------------------------------------------------------------
(* The steps of a handler. *)

\* What a handler leaves alone while it waits or answers.
HandlerFrame ==
    /\ UNCHANGED <<limit, version, record, tracked, building, seen, told, room, pos, rpos>>
    /\ UNCHANGED <<caps, proj, pull, pump, left, hello>>

\* Two messages appended.
LEMMA AppendedTwo ==
  ASSUME NEW S, NEW q \in Seq(S), NEW a \in S, NEW b \in S, NEW q1, q1 = q \o <<a, b>>
  PROVE  /\ q1 \in Seq(S) /\ Len(q1) = Len(q) + 2 /\ Len(q) \in Nat
         /\ \A i \in 1 .. Len(q1) : (i \in 1 .. Len(q) /\ q1[i] = q[i]) \/ q1[i] = a \/ q1[i] = b
<1>1. <<a, b>> \in Seq(S) /\ Len(<<a, b>>) = 2
  OBVIOUS
<1>2. q1 \in Seq(S) /\ Len(q1) = Len(q) + 2 /\ Len(q) \in Nat
  BY <1>1
<1>3. ASSUME NEW i \in 1 .. Len(q1) PROVE (i \in 1 .. Len(q) /\ q1[i] = q[i]) \/ q1[i] = a \/ q1[i] = b
  <2>1. CASE i <= Len(q)
    BY <1>2, <2>1
  <2>2. CASE i = Len(q) + 1
    BY <1>2, <2>2
  <2>3. CASE i = Len(q) + 2
    BY <1>2, <2>3
  <2> QED
    BY <1>2, <2>1, <2>2, <2>3
<1> QED
  BY <1>2, <1>3

\* A right answer put into the cache: it, or what was there.
LEMMA CachedKeeps ==
  ASSUME NEW a \in ReplyShape, ReplyOK(a), cache' = Cached(a)
  PROVE  /\ TakenKept
         /\ CacheRight
<1>1. ASSUME NEW c \in DOMAIN cache'
      PROVE  /\ \/ c \in DOMAIN cache /\ cache'[c].taken = cache[c].taken
                \/ cache'[c].taken = seen
             /\ \/ c \in DOMAIN cache /\ cache'[c].ack = cache[c].ack
                \/ cache'[c].ack = a
  BY DEF Cached
<1>2. TakenKept
  BY <1>1 DEF TakenKept
<1>3. ASSUME NEW c \in DOMAIN cache'
      PROVE  \/ c \in DOMAIN cache /\ cache'[c].ack = cache[c].ack
             \/ cache'[c].ack \in ReplyShape /\ ReplyOK(cache'[c].ack)
  <2>1. CASE c \in DOMAIN cache /\ cache'[c].ack = cache[c].ack
    BY <2>1
  <2>2. CASE cache'[c].ack = a
    BY <2>2
  <2> QED
    BY <1>1, <2>1, <2>2
<1> QED
  BY <1>2, <1>3 DEF CacheRight

\* What a handler may answer.
RightAnswer(t, out, run, st) ==
    /\ out \in Outs /\ run \in Int /\ st \in JobStates
    /\ out = "ok" => t.m.kind = "control" /\ CarriedOut(t.m.cmd, run)
    /\ out = "state" => NotOlder(t.m.cmd, run, st)

\* An answer sent, after the event of a checkpoint.
LEMMA FinishSends ==
  ASSUME ControlInv, NEW t \in tasks, NEW out, NEW run, NEW st, RightAnswer(t, out, run, st),
         Finish(t, out, run, st), HandlerFrame, UNCHANGED <<job, dying, acted>>
  PROVE  /\ replies' \in Seq(ReplyShape) /\ Len(replies) <= Len(replies') /\ Len(replies) \in Nat
         /\ replay' \in ViewShape /\ Answered' /\ Registries'
         /\ TakenKept
         /\ CacheRight
<1>1. t \in TaskShape /\ t.m.cmd \in 1 .. Len(pull) /\ t.m.kind \in Pulls /\ pull[t.m.cmd].op = t.m.op /\ Len(pull) \in Nat
  BY TaskCommand DEF TaskOK, ControlInv, Shapes
<1>2. UNCHANGED <<pull, room, proj>>
  BY DEF HandlerFrame
<1>3. PICK a : a = Reply(t.m, out, run, st)
  OBVIOUS
<1>4. a \in ReplyShape /\ a.kind = t.m.kind /\ a.cmd = t.m.cmd /\ a.out = out /\ a.run = run /\ a.st = st
  <2>1. t.m.kind \in Pulls \cup {"hello", "event"} /\ t.m.cmd \in Int
    BY <1>1
  <2> QED
    BY <1>3, <2>1 DEF RightAnswer, Reply, ReplyShape
<1>5. ReplyOK(a)
  BY <1>1, <1>4 DEF RightAnswer, ReplyOK, Pulls
<1>8. /\ TakenKept
      /\ CacheRight
  BY <1>3, <1>4, <1>5, CachedKeeps DEF Finish
<1>6. CASE t.m.op = "checkpoint" /\ out = "ok"
  <2>1. PICK b : b = Event(run, "checkpoint")
    OBVIOUS
  <2>2. run \in Runs /\ Rank[job[run]] >= 2
    BY <1>1, <1>6 DEF RightAnswer, CarriedOut
  <2>3. b \in ReplyShape /\ b.kind = "event" /\ b.run = run /\ b.out = SimOf[run] /\ b.st = "checkpoint"
    <3>1. run \in Int /\ SimOf[run] \in Outs /\ "checkpoint" \in JobStates
      BY <2>2 DEF RightAnswer, Outs, Sims, JobStates
    <3> QED
      BY <2>1, <3>1 DEF Event, ReplyShape
  <2>4. ReplyOK(b)
    BY <2>2, <2>3, RankFacts DEF ReplyOK, JobReached, Pulls
  <2>5. replies' = replies \o <<b, a>> /\ replay' = Projected(replay, b)
    BY <1>3, <1>6, <2>1 DEF Finish
  <2>6. replies \in Seq(ReplyShape) /\ replay \in ViewShape /\ \A s \in Sims : JobReached(replay.proj[s])
    BY DEF ControlInv, Shapes, Registries
  <2>7. /\ replies' \in Seq(ReplyShape) /\ Len(replies') = Len(replies) + 2 /\ Len(replies) \in Nat
        /\ \A i \in 1 .. Len(replies') : \/ i \in 1 .. Len(replies) /\ replies'[i] = replies[i]
                                         \/ replies'[i] = b \/ replies'[i] = a
    BY <1>4, <2>3, <2>5, <2>6, AppendedTwo
  <2>8. Answered'
    BY <1>2, <1>5, <2>4, <2>7, AnswersGrow
  <2>9. replay' \in ViewShape /\ \A s \in Sims : JobReached(replay'.proj[s])
    BY <2>3, <2>4, <2>5, <2>6, ProjectedTrue
  <2>10. Registries'
    BY <1>2, <2>9 DEF ControlInv, Registries, JobReached
  <2> QED
    BY <1>8, <2>7, <2>8, <2>9, <2>10
<1>7. CASE ~(t.m.op = "checkpoint" /\ out = "ok")
  <2>1. SendReply(a)
    BY <1>3, <1>7 DEF Finish
  <2> QED
    BY <1>2, <1>4, <1>5, <1>8, <2>1, Sends
<1> QED
  BY <1>6, <1>7

\* A handler that answers right keeps the invariant.
LEMMA FinishStep ==
  ASSUME ControlInv, NEW t \in tasks, NEW out, NEW run, NEW st, RightAnswer(t, out, run, st),
         Finish(t, out, run, st), HandlerFrame, UNCHANGED <<job, dying, acted>>
  PROVE  ControlInv'
<1>1. /\ replies' \in Seq(ReplyShape) /\ Len(replies) <= Len(replies') /\ Len(replies) \in Nat
      /\ replay' \in ViewShape /\ Answered' /\ Registries' /\ TakenKept
      /\ CacheRight
  BY FinishSends
<1>2. /\ UNCHANGED <<limit, version, record, tracked, building, seen, told, room, pos, rpos, job, dying, acted>>
      /\ UNCHANGED <<caps, proj, pull, pump, left, hello>> /\ tasks' = tasks \ {t}
  BY DEF HandlerFrame, Finish
<1>3. TypeOK' /\ Shapes'
  <2>1. rpos' \in 0 .. Len(replies') /\ Len(replies') \in Nat
    BY <1>1, <1>2 DEF ControlInv, TypeOK
  <2>2. \A u \in tasks' : u \in tasks
    BY <1>2
  <2> QED
    BY <1>1, <1>2, <2>1, <2>2 DEF ControlInv, TypeOK, Shapes
<1>4. Grown
  BY <1>3, GrownFact DEF ControlInv
<1>5. Onward
  BY <1>2, <1>4, OnwardStill
<1>6. RoomSays'
  BY <1>2, <1>4, <1>5, RoomStays
<1>7. ReadInOrder' /\ ActedInOrder' /\ OwnRuns' /\ CacheOK'
  <2>1. FewActs
    BY <1>2, NoActs
  <2>2. OwnWork
    BY <1>2 DEF OwnWork
  <2>3. CacheOK'
    BY <1>1, <1>4, <1>5, CacheStays
  <2> QED
    BY <1>2, <1>4, <1>5, <2>1, <2>2, <2>3, ReaderStays
<1>8. Handlers'
  <2>1. ASSUME NEW u \in tasks PROVE TaskOK(u)'
    BY <1>1, <1>2, <1>4, <1>5, TaskCommand, TaskStays DEF ControlInv, Shapes
  <2> QED
    BY <1>2, <2>1 DEF ControlInv, Handlers
<1>9. BuiltOnce' /\ ActedOnce'
  BY <1>2 DEF ControlInv, BuiltOnce, ActedOnce
<1> QED
  BY <1>1, <1>3, <1>6, <1>7, <1>8, <1>9 DEF ControlInv

\* A handler that goes on, and is still right, keeps the handlers right.
LEMMA GoesKeeps ==
  ASSUME ControlInv, Onward, Grown, NEW t \in tasks, NEW u \in TaskShape, u.at = t.at, TaskOK(u)',
         tasks' = (tasks \ {t}) \cup {u}, UNCHANGED <<seen, cache>>,
         \A w \in tasks \ {t} : acted'[w.at] = acted[w.at]
  PROVE  Handlers' /\ tasks' \in SUBSET TaskShape
<1>1. ASSUME NEW w \in tasks' PROVE TaskOK(w)'
  <2>1. CASE w = u
    BY <2>1
  <2>2. CASE w \in tasks \ {t}
    <3>1. TakenKept
      BY DEF TakenKept
    <3> QED
      BY <2>2, <3>1, TaskCommand, TaskStays DEF ControlInv, Shapes
  <2> QED
    BY <2>1, <2>2
<1>2. \A w, x \in tasks' : w.at = x.at => w = x
  <2>1. \A w, x \in tasks : w.at = x.at => w = x
    BY DEF ControlInv, Handlers
  <2> QED
    BY <2>1
<1> QED
  BY <1>1, <1>2 DEF Handlers, ControlInv, Shapes

\* What goes on asks nothing else: the rest of the invariant, in a step that sends nothing.
LEMMA GoesStep ==
  ASSUME ControlInv, NEW t \in tasks, NEW u \in TaskShape, u.at = t.at, TaskOK(u)',
         tasks' = (tasks \ {t}) \cup {u}, HandlerFrame, UNCHANGED <<job, dying, acted, replies, replay, cache>>
  PROVE  ControlInv'
<1>1. /\ UNCHANGED <<limit, version, record, tracked, building, seen, told, room, pos, rpos, job, dying, acted>>
      /\ UNCHANGED <<caps, proj, pull, pump, left, hello>>
  BY DEF HandlerFrame
<1>2. Shapes'
  BY <1>1 DEF ControlInv, Shapes
<1>3. TypeOK'
  <2>1. \A w \in tasks' : w.pc \in {"query", "act", "send", "read"} /\ (w.pc \in {"query", "act"} => w.run \in Runs)
    BY DEF ControlInv, TypeOK, TaskOK, TaskShape
  <2> QED
    BY <1>1, <2>1 DEF ControlInv, TypeOK
<1>4. Grown
  BY <1>2, <1>3, GrownFact DEF ControlInv
<1>5. Onward
  BY <1>1, <1>4, OnwardStill
<1>6. Handlers'
  BY <1>1, <1>4, <1>5, GoesKeeps
<1>7. RoomSays'
  BY <1>1, <1>4, <1>5, RoomStays
<1>8. ReadInOrder' /\ ActedInOrder' /\ OwnRuns' /\ CacheOK'
  <2>1. FewActs
    BY <1>1, NoActs
  <2>2. OwnWork
    BY <1>1 DEF OwnWork
  <2> QED
    BY <1>1, <1>4, <1>5, <2>1, <2>2, ReaderStays, CacheStays DEF CacheRight
<1>9. Answered'
  BY <1>1, <1>4, <1>5, AnswersStay
<1>10. Registries'
  BY <1>1, <1>2, <1>4, <1>5, RegistriesStay
<1>11. BuiltOnce' /\ ActedOnce'
  BY <1>1 DEF ControlInv, BuiltOnce, ActedOnce
<1> QED
  BY <1>2, <1>3, <1>6, <1>7, <1>8, <1>9, <1>10, <1>11 DEF ControlInv

\* Runs are numbered from 1.
LEMMA RunsAre == ASSUME NEW r \in Runs PROVE r \in Int /\ r # 0
<1>1. r \in Nat /\ r # 0
  BY LimitAssumption
<1> QED
  BY <1>1

\* The scheduler answers a handler.
LEMMA QueryStep == ASSUME ControlInv, NEW t \in tasks, Query(t) PROVE ControlInv'
<1>1. PICK st \in {job[t.run], "none"} :
        IF t.m.kind = "status" THEN QueryStatus(t, st) ELSE QueryControl(t, st)
  BY DEF Query
<1>2. HandlerFrame /\ UNCHANGED <<job, dying, acted>> /\ t.pc = "query"
  BY DEF Query, HandlerFrame, jobs, serverMem
<1>3. /\ t \in TaskShape /\ TaskOK(t) /\ t.run \in Runs /\ t.m.kind \in {"status", "control"}
      /\ t.m.cmd \in 1 .. Len(pull) /\ t.run \in Int /\ t.run # 0 /\ Len(pull) \in Nat
  <2>1. t \in TaskShape /\ TaskOK(t) /\ t.m.cmd \in 1 .. Len(pull) /\ Len(pull) \in Nat
    BY TaskCommand DEF ControlInv, Shapes
  <2>2. t.run \in Runs /\ t.m.kind \in {"status", "control"}
    BY <1>2, <2>1 DEF TaskOK, Pulls
  <2> QED
    BY <2>1, <2>2, RunsAre
<1>4. st \in JobStates /\ job \in [Runs -> JobStates]
  <2>1. job \in [Runs -> JobStates]
    BY RankFacts DEF ControlInv, TypeOK
  <2> QED
    BY <1>3, <2>1 DEF JobStates
<1>5. CASE t.m.kind = "status"
  <2>1. PICK out : out = IF st = "none" THEN "job_info_failed" ELSE "state"
    OBVIOUS
  <2>2. PICK u : u = [t EXCEPT !.pc = "send", !.out = out, !.st = st]
    OBVIOUS
  <2>3. tasks' = (tasks \ {t}) \cup {u} /\ UNCHANGED <<replies, replay, cache>>
    BY <1>1, <1>5, <2>1, <2>2 DEF QueryStatus, Goes, sent
  <2>4. u \in TaskShape /\ u.at = t.at /\ u.m = t.m /\ u.run = t.run /\ u.pc = "send" /\ u.out = out /\ u.st = st
    <3>1. out \in Outs
      BY <2>1 DEF Outs, Verdicts
    <3> QED
      BY <1>3, <1>4, <2>2, <3>1 DEF TaskShape
  <2>5. out = "state" => NotOlder(t.m.cmd, t.run, st)
    <3> HAVE out = "state"
    <3>1. st = job[t.run]
      BY <1>1, <2>1
    <3>2. JobReached(pull[t.m.cmd].base)
      BY <1>3 DEF ControlInv, Registries
    <3>3. pull[t.m.cmd].base.st \in JobStates
      <4>1. pull[t.m.cmd] \in PullShape
        BY <1>3 DEF ControlInv, Shapes
      <4>2. pull[t.m.cmd].base \in Shown
        BY <4>1 DEF PullShape
      <4> QED
        BY <4>2, ShownState
    <3>4. t.run = pull[t.m.cmd].base.run => Rank[pull[t.m.cmd].base.st] <= Rank[st]
      BY <1>3, <3>1, <3>2 DEF JobReached
    <3>5. Rank[pull[t.m.cmd].base.st] \in 0 .. 3 /\ Rank[st] \in 0 .. 3
      BY <1>4, <3>3, RankFacts
    <3> QED
      BY <1>3, <3>4, <3>5 DEF NotOlder
  <2>6. TaskOK(u)
    <3>1. out # "ok"
      BY <2>1
    <3> QED
      BY <1>3, <1>5, <2>4, <2>5, <3>1 DEF TaskOK, BeganBefore
  <2>7. TaskOK(u)'
    BY <1>2, <2>3, <2>6 DEF TaskOK, BeganBefore, HandlerFrame, CarriedOut, Reached, NotOlder
  <2> QED
    BY <1>2, <2>3, <2>4, <2>7, GoesStep
<1>6. CASE t.m.kind = "control"
  <2>1. QueryControl(t, st)
    BY <1>1, <1>6
  <2>2. ASSUME NEW out \in {"not_signalable", "not_terminal"}, Finish(t, out, t.run, st) PROVE ControlInv'
    <3>1. RightAnswer(t, out, t.run, st)
      BY <1>3, <1>4 DEF RightAnswer, Outs, Verdicts
    <3> QED
      BY <1>2, <2>2, <3>1, FinishStep
  <2>3. CASE Goes(t, "act", "", st) /\ (t.m.op # "cancel" => st = "running")
    <3>1. PICK u : u = [t EXCEPT !.pc = "act", !.out = "", !.st = st]
      OBVIOUS
    <3>2. tasks' = (tasks \ {t}) \cup {u} /\ UNCHANGED <<replies, replay, cache>>
      BY <2>3, <3>1 DEF Goes, sent
    <3>3. u \in TaskShape /\ u.at = t.at /\ u.m = t.m /\ u.run = t.run /\ u.pc = "act"
      <4>1. "" \in Outs
        BY DEF Outs, Verdicts
      <4> QED
        BY <1>3, <1>4, <3>1, <4>1 DEF TaskShape
    <3>4. t.m.op = "checkpoint" => Rank[job[t.run]] >= 2
      <4> HAVE t.m.op = "checkpoint"
      <4>1. st = "running"
        BY <2>3
      <4>2. job[t.run] = "running"
        BY <1>1, <4>1
      <4> QED
        BY <4>2, RankFacts
    <3>5. TaskOK(u)
      BY <1>2, <1>3, <1>6, <3>3, <3>4 DEF TaskOK, BeganBefore
    <3>6. TaskOK(u)'
      BY <1>2, <3>2, <3>5 DEF TaskOK, BeganBefore, HandlerFrame, CarriedOut, Reached, NotOlder
    <3> QED
      BY <1>2, <3>2, <3>3, <3>6, GoesStep
  <2> QED
    BY <2>1, <2>2, <2>3 DEF QueryControl
<1> QED
  BY <1>3, <1>5, <1>6

\* The ack of a control or status request is sent.
LEMMA SendStep == ASSUME ControlInv, NEW t \in tasks, Send(t) PROVE ControlInv'
<1>1. HandlerFrame /\ UNCHANGED <<job, dying, acted>> /\ t.pc = "send" /\ Finish(t, t.out, t.run, t.st)
  BY DEF Send, HandlerFrame, jobs, serverMem
<1>2. t \in TaskShape /\ TaskOK(t)
  BY TaskCommand
<1>3. RightAnswer(t, t.out, t.run, t.st)
  BY <1>1, <1>2 DEF RightAnswer, TaskShape, TaskOK
<1> QED
  BY <1>1, <1>3, FinishStep

\* Logs or results are read and sent.
LEMMA ReadStep == ASSUME ControlInv, NEW t \in tasks, Read(t) PROVE ControlInv'
<1>1. HandlerFrame /\ UNCHANGED <<job, dying, acted>>
  BY DEF Read, HandlerFrame, jobs, serverMem
<1>2. PICK out \in {"read", "result_failed"} : Finish(t, out, t.run, "none")
  BY DEF Read, ReadLogs, ReadResult
<1>3. t \in TaskShape
  BY TaskCommand
<1>4. RightAnswer(t, out, t.run, "none")
  BY <1>2, <1>3 DEF RightAnswer, TaskShape, Outs, Verdicts, JobStates
<1> QED
  BY <1>1, <1>2, <1>4, FinishStep

\* The command reaches the scheduler, whether or not the call then returns in time.
LEMMA ScancelStep ==
  ASSUME ControlInv, NEW t \in tasks, t.pc = "act", Scancel(t), NEW out \in {"ok", "run_failed"},
         Goes(t, "send", out, "none"), HandlerFrame, UNCHANGED job
  PROVE  ControlInv'
<1>1. /\ t \in TaskShape /\ TaskOK(t) /\ t.m.cmd \in 1 .. Len(pull) /\ pull[t.m.cmd].op = t.m.op
      /\ t.at \in 1 .. Len(room) /\ t.at \in seen /\ room[t.at] = t.m
  BY TaskCommand
<1>2. /\ t.m.kind = "control" /\ t.run \in Runs /\ acted[t.at] = 0 /\ Rank[job[t.run]] >= 1
      /\ t.m.op = "checkpoint" => Rank[job[t.run]] >= 2
  BY <1>1 DEF TaskOK
<1>3. PICK u : u = [t EXCEPT !.pc = "send", !.out = out, !.st = "none"]
  OBVIOUS
<1>4. tasks' = (tasks \ {t}) \cup {u} /\ UNCHANGED <<replies, replay, cache>>
  BY <1>3 DEF Goes, sent
<1>5. u \in TaskShape /\ u.at = t.at /\ u.m = t.m /\ u.run = t.run /\ u.pc = "send" /\ u.out = out
  <2>1. out \in Outs /\ "none" \in JobStates
    BY DEF Outs, Verdicts, JobStates
  <2> QED
    BY <1>1, <1>3, <2>1 DEF TaskShape
<1>6. /\ UNCHANGED <<limit, version, record, tracked, building, seen, told, room, pos, rpos, job>>
      /\ UNCHANGED <<caps, proj, pull, pump, left, hello>>
  BY DEF HandlerFrame
<1>7. acted \in Seq(Nat) /\ Len(acted) = Len(room) /\ Len(room) \in Nat /\ dying \subseteq Runs
  BY DEF ControlInv, Shapes, TypeOK
<1>8. /\ acted' \in Seq(Nat) /\ Len(acted') = Len(room) /\ DOMAIN acted' = 1 .. Len(room)
      /\ \A i \in 1 .. Len(room) : acted'[i] = IF i = t.at THEN 1 ELSE acted[i]
  <2>1. DOMAIN acted = 1 .. Len(room) /\ acted[t.at] + 1 = 1
    BY <1>1, <1>2, <1>7
  <2>2. acted' = [acted EXCEPT ![t.at] = 1]
    BY <2>1 DEF Scancel
  <2>3. acted' \in [1 .. Len(acted) -> Nat]
    <3>1. acted \in [1 .. Len(acted) -> Nat]
      BY <1>7
    <3> QED
      BY <2>2, <3>1
  <2>4. acted' \in Seq(Nat) /\ Len(acted') = Len(acted)
    BY <1>7, <2>3, SeqOver
  <2> QED
    BY <1>1, <1>7, <2>1, <2>2, <2>3, <2>4
<1>9. /\ dying' \subseteq dying \cup {t.run} /\ dying \subseteq dying'
      /\ t.m.op = "cancel" => t.run \in dying'
  BY DEF Scancel
<1>10. Shapes'
  BY <1>4, <1>5, <1>6, <1>8 DEF ControlInv, Shapes
<1>11. TypeOK'
  <2>1. \A w \in tasks' : w.pc \in {"query", "act", "send", "read"} /\ (w.pc \in {"query", "act"} => w.run \in Runs)
    BY <1>4, <1>5 DEF ControlInv, TypeOK
  <2>2. dying' \subseteq Runs /\ DOMAIN acted' = DOMAIN room
    BY <1>2, <1>7, <1>8, <1>9 DEF ControlInv, TypeOK
  <2> QED
    BY <1>4, <1>6, <2>1, <2>2 DEF ControlInv, TypeOK
<1>12. Grown
  BY <1>10, <1>11, GrownFact DEF ControlInv
<1>13. Onward
  BY <1>6, <1>8, <1>9, <1>12 DEF Onward, Grown
<1>14. TaskOK(u)'
  <2>1. Reached(t.m.cmd)'
    BY <1>1, <1>6, <1>8 DEF Reached
  <2>2. CarriedOut(t.m.cmd, t.run)'
    BY <1>1, <1>2, <1>6, <1>9, <2>1 DEF CarriedOut
  <2> QED
    BY <1>1, <1>2, <1>5, <1>6, <2>2 DEF TaskOK, BeganBefore, Pulls
<1>15. Handlers'
  <2>1. ASSUME NEW w \in tasks \ {t} PROVE acted'[w.at] = acted[w.at]
    <3>1. w.at \in 1 .. Len(room) /\ w.at # t.at
      BY TaskCommand DEF ControlInv, Handlers
    <3> QED
      BY <1>8, <3>1
  <2> QED
    BY <1>4, <1>5, <1>6, <1>12, <1>13, <1>14, <2>1, GoesKeeps
<1>16. RoomSays'
  BY <1>6, <1>12, <1>13, RoomStays
<1>17. ReadInOrder' /\ ActedInOrder' /\ OwnRuns'
  <2>1. FewActs
    <3> SUFFICES ASSUME NEW i \in 1 .. Len(room), acted'[i] > 0, ~(acted[i] > 0) PROVE i \in seen
      BY <1>6 DEF FewActs, HasActed
    <3> QED
      BY <1>1, <1>8
  <2>2. OwnWork
    BY <1>6 DEF OwnWork
  <2> QED
    BY <1>6, <1>12, <1>13, <2>1, <2>2, ReaderStays
<1>18. CacheOK'
  BY <1>4, <1>12, <1>13, CacheStays DEF CacheRight
<1>19. Answered'
  BY <1>4, <1>6, <1>12, <1>13, AnswersStay
<1>20. Registries'
  BY <1>4, <1>6, <1>10, <1>12, <1>13, RegistriesStay
<1>21. ActedOnce'
  <2>1. \A i \in 1 .. Len(room) : acted[i] <= 1
    BY <1>7 DEF ControlInv, ActedOnce
  <2> QED
    BY <1>8, <2>1 DEF ActedOnce
<1>22. BuiltOnce'
  BY <1>2, <1>6, <1>9 DEF ControlInv, BuiltOnce
<1> QED
  BY <1>10, <1>11, <1>15, <1>16, <1>17, <1>18, <1>19, <1>20, <1>21, <1>22 DEF ControlInv

\* The command reaches the scheduler, or fails without.
LEMMA ActStep == ASSUME ControlInv, NEW t \in tasks, Act(t) PROVE ControlInv'
<1>1. HandlerFrame /\ t.pc = "act" /\ UNCHANGED job
  BY DEF Act, HandlerFrame, serverMem
<1>2. CASE Scancel(t) /\ \E out \in {"ok", "run_failed"} : Goes(t, "send", out, "none")
  BY <1>1, <1>2, ScancelStep
<1>3. CASE UNCHANGED <<acted, dying>> /\ Goes(t, "send", "run_failed", "none")
  <2>1. PICK u : u = [t EXCEPT !.pc = "send", !.out = "run_failed", !.st = "none"]
    OBVIOUS
  <2>2. tasks' = (tasks \ {t}) \cup {u} /\ UNCHANGED <<replies, replay, cache>>
    BY <1>3, <2>1 DEF Goes, sent
  <2>3. t \in TaskShape /\ TaskOK(t) /\ t.m.kind = "control"
    BY <1>1, TaskCommand DEF TaskOK
  <2>4. u \in TaskShape /\ u.at = t.at /\ u.m = t.m /\ u.run = t.run /\ u.pc = "send" /\ u.out = "run_failed"
    <3>1. "run_failed" \in Outs /\ "none" \in JobStates
      BY DEF Outs, Verdicts, JobStates
    <3> QED
      BY <2>1, <2>3, <3>1 DEF TaskShape
  <2>5. TaskOK(u)
    BY <2>3, <2>4 DEF TaskOK, BeganBefore, Pulls
  <2>6. TaskOK(u)'
    BY <1>1, <1>3, <2>2, <2>5 DEF TaskOK, BeganBefore, HandlerFrame, CarriedOut, Reached, NotOlder
  <2> QED
    BY <1>1, <1>3, <2>2, <2>4, <2>6, GoesStep
<1> QED
  BY <1>2, <1>3 DEF Act
-----------------------------------------------------------------------------
(* The client reads on. *)

\* A message that was not read yet is after everything that was.
LEMMA NewMessageAt ==
  ASSUME ControlInv, pos < Len(room), pos + 1 \notin seen
  PROVE  /\ pos \in Nat /\ pos + 1 \in 1 .. Len(room) /\ Len(room) \in Nat
         /\ room[pos + 1] \in MsgShape /\ SaysWhat(room[pos + 1])
         /\ \A j \in seen : j \in 1 .. pos
<1>1. pos \in Nat /\ Len(room) \in Nat /\ room \in Seq(MsgShape) /\ seen \subseteq 1 .. Len(room)
  BY DEF ControlInv, TypeOK, Shapes
<1>2. pos + 1 \in 1 .. Len(room)
  BY <1>1
<1>3. room[pos + 1] \in MsgShape /\ SaysWhat(room[pos + 1])
  BY <1>1, <1>2 DEF ControlInv, RoomSays
<1>4. ASSUME NEW j \in seen PROVE j \in 1 .. pos
  <2>1. j \in Nat /\ j >= 1
    BY <1>1
  <2>2. pos + 1 .. j \subseteq seen
    BY DEF ControlInv, ReadInOrder
  <2>3. j >= pos + 1 => pos + 1 \in pos + 1 .. j
    BY <1>1, <2>1
  <2> QED
    BY <1>1, <2>1, <2>2, <2>3
<1> QED
  BY <1>1, <1>2, <1>3, <1>4

\* What handling one new message leaves alone.
HandleFrame ==
    /\ pos < Len(room) /\ pos + 1 \notin seen /\ pos' = pos + 1 /\ seen' = seen \cup {pos + 1}
    /\ UNCHANGED <<limit, version, tracked, job, dying, told, room, rpos, acted>>
    /\ UNCHANGED <<caps, proj, pull, pump, left, hello>>

\* The message m, at position n, is the next one.
IsNext(n, m) == n = pos + 1 /\ m = room[n]

\* What is known of it.
LEMMA NewMessage ==
  ASSUME ControlInv, HandleFrame, NEW n, NEW m, IsNext(n, m)
  PROVE  /\ n \in Nat /\ n \in 1 .. Len(room) /\ Len(room) \in Nat
         /\ pos' = n /\ seen' = seen \cup {n} /\ n \notin seen /\ room[n] = m
         /\ pos' \in 0 .. Len(room) /\ seen' \subseteq 1 .. Len(room)
         /\ m \in MsgShape /\ SaysWhat(m)
         /\ m.kind \in Pulls => m.cmd \in 1 .. Len(pull) /\ m.sim \in Sims
         /\ \A j \in seen : n \in j + 1 .. Len(room)
<1>1. n = pos + 1 /\ m = room[pos + 1] /\ pos < Len(room) /\ pos + 1 \notin seen /\ pos' = pos + 1 /\ seen' = seen \cup {pos + 1}
  BY DEF HandleFrame, IsNext
<1>2. /\ pos \in Nat /\ pos + 1 \in 1 .. Len(room) /\ Len(room) \in Nat
      /\ room[pos + 1] \in MsgShape /\ SaysWhat(room[pos + 1])
      /\ \A j \in seen : j \in 1 .. pos
  BY <1>1, NewMessageAt
<1>3. n \in Nat /\ n \in 1 .. Len(room) /\ pos' = n /\ seen' = seen \cup {n} /\ n \notin seen /\ room[n] = m
  BY <1>1, <1>2
<1>4. m \in MsgShape /\ SaysWhat(m)
  BY <1>1, <1>2
<1>5. seen \subseteq 1 .. Len(room)
  BY DEF ControlInv, Shapes
<1>6. ASSUME NEW j \in seen PROVE n \in j + 1 .. Len(room)
  <2>1. j \in 1 .. pos
    BY <1>2
  <2> QED
    BY <1>1, <1>2, <2>1
<1>7. m.kind \in Pulls => m.cmd \in 1 .. Len(pull) /\ m.sim \in Sims
  BY <1>4 DEF SaysWhat
<1>8. pos' \in 0 .. Len(room) /\ seen' \subseteq 1 .. Len(room)
  <2>1. pos' = n /\ n \in 1 .. Len(room) /\ Len(room) \in Nat
    BY <1>2, <1>3
  <2>2. pos' \in 0 .. Len(room)
    BY <2>1
  <2>3. seen' = seen \cup {n} /\ n \in 1 .. Len(room) /\ seen \subseteq 1 .. Len(room)
    BY <1>3, <1>5
  <2>4. seen' \subseteq 1 .. Len(room)
    BY <2>3, Zenon
  <2> QED
    BY <2>2, <2>4
<1>9. Len(room) \in Nat
  BY <1>2
<1> QED
  BY <1>3, <1>4, <1>6, <1>7, <1>8, <1>9, Zenon

\* Reading one more message keeps the order of the room.
LEMMA ReadOn ==
  ASSUME ControlInv, Onward, Grown, HandleFrame, NEW n, n = pos + 1, Recorded(n)',
         \A r \in building' : r \in building \/ Own(r)'
  PROVE  ReadInOrder' /\ ActedInOrder' /\ OwnRuns'
<1>1. /\ pos \in Nat /\ pos + 1 \in 1 .. Len(room) /\ Len(room) \in Nat
      /\ \A j \in seen : j \in 1 .. pos
  BY NewMessageAt DEF HandleFrame
<1>2. \A j \in 1 .. Len(room) : Recorded(j) => Recorded(j)'
  BY RecordedStays DEF ControlInv
<1>3. n = pos + 1
  OBVIOUS
<1>4. pos' = n /\ seen' = seen \cup {n} /\ n \in Nat /\ Recorded(n)' /\ n \in 1 .. Len(room)
  BY <1>1, <1>3 DEF HandleFrame
<1>5. \A j \in 1 .. n : Recorded(j)'
  <2> TAKE j \in 1 .. n
  <2>1. CASE j = n
    BY <1>4, <2>1
  <2>2. CASE j \in 1 .. pos
    BY <1>1, <1>2, <2>2 DEF ControlInv, ReadInOrder
  <2> QED
    BY <1>1, <1>3, <2>1, <2>2
<1>6. ReadInOrder'
  <2>1. ASSUME NEW j \in seen' PROVE (j .. n) \cup (n + 1 .. j) \subseteq seen'
    <3>1. CASE j = n
      BY <1>4, <3>1
    <3>2. CASE j \in seen
      <4>1. j .. pos \subseteq seen /\ j \in 1 .. pos
        BY <1>1, <3>2 DEF ControlInv, ReadInOrder
      <4>2. \A k \in j .. n : k \in j .. pos \/ k = n
        BY <1>1, <1>3, <4>1
      <4>3. n + 1 .. j = {}
        BY <1>1, <1>3, <4>1
      <4> QED
        BY <1>4, <4>1, <4>2, <4>3
    <3> QED
      BY <1>4, <2>1, <3>1, <3>2
  <2>2. \A i \in seen' : i \in 1 .. n
    BY <1>1, <1>3, <1>4
  <2>3. \A i \in seen' : \A j \in 1 .. i : j \in 1 .. n
    BY <2>2, <1>4
  <2> QED
    BY <1>4, <1>5, <2>1, <2>3 DEF ReadInOrder
<1>7. ActedInOrder'
  <2> SUFFICES ASSUME NEW i \in 1 .. Len(room), HasActed(i)', NEW j \in 1 .. i PROVE Recorded(j)'
    BY DEF ActedInOrder, HandleFrame
  <2>1. HasActed(i)
    BY DEF HasActed, HandleFrame
  <2>2. Recorded(j) /\ j \in 1 .. Len(room)
    BY <1>1, <2>1 DEF ControlInv, ActedInOrder
  <2> QED
    BY <1>2, <2>2
<1>8. OwnRuns'
  <2>1. FewActs /\ seen \subseteq seen' /\ seen \subseteq 1 .. Len(room)
    BY NoActs DEF HandleFrame, ControlInv, Shapes
  <2>2. \A r : Own(r) => Own(r)'
    BY <2>1, OwnStays
  <2>3. \A r \in building' : Own(r)'
    BY <2>2 DEF ControlInv, OwnRuns
  <2>4. ASSUME NEW s \in Sims, tracked'[s] \in Runs PROVE Own(tracked[s])'
    <3>1. PICK r : r = tracked[s]
      OBVIOUS
    <3>2. Own(r)'
      BY <2>2, <2>4, <3>1 DEF ControlInv, OwnRuns, HandleFrame
    <3> QED
      BY <3>1, <3>2 DEF Own, HandleFrame
  <2> QED
    BY <2>3, <2>4 DEF OwnRuns
<1> QED
  BY <1>6, <1>7, <1>8

\* A message that was read before is skipped.
LEMMA SkipStep ==
  ASSUME ControlInv, pos < Len(room), pos' = pos + 1, pos + 1 \in seen, seen' = seen \cup {pos + 1},
         UNCHANGED <<limit, version, tracked, job, dying, told, room, rpos, acted>>,
         UNCHANGED <<record, building, tasks, cache, replies, replay>>,
         UNCHANGED <<caps, proj, pull, pump, left, hello>>
  PROVE  ControlInv'
<1>1. pos \in Nat /\ Len(room) \in Nat /\ seen \subseteq 1 .. Len(room) /\ seen' = seen
  BY DEF ControlInv, TypeOK, Shapes
<1>2. PICK n : n = pos + 1
  OBVIOUS
<1>3. n \in Nat /\ n \in seen /\ pos' = n /\ n <= Len(room)
  BY <1>1, <1>2
<1>4. TypeOK' /\ Shapes'
  BY <1>1, <1>3 DEF ControlInv, TypeOK, Shapes
<1>5. ReadInOrder'
  <2>1. ASSUME NEW j \in seen PROVE (j .. n) \cup (n + 1 .. j) \subseteq seen
    <3>1. (j .. pos) \cup (pos + 1 .. j) \subseteq seen /\ j \in Nat
      BY <1>1 DEF ControlInv, ReadInOrder
    <3>2. \A k \in j .. n : k \in j .. pos \/ k = n
      BY <1>1, <1>2, <3>1
    <3>3. \A k \in n + 1 .. j : k \in pos + 1 .. j
      BY <1>1, <1>2, <3>1
    <3> QED
      BY <1>3, <3>1, <3>2, <3>3
  <2>2. \A j \in 1 .. n : Recorded(j)
    BY <1>3 DEF ControlInv, ReadInOrder
  <2> QED
    BY <1>1, <1>3, <2>1, <2>2 DEF ControlInv, ReadInOrder, Recorded
<1>6. RoomSays' /\ ActedInOrder' /\ OwnRuns' /\ BuiltOnce'
  BY <1>1 DEF ControlInv, RoomSays, SaysWhat, Recorded, ActedInOrder, HasActed, OwnRuns, Own, BuiltOnce
<1>7. CacheOK' /\ Handlers' /\ Answered' /\ Registries' /\ ActedOnce'
  BY <1>1, ZenonT(60) DEF ControlInv, CacheOK, Handlers, TaskOK, BeganBefore, CarriedOut, Reached,
              NotOlder, Answered, ReplyOK, JobReached, Registries, ActedOnce
<1> QED
  BY <1>4, <1>5, <1>6, <1>7 DEF ControlInv

\* A new request is answered at once with a refusal, or is about a job that is followed.
LEMMA AtOnce ==
  ASSUME ControlInv, NEW m, m.kind \in Pulls, m.sim \in Sims
  PROVE  /\ AnswerAtOnce(m) \in Verdicts \ {"ok", "state"}
         /\ AnswerAtOnce(m) = "" /\ m.kind \in {"control", "status"} => tracked[m.sim] \in Runs
<1>1. tracked[m.sim] \in Runs \cup {0, -1}
  BY DEF ControlInv, TypeOK
<1>2. ControlUntracked(m.sim) \in {"unknown_sim", "not_signalable"}
  BY DEF ControlUntracked
<1>3. ControlAtOnce(m) \in {"unknown_sim", "not_signalable", ""} /\ (ControlAtOnce(m) = "" => tracked[m.sim] \in Runs)
  BY <1>1, <1>2 DEF ControlAtOnce
<1>4. StatusAtOnce(m) \in {"unknown_sim", "workflow_finished", ""} /\ (StatusAtOnce(m) = "" => tracked[m.sim] \in Runs)
  BY <1>1 DEF StatusAtOnce
<1>5. LogsAtOnce(m) \in {"", "unknown_sim", "failed", "build_log", "not_available"}
  BY DEF LogsAtOnce
<1>6. ResultAtOnce(m) \in {"", "unknown_sim"}
  BY DEF ResultAtOnce
<1>7. Rejection(m) \in {"rejected", "unsupported", ""}
  BY DEF Rejection
<1>8. CASE Rejection(m) # ""
  <2>1. AnswerAtOnce(m) = Rejection(m)
    BY <1>8 DEF AnswerAtOnce
  <2>2. Rejection(m) \in Verdicts \ {"ok", "state"}
    BY <1>7 DEF Verdicts
  <2> QED
    BY <1>8, <2>1, <2>2
<1>9. CASE Rejection(m) = "" /\ m.kind = "control"
  BY <1>3, <1>9 DEF AnswerAtOnce, Verdicts
<1>10. CASE Rejection(m) = "" /\ m.kind = "status"
  BY <1>4, <1>10 DEF AnswerAtOnce, Verdicts
<1>11. CASE Rejection(m) = "" /\ m.kind = "logs"
  BY <1>5, <1>11 DEF AnswerAtOnce, Verdicts
<1>12. CASE Rejection(m) = "" /\ m.kind = "result"
  BY <1>6, <1>12 DEF AnswerAtOnce, Verdicts
<1> QED
  BY <1>8, <1>9, <1>10, <1>11, <1>12 DEF Pulls

\* A hello, or a request refused at once, is answered right.
LEMMA ReplyAtOnce ==
  ASSUME NEW m \in MsgShape, NEW out \in Outs, NEW a, a = Reply(m, out, 0, "none"), m.kind # "submit",
         m.kind \in Pulls => out \notin {"ok", "state"}, m.kind = "hello" => out \in Versions
  PROVE  a \in ReplyShape /\ ReplyOK(a)
<1>1. a \in ReplyShape /\ a.kind = m.kind /\ a.out = out
  <2>1. m.kind \in Pulls \cup {"hello", "event"} /\ m.cmd \in Int
    BY DEF MsgShape
  <2>2. "none" \in JobStates /\ 0 \in Int
    BY DEF JobStates
  <2> QED
    BY <2>1, <2>2 DEF Reply, ReplyShape
<1>2. m.kind # "event"
  BY DEF MsgShape, Pulls
<1> QED
  BY <1>1, <1>2 DEF ReplyOK, Pulls

\* A message that is answered at once: a hello, a refused request, or a command that was
\* answered before.
LEMMA AnswerStep ==
  ASSUME ControlInv, HandleFrame, NEW n, NEW m, IsNext(n, m), m.kind # "submit",
         NEW a \in ReplyShape, ReplyOK(a), SendReply(a),
         UNCHANGED <<record, building, tasks>>, cache' = cache \/ cache' = Cached(a)
  PROVE  ControlInv'
<1>1. /\ m \in MsgShape /\ room[n] = m /\ pos' \in 0 .. Len(room) /\ seen' \subseteq 1 .. Len(room)
  BY NewMessage
<1>4. /\ TakenKept
      /\ CacheRight
  <2>1. CASE cache' = cache
    <3>1. TakenKept
      BY <2>1 DEF TakenKept
    <3>2. \A c \in DOMAIN cache' : c \in DOMAIN cache /\ cache'[c].ack = cache[c].ack
      BY <2>1
    <3> QED
      BY <3>1, <3>2 DEF CacheRight
  <2>2. CASE cache' = Cached(a)
    BY <2>2, CachedKeeps
  <2> QED
    BY <2>1, <2>2
<1>5. /\ replies' \in Seq(ReplyShape) /\ Len(replies') = Len(replies) + 1 /\ Len(replies) \in Nat
      /\ replay' \in ViewShape /\ Answered' /\ Registries'
  BY Sends DEF HandleFrame
<1>6. TypeOK' /\ Shapes'
  <2>1. rpos \in 0 .. Len(replies') /\ pos' \in 0 .. Len(room) /\ seen' \subseteq 1 .. Len(room)
    BY <1>1, <1>5 DEF ControlInv, TypeOK, Shapes, HandleFrame
  <2>2. UNCHANGED <<limit, version, tracked, job, room, rpos, acted, caps, proj, pull, pump>>
    BY DEF HandleFrame
  <2>3. UNCHANGED <<dying, left>>
    BY DEF HandleFrame
  <2> QED
    BY <1>5, <2>1, <2>2, <2>3 DEF ControlInv, TypeOK, Shapes
<1>7. Grown
  BY <1>6, GrownFact DEF ControlInv
<1>8. Onward
  BY <1>7, OnwardStill DEF HandleFrame
<1>9. RoomSays'
  BY <1>7, <1>8, RoomStays DEF HandleFrame
<1>10. ReadInOrder' /\ ActedInOrder' /\ OwnRuns' /\ CacheOK'
  <2>1. n = pos + 1
    BY DEF IsNext
  <2>2. Recorded(n)'
    BY <1>1 DEF Recorded, HandleFrame
  <2>3. CacheOK'
    BY <1>4, <1>7, <1>8, CacheStays
  <2> QED
    BY <1>7, <1>8, <2>1, <2>2, <2>3, ReadOn
<1>11. Handlers'
  <2>1. ASSUME NEW t \in tasks PROVE TaskOK(t)'
    BY <1>4, <1>7, <1>8, TaskCommand, TaskStays DEF ControlInv, Shapes, HandleFrame
  <2> QED
    BY <2>1 DEF ControlInv, Handlers
<1>12. BuiltOnce' /\ ActedOnce'
  BY DEF ControlInv, BuiltOnce, ActedOnce, HandleFrame
<1> QED
  BY <1>5, <1>6, <1>9, <1>10, <1>11, <1>12 DEF ControlInv

\* A submission is taken: a record, and a build if it is new.  No command after it has acted,
\* since none was read.
LEMMA SubmitStep ==
  ASSUME ControlInv, HandleFrame, NEW n, NEW m, IsNext(n, m), m.kind = "submit",
         record' = [record EXCEPT ![-m.cmd] = IF @ = "none" THEN "pending" ELSE @],
         building' = IF record[-m.cmd] = "none" THEN building \cup {-m.cmd} ELSE building,
         UNCHANGED <<replies, replay, tasks, cache>>
  PROVE  ControlInv'
<1>1. /\ n \in Nat /\ n \in 1 .. Len(room) /\ Len(room) \in Nat /\ m \in MsgShape /\ SaysWhat(m)
      /\ room[n] = m /\ pos' \in 0 .. Len(room) /\ seen' \subseteq 1 .. Len(room) /\ n \in seen'
  BY NewMessage
<1>2. PICK r \in Runs : m.cmd = -r
  BY <1>1 DEF SaysWhat
<1>3. -m.cmd = r
  BY <1>2, RunsAre
<1>4. record \in [Runs -> {"none", "pending", "failed", "done"}] /\ building \subseteq Runs
  BY DEF ControlInv, TypeOK
<1>5. /\ record' \in [Runs -> {"none", "pending", "failed", "done"}] /\ record'[r] # "none"
      /\ \A q \in Runs : q # r => record'[q] = record[q]
  BY <1>3, <1>4
<1>6. building' \subseteq Runs /\ \A q \in building' : q \in building \/ (q = r /\ record[r] = "none")
  BY <1>3, <1>4
<1>7. UNCHANGED <<limit, version, tracked, job, dying, told, room, rpos, acted, caps, proj, pull, pump, left, hello>>
  BY DEF HandleFrame
<1>8. TypeOK' /\ Shapes'
  BY <1>1, <1>5, <1>6, <1>7 DEF ControlInv, TypeOK, Shapes
<1>9. Grown
  BY <1>8, GrownFact DEF ControlInv
<1>10. Onward
  BY <1>5, <1>7, <1>9 DEF Onward, Grown
<1>11. RoomSays'
  BY <1>7, <1>9, <1>10, RoomStays
<1>12. n = pos + 1
  BY DEF IsNext
<1>13. Recorded(n)'
  BY <1>1, <1>3, <1>5, <1>7 DEF Recorded
<1>14. record[r] = "none" => Own(r)'
  <2> HAVE record[r] = "none"
  <2>1. n \in seen' /\ room'[n].cmd = -r /\ n \in Nat
    BY <1>1, <1>2, <1>7
  <2>2. ASSUME NEW i \in n + 1 .. Len(room), HasActed(i)' PROVE FALSE
    <3>1. i \in 1 .. Len(room) /\ n \in 1 .. i
      BY <1>1, <2>2
    <3>2. HasActed(i)
      BY <1>7, <2>2 DEF HasActed
    <3>3. Recorded(n)
      BY <3>1, <3>2 DEF ControlInv, ActedInOrder
    <3> QED
      BY <1>1, <1>3, <3>3 DEF Recorded
  <2> QED
    BY <1>7, <2>1, <2>2 DEF Own
<1>15. ReadInOrder' /\ ActedInOrder' /\ OwnRuns' /\ CacheOK'
  <2>1. CacheOK'
    BY <1>9, <1>10, CacheStays DEF CacheRight
  <2>2. \A q \in building' : q \in building \/ Own(q)'
    BY <1>6, <1>14
  <2> QED
    BY <1>9, <1>10, <1>12, <1>13, <2>1, <2>2, ReadOn
<1>16. Handlers'
  <2>1. ASSUME NEW t \in tasks PROVE TaskOK(t)'
    <3>1. TakenKept
      BY DEF TakenKept
    <3> QED
      BY <3>1, <1>9, <1>10, TaskCommand, TaskStays DEF ControlInv, Shapes, HandleFrame
  <2> QED
    BY <2>1 DEF ControlInv, Handlers
<1>17. Answered'
  BY <1>7, <1>9, <1>10, AnswersStay
<1>18. Registries'
  BY <1>7, <1>8, <1>9, <1>10, RegistriesStay
<1>19. BuiltOnce' /\ ActedOnce'
  BY <1>5, <1>6, <1>7 DEF ControlInv, BuiltOnce, ActedOnce
<1> QED
  BY <1>8, <1>11, <1>15, <1>16, <1>17, <1>18, <1>19 DEF ControlInv

\* A handler is started for a request that is not answered at once.
Starts(n, m) ==
    /\ m.kind \in Pulls /\ AnswerAtOnce(m) = "" /\ ~Remembered(m)
    /\ tasks' = tasks \cup {Task(n, IF m.kind \in {"control", "status"} THEN "query" ELSE "read", tracked[m.sim])}
    /\ UNCHANGED <<record, building, replies, replay, cache>>

\* A request starts a handler.  Its message has not acted: if it is about a job that is
\* followed, this process has read the submission, and everything after it that acted.
LEMMA StartStep ==
  ASSUME ControlInv, HandleFrame, NEW n, NEW m, IsNext(n, m), Starts(n, m)
  PROVE  ControlInv'
<1>1. /\ n \in Nat /\ n \in 1 .. Len(room) /\ m \in MsgShape /\ room[n] = m /\ n \notin seen
      /\ \A j \in seen : n \in j + 1 .. Len(room)
  BY NewMessage
<1>2. m.cmd \in 1 .. Len(pull) /\ m.sim \in Sims
  BY NewMessage DEF Starts
<1>3. pos' = n /\ seen' = seen \cup {n} /\ pos' \in 0 .. Len(room) /\ seen' \subseteq 1 .. Len(room)
  BY NewMessage
<1>4. m.kind \in {"control", "status"} => tracked[m.sim] \in Runs
  BY <1>2, AtOnce DEF Starts
<1>5. /\ UNCHANGED <<limit, version, tracked, job, dying, told, room, rpos, acted, caps, proj, pull, pump, left, hello>>
      /\ UNCHANGED <<record, building, replies, replay, cache>>
  BY DEF HandleFrame, Starts
<1>6. n = pos + 1
  BY DEF IsNext
<1>8. PICK pc : pc = IF m.kind \in {"control", "status"} THEN "query" ELSE "read"
  OBVIOUS
<1>9. PICK u : u = Task(n, pc, tracked[m.sim])
  OBVIOUS
<1>10. tasks' = tasks \cup {u}
  BY <1>8, <1>9 DEF Starts
<1>11. u \in TaskShape /\ u.at = n /\ u.m = m /\ u.pc = pc /\ u.run = tracked[m.sim]
  <2>1. tracked[m.sim] \in Int
    <3>1. tracked[m.sim] \in Runs \cup {0, -1}
      BY <1>2 DEF ControlInv, TypeOK
    <3>2. \A r \in Runs : r \in Int
      BY RunsAre
    <3> QED
      BY <3>1, <3>2
  <2>2. "" \in Outs /\ "none" \in JobStates /\ pc \in {"query", "act", "send", "read"}
    BY <1>8 DEF Outs, Verdicts, JobStates
  <2> QED
    BY <1>1, <1>9, <2>1, <2>2 DEF Task, TaskShape
<1>12. m.kind = "control" => acted[n] = 0
  <2> HAVE m.kind = "control"
  <2>1. Own(tracked[m.sim])
    BY <1>2, <1>4 DEF ControlInv, OwnRuns
  <2>2. PICK j \in seen : \A i \in j + 1 .. Len(room) : HasActed(i) => i \in seen
    BY <2>1 DEF Own
  <2>3. n \in j + 1 .. Len(room)
    BY <1>1
  <2>4. ~HasActed(n)
    BY <1>1, <2>2, <2>3
  <2>5. acted \in Seq(Nat) /\ Len(acted) = Len(room)
    BY DEF ControlInv, Shapes
  <2>6. acted[n] \in Nat
    BY <1>1, <2>5
  <2> QED
    BY <2>4, <2>6 DEF HasActed
<1>13. TypeOK' /\ Shapes'
  <2>2. \A w \in tasks' : w.pc \in {"query", "act", "send", "read"} /\ (w.pc \in {"query", "act"} => w.run \in Runs)
    BY <1>4, <1>8, <1>10, <1>11 DEF ControlInv, TypeOK
  <2>3. tasks' \in SUBSET TaskShape
    BY <1>10, <1>11 DEF ControlInv, Shapes
  <2>4. TypeOK'
    BY <1>3, <1>5, <2>2 DEF ControlInv, TypeOK
  <2>5. Shapes'
    BY <1>3, <1>5, <2>3 DEF ControlInv, Shapes
  <2> QED
    BY <2>4, <2>5
<1>14. Grown
  BY <1>13, GrownFact DEF ControlInv
<1>15. Onward
  BY <1>5, <1>14, OnwardStill
<1>16. RoomSays'
  BY <1>5, <1>14, <1>15, RoomStays
<1>17. ReadInOrder' /\ ActedInOrder' /\ OwnRuns' /\ CacheOK'
  <2>1. Recorded(n)'
    BY <1>1, <1>5 DEF Recorded, Pulls, Starts
  <2>2. CacheOK'
    BY <1>5, <1>14, <1>15, CacheStays DEF CacheRight
  <2> QED
    BY <1>5, <1>6, <1>14, <1>15, <2>1, <2>2, ReadOn
<1>18. Handlers'
  <2>1. ASSUME NEW t \in tasks PROVE TaskOK(t)' /\ t.at # n
    <3>1. TakenKept
      BY <1>5 DEF TakenKept
    <3>2. TaskOK(t)'
      BY <3>1, <1>14, <1>15, TaskCommand, TaskStays DEF ControlInv, Shapes, HandleFrame
    <3>3. t.at \in seen
      BY TaskCommand
    <3> QED
      BY <1>1, <3>2, <3>3
  <2>2. TaskOK(u)'
    <3>1. u.at \in seen' /\ room'[u.at] = u.m
      BY <1>1, <1>3, <1>5, <1>11
    <3>6. BeganBefore(u)'
      <4>1. m.kind = "control" => m.cmd \notin DOMAIN cache
        <5> HAVE m.kind = "control"
        <5>1. AnswerAtOnce(m) = "" /\ ~Remembered(m)
          BY DEF Starts
        <5>2. Rejection(m) = ""
          BY <5>1 DEF AnswerAtOnce
        <5> QED
          BY <5>1, <5>2 DEF Remembered
      <4> QED
        BY <1>5, <1>11, <4>1 DEF BeganBefore
    <3>2. pc = "query" => u.run \in Runs /\ Rank[job[u.run]] >= 1
      BY <1>2, <1>4, <1>8, <1>11 DEF ControlInv, BuiltOnce
    <3>3. pc = "read" <=> m.kind \in {"logs", "result"}
      BY <1>8 DEF Pulls, Starts
    <3>4. pc \in {"query", "read"}
      BY <1>8
    <3>5. m.kind \in Pulls
      BY DEF Starts
    <3> QED
      BY <1>5, <1>11, <1>12, <3>1, <3>2, <3>3, <3>4, <3>5, <3>6 DEF TaskOK
  <2>3. \A t, w \in tasks : t.at = w.at => t = w
    BY DEF ControlInv, Handlers
  <2> QED
    BY <1>10, <1>11, <2>1, <2>2, <2>3 DEF Handlers
<1>19. Answered'
  BY <1>5, <1>14, <1>15, AnswersStay
<1>20. Registries'
  BY <1>5, <1>13, <1>14, <1>15, RegistriesStay
<1>21. BuiltOnce' /\ ActedOnce'
  BY <1>5 DEF ControlInv, BuiltOnce, ActedOnce
<1> QED
  BY <1>13, <1>16, <1>17, <1>18, <1>19, <1>20, <1>21 DEF ControlInv

\* The client reads the next message of the room.
LEMMA ReceiveStep == ASSUME ControlInv, Receive PROVE ControlInv'
<1>1. /\ pos < Len(room) /\ pos' = pos + 1 /\ seen' = seen \cup {pos + 1}
      /\ UNCHANGED <<limit, version, tracked, job, dying, told, room, rpos, acted>>
      /\ UNCHANGED <<caps, proj, pull, pump, left, hello>>
  BY DEF Receive, jobs, serverMem
<1>2. CASE pos + 1 \in seen
  BY <1>1, <1>2, SkipStep DEF Receive, sent
<1>3. CASE pos + 1 \notin seen
  <2>1. HandleFrame
    BY <1>1, <1>3 DEF HandleFrame
  <2>2. PICK n, m : n = pos + 1 /\ m = room[n]
    OBVIOUS
  <2>3. IsNext(n, m)
    BY <2>2 DEF IsNext
  <2>4. Handle(n) /\ room[n] = m
    BY <1>3, <2>2 DEF Receive
  <2>5. m \in MsgShape
    BY <2>1, <2>3, NewMessage
  <2>6. CASE m.kind = "hello"
    <3>1. SendReply(Reply(m, version, 0, "none")) /\ UNCHANGED <<record, building, tasks, cache>>
      BY <2>4, <2>6 DEF Handle, Remembered, Pulls
    <3>2. version \in Outs /\ version \in Versions /\ m.kind # "submit"
      BY <2>6 DEF ControlInv, TypeOK, Outs
    <3>3. PICK a : a = Reply(m, version, 0, "none")
      OBVIOUS
    <3>4. a \in ReplyShape /\ ReplyOK(a)
      BY <2>5, <2>6, <3>2, <3>3, ReplyAtOnce DEF Pulls
    <3> QED
      BY <2>1, <2>3, <3>1, <3>2, <3>3, <3>4, AnswerStep
  <2>7. CASE m.kind = "submit"
    <3>1. /\ record' = [record EXCEPT ![-m.cmd] = IF @ = "none" THEN "pending" ELSE @]
          /\ building' = IF record[-m.cmd] = "none" THEN building \cup {-m.cmd} ELSE building
          /\ UNCHANGED <<replies, replay, tasks, cache>>
      BY <2>4, <2>7 DEF Handle, Remembered, sent, Pulls
    <3> QED
      BY <2>1, <2>3, <2>7, <3>1, SubmitStep
  <2>8. CASE m.kind \in Pulls
    <3>1. m.kind \notin {"hello", "submit"}
      BY <2>8 DEF Pulls
    <3>2. PICK now : now = AnswerAtOnce(m)
      OBVIOUS
    <3>3. CASE Remembered(m)
      <4>1. PICK a : a = cache[m.cmd].ack
        OBVIOUS
      <4>2. SendReply(a) /\ UNCHANGED <<record, building, tasks, cache>>
        BY <2>4, <3>1, <3>3, <4>1 DEF Handle, Remembered
      <4>3. a \in ReplyShape /\ ReplyOK(a)
        BY <3>3, <4>1 DEF Remembered, ControlInv, CacheOK
      <4> QED
        BY <2>1, <2>3, <3>1, <4>2, <4>3, AnswerStep
    <3>4. CASE now # "" /\ ~Remembered(m)
      <4>1. PICK a : a = Reply(m, now, 0, "none")
        OBVIOUS
      <4>2. SendReply(a) /\ cache' = Cached(a) /\ UNCHANGED <<record, building, tasks>>
        BY <2>4, <2>8, <3>1, <3>2, <3>4, <4>1 DEF Handle
      <4>3. now \in Outs /\ now \notin {"ok", "state"}
        <5>1. m.sim \in Sims
          BY <2>1, <2>3, <2>8, NewMessage
        <5> QED
          BY <2>8, <3>2, <5>1, AtOnce DEF Outs
      <4>4. a \in ReplyShape /\ ReplyOK(a)
        BY <2>5, <2>8, <3>1, <4>1, <4>3, ReplyAtOnce
      <4> QED
        BY <2>1, <2>3, <3>1, <4>2, <4>4, AnswerStep
    <3>5. CASE now = "" /\ ~Remembered(m)
      <4>1. Starts(n, m)
        BY <2>4, <2>8, <3>1, <3>2, <3>5 DEF Handle, Starts, sent
      <4> QED
        BY <2>1, <2>3, <4>1, StartStep
    <3> QED
      BY <3>3, <3>4, <3>5
  <2> QED
    BY <2>5, <2>6, <2>7, <2>8 DEF MsgShape
<1> QED
  BY <1>2, <1>3
-----------------------------------------------------------------------------
(* The theorems. *)

\* The invariant holds at the start.
LEMMA InitControl == Init => ControlInv
<1> SUFFICES ASSUME Init PROVE ControlInv
  OBVIOUS
<1>1. /\ limit \in Limits /\ version \in limit.versions
      /\ record = [r \in Runs |-> "none"] /\ tracked = [s \in Sims |-> 0] /\ building = {}
      /\ seen = {} /\ cache = <<>> /\ tasks = {} /\ job = [r \in Runs |-> "none"]
      /\ room = <<>> /\ pos = 0 /\ replies = <<>> /\ rpos = 0 /\ replay = Unread
      /\ caps = "unknown" /\ proj = [s \in Sims |-> NoReply]
      /\ pull = <<>> /\ pump = 0 /\ acted = <<>> /\ left = {} /\ dying = {}
  BY DEF Init
<1>2. version \in Versions
  BY <1>1, LimitAssumption
<1>3. "none" \in DOMAIN Rank
  BY DEF Rank
<1>4. TypeOK
  BY <1>1, <1>2, <1>3 DEF TypeOK
<1>5. proj \in [Sims -> Shown] /\ Unread \in ViewShape /\ \A s \in Sims : Unread.proj[s] = NoReply
  BY <1>1 DEF Unread, ViewShape, Shown
<1>6. Shapes
  BY <1>1, <1>5 DEF Shapes
<1>7. RoomSays /\ ReadInOrder /\ ActedInOrder
  BY <1>1 DEF RoomSays, ReadInOrder, ActedInOrder
<1>8. OwnRuns /\ BuiltOnce
  <2>1. \A s \in Sims : tracked[s] \notin Runs
    BY <1>1, LimitAssumption
  <2> QED
    BY <1>1, <2>1 DEF OwnRuns, BuiltOnce
<1>9. CacheOK /\ Handlers /\ ActedOnce
  BY <1>1 DEF CacheOK, Handlers, ActedOnce
<1>10. Answered
  BY <1>1 DEF Answered
<1>11. Registries
  <2>1. NoReply.run = 0 /\ Len(pull) = 0
    BY <1>1 DEF NoReply
  <2>2. JobReached(NoReply)
    BY <2>1 DEF JobReached
  <2>3. \A s \in Sims : proj[s] = NoReply /\ replay.proj[s] = NoReply
    BY <1>1, <1>5
  <2>4. \A s \in Sims : JobReached(proj[s]) /\ JobReached(replay.proj[s])
    BY <2>2, <2>3
  <2> QED
    BY <2>1, <2>4 DEF Registries
<1> QED
  BY <1>4, <1>6, <1>7, <1>8, <1>9, <1>10, <1>11 DEF ControlInv

\* Every step keeps it.
LEMMA ControlInvKept == ControlInv /\ [Next]_vars => ControlInv'
<1> SUFFICES ASSUME ControlInv, [Next]_vars PROVE ControlInv'
  OBVIOUS
<1>1. CASE Serve
  BY <1>1, ReceiveStep, QueryStep, ActStep, SendStep, ReadStep DEF Serve
<1>2. CASE \/ Route \/ Redeliver \/ ComesAgain \/ ClientRestart \/ ServerRestart
         \/ HelloAttempt \/ HelloEnds \/ HumanStop \/ StopNext
  BY <1>2, RouteStep, RedeliverStep, ComesAgainStep, ClientRestartStep, ServerRestartStep, HelloAttemptStep,
     HelloEndsStep, HumanStopStep, StopNextStep
<1>3. CASE \E r \in Runs : SendSubmit(r) \/ BuildEnds(r) \/ JobMoves(r) \/ Follow(r)
  BY <1>3, SendSubmitStep, BuildEndsStep, JobMovesStep, FollowStep
<1>4. CASE \E s \in Sims : \/ AskStatus(s) \/ AskLogs(s) \/ AskResult(s) \/ HumanPng(s)
                          \/ \E op \in ControlOps : AskControl(s, op)
  <2>1. PICK s \in Sims : \E kind, op, human : Ask(kind, s, op, human)
    BY <1>4 DEF AskStatus, AskLogs, AskResult, HumanPng, AskControl
  <2> QED
    BY <2>1, AskStep
<1>5. CASE \E c \in DOMAIN pull : PullTimeout(c)
  BY <1>5, PullTimeoutStep
<1>6. CASE UNCHANGED vars
  <2>1. /\ UNCHANGED <<limit, version, record, job, dying, pos, rpos, acted, room, replies, replay>>
        /\ UNCHANGED <<tracked, building, seen, cache, tasks>> /\ UNCHANGED <<caps, proj, pull, pump, left>>
    BY <1>6 DEF vars, clientMem, jobs, serverMem, sent
  <2> QED
    BY <2>1, IdleStep DEF ControlInv, TypeOK
<1> QED
  BY <1>1, <1>2, <1>3, <1>4, <1>5, <1>6 DEF Next

\* It always holds.
LEMMA ControlInvAlways == Spec => []ControlInv
BY InitControl, ControlInvKept, PTL DEF Spec

\* A message with a control command reaches the scheduler at most once, however often it is
\* delivered and whichever process reads it; a command that comes in another envelope after
\* this process has answered it does not; and one answered ok was taken by the scheduler,
\* which ends a cancelled job (_handle_control, _send_control_ack).
THEOREM ControlActsExactly == Spec => []ControlIsExact
<1>1. ControlInv => ControlIsExact
  <2> SUFFICES ASSUME ControlInv PROVE ControlIsExact
    OBVIOUS
  <2>1. AnsweredIsOver
    BY DEF ControlInv, Handlers, TaskOK, BeganBefore, AnsweredIsOver
  <2>2. OkMeansActed
    <3> SUFFICES ASSUME NEW c \in DOMAIN pull,
                        pull[c].st = "answered", pull[c].kind = "control", pull[c].ans.out = "ok"
                 PROVE  Taken(c) /\ (pull[c].op = "cancel" => pull[c].ans.run \in dying)
      BY DEF OkMeansActed
    <3>1. c \in 1 .. Len(pull) /\ DOMAIN room = 1 .. Len(room)
      BY DEF ControlInv, Shapes
    <3>2. pull[c].ans.kind = "control" /\ pull[c].ans.cmd = c /\ ReplyOK(pull[c].ans)
      BY <3>1 DEF ControlInv, Answered
    <3>3. CarriedOut(c, pull[c].ans.run)
      BY <3>2 DEF ReplyOK
    <3> QED
      BY <3>1, <3>3 DEF CarriedOut, Reached, Taken
  <2> QED
    BY <2>1, <2>2 DEF ControlInv, ControlIsExact
<1> QED
  BY <1>1, ControlInvAlways, PTL

\* The live status a tool overlays on a record is never older than the record, in whatever
\* order the acks of the handlers and the events of the follower arrive (_status_tool,
\* _merge_status).
THEOREM StatusNeverStale == Spec => []StatusNotStale
<1>1. ControlInv => StatusNotStale
  <2> SUFFICES ASSUME ControlInv, NEW c \in DOMAIN pull,
                      pull[c].st = "answered", pull[c].ans.out = "state", pull[c].ans.run = pull[c].base.run
               PROVE  Rank[pull[c].ans.st] >= Rank[pull[c].base.st]
    BY DEF StatusNotStale
  <2>1. c \in 1 .. Len(pull) /\ pull[c] \in PullShape
    BY DEF ControlInv, Shapes
  <2>2. pull[c].ans.kind \in Pulls /\ pull[c].ans.cmd = c /\ ReplyOK(pull[c].ans)
    BY <2>1 DEF ControlInv, Answered, PullShape
  <2>3. NotOlder(c, pull[c].ans.run, pull[c].ans.st)
    BY <2>2 DEF ReplyOK
  <2> QED
    BY <2>3 DEF NotOlder
<1> QED
  BY <1>1, ControlInvAlways, PTL
=============================================================================
