--------------------------- MODULE SimClientProofs ---------------------------
(***************************************************************************)
(* Theorems about SimClient, for every set of commands, every room, every  *)
(* number of tasks and processes and every bound on faults: its types; one *)
(* job per submission; one watcher per simulation while it serves, and     *)
(* none after serve() has returned; and, while its memory is sound, that a *)
(* command is executed once and answered consistently, so that the client  *)
(* implements CommandLedger.                                               *)
(***************************************************************************)
EXTENDS SimClient, SequenceTheorems, FiniteSetTheorems, TLAPS

-----------------------------------------------------------------------------
(* The store. *)

\* The placeholder record is a record.
LEMMA NoRecordType == NoRecord \in ProcessedCommand
  BY StoreAssumption DEF NoRecord, ProcessedCommand, RecordStates

\* The store of a first start is a store.
LEMMA EmptyStoreType == EmptyStore \in Store
  BY NoRecordType DEF EmptyStore, Store

\* Restricting records to some ids gives records.
LEMMA KeepOnlyType ==
  ASSUME NEW recs \in [CmdIds -> ProcessedCommand], NEW order
  PROVE  KeepOnly(recs, order) \in [CmdIds -> ProcessedCommand]
  BY NoRecordType DEF KeepOnly

\* _persist_processed returns a store, however the write ends.
LEMMA PersistType ==
  ASSUME NEW s \in Store, NEW id \in CmdIds, NEW r \in ProcessedCommand, NEW w
  PROVE  Persist(s, id, r, w) \in Store
<1>1. CASE w \in {"fail", "torn"}
  BY <1>1 DEF Persist, Store
<1>2. CASE ~(w \in {"fail", "torn"})
  <2> DEFINE a == AppendLine(s, id, r)
  <2>1. /\ KeyOrder(s.order, s.mem, id) \in Seq(CmdIds)
        /\ KeyOrder(s.diskOrder, s.disk, id) \in Seq(CmdIds)
    BY DEF KeyOrder, Store
  <2>2. a \in Store
    BY <2>1 DEF AppendLine, Store
  <2>3. CASE Len(a.order) > MaxProcessed
    <3>1. a.order \in Seq(CmdIds) /\ a.mem \in [CmdIds -> ProcessedCommand]
      BY <2>2 DEF Store
    <3> HIDE DEF a
    <3>2. Recent(a.order) \in Seq(CmdIds)
      BY <3>1, <2>3, StoreAssumption DEF Recent
    <3>3. KeepOnly(a.mem, Recent(a.order)) \in [CmdIds -> ProcessedCommand]
      BY <3>1, KeepOnlyType
    <3>4. RewriteProcessed(a, w = "ok") \in Store
      BY <2>2, <3>2, <3>3 DEF RewriteProcessed, Store
    <3> QED
      BY <1>2, <2>3, <3>4 DEF Persist, a
  <2>4. CASE ~(Len(a.order) > MaxProcessed)
    BY <1>2, <2>2, <2>4 DEF Persist
  <2> QED
    BY <2>3, <2>4
<1> QED
  BY <1>1, <1>2

\* Reading the file back gives a store.
LEMMA LoadType ==
  ASSUME NEW s \in Store, NEW readable PROVE Load(s, readable) \in Store
  BY EmptyStoreType DEF Load, Store

-----------------------------------------------------------------------------
(* Tasks. *)

\* Every command a task can work on has an id and a hash of the right kind.
LEMMA CommandFields ==
  ASSUME NEW c \in Commands
  PROVE  c.id \in CmdIds /\ c.hash \in Hashes /\ c.kind \in {"submit", "hello"}
  BY ClientAssumption

\* Building an ack from its parts gives an ack.
LEMMA AckType ==
  ASSUME NEW id \in CmdIds, NEW st \in AckStates, NEW job \in BOOLEAN
  PROVE  Ack(id, st, job) \in Acks
  BY DEF Ack, Acks

\* A free slot is a task.
LEMMA IdleTaskType == IdleTask \in Task /\ IdleTask.pc = "idle"
<1> DEFINE any == CHOOSE c \in Commands : TRUE
<1>1. any \in Commands
  BY ClientAssumption
<1>2. Ack(any.id, "unknown", FALSE) \in Acks
  BY <1>1, CommandFields, AckType DEF AckStates
<1> HIDE DEF any
<1>3. [pc |-> "idle", cmd |-> any, reply |-> Ack(any.id, "unknown", FALSE),
       hasJob |-> FALSE, prev |-> NoCmd] \in Task
  BY <1>1, <1>2 DEF Task, PC
<1> QED
  BY <1>3 DEF IdleTask, any

\* The fields of a task.
LEMMA TaskFields ==
  ASSUME task \in [Tasks -> Task], NEW t \in Tasks
  PROVE  /\ task[t] \in Task /\ task[t].pc \in PC /\ task[t].cmd \in Commands
         /\ task[t].reply \in Acks /\ task[t].hasJob \in BOOLEAN
         /\ task[t].prev \in Commands \cup {NoCmd}
         /\ IdOf(t) \in CmdIds /\ SimOf(t) \in Hashes /\ CmdOf(t) \in Commands
<1>1. /\ task[t] \in Task /\ task[t].pc \in PC /\ task[t].cmd \in Commands
      /\ task[t].reply \in Acks /\ task[t].hasJob \in BOOLEAN
      /\ task[t].prev \in Commands \cup {NoCmd}
  BY DEF Task
<1> QED
  BY <1>1, CommandFields DEF IdOf, SimOf, CmdOf

\* A task that moves to another await keeps everything else.
LEMMA GotoType ==
  ASSUME task \in [Tasks -> Task], NEW t \in Tasks, NEW where \in PC, Goto(t, where)
  PROVE  /\ task' \in [Tasks -> Task]
         /\ task'[t].pc = where /\ task'[t].cmd = task[t].cmd
         /\ \A u \in Tasks : u # t => task'[u] = task[u]
  BY DEF Goto, Task

\* A task that ends leaves a free slot and touches no other.
LEMMA EndTaskType ==
  ASSUME task \in [Tasks -> Task], NEW t \in Tasks, EndTask(t)
  PROVE  /\ task' \in [Tasks -> Task]
         /\ task'[t].pc = "idle"
         /\ \A u \in Tasks : u # t => task'[u] = task[u]
  BY IdleTaskType DEF EndTask

\* A task that takes up a command awaits where it is told to, on that command.
LEMMA AnswerType ==
  ASSUME task \in [Tasks -> Task], NEW t \in Tasks, NEW c \in Commands,
         NEW where \in PC, NEW ack \in Acks, Answer(t, c, where, ack)
  PROVE  /\ task' \in [Tasks -> Task]
         /\ task'[t].pc = where /\ task'[t].cmd = c
         /\ \A u \in Tasks : u # t => task'[u] = task[u]
<1>1. [IdleTask EXCEPT !.pc = where, !.cmd = c, !.reply = ack] \in Task
  BY IdleTaskType DEF Task
<1>2. /\ [IdleTask EXCEPT !.pc = where, !.cmd = c, !.reply = ack].pc = where
      /\ [IdleTask EXCEPT !.pc = where, !.cmd = c, !.reply = ack].cmd = c
  BY IdleTaskType DEF Task
<1> QED
  BY <1>1, <1>2 DEF Answer

\* Fault counters stay counters.
LEMMA FaultTypes ==
  ASSUME faults \in [FaultKinds -> Nat]
  PROVE  /\ \A k \in FaultKinds : Spend(k) \in [FaultKinds -> Nat]
         /\ \A n \in Nat : DiskAccess(n) => faults' \in [FaultKinds -> Nat]
         /\ \A w : Cost(w) \in Nat
  BY DEF Spend, DiskAccess, Cost, FaultKinds

-----------------------------------------------------------------------------
(* Type correctness. *)

\* The initial state is well typed.
LEMMA TypeInit == Init => TypeOK
<1> SUFFICES ASSUME Init PROVE TypeOK
  OBVIOUS
<1>1. room \in Seq(Commands)
  BY ClientAssumption DEF Init
<1>2. faults \in [FaultKinds -> Nat] /\ jobs \in [Commands -> Nat] /\ execs \in [CmdIds -> Nat]
  BY DEF Init
<1>3. watcher \in [Commands -> {"none", "live", "cancelling", "done"}]
  BY DEF Init
<1> QED
  BY <1>1, <1>2, <1>3, EmptyStoreType, IdleTaskType DEF Init, TypeOK, Modes

\* The records a handler writes are records.
LEMMA RecordType ==
  ASSUME NEW st \in {"pending", "finished", "failed"}, NEW h \in Hashes, NEW j \in BOOLEAN
  PROVE  [st |-> st, hash |-> h, job |-> j] \in ProcessedCommand
  BY DEF ProcessedCommand, RecordStates

\* Writing the pending record gives a store.
LEMMA PendingStoreType ==
  ASSUME NEW s \in Store, NEW c \in Commands, NEW w
  PROVE  PendingStore(s, c, w) \in Store
  BY CommandFields, RecordType, PersistType DEF PendingStore

\* Receiving a command: _accepts, the idempotency check and the first record.
LEMMA TypeDeliver ==
  ASSUME TypeOK, NEW t \in Tasks, NEW e \in 1 .. Len(room), Deliver(t, e)
  PROVE  TypeOK'
<1> DEFINE c == room[e]
<1>1. c \in Commands /\ e \in Nat
  BY DEF TypeOK
<1> HIDE DEF c
<1>2. c.id \in CmdIds /\ c.hash \in Hashes /\ store.mem[c.id] \in ProcessedCommand
  BY <1>1, CommandFields DEF TypeOK, Store
<1>3. seen' \in Seq(Nat)
  <2>1. seen \in Seq(Nat)
    BY DEF TypeOK
  <2>2. Append(seen, e) \in Seq(Nat) /\ Append(seen, e) # <<>>
    BY <1>1, <2>1, AppendProperties
  <2>3. Tail(Append(seen, e)) \in Seq(Nat)
    BY <2>2, HeadTailProperties
  <2> QED
    BY <2>2, <2>3 DEF Deliver, Remember
<1>4. store' \in Store /\ task' \in [Tasks -> Task] /\ faults' \in [FaultKinds -> Nat]
      /\ execs' \in [CmdIds -> Nat]
  <2>1. CASE Replay(t, c) /\ UNCHANGED execs
    <3>1. ReplayAck(c, store.mem[c.id]) \in Acks
      BY <1>2, <2>1, AckType
      DEF ReplayAck, Replay, Known, IsRecord, ProcessedCommand, RecordStates, AckStates
    <3> QED
      BY <1>1, <2>1, <3>1, AnswerType DEF Replay, TypeOK, PC, DispatchPC
  <2>2. CASE BeginHello(t, c) /\ execs' = [execs EXCEPT ![c.id] = @ + 1]
    BY <1>1, <1>2, <2>2, AnswerType, PendingStoreType, FaultTypes, IdleTaskType
    DEF BeginHello, TypeOK, PC, DispatchPC, Task
  <2>3. CASE BeginSubmit(t, c) /\ execs' = [execs EXCEPT ![c.id] = @ + 1]
    <3>1. Ack(c.id, "accepted", FALSE) \in Acks
      BY <1>2, AckType DEF AckStates
    <3>2. store' \in Store /\ faults' \in [FaultKinds -> Nat]
      BY <1>1, <2>3, PendingStoreType, FaultTypes DEF BeginSubmit, TypeOK
    <3>3. task' \in [Tasks -> Task]
      BY <1>1, <2>3, <3>1, AnswerType DEF BeginSubmit, TypeOK, PC, DispatchPC
    <3> QED
      BY <1>2, <2>3, <3>2, <3>3 DEF TypeOK
  <2>4. CASE RejectSubmit(t, c) /\ execs' = [execs EXCEPT ![c.id] = @ + 1]
    <3>1. Ack(c.id, "failed", FALSE) \in Acks
      BY <1>2, AckType DEF AckStates
    <3>2. PICK w, v \in WriteOutcomes :
             /\ DiskAccess(Cost(w) + Cost(v))
             /\ store' = Persist(PendingStore(store, c, w), c.id,
                                 [st |-> "failed", hash |-> c.hash, job |-> FALSE], v)
      BY <2>4 DEF RejectSubmit
    <3>3. store' \in Store
      BY <1>1, <1>2, <3>2, PendingStoreType, RecordType, PersistType DEF TypeOK
    <3>4. Cost(w) + Cost(v) \in Nat
      BY DEF Cost
    <3>5. faults' \in [FaultKinds -> Nat]
      BY <3>2, <3>4, FaultTypes DEF TypeOK
    <3>6. task' \in [Tasks -> Task]
      BY <1>1, <2>4, <3>1, AnswerType DEF RejectSubmit, TypeOK, PC, DispatchPC
    <3> QED
      BY <1>2, <2>4, <3>3, <3>5, <3>6 DEF TypeOK
  <2> QED
    BY <2>1, <2>2, <2>3, <2>4 DEF Deliver, c, Replay
<1> QED
  BY <1>3, <1>4 DEF Deliver, TypeOK, jobVars, watchVars

\* Installing, replacing or skipping a watcher keeps the types.
LEMMA TypeFollower ==
  ASSUME TypeOK, NEW t \in Tasks, StartFollower(t) \/ ReplaceWatcher(t) \/ Install(t)
  PROVE  /\ task' \in [Tasks -> Task]
         /\ slot' \in [Hashes -> Commands \cup {NoCmd}]
         /\ watcher' \in [Commands -> {"none", "live", "cancelling", "done"}]
<1> DEFINE Goal == /\ task' \in [Tasks -> Task]
                   /\ slot' \in [Hashes -> Commands \cup {NoCmd}]
                   /\ watcher' \in [Commands -> {"none", "live", "cancelling", "done"}]
<1>0. /\ SimOf(t) \in Hashes /\ task[t].cmd \in Commands /\ task[t] \in Task
      /\ task \in [Tasks -> Task]
      /\ slot \in [Hashes -> Commands \cup {NoCmd}]
      /\ watcher \in [Commands -> {"none", "live", "cancelling", "done"}]
  BY TaskFields DEF TypeOK
<1>1. ASSUME Install(t) PROVE Goal
  BY <1>0, <1>1, EndTaskType DEF Install
<1>2. ASSUME ReplaceWatcher(t) PROVE Goal
  <2> DEFINE p == slot[SimOf(t)]
  <2>1. CASE p # NoCmd /\ watcher[p] = "live"
    <3>1. p \in Commands
      BY <1>0, <2>1
    <3>2. task' = [task EXCEPT ![t].pc = "followCancel", ![t].prev = p]
      BY <1>2, <2>1 DEF ReplaceWatcher
    <3> HIDE DEF p
    <3>3. task' \in [Tasks -> Task]
      BY <1>0, <3>1, <3>2 DEF Task, PC, SubmitPC, BuildPC
    <3> QED
      BY <1>0, <1>2, <2>1, <3>1, <3>3 DEF ReplaceWatcher, p
  <2>2. CASE ~(p # NoCmd /\ watcher[p] = "live")
    BY <1>1, <1>2, <2>2 DEF ReplaceWatcher
  <2> QED
    BY <2>1, <2>2
<1>3. ASSUME StartFollower(t) PROVE Goal
  <2>1. CASE mode # "serving"
    BY <1>0, <1>3, <2>1, EndTaskType DEF StartFollower, watchVars
  <2>2. CASE mode = "serving" /\ LockHeld(SimOf(t))
    BY <1>0, <1>3, <2>2, GotoType DEF StartFollower, watchVars, PC, SubmitPC, BuildPC
  <2>3. CASE mode = "serving" /\ ~LockHeld(SimOf(t))
    BY <1>2, <1>3, <2>3 DEF StartFollower
  <2> QED
    BY <2>1, <2>2, <2>3
<1> QED
  BY <1>1, <1>2, <1>3

\* The steps of a dispatched handler after the first, and its death.
LEMMA TypeHandler ==
  ASSUME TypeOK, NEW t \in Tasks, Handler(t) \/ TaskRaises(t) \/ CancelDispatch(t)
  PROVE  TypeOK'
<1> USE DEF netVars, storeVars, jobVars, watchVars
<1>0. /\ task \in [Tasks -> Task] /\ task[t].reply \in Acks
      /\ IdOf(t) \in CmdIds /\ SimOf(t) \in Hashes /\ CmdOf(t) \in Commands
  BY TaskFields DEF TypeOK
<1>1. CASE SendAck(t)
  BY <1>0, <1>1, EndTaskType DEF SendAck, TypeOK
<1>2. CASE SendAccepted(t)
  BY <1>0, <1>2, GotoType DEF SendAccepted, TypeOK, PC, SubmitPC
<1>3. CASE HelloSbatch(t)
  BY <1>0, <1>3, GotoType DEF HelloSbatch, TypeOK, PC, DispatchPC
<1>4. CASE HelloResult(t)
  <2> DEFINE j == At(t) = "helloWait"
  <2>1. PICK st \in {"finished", "failed"}, w \in WriteOutcomes :
           /\ DiskAccess(Cost(w))
           /\ store' = Persist(store, IdOf(t),
                               [st |-> st, hash |-> SimOf(t), job |-> j], w)
           /\ task' = [task EXCEPT ![t].pc = "ack", ![t].reply = Ack(IdOf(t), st, j)]
    BY <1>4 DEF HelloResult, Completed
  <2>2. j \in BOOLEAN
    OBVIOUS
  <2> HIDE DEF j
  <2>3. store' \in Store /\ faults' \in [FaultKinds -> Nat]
    BY <1>0, <2>1, <2>2, RecordType, PersistType, FaultTypes DEF TypeOK
  <2>4. Ack(IdOf(t), st, j) \in Acks
    BY <1>0, <2>2, AckType DEF AckStates
  <2>5. task' \in [Tasks -> Task]
    BY <1>0, <2>1, <2>4 DEF Task, PC, DispatchPC
  <2> QED
    BY <1>4, <2>3, <2>5 DEF HelloResult, TypeOK
<1>5. CASE TaskRaises(t)
  BY <1>0, <1>5, EndTaskType, FaultTypes DEF TaskRaises, TypeOK, FaultKinds
<1>6. CASE CancelDispatch(t)
  BY <1>0, <1>6, EndTaskType DEF CancelDispatch, TypeOK
<1> QED
  BY <1>1, <1>2, <1>3, <1>4, <1>5, <1>6 DEF Handler

\* The steps of a build and of the hand-over to its watcher.
LEMMA TypeBuild ==
  ASSUME TypeOK, NEW t \in Tasks, Build(t) \/ CancelSubmit(t)
  PROVE  TypeOK'
<1> USE DEF netVars, storeVars, jobVars, watchVars
<1>0. /\ task \in [Tasks -> Task] /\ task[t].hasJob \in BOOLEAN
      /\ IdOf(t) \in CmdIds /\ SimOf(t) \in Hashes /\ CmdOf(t) \in Commands
  BY TaskFields DEF TypeOK
<1>p. {"generate", "workflow", "sbatched", "submitted", "finish", "record", "fail",
       "recordFail"} \subseteq PC
  BY DEF PC, SubmitPC, BuildPC
<1>e. At(t) \in DOMAIN EmitStep
        => Event(IdOf(t), EmitStep[At(t)].st) \in Events /\ EmitStep[At(t)].next \in PC
  BY <1>0, <1>p DEF EmitStep, Event, Events, EventStates
<1>1. CASE AcquireBuild(t)
  BY <1>0, <1>1, <1>p, GotoType DEF AcquireBuild, TypeOK
<1>2. CASE Generate(t)
  BY <1>0, <1>2, <1>p, GotoType DEF Generate, TypeOK
<1>3. CASE Sbatch(t)
  BY <1>0, <1>3, <1>p, GotoType DEF Sbatch, TypeOK
<1>4. CASE WorkflowFails(t)
  BY <1>0, <1>4, <1>p, GotoType DEF WorkflowFails, TypeOK
<1>5. CASE WorkflowReturns(t)
  <2>1. PICK found \in BOOLEAN :
          task' = [task EXCEPT ![t].hasJob = found,
                               ![t].pc = IF found THEN "submitted" ELSE "finish"]
    BY <1>5 DEF WorkflowReturns
  <2>2. task' \in [Tasks -> Task]
    BY <1>0, <1>p, <2>1, ZenonT(60) DEF Task
  <2> QED
    BY <1>5, <2>2 DEF WorkflowReturns, TypeOK
<1>6. CASE Emit(t)
  BY <1>0, <1>6, <1>e, GotoType DEF Emit, TypeOK
<1>7. CASE RecordFailure(t)
  <2>1. PICK w \in WriteOutcomes :
          /\ DiskAccess(Cost(w))
          /\ store' = Persist(store, IdOf(t),
                              [st |-> "failed", hash |-> SimOf(t), job |-> FALSE], w)
    BY <1>7 DEF RecordFailure
  <2>2. [st |-> "failed", hash |-> SimOf(t), job |-> FALSE] \in ProcessedCommand
    BY <1>0, RecordType
  <2>3. store' \in Store /\ faults' \in [FaultKinds -> Nat]
    BY <1>0, <2>1, <2>2, PersistType, FaultTypes DEF TypeOK
  <2> QED
    BY <1>0, <1>7, <2>3, EndTaskType DEF RecordFailure, TypeOK
<1>8. CASE RecordFinished(t)
  <2>1. PICK w \in WriteOutcomes :
          /\ DiskAccess(Cost(w))
          /\ store' = Persist(store, IdOf(t), [st |-> "finished", hash |-> SimOf(t),
                                              job |-> task[t].hasJob], w)
    BY <1>8 DEF RecordFinished
  <2>2. [st |-> "finished", hash |-> SimOf(t), job |-> task[t].hasJob] \in ProcessedCommand
    BY <1>0, RecordType
  <2>3. store' \in Store /\ faults' \in [FaultKinds -> Nat]
    BY <1>0, <2>1, <2>2, PersistType, FaultTypes DEF TypeOK
  <2> QED
    BY <1>0, <1>8, <2>3, TypeFollower DEF RecordFinished, TypeOK
<1>9. CASE FollowLocked(t) \/ FollowReplaced(t)
  BY <1>0, <1>9, TypeFollower DEF FollowLocked, FollowReplaced, TypeOK
<1>10. CASE CancelSubmit(t)
  <2>1. orphan' \in [Commands -> SUBSET {"generate", "workflow", "child"}]
    BY <1>0, <1>10 DEF CancelSubmit, TypeOK
  <2>2. events' \in SUBSET Events
    BY <1>e, <1>10 DEF CancelSubmit, TypeOK
  <2> QED
    BY <1>0, <1>10, <2>1, <2>2, EndTaskType DEF CancelSubmit, TypeOK
<1> QED
  BY <1>1, <1>2, <1>3, <1>4, <1>5, <1>6, <1>7, <1>8, <1>9, <1>10 DEF Build

\* Watchers, abandoned threads, and leaving and entering serve().
LEMMA TypeProcess ==
  ASSUME TypeOK,
         \/ \E c \in Commands : WatcherEnds(c)
         \/ \E c \in Commands : OrphanRuns(c)
         \/ Shutdown \/ GraceExpires \/ CancelFollowers \/ ServeReturns
         \/ ProcessExits \/ Crash \/ Restart
  PROVE  TypeOK'
<1> USE DEF netVars, storeVars, jobVars, watchVars, Modes
<1>1. ASSUME NEW c \in Commands, WatcherEnds(c) PROVE TypeOK'
  BY <1>1 DEF WatcherEnds, TypeOK
<1>2. ASSUME NEW c \in Commands, OrphanRuns(c) PROVE TypeOK'
  <2>1. orphan' \in [Commands -> SUBSET {"generate", "workflow", "child"}]
    BY <1>2 DEF OrphanRuns, TypeOK
  <2>2. /\ jobs' = jobs \/ jobs' = [jobs EXCEPT ![c] = @ + 1]
        /\ setupDirs' = setupDirs \/ setupDirs' = setupDirs \cup {c}
    BY <1>2 DEF OrphanRuns
  <2>3. jobs' \in [Commands -> Nat]
    <3>1. jobs \in [Commands -> Nat]
      BY DEF TypeOK
    <3>2. CASE jobs' = [jobs EXCEPT ![c] = @ + 1]
      BY <3>1, <3>2
    <3> QED
      BY <2>2, <3>1, <3>2
  <2>4. setupDirs' \in SUBSET Commands
    BY <2>2 DEF TypeOK
  <2> QED
    BY <1>2, <2>1, <2>3, <2>4 DEF OrphanRuns, TypeOK
<1>3. CASE Shutdown
  BY <1>3, FaultTypes DEF Shutdown, TypeOK, FaultKinds
<1>4. CASE GraceExpires \/ ProcessExits
  BY <1>4 DEF GraceExpires, ProcessExits, TypeOK
<1>5. CASE CancelFollowers \/ ServeReturns
  BY <1>5 DEF CancelFollowers, ServeReturns, TypeOK
<1>6. CASE Crash
  BY <1>6, IdleTaskType, FaultTypes DEF Crash, TypeOK, FaultKinds
<1>7. CASE Restart
  BY <1>7, LoadType, FaultTypes DEF Restart, TypeOK
<1> QED
  BY <1>1, <1>2, <1>3, <1>4, <1>5, <1>6, <1>7

\* Every step of the client keeps its state well typed.
LEMMA TypeStep == TypeOK /\ [Next]_vars => TypeOK'
<1> SUFFICES ASSUME TypeOK, [Next]_vars PROVE TypeOK'
  OBVIOUS
<1>1. CASE UNCHANGED vars
  BY <1>1 DEF vars, TypeOK
<1>2. CASE Next
  BY <1>2, TypeDeliver, TypeHandler, TypeBuild, TypeProcess DEF Next, Stop
<1> QED
  BY <1>1, <1>2

\* The client's state is well typed in every reachable state.
THEOREM TypeCorrect == Spec => []TypeOK
  BY TypeInit, TypeStep, PTL DEF Spec

-----------------------------------------------------------------------------
(* At most one job per submission.  The inductive invariant: a task works  *)
(* on a command of its kind, and SetupGuardsSbatch.                        *)

KindsMatch ==
    \A t \in Tasks :
        /\ At(t) \in SubmitPC \cup {"accept"} => task[t].cmd.kind = "submit"
        /\ At(t) \in {"helloJob", "helloWait"} => task[t].cmd.kind = "hello"

JobInv == TypeOK /\ KindsMatch /\ SetupGuardsSbatch /\ AtMostOneJob

\* What a step does to one task, as far as JobInv is concerned: it frees the
\* slot, or moves the command on among the awaits of its kind.
MovesOn(t, where) == task'[t].pc = where /\ task'[t].cmd = task[t].cmd
OthersStay(t) == \A u \in Tasks : u # t => task'[u] = task[u]

\* A task that frees its slot or moves on within its kind keeps KindsMatch.
LEMMA KindsStep ==
  ASSUME TypeOK, KindsMatch, NEW t \in Tasks, OthersStay(t),
         \/ task'[t].pc = "idle"
         \/ \E where \in SubmitPC \cup {"ack"} :
              MovesOn(t, where) /\ At(t) \in SubmitPC \cup {"accept"}
         \/ \E where \in {"helloWait", "ack"} :
              MovesOn(t, where) /\ At(t) \in {"helloJob", "helloWait"}
  PROVE  KindsMatch'
  BY DEF KindsMatch, At, MovesOn, OthersStay, SubmitPC, BuildPC

\* A step that brings nobody to sbatch and submits no job keeps the guard.
LEMMA QuietStep ==
  ASSUME TypeOK, SetupGuardsSbatch, AtMostOneJob,
         \A u \in Tasks : task'[u].pc = "workflow"
                            => task[u].pc = "workflow" /\ task'[u].cmd = task[u].cmd,
         \A c \in Commands : Strays(c)' \subseteq Strays(c),
         \A c \in Submits : jobs'[c] = jobs[c],
         setupDirs \subseteq setupDirs'
  PROVE  SetupGuardsSbatch' /\ AtMostOneJob'
<1>1. \A c : AtWorkflow(c)' \subseteq AtWorkflow(c)
  BY DEF AtWorkflow, At, CmdOf
<1>2. AtMostOneJob'
  BY DEF AtMostOneJob, Submits
<1>3. \A t, u \in Tasks :
        At(t)' = "workflow" /\ At(u)' = "workflow" /\ CmdOf(t)' = CmdOf(u)' => t = u
  BY DEF SetupGuardsSbatch, At, CmdOf
<1>4. ASSUME NEW c \in Commands
      PROVE  /\ AtWorkflow(c)' # {} \/ Strays(c)' # {}
                  => c \in setupDirs' /\ (c \in Submits => jobs'[c] = 0)
             /\ Strays(c)' # {} => AtWorkflow(c)' = {}
             /\ Strays(c)' # {"workflow", "child"}
  BY <1>1 DEF SetupGuardsSbatch, Strays
<1>5. \A c \in Submits : jobs'[c] > 0 => c \in setupDirs'
  BY DEF SetupGuardsSbatch
<1> QED
  BY <1>2, <1>3, <1>4, <1>5 DEF SetupGuardsSbatch, At, CmdOf, Submits

\* What taking up a command does to the task.
LEMMA AnswerEffect ==
  ASSUME task \in [Tasks -> Task], NEW t \in Tasks, NEW c, NEW where, NEW ack,
         Answer(t, c, where, ack)
  PROVE  task'[t].pc = where /\ task'[t].cmd = c /\ OthersStay(t)
<1>1. /\ [IdleTask EXCEPT !.pc = where, !.cmd = c, !.reply = ack].pc = where
      /\ [IdleTask EXCEPT !.pc = where, !.cmd = c, !.reply = ack].cmd = c
  BY IdleTaskType DEF Task
<1> QED
  BY <1>1 DEF Answer, OthersStay

\* Receiving a command brings no task to sbatch.
LEMMA JobDeliver ==
  ASSUME JobInv, NEW t \in Tasks, NEW e \in 1 .. Len(room), Deliver(t, e)
  PROVE  KindsMatch' /\ SetupGuardsSbatch' /\ AtMostOneJob'
<1> DEFINE c == room[e]
<1>1. /\ OthersStay(t) /\ task'[t].cmd = c
      /\ \/ task'[t].pc = "ack"
         \/ task'[t].pc = "helloJob" /\ c.kind = "hello"
         \/ task'[t].pc = "accept" /\ c.kind = "submit"
  <2>0. task \in [Tasks -> Task]
    BY DEF JobInv, TypeOK
  <2>1. Replay(t, c) \/ BeginHello(t, c) \/ BeginSubmit(t, c) \/ RejectSubmit(t, c)
    BY DEF Deliver
  <2> HIDE DEF c
  <2>2. CASE Replay(t, c)
    BY <2>0, <2>2, AnswerEffect DEF Replay
  <2>3. CASE BeginHello(t, c)
    BY <2>0, <2>3, AnswerEffect DEF BeginHello
  <2>4. CASE BeginSubmit(t, c)
    BY <2>0, <2>4, AnswerEffect DEF BeginSubmit
  <2>5. CASE RejectSubmit(t, c)
    BY <2>0, <2>5, AnswerEffect DEF RejectSubmit
  <2> QED
    BY <2>1, <2>2, <2>3, <2>4, <2>5
<1>2. KindsMatch'
  BY <1>1 DEF JobInv, KindsMatch, At, OthersStay, SubmitPC, BuildPC
<1>3. \A u \in Tasks : task'[u].pc = "workflow"
                         => task[u].pc = "workflow" /\ task'[u].cmd = task[u].cmd
  BY <1>1 DEF OthersStay
<1> QED
  BY <1>2, <1>3, QuietStep DEF JobInv, Deliver, jobVars, Strays

\* The later steps of a handler, its death and its cancellation.
LEMMA JobHandler ==
  ASSUME JobInv, NEW t \in Tasks, Handler(t) \/ TaskRaises(t) \/ CancelDispatch(t)
  PROVE  KindsMatch' /\ SetupGuardsSbatch' /\ AtMostOneJob'
<1>0. /\ task \in [Tasks -> Task] /\ task[t] \in Task /\ task[t].cmd \in Commands
      /\ CmdOf(t) \in Commands
  BY TaskFields DEF JobInv, TypeOK
<1>1. ASSUME At(t) = "helloJob" PROVE CmdOf(t) \notin Submits
  BY <1>0, <1>1 DEF JobInv, KindsMatch, CmdOf, Submits
<1>2. /\ OthersStay(t)
      /\ \/ task'[t].pc = "idle"
         \/ MovesOn(t, "gate") /\ At(t) = "accept"
         \/ MovesOn(t, "helloWait") /\ At(t) = "helloJob"
         \/ MovesOn(t, "ack") /\ At(t) \in {"helloJob", "helloWait"}
  <2>1. CASE SendAck(t) \/ TaskRaises(t) \/ CancelDispatch(t)
    BY <1>0, <2>1, EndTaskType DEF SendAck, TaskRaises, CancelDispatch, OthersStay
  <2>2. CASE SendAccepted(t)
    BY <1>0, <2>2, GotoType DEF SendAccepted, OthersStay, MovesOn, PC, SubmitPC
  <2>3. CASE HelloSbatch(t)
    BY <1>0, <2>3, GotoType DEF HelloSbatch, OthersStay, MovesOn, PC, DispatchPC
  <2>4. CASE HelloResult(t)
    <3>1. PICK a : task' = [task EXCEPT ![t].pc = "ack", ![t].reply = a]
      BY <2>4 DEF HelloResult
    <3>2. task'[t].pc = "ack" /\ task'[t].cmd = task[t].cmd /\ OthersStay(t)
      BY <1>0, <3>1 DEF OthersStay, Task
    <3> QED
      BY <2>4, <3>2 DEF HelloResult, MovesOn
  <2> QED
    BY <2>1, <2>2, <2>3, <2>4 DEF Handler
<1>3. KindsMatch'
  BY <1>2, KindsStep DEF JobInv, SubmitPC
<1>4. \A u \in Tasks : task'[u].pc = "workflow"
                         => task[u].pc = "workflow" /\ task'[u].cmd = task[u].cmd
  BY <1>2 DEF OthersStay, MovesOn
<1>5. /\ setupDirs' = setupDirs /\ orphan' = orphan
      /\ jobs' = jobs \/ (At(t) = "helloJob" /\ jobs' = [jobs EXCEPT ![CmdOf(t)] = @ + 1])
  BY DEF Handler, SendAck, SendAccepted, HelloSbatch, HelloResult, TaskRaises,
         CancelDispatch, jobVars
<1>6. \A c \in Submits : jobs'[c] = jobs[c]
  BY <1>1, <1>5 DEF JobInv, TypeOK, Submits
<1>7. \A c \in Commands : Strays(c)' \subseteq Strays(c)
  BY <1>5 DEF Strays
<1> QED
  BY <1>3, <1>4, <1>5, <1>6, <1>7, QuietStep DEF JobInv

\* The steps of a build other than generate, sbatch and cancellation.
LEMMA JobQuietBuild ==
  ASSUME JobInv, NEW t \in Tasks,
         \/ AcquireBuild(t) \/ WorkflowFails(t) \/ WorkflowReturns(t) \/ Emit(t)
         \/ RecordFailure(t) \/ RecordFinished(t) \/ FollowLocked(t) \/ FollowReplaced(t)
  PROVE  KindsMatch' /\ SetupGuardsSbatch' /\ AtMostOneJob'
<1>0. task \in [Tasks -> Task] /\ task[t] \in Task
  BY TaskFields DEF JobInv, TypeOK
<1> DEFINE Quiet == /\ OthersStay(t)
                    /\ \/ task'[t].pc = "idle"
                       \/ \E where \in SubmitPC \ {"workflow"} : MovesOn(t, where)
<1>p. {"generate", "sbatched", "submitted", "finish", "record", "fail", "recordFail",
       "followLock", "followCancel"} \subseteq SubmitPC \ {"workflow"}
  BY DEF SubmitPC, BuildPC
<1>g. ASSUME NEW where \in SubmitPC \ {"workflow"}, Goto(t, where) PROVE Quiet
  BY <1>0, <1>g, GotoType DEF OthersStay, MovesOn, PC
<1>e. ASSUME EndTask(t) PROVE Quiet
  BY <1>0, <1>e, EndTaskType DEF OthersStay
<1>r. ASSUME ReplaceWatcher(t) PROVE Quiet
  <2>1. CASE Install(t)
    BY <1>e, <2>1 DEF Install
  <2>2. CASE task' = [task EXCEPT ![t].pc = "followCancel", ![t].prev = slot[SimOf(t)]]
    BY <1>0, <1>p, <2>2 DEF OthersStay, MovesOn, Task
  <2> QED
    BY <1>r, <2>1, <2>2 DEF ReplaceWatcher
<1>1. Quiet
  <2>1. CASE AcquireBuild(t) \/ WorkflowFails(t)
    BY <1>p, <1>g, <2>1 DEF AcquireBuild, WorkflowFails
  <2>2. CASE WorkflowReturns(t)
    <3>1. PICK found \in BOOLEAN :
            task' = [task EXCEPT ![t].hasJob = found,
                                 ![t].pc = IF found THEN "submitted" ELSE "finish"]
      BY <2>2 DEF WorkflowReturns
    <3>2. /\ task'[t].pc \in {"submitted", "finish"} /\ task'[t].cmd = task[t].cmd
          /\ OthersStay(t)
      BY <1>0, <3>1 DEF OthersStay, Task
    <3> QED
      BY <1>p, <3>2 DEF MovesOn
  <2>3. CASE Emit(t)
    <3>1. At(t) \in DOMAIN EmitStep => EmitStep[At(t)].next \in {"finish", "record", "recordFail"}
      BY DEF EmitStep
    <3> QED
      BY <1>p, <1>g, <2>3, <3>1 DEF Emit
  <2>4. CASE RecordFailure(t)
    BY <1>e, <2>4 DEF RecordFailure
  <2>5. CASE FollowLocked(t)
    BY <1>r, <2>5 DEF FollowLocked
  <2>6. CASE FollowReplaced(t)
    BY <1>e, <2>6 DEF FollowReplaced, Install
  <2>7. CASE RecordFinished(t)
    BY <1>p, <1>g, <1>e, <1>r, <2>7 DEF RecordFinished, StartFollower
  <2> QED
    BY <2>1, <2>2, <2>3, <2>4, <2>5, <2>6, <2>7
<1>2. At(t) \in SubmitPC
  BY DEF AcquireBuild, WorkflowFails, WorkflowReturns, Emit, EmitStep, RecordFailure,
         RecordFinished, FollowLocked, FollowReplaced, SubmitPC, BuildPC
<1>3. KindsMatch'
  BY <1>1, <1>2, KindsStep DEF JobInv
<1>4. \A u \in Tasks : task'[u].pc = "workflow"
                         => task[u].pc = "workflow" /\ task'[u].cmd = task[u].cmd
  BY <1>1 DEF OthersStay, MovesOn
<1>5. UNCHANGED jobVars
  BY DEF AcquireBuild, WorkflowFails, WorkflowReturns, Emit, RecordFailure,
         RecordFinished, FollowLocked, FollowReplaced
<1> QED
  BY <1>3, <1>4, <1>5, QuietStep DEF JobInv, jobVars, Strays

\* generate: whoever comes to the workflow has just made the directory, so no
\* task or thread was there and no job existed.
LEMMA JobGenerate ==
  ASSUME JobInv, NEW t \in Tasks, Generate(t)
  PROVE  KindsMatch' /\ SetupGuardsSbatch' /\ AtMostOneJob'
<1>0. /\ task \in [Tasks -> Task] /\ CmdOf(t) \in Commands /\ jobs \in [Commands -> Nat]
      /\ {"workflow", "fail"} \subseteq PC /\ {"workflow", "fail"} \subseteq SubmitPC
  BY TaskFields DEF JobInv, TypeOK, PC, SubmitPC, BuildPC
<1>1. At(t) = "generate" /\ At(t) \in SubmitPC /\ jobs' = jobs /\ orphan' = orphan
  BY DEF Generate, SubmitPC, BuildPC
<1>2. OthersStay(t) /\ (MovesOn(t, "workflow") \/ MovesOn(t, "fail"))
  BY <1>0, GotoType DEF Generate, OthersStay, MovesOn
<1>3. KindsMatch'
  BY <1>0, <1>1, <1>2, KindsStep DEF JobInv
<1>4. setupDirs \subseteq setupDirs'
  BY DEF Generate
<1>5. CASE MovesOn(t, "fail")
  <2>1. \A u \in Tasks : task'[u].pc = "workflow"
                           => task[u].pc = "workflow" /\ task'[u].cmd = task[u].cmd
    BY <1>2, <1>5 DEF OthersStay, MovesOn
  <2> QED
    BY <1>1, <1>3, <1>4, <2>1, QuietStep DEF JobInv, Strays
<1>6. CASE MovesOn(t, "workflow")
  <2> DEFINE c == CmdOf(t)
  <2>1. task'[t].pc # "fail"
    BY <1>6 DEF MovesOn
  <2>2. c \notin setupDirs /\ setupDirs' = setupDirs \cup {c}
    BY <1>0, <2>1, GotoType DEF Generate
  <2>3. /\ AtWorkflow(c) = {} /\ Strays(c) = {}
        /\ c \in Submits => jobs[c] = 0
    BY <1>0, <2>2 DEF JobInv, SetupGuardsSbatch
  <2>4. /\ \A u \in Tasks : u # t => (At(u)' = At(u) /\ CmdOf(u)' = CmdOf(u))
        /\ CmdOf(t)' = c
    BY <1>2, <1>6 DEF OthersStay, MovesOn, At, CmdOf
  <2>5. \A d \in Commands : d # c => AtWorkflow(d)' = AtWorkflow(d)
    BY <1>1, <2>4 DEF AtWorkflow
  <2>6. \A u, v \in Tasks :
          At(u)' = "workflow" /\ At(v)' = "workflow" /\ CmdOf(u)' = CmdOf(v)' => u = v
    BY <2>3, <2>4 DEF AtWorkflow, JobInv, SetupGuardsSbatch
  <2>7. ASSUME NEW d \in Commands
        PROVE  /\ AtWorkflow(d)' # {} \/ Strays(d)' # {}
                    => d \in setupDirs' /\ (d \in Submits => jobs'[d] = 0)
               /\ Strays(d)' # {} => AtWorkflow(d)' = {}
               /\ Strays(d)' # {"workflow", "child"}
    BY <1>1, <2>2, <2>3, <2>5 DEF JobInv, SetupGuardsSbatch, Strays
  <2>8. \A d \in Submits : jobs'[d] > 0 => d \in setupDirs'
    BY <1>1, <1>4 DEF JobInv, SetupGuardsSbatch
  <2>9. AtMostOneJob'
    BY <1>1 DEF JobInv, AtMostOneJob
  <2> QED
    BY <1>3, <2>6, <2>7, <2>8, <2>9 DEF SetupGuardsSbatch, Submits
<1> QED
  BY <1>2, <1>5, <1>6

\* The one place where a submission's job appears: nobody is left at the
\* workflow of that id, and its directory stays.
LEMMA OneJobStep ==
  ASSUME JobInv, TypeOK', NEW c \in Commands, c \in setupDirs, c \in Submits => jobs[c] = 0,
         jobs' = [jobs EXCEPT ![c] = @ + 1], setupDirs' = setupDirs,
         AtWorkflow(c)' = {}, Strays(c)' = {},
         \A d \in Commands : d # c => AtWorkflow(d)' = AtWorkflow(d) /\ orphan'[d] = orphan[d]
  PROVE  SetupGuardsSbatch' /\ AtMostOneJob'
<1>0. jobs \in [Commands -> Nat] /\ task \in [Tasks -> Task]
  BY DEF JobInv, TypeOK
<1>1. /\ \A d \in Commands : d # c => jobs'[d] = jobs[d]
      /\ jobs'[c] = jobs[c] + 1
  BY <1>0
<1>2. AtMostOneJob'
  BY <1>0, <1>1, CommandFields DEF JobInv, AtMostOneJob, Submits
<1>3. ASSUME NEW d \in Commands
      PROVE  /\ AtWorkflow(d)' # {} \/ Strays(d)' # {}
                  => d \in setupDirs' /\ (d \in Submits => jobs'[d] = 0)
             /\ Strays(d)' # {} => AtWorkflow(d)' = {}
             /\ Strays(d)' # {"workflow", "child"}
  BY <1>1 DEF JobInv, SetupGuardsSbatch, Strays
<1>4. \A d \in Submits : jobs'[d] > 0 => d \in setupDirs'
  BY <1>1 DEF JobInv, SetupGuardsSbatch
<1>5. \A u, v \in Tasks :
        At(u)' = "workflow" /\ At(v)' = "workflow" /\ CmdOf(u)' = CmdOf(v)'
        /\ CmdOf(u)' \in Commands => u = v
  BY <1>0 DEF JobInv, SetupGuardsSbatch, AtWorkflow
<1>6. \A u \in Tasks : CmdOf(u)' \in Commands
  BY CommandFields DEF TypeOK, Task, CmdOf
<1> QED
  BY <1>2, <1>3, <1>4, <1>5, <1>6 DEF SetupGuardsSbatch, Submits

\* sbatch by the task that made the directory.
LEMMA JobSbatch ==
  ASSUME JobInv, TypeOK', NEW t \in Tasks, Sbatch(t)
  PROVE  KindsMatch' /\ SetupGuardsSbatch' /\ AtMostOneJob'
<1>c. PICK c : c = CmdOf(t)
  OBVIOUS
<1>0. /\ task \in [Tasks -> Task] /\ c \in Commands
      /\ "sbatched" \in PC /\ "sbatched" \in SubmitPC /\ "workflow" \in SubmitPC
  BY <1>c, TaskFields DEF JobInv, TypeOK, PC, SubmitPC, BuildPC
<1>1. At(t) = "workflow" /\ OthersStay(t) /\ MovesOn(t, "sbatched")
  BY <1>0, GotoType DEF Sbatch, OthersStay, MovesOn
<1>2. KindsMatch'
  BY <1>0, <1>1, KindsStep DEF JobInv
<1>3. t \in AtWorkflow(c)
  BY <1>c, <1>1 DEF AtWorkflow
<1>4. /\ c \in setupDirs /\ (c \in Submits => jobs[c] = 0)
      /\ Strays(c) = {}
  BY <1>0, <1>3 DEF JobInv, SetupGuardsSbatch
<1>5. /\ AtWorkflow(c)' = {}
      /\ \A d \in Commands : d # c => AtWorkflow(d)' = AtWorkflow(d)
  BY <1>c, <1>1 DEF JobInv, SetupGuardsSbatch, AtWorkflow, OthersStay, MovesOn, At, CmdOf
<1>6. /\ jobs' = [jobs EXCEPT ![c] = @ + 1] /\ setupDirs' = setupDirs /\ orphan' = orphan
  BY <1>c DEF Sbatch
<1> QED
  BY <1>0, <1>2, <1>4, <1>5, <1>6, OneJobStep DEF Strays

\* Cancelling a build at the workflow hands its turn to the abandoned thread.
LEMMA JobCancelSubmit ==
  ASSUME JobInv, TypeOK', NEW t \in Tasks, CancelSubmit(t)
  PROVE  KindsMatch' /\ SetupGuardsSbatch' /\ AtMostOneJob'
<1>c. PICK c : c = CmdOf(t)
  OBVIOUS
<1>0. /\ task \in [Tasks -> Task] /\ c \in Commands
      /\ orphan \in [Commands -> SUBSET {"generate", "workflow", "child"}]
  BY <1>c, TaskFields DEF JobInv, TypeOK
<1>1. /\ OthersStay(t) /\ task'[t].pc = "idle"
      /\ jobs' = jobs /\ setupDirs' = setupDirs
  BY <1>0, EndTaskType DEF CancelSubmit, OthersStay
<1>2. KindsMatch'
  BY <1>1, KindsStep DEF JobInv
<1>3. CASE At(t) # "workflow"
  <2>1. \A u \in Tasks : task'[u].pc = "workflow"
                           => task[u].pc = "workflow" /\ task'[u].cmd = task[u].cmd
    BY <1>1 DEF OthersStay
  <2>2. \A d \in Commands : Strays(d)' \subseteq Strays(d)
    BY <1>c, <1>0, <1>3 DEF CancelSubmit, Strays
  <2> QED
    BY <1>1, <1>2, <2>1, <2>2, QuietStep DEF JobInv
<1>4. CASE At(t) = "workflow"
  <2>1. orphan' = [orphan EXCEPT ![c] = @ \cup {"workflow"}]
    BY <1>c, <1>4 DEF CancelSubmit
  <2>2. t \in AtWorkflow(c)
    BY <1>c, <1>4 DEF AtWorkflow
  <2>3. c \in setupDirs /\ (c \in Submits => jobs[c] = 0) /\ Strays(c) = {}
    BY <1>0, <2>2 DEF JobInv, SetupGuardsSbatch
  <2>4. /\ AtWorkflow(c)' = {}
        /\ \A d \in Commands : AtWorkflow(d)' \subseteq AtWorkflow(d)
    BY <1>c, <1>1, <1>4 DEF JobInv, SetupGuardsSbatch, AtWorkflow, OthersStay, At, CmdOf
  <2>5. /\ \A d \in Commands : d # c => Strays(d)' = Strays(d)
        /\ Strays(c)' = {"workflow"}
    BY <1>0, <2>1, <2>3 DEF Strays
  <2>6. ASSUME NEW d \in Commands
        PROVE  /\ AtWorkflow(d)' # {} \/ Strays(d)' # {}
                    => d \in setupDirs' /\ (d \in Submits => jobs'[d] = 0)
               /\ Strays(d)' # {} => AtWorkflow(d)' = {}
               /\ Strays(d)' # {"workflow", "child"}
    BY <1>1, <2>3, <2>4, <2>5 DEF JobInv, SetupGuardsSbatch
  <2>7. \A u, v \in Tasks :
          At(u)' = "workflow" /\ At(v)' = "workflow" /\ CmdOf(u)' = CmdOf(v)' => u = v
    BY <1>1 DEF JobInv, SetupGuardsSbatch, OthersStay, At, CmdOf
  <2>8. /\ \A d \in Submits : jobs'[d] > 0 => d \in setupDirs'
        /\ AtMostOneJob'
    BY <1>1 DEF JobInv, SetupGuardsSbatch, AtMostOneJob
  <2> QED
    BY <1>2, <2>6, <2>7, <2>8 DEF SetupGuardsSbatch, Submits
<1> QED
  BY <1>3, <1>4

\* An abandoned thread makes its directory, or runs sbatch in its own turn.
LEMMA JobOrphan ==
  ASSUME JobInv, TypeOK', NEW c \in Commands, OrphanRuns(c)
  PROVE  KindsMatch' /\ SetupGuardsSbatch' /\ AtMostOneJob'
<1>0. /\ orphan \in [Commands -> SUBSET {"generate", "workflow", "child"}]
      /\ jobs \in [Commands -> Nat] /\ task \in [Tasks -> Task]
  BY DEF JobInv, TypeOK
<1>1. PICK at \in orphan[c] :
        /\ orphan' = [orphan EXCEPT ![c] = @ \ {at}]
        /\ \/ at = "generate" /\ setupDirs \subseteq setupDirs' /\ UNCHANGED jobs
           \/ /\ at \in {"workflow", "child"} /\ UNCHANGED setupDirs
              /\ jobs' = jobs \/ jobs' = [jobs EXCEPT ![c] = @ + 1]
        /\ UNCHANGED task
  BY DEF OrphanRuns
<1>2. KindsMatch'
  BY <1>1 DEF JobInv, KindsMatch, At
<1>3. \A d \in Commands : /\ orphan'[d] \subseteq orphan[d]
                        /\ d # c => orphan'[d] = orphan[d]
  BY <1>0, <1>1
<1>4. \A d \in Commands : AtWorkflow(d)' = AtWorkflow(d)
  BY <1>1 DEF AtWorkflow, At, CmdOf
<1>5. CASE jobs' = jobs
  BY <1>1, <1>2, <1>3, <1>5, QuietStep DEF JobInv, Strays
<1>6. CASE at \in {"workflow", "child"} /\ jobs' = [jobs EXCEPT ![c] = @ + 1]
  <2>0. at \in Strays(c) /\ Strays(c) # {"workflow", "child"}
    BY <1>1, <1>6 DEF Strays, JobInv, SetupGuardsSbatch
  <2>1. Strays(c) # {} /\ Strays(c)' = {}
    BY <1>0, <1>1, <1>6, <2>0 DEF Strays
  <2>2. c \in setupDirs /\ (c \in Submits => jobs[c] = 0) /\ AtWorkflow(c) = {}
    BY <2>1 DEF JobInv, SetupGuardsSbatch
  <2>3. setupDirs' = setupDirs
    BY <1>1, <1>6
  <2> QED
    <3>1. AtWorkflow(c)' = {}
      BY <1>4, <2>2
    <3>2. \A d \in Commands :
            d # c => AtWorkflow(d)' = AtWorkflow(d) /\ orphan'[d] = orphan[d]
      BY <1>1, <1>3 DEF AtWorkflow, At, CmdOf
    <3>3. jobs' = [jobs EXCEPT ![c] = @ + 1]
      BY <1>6
    <3> QED
      BY <1>2, <2>1, <2>2, <2>3, <3>1, <3>2, <3>3, OneJobStep
<1> QED
  BY <1>1, <1>5, <1>6

\* Watchers, and leaving and entering serve().
LEMMA JobProcess ==
  ASSUME JobInv,
         \/ \E c \in Commands : WatcherEnds(c)
         \/ Shutdown \/ GraceExpires \/ CancelFollowers \/ ServeReturns
         \/ ProcessExits \/ Restart \/ UNCHANGED vars
  PROVE  KindsMatch' /\ SetupGuardsSbatch' /\ AtMostOneJob'
<1>1. UNCHANGED <<task, orphan, jobs, setupDirs>>
  BY DEF WatcherEnds, Shutdown, GraceExpires, CancelFollowers, ServeReturns,
         ProcessExits, Restart, vars, jobVars
<1>2. KindsMatch'
  BY <1>1 DEF JobInv, KindsMatch, At
<1> QED
  BY <1>1, <1>2, QuietStep DEF JobInv, Strays

\* A kill hands the turn of a running workflow to its surviving child process, if
\* there is one: no other task or thread is left.
LEMMA JobCrash ==
  ASSUME JobInv, Crash
  PROVE  KindsMatch' /\ SetupGuardsSbatch' /\ AtMostOneJob'
<1>1. /\ task' = [t \in Tasks |-> IdleTask]
      /\ jobs' = jobs /\ setupDirs' = setupDirs
  BY DEF Crash
<1>2. \A t \in Tasks : At(t)' = "idle"
  BY <1>1, IdleTaskType DEF At
<1>3. KindsMatch'
  BY <1>2 DEF KindsMatch, SubmitPC, BuildPC
<1>4. \A c : AtWorkflow(c)' = {}
  BY <1>2 DEF AtWorkflow
<1>5. ASSUME NEW c \in Commands
      PROVE  /\ Strays(c)' \subseteq {"child"}
             /\ Strays(c)' # {} => AtWorkflow(c) # {} \/ Strays(c) # {}
  BY DEF Crash, Strays
<1>6. ASSUME NEW c \in Commands
      PROVE  /\ AtWorkflow(c)' # {} \/ Strays(c)' # {}
                  => c \in setupDirs' /\ (c \in Submits => jobs'[c] = 0)
             /\ Strays(c)' # {} => AtWorkflow(c)' = {}
             /\ Strays(c)' # {"workflow", "child"}
  BY <1>1, <1>4, <1>5 DEF JobInv, SetupGuardsSbatch
<1>7. /\ \A c \in Submits : jobs'[c] > 0 => c \in setupDirs'
      /\ AtMostOneJob'
  BY <1>1 DEF JobInv, SetupGuardsSbatch, AtMostOneJob
<1> QED
  BY <1>2, <1>3, <1>6, <1>7 DEF SetupGuardsSbatch, Submits

\* JobInv is inductive.
LEMMA JobStep == JobInv /\ [Next]_vars => JobInv'
<1> SUFFICES ASSUME JobInv, [Next]_vars PROVE JobInv'
  OBVIOUS
<1>1. TypeOK'
  BY TypeStep DEF JobInv
<1>2. KindsMatch' /\ SetupGuardsSbatch' /\ AtMostOneJob'
  BY <1>1, JobDeliver, JobHandler, JobQuietBuild, JobGenerate, JobSbatch, JobCancelSubmit,
     JobOrphan, JobProcess, JobCrash
  DEF Next, Build, Stop
<1> QED
  BY <1>1, <1>2 DEF JobInv

\* JobInv holds at the start.
LEMMA JobInit == Init => JobInv
<1> SUFFICES ASSUME Init PROVE JobInv
  OBVIOUS
<1>1. \A t \in Tasks : At(t) = "idle"
  BY IdleTaskType DEF Init, At
<1>2. KindsMatch
  BY <1>1 DEF KindsMatch, SubmitPC, BuildPC
<1>3. SetupGuardsSbatch /\ AtMostOneJob
  BY <1>1 DEF Init, SetupGuardsSbatch, AtMostOneJob, AtWorkflow, Strays, Submits
<1> QED
  BY <1>2, <1>3, TypeInit DEF JobInv

\* Whoever is about to run sbatch owns a fresh setup directory, in every
\* reachable state (_execute_accepted_submit, Runner.generate).
THEOREM SetupGuarded == Spec => []SetupGuardsSbatch
  BY JobInit, JobStep, PTL DEF Spec, JobInv

\* A submission never puts two jobs in the queue: for every room, any number of
\* crashes, restarts, failing or torn writes, evictions and abandoned builds.
THEOREM OneJobPerSubmission == Spec => []AtMostOneJob
  BY JobInit, JobStep, PTL DEF Spec, JobInv

\* serve() has cancelled the watchers: no task is left that could install one.
OverModes == {"reaping", "returned", "down"}

\* The slot of a sim_id names its live watcher, so there is no second one.
LiveInSlot == \A c \in Commands : watcher[c] = "live" => slot[c.hash] = c

\* The lock of a sim_id: whoever awaits the watcher it replaces is alone, and the slot
\* stays free for it.
LockKeepsSlot ==
    \A t \in Tasks : At(t) = "followCancel" =>
        /\ slot[SimOf(t)] = NoCmd
        /\ \A u \in Tasks : At(u) = "followCancel" /\ SimOf(u) = SimOf(t) => u = t

\* Watchers are cancelled when nobody is left to start one, and awaited before the end.
NobodyAfter ==
    /\ mode \in OverModes => /\ \A t \in Tasks : Idle(t)
                             /\ \A c \in Commands : watcher[c] # "live"
    /\ mode \in {"returned", "down"} => \A c \in Commands : watcher[c] # "cancelling"

WatchInv == LiveInSlot /\ LockKeepsSlot /\ NobodyAfter

-----------------------------------------------------------------------------

\* Nobody comes to await a watcher; whoever does so goes on with the same command.
NobodyWaits ==
    \A u \in Tasks : task'[u].pc = "followCancel"
                       => task[u].pc = "followCancel" /\ task'[u].cmd = task[u].cmd

\* A step of a task that leaves the watchers alone.
LEMMA WatchQuiet ==
  ASSUME WatchInv, UNCHANGED watchVars, mode' = mode, NobodyWaits, mode \notin OverModes
  PROVE  WatchInv'
<1>1. slot' = slot /\ watcher' = watcher
  BY DEF watchVars
<1>2. LiveInSlot'
  BY <1>1 DEF WatchInv, LiveInSlot
<1>3. LockKeepsSlot'
  BY <1>1 DEF WatchInv, LockKeepsSlot, NobodyWaits, At, SimOf
<1>4. NobodyAfter'
  BY DEF NobodyAfter, OverModes
<1> QED
  BY <1>2, <1>3, <1>4 DEF WatchInv

\* A task that is not idle belongs to a serve() that is not over.
LEMMA BusyMode ==
  ASSUME WatchInv, NEW t \in Tasks, ~Idle(t) PROVE mode \notin OverModes
  BY DEF WatchInv, NobodyAfter

\* A task that ends, or moves on and does not come to await a watcher.
LEMMA TaskQuiet ==
  ASSUME NEW t \in Tasks, OthersStay(t), task'[t].pc # "followCancel" PROVE NobodyWaits
  BY DEF NobodyWaits, OthersStay

\* Receiving a command, and the later steps of its handler.
LEMMA WatchHandler ==
  ASSUME TypeOK, WatchInv, NEW t \in Tasks,
         \/ \E e \in 1 .. Len(room) : Deliver(t, e)
         \/ Handler(t) \/ TaskRaises(t) \/ CancelDispatch(t)
  PROVE  WatchInv'
<1>0. task \in [Tasks -> Task] /\ task[t] \in Task
  BY TaskFields DEF TypeOK
<1>1. UNCHANGED watchVars /\ mode' = mode
  BY DEF Deliver, Handler, SendAck, SendAccepted, HelloSbatch, HelloResult, TaskRaises,
         CancelDispatch
<1>2. mode \notin OverModes
  <2>1. mode \in {"serving", "draining"} \/ ~Idle(t)
    BY DEF Deliver, Handler, SendAck, SendAccepted, HelloSbatch, HelloResult, TaskRaises,
           CancelDispatch, Idle
  <2> QED
    BY <2>1, BusyMode DEF OverModes
<1>3. OthersStay(t) /\ task'[t].pc # "followCancel"
  <2>1. ASSUME NEW e \in 1 .. Len(room), Deliver(t, e)
        PROVE  OthersStay(t) /\ task'[t].pc # "followCancel"
    <3>1. \E c, ack, where : where \in {"ack", "accept", "helloJob"} /\ Answer(t, c, where, ack)
      BY <2>1 DEF Deliver, Replay, BeginHello, BeginSubmit, RejectSubmit
    <3>2. PICK c, ack, where : where \in {"ack", "accept", "helloJob"} /\ Answer(t, c, where, ack)
      BY <3>1
    <3>3. [IdleTask EXCEPT !.pc = where, !.cmd = c, !.reply = ack].pc = where
      BY IdleTaskType DEF Task
    <3> QED
      BY <1>0, <3>2, <3>3 DEF Answer, OthersStay
  <2>2. CASE SendAck(t) \/ TaskRaises(t) \/ CancelDispatch(t)
    BY <1>0, <2>2, EndTaskType DEF SendAck, TaskRaises, CancelDispatch, OthersStay
  <2>3. CASE SendAccepted(t) \/ HelloSbatch(t)
    BY <1>0, <2>3, GotoType DEF SendAccepted, HelloSbatch, OthersStay, PC, SubmitPC, DispatchPC
  <2>4. CASE HelloResult(t)
    <3>1. PICK r : task' = [task EXCEPT ![t].pc = "ack", ![t].reply = r]
      BY <2>4 DEF HelloResult
    <3> QED
      BY <1>0, <3>1 DEF OthersStay, Task
  <2> QED
    BY <2>1, <2>2, <2>3, <2>4 DEF Handler
<1> QED
  BY <1>1, <1>2, <1>3, TaskQuiet, WatchQuiet

\* The steps of a build that do not reach its watcher.
LEMMA WatchBuild ==
  ASSUME TypeOK, WatchInv, NEW t \in Tasks,
         \/ AcquireBuild(t) \/ Generate(t) \/ Sbatch(t) \/ WorkflowFails(t)
         \/ WorkflowReturns(t) \/ Emit(t) \/ RecordFailure(t) \/ CancelSubmit(t)
  PROVE  WatchInv'
<1>0. task \in [Tasks -> Task] /\ task[t] \in Task
  BY TaskFields DEF TypeOK
<1>1. UNCHANGED watchVars /\ mode' = mode /\ ~Idle(t)
  BY DEF AcquireBuild, Generate, Sbatch, WorkflowFails, WorkflowReturns, Emit, RecordFailure,
         CancelSubmit, Idle, EmitStep, SubmitPC, BuildPC
<1>2. mode \notin OverModes
  BY <1>1, BusyMode
<1>3. OthersStay(t) /\ task'[t].pc # "followCancel"
  <2> DEFINE Stations == {"generate", "workflow", "sbatched", "fail", "finish", "record", "recordFail"}
  <2>1. Stations \subseteq PC /\ "followCancel" \notin Stations
    BY DEF PC, SubmitPC, BuildPC
  <2>2. ASSUME NEW where \in Stations, Goto(t, where)
        PROVE  OthersStay(t) /\ task'[t].pc # "followCancel"
    BY <1>0, <2>1, <2>2, GotoType DEF OthersStay
  <2>3. CASE AcquireBuild(t) \/ Generate(t) \/ Sbatch(t) \/ WorkflowFails(t)
    BY <2>2, <2>3 DEF AcquireBuild, Generate, Sbatch, WorkflowFails
  <2>4. CASE Emit(t)
    <3>1. At(t) \in DOMAIN EmitStep => EmitStep[At(t)].next \in Stations
      BY DEF EmitStep
    <3> QED
      BY <2>2, <2>4, <3>1 DEF Emit
  <2>5. CASE WorkflowReturns(t)
    <3>1. PICK found \in BOOLEAN :
            task' = [task EXCEPT ![t].hasJob = found,
                                 ![t].pc = IF found THEN "submitted" ELSE "finish"]
      BY <2>5 DEF WorkflowReturns
    <3> QED
      BY <1>0, <3>1 DEF OthersStay, Task
  <2>6. CASE RecordFailure(t) \/ CancelSubmit(t)
    BY <1>0, <2>6, EndTaskType DEF RecordFailure, CancelSubmit, OthersStay
  <2> QED
    BY <2>3, <2>4, <2>5, <2>6
<1> QED
  BY <1>1, <1>2, <1>3, TaskQuiet, WatchQuiet

\* A watcher is installed where none is live and nobody else holds the lock.
LEMMA WatchInstall ==
  ASSUME TypeOK, WatchInv, NEW t \in Tasks, Install(t), mode' = mode, ~Idle(t),
         \A c \in Commands : c.hash = SimOf(t) => watcher[c] # "live",
         \A u \in Tasks : At(u) = "followCancel" /\ SimOf(u) = SimOf(t) => u = t
  PROVE  WatchInv'
<1>0. /\ task \in [Tasks -> Task] /\ CmdOf(t) \in Commands /\ CmdOf(t).hash = SimOf(t)
      /\ slot \in [Hashes -> Commands \cup {NoCmd}] /\ SimOf(t) \in Hashes
      /\ watcher \in [Commands -> {"none", "live", "cancelling", "done"}]
  BY TaskFields DEF TypeOK, CmdOf, SimOf
<1>1. /\ slot' = [slot EXCEPT ![SimOf(t)] = CmdOf(t)]
      /\ watcher' = [watcher EXCEPT ![CmdOf(t)] = "live"]
      /\ task'[t].pc = "idle" /\ OthersStay(t)
  BY <1>0, EndTaskType DEF Install, OthersStay, CmdOf
<1>2. LiveInSlot'
  BY <1>0, <1>1, CommandFields DEF WatchInv, LiveInSlot
<1>3. ASSUME NEW u \in Tasks, task'[u].pc = "followCancel"
      PROVE  u # t /\ task'[u] = task[u] /\ SimOf(u) # SimOf(t) /\ SimOf(u) \in Hashes
  BY <1>0, <1>1, <1>3, TaskFields DEF OthersStay, At
<1>4. LockKeepsSlot'
  <2> SUFFICES ASSUME NEW u \in Tasks, task'[u].pc = "followCancel"
               PROVE  /\ slot'[task'[u].cmd.hash] = NoCmd
                      /\ \A v \in Tasks : task'[v].pc = "followCancel"
                            /\ task'[v].cmd.hash = task'[u].cmd.hash => v = u
    BY DEF LockKeepsSlot, At, SimOf
  <2>1. task'[u] = task[u] /\ At(u) = "followCancel" /\ SimOf(u) # SimOf(t) /\ SimOf(u) \in Hashes
    BY <1>3 DEF At
  <2>2. slot[SimOf(u)] = NoCmd
    BY <2>1 DEF WatchInv, LockKeepsSlot
  <2>3. slot'[SimOf(u)] = NoCmd
    BY <1>0, <1>1, <2>1, <2>2
  <2>4. ASSUME NEW v \in Tasks, task'[v].pc = "followCancel",
               task'[v].cmd.hash = task'[u].cmd.hash
        PROVE  v = u
    BY <1>3, <2>1, <2>4 DEF WatchInv, LockKeepsSlot, At, SimOf
  <2> QED
    BY <2>1, <2>3, <2>4 DEF SimOf
<1>5. NobodyAfter'
  BY BusyMode DEF NobodyAfter, OverModes
<1> QED
  BY <1>2, <1>4, <1>5 DEF WatchInv

\* With the lock free: the previous watcher is taken out and awaited, or there is none.
LEMMA WatchReplace ==
  ASSUME TypeOK, WatchInv, NEW t \in Tasks, ReplaceWatcher(t), mode' = mode, ~Idle(t),
         ~LockHeld(SimOf(t))
  PROVE  WatchInv'
<1>c. PICK p : p = slot[SimOf(t)]
  OBVIOUS
<1>0. /\ task \in [Tasks -> Task] /\ task[t] \in Task
      /\ slot \in [Hashes -> Commands \cup {NoCmd}] /\ SimOf(t) \in Hashes
      /\ watcher \in [Commands -> {"none", "live", "cancelling", "done"}]
  BY TaskFields DEF TypeOK
<1>1. \A u \in Tasks : At(u) = "followCancel" => SimOf(u) # SimOf(t)
  BY DEF LockHeld
<1>2. CASE p # NoCmd /\ watcher[p] = "live"
  <2>1. /\ slot' = [slot EXCEPT ![SimOf(t)] = NoCmd]
        /\ watcher' = [watcher EXCEPT ![p] = "cancelling"]
        /\ task' = [task EXCEPT ![t].pc = "followCancel", ![t].prev = p]
    BY <1>c, <1>2 DEF ReplaceWatcher
  <2>2. p \in Commands
    BY <1>c, <1>0, <1>2
  <2>3. task'[t].cmd = task[t].cmd /\ OthersStay(t)
    BY <1>0, <2>1 DEF OthersStay, Task
  <2>4. LiveInSlot'
    <3> SUFFICES ASSUME NEW c \in Commands, watcher'[c] = "live" PROVE slot'[c.hash] = c
      BY DEF LiveInSlot
    <3>1. c # p /\ watcher[c] = "live"
      BY <1>0, <2>1, <2>2
    <3>2. slot[c.hash] = c
      BY <3>1 DEF WatchInv, LiveInSlot
    <3>3. c.hash # SimOf(t)
      BY <1>c, <3>1, <3>2
    <3> QED
      BY <1>0, <2>1, <3>2, <3>3
  <2>5. LockKeepsSlot'
    <3> SUFFICES ASSUME NEW u \in Tasks, task'[u].pc = "followCancel"
                 PROVE  /\ slot'[task'[u].cmd.hash] = NoCmd
                        /\ \A v \in Tasks : task'[v].pc = "followCancel"
                              /\ task'[v].cmd.hash = task'[u].cmd.hash => v = u
      BY DEF LockKeepsSlot, At, SimOf
    <3>1. \A v \in Tasks : task'[v].cmd = task[v].cmd /\ SimOf(v) \in Hashes
      BY <1>0, <2>3, TaskFields DEF OthersStay
    <3>2. \A v \in Tasks : v # t /\ task'[v].pc = "followCancel" =>
                             At(v) = "followCancel" /\ SimOf(v) # SimOf(t)
      BY <1>1, <2>3 DEF OthersStay, At
    <3>3. slot'[SimOf(u)] = NoCmd
      BY <1>0, <2>1, <3>1, <3>2 DEF WatchInv, LockKeepsSlot
    <3>4. ASSUME NEW v \in Tasks, task'[v].pc = "followCancel", SimOf(v) = SimOf(u)
          PROVE  v = u
      BY <3>2, <3>4 DEF WatchInv, LockKeepsSlot
    <3> QED
      BY <3>1, <3>3, <3>4 DEF SimOf
  <2>6. NobodyAfter'
    BY BusyMode DEF NobodyAfter, OverModes
  <2> QED
    BY <2>4, <2>5, <2>6 DEF WatchInv
<1>3. CASE ~(p # NoCmd /\ watcher[p] = "live")
  <2>1. Install(t)
    BY <1>c, <1>3 DEF ReplaceWatcher
  <2>2. \A c \in Commands : c.hash = SimOf(t) => watcher[c] # "live"
    BY <1>c, <1>3, ClientAssumption DEF WatchInv, LiveInSlot
  <2> QED
    BY <1>1, <2>1, <2>2, WatchInstall
<1> QED
  BY <1>2, <1>3

\* The hand-over of a finished build to its watcher.
LEMMA WatchFollow ==
  ASSUME TypeOK, WatchInv, NEW t \in Tasks,
         RecordFinished(t) \/ FollowLocked(t) \/ FollowReplaced(t)
  PROVE  WatchInv'
<1>0. task \in [Tasks -> Task] /\ task[t] \in Task
  BY TaskFields DEF TypeOK
<1>1. mode' = mode /\ ~Idle(t) /\ mode \notin OverModes
  BY BusyMode DEF RecordFinished, FollowLocked, FollowReplaced, Idle
<1>2. CASE FollowReplaced(t)
  <2>1. /\ \A u \in Tasks : At(u) = "followCancel" /\ SimOf(u) = SimOf(t) => u = t
        /\ slot[SimOf(t)] = NoCmd
    BY <1>2 DEF FollowReplaced, WatchInv, LockKeepsSlot
  <2>2. \A c \in Commands : c.hash = SimOf(t) => watcher[c] # "live"
    BY <2>1, ClientAssumption DEF WatchInv, LiveInSlot
  <2> QED
    BY <1>1, <1>2, <2>1, <2>2, WatchInstall DEF FollowReplaced
<1>3. CASE FollowLocked(t)
  BY <1>1, <1>3, WatchReplace DEF FollowLocked
<1>4. CASE RecordFinished(t)
  <2>1. CASE mode # "serving"
    BY <1>0, <1>1, <1>4, <2>1, EndTaskType, TaskQuiet, WatchQuiet
       DEF RecordFinished, StartFollower, OthersStay
  <2>2. CASE mode = "serving" /\ LockHeld(SimOf(t))
    <3>1. Goto(t, "followLock") /\ UNCHANGED watchVars
      BY <1>4, <2>2 DEF RecordFinished, StartFollower
    <3>2. "followLock" \in PC
      BY DEF PC, SubmitPC, BuildPC
    <3>3. OthersStay(t) /\ task'[t].pc # "followCancel"
      BY <1>0, <3>1, <3>2, GotoType DEF OthersStay
    <3> QED
      BY <1>1, <3>1, <3>3, TaskQuiet, WatchQuiet
  <2>3. CASE mode = "serving" /\ ~LockHeld(SimOf(t))
    BY <1>1, <1>4, <2>3, WatchReplace DEF RecordFinished, StartFollower
  <2> QED
    BY <2>1, <2>2, <2>3
<1> QED
  BY <1>2, <1>3, <1>4

\* Watchers that end, abandoned threads, and leaving and entering serve().
LEMMA WatchProcess ==
  ASSUME TypeOK, WatchInv,
         \/ \E c \in Commands : WatcherEnds(c) \/ OrphanRuns(c)
         \/ Shutdown \/ GraceExpires \/ CancelFollowers \/ ServeReturns
         \/ ProcessExits \/ Crash \/ Restart \/ UNCHANGED vars
  PROVE  WatchInv'
<1> USE DEF watchVars, OverModes
<1>0. /\ slot \in [Hashes -> Commands \cup {NoCmd}]
      /\ watcher \in [Commands -> {"none", "live", "cancelling", "done"}]
  BY DEF TypeOK
<1>1. ASSUME NEW c \in Commands, WatcherEnds(c) PROVE WatchInv'
  <2>1. /\ mode' = mode /\ task' = task /\ slot' = slot
        /\ watcher' = [watcher EXCEPT ![c] = "done"]
    BY <1>1 DEF WatcherEnds
  <2> QED
    BY <1>0, <2>1 DEF WatchInv, LiveInSlot, LockKeepsSlot, NobodyAfter, At, SimOf, Idle
<1>2. CASE UNCHANGED <<mode, task, slot, watcher>>
  BY <1>2 DEF WatchInv, LiveInSlot, LockKeepsSlot, NobodyAfter, At, SimOf, Idle
<1>3. CASE Shutdown \/ GraceExpires
  <2>1. mode' \in {"draining", "expired"} /\ UNCHANGED <<task, slot, watcher>>
    BY <1>3 DEF Shutdown, GraceExpires
  <2> QED
    BY <2>1 DEF WatchInv, LiveInSlot, LockKeepsSlot, NobodyAfter, At, SimOf, Idle
<1>4. CASE CancelFollowers
  <2>1. /\ mode' = "reaping" /\ UNCHANGED <<task, slot>> /\ \A t \in Tasks : Idle(t)
        /\ \A c \in Commands : watcher'[c] # "live"
    BY <1>0, <1>4 DEF CancelFollowers
  <2> QED
    BY <2>1 DEF WatchInv, LiveInSlot, LockKeepsSlot, NobodyAfter, At, SimOf, Idle
<1>5. CASE ServeReturns
  <2>1. /\ mode' = "returned" /\ UNCHANGED <<task, watcher>> /\ mode = "reaping"
        /\ \A c \in Commands : watcher[c] # "cancelling"
    BY <1>5 DEF ServeReturns
  <2>2. (\A t \in Tasks : Idle(t)) /\ \A c \in Commands : watcher[c] # "live"
    BY <2>1 DEF WatchInv, NobodyAfter
  <2> QED
    BY <2>1, <2>2 DEF WatchInv, LiveInSlot, LockKeepsSlot, NobodyAfter, At, Idle
<1>6. CASE ProcessExits
  BY <1>6 DEF ProcessExits, WatchInv, LiveInSlot, LockKeepsSlot, NobodyAfter, At, SimOf, Idle
<1>7. CASE Crash
  <2>1. /\ \A t \in Tasks : task'[t].pc = "idle"
        /\ \A c \in Commands : watcher'[c] \notin {"live", "cancelling"}
    BY <1>7, IdleTaskType DEF Crash
  <2> QED
    BY <2>1 DEF WatchInv, LiveInSlot, LockKeepsSlot, NobodyAfter, At, Idle
<1>8. CASE Restart
  <2>1. /\ mode = "down" /\ mode' = "serving" /\ UNCHANGED <<task, watcher>>
    BY <1>8 DEF Restart
  <2>2. (\A t \in Tasks : Idle(t)) /\ \A c \in Commands : watcher[c] # "live"
    BY <2>1 DEF WatchInv, NobodyAfter
  <2> QED
    BY <2>1, <2>2 DEF WatchInv, LiveInSlot, LockKeepsSlot, NobodyAfter, At, Idle
<1> QED
  BY <1>1, <1>2, <1>3, <1>4, <1>5, <1>6, <1>7, <1>8 DEF OrphanRuns, vars

\* The watchers are under control at the start.
LEMMA WatchInit == Init => WatchInv
<1> SUFFICES ASSUME Init PROVE WatchInv
  OBVIOUS
<1>1. (\A t \in Tasks : At(t) = "idle") /\ \A c \in Commands : watcher[c] = "none"
  BY IdleTaskType DEF Init, At
<1> QED
  BY <1>1 DEF Init, WatchInv, LiveInSlot, LockKeepsSlot, NobodyAfter, OverModes

\* WatchInv is inductive.
LEMMA WatchStep == TypeOK /\ WatchInv /\ [Next]_vars => WatchInv'
  BY WatchHandler, WatchBuild, WatchFollow, WatchProcess DEF Next, Build, Stop

\* Two watchers never follow one simulation, and none is left when serve() has
\* returned, for every number of tasks, builds, shutdowns and kills (_start_follower
\* against itself and against _cancel_followers).
THEOREM WatchersUnderControl == Spec => []WatchersControlled
<1>1. TypeOK /\ WatchInv => WatchersControlled
  BY DEF WatchInv, LiveInSlot, NobodyAfter, OverModes, WatchersControlled, OneWatcherPerSim,
         NothingLeftRunning
<1> QED
  BY TypeInit, TypeStep, WatchInit, WatchStep, <1>1, PTL DEF Spec

-----------------------------------------------------------------------------
(* The inductive invariant: what holds as long as Remembers does. *)

RoomIds == {room[i].id : i \in 1 .. Len(room)}

\* Memory and file agree, and no id takes two places in them.
StoreSound(s) ==
    /\ ~s.torn /\ s.mem = s.disk /\ s.order = s.diskOrder
    /\ \A i \in 1 .. Len(s.order) : s.order[i] \in RoomIds /\ IsRecord(s.mem[s.order[i]])
    /\ \A i, j \in 1 .. Len(s.order) : s.order[i] = s.order[j] => i = j

\* Whoever executes a command and has not recorded its outcome.
WorkPC == {"accept", "helloJob", "helloWait", "gate", "generate", "workflow", "sbatched",
           "submitted", "finish", "record", "fail", "recordFail"}
Working(t) == At(t) \in WorkPC

\* A command that was executed is in the store.
ExecutedOnce == \A c \in CmdIds : execs[c] <= 1 /\ (execs[c] # 0 => IsRecord(store.mem[c]))

\* It is pending while a task works on it, and only one does.
WorkIsPending ==
    \A t \in Tasks :
        /\ ~Idle(t) => IdOf(t) \in RoomIds
        /\ Working(t) => /\ store.mem[IdOf(t)].st = "pending"
                         /\ \A u \in Tasks : Working(u) /\ IdOf(u) = IdOf(t) => u = t

\* What an answer may say: nothing ahead of the record, nothing against it.
Grounded(a) ==
    IsRecord(store.mem[a.id]) /\ (a.st \in Completed => store.mem[a.id].st = a.st)

\* Every ack in the room, or about to be sent, is grounded.
AnswersGrounded ==
    /\ \A a \in acks : Grounded(a)
    /\ \A t \in Tasks : At(t) \in {"ack", "accept"} => Grounded(task[t].reply)

\* A failure that was announced is not turned into a success later.
FailuresStand ==
    \A e \in events : e.st = "failed" =>
        /\ store.mem[e.id].st \in {"pending", "failed"}
        /\ \A t \in Tasks : Working(t) /\ IdOf(t) = e.id => At(t) = "recordFail"

Recalls ==
    StoreSound(store) /\ ExecutedOnce /\ WorkIsPending /\ AnswersGrounded /\ FailuresStand

LedgerInv == Remembers => Recalls

-----------------------------------------------------------------------------
(* The store. *)

\* As many ids are posted as the room has, and no more.
LEMMA RoomFinite ==
  ASSUME room \in Seq(Commands) PROVE IsFiniteSet(RoomIds) /\ RoomIds \subseteq CmdIds
<1>1. Len(room) \in Nat /\ \A i \in 1 .. Len(room) : room[i] \in Commands
  OBVIOUS
<1> DEFINE f == [i \in 1 .. Len(room) |-> room[i].id]
<1>2. f \in Surjection(1 .. Len(room), RoomIds)
  BY DEF Surjection, RoomIds
<1>3. IsFiniteSet(1 .. Len(room))
  BY <1>1, FS_Interval
<1>4. IsFiniteSet(RoomIds)
  BY <1>2, <1>3, FS_Surjection
<1>5. RoomIds \subseteq CmdIds
  BY <1>1, CommandFields DEF RoomIds
<1> QED
  BY <1>4, <1>5

\* A sequence of distinct posted ids fits into the store.
LEMMA OrderFits ==
  ASSUME room \in Seq(Commands), Remembers, NEW order \in Seq(CmdIds),
         \A i \in 1 .. Len(order) : order[i] \in RoomIds,
         \A i, j \in 1 .. Len(order) : order[i] = order[j] => i = j
  PROVE  Len(order) <= MaxProcessed
<1>1. Len(order) \in Nat /\ IsFiniteSet(RoomIds)
  BY RoomFinite
<1> DEFINE f == [i \in 1 .. Len(order) |-> order[i]]
<1>2. f \in Injection(1 .. Len(order), RoomIds)
  BY DEF Injection, IsInjective
<1>3. Cardinality(1 .. Len(order)) <= Cardinality(RoomIds)
  BY <1>1, <1>2, FS_Injection
<1>4. Cardinality(1 .. Len(order)) = Len(order)
  <2>1. PICK n \in Nat : n = Len(order)
    BY <1>1
  <2>2. Cardinality(1 .. n) = IF 1 > n THEN 0 ELSE n - 1 + 1
    BY FS_Interval
  <2>3. (IF 1 > n THEN 0 ELSE n - 1 + 1) = n
    OBVIOUS
  <2> QED
    BY <2>1, <2>2, <2>3
<1>5. Cardinality(RoomIds) <= MaxProcessed /\ Cardinality(RoomIds) \in Nat
  BY <1>1, FS_CardinalityType DEF Remembers, RoomIds
<1> QED
  BY <1>1, <1>3, <1>4, <1>5, StoreAssumption

\* A write that succeeds changes one record, in memory and on disk, and evicts none.
LEMMA PersistSound ==
  ASSUME room \in Seq(Commands), Remembers, NEW s \in Store, StoreSound(s),
         NEW id \in RoomIds, NEW r \in ProcessedCommand, IsRecord(r)
  PROVE  /\ StoreSound(Persist(s, id, r, "ok"))
         /\ Persist(s, id, r, "ok").mem = [s.mem EXCEPT ![id] = r]
         /\ Persist(s, id, r, "ok").disk = [s.disk EXCEPT ![id] = r]
<1> DEFINE a == AppendLine(s, id, r)
<1>0. /\ id \in CmdIds /\ s.mem \in [CmdIds -> ProcessedCommand] /\ s.order \in Seq(CmdIds)
      /\ ~s.torn /\ s.mem = s.disk /\ s.order = s.diskOrder
  BY RoomFinite DEF Store, StoreSound
<1>1. /\ a.mem = [s.mem EXCEPT ![id] = r] /\ a.disk = a.mem /\ ~a.torn
      /\ a.order = KeyOrder(s.order, s.mem, id) /\ a.diskOrder = a.order
  BY <1>0 DEF AppendLine
<1>2. /\ a.order \in Seq(CmdIds)
      /\ \A i \in 1 .. Len(a.order) : a.order[i] \in RoomIds /\ IsRecord(a.mem[a.order[i]])
      /\ \A i, j \in 1 .. Len(a.order) : a.order[i] = a.order[j] => i = j
  <2>1. \A c \in CmdIds : IsRecord(s.mem[c]) => IsRecord(a.mem[c])
    BY <1>0, <1>1
  <2>2. IsRecord(a.mem[id])
    BY <1>0, <1>1
  <2> HIDE DEF a
  <2>3. CASE IsRecord(s.mem[id])
    <3>1. a.order = s.order
      BY <1>1, <2>3 DEF KeyOrder
    <3>2. \A i \in 1 .. Len(s.order) : s.order[i] \in CmdIds
      BY <1>0
    <3> QED
      BY <1>0, <2>1, <3>1, <3>2 DEF StoreSound
  <2>4. CASE ~IsRecord(s.mem[id])
    <3>1. a.order = Append(s.order, id)
      BY <1>1, <2>4 DEF KeyOrder
    <3>2. /\ Len(a.order) = Len(s.order) + 1 /\ Len(s.order) \in Nat
          /\ a.order[Len(s.order) + 1] = id /\ a.order \in Seq(CmdIds)
          /\ \A i \in 1 .. Len(s.order) : a.order[i] = s.order[i] /\ s.order[i] \in CmdIds
      BY <1>0, <3>1
    <3>3. \A i \in 1 .. Len(s.order) : s.order[i] # id
      BY <2>4 DEF StoreSound
    <3>4. \A i \in 1 .. Len(a.order) : i = Len(s.order) + 1 \/ i \in 1 .. Len(s.order)
      BY <3>2
    <3>5. \A i \in 1 .. Len(a.order) : a.order[i] \in RoomIds /\ IsRecord(a.mem[a.order[i]])
      BY <2>1, <2>2, <3>2, <3>4 DEF StoreSound
    <3>6. \A i, j \in 1 .. Len(a.order) : a.order[i] = a.order[j] => i = j
      BY <3>2, <3>3, <3>4 DEF StoreSound
    <3> QED
      BY <3>2, <3>5, <3>6
  <2> QED
    BY <2>3, <2>4
<1>3. Len(a.order) <= MaxProcessed /\ Len(a.order) \in Nat
  BY <1>2, OrderFits
<1>4. Persist(s, id, r, "ok") = a
  BY <1>3, StoreAssumption DEF Persist
<1> HIDE DEF a
<1>5. StoreSound(a)
  BY <1>1, <1>2 DEF StoreSound
<1> QED
  BY <1>0, <1>1, <1>4, <1>5

-----------------------------------------------------------------------------
(* Sound memory was always sound. *)

\* A disk access that cost nothing went well.
LEMMA FreeAccess ==
  ASSUME faults \in [FaultKinds -> Nat], faults'["disk"] = 0
  PROVE  /\ \A n \in Nat : DiskAccess(n) => n = 0 /\ faults["disk"] = 0
         /\ \A w : Cost(w) = 0 => w = "ok"
         /\ \A w : Cost(w) \in Nat
  BY DEF DiskAccess, Cost, FaultKinds

\* A fault of another kind leaves the disk's count alone.
LEMMA OtherFault ==
  ASSUME faults \in [FaultKinds -> Nat], NEW k \in FaultKinds \ {"disk"}, faults' = Spend(k)
  PROVE  faults'["disk"] = faults["disk"]
  BY DEF Spend, FaultKinds

\* Faults are not taken back, and the room does not change.
LEMMA StillRemembers ==
  ASSUME TypeOK, [Next]_vars, Remembers' PROVE Remembers /\ room' = room
<1>0. faults \in [FaultKinds -> Nat] /\ faults'["disk"] = 0
  BY DEF TypeOK, Remembers
<1> USE DEF netVars
<1>1. CASE faults' = faults /\ room' = room
  BY <1>1 DEF Remembers
<1>2. ASSUME NEW n \in Nat, DiskAccess(n), room' = room PROVE Remembers /\ room' = room
  BY <1>0, <1>2, FreeAccess DEF Remembers
<1>3. ASSUME NEW k \in FaultKinds \ {"disk"}, faults' = Spend(k), room' = room
      PROVE  Remembers /\ room' = room
  BY <1>0, <1>3, OtherFault DEF Remembers
<1>4. ASSUME NEW t \in Tasks, NEW e \in 1 .. Len(room), Deliver(t, e)
      PROVE  Remembers /\ room' = room
  <2>1. room' = room
    BY <1>4 DEF Deliver
  <2>2. \A w, v : Cost(w) \in Nat /\ Cost(w) + Cost(v) \in Nat
    BY DEF Cost
  <2> QED
    BY <1>1, <1>2, <1>4, <2>1, <2>2 DEF Deliver, Replay, BeginHello, BeginSubmit, RejectSubmit
<1>5. ASSUME NEW t \in Tasks, HelloResult(t) \/ RecordFinished(t) \/ RecordFailure(t)
      PROVE  Remembers /\ room' = room
  <2>1. room' = room
    BY <1>5 DEF HelloResult, RecordFinished, RecordFailure
  <2>2. \A w : Cost(w) \in Nat
    BY DEF Cost
  <2> QED
    BY <1>2, <1>5, <2>1, <2>2 DEF HelloResult, RecordFinished, RecordFailure
<1>6. CASE Restart
  BY <1>2, <1>6 DEF Restart
<1>7. CASE Shutdown \/ Crash \/ \E t \in Tasks : TaskRaises(t)
  BY <1>3, <1>7 DEF Shutdown, Crash, TaskRaises, FaultKinds
<1>8. CASE UNCHANGED vars
  BY <1>1, <1>8 DEF vars
<1>9. ASSUME NEW t \in Tasks, \/ SendAck(t) \/ SendAccepted(t) \/ HelloSbatch(t)
                              \/ CancelDispatch(t) \/ CancelSubmit(t)
      PROVE  Remembers /\ room' = room
  BY <1>1, <1>9 DEF SendAck, SendAccepted, HelloSbatch, CancelDispatch, CancelSubmit
<1>10. ASSUME NEW t \in Tasks, \/ AcquireBuild(t) \/ Generate(t) \/ Sbatch(t) \/ WorkflowFails(t)
                               \/ WorkflowReturns(t) \/ Emit(t) \/ FollowLocked(t) \/ FollowReplaced(t)
      PROVE  Remembers /\ room' = room
  BY <1>1, <1>10 DEF AcquireBuild, Generate, Sbatch, WorkflowFails, WorkflowReturns, Emit,
     FollowLocked, FollowReplaced
<1>11. CASE \/ \E c \in Commands : WatcherEnds(c) \/ OrphanRuns(c)
            \/ GraceExpires \/ CancelFollowers \/ ServeReturns \/ ProcessExits
  BY <1>1, <1>11 DEF WatcherEnds, OrphanRuns, GraceExpires, CancelFollowers, ServeReturns,
     ProcessExits
<1> QED
  BY <1>4, <1>5, <1>6, <1>7, <1>8, <1>9, <1>10, <1>11 DEF Next, Handler, Build, Stop

-----------------------------------------------------------------------------
(* What the steps of the client do to what it recalls. *)

\* A task that ends, or goes on with its command: it does not start to work, it does
\* not come to another answer, and a failure on its way to the record stays one.
GoesOn(u) ==
    \/ task'[u].pc = "idle"
    \/ /\ task'[u].cmd = task[u].cmd /\ ~Idle(u)
       /\ task'[u].pc \in WorkPC => Working(u)
       /\ task'[u].pc \in WorkPC /\ At(u) = "recordFail" => task'[u].pc = "recordFail"
       /\ task'[u].pc \in {"ack", "accept"} =>
             At(u) \in {"ack", "accept"} /\ task'[u].reply = task[u].reply

\* Nothing is recorded: tasks go on, acks that were about to be sent arrive, and a
\* failure is announced by the task that will record it, or by one that ends.
LEMMA QuietRecalls ==
  ASSUME TypeOK, TypeOK', Recalls, room' = room, execs' = execs,
         store'.mem = store.mem, StoreSound(store'),
         \A u \in Tasks : GoesOn(u),
         \A a \in acks' : \/ a \in acks
                          \/ \E u \in Tasks : At(u) \in {"ack", "accept"} /\ a = task[u].reply,
         \A e \in events' : e.st = "failed" =>
            \/ e \in events
            \/ \E u \in Tasks : /\ At(u) = "fail" /\ e.id = IdOf(u)
                               /\ task'[u].pc \in {"idle", "recordFail"}
  PROVE  Recalls'
<1>1. RoomIds' = RoomIds
  BY DEF RoomIds
<1>2. StoreSound(store)'
  BY <1>1 DEF StoreSound
<1>3. ExecutedOnce'
  BY DEF Recalls, ExecutedOnce
<1>4. WorkIsPending'
  <2>1. ASSUME NEW t \in Tasks, task'[t].pc # "idle"
        PROVE  task'[t].cmd.id = IdOf(t) /\ IdOf(t) \in RoomIds
    BY <2>1 DEF GoesOn, Recalls, WorkIsPending, IdOf
  <2>2. \A t \in Tasks : task'[t].pc \in WorkPC => task'[t].pc # "idle" /\ Working(t)
    BY DEF GoesOn, WorkPC
  <2>3. \A t \in Tasks : task'[t].pc \in WorkPC =>
            /\ store.mem[IdOf(t)].st = "pending"
            /\ \A u \in Tasks : task'[u].pc \in WorkPC /\ IdOf(u) = IdOf(t) => u = t
    BY <2>2 DEF Recalls, WorkIsPending
  <2> QED
    BY <1>1, <2>1, <2>2, <2>3 DEF WorkIsPending, Idle, At, Working, IdOf
<1>5. AnswersGrounded'
  <2>1. \A a : Grounded(a) => (Grounded(a))'
    BY DEF Grounded
  <2>2. ASSUME NEW a \in acks' PROVE Grounded(a)
    BY <2>2 DEF Recalls, AnswersGrounded
  <2>3. ASSUME NEW t \in Tasks, task'[t].pc \in {"ack", "accept"}
        PROVE  Grounded(task[t].reply) /\ task'[t].reply = task[t].reply
    BY <2>3 DEF GoesOn, Recalls, AnswersGrounded
  <2> QED
    BY <2>2, <2>3 DEF AnswersGrounded, Grounded, At
<1>6. FailuresStand'
  <2> SUFFICES ASSUME NEW e \in events', e.st = "failed"
               PROVE  /\ store'.mem[e.id].st \in {"pending", "failed"}
                      /\ \A t \in Tasks : task'[t].pc \in WorkPC /\ task'[t].cmd.id = e.id
                                         => task'[t].pc = "recordFail"
    BY DEF FailuresStand, Working, At, IdOf
  <2>1. \A t \in Tasks : task'[t].pc \in WorkPC =>
            /\ Working(t) /\ IdOf(t) = task'[t].cmd.id /\ task'[t].pc # "idle"
            /\ At(t) = "recordFail" => task'[t].pc = "recordFail"
    BY DEF GoesOn, WorkPC, IdOf
  <2>2. CASE e \in events
    <3>1. /\ store.mem[e.id].st \in {"pending", "failed"}
          /\ \A t \in Tasks : Working(t) /\ IdOf(t) = e.id => At(t) = "recordFail"
      BY <2>2 DEF Recalls, FailuresStand
    <3> QED
      BY <2>1, <3>1
  <2>3. ASSUME NEW u \in Tasks, At(u) = "fail", e.id = IdOf(u),
               task'[u].pc \in {"idle", "recordFail"}
        PROVE  /\ store.mem[e.id].st = "pending"
               /\ \A t \in Tasks : task'[t].pc \in WorkPC /\ task'[t].cmd.id = e.id
                                  => task'[t].pc = "recordFail"
    <3>1. Working(u)
      BY <2>3 DEF Working, WorkPC
    <3>2. /\ store.mem[e.id].st = "pending"
          /\ \A t \in Tasks : Working(t) /\ IdOf(t) = e.id => t = u
      BY <2>3, <3>1 DEF Recalls, WorkIsPending
    <3> QED
      BY <2>1, <2>3, <3>2
  <2> QED
    BY <2>2, <2>3
<1> QED
  BY <1>2, <1>3, <1>4, <1>5, <1>6 DEF Recalls

\* A task records the outcome r of the command it works on, and works no more.
Recorded(t, r) ==
    /\ execs' = execs /\ acks' = acks /\ events' = events
    /\ Working(t) /\ OthersStay(t)
    /\ r.st \in Completed /\ (r.st = "finished" => At(t) # "recordFail")
    /\ StoreSound(store') /\ store'.mem = [store.mem EXCEPT ![IdOf(t)] = r]
    /\ \/ task'[t].pc = "idle"
       \/ task'[t].pc \in {"followLock", "followCancel"} /\ task'[t].cmd = task[t].cmd
       \/ /\ task'[t].pc = "ack" /\ task'[t].cmd = task[t].cmd
          /\ task'[t].reply.id = IdOf(t) /\ task'[t].reply.st = r.st

\* The record was pending, so nothing that was said of the command is contradicted.
LEMMA RecordedRecalls ==
  ASSUME TypeOK, TypeOK', Recalls, room' = room,
         NEW t \in Tasks, NEW r \in ProcessedCommand, Recorded(t, r)
  PROVE  Recalls'
<1> USE DEF Recorded
<1>0. /\ IdOf(t) \in CmdIds /\ store.mem \in [CmdIds -> ProcessedCommand]
      /\ store.mem[IdOf(t)].st = "pending" /\ IdOf(t) \in RoomIds /\ ~Idle(t)
      /\ \A u \in Tasks : Working(u) /\ IdOf(u) = IdOf(t) => u = t
  BY TaskFields DEF TypeOK, Store, Recalls, WorkIsPending, Working, WorkPC, Idle
<1>1. RoomIds' = RoomIds
  BY DEF RoomIds
<1>2. StoreSound(store)'
  BY <1>1 DEF StoreSound
<1>3. /\ \A c \in CmdIds : c # IdOf(t) => store'.mem[c] = store.mem[c]
      /\ store'.mem[IdOf(t)] = r /\ IsRecord(r)
  BY <1>0 DEF IsRecord, Completed
<1>4. ExecutedOnce'
  BY <1>3 DEF Recalls, ExecutedOnce
<1>5. task'[t].pc \notin WorkPC /\ \A u \in Tasks : u # t => task'[u] = task[u]
  BY DEF WorkPC, OthersStay
<1>6. WorkIsPending'
  <2>1. \A u \in Tasks : IdOf(u) \in CmdIds
    BY TaskFields DEF TypeOK
  <2>2. \A u \in Tasks : task'[u].pc \in WorkPC => u # t /\ task'[u] = task[u] /\ Working(u)
    BY <1>5 DEF Working, At
  <2>3. \A u \in Tasks : task'[u].pc # "idle" => task'[u].cmd.id = IdOf(u) /\ ~Idle(u)
    BY <1>0, <1>5 DEF Idle, At, IdOf
  <2>4. \A u \in Tasks : task'[u].pc # "idle" => IdOf(u) \in RoomIds
    BY <2>3 DEF Recalls, WorkIsPending
  <2>5. \A u \in Tasks : task'[u].pc \in WorkPC =>
           /\ store'.mem[IdOf(u)].st = "pending"
           /\ \A v \in Tasks : task'[v].pc \in WorkPC /\ IdOf(v) = IdOf(u) => v = u
    BY <1>0, <1>3, <2>1, <2>2 DEF Recalls, WorkIsPending
  <2>6. \A u \in Tasks : task'[u].pc \in WorkPC => task'[u].cmd.id = IdOf(u)
    BY <2>2 DEF IdOf
  <2> QED
    BY <1>1, <2>3, <2>4, <2>5, <2>6 DEF WorkIsPending, Idle, At, Working, IdOf
<1>7. \A a \in Acks : Grounded(a) =>
         IsRecord(store'.mem[a.id]) /\ (a.st \in Completed => store'.mem[a.id].st = a.st)
  BY <1>0, <1>3 DEF Grounded, Completed, Acks
<1>8. AnswersGrounded'
  <2>1. \A a \in acks : a \in Acks /\ Grounded(a)
    BY DEF TypeOK, Recalls, AnswersGrounded
  <2>2. ASSUME NEW u \in Tasks, u # t, task'[u].pc \in {"ack", "accept"}
        PROVE  /\ task'[u].reply = task[u].reply /\ task[u].reply \in Acks
               /\ Grounded(task[u].reply)
    BY <1>5, <2>2, TaskFields DEF TypeOK, Recalls, AnswersGrounded, At
  <2>3. task'[t].pc \in {"ack", "accept"} =>
           /\ IsRecord(store'.mem[task'[t].reply.id])
           /\ task'[t].reply.st \in Completed
                => store'.mem[task'[t].reply.id].st = task'[t].reply.st
    BY <1>3
  <2> QED
    BY <1>7, <2>1, <2>2, <2>3 DEF AnswersGrounded, Grounded, At
<1>9. FailuresStand'
  <2> SUFFICES ASSUME NEW e \in events, e.st = "failed"
               PROVE  /\ store'.mem[e.id].st \in {"pending", "failed"}
                      /\ \A u \in Tasks : task'[u].pc \in WorkPC /\ task'[u].cmd.id = e.id
                                         => task'[u].pc = "recordFail"
    BY DEF FailuresStand, Working, At, IdOf
  <2>1. /\ store.mem[e.id].st \in {"pending", "failed"} /\ e.id \in CmdIds
        /\ \A u \in Tasks : Working(u) /\ IdOf(u) = e.id => At(u) = "recordFail"
    BY DEF Recalls, FailuresStand, TypeOK, Events
  <2>2. e.id = IdOf(t) => r.st = "failed"
    BY <2>1 DEF Completed
  <2>3. store'.mem[e.id].st \in {"pending", "failed"}
    BY <1>3, <2>1, <2>2
  <2> QED
    BY <1>5, <2>1, <2>3 DEF Working, At, IdOf
<1> QED
  BY <1>2, <1>4, <1>6, <1>8, <1>9 DEF Recalls

\* A new command c is recorded by r and taken to its first await.
Taken(t, c, r) ==
    /\ acks' = acks /\ events' = events /\ execs' = [execs EXCEPT ![c.id] = @ + 1]
    /\ Idle(t) /\ OthersStay(t) /\ c.id \in RoomIds /\ ~Known(c)
    /\ StoreSound(store') /\ store'.mem = [store.mem EXCEPT ![c.id] = r]
    /\ task'[t].cmd = c
    /\ \/ r.st = "pending" /\ task'[t].pc = "helloJob"
       \/ /\ r.st = "pending" /\ task'[t].pc = "accept"
          /\ task'[t].reply.id = c.id /\ task'[t].reply.st = "accepted"
       \/ /\ r.st = "failed" /\ task'[t].pc = "ack"
          /\ task'[t].reply.id = c.id /\ task'[t].reply.st = "failed"

\* The new command is pending, or refused, and nobody worked on it before.
LEMMA TakenRecalls ==
  ASSUME TypeOK, TypeOK', Recalls, room' = room,
         NEW t \in Tasks, NEW c \in Commands, NEW r \in ProcessedCommand, Taken(t, c, r)
  PROVE  Recalls'
<1> USE DEF Taken
<1>0. /\ c.id \in CmdIds /\ store.mem \in [CmdIds -> ProcessedCommand]
      /\ execs \in [CmdIds -> Nat] /\ ~IsRecord(store.mem[c.id])
  BY CommandFields DEF TypeOK, Store, Known
<1>1. RoomIds' = RoomIds
  BY DEF RoomIds
<1>2. StoreSound(store)'
  BY <1>1 DEF StoreSound
<1>3. /\ \A d \in CmdIds : d # c.id => store'.mem[d] = store.mem[d]
      /\ store'.mem[c.id] = r /\ IsRecord(r)
  BY <1>0 DEF IsRecord
<1>4. ExecutedOnce'
  <2>1. execs[c.id] = 0
    BY <1>0 DEF Recalls, ExecutedOnce
  <2>2. \A d \in CmdIds : execs'[d] = IF d = c.id THEN 1 ELSE execs[d]
    BY <1>0, <2>1
  <2> QED
    BY <1>0, <1>3, <2>2 DEF Recalls, ExecutedOnce
<1>5. \A u \in Tasks : IdOf(u) \in CmdIds /\ (u # t => task'[u] = task[u])
  BY TaskFields DEF TypeOK, OthersStay
<1>6. \A u \in Tasks : Working(u) => IdOf(u) # c.id /\ u # t
  <2>1. ASSUME NEW u \in Tasks, Working(u) PROVE store.mem[IdOf(u)].st = "pending" /\ ~Idle(u)
    BY <2>1 DEF Recalls, WorkIsPending, Working, WorkPC, Idle
  <2> QED
    BY <1>0, <2>1 DEF IsRecord
<1>7. WorkIsPending'
  <2>1. \A u \in Tasks : u # t =>
          /\ task'[u].cmd.id = IdOf(u) /\ (task'[u].pc # "idle" => IdOf(u) \in RoomIds)
          /\ task'[u].pc \in WorkPC => Working(u) /\ IdOf(u) # c.id
    BY <1>5, <1>6 DEF Recalls, WorkIsPending, Idle, At, Working, IdOf
  <2>2. \A u \in Tasks : u # t /\ task'[u].pc \in WorkPC =>
          /\ store'.mem[IdOf(u)].st = "pending"
          /\ \A v \in Tasks : v # t /\ task'[v].pc \in WorkPC /\ IdOf(v) = IdOf(u) => v = u
    BY <1>3, <1>5, <2>1 DEF Recalls, WorkIsPending
  <2>3. task'[t].pc \in WorkPC => r.st = "pending"
    BY DEF WorkPC
  <2> QED
    BY <1>1, <1>3, <2>1, <2>2, <2>3 DEF WorkIsPending, Idle, At, Working, IdOf
<1>8. \A a \in Acks : Grounded(a) =>
         IsRecord(store'.mem[a.id]) /\ (a.st \in Completed => store'.mem[a.id].st = a.st)
  BY <1>0, <1>3 DEF Grounded, Acks
<1>9. AnswersGrounded'
  <2>1. \A a \in acks : a \in Acks /\ Grounded(a)
    BY DEF TypeOK, Recalls, AnswersGrounded
  <2>2. ASSUME NEW u \in Tasks, u # t, task'[u].pc \in {"ack", "accept"}
        PROVE  /\ task'[u].reply = task[u].reply /\ task[u].reply \in Acks
               /\ Grounded(task[u].reply)
    BY <1>5, <2>2, TaskFields DEF TypeOK, Recalls, AnswersGrounded, At
  <2>3. task'[t].pc \in {"ack", "accept"} =>
           /\ IsRecord(store'.mem[task'[t].reply.id])
           /\ task'[t].reply.st \in Completed
                => store'.mem[task'[t].reply.id].st = task'[t].reply.st
    BY <1>3 DEF Completed
  <2> QED
    BY <1>8, <2>1, <2>2, <2>3 DEF AnswersGrounded, Grounded, At
<1>10. FailuresStand'
  <2> SUFFICES ASSUME NEW e \in events, e.st = "failed"
               PROVE  /\ store'.mem[e.id].st \in {"pending", "failed"}
                      /\ \A u \in Tasks : task'[u].pc \in WorkPC /\ task'[u].cmd.id = e.id
                                         => task'[u].pc = "recordFail"
    BY DEF FailuresStand, Working, At, IdOf
  <2>1. /\ store.mem[e.id].st \in {"pending", "failed"} /\ e.id \in CmdIds
        /\ \A u \in Tasks : Working(u) /\ IdOf(u) = e.id => At(u) = "recordFail"
    BY DEF Recalls, FailuresStand, TypeOK, Events
  <2>2. e.id # c.id
    BY <1>0, <2>1 DEF IsRecord
  <2> QED
    BY <1>3, <1>5, <2>1, <2>2 DEF Working, At, IdOf
<1> QED
  BY <1>2, <1>4, <1>7, <1>9, <1>10 DEF Recalls

\* A known command is answered from its record.
LEMMA ReplayedRecalls ==
  ASSUME TypeOK, TypeOK', Recalls, room' = room, acks' = acks, events' = events,
         execs' = execs, store' = store,
         NEW t \in Tasks, Idle(t), OthersStay(t), NEW c \in Commands, c.id \in RoomIds,
         Known(c), task'[t].cmd = c, task'[t].pc = "ack",
         task'[t].reply = ReplayAck(c, store.mem[c.id])
  PROVE  Recalls'
<1>1. RoomIds' = RoomIds
  BY DEF RoomIds
<1>2. StoreSound(store)'
  BY <1>1 DEF Recalls, StoreSound
<1>3. ExecutedOnce'
  BY DEF Recalls, ExecutedOnce
<1>4. \A u \in Tasks : u # t => task'[u] = task[u]
  BY DEF OthersStay
<1>5. task'[t].pc \notin WorkPC /\ ~Working(t)
  BY DEF WorkPC, Working, Idle
<1>6. WorkIsPending'
  BY <1>1, <1>4, <1>5 DEF Recalls, WorkIsPending, Idle, At, Working, IdOf
<1>7. Grounded(ReplayAck(c, store.mem[c.id]))
  <2>1. IsRecord(store.mem[c.id])
    BY DEF Known
  <2>2. /\ ReplayAck(c, store.mem[c.id]).id = c.id
        /\ \/ ReplayAck(c, store.mem[c.id]).st \in {"conflict", "unknown"}
           \/ ReplayAck(c, store.mem[c.id]).st = store.mem[c.id].st
    BY DEF ReplayAck, Ack
  <2> QED
    BY <2>1, <2>2 DEF Grounded, Completed
<1>8. AnswersGrounded'
  <2>1. \A u \in Tasks : task'[u].pc \in {"ack", "accept"} => Grounded(task'[u].reply)
    BY <1>4, <1>7 DEF Recalls, AnswersGrounded, At
  <2> QED
    BY <2>1 DEF Recalls, AnswersGrounded, Grounded, At
<1>9. FailuresStand'
  BY <1>4, <1>5 DEF Recalls, FailuresStand, Working, At, IdOf
<1> QED
  BY <1>2, <1>3, <1>6, <1>8, <1>9 DEF Recalls

-----------------------------------------------------------------------------
(* What the same steps are to the ledger. *)

LedgerStep == Ledger!Next \/ UNCHANGED Ledger!vars

\* Nothing recorded and nothing said: the ledger does not notice.
LEMMA LedgerStutter ==
  ASSUME Remembers, Remembers', store'.disk = store.disk, acks' = acks
  PROVE  LedgerStep
  BY DEF LedgerStep, Ledger!vars, IsRecord

\* A grounded ack arrives.
LEMMA LedgerAnswer ==
  ASSUME TypeOK, Recalls, Remembers, Remembers', store'.disk = store.disk,
         NEW a \in Acks, Grounded(a), acks' = acks \cup {a}
  PROVE  LedgerStep
<1> DEFINE L == [c \in CmdIds |-> IF IsRecord(store.disk[c]) THEN store.disk[c].st ELSE "new"]
           A == {[id |-> x.id, st |-> x.st] : x \in acks}
<1>1. a.id \in CmdIds /\ a.st \in AckStates /\ store.disk = store.mem
  BY DEF Acks, Recalls, StoreSound
<1>2. L[a.id] # "new" /\ (a.st \in Completed => L[a.id] = a.st)
  <2>1. L[a.id] = store.mem[a.id].st /\ IsRecord(store.mem[a.id])
    BY <1>1 DEF Grounded
  <2>2. store.mem[a.id].st \in RecordStates
    BY <1>1 DEF TypeOK, Store, ProcessedCommand
  <2> QED
    BY <2>1, <2>2 DEF Grounded, RecordStates
<1>3. A' = A \cup {[id |-> a.id, st |-> a.st]}
  OBVIOUS
<1>4. L' = L
  BY DEF IsRecord
<1> HIDE DEF L, A
<1>5. Ledger!Answer(a.id, a.st)
  BY <1>2, <1>3, <1>4 DEF Ledger!Answer, Ledger!Outcomes, L, A, Completed
<1> QED
  BY <1>1, <1>5 DEF LedgerStep, Ledger!Next, Ledger!Outcomes, AckStates

\* A record is written: the command is taken on, or decided.
LEMMA LedgerRecord ==
  ASSUME TypeOK, Recalls, Remembers, Remembers', acks' = acks,
         NEW id \in CmdIds, NEW r \in ProcessedCommand,
         store'.disk = [store.disk EXCEPT ![id] = r],
         \/ r.st = "pending" /\ ~IsRecord(store.mem[id])
         \/ r.st = "failed" /\ ~IsRecord(store.mem[id])
         \/ r.st \in Completed /\ store.mem[id].st = "pending"
  PROVE  LedgerStep
<1> DEFINE L == [c \in CmdIds |-> IF IsRecord(store.disk[c]) THEN store.disk[c].st ELSE "new"]
           A == {[id |-> x.id, st |-> x.st] : x \in acks}
<1>1. store.disk \in [CmdIds -> ProcessedCommand] /\ store.disk = store.mem
  BY DEF TypeOK, Store, Recalls, StoreSound
<1>2. L' = [L EXCEPT ![id] = r.st]
  <2>1. IsRecord(r)
    BY DEF IsRecord, Completed
  <2>2. \A c \in CmdIds : store'.disk[c] = IF c = id THEN r ELSE store.disk[c]
    BY <1>1
  <2>3. L' = [c \in CmdIds |-> IF IsRecord(store'.disk[c]) THEN store'.disk[c].st ELSE "new"]
    BY DEF IsRecord
  <2> QED
    BY <2>1, <2>2, <2>3
<1>3. L[id] = IF IsRecord(store.mem[id]) THEN store.mem[id].st ELSE "new"
  BY <1>1
<1>4. A' = A
  OBVIOUS
<1> HIDE DEF L, A
<1>5. CASE r.st = "pending"
  <2>1. Ledger!Open(id)
    BY <1>2, <1>3, <1>4, <1>5 DEF Ledger!Open, L, A, Completed
  <2> QED
    BY <2>1 DEF LedgerStep, Ledger!Next
<1>6. CASE r.st \in Completed
  <2>1. L[id] = "pending" \/ (L[id] = "new" /\ r.st = "failed")
    BY <1>3, <1>6 DEF IsRecord, Completed
  <2>2. Ledger!Decide(id, r.st)
    BY <1>2, <1>4, <2>1 DEF Ledger!Decide, L, A
  <2> QED
    BY <1>6, <2>2 DEF LedgerStep, Ledger!Next, Ledger!Outcomes, Completed
<1> QED
  BY <1>5, <1>6 DEF Completed

-----------------------------------------------------------------------------
(* The steps, one by one. *)

\* The hypotheses of every step: memory is sound before and after it.
SoundStep == TypeOK /\ TypeOK' /\ Recalls /\ Remembers /\ Remembers' /\ room' = room

\* A write that cost nothing put one record in its place.
LEMMA FreeWrite ==
  ASSUME SoundStep, NEW s \in Store, StoreSound(s), NEW id \in RoomIds, NEW w,
         NEW r \in ProcessedCommand, IsRecord(r), DiskAccess(Cost(w))
  PROVE  /\ StoreSound(Persist(s, id, r, w))
         /\ Persist(s, id, r, w).mem = [s.mem EXCEPT ![id] = r]
         /\ Persist(s, id, r, w).disk = [s.disk EXCEPT ![id] = r]
<1>1. faults \in [FaultKinds -> Nat] /\ faults'["disk"] = 0 /\ room \in Seq(Commands)
  BY DEF SoundStep, TypeOK, Remembers
<1>2. w = "ok"
  BY <1>1, FreeAccess
<1> QED
  BY <1>1, <1>2, PersistSound DEF SoundStep

\* A step of one task in which nothing is recorded or said.
LEMMA TaskStep ==
  ASSUME SoundStep, UNCHANGED <<store, execs, acks, events>>, NEW t \in Tasks, OthersStay(t),
         GoesOn(t)
  PROVE  Recalls' /\ LedgerStep
<1>1. \A u \in Tasks : GoesOn(u)
  BY DEF OthersStay, GoesOn, Idle, At, Working
<1>2. StoreSound(store')
  BY DEF SoundStep, Recalls
<1>3. Recalls'
  BY <1>1, <1>2, QuietRecalls DEF SoundStep
<1>4. LedgerStep
  BY LedgerStutter DEF SoundStep
<1> QED
  BY <1>3, <1>4

\* The room's commands are commands, and their ids posted ids.
LEMMA PostedCommand ==
  ASSUME SoundStep, NEW e \in 1 .. Len(room) PROVE room[e] \in Commands /\ room[e].id \in RoomIds
  BY DEF SoundStep, TypeOK, RoomIds

\* What a task that takes up a command looks like.
LEMMA AnswerEffects ==
  ASSUME SoundStep, NEW t \in Tasks, NEW c \in Commands, NEW where \in PC, NEW ack \in Acks,
         Answer(t, c, where, ack)
  PROVE  /\ task'[t].pc = where /\ task'[t].cmd = c /\ task'[t].reply = ack /\ OthersStay(t)
<1>1. task \in [Tasks -> Task]
  BY DEF SoundStep, TypeOK
<1>2. [IdleTask EXCEPT !.pc = where, !.cmd = c, !.reply = ack].reply = ack
  BY IdleTaskType DEF Task
<1> QED
  BY <1>1, <1>2, AnswerType DEF Answer, OthersStay

\* handle(): a command is answered from its record, or taken on.
LEMMA DeliverStep ==
  ASSUME SoundStep, NEW t \in Tasks, NEW e \in 1 .. Len(room), Deliver(t, e)
  PROVE  Recalls' /\ LedgerStep
<1>c. PICK c : c = room[e]
  OBVIOUS
<1>0. /\ c \in Commands /\ c.id \in RoomIds /\ c.id \in CmdIds /\ c.hash \in Hashes
      /\ store \in Store /\ StoreSound(store) /\ store.mem[c.id] \in ProcessedCommand
      /\ faults \in [FaultKinds -> Nat] /\ faults'["disk"] = 0
  BY <1>c, PostedCommand, CommandFields DEF SoundStep, TypeOK, Recalls, Store, Remembers
<1>1. /\ Idle(t) /\ UNCHANGED <<acks, events>>
      /\ \/ Replay(t, c)
         \/ /\ ~Known(c) /\ execs' = [execs EXCEPT ![c.id] = @ + 1]
            /\ BeginHello(t, c) \/ BeginSubmit(t, c) \/ RejectSubmit(t, c)
  BY <1>c DEF Deliver
<1>h. TypeOK /\ TypeOK' /\ Recalls /\ room' = room /\ acks' = acks /\ events' = events /\ Idle(t)
  BY <1>1 DEF SoundStep
<1>p. {"ack", "accept", "helloJob"} \subseteq PC
  BY DEF PC, DispatchPC
<1>2. CASE Replay(t, c)
  <2>1. ReplayAck(c, store.mem[c.id]) \in Acks
    BY <1>0, <1>2, AckType
    DEF ReplayAck, Replay, Known, IsRecord, ProcessedCommand, RecordStates, AckStates
  <2>2. /\ task'[t].pc = "ack" /\ task'[t].cmd = c /\ OthersStay(t)
        /\ task'[t].reply = ReplayAck(c, store.mem[c.id])
    BY <1>0, <1>p, <1>2, <2>1, AnswerEffects DEF Replay
  <2>3. Recalls'
    BY <1>0, <1>1, <1>2, <2>2, ReplayedRecalls DEF Replay, SoundStep
  <2> QED
    BY <1>1, <1>2, <2>3, LedgerStutter DEF Replay, SoundStep
<1> DEFINE Pending == [st |-> "pending", hash |-> c.hash, job |-> FALSE]
           Failed == [st |-> "failed", hash |-> c.hash, job |-> FALSE]
<1>r. /\ Pending \in ProcessedCommand /\ IsRecord(Pending) /\ Pending.st = "pending"
      /\ Failed \in ProcessedCommand /\ IsRecord(Failed) /\ Failed.st = "failed"
  BY <1>0, RecordType DEF IsRecord
<1>3. CASE ~Known(c) /\ execs' = [execs EXCEPT ![c.id] = @ + 1] /\ BeginHello(t, c)
  <2>1. PICK w \in WriteOutcomes : DiskAccess(Cost(w)) /\ store' = Persist(store, c.id, Pending, w)
    BY <1>3 DEF BeginHello, PendingStore
  <2> HIDE DEF Pending
  <2>2. /\ StoreSound(store') /\ store'.mem = [store.mem EXCEPT ![c.id] = Pending]
        /\ store'.disk = [store.disk EXCEPT ![c.id] = Pending]
    BY <1>0, <1>r, <2>1, FreeWrite
  <2>3. IdleTask.reply \in Acks
    BY IdleTaskType DEF Task
  <2>4. task'[t].pc = "helloJob" /\ task'[t].cmd = c /\ OthersStay(t)
    BY <1>0, <1>p, <1>3, <2>3, AnswerEffects DEF BeginHello
  <2>t. Taken(t, c, Pending)
    BY <1>0, <1>h, <1>r, <1>3, <2>2, <2>4 DEF Taken
  <2>5. Recalls'
    BY <1>0, <1>h, <1>r, <2>t, TakenRecalls
  <2> QED
    BY <1>0, <1>1, <1>r, <1>3, <2>2, <2>5, LedgerRecord DEF SoundStep, Known
<1>4. CASE ~Known(c) /\ execs' = [execs EXCEPT ![c.id] = @ + 1] /\ BeginSubmit(t, c)
  <2>1. PICK w \in WriteOutcomes : DiskAccess(Cost(w)) /\ store' = Persist(store, c.id, Pending, w)
    BY <1>4 DEF BeginSubmit, PendingStore
  <2> HIDE DEF Pending
  <2>2. /\ StoreSound(store') /\ store'.mem = [store.mem EXCEPT ![c.id] = Pending]
        /\ store'.disk = [store.disk EXCEPT ![c.id] = Pending]
    BY <1>0, <1>r, <2>1, FreeWrite
  <2>3. Ack(c.id, "accepted", FALSE) \in Acks
    BY <1>0, AckType DEF AckStates
  <2>4. /\ task'[t].pc = "accept" /\ task'[t].cmd = c /\ OthersStay(t)
        /\ task'[t].reply = Ack(c.id, "accepted", FALSE)
    BY <1>0, <1>p, <1>4, <2>3, AnswerEffects DEF BeginSubmit
  <2>5. task'[t].reply.id = c.id /\ task'[t].reply.st = "accepted"
    BY <2>4 DEF Ack
  <2>t. Taken(t, c, Pending)
    BY <1>0, <1>h, <1>r, <1>4, <2>2, <2>4, <2>5 DEF Taken
  <2>6. Recalls'
    BY <1>0, <1>h, <1>r, <2>t, TakenRecalls
  <2> QED
    BY <1>0, <1>1, <1>r, <1>4, <2>2, <2>6, LedgerRecord DEF SoundStep, Known
<1>5. CASE ~Known(c) /\ execs' = [execs EXCEPT ![c.id] = @ + 1] /\ RejectSubmit(t, c)
  <2>1. PICK w, v \in WriteOutcomes :
           /\ DiskAccess(Cost(w) + Cost(v))
           /\ store' = Persist(Persist(store, c.id, Pending, w), c.id, Failed, v)
    BY <1>5 DEF RejectSubmit, PendingStore
  <2>2. w = "ok" /\ v = "ok"
    <3>1. Cost(w) \in {0, 1} /\ Cost(v) \in {0, 1}
      BY DEF Cost
    <3>2. Cost(w) + Cost(v) = 0
      BY <1>0, <2>1, <3>1, FreeAccess
    <3>3. Cost(w) = 0 /\ Cost(v) = 0
      BY <3>1, <3>2
    <3> QED
      BY <1>0, <3>3, FreeAccess
  <2> DEFINE one == Persist(store, c.id, Pending, "ok")
  <2> HIDE DEF Pending, Failed
  <2>r. room \in Seq(Commands) /\ Remembers
    BY DEF SoundStep, TypeOK
  <2>3. one \in Store /\ StoreSound(one) /\ one.mem = [store.mem EXCEPT ![c.id] = Pending]
        /\ one.disk = [store.disk EXCEPT ![c.id] = Pending]
    BY <1>0, <1>r, <2>r, PersistSound, PersistType, SMTT(30)
  <2> HIDE DEF one
  <2>4. /\ StoreSound(Persist(one, c.id, Failed, "ok"))
        /\ Persist(one, c.id, Failed, "ok").mem = [one.mem EXCEPT ![c.id] = Failed]
        /\ Persist(one, c.id, Failed, "ok").disk = [one.disk EXCEPT ![c.id] = Failed]
    BY <1>0, <1>r, <2>r, <2>3, PersistSound
  <2>5. store' = Persist(one, c.id, Failed, "ok")
    BY <2>1, <2>2 DEF one
  <2>m. store.mem \in [CmdIds -> ProcessedCommand] /\ store.disk \in [CmdIds -> ProcessedCommand]
    BY <1>0 DEF Store
  <2>6. /\ StoreSound(store') /\ store'.mem = [store.mem EXCEPT ![c.id] = Failed]
        /\ store'.disk = [store.disk EXCEPT ![c.id] = Failed]
    BY <1>0, <2>3, <2>4, <2>5, <2>m
  <2>7. Ack(c.id, "failed", FALSE) \in Acks
    BY <1>0, AckType DEF AckStates
  <2>8. /\ task'[t].pc = "ack" /\ task'[t].cmd = c /\ OthersStay(t)
        /\ task'[t].reply = Ack(c.id, "failed", FALSE)
    BY <1>0, <1>p, <1>5, <2>7, AnswerEffects DEF RejectSubmit
  <2>9. task'[t].reply.id = c.id /\ task'[t].reply.st = "failed"
    BY <2>8 DEF Ack
  <2>t. Taken(t, c, Failed)
    BY <1>0, <1>h, <1>r, <1>5, <2>6, <2>8, <2>9 DEF Taken
  <2>10. Recalls'
    BY <1>0, <1>h, <1>r, <2>t, TakenRecalls
  <2> QED
    BY <1>0, <1>1, <1>r, <1>5, <2>6, <2>10, LedgerRecord DEF SoundStep, Known
<1> QED
  BY <1>1, <1>2, <1>3, <1>4, <1>5

\* A task that ends goes on, as far as the record is concerned.
LEMMA EndGoesOn ==
  ASSUME SoundStep, NEW t \in Tasks, EndTask(t) PROVE OthersStay(t) /\ GoesOn(t)
  BY EndTaskType DEF SoundStep, TypeOK, OthersStay, GoesOn

\* So does one that moves on among the awaits of its work.
LEMMA GotoGoesOn ==
  ASSUME SoundStep, NEW t \in Tasks, NEW where \in PC \ {"ack", "accept"}, Goto(t, where),
         Working(t), At(t) # "recordFail"
  PROVE  OthersStay(t) /\ GoesOn(t) /\ task'[t].pc = where
<1>1. /\ task'[t].pc = where /\ task'[t].cmd = task[t].cmd
      /\ \A u \in Tasks : u # t => task'[u] = task[u]
  BY GotoType DEF SoundStep, TypeOK
<1>2. ~Idle(t)
  BY DEF Working, WorkPC, Idle
<1> QED
  BY <1>1, <1>2 DEF OthersStay, GoesOn

\* The ack a task was about to send arrives.
LEMMA SayStep ==
  ASSUME SoundStep, UNCHANGED <<store, execs, events>>, NEW t \in Tasks, OthersStay(t), GoesOn(t),
         At(t) \in {"ack", "accept"}, acks' = acks \cup {task[t].reply}
  PROVE  Recalls' /\ LedgerStep
<1>1. \A u \in Tasks : GoesOn(u)
  BY DEF OthersStay, GoesOn, Idle, At, Working
<1>2. StoreSound(store')
  BY DEF SoundStep, Recalls
<1>3. Recalls'
  BY <1>1, <1>2, QuietRecalls DEF SoundStep
<1>4. Grounded(task[t].reply) /\ task[t].reply \in Acks
  BY TaskFields DEF SoundStep, TypeOK, Recalls, AnswersGrounded
<1>5. LedgerStep
  BY <1>4, LedgerAnswer DEF SoundStep
<1> QED
  BY <1>3, <1>5

\* A lifecycle event arrives; a failure comes from the task that is to record it.
LEMMA TellStep ==
  ASSUME SoundStep, UNCHANGED <<store, execs, acks>>, NEW t \in Tasks, OthersStay(t), GoesOn(t),
         NEW e, events' = events \cup {e}, e.id = IdOf(t),
         e.st = "failed" => At(t) = "fail" /\ task'[t].pc \in {"idle", "recordFail"}
  PROVE  Recalls' /\ LedgerStep
<1>1. \A u \in Tasks : GoesOn(u)
  BY DEF OthersStay, GoesOn, Idle, At, Working
<1>2. StoreSound(store')
  BY DEF SoundStep, Recalls
<1>3. Recalls'
  BY <1>1, <1>2, QuietRecalls DEF SoundStep
<1>4. LedgerStep
  BY LedgerStutter DEF SoundStep
<1> QED
  BY <1>3, <1>4

\* The later steps of a handler, and its end.
LEMMA HandlerStep ==
  ASSUME SoundStep, NEW t \in Tasks, Handler(t) \/ TaskRaises(t) \/ CancelDispatch(t)
  PROVE  Recalls' /\ LedgerStep
<1> USE DEF netVars, storeVars
<1>0. /\ task \in [Tasks -> Task] /\ task[t] \in Task /\ store \in Store /\ StoreSound(store)
      /\ IdOf(t) \in CmdIds /\ SimOf(t) \in Hashes
  BY TaskFields DEF SoundStep, TypeOK, Recalls
<1>1. CASE SendAck(t)
  BY <1>1, EndGoesOn, SayStep DEF SendAck
<1>2. CASE SendAccepted(t)
  <2>1. OthersStay(t) /\ GoesOn(t)
    BY <1>2, GotoGoesOn DEF SendAccepted, Working, WorkPC, PC, SubmitPC
  <2> QED
    BY <1>2, <2>1, SayStep DEF SendAccepted
<1>3. CASE HelloSbatch(t)
  <2>1. OthersStay(t) /\ GoesOn(t)
    BY <1>3, GotoGoesOn DEF HelloSbatch, Working, WorkPC, PC, DispatchPC
  <2> QED
    BY <1>3, <2>1, TaskStep DEF HelloSbatch
<1>4. CASE HelloResult(t)
  <2> DEFINE j == At(t) = "helloWait"
  <2>1. PICK st \in Completed, w \in WriteOutcomes :
           /\ DiskAccess(Cost(w))
           /\ store' = Persist(store, IdOf(t), [st |-> st, hash |-> SimOf(t), job |-> j], w)
           /\ task' = [task EXCEPT ![t].pc = "ack", ![t].reply = Ack(IdOf(t), st, j)]
    BY <1>4 DEF HelloResult, Completed
  <2>2. j \in BOOLEAN
    OBVIOUS
  <2> HIDE DEF j
  <2>3. PICK r : r = [st |-> st, hash |-> SimOf(t), job |-> j]
    OBVIOUS
  <2>4. r \in ProcessedCommand /\ IsRecord(r) /\ r.st = st
    BY <1>0, <2>2, <2>3, RecordType DEF Completed, IsRecord
  <2>5. Working(t) /\ At(t) # "recordFail" /\ IdOf(t) \in RoomIds /\ store.mem[IdOf(t)].st = "pending"
    <3>1. Working(t) /\ At(t) # "recordFail" /\ ~Idle(t)
      BY <1>4 DEF HelloResult, Working, WorkPC, Idle
    <3> QED
      BY <3>1 DEF SoundStep, Recalls, WorkIsPending
  <2>6. /\ StoreSound(store') /\ store'.mem = [store.mem EXCEPT ![IdOf(t)] = r]
        /\ store'.disk = [store.disk EXCEPT ![IdOf(t)] = r]
    BY <1>0, <2>1, <2>3, <2>4, <2>5, FreeWrite
  <2>7. /\ task'[t].pc = "ack" /\ task'[t].cmd = task[t].cmd /\ OthersStay(t)
        /\ task'[t].reply = Ack(IdOf(t), st, j)
    BY <1>0, <2>1 DEF OthersStay, Task
  <2>8. task'[t].reply.id = IdOf(t) /\ task'[t].reply.st = r.st
    BY <2>4, <2>7 DEF Ack
  <2>9. UNCHANGED <<execs, acks, events>>
    BY <1>4 DEF HelloResult
  <2>10. Recorded(t, r)
    BY <2>4, <2>5, <2>6, <2>7, <2>8, <2>9 DEF Recorded
  <2>11. Recalls'
    BY <2>4, <2>10, RecordedRecalls DEF SoundStep
  <2> QED
    BY <1>0, <2>4, <2>5, <2>6, <2>9, <2>11, LedgerRecord DEF SoundStep
<1>5. CASE TaskRaises(t)
  BY <1>5, EndGoesOn, TaskStep DEF TaskRaises
<1>6. CASE CancelDispatch(t)
  <2>1. /\ UNCHANGED <<store, execs, events>> /\ EndTask(t)
        /\ acks' = acks \/ (At(t) \in {"ack", "accept"} /\ acks' = acks \cup {task[t].reply})
    BY <1>6 DEF CancelDispatch
  <2> QED
    BY <2>1, EndGoesOn, TaskStep, SayStep
<1> QED
  BY <1>1, <1>2, <1>3, <1>4, <1>5, <1>6 DEF Handler

\* The steps of a build before its outcome, and its cancellation.
LEMMA BuildStep ==
  ASSUME SoundStep, NEW t \in Tasks,
         \/ AcquireBuild(t) \/ Generate(t) \/ Sbatch(t) \/ WorkflowFails(t)
         \/ WorkflowReturns(t) \/ Emit(t) \/ CancelSubmit(t)
  PROVE  Recalls' /\ LedgerStep
<1> USE DEF netVars, storeVars
<1>0. task \in [Tasks -> Task] /\ task[t] \in Task
  BY TaskFields DEF SoundStep, TypeOK
<1>p. {"generate", "workflow", "sbatched", "submitted", "finish", "record", "fail", "recordFail"}
         \subseteq PC \ {"ack", "accept"}
  BY DEF PC, SubmitPC, BuildPC
<1>1. CASE AcquireBuild(t) \/ Generate(t) \/ Sbatch(t) \/ WorkflowFails(t)
  <2>1. /\ Working(t) /\ At(t) # "recordFail" /\ UNCHANGED <<store, execs, acks, events>>
        /\ Goto(t, "generate") \/ Goto(t, "workflow") \/ Goto(t, "sbatched") \/ Goto(t, "fail")
    BY <1>1 DEF AcquireBuild, Generate, Sbatch, WorkflowFails, Working, WorkPC
  <2>2. OthersStay(t) /\ GoesOn(t)
    BY <1>p, <2>1, GotoGoesOn
  <2> QED
    BY <2>1, <2>2, TaskStep
<1>2. CASE WorkflowReturns(t)
  <2>1. PICK found \in BOOLEAN :
          task' = [task EXCEPT ![t].hasJob = found,
                               ![t].pc = IF found THEN "submitted" ELSE "finish"]
    BY <1>2 DEF WorkflowReturns
  <2>2. /\ task'[t].pc \in {"submitted", "finish"} /\ task'[t].cmd = task[t].cmd /\ OthersStay(t)
    BY <1>0, <2>1 DEF OthersStay, Task
  <2>3. GoesOn(t)
    BY <1>2, <2>2 DEF WorkflowReturns, GoesOn, Working, WorkPC, Idle
  <2> QED
    BY <1>2, <2>2, <2>3, TaskStep DEF WorkflowReturns
<1>e. At(t) \in DOMAIN EmitStep =>
        /\ EmitStep[At(t)].next \in {"finish", "record", "recordFail"}
        /\ EmitStep[At(t)].st = "failed" <=> At(t) = "fail"
        /\ At(t) = "fail" => EmitStep[At(t)].next = "recordFail"
        /\ Working(t) /\ At(t) # "recordFail"
  BY DEF EmitStep, Working, WorkPC
<1>f. \A st : Event(IdOf(t), st).id = IdOf(t) /\ Event(IdOf(t), st).st = st
  BY DEF Event
<1>3. CASE Emit(t)
  <2>1. /\ At(t) \in DOMAIN EmitStep /\ Goto(t, EmitStep[At(t)].next)
        /\ events' = events \cup {Event(IdOf(t), EmitStep[At(t)].st)}
        /\ UNCHANGED <<store, execs, acks>>
    BY <1>3 DEF Emit
  <2>2. OthersStay(t) /\ GoesOn(t) /\ task'[t].pc = EmitStep[At(t)].next
    BY <1>p, <1>e, <2>1, GotoGoesOn
  <2> QED
    BY <1>e, <1>f, <2>1, <2>2, TellStep
<1>4. CASE CancelSubmit(t)
  <2>1. OthersStay(t) /\ GoesOn(t) /\ task'[t].pc = "idle"
    BY <1>0, <1>4, EndGoesOn, EndTaskType DEF CancelSubmit
  <2>2. UNCHANGED <<store, execs, acks>>
    BY <1>4 DEF CancelSubmit
  <2>3. CASE events' = events
    BY <2>1, <2>2, <2>3, TaskStep
  <2>4. CASE /\ At(t) \in DOMAIN EmitStep
             /\ events' = events \cup {Event(IdOf(t), EmitStep[At(t)].st)}
    BY <1>e, <1>f, <2>1, <2>2, <2>4, TellStep
  <2> QED
    BY <1>4, <2>3, <2>4 DEF CancelSubmit
<1> QED
  BY <1>1, <1>2, <1>3, <1>4

\* The outcome of a build is recorded.
LEMMA RecordStep ==
  ASSUME SoundStep, NEW t \in Tasks, RecordFailure(t) \/ RecordFinished(t)
  PROVE  Recalls' /\ LedgerStep
<1> USE DEF netVars
<1>0. /\ task \in [Tasks -> Task] /\ task[t] \in Task /\ store \in Store /\ StoreSound(store)
      /\ IdOf(t) \in CmdIds /\ SimOf(t) \in Hashes /\ task[t].hasJob \in BOOLEAN
  BY TaskFields DEF SoundStep, TypeOK, Recalls
<1>1. PICK r, w : /\ DiskAccess(Cost(w)) /\ store' = Persist(store, IdOf(t), r, w)
                  /\ r \in ProcessedCommand /\ r.st \in Completed
                  /\ r.st = "finished" => At(t) = "record"
  <2>1. CASE RecordFailure(t)
    <3>1. PICK w \in WriteOutcomes :
            /\ DiskAccess(Cost(w))
            /\ store' = Persist(store, IdOf(t), [st |-> "failed", hash |-> SimOf(t), job |-> FALSE], w)
      BY <2>1 DEF RecordFailure
    <3>2. [st |-> "failed", hash |-> SimOf(t), job |-> FALSE] \in ProcessedCommand
      BY <1>0, RecordType
    <3> QED
      BY <3>1, <3>2 DEF Completed
  <2>2. CASE RecordFinished(t)
    <3>1. PICK w \in WriteOutcomes :
            /\ DiskAccess(Cost(w))
            /\ store' = Persist(store, IdOf(t), [st |-> "finished", hash |-> SimOf(t),
                                                job |-> task[t].hasJob], w)
      BY <2>2 DEF RecordFinished
    <3>2. [st |-> "finished", hash |-> SimOf(t), job |-> task[t].hasJob] \in ProcessedCommand
      BY <1>0, RecordType
    <3> QED
      BY <2>2, <3>1, <3>2 DEF Completed, RecordFinished
  <2> QED
    BY <2>1, <2>2
<1>2. Working(t) /\ IdOf(t) \in RoomIds /\ store.mem[IdOf(t)].st = "pending" /\ IsRecord(r)
  <2>1. Working(t) /\ ~Idle(t)
    BY DEF RecordFailure, RecordFinished, Working, WorkPC, Idle
  <2> QED
    BY <1>1, <2>1 DEF SoundStep, Recalls, WorkIsPending, IsRecord, Completed
<1>3. /\ StoreSound(store') /\ store'.mem = [store.mem EXCEPT ![IdOf(t)] = r]
      /\ store'.disk = [store.disk EXCEPT ![IdOf(t)] = r]
  BY <1>0, <1>1, <1>2, FreeWrite
<1>4. /\ OthersStay(t)
      /\ \/ task'[t].pc = "idle"
         \/ task'[t].pc \in {"followLock", "followCancel"} /\ task'[t].cmd = task[t].cmd
  <2>1. CASE EndTask(t)
    BY <1>0, <2>1, EndTaskType DEF OthersStay
  <2>2. CASE Goto(t, "followLock")
    BY <1>0, <2>2, GotoType DEF OthersStay, PC, SubmitPC, BuildPC
  <2>3. CASE \E p : task' = [task EXCEPT ![t].pc = "followCancel", ![t].prev = p]
    BY <1>0, <2>3 DEF OthersStay, Task
  <2> QED
    BY <2>1, <2>2, <2>3 DEF RecordFailure, RecordFinished, StartFollower, ReplaceWatcher, Install
<1>5. UNCHANGED <<execs, acks, events>>
  BY DEF RecordFailure, RecordFinished
<1>6. Recorded(t, r)
  BY <1>1, <1>2, <1>3, <1>4, <1>5 DEF Recorded
<1>7. Recalls'
  BY <1>1, <1>6, RecordedRecalls DEF SoundStep
<1> QED
  BY <1>0, <1>1, <1>2, <1>3, <1>5, <1>7, LedgerRecord DEF SoundStep

\* The hand-over to the watcher, once the outcome is recorded.
LEMMA FollowStep ==
  ASSUME SoundStep, NEW t \in Tasks, FollowLocked(t) \/ FollowReplaced(t)
  PROVE  Recalls' /\ LedgerStep
<1> USE DEF netVars, storeVars
<1>0. task \in [Tasks -> Task] /\ task[t] \in Task
  BY TaskFields DEF SoundStep, TypeOK
<1>1. UNCHANGED <<store, execs, acks, events>> /\ ~Idle(t)
  BY DEF FollowLocked, FollowReplaced, Idle
<1>2. OthersStay(t) /\ GoesOn(t)
  <2>1. CASE EndTask(t)
    BY <2>1, EndGoesOn
  <2>2. ASSUME NEW p, task' = [task EXCEPT ![t].pc = "followCancel", ![t].prev = p]
        PROVE  OthersStay(t) /\ GoesOn(t)
    <3>1. task'[t].pc = "followCancel" /\ task'[t].cmd = task[t].cmd /\ OthersStay(t)
      BY <1>0, <2>2 DEF OthersStay, Task
    <3> QED
      BY <1>1, <3>1 DEF GoesOn, WorkPC
  <2> QED
    BY <2>1, <2>2 DEF FollowLocked, FollowReplaced, ReplaceWatcher, Install
<1> QED
  BY <1>1, <1>2, TaskStep

\* Watchers, abandoned threads, kills, and leaving and entering serve().
LEMMA ProcessStep ==
  ASSUME SoundStep,
         \/ \E c \in Commands : WatcherEnds(c) \/ OrphanRuns(c)
         \/ Shutdown \/ GraceExpires \/ CancelFollowers \/ ServeReturns
         \/ ProcessExits \/ Crash \/ Restart \/ UNCHANGED vars
  PROVE  Recalls' /\ LedgerStep
<1> USE DEF netVars, storeVars
<1>1. /\ UNCHANGED <<execs, acks, events>>
      /\ task' = task \/ task' = [t \in Tasks |-> IdleTask]
  BY DEF WatcherEnds, OrphanRuns, Shutdown, GraceExpires, CancelFollowers, ServeReturns,
         ProcessExits, Crash, Restart, vars
<1>2. StoreSound(store') /\ store'.mem = store.mem /\ store'.disk = store.disk
  <2>1. StoreSound(store) /\ store \in Store
    BY DEF SoundStep, Recalls, TypeOK
  <2>2. CASE store' = store
    BY <2>1, <2>2
  <2>3. CASE Restart
    <3>1. PICK readable \in BOOLEAN :
             DiskAccess(IF readable THEN 0 ELSE 1) /\ store' = Load(store, readable)
      BY <2>3 DEF Restart
    <3>2. readable
      BY <3>1, FreeAccess DEF SoundStep, TypeOK, Remembers
    <3>3. store' = [store EXCEPT !.mem = store.disk, !.order = store.diskOrder]
      BY <3>1, <3>2 DEF Load
    <3>4. /\ store'.mem = store.disk /\ store'.disk = store.disk /\ store'.order = store.diskOrder
          /\ store'.diskOrder = store.diskOrder /\ store'.torn = store.torn
      BY <2>1, <3>3 DEF Store
    <3> QED
      BY <2>1, <3>4 DEF StoreSound
  <2> QED
    BY <2>2, <2>3 DEF WatcherEnds, OrphanRuns, Shutdown, GraceExpires, CancelFollowers,
       ServeReturns, ProcessExits, Crash, vars
<1>3. \A u \in Tasks : GoesOn(u)
  BY <1>1, IdleTaskType DEF GoesOn, At, Idle, Working
<1>4. Recalls'
  BY <1>1, <1>2, <1>3, QuietRecalls DEF SoundStep
<1> QED
  BY <1>1, <1>2, <1>4, LedgerStutter DEF SoundStep

-----------------------------------------------------------------------------
(* The invariant, and what follows from it. *)

\* Nothing has happened yet.
LEMMA RecallsInit == Init => Recalls
<1> SUFFICES ASSUME Init PROVE Recalls
  OBVIOUS
<1>1. /\ store = EmptyStore /\ acks = {} /\ events = {} /\ \A c \in CmdIds : execs[c] = 0
      /\ \A t \in Tasks : At(t) = "idle"
  BY IdleTaskType DEF Init, At
<1>2. StoreSound(store)
  BY <1>1 DEF StoreSound, EmptyStore
<1> QED
  BY <1>1, <1>2 DEF Recalls, ExecutedOnce, WorkIsPending, Idle, Working, WorkPC, AnswersGrounded,
     FailuresStand

\* A step with sound memory keeps what is recalled, and is a step of the ledger.
LEMMA SoundSteps ==
  ASSUME TypeOK, LedgerInv, [Next]_vars, Remembers' PROVE Remembers /\ Recalls' /\ LedgerStep
<1>1. Remembers /\ room' = room
  BY StillRemembers
<1>2. SoundStep
  BY <1>1, TypeStep DEF SoundStep, LedgerInv
<1> QED
  BY <1>1, <1>2, DeliverStep, HandlerStep, BuildStep, RecordStep, FollowStep, ProcessStep
     DEF Next, Build, Stop

\* LedgerInv is inductive.
LEMMA LedgerInvStep == TypeOK /\ LedgerInv /\ [Next]_vars => LedgerInv'
  BY SoundSteps DEF LedgerInv

\* While the disk works and has room for every id, a command is executed once and acks
\* and events about it agree, for every room, any number of tasks, redeliveries, kills,
\* restarts and lost sends (_handle_submit, _execute_accepted_submit).
THEOREM ExecutedAtMostOnce == Spec => []OneExecution
<1>1. TypeOK /\ LedgerInv => OneExecution
  <2> SUFFICES ASSUME TypeOK, Recalls, Remembers PROVE OneExecution
    BY DEF LedgerInv, OneExecution, AtMostOneExecution, AnswersAgree
  <2>1. AtMostOneExecution
    BY DEF Recalls, ExecutedOnce, AtMostOneExecution
  <2>2. /\ \A a \in acks : a.st \in Completed => store.mem[a.id].st = a.st
        /\ \A e \in events : e.st = "failed" => store.mem[e.id].st # "finished"
    BY DEF Recalls, AnswersGrounded, Grounded, FailuresStand
  <2>3. AnswersAgree
    BY <2>2 DEF AnswersAgree, Completed
  <2> QED
    BY <2>1, <2>3 DEF OneExecution
<1>2. Init => LedgerInv
  BY RecallsInit DEF LedgerInv
<1> QED
  BY TypeInit, TypeStep, LedgerInvStep, <1>1, <1>2, PTL DEF Spec

\* The client implements the ledger: its initial states are initial states of the ledger
\* and each of its steps is a step of the ledger or none (_handle_submit,
\* _submit_replay_ack).
THEOREM ClientImplementsLedger == Spec => ImplementsLedger
<1>1. Init => Ledger!Init
  BY DEF Init, Ledger!Init, EmptyStore, NoRecord, IsRecord, Remembers
<1>2. TypeOK /\ LedgerInv /\ [Next]_vars => [Ledger!Next]_(Ledger!vars)
  <2> SUFFICES ASSUME TypeOK, LedgerInv, [Next]_vars PROVE LedgerStep
    BY DEF LedgerStep
  <2>1. CASE Remembers'
    BY <2>1, SoundSteps
  <2>2. CASE ~Remembers'
    BY <2>2 DEF LedgerStep, Ledger!Next
  <2> QED
    BY <2>1, <2>2
<1>3. Init => LedgerInv
  BY RecallsInit DEF LedgerInv
<1> QED
  BY TypeInit, TypeStep, LedgerInvStep, <1>1, <1>2, <1>3, PTL
     DEF Spec, ImplementsLedger, Ledger!Spec
==============================================================================
