---------------------------- MODULE BuildCapture ----------------------------
(***************************************************************************)
(* What the simclient keeps of the output of its workflow runs             *)
(* (simclient/simulation.py, _run_workflow): several runs in worker        *)
(* threads share one process, one replaced RuntimeContext and one cwltool  *)
(* logger.  The output of a run reaches its buffer, and the live tail that *)
(* get_logs serves meanwhile, on two ways: a daemon thread reads the pipe  *)
(* its step processes inherit, and a logging handler takes what cwltool    *)
(* logs on the run's own thread.  From the buffer a failed run is told to  *)
(* be a failed build or a failed submission.                               *)
(*                                                                         *)
(* A line of a step process is written in two pieces, so that a chunk may  *)
(* end inside it; a message of cwltool is one write.                       *)
(***************************************************************************)
EXTENDS Naturals, Sequences, SequencesExt, FiniteSets

CONSTANTS
    Runs,       \* workflow runs, each with its own run_dir
    Threads,    \* the threads of asyncio.to_thread
    None,
    Plans,      \* instances to explore: what the workflow steps of each run do
    PipeSize,   \* pieces the kernel buffers
    TailLines,  \* _BUILD_TAIL_LINES
    TailBytes,  \* _MAX_BUILD_TAIL_BYTES
    Detail      \* _MAX_ERROR_DETAIL, in lines

\* A workflow is a sequence of steps (none: the run is not started), each with the lines
\* its process writes to stderr ("marker": a compiler or make error; "noise": another line
\* that looks like an error), its exit, and whether it leaves a background process.
Step == [name : {"build", "submit"}, lines : Seq({"marker", "noise"}), ok : BOOLEAN, stays : BOOLEAN]
ASSUME CaptureAssumption ==
    /\ None \notin Runs \cup Threads /\ {PipeSize, TailLines, TailBytes, Detail} \subseteq Nat \ {0}
    /\ Plans \subseteq [Runs -> Seq(Step)]

VARIABLES
    plan,    \* the instance explored
    installed, \* the replaced RuntimeContext and the handlers of cwltool's logger
    local,   \* _CAPTURE_STATE: the run whose buffer, pipe and tail a thread uses
    run,     \* the workflow runs
    reader,  \* the daemon thread of each run
    open,    \* write ends of each run's pipe: ours, and background processes
    pipe,    \* what the pipe of each run holds
    buffer,  \* the text captured for each run
    tail,    \* the _RingTail of each run
    live,    \* the runs in _live_build_tails
    fed      \* every line given to the tail of each run (history)

vars == <<plan, installed, local, run, reader, open, pipe, buffer, tail, live, fed>>

Fresh == [pc |-> "new", thread |-> None, step |-> 1, to |-> None, todo |-> <<>>, ok |-> TRUE,
          whole |-> TRUE, code |-> ""]
InProgress(r) == run[r].pc \notin {"new", "over"}
Busy(t) == \E r \in Runs : run[r].thread = t /\ InProgress(r)

Init ==
    /\ plan \in Plans /\ installed = [context |-> FALSE, handlers |-> 0]
    /\ local = [t \in Threads |-> None]
    /\ run = [r \in Runs |-> Fresh]
    /\ reader = [r \in Runs |-> [st |-> "none", lines |-> <<>>]]
    /\ open = [r \in Runs |-> [own |-> FALSE, others |-> 0]]
    /\ pipe = [r \in Runs |-> <<>>] /\ buffer = [r \in Runs |-> <<>>]
    /\ tail = [r \in Runs |-> <<>>] /\ live = {} /\ fed = [r \in Runs |-> <<>>]

-----------------------------------------------------------------------------
(* Text. *)

Piece(r, step, kind, line, part) ==
    [run |-> r, step |-> step, kind |-> kind, line |-> line, part |-> part]
Pieces(r, step, kinds) ==
    [i \in 1 .. 2 * Len(kinds) |->
        Piece(r, step, kinds[(i + 1) \div 2], (i + 1) \div 2, IF i % 2 = 1 THEN "head" ELSE "rest")]
Message(r, step) == Piece(r, step, "log", 0, "whole")

\* The lines of a text: a head and its rest are one if nothing came between them.
Lines(text) ==
    FoldLeft(LAMBDA ls, p :
                IF p.part = "rest" /\ ls # <<>> /\ Last(ls) = [p EXCEPT !.part = "head"]
                THEN Append(Front(ls), [p EXCEPT !.part = "whole"]) ELSE Append(ls, p),
             <<>>, text)

Bytes(ls) == FoldLeft(LAMBDA n, l : n + (IF l.part = "whole" THEN 2 ELSE 1), 0, ls)
Newest(ls, n) == SubSeq(ls, Len(ls) - n + 1, Len(ls))

Longest(ls, limit) ==
    LET fits == {n \in 0 .. Len(ls) : Bytes(Newest(ls, n)) <= limit}
    IN Newest(ls, CHOOSE n \in fits : \A m \in fits : m <= n)

\* Mutant: a running count of bytes that forgets what the full deque dropped by itself.
RingAddDrift(ls, added) ==
    LET all  == ls \o added
        kept == Newest(all, IF Len(all) < TailLines THEN Len(all) ELSE TailLines)
        lost == Bytes(all) - Bytes(kept)
    IN IF lost > TailBytes THEN <<>> ELSE Longest(kept, TailBytes - lost)

\* _RingTail.add: at most TailLines lines, then the oldest go until the bytes fit.
RingAdd(ls, added) ==
    LET all == ls \o added
    IN Longest(Newest(all, IF Len(all) < TailLines THEN Len(all) ELSE TailLines), TailBytes)

AddToTail(r, ls) ==
    /\ tail' = [tail EXCEPT ![r] = RingAdd(@, ls)]
    /\ fed' = [fed EXCEPT ![r] = @ \o ls]

-----------------------------------------------------------------------------
(* What is made of a captured text. *)

\* The lines that look like an error.  The rest of a line that was cut may still do.
ErrorLines(text, looks) ==
    SelectSeq(Lines(text), LAMBDA l : l.part = "whole" \/ (l.part = "rest" /\ looks))

\* _workflow_failure_detail: the end of them.
FailureDetail(ls) == IF Len(ls) <= Detail THEN ls ELSE Newest(ls, Detail)

Has(ls, Test(_)) == \E i \in DOMAIN ls : Test(ls[i])
NamesStep(l) == l.kind = "log"
NamesBuildStep(l) == l.kind = "log" /\ l.step = "build"
IsBuildMarker(l) == l.kind = "marker" /\ l.part = "whole"

\* Mutant: only a line that names the step tells a failed build.
ClassifyByStep(detail) ==
    IF Has(detail, NamesBuildStep) THEN "build_failed" ELSE "run_failed"

\* _classify_workflow_failure.
Classify(detail) ==
    CASE Has(detail, NamesBuildStep) -> "build_failed"
      [] ~Has(detail, NamesBuildStep) /\ Has(detail, NamesStep) -> "run_failed"
      [] ~Has(detail, NamesStep) /\ Has(detail, IsBuildMarker) -> "build_failed"
      [] OTHER -> "run_failed"

-----------------------------------------------------------------------------
(* The thread of a run. *)

\* Mutant: one capture state for the whole process.
SlotShared(t) == CHOOSE u \in Threads : TRUE

\* _CAPTURE_STATE is a threading.local.
Slot(t) == t

\* _install_capture_context, _install_capture_logger: once for the process, under a lock.
InstallContext(i) == [i EXCEPT !.context = TRUE]
InstallLogger(i) == IF i.handlers > 0 THEN i ELSE [i EXCEPT !.handlers = 1]

\* _register_live_build_tail, _unregister_live_build_tail, live_build_log.
Register(r) == live \cup {r}
Unregister(r) == live \ {r}
LiveBuildLog(r) == IF r \in live THEN tail[r] ELSE <<>>

\* _run_workflow up to runner.run(): the context and the handler are in place, the pipe is
\* open, its reader runs, the tail is registered and the thread points to them.
Begin(r, t) ==
    /\ run[r].pc = "new" /\ plan[r] # <<>> /\ ~Busy(t)
    /\ run' = [run EXCEPT ![r].pc = "step", ![r].thread = t]
    /\ open' = [open EXCEPT ![r].own = TRUE]
    /\ reader' = [reader EXCEPT ![r].st = "reading"]
    /\ tail' = [tail EXCEPT ![r] = <<>>] /\ live' = Register(r)
    /\ installed' = InstallLogger(InstallContext(installed))
    /\ local' = [local EXCEPT ![Slot(t)] = r]
    /\ UNCHANGED <<plan, pipe, buffer, fed>>

Local(r) == local[Slot(run[r].thread)]
StepOf(r) == plan[r][run[r].step]
Stderr(r) == IF installed.context THEN Local(r) ELSE None

\* cwltool starts the process of a step, with the proxy's fileno() as its stderr: the
\* write end of the pipe, or the real stderr when the thread has none.
StartStep(r) ==
    /\ run[r].pc = "step"
    /\ run' = [run EXCEPT ![r].pc = "child", ![r].to = Stderr(r), ![r].ok = StepOf(r).ok,
                          ![r].todo = Pieces(r, StepOf(r).name, StepOf(r).lines)]
    /\ open' = IF StepOf(r).stays /\ Stderr(r) # None
               THEN [open EXCEPT ![Stderr(r)].others = @ + 1] ELSE open
    /\ UNCHANGED <<plan, installed, local, reader, pipe, buffer, tail, live, fed>>

\* The process writes; it waits while its pipe is full.
ChildWrites(r) ==
    /\ run[r].pc = "child" /\ run[r].todo # <<>>
    /\ run' = [run EXCEPT ![r].todo = Tail(@)]
    /\ IF run[r].to = None THEN UNCHANGED pipe
       ELSE /\ Len(pipe[run[r].to]) < PipeSize
            /\ pipe' = [pipe EXCEPT ![run[r].to] = Append(@, Head(run[r].todo))]
    /\ UNCHANGED <<plan, installed, local, reader, open, buffer, tail, live, fed>>

\* The step ends: the next one, the end of the workflow, or a failure to be logged.
ChildExits(r) ==
    /\ run[r].pc = "child" /\ run[r].todo = <<>>
    /\ run' = [run EXCEPT ![r] =
            IF ~@.ok THEN [@ EXCEPT !.pc = "log"]
            ELSE IF @.step < Len(plan[r]) THEN [@ EXCEPT !.pc = "step", !.step = @ + 1]
            ELSE [@ EXCEPT !.pc = "close"]]
    /\ UNCHANGED <<plan, installed, local, reader, open, pipe, buffer, tail, live, fed>>

\* Every handler of the logger takes the message.
Messages(r) == [i \in 1 .. installed.handlers |-> Message(r, StepOf(r).name)]

\* _ThreadBufferHandler.emit: cwltool's message about the failed step goes into the
\* buffer of the thread that logs it, then into its tail.
Emit(r) ==
    /\ run[r].pc = "log"
    /\ run' = [run EXCEPT ![r].pc = "log_tail", ![r].to = Local(r)]
    /\ buffer' = IF Local(r) = None THEN buffer
                 ELSE [buffer EXCEPT ![Local(r)] = @ \o Messages(r)]
    /\ UNCHANGED <<plan, installed, local, reader, open, pipe, tail, live, fed>>
EmitToTail(r) ==
    /\ run[r].pc = "log_tail" /\ run' = [run EXCEPT ![r].pc = "close"]
    /\ IF run[r].to = None THEN UNCHANGED <<tail, fed>>
       ELSE AddToTail(run[r].to, Messages(r))
    /\ UNCHANGED <<plan, installed, local, reader, open, pipe, buffer, live>>

\* The finally block: the thread forgets the run and closes its write end.
Close(r) ==
    /\ run[r].pc = "close" /\ run' = [run EXCEPT ![r].pc = "join"]
    /\ local' = [local EXCEPT ![Slot(run[r].thread)] = None]
    /\ open' = [open EXCEPT ![r].own = FALSE]
    /\ UNCHANGED <<plan, installed, reader, pipe, buffer, tail, live, fed>>

\* Mutant: the text is read without waiting for the reader.
JoinNot(r) == run[r].pc = "join"

\* Mutant: join waits as long as it takes.
JoinForEver(r) == run[r].pc = "join" /\ reader[r].st \in {"ended", "broken"}

\* thread.join(timeout=10): the reader has ended, or a background process holds the pipe
\* open for longer than that.  (A reader whose pipe nobody holds open is taken to empty it
\* within the ten seconds: it has one pipe's content to copy.)
Join(r) == /\ run[r].pc = "join"
           /\ reader[r].st \in {"ended", "broken"} \/ open[r].others > 0

\* Mutant: the classification is kept for a run that did not fail, too.
CollectAlways(r) ==
    /\ Join(r)
    /\ run' = [run EXCEPT ![r].pc = "over", ![r].whole = open[r].others = 0,
                          ![r].code = Classify(FailureDetail(ErrorLines(buffer[r], TRUE)))]
    /\ live' = Unregister(r)
    /\ UNCHANGED <<plan, installed, local, reader, open, pipe, buffer, tail, fed>>

\* After the join: the text is read, the buffer closed and the tail dropped; execute_submit
\* classifies a failure.
Collect(r) ==
    /\ Join(r)
    /\ \E looks \in BOOLEAN :
         LET detail == FailureDetail(ErrorLines(buffer[r], looks))
         IN run' = [run EXCEPT ![r].pc = "over", ![r].whole = open[r].others = 0,
                               ![r].code = IF run[r].ok THEN "" ELSE Classify(detail)]
    /\ live' = Unregister(r)
    /\ UNCHANGED <<plan, installed, local, reader, open, pipe, buffer, tail, fed>>

-----------------------------------------------------------------------------
(* The reader of a run's pipe, and a process that outlives its step. *)

\* A chunk is read and written to the buffer; a closed buffer ends the thread.
Read(r) ==
    /\ reader[r].st = "reading" /\ pipe[r] # <<>>
    /\ \E n \in 1 .. Len(pipe[r]) :
         LET chunk == SubSeq(pipe[r], 1, n)
         IN /\ pipe' = [pipe EXCEPT ![r] = SubSeq(@, n + 1, Len(@))]
            /\ IF run[r].pc = "over"
               THEN reader' = [reader EXCEPT ![r].st = "broken"] /\ UNCHANGED buffer
               ELSE /\ buffer' = [buffer EXCEPT ![r] = @ \o chunk]
                    /\ reader' = [reader EXCEPT ![r] = [st |-> "tee", lines |-> Lines(chunk)]]
    /\ UNCHANGED <<plan, installed, local, run, open, tail, live, fed>>

\* Mutant: the tail is looked up, and registered if need be, for each chunk.
TeeRegisters(r) ==
    /\ reader[r].st = "tee" /\ AddToTail(r, reader[r].lines) /\ live' = Register(r)
    /\ reader' = [reader EXCEPT ![r] = [st |-> "reading", lines |-> <<>>]]
    /\ UNCHANGED <<plan, installed, local, run, open, pipe, buffer>>

\* ... then added to the tail the reader was started with.
Tee(r) ==
    /\ reader[r].st = "tee" /\ AddToTail(r, reader[r].lines)
    /\ reader' = [reader EXCEPT ![r] = [st |-> "reading", lines |-> <<>>]]
    /\ UNCHANGED <<plan, installed, local, run, open, pipe, buffer, live>>

\* End of file: nothing holds the write end.
ReaderEnds(r) ==
    /\ reader[r].st = "reading" /\ pipe[r] = <<>>
    /\ ~open[r].own /\ open[r].others = 0
    /\ reader' = [reader EXCEPT ![r].st = "ended"]
    /\ UNCHANGED <<plan, installed, local, run, open, pipe, buffer, tail, live, fed>>

\* A background process writes a last line, and ends: by itself, or because nobody reads.
Background(r) ==
    /\ open[r].others > 0 /\ open' = [open EXCEPT ![r].others = @ - 1]
    /\ IF reader[r].st = "broken" THEN UNCHANGED pipe
       ELSE /\ Len(pipe[r]) + 2 <= PipeSize
            /\ pipe' = [pipe EXCEPT ![r] = @ \o Pieces(r, "background", <<"noise">>)]
    /\ UNCHANGED <<plan, installed, local, run, reader, buffer, tail, live, fed>>

-----------------------------------------------------------------------------
Thread(r) == \/ \E t \in Threads : Begin(r, t)
             \/ StartStep(r) \/ ChildWrites(r) \/ ChildExits(r) \/ Emit(r) \/ EmitToTail(r)
             \/ Close(r) \/ Collect(r)
Reader(r) == Read(r) \/ Tee(r) \/ ReaderEnds(r)
Next == \E r \in Runs : Thread(r) \/ Reader(r) \/ Background(r)

Spec == Init /\ [][Next]_vars

\* The operating system runs every thread and every step process.
FairSpec == Spec /\ \A r \in Runs : WF_vars(Thread(r)) /\ WF_vars(Reader(r))

-----------------------------------------------------------------------------
(* Properties. *)

\* The shape of the runs, their readers and what is kept.
TypeOK ==
    /\ local \in [Threads -> Runs \cup {None}] /\ live \subseteq Runs
    /\ \A r \in Runs :
         /\ run[r].pc \in {"new", "step", "child", "log", "log_tail", "close", "join", "over"}
         /\ run[r].step \in 1 .. (IF plan[r] = <<>> THEN 1 ELSE Len(plan[r]))
         /\ run[r].code \in (IF run[r].pc = "over" /\ ~run[r].ok THEN {"build_failed", "run_failed"} ELSE {""})
         /\ reader[r].st \in {"none", "reading", "tee", "ended", "broken"}
         /\ Len(pipe[r]) <= PipeSize /\ open[r].others \in 0 .. Len(plan[r])

\* "concurrent runs never observe each other's output" (_CapturingStderr): what is
\* captured for a run, and what its live tail shows, is its own.
Isolated ==
    \A r \in Runs : \A text \in {pipe[r], buffer[r], tail[r]} :
        \A i \in DOMAIN text : text[i].run = r

\* A failed build is reported as a build failure and any other failed step as a run
\* failure, however the two writers interleave and wherever the text is cut
\* (_classify_workflow_failure).
ClassifiedRight ==
    \A r \in Runs : run[r].pc = "over" /\ ~run[r].ok =>
        (run[r].code = "build_failed" <=> StepOf(r).name = "build")

\* If no background process held the pipe then, the captured text has everything the steps wrote and
\* cwltool logged, each writer's part in its order, once (_run_workflow closes its write
\* end, then joins the reader, then reads).
CaptureComplete ==
    \A r \in Runs : run[r].pc = "over" /\ run[r].whole =>
        /\ SelectSeq(buffer[r], LAMBDA p : p.step # "background" /\ p.part # "whole")
             = FlattenSeq([i \in 1 .. run[r].step |-> Pieces(r, plan[r][i].name, plan[r][i].lines)])
        /\ SelectSeq(buffer[r], LAMBDA p : p.part = "whole")
             = IF run[r].ok THEN <<>> ELSE <<Message(r, StepOf(r).name)>>

\* get_logs never shows the tail of a run that has ended, also when its reader lives on
\* ("Drop the live tail so it cannot be served stale", _run_workflow).
TailNotStale == \A r \in Runs : LiveBuildLog(r) # <<>> => InProgress(r)

\* The live tail is the newest output: the longest end of what was captured so far that
\* both limits allow (_RingTail.add: the byte accounting "must survive the deque's own
\* maxlen eviction").
TailIsNewest ==
    \A r \in Runs :
        LET all  == fed[r]
            fits == {n \in 0 .. Len(all) : n <= TailLines /\ Bytes(Newest(all, n)) <= TailBytes}
        IN tail[r] = Newest(all, CHOOSE n \in fits : \A m \in fits : m <= n)

\* A workflow whose steps end returns, also when a background process keeps its pipe open
\* ("a stuck child cannot wedge exit", _run_workflow).
WorkflowReturns == \A r \in Runs : InProgress(r) ~> run[r].pc = "over"

\* The captured text of a run is its own and all of it (_CAPTURE_STATE, _run_workflow).
CaptureIsExact == TypeOK /\ Isolated /\ CaptureComplete

\* The live tail is the newest output of a run in progress (_RingTail, live_build_log).
TailIsLive == TailNotStale /\ TailIsNewest
=============================================================================
