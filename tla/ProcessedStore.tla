--------------------------- MODULE ProcessedStore ---------------------------
(***************************************************************************)
(* The simclient's idempotency store (simclient/client.py): a dict of      *)
(* ProcessedCommand records in memory and the append-only file             *)
(* processed-cmds.jsonl behind it.  The store is one value; its operations *)
(* are pure operators, so a handler that persists twice composes them.     *)
(*                                                                         *)
(* The file is abstracted to what loading it would return (disk: the last  *)
(* parseable line of each command id) plus the order in which ids first    *)
(* appear in it, and whether it ends in a partial line.                    *)
(***************************************************************************)
EXTENDS Naturals, Sequences, FiniteSets

CONSTANTS
    CmdIds,        \* command ids
    Hashes,        \* payload hashes; the sim_id is a prefix of the hash
    MaxProcessed   \* _MAX_PROCESSED, records kept before compaction

ASSUME StoreAssumption == MaxProcessed \in Nat \ {0} /\ Hashes # {}

\* One ProcessedCommand.  "pending" is completed=False; "finished" and
\* "failed" are completed records without and with an error; job says whether
\* a scheduler job id is stored; hash is payload_hash.  "none": no record.
RecordStates == {"none", "pending", "finished", "failed"}
Completed == {"finished", "failed"}
ProcessedCommand == [st : RecordStates, hash : Hashes, job : BOOLEAN]

IsRecord(r) == r.st # "none"

\* The record of an id the store does not know; its other fields are unused.
NoRecord == [st |-> "none", hash |-> CHOOSE h \in Hashes : TRUE, job |-> FALSE]

Store == [mem : [CmdIds -> ProcessedCommand], order : Seq(CmdIds),
          disk : [CmdIds -> ProcessedCommand], diskOrder : Seq(CmdIds),
          torn : BOOLEAN]

EmptyStore ==
    [mem |-> [c \in CmdIds |-> NoRecord], order |-> <<>>,
     disk |-> [c \in CmdIds |-> NoRecord], diskOrder |-> <<>>, torn |-> FALSE]

\* How one append can end: written; OSError with nothing written; OSError
\* after part of the line reached the file; written, but the compaction that
\* follows could not replace the file.
WriteOutcomes == {"ok", "fail", "torn", "norewrite"}

\* A dict keeps a key's position when its value is overwritten.
KeyOrder(order, recs, id) == IF IsRecord(recs[id]) THEN order ELSE Append(order, id)

\* The append itself.  A line written after a partial one is glued to it, so
\* neither parses and the file's meaning does not change.
AppendLine(s, id, r) ==
    [mem       |-> [s.mem EXCEPT ![id] = r],
     order     |-> KeyOrder(s.order, s.mem, id),
     disk      |-> IF s.torn THEN s.disk ELSE [s.disk EXCEPT ![id] = r],
     diskOrder |-> IF s.torn THEN s.diskOrder
                   ELSE KeyOrder(s.diskOrder, s.disk, id),
     torn      |-> FALSE]

Recent(order) ==
    SubSeq(order, Len(order) - MaxProcessed + 1, Len(order))

KeepOnly(recs, order) ==
    [c \in CmdIds |-> IF \E i \in 1 .. Len(order) : order[i] = c
                      THEN recs[c] ELSE NoRecord]

\* _rewrite_processed: memory keeps the newest MaxProcessed records, and the
\* file is replaced by them unless writing it fails.
RewriteProcessed(s, replaced) ==
    LET recent == Recent(s.order)
        kept   == KeepOnly(s.mem, recent)
    IN [mem |-> kept, order |-> recent,
        disk      |-> IF replaced THEN kept ELSE s.disk,
        diskOrder |-> IF replaced THEN recent ELSE s.diskOrder,
        torn      |-> FALSE]

\* _persist_processed: a failed append is logged and leaves memory untouched.
Persist(s, id, r, outcome) ==
    IF outcome \in {"fail", "torn"}
    THEN [s EXCEPT !.torn = @ \/ outcome = "torn"]
    ELSE LET appended == AppendLine(s, id, r)
         IN IF Len(appended.order) > MaxProcessed
            THEN RewriteProcessed(appended, outcome = "ok")
            ELSE appended

\* _load_processed: a new process reads the file; malformed lines are skipped,
\* and a file that cannot be read counts as empty.
Load(s, readable) ==
    IF readable THEN [s EXCEPT !.mem = s.disk, !.order = s.diskOrder]
    ELSE [s EXCEPT !.mem = EmptyStore.mem, !.order = EmptyStore.order]

=============================================================================
