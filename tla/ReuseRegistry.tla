---------------------------- MODULE ReuseRegistry ----------------------------
(***************************************************************************)
(* The content-addressed reuse registry (agenda/reuse.py) as pure          *)
(* operators on the file's content: reuse key -> record.  A record is      *)
(* pending until the results of one of the runs it waits for are ready.    *)
(***************************************************************************)
EXTENDS FiniteSets, Functions

CONSTANT NoRun

NoRecord == [st |-> "none", sim |-> "", run |-> NoRun, waits |-> {}]
Pending(sim, r) == [st |-> "pending", sim |-> sim, run |-> r, waits |-> {}]
Done(sim, r) == [st |-> "done", sim |-> sim, run |-> r, waits |-> {}]

\* Mutant: a pending record is reused too.
LookupPending(reg, key) == reg[key]

\* lookup: only a done record is reusable.
Lookup(reg, key) == IF reg[key].st = "done" THEN reg[key] ELSE NoRecord

\* remember: last write wins.
Remember(reg, key, rec) == [reg EXCEPT ![key] = rec]

\* The runs whose results a pending record waits for.
Candidates(rec) == {rec.run} \cup rec.waits

\* record_direct: a done record stays; a result that is already there promotes; else
\* the run joins those the record waits for.
RecordDirect(reg, key, rec) ==
    LET old == reg[key]
    IN CASE old.st = "none" -> Remember(reg, key, rec)
         [] old.st = "done" -> reg
         [] OTHER -> Remember(reg, key, IF rec.st = "done"
                                        THEN [old EXCEPT !.st = "done", !.run = rec.run, !.waits = {}]
                                        ELSE [old EXCEPT !.waits = @ \cup {old.run, rec.run}])

\* promote, for each of some runs: by the identity of the run, whichever key it was
\* accepted under.
Promote(reg, runs) ==
    [key \in DOMAIN reg |->
        LET hits == Candidates(reg[key]) \cap runs
        IN IF reg[key].st = "pending" /\ hits # {}
           THEN Done(reg[key].sim, CHOOSE r \in hits : TRUE) ELSE reg[key]]
=============================================================================
