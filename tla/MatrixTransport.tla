--------------------------- MODULE MatrixTransport ---------------------------
(***************************************************************************)
(* One end of the Matrix room (transport/matrix.py): the history a server  *)
(* fetches when it starts, the sync loop that follows, and the pump that   *)
(* consumes it.  Events of the room are numbered by their place in the     *)
(* timeline; a /sync or /messages token is the number of events before it. *)
(***************************************************************************)
EXTENDS Integers, Sequences, FiniteSetsExt, SequencesExt

CONSTANTS
    Kinds,       \* kinds of room events: "rcp", and "other" for what is skipped
    Roles,       \* "server" backfills and then receives, "human" drains instead,
                 \* "client" only receives
    SyncLimit,   \* events of one /sync
    PageLimit,   \* _BACKFILL_PAGE_LIMIT
    Cap,         \* _MAX_BACKFILL_EVENTS
    MaxEvents,   \* bound: events of the room
    MaxFaults,   \* bound: failing requests
    MaxRestarts  \* bound: restarts of the process

ASSUME TransportAssumption ==
    /\ Kinds \subseteq {"rcp", "other"} /\ Roles \subseteq {"server", "human", "client"}
    /\ {SyncLimit, PageLimit, Cap} \subseteq Nat \ {0}
    /\ {MaxEvents, MaxFaults, MaxRestarts} \subseteq Nat

VARIABLES
    role,       \* whose end this is
    timeline,   \* kinds of the room's events
    mode,       \* new, unstarted, paging, broken off, live or dead
    since,      \* _since: events before the next sync
    prev,       \* prev_batch: events before the oldest one fetched
    older,      \* messages fetched by backfill so far
    window,     \* messages of the first sync
    complete,   \* history_complete
    delivered,  \* messages handed to the application by this process
    spent       \* faults and restarts so far

vars == <<role, timeline, mode, since, prev, older, window, complete, delivered,
          spent>>
fetching == <<prev, older, window, complete>>

IsRcp(i) == timeline[i] = "rcp"

\* _extract_events: the RCP messages among events a+1 .. b of the room, oldest first.
Extract(room, a, b) ==
    LET found[k \in Nat] ==
            IF k = 0 THEN <<>>
            ELSE IF room[a + k] = "rcp" THEN Append(found[k - 1], a + k) ELSE found[k - 1]
    IN found[b - a]

\* Where a process begins: a server with backfill, a client with its first sync.
Start ==
    /\ mode' = (IF role = "client" THEN "live" ELSE "new")
    /\ since' = 0 /\ prev' = 0 /\ older' = <<>> /\ window' = <<>>
    /\ complete' = TRUE /\ delivered' = <<>>

Init ==
    /\ timeline \in UNION {[1 .. n -> Kinds] : n \in 0 .. MaxEvents}
    /\ role \in Roles /\ mode = (IF role = "client" THEN "live" ELSE "new")
    /\ since = 0 /\ prev = 0 /\ older = <<>> /\ window = <<>>
    /\ complete = TRUE /\ delivered = <<>>
    /\ spent = [fault |-> 0, restart |-> 0]

Faulty == spent.fault < MaxFaults /\ spent' = [spent EXCEPT !.fault = @ + 1]

-----------------------------------------------------------------------------
(* The room. *)

Post ==
    /\ Len(timeline) < MaxEvents
    /\ \E k \in Kinds : timeline' = Append(timeline, k)
    /\ UNCHANGED <<role, mode, since, fetching, delivered, spent>>

\* The newest events after token a, at most limit of them; the token before them.
Newest(a, limit) == Max({a, Len(timeline) - limit})

-----------------------------------------------------------------------------
(* backfill(). *)

FirstSync ==
    /\ mode = "new" /\ mode' = "paging"
    /\ since' = Len(timeline) /\ prev' = Newest(0, SyncLimit)
    /\ window' = Extract(timeline, prev', since') /\ complete' = TRUE
    /\ UNCHANGED <<role, timeline, older, delivered, spent>>

More == mode = "paging" /\ prev > 0 /\ Len(older) < Cap

\* An error response to the first sync has no rooms, and the refresh of the token
\* before any request may raise: backfill, and the start with it, raises.
BackfillRaises ==
    /\ mode = "new" \/ More
    /\ Faulty /\ mode' = "unstarted"
    /\ UNCHANGED <<role, timeline, since, fetching, delivered>>

\* Mutant: a page is put after the ones fetched before it.
PageAppended ==
    /\ More
    /\ LET from == Max({0, prev - PageLimit})
           page == Extract(timeline, from, prev)
       IN IF page = <<>> THEN mode' = "broken" /\ UNCHANGED <<prev, older>>
          ELSE mode' = mode /\ prev' = from /\ older' = older \o page
    /\ UNCHANGED <<role, timeline, since, window, complete, delivered, spent>>

\* Mutant: the token moves past an event that was not on the page.
PageSkips ==
    /\ More
    /\ LET from == Max({0, prev - PageLimit})
           page == Extract(timeline, from, prev)
       IN IF page = <<>> THEN mode' = "broken" /\ UNCHANGED <<prev, older>>
          ELSE mode' = mode /\ prev' = Max({0, from - 1}) /\ older' = page \o older
    /\ UNCHANGED <<role, timeline, since, window, complete, delivered, spent>>

\* One page of /messages; a page without RCP messages ends the loop.
Page ==
    /\ More
    /\ LET from == Max({0, prev - PageLimit})
           page == Extract(timeline, from, prev)
       IN IF page = <<>> THEN mode' = "broken" /\ UNCHANGED <<prev, older>>
          ELSE mode' = mode /\ prev' = from /\ older' = page \o older
    /\ UNCHANGED <<role, timeline, since, window, complete, delivered, spent>>

\* Mutant: a failed page is not noted.
PageFailsSilently ==
    /\ More /\ Faulty /\ mode' = "broken"
    /\ UNCHANGED <<role, timeline, since, prev, older, window, complete, delivered>>

\* The request for a page fails: the history is partial.
PageFails ==
    /\ More /\ Faulty /\ mode' = "broken" /\ complete' = FALSE
    /\ UNCHANGED <<role, timeline, since, prev, older, window, delivered>>

\* The loop is over: the start replays what was fetched and the pump begins.
Finish ==
    /\ mode = "broken" \/ (mode = "paging" /\ ~More)
    /\ mode' = "live" /\ delivered' = older \o window
    /\ complete' = (complete /\ Len(older) < Cap)
    /\ UNCHANGED <<role, timeline, since, prev, older, window, spent>>

-----------------------------------------------------------------------------
(* The sync loop. *)

\* Mutant: of many new events the oldest are taken.
SyncOldest ==
    /\ mode = "live" /\ since < Len(timeline)
    /\ since' = Len(timeline)
    /\ delivered' = delivered \o Extract(timeline, since, Min({since + SyncLimit, since'}))
    /\ UNCHANGED <<role, timeline, mode, fetching, spent>>

\* Mutant: the token skips an event that is yet to come.
SyncAhead ==
    /\ mode = "live" /\ since < Len(timeline)
    /\ since' = Len(timeline) + 1
    /\ delivered' = delivered \o Extract(timeline, Newest(since, SyncLimit), Len(timeline))
    /\ UNCHANGED <<role, timeline, mode, fetching, spent>>

\* receive() or drain(): of the events since the last sync, the newest.
Sync ==
    /\ mode = "live" /\ since < Len(timeline)
    /\ since' = Len(timeline)
    /\ delivered' = delivered \o Extract(timeline, Newest(since, SyncLimit), since')
    /\ UNCHANGED <<role, timeline, mode, fetching, spent>>

\* The request raises: receive() waits and tries again, drain() lets it through.
SyncRaises ==
    /\ mode = "live" /\ Faulty
    /\ mode' = (IF role = "human" THEN "dead" ELSE "live")
    /\ UNCHANGED <<role, timeline, since, fetching, delivered>>

\* The request is answered with an error, which _extract cannot read.
SyncError ==
    /\ mode = "live" /\ Faulty /\ mode' = "dead"
    /\ UNCHANGED <<role, timeline, since, fetching, delivered>>

Restart ==
    /\ spent.restart < MaxRestarts /\ spent' = [spent EXCEPT !.restart = @ + 1]
    /\ Start /\ UNCHANGED <<role, timeline>>

Step == FirstSync \/ Page \/ Finish \/ Sync

Next == Post \/ Step \/ BackfillRaises \/ PageFails \/ SyncRaises \/ SyncError \/ Restart

Spec == Init /\ [][Next]_vars

\* The event loop runs the start and the pump.
FairSpec == Spec /\ WF_vars(Step)

-----------------------------------------------------------------------------
(* Properties. *)

\* The shape of the room and of this end of it.
TypeOK ==
    /\ role \in Roles /\ timeline \in Seq(Kinds)
    /\ mode \in {"new", "unstarted", "paging", "broken", "live", "dead"}
    /\ since \in 0 .. Len(timeline) /\ prev \in 0 .. since /\ complete \in BOOLEAN
    /\ {older, window, delivered} \subseteq Seq(1 .. Len(timeline))
    /\ spent \in [{"fault", "restart"} -> Nat]

\* A process sees no message twice and none before an older one, over pages, the
\* first sync and the live syncs ("oldest first", backfill).
InOrderOnce ==
    \A i, j \in 1 .. Len(delivered) : i < j => delivered[i] < delivered[j]

replay == older \o window

\* The replay has no hole: it has every RCP message between its first and its last,
\* wherever the pages are cut, also when a page fails (backfill, _backfill_page).
ReplayHasNoHoles ==
    mode = "live" /\ replay # <<>> =>
        \A i \in replay[1] .. Last(replay) : IsRcp(i) => i \in Range(replay)

\* A replay that failed or was capped before the end is never called complete:
\* what was fetched begins at the start of the room, or right after a page without
\* RCP messages (history_complete).
CutIsMarked ==
    mode = "live" /\ complete => Extract(timeline, Max({0, prev - PageLimit}), prev) = <<>>

\* The newest message of the room reaches a pump that lives, unless another follows:
\* a window overrun costs the oldest messages, never the last one (receive, drain).
NewestArrives ==
    \A i \in 1 .. MaxEvents :
        i = Len(timeline) /\ IsRcp(i) ~>
            i \in Range(delivered) \/ Len(timeline) > i \/ mode \in {"dead", "unstarted"}

\* A process gets the room in order, once and without holes, and is told when its replay
\* was cut (backfill, receive).
ReplayIsFaithful == TypeOK /\ InOrderOnce /\ ReplayHasNoHoles /\ CutIsMarked
=============================================================================
