----------------------------- MODULE MasTokens -----------------------------
(***************************************************************************)
(* The refresh chain of one MAS account (auth/mas.py), shared by the       *)
(* server, the simclient and the setup scripts: processes of one host that *)
(* keep the live token pair in one cache file, under one lock file.        *)
(*                                                                         *)
(* Refresh tokens are numbered in the order the authentication server      *)
(* makes them, access tokens too.  The calls of one process wait for its   *)
(* _local_lock, so a process has one call in progress.                     *)
(***************************************************************************)
EXTENDS Integers, FiniteSets

CONSTANTS
    Procs,       \* the processes that share the account
    MaxIssued,   \* bound: calls that refresh
    MaxCrashes,  \* bound: processes killed
    MaxFaults    \* bound: reads, writes and exchanges that fail

ASSUME BoundAssumption == {MaxIssued, MaxCrashes, MaxFaults} \subseteq Nat

VARIABLES
    pc,        \* where the call of each process is
    mem,       \* _tokens
    stale,     \* the pair the call had before it waited for the lock
    cache,     \* the cache file
    request,   \* the exchange of each process with the token endpoint
    live,      \* the refresh token the authentication server accepts
    issued,    \* the access tokens it has issued
    fresh,     \* those with more than the skew left to live
    crashes, faults,
    broken,    \* an exchange was given up that may have been granted, or a cache
               \* was not read under the lock (history)
    reused     \* a consumed refresh token was sent (history)

vars == <<pc, mem, stale, cache, request, live, issued, fresh, crashes, faults, broken, reused>>

\* MasTokens: a token pair; None is no pair.
Pair == [refresh : Nat, access : Nat]
None == [refresh |-> 0, access |-> 0]
\* The pair of the configuration: its age is unknown, so it counts as expired.
Seed == [refresh |-> 1, access |-> 0]
valid(t) == t.access \in fresh
Or(a, b) == IF a # None THEN a ELSE b

NoRequest == [st |-> "none", token |-> 0, answer |-> None]
Statuses == {"none", "sent", "granted", "refused"}

Init ==
    /\ pc = [p \in Procs |-> "idle"] /\ mem = [p \in Procs |-> None]
    /\ stale = [p \in Procs |-> None] /\ cache = None
    /\ request = [p \in Procs |-> NoRequest]
    /\ live = 1 /\ issued = 0 /\ fresh = {}
    /\ crashes = 0 /\ faults = 0 /\ broken = FALSE /\ reused = FALSE

\* What _read_cache returns: nothing when the file is absent, unreadable or malformed.
ReadCache(c) ==
    \/ c = cache /\ UNCHANGED faults
    \/ c = None /\ cache # None /\ faults < MaxFaults /\ faults' = faults + 1

\* Bound: the refreshes in progress and those granted.
Room == issued + Cardinality({q \in Procs : pc[q] # "idle"}) < MaxIssued

\* access_token: the cache, else the memory, else the seed, if it is valid.
access_token(p) ==
    /\ pc[p] = "idle"
    /\ \E c \in {cache, None} :
        /\ ReadCache(c)
        /\ LET tokens == Or(c, Or(mem[p], Seed)) IN
           IF valid(tokens)
           THEN mem' = [mem EXCEPT ![p] = tokens] /\ UNCHANGED <<pc, stale>>
           ELSE /\ Room /\ UNCHANGED mem
                /\ pc' = [pc EXCEPT ![p] = "lock"] /\ stale' = [stale EXCEPT ![p] = tokens]
    /\ UNCHANGED <<cache, request, live, issued, fresh, crashes, broken, reused>>

\* The call is over and its locks are released.
Return(p) == pc' = [pc EXCEPT ![p] = "idle"] /\ stale' = [stale EXCEPT ![p] = None]

\* _file_lock: nobody else is between the lock and its release.
LockFree == \A q \in Procs : pc[q] # "post"

\* Mutant: the pair read before the lock goes first.
RefreshStale(p) ==
    /\ pc[p] = "lock" /\ LockFree
    /\ request' = [request EXCEPT ![p] = [st |-> "sent", token |-> stale[p].refresh, answer |-> None]]
    /\ pc' = [pc EXCEPT ![p] = "post"]
    /\ UNCHANGED <<mem, stale, cache, live, issued, fresh, crashes, faults, broken, reused>>

\* Mutant: a pair another process has just written is refreshed again.
RefreshAnyway(p) ==
    /\ pc[p] = "lock" /\ LockFree
    /\ request' = [request EXCEPT ![p] =
            [st |-> "sent", token |-> Or(cache, stale[p]).refresh, answer |-> None]]
    /\ pc' = [pc EXCEPT ![p] = "post"]
    /\ UNCHANGED <<mem, stale, cache, live, issued, fresh, crashes, faults, broken, reused>>

\* _refresh_locked as far as the POST: the cache is read again under the lock.
refresh_locked(p) ==
    /\ pc[p] = "lock" /\ LockFree
    /\ \E c \in {cache, None} :
        /\ ReadCache(c)
        /\ broken' = (broken \/ c # cache)
        /\ IF valid(c)
           THEN mem' = [mem EXCEPT ![p] = c] /\ Return(p) /\ UNCHANGED request
           ELSE /\ pc' = [pc EXCEPT ![p] = "post"]
                /\ request' = [request EXCEPT ![p] =
                        [st |-> "sent", token |-> Or(c, stale[p]).refresh, answer |-> None]]
                /\ UNCHANGED <<mem, stale>>
    /\ UNCHANGED <<cache, live, issued, fresh, crashes, reused>>

\* The token endpoint grants the live refresh token, with a new one or with none (the
\* caller then keeps the one it sent), and refuses a consumed one.
Grant(p, next, lives) ==
    /\ request[p].st = "sent" /\ request[p].token = live
    /\ next \in {live, live + 1} /\ live' = next /\ issued' = issued + 1
    /\ fresh' = IF lives THEN fresh \cup {issued + 1} ELSE fresh
    /\ request' = [request EXCEPT ![p].st = "granted",
                                  ![p].answer = [refresh |-> next, access |-> issued + 1]]
    /\ UNCHANGED <<pc, mem, stale, cache, crashes, faults, broken, reused>>

Refuse(p) ==
    /\ request[p].st = "sent" /\ request[p].token # live
    /\ request' = [request EXCEPT ![p].st = "refused"] /\ reused' = TRUE
    /\ UNCHANGED <<pc, mem, stale, cache, live, issued, fresh, crashes, faults, broken>>

\* An access token has no more than the skew left.
Expire(a) ==
    /\ a \in fresh /\ fresh' = fresh \ {a}
    /\ UNCHANGED <<pc, mem, stale, cache, request, live, issued, crashes, faults, broken, reused>>

\* Mutant: the pair is only remembered.
WriteMemoryOnly(p) ==
    /\ pc[p] = "post" /\ request[p].st = "granted"
    /\ mem' = [mem EXCEPT ![p] = request[p].answer]
    /\ Return(p) /\ request' = [request EXCEPT ![p] = NoRequest]
    /\ UNCHANGED <<cache, live, issued, fresh, crashes, faults, broken, reused>>

\* The end of _refresh_locked: the pair is written, then remembered, and the lock released.
Write(p) ==
    /\ pc[p] = "post" /\ request[p].st = "granted"
    /\ cache' = request[p].answer /\ mem' = [mem EXCEPT ![p] = request[p].answer]
    /\ Return(p) /\ request' = [request EXCEPT ![p] = NoRequest]
    /\ UNCHANGED <<live, issued, fresh, crashes, faults, broken, reused>>

\* Mutant: the error path leaves the lock held.
RejectedHoldsLock(p) ==
    /\ pc[p] = "post" /\ request[p].st = "refused"
    /\ request' = [request EXCEPT ![p] = NoRequest]
    /\ UNCHANGED <<pc, mem, stale, cache, live, issued, fresh, crashes, faults, broken, reused>>

\* _post_token raises on an answer that is not 200: TokenRefreshError.
Rejected(p) ==
    /\ pc[p] = "post" /\ request[p].st = "refused"
    /\ Return(p) /\ request' = [request EXCEPT ![p] = NoRequest]
    /\ UNCHANGED <<mem, cache, live, issued, fresh, crashes, faults, broken, reused>>

\* Whether giving up the exchange of p can cost the chain its live refresh token: the
\* endpoint has the request, or has answered it with a new one.
InDoubt(p) ==
    \/ request[p].st = "sent"
    \/ request[p].st = "granted" /\ request[p].answer.refresh # request[p].token

\* The exchange fails or times out, or the cache cannot be written: the call raises, its
\* lock is released, and the endpoint may still get the request.
Fails(p) ==
    /\ pc[p] = "post" /\ faults < MaxFaults /\ faults' = faults + 1
    /\ Return(p)
    /\ \/ broken' = (broken \/ InDoubt(p)) /\ UNCHANGED request
       \/ /\ request[p].st = "sent" /\ request' = [request EXCEPT ![p] = NoRequest]
          /\ UNCHANGED broken
    /\ UNCHANGED <<mem, cache, live, issued, fresh, crashes, reused>>

\* A process is killed and started again: its memory is gone and its lock released.
Crash(p) ==
    /\ crashes < MaxCrashes /\ crashes' = crashes + 1
    /\ Return(p) /\ mem' = [mem EXCEPT ![p] = None]
    /\ broken' = (broken \/ (pc[p] = "post" /\ InDoubt(p)))
    /\ UNCHANGED <<cache, request, live, issued, fresh, faults, reused>>

Next ==
    \/ \E p \in Procs : \/ access_token(p) \/ refresh_locked(p) \/ Refuse(p) \/ Write(p)
                        \/ Rejected(p) \/ Fails(p) \/ Crash(p)
                        \/ \E next \in {live, live + 1}, lives \in BOOLEAN : Grant(p, next, lives)
    \/ \E a \in fresh : Expire(a)

Spec == Init /\ [][Next]_vars

Served(p) == Refuse(p) \/ \E next \in {live, live + 1}, lives \in BOOLEAN : Grant(p, next, lives)
Ends(p) == Write(p) \/ Rejected(p) \/ Fails(p)

FairSpec ==
    /\ Spec
    /\ \A p \in Procs : SF_vars(refresh_locked(p)) /\ WF_vars(Served(p)) /\ WF_vars(Ends(p))

-----------------------------------------------------------------------------

\* The shape of the calls, the token pairs and the exchanges.
TypeOK ==
    /\ pc \in [Procs -> {"idle", "lock", "post"}]
    /\ mem \in [Procs -> Pair] /\ stale \in [Procs -> Pair] /\ cache \in Pair
    /\ request \in [Procs -> [st : Statuses, token : Nat, answer : Pair]]
    /\ live \in Nat \ {0} /\ issued \in Nat /\ fresh \subseteq 1..issued
    /\ crashes \in Nat /\ faults \in Nat /\ broken \in BOOLEAN /\ reused \in BOOLEAN

\* The refresh token the shared cache stands for.
CachedRefresh == Or(cache, Seed).refresh

\* Unless an exchange was given up in doubt or the cache was not read under the lock, the
\* refresh token the server accepts next is the one of the cache, or is in the answer a
\* process is about to write: crashes outside that window, cold memories, old seeds and
\* processes that wait for the lock with an outdated pair do no harm.
ChainKept ==
    broken \/ live = CachedRefresh
           \/ \E p \in Procs : pc[p] = "post" /\ request[p].st = "granted"
                                /\ request[p].answer.refresh = live

\* "never invalidate each other's rotating refresh token": no process sends a consumed
\* refresh token, but for those causes.
ReuseHasCause == reused => broken

\* A process that waited for the lock while another one refreshed takes that pair: no
\* token is requested while the cached one is still valid.
NoNeedlessRefresh == [][issued' # issued => broken \/ ~valid(cache)]_vars

\* Every call gets a token or an error: the lock is released on every path.
CallsEnd == \A p \in Procs : pc[p] # "idle" ~> pc[p] = "idle"

\* The chain is kept and nobody breaks it by sending a consumed token, but for the causes
\* the code cannot avoid (_refresh_locked under _file_lock).
ChainSound == ChainKept /\ ReuseHasCause
============================================================================
