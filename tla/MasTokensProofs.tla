-------------------------- MODULE MasTokensProofs --------------------------
(***************************************************************************)
(* For any set of processes and any bounds: the refresh chain of an        *)
(* account is kept, no consumed refresh token is sent, and no valid access *)
(* token is refreshed, but for the causes that set "broken".               *)
(***************************************************************************)
EXTENDS MasTokens, TLAPS

\* Who is between the lock and its release.
Alone == \A p, q \in Procs : pc[p] = "post" /\ pc[q] = "post" => p = q

\* Before the first pair is written, every process works from the seed.
FromSeed ==
    cache = None => \A p \in Procs : mem[p] = None /\ (pc[p] = "lock" => stale[p] = Seed)

\* The exchange of the process that holds the lock is about the cached refresh token, and
\* no other exchange is open.
Exchange ==
    \A p \in Procs :
        /\ request[p].st = "sent" => pc[p] = "post"
        /\ pc[p] = "post" => /\ request[p].st \in {"sent", "granted"}
                             /\ request[p].token = CachedRefresh
                             /\ request[p].st = "granted" => request[p].answer.refresh = live

Kept ==
    \/ live = CachedRefresh
    \/ \E p \in Procs : pc[p] = "post" /\ request[p].st = "granted"

Chain == FromSeed /\ Exchange /\ Kept /\ ~reused

IInv == TypeOK /\ Alone /\ (broken \/ Chain)

\* The parts of TypeOK the steps are proved for.
CallsOK ==
    /\ pc \in [Procs -> {"idle", "lock", "post"}]
    /\ mem \in [Procs -> Pair] /\ stale \in [Procs -> Pair] /\ cache \in Pair
    /\ crashes \in Nat /\ faults \in Nat
ServerOK ==
    /\ request \in [Procs -> [st : Statuses, token : Nat, answer : Pair]]
    /\ live \in Nat \ {0} /\ issued \in Nat /\ fresh \subseteq 1..issued
FlagsOK == broken \in BOOLEAN /\ reused \in BOOLEAN

(* The type invariant, split into the parts the steps disturb. *)
LEMMA Parts == TypeOK <=> CallsOK /\ ServerOK /\ FlagsOK
  BY DEF TypeOK, CallsOK, ServerOK, FlagsOK

\* Init establishes the inductive invariant.
LEMMA InitIInv == Init => IInv
<1> SUFFICES ASSUME Init PROVE IInv
  OBVIOUS
<1>1. CallsOK
  BY DEF Init, CallsOK, Pair, None
<1>2. ServerOK
  BY DEF Init, ServerOK, Pair, None, NoRequest, Statuses
<1>3. FlagsOK
  BY DEF Init, FlagsOK
<1>4. Alone
  BY DEF Init, Alone
<1>5. FromSeed /\ Kept
  BY DEF Init, FromSeed, Kept, CachedRefresh, Or, Seed
<1>6. Exchange
  BY DEF Init, Exchange, NoRequest
<1>7. ~reused
  BY DEF Init
<1> QED
  BY <1>1, <1>2, <1>3, <1>4, <1>5, <1>6, <1>7, Parts DEF IInv, Chain

\* An outcome of _read_cache.
LEMMA Reads == ASSUME NEW c, CallsOK, ReadCache(c) PROVE c \in Pair /\ faults' \in Nat
  BY DEF ReadCache, CallsOK, Pair, None

(* The first usable of two token pairs is a pair. *)
LEMMA OrPair == ASSUME NEW a \in Pair, NEW b \in Pair PROVE Or(a, b) \in Pair
  BY DEF Or

(* The empty and the seeded pair are pairs. *)
LEMMA PairConstants == None \in Pair /\ Seed \in Pair
  BY DEF None, Seed, Pair

\* The record of a request that is sent.
LEMMA SentOK ==
  ASSUME NEW t \in Pair
  PROVE [st |-> "sent", token |-> t.refresh, answer |-> None] \in [st : Statuses, token : Nat, answer : Pair]
  BY PairConstants DEF Pair, Statuses

\* Every step keeps the types.
LEMMA TypeStep == TypeOK /\ [Next]_vars => TypeOK'
<1> SUFFICES ASSUME CallsOK, ServerOK, FlagsOK, [Next]_vars PROVE (CallsOK /\ ServerOK /\ FlagsOK)'
  BY Parts DEF TypeOK, CallsOK, ServerOK, FlagsOK
<1>1. ASSUME NEW p \in Procs, access_token(p) PROVE (CallsOK /\ ServerOK /\ FlagsOK)'
  <2>1. PICK c \in {cache, None} :
        /\ ReadCache(c)
        /\ \/ mem' = [mem EXCEPT ![p] = Or(c, Or(mem[p], Seed))] /\ UNCHANGED <<pc, stale>>
           \/ /\ UNCHANGED mem /\ pc' = [pc EXCEPT ![p] = "lock"]
              /\ stale' = [stale EXCEPT ![p] = Or(c, Or(mem[p], Seed))]
    BY <1>1, Zenon DEF access_token
  <2>2. c \in Pair /\ faults' \in Nat
    BY <2>1, Reads
  <2>3. Or(c, Or(mem[p], Seed)) \in Pair
    BY <2>2, OrPair, PairConstants DEF CallsOK
  <2>4. UNCHANGED <<cache, request, live, issued, fresh, crashes, broken, reused>>
    BY <1>1 DEF access_token
  <2> QED
    BY <2>1, <2>2, <2>3, <2>4 DEF CallsOK, ServerOK, FlagsOK
<1>2. ASSUME NEW p \in Procs, refresh_locked(p) PROVE (CallsOK /\ ServerOK /\ FlagsOK)'
  <2>1. PICK c \in {cache, None} :
        /\ ReadCache(c)
        /\ broken' = (broken \/ c # cache)
        /\ \/ mem' = [mem EXCEPT ![p] = c] /\ Return(p) /\ UNCHANGED request
           \/ /\ pc' = [pc EXCEPT ![p] = "post"]
              /\ request' = [request EXCEPT ![p] =
                        [st |-> "sent", token |-> Or(c, stale[p]).refresh, answer |-> None]]
              /\ UNCHANGED <<mem, stale>>
    BY <1>2, Zenon DEF refresh_locked
  <2>2. c \in Pair /\ faults' \in Nat
    BY <2>1, Reads
  <2>3. Or(c, stale[p]) \in Pair
    BY <2>2, OrPair DEF CallsOK
  <2>4. UNCHANGED <<cache, live, issued, fresh, crashes, reused>>
    BY <1>2 DEF refresh_locked
  <2>5. FlagsOK'
    BY <2>1, <2>4 DEF FlagsOK
  <2>6. CallsOK'
    BY <2>1, <2>2, <2>4, PairConstants DEF CallsOK, Return
  <2>7. ServerOK'
    BY <2>1, <2>3, <2>4, SentOK DEF ServerOK
  <2> QED
    BY <2>5, <2>6, <2>7
<1>3. ASSUME NEW p \in Procs, Refuse(p) PROVE (CallsOK /\ ServerOK /\ FlagsOK)'
  BY <1>3 DEF Refuse, CallsOK, ServerOK, FlagsOK, Statuses
<1>4. ASSUME NEW p \in Procs, Write(p) PROVE (CallsOK /\ ServerOK /\ FlagsOK)'
  BY <1>4, PairConstants DEF Write, Return, NoRequest, CallsOK, ServerOK, FlagsOK, Statuses
<1>5. ASSUME NEW p \in Procs, Rejected(p) PROVE (CallsOK /\ ServerOK /\ FlagsOK)'
  BY <1>5, PairConstants DEF Rejected, Return, NoRequest, CallsOK, ServerOK, FlagsOK, Statuses
<1>6. ASSUME NEW p \in Procs, Fails(p) PROVE (CallsOK /\ ServerOK /\ FlagsOK)'
  <2>1. CallsOK'
    BY <1>6, PairConstants DEF Fails, Return, CallsOK
  <2>2. ServerOK'
    BY <1>6, PairConstants DEF Fails, NoRequest, ServerOK, Statuses
  <2>3. FlagsOK'
    BY <1>6, Zenon DEF Fails, FlagsOK
  <2> QED
    BY <2>1, <2>2, <2>3
<1>7. ASSUME NEW p \in Procs, Crash(p) PROVE (CallsOK /\ ServerOK /\ FlagsOK)'
  <2>1. CallsOK'
    BY <1>7, PairConstants DEF Crash, Return, CallsOK
  <2>2. ServerOK'
    BY <1>7 DEF Crash, ServerOK
  <2>3. FlagsOK'
    BY <1>7, Zenon DEF Crash, FlagsOK
  <2> QED
    BY <2>1, <2>2, <2>3
<1>8. ASSUME NEW p \in Procs, NEW next \in {live, live + 1}, NEW lives \in BOOLEAN,
             Grant(p, next, lives)
      PROVE (CallsOK /\ ServerOK /\ FlagsOK)'
  <2>1. next \in Nat \ {0} /\ issued + 1 \in Nat
    BY DEF ServerOK
  <2>2. [refresh |-> next, access |-> issued + 1] \in Pair
    BY <2>1 DEF Pair
  <2>3. request' \in [Procs -> [st : Statuses, token : Nat, answer : Pair]]
    BY <1>8, <2>2 DEF Grant, ServerOK, Statuses
  <2>4. live' \in Nat \ {0} /\ issued' \in Nat /\ fresh' \subseteq 1..issued'
    BY <1>8, <2>1 DEF Grant, ServerOK
  <2> QED
    BY <1>8, <2>3, <2>4 DEF Grant, CallsOK, ServerOK, FlagsOK
<1>9. ASSUME NEW a \in fresh, Expire(a) PROVE (CallsOK /\ ServerOK /\ FlagsOK)'
  BY <1>9 DEF Expire, CallsOK, ServerOK, FlagsOK
<1>10. CASE UNCHANGED vars
  BY <1>10 DEF vars, CallsOK, ServerOK, FlagsOK
<1> QED
  BY <1>1, <1>2, <1>3, <1>4, <1>5, <1>6, <1>7, <1>8, <1>9, <1>10 DEF Next

\* How each step moves the calls: only one that finds the lock free gets past it.
LEMMA Moves ==
  ASSUME [Next]_vars
  PROVE \/ UNCHANGED pc
        \/ \E p \in Procs : pc' = [pc EXCEPT ![p] = "idle"] \/ pc' = [pc EXCEPT ![p] = "lock"]
        \/ \E p \in Procs : LockFree /\ pc' = [pc EXCEPT ![p] = "post"]
<1>1. ASSUME NEW p \in Procs, access_token(p) PROVE UNCHANGED pc \/ pc' = [pc EXCEPT ![p] = "lock"]
  BY <1>1, Zenon DEF access_token
<1>2. ASSUME NEW p \in Procs, refresh_locked(p)
      PROVE LockFree /\ (pc' = [pc EXCEPT ![p] = "idle"] \/ pc' = [pc EXCEPT ![p] = "post"])
  BY <1>2, Zenon DEF refresh_locked, Return
<1>3. ASSUME NEW p \in Procs, Refuse(p) \/ \E next \in {live, live + 1}, lives \in BOOLEAN : Grant(p, next, lives)
      PROVE UNCHANGED pc
  BY <1>3 DEF Refuse, Grant
<1>4. ASSUME NEW p \in Procs, Write(p) \/ Rejected(p) \/ Fails(p) \/ Crash(p)
      PROVE pc' = [pc EXCEPT ![p] = "idle"]
  BY <1>4, Zenon DEF Write, Rejected, Fails, Crash, Return
<1>5. ASSUME NEW a \in fresh, Expire(a) PROVE UNCHANGED pc
  BY <1>5 DEF Expire
<1>6. CASE UNCHANGED vars
  BY <1>6 DEF vars
<1> QED
  BY <1>1, <1>2, <1>3, <1>4, <1>5, <1>6, Zenon DEF Next

\* The lock file lets one process at a time refresh.
LEMMA AloneStep == TypeOK /\ Alone /\ [Next]_vars => Alone'
  BY Moves DEF TypeOK, Alone, LockFree

\* A pair that is valid is not the seed and not None: both count as expired.
LEMMA ValidIsIssued ==
  ASSUME TypeOK, NEW t \in Pair, valid(t)
  PROVE t # None /\ t # Seed
  BY DEF TypeOK, valid, None, Seed, Pair

\* Every step keeps the chain, or sets broken.
LEMMA ChainStep == TypeOK /\ Alone /\ Chain /\ ~broken /\ [Next]_vars => broken' \/ Chain'
<1> SUFFICES ASSUME TypeOK, Alone, Chain, [Next]_vars, ~broken' PROVE Chain'
  OBVIOUS
<1>0. TypeOK' /\ Alone'
  BY TypeStep, AloneStep
<1>1. ASSUME NEW p \in Procs, access_token(p) PROVE Chain'
  <2>1. UNCHANGED <<cache, request, live, reused>>
    BY <1>1 DEF access_token
  <2>2. PICK c \in {cache, None} :
        \/ /\ valid(Or(c, Or(mem[p], Seed))) /\ UNCHANGED <<pc, stale>>
           /\ mem' = [mem EXCEPT ![p] = Or(c, Or(mem[p], Seed))]
        \/ /\ UNCHANGED mem /\ pc' = [pc EXCEPT ![p] = "lock"]
           /\ stale' = [stale EXCEPT ![p] = Or(c, Or(mem[p], Seed))]
    BY <1>1, Zenon DEF access_token
  <2>3. pc[p] = "idle"
    BY <1>1 DEF access_token
  <2>4. FromSeed'
    <3> SUFFICES ASSUME cache = None
                 PROVE \A q \in Procs : mem'[q] = None /\ (pc'[q] = "lock" => stale'[q] = Seed)
      BY <2>1 DEF FromSeed
    <3>1. Or(c, Or(mem[p], Seed)) = Seed
      BY DEF Or, Chain, FromSeed
    <3>2. ~valid(Seed)
      BY DEF TypeOK, valid, Seed
    <3> QED
      BY <2>2, <3>1, <3>2 DEF TypeOK, Chain, FromSeed
  <2>5. Exchange' /\ Kept'
    BY <2>1, <2>2, <2>3 DEF TypeOK, Chain, Exchange, Kept, CachedRefresh
  <2> QED
    BY <2>1, <2>4, <2>5 DEF Chain
<1>2. ASSUME NEW p \in Procs, refresh_locked(p) PROVE Chain'
  <2>1. UNCHANGED <<cache, live, reused>> /\ LockFree /\ pc[p] = "lock"
    BY <1>2 DEF refresh_locked
  <2>2. \/ valid(cache) /\ mem' = [mem EXCEPT ![p] = cache] /\ Return(p) /\ UNCHANGED request
        \/ /\ pc' = [pc EXCEPT ![p] = "post"] /\ UNCHANGED <<mem, stale>>
           /\ request' = [request EXCEPT ![p] =
                     [st |-> "sent", token |-> Or(cache, stale[p]).refresh, answer |-> None]]
    BY <1>2, Zenon DEF refresh_locked
  <2>3. live = CachedRefresh /\ \A q \in Procs : pc[q] # "post" /\ request[q].st # "sent"
    BY <2>1 DEF LockFree, Chain, Kept, Exchange
  <2>4. CASE valid(cache) /\ mem' = [mem EXCEPT ![p] = cache] /\ Return(p) /\ UNCHANGED request
    <3>1. cache # None
      BY <2>4, ValidIsIssued DEF TypeOK
    <3> QED
      BY <2>1, <2>3, <2>4, <3>1
      DEF Return, TypeOK, Chain, FromSeed, Exchange, Kept, CachedRefresh
  <2>5. CASE /\ pc' = [pc EXCEPT ![p] = "post"] /\ UNCHANGED <<mem, stale>>
             /\ request' = [request EXCEPT ![p] =
                       [st |-> "sent", token |-> Or(cache, stale[p]).refresh, answer |-> None]]
    <3>1. Or(cache, stale[p]).refresh = CachedRefresh
      BY <2>1 DEF Or, CachedRefresh, Chain, FromSeed
    <3>2. FromSeed' /\ Kept'
      BY <2>1, <2>3, <2>5 DEF TypeOK, Chain, FromSeed, Kept, CachedRefresh
    <3>3. Exchange'
      BY <2>1, <2>3, <2>5, <3>1 DEF TypeOK, Exchange, CachedRefresh
    <3> QED
      BY <2>1, <3>2, <3>3 DEF Chain
  <2> QED
    BY <2>2, <2>4, <2>5
<1>3. ASSUME NEW p \in Procs, Refuse(p) PROVE FALSE
  <2>1. pc[p] = "post" /\ request[p].token = CachedRefresh /\ live # CachedRefresh
    BY <1>3 DEF Refuse, Chain, Exchange
  <2>2. PICK q \in Procs : pc[q] = "post" /\ request[q].st = "granted"
    BY <2>1 DEF Chain, Kept
  <2> QED
    BY <1>3, <2>1, <2>2 DEF Refuse, Alone
<1>4. ASSUME NEW p \in Procs, Write(p) PROVE Chain'
  <2>1. request[p].answer.refresh = live /\ live # 0
    BY <1>4 DEF Write, Chain, Exchange, TypeOK
  <2>2. cache' # None /\ cache'.refresh = live
    BY <1>4, <2>1 DEF Write, None
  <2>3. \A q \in Procs : pc'[q] # "post" /\ request'[q].st # "sent"
    BY <1>4 DEF Write, Return, NoRequest, TypeOK, Alone, Chain, Exchange
  <2>4. UNCHANGED <<live, reused>>
    BY <1>4 DEF Write
  <2> QED
    BY <2>2, <2>3, <2>4 DEF Chain, FromSeed, Exchange, Kept, CachedRefresh, Or
<1>5. ASSUME NEW p \in Procs, Rejected(p) PROVE FALSE
  BY <1>5 DEF Rejected, Chain, Exchange
<1>6. ASSUME NEW p \in Procs, Fails(p) \/ Crash(p) PROVE Chain'
  <2>1. /\ pc' = [pc EXCEPT ![p] = "idle"] /\ UNCHANGED <<cache, live, reused>>
        /\ mem' \in {mem, [mem EXCEPT ![p] = None]} /\ stale' = [stale EXCEPT ![p] = None]
        /\ \/ (pc[p] = "post" => ~InDoubt(p)) /\ UNCHANGED request
           \/ request[p].st = "sent" /\ request' = [request EXCEPT ![p] = NoRequest]
    BY <1>6, Zenon DEF Fails, Crash, Return
  <2>2. FromSeed'
    BY <2>1 DEF TypeOK, Chain, FromSeed
  <2>3. Kept'
    <3>1. CASE live = CachedRefresh
      BY <2>1, <3>1 DEF Kept, CachedRefresh
    <3>2. CASE live # CachedRefresh
      <4>1. PICK q \in Procs : pc[q] = "post" /\ request[q].st = "granted"
        BY <3>2 DEF Chain, Kept
      <4>2. p # q
        BY <2>1, <3>2, <4>1 DEF InDoubt, Chain, Exchange
      <4> QED
        BY <2>1, <4>1, <4>2 DEF TypeOK, Kept
    <3> QED
      BY <3>1, <3>2
  <2>4. Exchange'
    BY <2>1 DEF TypeOK, InDoubt, NoRequest, Chain, Exchange, CachedRefresh
  <2> QED
    BY <2>1, <2>2, <2>3, <2>4 DEF Chain
<1>7. ASSUME NEW p \in Procs, NEW next \in {live, live + 1}, NEW lives \in BOOLEAN,
             Grant(p, next, lives)
      PROVE Chain'
  <2>1. pc[p] = "post" /\ UNCHANGED <<pc, mem, stale, cache, reused>> /\ live' = next
    BY <1>7 DEF Grant, Chain, Exchange
  <2>2. request' = [request EXCEPT ![p].st = "granted",
                                   ![p].answer = [refresh |-> next, access |-> issued + 1]]
    BY <1>7 DEF Grant
  <2>3. request'[p].st = "granted" /\ request'[p].token = request[p].token
        /\ request'[p].answer.refresh = next /\ \A q \in Procs \ {p} : request'[q] = request[q]
    BY <2>2 DEF TypeOK
  <2>4. \A q \in Procs \ {p} : pc[q] # "post"
    BY <2>1 DEF Alone
  <2>5. Exchange'
    BY <2>1, <2>3, <2>4 DEF Chain, Exchange, CachedRefresh
  <2> QED
    BY <2>1, <2>3, <2>5 DEF Chain, FromSeed, Kept
<1>8. ASSUME NEW a \in fresh, Expire(a) PROVE Chain'
  BY <1>8 DEF Expire, Chain, FromSeed, Exchange, Kept, CachedRefresh
<1>9. CASE UNCHANGED vars
  BY <1>9 DEF vars, Chain, FromSeed, Exchange, Kept, CachedRefresh
<1> QED
  BY <1>1, <1>2, <1>3, <1>4, <1>5, <1>6, <1>7, <1>8, <1>9 DEF Next

\* Once the chain is in doubt it stays so in the history.
LEMMA BrokenStays == TypeOK /\ broken /\ [Next]_vars => broken'
  BY DEF TypeOK, Next, vars, access_token, refresh_locked, Refuse, Write, Rejected, Fails, Crash,
         Grant, Expire

\* The invariant the theorems rest on.
LEMMA Inductive == Spec => []IInv
<1>1. IInv /\ [Next]_vars => IInv'
  BY TypeStep, AloneStep, ChainStep, BrokenStays DEF IInv
<1> QED
  BY InitIInv, <1>1, PTL DEF Spec

\* The records of the token store keep their types, whatever the number of processes.
THEOREM TokensTypeOK == Spec => []TypeOK
  BY Inductive, PTL DEF IInv

\* Whatever the number of processes that share an account, and however often they crash
\* or fail to read, the live refresh token is in the cache or in the answer about to be
\* written there, unless an exchange was given up in doubt or a read under the lock failed.
LEMMA TokensChainKept == Spec => []ChainKept
<1>1. IInv => ChainKept
  BY DEF IInv, Chain, Kept, Exchange, ChainKept
<1> QED
  BY Inductive, <1>1, PTL

\* And no process sends a consumed refresh token but for the same causes.
LEMMA TokensReuseHasCause == Spec => []ReuseHasCause
<1>1. IInv => ReuseHasCause
  BY DEF IInv, Chain, ReuseHasCause
<1> QED
  BY Inductive, <1>1, PTL

\* Together: the refresh chain of an account stays whole, for any number of processes,
\* crashes and failing reads, but for an exchange given up in doubt or a cache that was not
\* read under the lock (_refresh_locked).
THEOREM TokensChainSound == Spec => []ChainSound
  BY TokensChainKept, TokensReuseHasCause, PTL DEF ChainSound
\* A refresh token is only on its way while the cached access token is expired.
SentForCause == broken \/ \A p \in Procs : request[p].st = "sent" => ~valid(cache)

\* The pair is looked at under the lock, and nobody else writes one meanwhile.
LEMMA SentForCauseStep ==
  ASSUME IInv, SentForCause, [Next]_vars PROVE SentForCause'
<1>1. CASE broken'
  BY <1>1 DEF SentForCause
<1>2. CASE ~broken'
  <2>1. ~broken /\ Exchange /\ Alone
    BY <1>2, BrokenStays DEF IInv, Chain
  <2>2. \A p \in Procs : request[p].st = "sent" => pc[p] = "post" /\ ~valid(cache)
    BY <2>1 DEF SentForCause, Exchange
  <2>3. request \in [Procs -> [st : Statuses, token : Nat, answer : Pair]]
    BY Parts DEF IInv, ServerOK
  <2>4. ASSUME NEW p \in Procs,
               access_token(p) \/ Refuse(p) \/ Fails(p) \/ Crash(p) \/ Rejected(p)
        PROVE  \A q \in Procs : request'[q].st = "sent" => ~valid(cache)'
    <3>1. cache' = cache /\ fresh' = fresh
      BY <2>4 DEF access_token, Refuse, Fails, Crash, Rejected
    <3>2. \A q \in Procs : request'[q].st = "sent" => request[q].st = "sent"
      BY <2>3, <2>4 DEF access_token, Refuse, Fails, Crash, Rejected, NoRequest
    <3> QED
      BY <2>2, <3>1, <3>2 DEF valid
  <2>5. ASSUME NEW p \in Procs, refresh_locked(p)
        PROVE  \A q \in Procs : request'[q].st = "sent" => ~valid(cache)'
    <3>1. LockFree /\ cache' = cache /\ fresh' = fresh
      BY <2>5 DEF refresh_locked
    <3>2. \A q \in Procs : request[q].st # "sent"
      BY <2>2, <3>1 DEF LockFree
    <3>3. CASE request' = request
      BY <3>2, <3>3
    <3>4. CASE request' # request
      <4>1. ~valid(cache)
        BY <1>2, <2>5, <3>4 DEF refresh_locked
      <4> QED
        BY <3>1, <4>1 DEF valid
    <3> QED
      BY <3>3, <3>4
  <2>6. ASSUME NEW p \in Procs, Write(p)
        PROVE  \A q \in Procs : request'[q].st = "sent" => ~valid(cache)'
    <3>1. \A q \in Procs : request[q].st = "sent" => q = p
      BY <2>1, <2>2, <2>6 DEF Alone, Write
    <3>2. \A q \in Procs : request'[q].st # "sent"
      BY <2>3, <2>6, <3>1 DEF Write, NoRequest
    <3> QED
      BY <3>2
  <2>7. ASSUME NEW p \in Procs, NEW next \in {live, live + 1}, NEW lives \in BOOLEAN,
               Grant(p, next, lives)
        PROVE  \A q \in Procs : request'[q].st = "sent" => ~valid(cache)'
    <3>1. \A q \in Procs : request[q].st = "sent" => q = p
      BY <2>1, <2>2, <2>7 DEF Alone, Grant
    <3>2. \A q \in Procs : request'[q].st # "sent"
      BY <2>3, <2>7, <3>1 DEF Grant
    <3> QED
      BY <3>2
  <2>8. ASSUME NEW a \in fresh, Expire(a)
        PROVE  \A q \in Procs : request'[q].st = "sent" => ~valid(cache)'
    BY <2>2, <2>8 DEF Expire, valid
  <2>9. ASSUME UNCHANGED vars
        PROVE  \A q \in Procs : request'[q].st = "sent" => ~valid(cache)'
    BY <2>2, <2>9 DEF vars, valid
  <2>10. \A q \in Procs : request'[q].st = "sent" => ~valid(cache)'
    BY <2>4, <2>5, <2>6, <2>7, <2>8, <2>9 DEF Next
  <2> QED
    BY <2>10 DEF SentForCause
<1> QED
  BY <1>1, <1>2

\* Whatever the number of processes, an access token that is in the cache and has not
\* expired is never refreshed: whoever gets the lock after another's refresh takes that one,
\* but for the causes of broken (_refresh_locked: "Another process may have refreshed while
\* we waited").
THEOREM NoRefreshTwice == Spec => NoNeedlessRefresh
<1>1. Init => SentForCause
  BY DEF Init, SentForCause, NoRequest
<1>2. IInv /\ SentForCause /\ [Next]_vars => [issued' # issued => broken \/ ~valid(cache)]_vars
  <2> SUFFICES ASSUME IInv, SentForCause, Next, issued' # issued PROVE broken \/ ~valid(cache)
    BY DEF vars
  <2>1. PICK p \in Procs : \E next \in {live, live + 1}, lives \in BOOLEAN : Grant(p, next, lives)
    BY DEF Next, access_token, refresh_locked, Refuse, Write, Rejected, Fails, Crash, Expire
  <2>2. request[p].st = "sent"
    BY <2>1 DEF Grant
  <2> QED
    BY <2>2 DEF SentForCause
<1>3. IInv /\ SentForCause /\ [Next]_vars => SentForCause'
  BY SentForCauseStep
<1> QED
  BY Inductive, <1>1, <1>2, <1>3, PTL DEF Spec, NoNeedlessRefresh
============================================================================
