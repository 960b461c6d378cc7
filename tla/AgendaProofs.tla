----------------------------- MODULE AgendaProofs -----------------------------
(***************************************************************************)
(* Theorems about Agenda, for every set of paths, every specification of   *)
(* the leaves, every set of direct runs and every instance: its bounds,    *)
(* budget, gates and tools.                                                *)
(***************************************************************************)
EXTENDS Agenda, FiniteSetTheorems, WellFoundedInduction, TLAPS

-----------------------------------------------------------------------------
(* Induction and recursion over the natural numbers, stated with sets and  *)
(* functions in the place of predicates and operators.                     *)

\* A set of natural numbers has a least member.
LEMMA Least ==
  ASSUME NEW S, S \subseteq Nat, S # {}
  PROVE  \E m \in S : \A n \in S : m <= n
<1>1. PICK x \in S : \A y \in S : ~(<<y, x>> \in OpToRel(<, Nat))
  BY NatLessThanWellFounded, WFMin
<1>2. ASSUME NEW y \in S, y < x
      PROVE  FALSE
  <2>1. <<y, x>> \in Nat \X Nat
    OBVIOUS
  <2>2. <<y, x>>[1] < <<y, x>>[2]
    BY <1>2
  <2> QED
    BY <2>1, <2>2, <1>1 DEF OpToRel
<1> QED
  BY <1>2

\* Induction: a set with 0, and with n + 1 for each n of it, has every natural number.
LEMMA SetInduction ==
  ASSUME NEW S, 0 \in S, \A n \in Nat : n \in S => n + 1 \in S
  PROVE  Nat \subseteq S
<1> DEFINE T == Nat \ S
<1> SUFFICES ASSUME T # {} PROVE FALSE
  OBVIOUS
<1>1. PICK m \in T : \A n \in T : m <= n
  <2>1. T \subseteq Nat
    OBVIOUS
  <2> HIDE DEF T
  <2> QED
    BY <2>1, Least
<1>2. m # 0
  OBVIOUS
<1>3. m - 1 \in Nat /\ m - 1 \in S
  BY <1>1, <1>2
<1> QED
  BY <1>3

\* g is what the recursion from c by the steps of G builds up to n.
Builds(g, n, c, G, V) ==
    /\ g \in [0 .. n -> V] /\ g[0] = c
    /\ \A k \in 0 .. n - 1 : g[k + 1] = G[k][g[k]]

\* The recursion can be built up to every number.
LEMMA BuildsExists ==
  ASSUME NEW V, NEW c \in V, NEW G \in [Nat -> [V -> V]]
  PROVE  \A n \in Nat : \E g : Builds(g, n, c, G, V)
<1> DEFINE S == {n \in Nat : \E g : Builds(g, n, c, G, V)}
<1>1. 0 \in S
  <2>1. Builds([k \in 0 .. 0 |-> c], 0, c, G, V)
    BY DEF Builds
  <2> QED
    BY <2>1
<1>2. ASSUME NEW n \in Nat, n \in S
      PROVE  n + 1 \in S
  <2>1. PICK g : Builds(g, n, c, G, V)
    BY <1>2
  <2> DEFINE h == [k \in 0 .. n + 1 |-> IF k <= n THEN g[k] ELSE G[n][g[n]]]
  <2>2. g \in [0 .. n -> V] /\ g[n] \in V /\ G[n] \in [V -> V] /\ G[n][g[n]] \in V
    BY <2>1 DEF Builds
  <2>3. h \in [0 .. n + 1 -> V]
    BY <2>2
  <2>4. h[0] = c
    BY <2>1 DEF Builds
  <2>5. ASSUME NEW k \in 0 .. n
        PROVE  h[k + 1] = G[k][h[k]]
    <3>1. CASE k = n
      BY <3>1
    <3>2. CASE k # n
      <4>1. k \in 0 .. n - 1 /\ k + 1 \in 0 .. n
        BY <3>2
      <4> QED
        BY <4>1, <2>1 DEF Builds
    <3> QED
      BY <3>1, <3>2
  <2>6. Builds(h, n + 1, c, G, V)
    <3> HIDE DEF h
    <3> QED
      BY <2>3, <2>4, <2>5 DEF Builds
  <2> QED
    BY <2>6
<1> HIDE DEF S
<1>3. Nat \subseteq S
  BY <1>1, <1>2, SetInduction
<1> QED
  BY <1>3 DEF S

\* It is built in one way only.
LEMMA BuildsUnique ==
  ASSUME NEW V, NEW c \in V, NEW G \in [Nat -> [V -> V]]
  PROVE  \A n \in Nat : \A g, h : \A m, p \in Nat :
            n <= m /\ n <= p /\ Builds(g, m, c, G, V) /\ Builds(h, p, c, G, V) => g[n] = h[n]
<1> DEFINE S == {n \in Nat : \A g, h : \A m, p \in Nat :
            n <= m /\ n <= p /\ Builds(g, m, c, G, V) /\ Builds(h, p, c, G, V) => g[n] = h[n]}
<1>1. 0 \in S
  BY DEF Builds
<1>2. ASSUME NEW n \in Nat, n \in S
      PROVE  n + 1 \in S
  <2>1. SUFFICES ASSUME NEW g, NEW h, NEW m \in Nat, NEW p \in Nat, n + 1 <= m, n + 1 <= p,
                        Builds(g, m, c, G, V), Builds(h, p, c, G, V)
                 PROVE  g[n + 1] = h[n + 1]
    OBVIOUS
  <2>2. g[n] = h[n]
    BY <1>2, <2>1
  <2>3. n \in 0 .. m - 1 /\ n \in 0 .. p - 1
    BY <2>1
  <2> QED
    BY <2>1, <2>2, <2>3 DEF Builds
<1> HIDE DEF S
<1>3. Nat \subseteq S
  BY <1>1, <1>2, SetInduction
<1> QED
  BY <1>3 DEF S

\* f is the recursion from c by the steps of G.
Recurs(f, c, G, V) ==
    f \in [Nat -> V] /\ f[0] = c /\ \A n \in Nat : f[n + 1] = G[n][f[n]]

\* A recursion over the natural numbers defines a function.
LEMMA Recursion ==
  ASSUME NEW V, NEW c \in V, NEW G \in [Nat -> [V -> V]]
  PROVE  \E f : Recurs(f, c, G, V)
<1> DEFINE B(n) == CHOOSE g : Builds(g, n, c, G, V)
           f == [n \in Nat |-> B(n)[n]]
<1>1. \A n \in Nat : Builds(B(n), n, c, G, V)
  BY BuildsExists
<1> HIDE DEF B
<1>2. f \in [Nat -> V]
  BY <1>1 DEF Builds
<1>3. f[0] = c
  BY <1>1 DEF Builds
<1>4. ASSUME NEW n \in Nat
      PROVE  f[n + 1] = G[n][f[n]]
  <2>1. Builds(B(n), n, c, G, V) /\ Builds(B(n + 1), n + 1, c, G, V)
    BY <1>1
  <2>2. n <= n /\ n <= n + 1
    OBVIOUS
  <2>3. B(n)[n] = B(n + 1)[n]
    BY <2>1, <2>2, BuildsUnique
  <2>4. B(n + 1)[n + 1] = G[n][B(n + 1)[n]]
    BY <2>1 DEF Builds
  <2> QED
    BY <2>3, <2>4
<1> HIDE DEF f
<1>5. Recurs(f, c, G, V)
  BY <1>2, <1>3, <1>4 DEF Recurs
<1> QED
  BY <1>5

\* f is the recursion from c by the steps of G, up to N.
RecursTo(f, N, c, G, V) ==
    /\ f \in [0 .. N -> V] /\ f[0] = c
    /\ \A n \in 1 .. N : f[n] = G[n][f[n - 1]]

\* A recursion up to a number defines a function.
LEMMA RecursionTo ==
  ASSUME NEW N \in Nat, NEW V, NEW c \in V, NEW G \in [1 .. N -> [V -> V]]
  PROVE  \E f : RecursTo(f, N, c, G, V)
<1> DEFINE H == [n \in Nat |-> [v \in V |-> IF n + 1 \in 1 .. N THEN G[n + 1][v] ELSE v]]
<1>1. H \in [Nat -> [V -> V]]
  <2>1. ASSUME NEW n \in Nat, NEW v \in V
        PROVE  (IF n + 1 \in 1 .. N THEN G[n + 1][v] ELSE v) \in V
    <3>1. CASE n + 1 \in 1 .. N
      <4>1. G[n + 1] \in [V -> V]
        BY <3>1
      <4> QED
        BY <3>1, <4>1
    <3> QED
      BY <3>1
  <2> QED
    BY <2>1
<1>2. PICK h : Recurs(h, c, H, V)
  <2> HIDE DEF H
  <2> QED
    BY <1>1, Recursion
<1> DEFINE f == [n \in 0 .. N |-> h[n]]
<1>3. f \in [0 .. N -> V] /\ f[0] = c
  BY <1>2 DEF Recurs
<1>4. ASSUME NEW n \in 1 .. N
      PROVE  f[n] = G[n][f[n - 1]]
  <2>1. PICK k \in Nat : k = n - 1 /\ k + 1 = n /\ k \in 0 .. N
    OBVIOUS
  <2>2. h[k + 1] = H[k][h[k]] /\ h[k] \in V
    BY <1>2 DEF Recurs
  <2>3. H[k][h[k]] = G[k + 1][h[k]]
    BY <2>1, <2>2
  <2> QED
    BY <2>1, <2>2, <2>3
<1> HIDE DEF f
<1>5. RecursTo(f, N, c, G, V)
  BY <1>3, <1>4 DEF RecursTo
<1> QED
  BY <1>5

-----------------------------------------------------------------------------
(* What Kept returns. *)

\* Kept goes through the walk member by member: kept[n] is what it has of the first n.
KeptUpTo(kept, walk, S) ==
    /\ kept[0] = <<>> /\ Kept(walk, S) = kept[Len(walk)]
    /\ \A n \in Nat :
         kept[n + 1] = IF walk[n + 1] \in S THEN Append(kept[n], walk[n + 1]) ELSE kept[n]

\* There is such a function.
LEMMA KeptSteps ==
  ASSUME NEW W, NEW walk \in Seq(W), NEW S
  PROVE  \E kept : KeptUpTo(kept, walk, S)
<1> DEFINE Body(g) == [n \in Nat |->
               IF n = 0 THEN <<>>
               ELSE IF walk[n] \in S THEN Append(g[n - 1], walk[n]) ELSE g[n - 1]]
           F == CHOOSE g : g = Body(g)
           U == W \cup {walk[n] : n \in Nat}
           V == Seq(U)
           c == <<>>
           G == [n \in Nat |-> [v \in V |-> IF walk[n + 1] \in S THEN Append(v, walk[n + 1]) ELSE v]]
<1>1. F = Body(F)
  <2>1. c \in V
    OBVIOUS
  <2>2. G \in [Nat -> [V -> V]]
    <3>1. ASSUME NEW n \in Nat, NEW v \in V
          PROVE  (IF walk[n + 1] \in S THEN Append(v, walk[n + 1]) ELSE v) \in V
      <4>1. walk[n + 1] \in U
        OBVIOUS
      <4> HIDE DEF U
      <4> QED
        BY <4>1
    <3> HIDE DEF V
    <3> QED
      BY <3>1
  <2>3. PICK h : Recurs(h, c, G, V)
    <3> HIDE DEF V, G, c
    <3> QED
      BY <2>1, <2>2, Recursion
  <2>4. ASSUME NEW n \in Nat
        PROVE  h[n] = Body(h)[n]
    <3>1. CASE n = 0
      BY <3>1, <2>3 DEF Recurs
    <3>2. CASE n # 0
      <4>1. n - 1 \in Nat /\ (n - 1) + 1 = n
        BY <3>2
      <4>2. h[n - 1] \in V /\ h[n] = G[n - 1][h[n - 1]]
        BY <4>1, <2>3 DEF Recurs
      <4>3. h[n] = IF walk[n] \in S THEN Append(h[n - 1], walk[n]) ELSE h[n - 1]
        <5> HIDE DEF V
        <5> QED
          BY <4>1, <4>2
      <4> QED
        BY <4>3, <3>2
    <3> QED
      BY <3>1, <3>2
  <2>5. h \in [Nat -> V]
    BY <2>3 DEF Recurs
  <2>6. h = Body(h)
    BY <2>4, <2>5
  <2> QED
    BY <2>6
<1>2. Kept(walk, S) = F[Len(walk)]
  BY DEF Kept
<1>3. F[0] = <<>>
  <2>1. Body(F)[0] = <<>>
    OBVIOUS
  <2> QED
    BY <1>1, <2>1
<1>4. ASSUME NEW n \in Nat
      PROVE  F[n + 1] = IF walk[n + 1] \in S THEN Append(F[n], walk[n + 1]) ELSE F[n]
  <2>1. PICK k \in Nat : k = n + 1 /\ k # 0 /\ k - 1 = n
    OBVIOUS
  <2>2. Body(F)[k] = IF walk[k] \in S THEN Append(F[k - 1], walk[k]) ELSE F[k - 1]
    BY <2>1
  <2> QED
    BY <1>1, <2>1, <2>2
<1> HIDE DEF F
<1> QED
  BY <1>2, <1>3, <1>4 DEF KeptUpTo

\* Kept has the members of the walk that are in the set, and no others.
KeepsThose(kept, walk, S, W) ==
    /\ kept \in Seq(W \cap S)
    /\ \A n \in 1 .. Len(walk) : walk[n] \in S => \E i \in 1 .. Len(kept) : kept[i] = walk[n]
    /\ \A i \in 1 .. Len(kept) : \E n \in 1 .. Len(walk) : kept[i] = walk[n]
LEMMA KeptHas ==
  ASSUME NEW W, NEW walk \in Seq(W), NEW S
  PROVE  KeepsThose(Kept(walk, S), walk, S, W)
<1>1. PICK kept : KeptUpTo(kept, walk, S)
  BY KeptSteps
<1> DEFINE Has(n) ==
             /\ kept[n] \in Seq(W \cap S)
             /\ \A m \in 1 .. n : walk[m] \in S => \E i \in 1 .. Len(kept[n]) : kept[n][i] = walk[m]
             /\ \A i \in 1 .. Len(kept[n]) : \E m \in 1 .. n : kept[n][i] = walk[m]
           T == {n \in Nat : n <= Len(walk) => Has(n)}
<1>2. 0 \in T
  <2>1. PICK s : s = kept[0]
    OBVIOUS
  <2>2. s = <<>> /\ s \in Seq(W \cap S) /\ Len(s) = 0
    BY <1>1, <2>1 DEF KeptUpTo
  <2>3. Has(0)
    BY <2>1, <2>2
  <2> QED
    BY <2>3
<1>3. ASSUME NEW n \in Nat, n \in T
      PROVE  n + 1 \in T
  <2> SUFFICES ASSUME n + 1 <= Len(walk) PROVE Has(n + 1)
    OBVIOUS
  <2>1. Has(n)
    BY <1>3
  <2>2. walk[n + 1] \in W
    OBVIOUS
  <2>3. CASE walk[n + 1] \notin S
    <3>1. kept[n + 1] = kept[n]
      BY <1>1, <2>3 DEF KeptUpTo
    <3> QED
      BY <3>1, <2>1, <2>3
  <2>4. CASE walk[n + 1] \in S
    <3>1. PICK s : s = kept[n]
      OBVIOUS
    <3>2. PICK x \in W \cap S : x = walk[n + 1]
      BY <2>2, <2>4
    <3>3. kept[n + 1] = Append(s, x)
      BY <1>1, <2>4, <3>1, <3>2 DEF KeptUpTo
    <3>4. s \in Seq(W \cap S) /\ Append(s, x) \in Seq(W \cap S)
          /\ Len(Append(s, x)) = Len(s) + 1 /\ Len(s) \in Nat /\ Append(s, x)[Len(s) + 1] = x
          /\ \A i \in 1 .. Len(s) : Append(s, x)[i] = s[i]
      BY <2>1, <3>1
    <3>5. \A m \in 1 .. n : walk[m] \in S => \E i \in 1 .. Len(s) : s[i] = walk[m]
      BY <2>1, <3>1
    <3>6. \A i \in 1 .. Len(s) : \E m \in 1 .. n : s[i] = walk[m]
      BY <2>1, <3>1
    <3> DEFINE r == Append(s, x)
    <3> HIDE DEF Has, T, r
    <3>7. ASSUME NEW m \in 1 .. n + 1, walk[m] \in S
          PROVE  \E i \in 1 .. Len(r) : r[i] = walk[m]
      <4>1. CASE m = n + 1
        BY <4>1, <3>2, <3>4 DEF r
      <4>2. CASE m # n + 1
        <5>1. PICK i \in 1 .. Len(s) : s[i] = walk[m]
          BY <4>2, <3>5, <3>7
        <5> QED
          BY <5>1, <3>4 DEF r
      <4> QED
        BY <4>1, <4>2
    <3>8. ASSUME NEW i \in 1 .. Len(r)
          PROVE  \E m \in 1 .. n + 1 : r[i] = walk[m]
      <4>1. CASE i = Len(s) + 1
        BY <4>1, <3>2, <3>4 DEF r
      <4>2. CASE i # Len(s) + 1
        <5>1. i \in 1 .. Len(s)
          BY <4>2, <3>4 DEF r
        <5>2. PICK m \in 1 .. n : s[i] = walk[m]
          BY <5>1, <3>6
        <5> QED
          BY <5>1, <5>2, <3>4 DEF r
      <4> QED
        BY <4>1, <4>2
    <3> QED
      BY <3>3, <3>4, <3>7, <3>8, SMTT(40) DEF Has, r
  <2> QED
    BY <2>3, <2>4
<1> HIDE DEF T
<1>4. Nat \subseteq T
  BY <1>2, <1>3, SetInduction
<1>5. Len(walk) \in Nat
  OBVIOUS
<1>6. Has(Len(walk))
  <2> HIDE DEF Has
  <2> QED
    BY <1>4, <1>5 DEF T
<1>7. PICK s : s = Kept(walk, S) /\ s = kept[Len(walk)]
  BY <1>1 DEF KeptUpTo
<1>8. KeepsThose(s, walk, S, W)
  BY <1>6, <1>7 DEF KeepsThose
<1> QED
  BY <1>7, <1>8

\* A set of natural numbers with a bound has a greatest member.
LEMMA Greatest ==
  ASSUME NEW n \in Nat, NEW S, S \subseteq 1 .. n, S # {}
  PROVE  Max(S) \in S /\ \A x \in S : x <= Max(S)
<1> DEFINE T == {n - x : x \in S}
<1>1. T \subseteq Nat /\ T # {}
  <2>1. \A x \in S : x \in 1 .. n
    OBVIOUS
  <2>2. \A x \in S : n - x \in Nat
    BY <2>1
  <2> QED
    BY <2>2
<1>2. PICK m \in T : \A y \in T : m <= y
  <2> HIDE DEF T
  <2> QED
    BY <1>1, Least
<1>3. PICK x \in S : m = n - x
  OBVIOUS
<1>4. \A y \in S : x >= y
  <2>1. ASSUME NEW y \in S
        PROVE  x >= y
    <3>1. n - y \in T
      OBVIOUS
    <3>2. n - x <= n - y
      BY <3>1, <1>2, <1>3
    <3> QED
      BY <3>2
  <2> QED
    BY <2>1
<1>5. Max(S) \in S /\ \A y \in S : Max(S) >= y
  BY <1>4 DEF Max
<1>6. \A y \in S : y \in Int
  OBVIOUS
<1> QED
  BY <1>5, <1>6

-----------------------------------------------------------------------------
(* What LastWord returns. *)

Whys == {"", "run", "dependency", "refused", "error", "outcome_unknown", "in_flight", "budget"}
Callbacks == Seq([path : Paths, kind : Ended, why : Whys])

\* Some of the callbacks are of p, and all those are of one kind.
Says(new, p, kind) ==
    /\ \E i \in 1 .. Len(new) : new[i].path = p
    /\ \A i \in 1 .. Len(new) : new[i].path = p => new[i].kind = kind

\* A callback of the leaf that is put at the end is its last word.
LEMMA LastWordNew ==
  ASSUME NEW old \in Callbacks, NEW new \in Callbacks, NEW p, NEW kind, NEW otherwise,
         Says(new, p, kind)
  PROVE  LastWord(old \o new, p, otherwise) = kind
<1> USE DEF Callbacks
<1> DEFINE both == old \o new
           mine == {i \in DOMAIN both : both[i].path = p}
           m == Len(old)
           n == Len(new)
<1>1. m \in Nat /\ n \in Nat /\ DOMAIN both = 1 .. m + n
  OBVIOUS
<1>2. \A i \in 1 .. n : both[m + i] = new[i]
  OBVIOUS
<1>3. \A j \in m + 1 .. m + n : j - m \in 1 .. n /\ both[j] = new[j - m]
  OBVIOUS
<1> HIDE DEF both
<1>4. PICK i \in 1 .. n : new[i].path = p
  BY DEF Says
<1>5. m + i \in mine
  BY <1>1, <1>2, <1>4
<1>6. Max(mine) \in mine /\ m + i <= Max(mine)
  <2>1. m + n \in Nat /\ mine \subseteq 1 .. m + n /\ mine # {}
    BY <1>1, <1>5
  <2> HIDE DEF mine, m, n
  <2> QED
    BY <2>1, <1>5, Greatest
<1>7. PICK j : j = Max(mine)
  OBVIOUS
<1>8. j \in m + 1 .. m + n /\ both[j].path = p
  BY <1>1, <1>4, <1>6, <1>7
<1>9. both[j].kind = kind
  BY <1>3, <1>8 DEF Says
<1>10. LastWord(both, p, otherwise) = both[Max(mine)].kind
  BY <1>5 DEF LastWord
<1> QED
  BY <1>7, <1>9, <1>10 DEF both

\* Callbacks of other leaves do not change it.
LEMMA LastWordOld ==
  ASSUME NEW old \in Callbacks, NEW new \in Callbacks, NEW p, NEW otherwise,
         \A i \in 1 .. Len(new) : new[i].path # p
  PROVE  LastWord(old \o new, p, otherwise) = LastWord(old, p, otherwise)
<1> USE DEF Callbacks
<1> DEFINE both == old \o new
           mine == {i \in DOMAIN both : both[i].path = p}
           m == Len(old)
           n == Len(new)
<1>1. m \in Nat /\ n \in Nat /\ DOMAIN both = 1 .. m + n /\ DOMAIN old = 1 .. m
  OBVIOUS
<1>2. \A i \in 1 .. m : both[i] = old[i]
  OBVIOUS
<1>3. \A j \in m + 1 .. m + n : j - m \in 1 .. n /\ both[j] = new[j - m]
  OBVIOUS
<1> HIDE DEF both
<1>4. mine = {i \in DOMAIN old : old[i].path = p}
  BY <1>1, <1>2, <1>3
<1>5. CASE mine = {}
  BY <1>4, <1>5 DEF LastWord, both
<1>6. CASE mine # {}
  <2>1. Max(mine) \in mine
    <3>1. m \in Nat /\ mine \subseteq 1 .. m
      BY <1>1, <1>4
    <3> HIDE DEF mine, m
    <3> QED
      BY <3>1, <1>6, Greatest
  <2>2. PICK j \in 1 .. m : j = Max(mine)
    BY <2>1, <1>1, <1>4
  <2>3. LastWord(both, p, otherwise) = both[j].kind
    BY <1>6, <2>2 DEF LastWord
  <2>4. LastWord(old, p, otherwise) = old[j].kind
    BY <1>4, <1>6, <2>2 DEF LastWord
  <2> QED
    BY <1>2, <2>3, <2>4 DEF both
<1> QED
  BY <1>5, <1>6

\* When the callbacks are drained the last word is the one that is remembered.
LEMMA LastWordDrained ==
  ASSUME NEW p, NEW otherwise
  PROVE  LastWord(<<>>, p, otherwise) = otherwise
  BY DEF LastWord

-----------------------------------------------------------------------------
(* Types. *)

Costs == Nat \cup {Unset}
Leaf == [status : Statuses, sim : Sims \cup {NoSim}, run : Runs \cup {NoRun},
         reused : BOOLEAN, approved : BOOLEAN, deferred : BOOLEAN, why : Whys,
         suspect : BOOLEAN, estCore : Nat, estGpu : Nat, isGpu : BOOLEAN,
         actCore : Costs, actGpu : Costs]
LeafMaps == UNION {[S -> Leaf] : S \in SUBSET Paths}
Usage == [core : Nat, gpu : Nat, jobs : Nat, running : Nat]
Lifecycle == {"running", "paused", "stopped"}
Campaigns == [order : Seq(Paths), leaf : LeafMaps, usage : Usage, state : Lifecycle,
              callbacks : Callbacks, analysed : SUBSET Paths, concluded : BOOLEAN]

\* A campaign of the program: every leaf is in the walk, once, and a leaf that names a
\* simulation names its own.
WellFormed(c) ==
    /\ c \in Campaigns /\ IsInjective(c.order) /\ Range(c.order) = DOMAIN c.leaf
    /\ \A p \in DOMAIN c.leaf : c.leaf[p].sim \in {NoSim, SpecAt[p].sim}

\* What a tick does not change of a campaign.
Kin(c, d) ==
    /\ d.order = c.order /\ d.state = c.state /\ d.analysed = c.analysed
    /\ d.concluded = c.concluded /\ DOMAIN d.leaf = DOMAIN c.leaf
    /\ \A p \in DOMAIN c.leaf : d.leaf[p].approved = c.leaf[p].approved

CmdStates == {"none", "pending", "done", "refused"}
JobStates == {"none", "building", "running", "finished", "ready", "failed", "cancelled", "lost"}
Outcomes == {"accepted", "refused", "unknown"}
States == {"", "accepted", "workflow_finished", "failed", "job_running", "job_finished",
           "results_ready", "job_failed", "cancelled"}
Acks == [run : Runs, out : Outcomes, st : States]
Records == [st : {"none", "pending", "done"}, sim : Sims \cup {""}, run : Runs \cup {NoRun},
            waits : SUBSET Runs]
Shows == [run : Runs \cup {NoRun}, st : States]

\* A record of a key: about its simulation, as its runs are.
RecordOK(k, rec) ==
    /\ rec \in Records
    /\ rec.st # "none" =>
         /\ rec.sim = k[1] /\ rec.run \in Runs
         /\ rec.st = "pending" => \A r \in rec.waits \cup {rec.run} : SimOf[r] = k[1]

RegistryOK(reg) == reg \in [ReuseKeys -> Records] /\ \A k \in ReuseKeys : RecordOK(k, reg[k])

\* Types of what is not the campaign.
WorldOK ==
    /\ limit \in Limits /\ wire \subseteq Runs /\ acks \subseteq Acks
    /\ cmd \in [Runs -> CmdStates] /\ job \in [Runs -> JobStates] /\ shown \in [Runs -> JobStates]
    /\ registry \in [Sims -> Shows] /\ \A s \in Sims : registry[s].st # "" => registry[s].run \in Runs
    /\ RegistryOK(reuse) /\ pending \subseteq Runs
    /\ waited \in [Paths -> 0 .. Window]
    /\ said \in [state : Lifecycle, approved : SUBSET Paths, added : SUBSET Paths,
                 analysed : SUBSET Paths]

\* The runs, their simulations and the keys.
LEMMA Names ==
  /\ Paths \subseteq Runs /\ Direct \subseteq Runs /\ NoRun \notin Runs
  /\ SimOf \in [Runs -> Sims] /\ Sims \subseteq STRING /\ NoSim \notin Sims
  /\ \A p \in Paths : /\ SimOf[p] = SpecAt[p].sim /\ SpecAt[p].sim \in Sims
                      /\ ReuseKey(p) \in ReuseKeys /\ ReuseKey(p)[1] = SpecAt[p].sim
                      /\ p \in Runs
  /\ \A d \in Direct : /\ SimOf[d] = DirectSim[d] /\ DirectSim[d] \in Sims
                       /\ DirectKey(d) \in ReuseKeys /\ DirectKey(d)[1] = DirectSim[d]
                       /\ d \in Runs
  /\ \A k \in ReuseKeys : k[1] \in Sims
<1>1. Paths \subseteq Runs /\ Direct \subseteq Runs /\ NoRun \notin Runs /\ Runs = Paths \cup Direct
  BY IdAssumption DEF Runs
<1>2. SimOf = [r \in Runs |-> SimOf[r]] /\ \A r \in Runs : SimOf[r] \in Sims
  BY DEF SimOf, Sims
<1>3. \A p \in Paths : SimOf[p] = SpecAt[p].sim /\ SpecAt[p].sim \in STRING
  BY <1>1, IdAssumption, SpecAssumption DEF SimOf, SpecType
<1>4. \A d \in Direct : SimOf[d] = DirectSim[d] /\ DirectSim[d] \in STRING
  BY <1>1, AgendaAssumption DEF SimOf
<1>5. Sims \subseteq STRING
  BY <1>1, <1>3, <1>4 DEF Sims
<1>6. \A p \in Paths : ReuseKey(p) \in ReuseKeys /\ ReuseKey(p)[1] = SpecAt[p].sim
  BY DEF ReuseKeys, ReuseKey
<1>7. \A d \in Direct : DirectKey(d) \in ReuseKeys /\ DirectKey(d)[1] = DirectSim[d]
  BY DEF ReuseKeys, DirectKey
<1>8. ASSUME NEW k \in ReuseKeys
      PROVE  k[1] \in Sims
  <2>1. CASE \E p \in Paths : k = ReuseKey(p)
    <3>1. PICK p \in Paths : k = ReuseKey(p)
      BY <2>1
    <3> QED
      BY <3>1, <1>1, <1>2, <1>3, <1>6
  <2>2. CASE \E d \in Direct : k = DirectKey(d)
    <3>1. PICK d \in Direct : k = DirectKey(d)
      BY <2>2
    <3> QED
      BY <3>1, <1>1, <1>2, <1>4, <1>7
  <2> QED
    BY <2>1, <2>2 DEF ReuseKeys
<1> QED
  BY <1>1, <1>2, <1>3, <1>4, <1>5, <1>6, <1>7, <1>8, IdAssumption

\* What it is to be a map of leaves.
LEMMA LeafMapIs ==
  ASSUME NEW f
  PROVE  f \in LeafMaps <=> DOMAIN f \subseteq Paths /\ f \in [DOMAIN f -> Leaf]
  BY DEF LeafMaps

\* The statuses an observation can give.
LEMMA StatusOfIs ==
  \A s \in DOMAIN StatusOf : StatusOf[s] \in {"submitted", "running", "done", "failed"}
  BY DEF StatusOf

-----------------------------------------------------------------------------
(* The fold of a tick: observations, reuse, actual costs. *)

\* u is the usage of _reconcile_actuals after each leaf of the walk.
UsageAlong(u, c) ==
    /\ u \in [0 .. Len(c.order) -> Usage] /\ u[0] = c.usage
    /\ ReconcileActuals(c).usage = u[Len(c.order)]
    /\ \A n \in 1 .. Len(c.order) :
         LET l == c.leaf[c.order[n]]
         IN u[n] = IF OwesActual(l) THEN Reconcile(u[n - 1], l, ActualOf(l)) ELSE u[n - 1]

\* A leaf that owes its actual cost has a run whose cost is known.
LEMMA ActualType ==
  ASSUME WorldOK, NEW l \in Leaf, OwesActual(l)
  PROVE  ActualOf(l) \in [core : Nat, gpu : Nat]
<1>1. registry[l.sim].run \in DOMAIN Actual
  BY DEF OwesActual
<1> QED
  BY <1>1, AgendaAssumption DEF ActualOf

\* reconcile gives a usage.
LEMMA ReconcileType ==
  ASSUME NEW u \in Usage, NEW l \in Leaf, NEW a \in [core : Nat, gpu : Nat]
  PROVE  Reconcile(u, l, a) \in Usage
<1>1. u.core \in Nat /\ u.gpu \in Nat /\ u.jobs \in Nat /\ u.running \in Nat
  BY DEF Usage
<1>2. l.estCore \in Nat /\ l.estGpu \in Nat
  BY DEF Leaf
<1>3. a.core \in Nat /\ a.gpu \in Nat
  OBVIOUS
<1> DEFINE core == u.core + a.core - l.estCore
           gpu == IF l.isGpu THEN u.gpu + a.gpu - l.estGpu ELSE u.gpu
<1>4. core \in Int /\ gpu \in Int
  BY <1>1, <1>2, <1>3
<1>5. Reconcile(u, l, a) = [u EXCEPT !.core = IF core < 0 THEN 0 ELSE core,
                                     !.gpu = IF gpu < 0 THEN 0 ELSE gpu]
  BY DEF Reconcile
<1>6. (IF core < 0 THEN 0 ELSE core) \in Nat /\ (IF gpu < 0 THEN 0 ELSE gpu) \in Nat
  BY <1>4
<1> HIDE DEF core, gpu
<1> QED
  BY <1>5, <1>6 DEF Usage

\* The leaves of the walk are leaves.
LEMMA WalkLeaves ==
  ASSUME NEW c \in Campaigns, Range(c.order) = DOMAIN c.leaf
  PROVE  /\ c.order \in Seq(Paths) /\ Len(c.order) \in Nat
         /\ DOMAIN c.leaf \subseteq Paths /\ c.leaf \in [DOMAIN c.leaf -> Leaf]
         /\ \A n \in 1 .. Len(c.order) :
              c.order[n] \in DOMAIN c.leaf /\ c.order[n] \in Paths /\ c.leaf[c.order[n]] \in Leaf
         /\ \A p \in DOMAIN c.leaf : p \in Paths /\ c.leaf[p] \in Leaf
                                     /\ \E n \in 1 .. Len(c.order) : c.order[n] = p
<1>1. c.order \in Seq(Paths) /\ Len(c.order) \in Nat /\ c.leaf \in LeafMaps
  BY DEF Campaigns
<1>2. DOMAIN c.leaf \subseteq Paths /\ c.leaf \in [DOMAIN c.leaf -> Leaf]
  BY <1>1, LeafMapIs
<1>3. \A n \in 1 .. Len(c.order) : c.order[n] \in Range(c.order)
  BY <1>1 DEF Range
<1>4. \A p \in Range(c.order) : \E n \in 1 .. Len(c.order) : c.order[n] = p
  BY <1>1 DEF Range
<1> QED
  BY <1>1, <1>2, <1>3, <1>4

\* The usage is built up along the walk.
LEMMA UsageSteps ==
  ASSUME WorldOK, NEW c \in Campaigns, Range(c.order) = DOMAIN c.leaf
  PROVE  \E u : UsageAlong(u, c)
<1> DEFINE N == Len(c.order)
           L(n) == c.leaf[c.order[n]]
           Body(g) == [n \in 0 .. N |->
               IF n = 0 THEN c.usage
               ELSE IF OwesActual(L(n)) THEN Reconcile(g[n - 1], L(n), ActualOf(L(n))) ELSE g[n - 1]]
           F == CHOOSE g : g = Body(g)
           G == [n \in 1 .. N |-> [v \in Usage |->
               IF OwesActual(L(n)) THEN Reconcile(v, L(n), ActualOf(L(n))) ELSE v]]
           u0 == c.usage
<1>1. N \in Nat /\ u0 \in Usage /\ \A n \in 1 .. N : L(n) \in Leaf
  BY WalkLeaves DEF Campaigns
<1>2. G \in [1 .. N -> [Usage -> Usage]]
  <2>1. ASSUME NEW n \in 1 .. N, NEW v \in Usage
        PROVE  (IF OwesActual(L(n)) THEN Reconcile(v, L(n), ActualOf(L(n))) ELSE v) \in Usage
    <3> HIDE DEF L, N
    <3> QED
      BY <1>1, ActualType, ReconcileType
  <2> QED
    BY <2>1
<1>3. PICK h : RecursTo(h, N, u0, G, Usage)
  <2> HIDE DEF G, N, u0
  <2> QED
    BY <1>1, <1>2, RecursionTo
<1>4. ASSUME NEW n \in 1 .. N
      PROVE  h[n] = IF OwesActual(L(n)) THEN Reconcile(h[n - 1], L(n), ActualOf(L(n))) ELSE h[n - 1]
  <2> HIDE DEF L, N, G, u0
  <2>1. n - 1 \in 0 .. N
    BY <1>1
  <2>2. h[n - 1] \in Usage
    BY <1>3, <2>1 DEF RecursTo
  <2>3. h[n] = G[n][h[n - 1]]
    BY <1>3 DEF RecursTo
  <2>4. G[n][h[n - 1]] = IF OwesActual(L(n)) THEN Reconcile(h[n - 1], L(n), ActualOf(L(n))) ELSE h[n - 1]
    BY <2>2 DEF G
  <2> QED
    BY <2>3, <2>4
<1>5. F = Body(F)
  <2>1. h \in [0 .. N -> Usage] /\ h[0] = u0
    BY <1>3 DEF RecursTo
  <2>2. h = Body(h)
    <3> HIDE DEF L, N
    <3> QED
      BY <1>1, <1>4, <2>1
  <2> QED
    BY <2>2
<1>6. F \in [0 .. N -> Usage] /\ F = h
  <2> HIDE DEF F, L, N, u0
  <2>0. 0 \in 0 .. N /\ \A n \in 1 .. N : n \in 0 .. N /\ n # 0
    BY <1>1
  <2>1. DOMAIN F = 0 .. N /\ F[0] = u0
    <3>1. DOMAIN Body(F) = 0 .. N /\ Body(F)[0] = u0
      BY <2>0 DEF u0
    <3> QED
      BY <3>1, <1>5
  <2>2. \A n \in 1 .. N :
          F[n] = IF OwesActual(L(n)) THEN Reconcile(F[n - 1], L(n), ActualOf(L(n))) ELSE F[n - 1]
    <3>1. \A n \in 1 .. N :
            Body(F)[n] = IF OwesActual(L(n)) THEN Reconcile(F[n - 1], L(n), ActualOf(L(n))) ELSE F[n - 1]
      BY <2>0
    <3> QED
      BY <3>1, <1>5
  <2> DEFINE S == {n \in Nat : n <= N => F[n] = h[n]}
  <2>3. 0 \in S
    BY <2>1, <1>3 DEF RecursTo
  <2>4. ASSUME NEW n \in Nat, n \in S
        PROVE  n + 1 \in S
    <3>1. CASE n + 1 <= N
      <4>1. n + 1 \in 1 .. N /\ (n + 1) - 1 = n /\ n <= N
        BY <3>1, <1>1
      <4>2. F[n] = h[n]
        BY <2>4, <4>1
      <4>3. F[n + 1] = h[n + 1]
        BY <4>1, <4>2, <2>2, <1>4
      <4> QED
        BY <4>3
    <3> QED
      BY <3>1
  <2> HIDE DEF S
  <2>5. Nat \subseteq S
    BY <2>3, <2>4, SetInduction
  <2>6. \A n \in 0 .. N : F[n] = h[n]
    BY <2>5, <1>1 DEF S
  <2>7. h \in [0 .. N -> Usage]
    BY <1>3 DEF RecursTo
  <2>8. F = [n \in 0 .. N |-> F[n]]
    <3>1. Body(F) = [n \in 0 .. N |-> Body(F)[n]]
      BY <1>1
    <3> HIDE DEF Body
    <3> QED
      BY <3>1, <1>5
  <2> QED
    BY <2>6, <2>7, <2>8
<1>7. ReconcileActuals(c).usage = F[N]
  BY <1>1 DEF ReconcileActuals, Campaigns
<1> HIDE DEF F
<1>8. UsageAlong(h, c)
  BY <1>3, <1>4, <1>6, <1>7 DEF UsageAlong, RecursTo
<1> QED
  BY <1>8

\* What an observation or a reuse makes of a leaf: nothing, the status of the observed
\* state, or a leaf that is done by a run recorded for its content.
Seen(p, l, m) ==
    \/ m = l
    \/ /\ l.sim # NoSim /\ registry[l.sim].st \in DOMAIN StatusOf
       /\ m = [l EXCEPT !.status = StatusOf[registry[l.sim].st]]
    \/ /\ l.status = "planned" /\ reuse[ReuseKey(p)].st = "done"
       /\ m = [l EXCEPT !.sim = reuse[ReuseKey(p)].sim, !.run = reuse[ReuseKey(p)].run,
                        !.status = "done", !.reused = TRUE]

\* The leaves after the observations and the reuse.
SeenLeaves(c) == ApplyReuse(ApplyStates(c.leaf, PathStates(c)))

\* The observations and the reuse change each leaf in one of these ways.
LEMMA SeenIs ==
  ASSUME NEW c \in Campaigns, Range(c.order) = DOMAIN c.leaf
  PROVE  /\ DOMAIN SeenLeaves(c) = DOMAIN c.leaf
         /\ \A p \in DOMAIN c.leaf : Seen(p, c.leaf[p], SeenLeaves(c)[p])
<1> DEFINE mid == ApplyStates(c.leaf, PathStates(c))
<1>1. DOMAIN mid = DOMAIN c.leaf
  BY DEF ApplyStates
<1>2. \A p \in DOMAIN c.leaf :
        \/ mid[p] = c.leaf[p]
        \/ /\ c.leaf[p].sim # NoSim /\ registry[c.leaf[p].sim].st \in DOMAIN StatusOf
           /\ mid[p] = [c.leaf[p] EXCEPT !.status = StatusOf[registry[c.leaf[p].sim].st]]
  BY DEF ApplyStates, PathStates
<1>3. ASSUME NEW p \in DOMAIN c.leaf
      PROVE  \/ SeenLeaves(c)[p] = mid[p]
             \/ /\ mid[p].status = "planned" /\ reuse[ReuseKey(p)].st = "done"
                /\ SeenLeaves(c)[p] = [mid[p] EXCEPT !.sim = reuse[ReuseKey(p)].sim,
                                         !.run = reuse[ReuseKey(p)].run,
                                         !.status = "done", !.reused = TRUE]
  <2> HIDE DEF mid
  <2>1. PICK hit : hit = Reuse!Lookup(reuse, ReuseKey(p))
    OBVIOUS
  <2>2. SeenLeaves(c)[p] = IF mid[p].status # "planned" \/ hit = Reuse!NoRecord THEN mid[p]
           ELSE [mid[p] EXCEPT !.sim = hit.sim, !.run = hit.run, !.status = "done", !.reused = TRUE]
    BY <1>1, <2>1 DEF SeenLeaves, ApplyReuse, mid
  <2>3. hit # Reuse!NoRecord => reuse[ReuseKey(p)].st = "done" /\ hit = reuse[ReuseKey(p)]
    BY <2>1 DEF Reuse!Lookup
  <2> QED
    BY <2>2, <2>3
<1>4. ASSUME NEW p \in DOMAIN c.leaf
      PROVE  Seen(p, c.leaf[p], SeenLeaves(c)[p])
  <2> HIDE DEF mid
  <2>0. c.leaf[p] \in Leaf
    BY WalkLeaves
  <2>1. PICK l \in Leaf : l = c.leaf[p]
    BY <2>0
  <2>2. CASE mid[p] = l
    <3>1. CASE SeenLeaves(c)[p] = mid[p]
      BY <2>1, <2>2, <3>1 DEF Seen
    <3>2. CASE /\ mid[p].status = "planned" /\ reuse[ReuseKey(p)].st = "done"
               /\ SeenLeaves(c)[p] = [mid[p] EXCEPT !.sim = reuse[ReuseKey(p)].sim,
                                         !.run = reuse[ReuseKey(p)].run,
                                         !.status = "done", !.reused = TRUE]
      <4>1. SeenLeaves(c)[p] = [l EXCEPT !.sim = reuse[ReuseKey(p)].sim,
                                         !.run = reuse[ReuseKey(p)].run,
                                         !.status = "done", !.reused = TRUE]
        BY <2>2, <3>2
      <4>2. l.status = "planned" /\ reuse[ReuseKey(p)].st = "done"
        BY <2>2, <3>2
      <4> QED
        BY <2>1, <4>1, <4>2, Zenon DEF Seen
    <3> QED
      BY <1>3, <3>1, <3>2
  <2>3. CASE /\ l.sim # NoSim /\ registry[l.sim].st \in DOMAIN StatusOf
             /\ mid[p] = [l EXCEPT !.status = StatusOf[registry[l.sim].st]]
    <3>1. mid[p].status # "planned"
      BY <2>3, StatusOfIs DEF Leaf
    <3> QED
      BY <2>1, <2>3, <3>1, <1>3 DEF Seen
  <2> QED
    BY <1>2, <2>1, <2>2, <2>3
<1>5. DOMAIN SeenLeaves(c) = DOMAIN c.leaf
  BY <1>1 DEF SeenLeaves, ApplyReuse
<1> QED
  BY <1>4, <1>5

\* What a tick's fold makes of a leaf: what is Seen, and the actual cost if it owes it.
Folded(p, l, m) ==
    \E s \in Leaf : /\ Seen(p, l, s)
                    /\ m = IF OwesActual(s) THEN [s EXCEPT !.actCore = ActualOf(s).core,
                                                           !.actGpu = ActualOf(s).gpu]
                           ELSE s

\* What is Seen is a leaf.
LEMMA SeenType ==
  ASSUME WorldOK, NEW p \in Paths, NEW l \in Leaf, NEW m, Seen(p, l, m)
  PROVE  m \in Leaf
<1>1. CASE m = l
  BY <1>1
<1>2. CASE /\ l.sim # NoSim /\ registry[l.sim].st \in DOMAIN StatusOf
           /\ m = [l EXCEPT !.status = StatusOf[registry[l.sim].st]]
  <2>1. StatusOf[registry[l.sim].st] \in Statuses
    BY <1>2, StatusOfIs DEF Statuses, InFlight, Ended
  <2> QED
    BY <1>2, <2>1 DEF Leaf
<1>3. CASE /\ l.status = "planned" /\ reuse[ReuseKey(p)].st = "done"
           /\ m = [l EXCEPT !.sim = reuse[ReuseKey(p)].sim, !.run = reuse[ReuseKey(p)].run,
                            !.status = "done", !.reused = TRUE]
  <2>1. reuse[ReuseKey(p)].sim \in Sims /\ reuse[ReuseKey(p)].run \in Runs
    BY <1>3, Names DEF WorldOK, RegistryOK, RecordOK
  <2>2. "done" \in Statuses
    BY DEF Statuses, Ended
  <2> QED
    BY <1>3, <2>1, <2>2 DEF Leaf
<1> QED
  BY <1>1, <1>2, <1>3 DEF Seen

\* A leaf with its actual cost, if it owes it.
Stamped(l) == IF OwesActual(l) THEN [l EXCEPT !.actCore = ActualOf(l).core, !.actGpu = ActualOf(l).gpu]
              ELSE l

\* Stamping a leaf gives a leaf.
LEMMA StampedType ==
  ASSUME WorldOK, NEW l \in Leaf
  PROVE  Stamped(l) \in Leaf
<1>1. CASE OwesActual(l)
  <2>1. ActualOf(l) \in [core : Nat, gpu : Nat]
    BY <1>1, ActualType
  <2>2. ActualOf(l).core \in Costs /\ ActualOf(l).gpu \in Costs
    BY <2>1 DEF Costs
  <2> QED
    BY <1>1, <2>2 DEF Stamped, Leaf
<1>2. CASE ~OwesActual(l)
  BY <1>2 DEF Stamped
<1> QED
  BY <1>1, <1>2

\* _reconcile_actuals changes the usage and the actual costs.
LEMMA ReconcileIs ==
  ASSUME WorldOK, NEW c \in Campaigns, Range(c.order) = DOMAIN c.leaf
  PROVE  LET d == ReconcileActuals(c)
         IN /\ d \in Campaigns /\ d.order = c.order /\ d.state = c.state /\ d.callbacks = c.callbacks
            /\ d.analysed = c.analysed /\ d.concluded = c.concluded
            /\ DOMAIN d.leaf = DOMAIN c.leaf
            /\ \A p \in DOMAIN c.leaf : d.leaf[p] = Stamped(c.leaf[p])
<1>1. PICK u : UsageAlong(u, c)
  BY UsageSteps
<1>2. PICK x \in Usage : x = u[Len(c.order)] /\ ReconcileActuals(c).usage = x
  <2>1. Len(c.order) \in 0 .. Len(c.order) /\ u \in [0 .. Len(c.order) -> Usage]
    BY <1>1, WalkLeaves DEF UsageAlong
  <2> QED
    BY <1>1, <2>1 DEF UsageAlong
<1>3. PICK f : f = [p \in DOMAIN c.leaf |-> Stamped(c.leaf[p])]
  OBVIOUS
<1>4. f \in LeafMaps /\ DOMAIN f = DOMAIN c.leaf
  <2>1. \A p \in DOMAIN c.leaf : Stamped(c.leaf[p]) \in Leaf
    BY WalkLeaves, StampedType
  <2>2. DOMAIN c.leaf \subseteq Paths
    BY WalkLeaves
  <2> QED
    BY <1>3, <2>1, <2>2, LeafMapIs
<1>5. ReconcileActuals(c).leaf = f
  BY <1>3 DEF ReconcileActuals, Stamped, Campaigns
<1>6. PICK y : ReconcileActuals(c) = [c EXCEPT !.usage = y, !.leaf = f]
  BY <1>3 DEF ReconcileActuals, Stamped
<1>7. y = x
  BY <1>2, <1>6 DEF Campaigns
<1>8. PICK d : d = ReconcileActuals(c) /\ d = [c EXCEPT !.usage = x, !.leaf = f]
  BY <1>6, <1>7
<1>9. /\ d \in Campaigns /\ d.order = c.order /\ d.state = c.state /\ d.callbacks = c.callbacks
      /\ d.analysed = c.analysed /\ d.concluded = c.concluded /\ d.leaf = f
  BY <1>4, <1>8 DEF Campaigns
<1> QED
  BY <1>3, <1>4, <1>8, <1>9

\* A campaign has finitely many leaves.
LEMMA FiniteLeaves ==
  ASSUME NEW c \in Campaigns, Range(c.order) = DOMAIN c.leaf
  PROVE  IsFiniteSet(DOMAIN c.leaf)
<1>1. c.order \in [1 .. Len(c.order) -> DOMAIN c.leaf] /\ Len(c.order) \in Nat
  BY WalkLeaves
<1>2. \A p \in DOMAIN c.leaf : \E n \in 1 .. Len(c.order) : c.order[n] = p
  BY WalkLeaves
<1>3. c.order \in Surjection(1 .. Len(c.order), DOMAIN c.leaf)
  BY <1>1, <1>2 DEF Surjection
<1> QED
  BY <1>1, <1>3, FS_NatSurjection DEF ExistsSurjection

\* A job is counted in flight for each leaf at most.
LEMMA RunningType ==
  ASSUME NEW c \in Campaigns, Range(c.order) = DOMAIN c.leaf,
         NEW leaf, DOMAIN leaf = DOMAIN c.leaf
  PROVE  Running(leaf) \in Nat
<1>1. IsFiniteSet({p \in DOMAIN leaf : leaf[p].status \in InFlight})
  BY FiniteLeaves, FS_Subset
<1> QED
  BY <1>1, FS_CardinalityType DEF Running

\* What is Seen keeps the simulation a leaf names, or gives it its own.
LEMMA FoldedNames ==
  ASSUME WorldOK, NEW p \in Paths, NEW l \in Leaf, NEW m, Folded(p, l, m),
         l.sim \in {NoSim, SpecAt[p].sim}
  PROVE  m.sim \in {NoSim, SpecAt[p].sim} /\ m.approved = l.approved
<1>1. PICK s \in Leaf : /\ Seen(p, l, s)
                        /\ m = IF OwesActual(s) THEN [s EXCEPT !.actCore = ActualOf(s).core,
                                                               !.actGpu = ActualOf(s).gpu]
                               ELSE s
  BY DEF Folded
<1>2. m.sim = s.sim /\ m.approved = s.approved
  BY <1>1 DEF Leaf
<1>3. s.sim \in {NoSim, SpecAt[p].sim} /\ s.approved = l.approved
  <2>1. CASE s = l
    BY <2>1
  <2>2. CASE s = [l EXCEPT !.status = StatusOf[registry[l.sim].st]]
    BY <2>2 DEF Leaf
  <2>3. CASE /\ reuse[ReuseKey(p)].st = "done"
             /\ s = [l EXCEPT !.sim = reuse[ReuseKey(p)].sim, !.run = reuse[ReuseKey(p)].run,
                              !.status = "done", !.reused = TRUE]
    <3>1. reuse[ReuseKey(p)].sim = SpecAt[p].sim
      BY <2>3, Names DEF WorldOK, RegistryOK, RecordOK
    <3> QED
      BY <2>3, <3>1 DEF Leaf
  <2> QED
    BY <1>1, <2>1, <2>2, <2>3 DEF Seen
<1> QED
  BY <1>2, <1>3

\* b is c with what was seen of its leaves, before the actual costs.
Observed(c, b) ==
    /\ b \in Campaigns /\ b.order = c.order /\ b.state = c.state /\ b.callbacks = c.callbacks
    /\ b.analysed = c.analysed /\ b.concluded = c.concluded
    /\ b.usage.jobs = c.usage.jobs /\ b.usage.core = c.usage.core
    /\ DOMAIN b.leaf = DOMAIN c.leaf /\ Range(b.order) = DOMAIN b.leaf
    /\ \A p \in DOMAIN c.leaf : Seen(p, c.leaf[p], b.leaf[p]) /\ b.leaf[p] \in Leaf

\* The fold observes, then reconciles.
LEMMA FoldParts ==
  ASSUME WorldOK, NEW c, WellFormed(c)
  PROVE  \E b : Observed(c, b) /\ Fold(c) = ReconcileActuals(b)
<1>1. c \in Campaigns /\ Range(c.order) = DOMAIN c.leaf
  BY DEF WellFormed
<1>2. PICK f : f = SeenLeaves(c)
  OBVIOUS
<1>3. DOMAIN f = DOMAIN c.leaf /\ \A p \in DOMAIN c.leaf : Seen(p, c.leaf[p], f[p])
  BY <1>1, <1>2, SeenIs
<1>4. \A p \in DOMAIN c.leaf : p \in Paths /\ c.leaf[p] \in Leaf
  BY <1>1, WalkLeaves
<1>5. \A p \in DOMAIN c.leaf : f[p] \in Leaf
  BY <1>3, <1>4, SeenType
<1>6. f \in LeafMaps
  <2>1. f = [p \in DOMAIN f |-> f[p]]
    BY <1>2 DEF SeenLeaves, ApplyReuse
  <2> QED
    BY <2>1, <1>3, <1>4, <1>5, LeafMapIs
<1>7. Running(f) \in Nat
  BY <1>1, <1>3, RunningType
<1>8. PICK b : b = [c EXCEPT !.leaf = f, !.usage.running = Running(f)]
  OBVIOUS
<1>9. /\ b \in Campaigns /\ b.order = c.order /\ b.state = c.state /\ b.callbacks = c.callbacks
      /\ b.analysed = c.analysed /\ b.concluded = c.concluded /\ b.leaf = f
      /\ b.usage.jobs = c.usage.jobs /\ b.usage.core = c.usage.core
  <2>1. PICK u : u = [c.usage EXCEPT !.running = Running(f)]
    OBVIOUS
  <2>2. u \in Usage /\ u.jobs = c.usage.jobs /\ u.core = c.usage.core
    BY <1>1, <1>7, <2>1 DEF Campaigns, Usage
  <2>3. b = [c EXCEPT !.leaf = f, !.usage = u]
    BY <1>1, <1>8, <2>1 DEF Campaigns
  <2> QED
    BY <1>1, <1>6, <2>2, <2>3 DEF Campaigns
<1>10. Fold(c) = ReconcileActuals(b)
  BY <1>2, <1>8 DEF Fold, SeenLeaves
<1>11. Observed(c, b)
  BY <1>1, <1>3, <1>5, <1>9 DEF Observed
<1> QED
  BY <1>10, <1>11

\* The fold keeps a campaign well formed and changes its leaves and its usage only.
LEMMA FoldIs ==
  ASSUME WorldOK, NEW c, WellFormed(c)
  PROVE  /\ WellFormed(Fold(c)) /\ Kin(c, Fold(c)) /\ Fold(c).callbacks = c.callbacks
         /\ \A p \in DOMAIN c.leaf : Folded(p, c.leaf[p], Fold(c).leaf[p])
<1>1. c \in Campaigns /\ Range(c.order) = DOMAIN c.leaf /\ IsInjective(c.order)
  BY DEF WellFormed
<1>2. PICK b : Observed(c, b) /\ Fold(c) = ReconcileActuals(b)
  BY FoldParts
<1>3. PICK f : f = b.leaf
  OBVIOUS
<1>4. \A p \in DOMAIN c.leaf : p \in Paths /\ c.leaf[p] \in Leaf
  BY <1>1, WalkLeaves
<1>5. \A p \in DOMAIN c.leaf : Seen(p, c.leaf[p], f[p]) /\ f[p] \in Leaf
  BY <1>2, <1>3 DEF Observed
<1>6. PICK d : d = ReconcileActuals(b)
  OBVIOUS
<1>7. /\ d \in Campaigns /\ d.order = c.order /\ d.state = c.state /\ d.callbacks = c.callbacks
       /\ d.analysed = c.analysed /\ d.concluded = c.concluded /\ DOMAIN d.leaf = DOMAIN c.leaf
       /\ \A p \in DOMAIN c.leaf : d.leaf[p] = Stamped(f[p])
  BY <1>2, <1>3, <1>6, ReconcileIs DEF Observed
<1>8. \A p \in DOMAIN c.leaf : Folded(p, c.leaf[p], d.leaf[p])
  BY <1>5, <1>7 DEF Folded, Stamped
<1>9. \A p \in DOMAIN c.leaf : /\ d.leaf[p].sim \in {NoSim, SpecAt[p].sim}
                                /\ d.leaf[p].approved = c.leaf[p].approved
  BY <1>4, <1>8, FoldedNames DEF WellFormed
<1>10. WellFormed(d)
  BY <1>1, <1>7, <1>9 DEF WellFormed
<1>11. Kin(c, d)
  BY <1>7, <1>9 DEF Kin
<1> QED
  BY <1>2, <1>6, <1>7, <1>8, <1>10, <1>11

\* _emit_callbacks leaves a leaf as it is, but for its health and the reason of its failure.
Reasoned(l, m) ==
    /\ m \in Leaf
    /\ \E w, x : m = [l EXCEPT !.suspect = x, !.why = w] /\ (w = l.why \/ FailureOf(l) # "")

\* new are the callbacks that are owed for some ends of leaves.
Announces(new, c, p) == Says(new, p, c.leaf[p].status)

\* The leaves that ended otherwise than before: each is owed a callback.
Owed(c, before) == {p \in DOMAIN c.leaf : c.leaf[p].status \in Ended /\ before[p] # c.leaf[p].status}

\* d is c with the callbacks of the leaves owed one.
Emitted(c, d, owed) ==
    /\ WellFormed(d) /\ Kin(c, d) /\ d.usage = c.usage
    /\ \A p \in DOMAIN c.leaf : Reasoned(c.leaf[p], d.leaf[p])
    /\ \E new \in Callbacks :
         /\ d.callbacks = c.callbacks \o new
         /\ \A p \in owed : Announces(new, d, p)
         /\ \A i \in 1 .. Len(new) : new[i].path \in owed

\* _emit_callbacks adds a callback for each leaf whose status on disk was not yet its end,
\* and for no other.
LEMMA EmitIs ==
  ASSUME NEW c, WellFormed(c), NEW before
  PROVE  Emitted(c, EmitCallbacks(c, before), Owed(c, before))
<1> DEFINE owed == {p \in DOMAIN c.leaf : c.leaf[p].status \in Ended /\ before[p] # c.leaf[p].status}
           Why(p) == IF c.leaf[p].status = "failed" THEN FailureOf(c.leaf[p]) ELSE ""
           ended == Kept(c.order, owed)
           new == [i \in DOMAIN ended |-> Callback(ended[i], c.leaf[ended[i]].status, Why(ended[i]))]
           leaf == [p \in DOMAIN c.leaf |->
                    [c.leaf[p] EXCEPT !.suspect = @ \/ (c.leaf[p].status = "done" /\ Suspect(c.leaf[p])),
                                      !.why = IF p \in owed /\ Why(p) # "" THEN Why(p) ELSE @]]
<1>1. c \in Campaigns /\ Range(c.order) = DOMAIN c.leaf /\ IsInjective(c.order)
  BY DEF WellFormed
<1>2. \A p \in DOMAIN c.leaf : p \in Paths /\ c.leaf[p] \in Leaf
  BY <1>1, WalkLeaves
<1>3. \A p \in DOMAIN c.leaf : Why(p) \in Whys /\ (Why(p) # "" => FailureOf(c.leaf[p]) # "")
  <2> SUFFICES ASSUME NEW p \in DOMAIN c.leaf
               PROVE  Why(p) \in Whys /\ (Why(p) # "" => FailureOf(c.leaf[p]) # "")
    OBVIOUS
  <2>1. FailureOf(c.leaf[p]) \in {"run", ""}
    BY Zenon DEF FailureOf
  <2>2. Why(p) = FailureOf(c.leaf[p]) \/ Why(p) = ""
    BY Zenon
  <2>3. \A x \in {"run", ""} : x \in Whys
    BY DEF Whys
  <2> HIDE DEF Why
  <2>4. Why(p) \in Whys
    BY <2>1, <2>2, <2>3
  <2>5. Why(p) # "" => FailureOf(c.leaf[p]) # ""
    BY <2>2, Zenon
  <2> QED
    BY <2>4, <2>5
<1>4. EmitCallbacks(c, before) = [c EXCEPT !.callbacks = c.callbacks \o new, !.leaf = leaf]
  BY <1>1 DEF EmitCallbacks, Campaigns
<1>5. /\ ended \in Seq(Paths \cap owed)
      /\ \A n \in 1 .. Len(c.order) : c.order[n] \in owed => \E i \in 1 .. Len(ended) : ended[i] = c.order[n]
  <2>1. PICK walk \in Seq(Paths) : walk = c.order
    BY <1>1, WalkLeaves
  <2>2. PICK S : S = owed
    OBVIOUS
  <2>3. KeepsThose(Kept(walk, S), walk, S, Paths)
    BY KeptHas
  <2>4. ended = Kept(walk, S)
    BY <2>1, <2>2
  <2> HIDE DEF owed, ended
  <2> QED
    BY <2>1, <2>2, <2>3, <2>4 DEF KeepsThose
<1>6. Len(ended) \in Nat /\ DOMAIN ended = 1 .. Len(ended)
      /\ \A i \in 1 .. Len(ended) : ended[i] \in owed /\ ended[i] \in Paths
  <2> HIDE DEF ended, owed
  <2> QED
    BY <1>5
<1>7. \A p \in owed : \E i \in 1 .. Len(ended) : ended[i] = p
  <2> HIDE DEF ended
  <2>1. ASSUME NEW p \in owed
        PROVE  \E i \in 1 .. Len(ended) : ended[i] = p
    <3>1. PICK n \in 1 .. Len(c.order) : c.order[n] = p
      BY <1>1, WalkLeaves
    <3> HIDE DEF owed
    <3> QED
      BY <3>1, <2>1, <1>5
  <2> QED
    BY <2>1
<1>8. ASSUME NEW p \in owed
      PROVE  c.leaf[p].status \in Ended /\ p \in DOMAIN c.leaf /\ Why(p) \in Whys
  <2>1. c.leaf[p].status \in Ended /\ p \in DOMAIN c.leaf
    OBVIOUS
  <2> HIDE DEF Why
  <2> QED
    BY <2>1, <1>3
<1> HIDE DEF ended
<1>9. /\ DOMAIN new = 1 .. Len(ended)
      /\ \A i \in 1 .. Len(ended) : /\ new[i].path = ended[i] /\ new[i].kind = c.leaf[ended[i]].status
                                    /\ new[i] \in [path : Paths, kind : Ended, why : Whys]
  <2>1. ASSUME NEW i \in 1 .. Len(ended)
        PROVE  /\ new[i].path = ended[i] /\ new[i].kind = c.leaf[ended[i]].status
               /\ new[i] \in [path : Paths, kind : Ended, why : Whys]
    <3>1. new[i] = Callback(ended[i], c.leaf[ended[i]].status, Why(ended[i]))
      BY <1>6
    <3>2. ended[i] \in Paths /\ c.leaf[ended[i]].status \in Ended /\ Why(ended[i]) \in Whys
      BY <1>6, <1>8
    <3> HIDE DEF new, Why
    <3> QED
      BY <3>1, <3>2 DEF Callback
  <2> HIDE DEF Why
  <2> QED
    BY <1>6, <2>1
<1>10. new \in Callbacks /\ Len(new) = Len(ended)
  <2> HIDE DEF new
  <2>1. new \in [1 .. Len(ended) -> [path : Paths, kind : Ended, why : Whys]]
    <3>1. new = [i \in DOMAIN new |-> new[i]]
      BY DEF new
    <3> QED
      BY <3>1, <1>9
  <2>2. PICK n \in Nat : n = Len(ended)
    BY <1>6
  <2>3. PICK R : R = [path : Paths, kind : Ended, why : Whys]
    OBVIOUS
  <2>4. new \in [1 .. n -> R]
    BY <2>1, <2>2, <2>3
  <2>5. new \in Seq(R) /\ Len(new) = n
    BY <2>4
  <2> QED
    BY <2>2, <2>3, <2>5 DEF Callbacks
<1>11. ASSUME NEW p \in DOMAIN c.leaf
       PROVE  Reasoned(c.leaf[p], leaf[p])
  <2>1. PICK l \in Leaf : l = c.leaf[p]
    BY <1>2
  <2> DEFINE X == c.leaf[p].suspect \/ (c.leaf[p].status = "done" /\ Suspect(c.leaf[p]))
             W == IF p \in owed /\ Why(p) # "" THEN Why(p) ELSE c.leaf[p].why
  <2>2. X \in BOOLEAN
    BY <1>2 DEF Leaf
  <2>3. W \in Whys /\ (W = l.why \/ FailureOf(l) # "")
    <3>1. c.leaf[p].why \in Whys
      BY <1>2 DEF Leaf
    <3>2. CASE p \in owed /\ Why(p) # ""
      <4>1. W = Why(p)
        BY <3>2, Zenon
      <4> HIDE DEF W, Why
      <4> QED
        BY <4>1, <3>2, <1>3, <2>1
    <3>3. CASE ~(p \in owed /\ Why(p) # "")
      <4>1. W = c.leaf[p].why
        BY <3>3, Zenon
      <4> HIDE DEF W, Why
      <4> QED
        BY <4>1, <3>1, <2>1
    <3> QED
      BY <3>2, <3>3, Zenon
  <2>4. leaf[p] = [c.leaf[p] EXCEPT !.suspect = X, !.why = W]
    BY <1>2 DEF Leaf
  <2> HIDE DEF leaf, X, W
  <2>5. leaf[p] = [l EXCEPT !.suspect = X, !.why = W]
    BY <2>1, <2>4
  <2>6. leaf[p] \in Leaf
    BY <2>2, <2>3, <2>5 DEF Leaf
  <2> QED
    BY <2>1, <2>3, <2>5, <2>6, Zenon DEF Reasoned
<1>12. DOMAIN leaf = DOMAIN c.leaf
  OBVIOUS
<1>13. leaf = [p \in DOMAIN c.leaf |-> leaf[p]]
  OBVIOUS
<1> HIDE DEF leaf, new
<1>14. leaf \in LeafMaps
  <2>1. \A p \in DOMAIN c.leaf : leaf[p] \in Leaf /\ p \in Paths
    BY <1>2, <1>11 DEF Reasoned
  <2> QED
    BY <1>12, <1>13, <2>1, LeafMapIs
<1>15. PICK d : d = EmitCallbacks(c, before) /\ d = [c EXCEPT !.callbacks = c.callbacks \o new, !.leaf = leaf]
  BY <1>4
<1>16. c.callbacks \o new \in Callbacks
  BY <1>1, <1>10 DEF Campaigns, Callbacks
<1>17. /\ d \in Campaigns /\ d.order = c.order /\ d.state = c.state /\ d.callbacks = c.callbacks \o new
       /\ d.analysed = c.analysed /\ d.concluded = c.concluded /\ d.leaf = leaf /\ d.usage = c.usage
  BY <1>1, <1>14, <1>15, <1>16 DEF Campaigns
<1>18. ASSUME NEW p \in DOMAIN c.leaf
       PROVE  leaf[p].sim = c.leaf[p].sim /\ leaf[p].approved = c.leaf[p].approved
              /\ leaf[p].status = c.leaf[p].status
  BY <1>2, <1>11, ZenonT(40) DEF Reasoned, Leaf
<1>19. WellFormed(d)
  BY <1>1, <1>12, <1>17, <1>18 DEF WellFormed
<1>20. Kin(c, d)
  BY <1>12, <1>17, <1>18 DEF Kin
<1>21. ASSUME NEW p \in owed
       PROVE  Announces(new, d, p)
  <2>1. d.leaf[p].status = c.leaf[p].status
    BY <1>17, <1>18, <1>8
  <2> HIDE DEF owed
  <2> QED
    BY <2>1, <1>7, <1>9, <1>10 DEF Announces, Says
<1>22. \A i \in 1 .. Len(new) : new[i].path \in owed
  <2> HIDE DEF owed
  <2> QED
    BY <1>6, <1>9, <1>10
<1>23. Emitted(c, d, owed)
  BY <1>10, <1>11, <1>17, <1>19, <1>20, <1>21, <1>22 DEF Emitted
<1>24. owed = Owed(c, before)
  BY DEF Owed
<1> HIDE DEF owed
<1> QED
  BY <1>15, <1>23, <1>24

-----------------------------------------------------------------------------
(* The steps of a plan, and what _persist_terminal makes of them. *)

Steps == [path : Paths, action : {"submit", "wait", "done", "failed"}, why : Whys]

\* The dependencies of a leaf are there, and done.
DepsDone(leaf, p) ==
    \A d \in SpecAt[p].deps :
        LET group == ResolveDependency(leaf, p, d)
        IN group # {} /\ \A q \in group : leaf[q].status = "done"

\* A step is (still) what the campaign calls for.
PlanHolds(c, s) ==
    /\ s \in Steps /\ s.path \in DOMAIN c.leaf
    /\ s.action = "submit" => c.leaf[s.path].status = "planned" /\ DepsDone(c.leaf, s.path)
    /\ s.action = "wait" => c.leaf[s.path].status \notin Ended
    /\ s.action = "done" => c.leaf[s.path].status = "done"
    /\ s.action = "failed" => \/ c.leaf[s.path].status = "failed"
                              \/ c.leaf[s.path].status = "planned" /\ s.why = "dependency"

\* A leaf has one step at most.
OneStepEach(steps) == \A i, j \in 1 .. Len(steps) : steps[i].path = steps[j].path => i = j

\* The planned leaves that a step fails.
EndedBy(c, steps) ==
    {p \in DOMAIN c.leaf : c.leaf[p].status = "planned"
        /\ \E i \in 1 .. Len(steps) : steps[i].path = p /\ steps[i].action = "failed"}

\* d is c with these leaves failed, each with its callback.
Persisted(c, d, ended) ==
    /\ WellFormed(d) /\ Kin(c, d) /\ d.usage = c.usage
    /\ \A p \in DOMAIN c.leaf :
         d.leaf[p] = IF p \in ended
                     THEN [c.leaf[p] EXCEPT !.status = "failed", !.why = "dependency"]
                     ELSE c.leaf[p]
    /\ \E new \in Callbacks :
         /\ d.callbacks = c.callbacks \o new
         /\ \A p \in ended : Announces(new, d, p)
         /\ \A i \in 1 .. Len(new) : new[i].path \in ended

\* _persist_terminal fails the planned leaves of the failed steps, each with a callback.
LEMMA PersistIs ==
  ASSUME NEW c, WellFormed(c), NEW steps \in Seq(Steps), OneStepEach(steps),
         \A i \in 1 .. Len(steps) : PlanHolds(c, steps[i])
  PROVE  Persisted(c, PersistTerminal(c, steps), EndedBy(c, steps))
<1> DEFINE ended == {p \in DOMAIN c.leaf : c.leaf[p].status = "planned"
                            /\ \E i \in 1 .. Len(steps) : steps[i].path = p /\ steps[i].action = "failed"}
           ends == {s \in Range(steps) : s.action \in Ended /\ c.leaf[s.path].status \notin Ended}
           walk == Kept(steps, ends)
           Of(p) == CHOOSE s \in ends : s.path = p
           new == [i \in DOMAIN walk |-> Callback(walk[i].path, walk[i].action, walk[i].why)]
           leaf == [p \in DOMAIN c.leaf |->
                    IF \E s \in ends : s.path = p
                    THEN [c.leaf[p] EXCEPT !.status = Of(p).action, !.why = Of(p).why]
                    ELSE c.leaf[p]]
<1>1. c \in Campaigns /\ Range(c.order) = DOMAIN c.leaf /\ IsInjective(c.order)
  BY DEF WellFormed
<1>2. \A p \in DOMAIN c.leaf : p \in Paths /\ c.leaf[p] \in Leaf
  BY <1>1, WalkLeaves
<1>3. \A s \in Range(steps) : s \in Steps /\ PlanHolds(c, s) /\ \E i \in 1 .. Len(steps) : steps[i] = s
  BY DEF Range
<1>4. \A i \in 1 .. Len(steps) : steps[i] \in Range(steps)
  BY DEF Range
<1>5. ASSUME NEW s \in ends
      PROVE  s \in Steps /\ s.action = "failed" /\ s.why = "dependency" /\ s.path \in ended
  <2>1. s \in Range(steps) /\ s.action \in Ended /\ c.leaf[s.path].status \notin Ended
    OBVIOUS
  <2>2. s \in Steps /\ PlanHolds(c, s)
    BY <1>3, <2>1
  <2>3. s.action = "failed" /\ s.why = "dependency" /\ c.leaf[s.path].status = "planned"
        /\ s.path \in DOMAIN c.leaf
    BY <2>1, <2>2 DEF PlanHolds, Ended
  <2>4. PICK i \in 1 .. Len(steps) : steps[i] = s
    BY <1>3, <2>1
  <2> QED
    BY <2>2, <2>3, <2>4
<1>6. ASSUME NEW p \in ended
      PROVE  \E s \in ends : s.path = p
  <2>1. PICK i \in 1 .. Len(steps) : steps[i].path = p /\ steps[i].action = "failed"
    OBVIOUS
  <2>2. c.leaf[p].status \notin Ended /\ "failed" \in Ended
    BY DEF Ended
  <2>3. steps[i] \in ends
    BY <1>4, <2>1, <2>2
  <2> QED
    BY <2>1, <2>3
<1>7. PersistTerminal(c, steps) = [c EXCEPT !.callbacks = c.callbacks \o new, !.leaf = leaf]
  BY <1>1 DEF PersistTerminal, Campaigns
<1> HIDE DEF ends
<1>8. ASSUME NEW p \in DOMAIN c.leaf
      PROVE  leaf[p] = IF p \in ended THEN [c.leaf[p] EXCEPT !.status = "failed", !.why = "dependency"]
                       ELSE c.leaf[p]
  <2>1. CASE p \in ended
    <3>1. \E s \in ends : s.path = p
      BY <1>6, <2>1
    <3>2. Of(p) \in ends
      BY <3>1
    <3>3. Of(p).action = "failed" /\ Of(p).why = "dependency"
      <4> HIDE DEF Of
      <4> QED
        BY <1>5, <3>2
    <3>4. leaf[p] = [c.leaf[p] EXCEPT !.status = Of(p).action, !.why = Of(p).why]
      BY <3>1
    <3> HIDE DEF Of, leaf, ended
    <3> QED
      BY <2>1, <3>3, <3>4
  <2>2. CASE p \notin ended
    <3>1. ~ \E s \in ends : s.path = p
      <4> HIDE DEF ended
      <4> QED
        BY <1>5, <2>2
    <3> HIDE DEF ended
    <3> QED
      BY <2>2, <3>1
  <2> HIDE DEF ended, leaf
  <2> QED
    BY <2>1, <2>2
<1>9. /\ walk \in Seq(Steps \cap ends)
      /\ \A n \in 1 .. Len(steps) : steps[n] \in ends => \E i \in 1 .. Len(walk) : walk[i] = steps[n]
  <2>1. PICK S : S = ends
    OBVIOUS
  <2>2. PICK W : W = Steps
    OBVIOUS
  <2>3. PICK w \in Seq(W) : w = steps
    BY <2>2
  <2>4. KeepsThose(Kept(w, S), w, S, W)
    BY KeptHas
  <2> QED
    BY <2>1, <2>2, <2>3, <2>4 DEF KeepsThose
<1> HIDE DEF walk
<1>10. Len(walk) \in Nat /\ DOMAIN walk = 1 .. Len(walk) /\ \A i \in 1 .. Len(walk) : walk[i] \in ends
  BY <1>9
<1>11. /\ DOMAIN new = 1 .. Len(walk)
       /\ \A i \in 1 .. Len(walk) : /\ new[i].path = walk[i].path /\ new[i].kind = "failed"
                                    /\ new[i].path \in ended
                                    /\ new[i] \in [path : Paths, kind : Ended, why : Whys]
  <2>1. ASSUME NEW i \in 1 .. Len(walk)
        PROVE  /\ new[i].path = walk[i].path /\ new[i].kind = "failed" /\ new[i].path \in ended
               /\ new[i] \in [path : Paths, kind : Ended, why : Whys]
    <3>1. PICK s \in ends : s = walk[i]
      BY <1>10
    <3>2. new[i] = Callback(s.path, s.action, s.why)
      BY <1>10, <3>1
    <3>3. s.path \in Paths /\ s.action = "failed" /\ s.why \in Whys /\ s.path \in ended
      BY <1>5 DEF Steps
    <3>4. "failed" \in Ended
      BY DEF Ended
    <3> HIDE DEF new, ended
    <3> QED
      BY <3>1, <3>2, <3>3, <3>4 DEF Callback
  <2> HIDE DEF ended
  <2> QED
    BY <1>10, <2>1
<1>12. new \in Callbacks /\ Len(new) = Len(walk)
  <2>1. PICK R : R = [path : Paths, kind : Ended, why : Whys]
    OBVIOUS
  <2>2. PICK n \in Nat : n = Len(walk)
    BY <1>10
  <2>3. new \in [1 .. n -> R]
    <3>1. new = [i \in DOMAIN new |-> new[i]]
      OBVIOUS
    <3> HIDE DEF new
    <3> QED
      BY <3>1, <1>11, <2>1, <2>2
  <2> HIDE DEF new
  <2>4. new \in Seq(R) /\ Len(new) = n
    BY <2>3
  <2> QED
    BY <2>1, <2>2, <2>4 DEF Callbacks
<1>13. leaf \in LeafMaps /\ DOMAIN leaf = DOMAIN c.leaf
  <2>1. leaf = [p \in DOMAIN c.leaf |-> leaf[p]]
    OBVIOUS
  <2> HIDE DEF leaf, ended
  <2>2. \A p \in DOMAIN c.leaf : leaf[p] \in Leaf
    <3>1. "failed" \in Statuses /\ "dependency" \in Whys
      BY DEF Statuses, Ended, Whys
    <3>2. \A l \in Leaf : [l EXCEPT !.status = "failed", !.why = "dependency"] \in Leaf
      BY <3>1 DEF Leaf
    <3> QED
      BY <1>2, <1>8, <3>2
  <2> QED
    BY <1>2, <2>1, <2>2, LeafMapIs
<1> HIDE DEF leaf, new
<1>14. PICK d : d = PersistTerminal(c, steps) /\ d = [c EXCEPT !.callbacks = c.callbacks \o new, !.leaf = leaf]
  BY <1>7
<1>15. c.callbacks \o new \in Callbacks
  BY <1>1, <1>12 DEF Campaigns, Callbacks
<1>16. /\ d \in Campaigns /\ d.order = c.order /\ d.state = c.state /\ d.callbacks = c.callbacks \o new
       /\ d.analysed = c.analysed /\ d.concluded = c.concluded /\ d.leaf = leaf /\ d.usage = c.usage
  BY <1>1, <1>13, <1>14, <1>15 DEF Campaigns
<1>17. ASSUME NEW p \in DOMAIN c.leaf
       PROVE  leaf[p].sim = c.leaf[p].sim /\ leaf[p].approved = c.leaf[p].approved
  <2> HIDE DEF ended
  <2> QED
    BY <1>2, <1>8 DEF Leaf
<1>18. WellFormed(d) /\ Kin(c, d)
  BY <1>1, <1>13, <1>16, <1>17 DEF WellFormed, Kin
<1>19. ASSUME NEW p \in ended
       PROVE  Announces(new, d, p)
  <2>1. p \in DOMAIN c.leaf
    OBVIOUS
  <2>2. \E i \in 1 .. Len(walk) : walk[i].path = p
    <3>1. PICK s \in ends : s.path = p
      BY <1>6
    <3>2. PICK n \in 1 .. Len(steps) : steps[n] = s
      BY <1>3, <3>1 DEF ends
    <3> QED
      BY <3>1, <3>2, <1>9
  <2> HIDE DEF ended
  <2>3. d.leaf[p].status = "failed"
    BY <1>2, <1>8, <1>16, <2>1 DEF Leaf
  <2> QED
    BY <2>2, <2>3, <1>11, <1>12 DEF Announces, Says
<1>20. \A i \in 1 .. Len(new) : new[i].path \in ended
  <2> HIDE DEF ended
  <2> QED
    BY <1>11, <1>12
<1>21. ASSUME NEW p \in DOMAIN c.leaf
       PROVE  d.leaf[p] = IF p \in ended
                          THEN [c.leaf[p] EXCEPT !.status = "failed", !.why = "dependency"]
                          ELSE c.leaf[p]
  <2> HIDE DEF ended
  <2> QED
    BY <1>8, <1>16
<1>22. \E x \in Callbacks : /\ d.callbacks = c.callbacks \o x
                            /\ \A p \in ended : Announces(x, d, p)
                            /\ \A i \in 1 .. Len(x) : x[i].path \in ended
  <2> HIDE DEF ended
  <2> QED
    BY <1>12, <1>16, <1>19, <1>20
<1>23. PersistTerminal(c, steps) = d /\ d.usage = c.usage
  BY <1>14, <1>16
<1>24. EndedBy(c, steps) = ended
  BY DEF EndedBy
<1> HIDE DEF ended
<1> QED
  BY <1>18, <1>21, <1>22, <1>23, <1>24 DEF Persisted

\* What a dependency names is leaves of the campaign, whatever their status.
LEMMA ResolveSame ==
  ASSUME NEW f, NEW g, DOMAIN f = DOMAIN g, NEW p, NEW d
  PROVE  ResolveDependency(f, p, d) = ResolveDependency(g, p, d)
         /\ ResolveDependency(f, p, d) \subseteq DOMAIN f
<1>1. \A x : Subtree(f, x) = Subtree(g, x) /\ Subtree(f, x) \subseteq DOMAIN f
  BY DEF Subtree
<1> QED
  BY <1>1 DEF ResolveDependency

\* Dependencies stay done as long as a leaf that is done stays done.
LEMMA DepsStay ==
  ASSUME NEW f, NEW g, DOMAIN f = DOMAIN g, NEW p, DepsDone(f, p),
         \A q \in DOMAIN f : f[q].status = "done" => g[q].status = "done"
  PROVE  DepsDone(g, p)
<1>1. ASSUME NEW d \in SpecAt[p].deps
      PROVE  LET group == ResolveDependency(g, p, d)
             IN group # {} /\ \A q \in group : g[q].status = "done"
  <2>1. PICK G : G = ResolveDependency(f, p, d)
    OBVIOUS
  <2>2. ResolveDependency(g, p, d) = G /\ G \subseteq DOMAIN f
    BY <2>1, ResolveSame
  <2>3. G # {} /\ \A q \in G : f[q].status = "done"
    BY <2>1 DEF DepsDone
  <2> QED
    BY <2>2, <2>3
<1> QED
  BY <1>1 DEF DepsDone

\* A step still holds as long as its leaf keeps its status and a leaf that is done stays
\* done.
LEMMA PlanStays ==
  ASSUME NEW c, NEW d, DOMAIN d.leaf = DOMAIN c.leaf, NEW s, PlanHolds(c, s),
         d.leaf[s.path].status = c.leaf[s.path].status,
         \A q \in DOMAIN c.leaf : c.leaf[q].status = "done" => d.leaf[q].status = "done"
  PROVE  PlanHolds(d, s)
<1>1. s.action = "submit" => DepsDone(d.leaf, s.path)
  BY DepsStay DEF PlanHolds
<1> QED
  BY <1>1 DEF PlanHolds

\* _plan_leaf gives a step that the campaign calls for; a submission is within the caps.
LEMMA PlanLeafIs ==
  ASSUME NEW c, WellFormed(c), NEW p \in DOMAIN c.leaf, NEW budget, NEW usage
  PROVE  LET s == PlanLeaf(c.leaf, p, budget, usage)
         IN /\ s.path = p /\ PlanHolds(c, s)
            /\ s.action = "submit" => CheckAdmission(budget, usage, SpecAt[p])
<1> DEFINE groups == {ResolveDependency(c.leaf, p, d) : d \in SpecAt[p].deps}
           blocked == \E g \in groups : \E q \in g : c.leaf[q].status = "failed"
           unmet == \E g \in groups : g = {} \/ \E q \in g : c.leaf[q].status # "done"
<1>1. p \in Paths /\ c.leaf[p] \in Leaf
  BY WalkLeaves DEF WellFormed
<1>2. PICK st \in Statuses : c.leaf[p].status = st
  BY <1>1 DEF Leaf
<1>3. PICK s : s = PlanLeaf(c.leaf, p, budget, usage)
  OBVIOUS
<1>4. \A a \in {"submit", "wait", "done", "failed"}, w \in Whys :
         /\ Step(p, a, w) \in Steps /\ Step(p, a, w).path = p
         /\ Step(p, a, w).action = a /\ Step(p, a, w).why = w
  BY <1>1 DEF Step, Steps
<1>8. "" \in Whys /\ "in_flight" \in Whys /\ "dependency" \in Whys /\ "budget" \in Whys
  BY DEF Whys
<1>5. CASE st \in Ended
  <2>0. st \notin InFlight
    BY <1>5 DEF InFlight, Ended
  <2>1. s = Step(p, c.leaf[p].status, "")
    BY <1>2, <1>3, <1>5, <2>0 DEF PlanLeaf
  <2>2. st \in {"done", "failed"} /\ st \in {"submit", "wait", "done", "failed"}
    BY <1>5 DEF Ended
  <2>3. s \in Steps /\ s.path = p /\ s.action = st
    <3>1. s = Step(p, st, "")
      BY <1>2, <2>1
    <3>2. Step(p, st, "") \in Steps /\ Step(p, st, "").path = p /\ Step(p, st, "").action = st
      <4>1. CASE st = "done"
        BY <4>1, <1>4, <1>8
      <4>2. CASE st = "failed"
        BY <4>2, <1>4, <1>8
      <4> QED
        BY <2>2, <4>1, <4>2
    <3> QED
      BY <3>1, <3>2
  <2> QED
    BY <1>2, <1>3, <2>2, <2>3 DEF PlanHolds
<1>6. CASE st \in InFlight
  <2>1. st \notin Ended
    BY <1>6 DEF Ended, InFlight
  <2>2. s = Step(p, "wait", "in_flight")
    BY <1>2, <1>3, <1>6, <2>1, Zenon DEF PlanLeaf
  <2>3. s \in Steps /\ s.path = p /\ s.action = "wait"
    BY <1>4, <1>8, <2>2
  <2> QED
    BY <1>2, <1>3, <2>1, <2>3 DEF PlanHolds
<1>7. CASE st \notin Ended /\ st \notin InFlight
  <2>1. st = "planned"
    BY <1>7 DEF Statuses
  <2>2. s = IF blocked THEN Step(p, "failed", "dependency")
            ELSE IF unmet THEN Step(p, "wait", "dependency")
            ELSE IF CheckAdmission(budget, usage, SpecAt[p]) THEN Step(p, "submit", "")
            ELSE Step(p, "wait", "budget")
    BY <1>2, <1>3, <1>7 DEF PlanLeaf
  <2>3. CASE blocked
    <3>1. s = Step(p, "failed", "dependency")
      BY <2>2, <2>3
    <3>2. s \in Steps /\ s.path = p /\ s.action = "failed" /\ s.why = "dependency"
      BY <1>4, <1>8, <3>1
    <3> QED
      BY <1>2, <1>3, <2>1, <3>2 DEF PlanHolds
  <2>4. CASE ~blocked /\ unmet
    <3>1. s = Step(p, "wait", "dependency")
      <4> HIDE DEF blocked, unmet
      <4> QED
        BY <2>2, <2>4
    <3>2. s \in Steps /\ s.path = p /\ s.action = "wait"
      BY <1>4, <1>8, <3>1
    <3> QED
      BY <1>2, <1>3, <1>7, <3>2 DEF PlanHolds
  <2>5. CASE ~blocked /\ ~unmet
    <3>1. s = IF CheckAdmission(budget, usage, SpecAt[p]) THEN Step(p, "submit", "")
              ELSE Step(p, "wait", "budget")
      <4> HIDE DEF blocked, unmet
      <4> QED
        BY <2>2, <2>5
    <3>2. CASE CheckAdmission(budget, usage, SpecAt[p])
      <4>1. s = Step(p, "submit", "")
        BY <3>1, <3>2
      <4>2. s \in Steps /\ s.path = p /\ s.action = "submit"
        BY <1>4, <1>8, <4>1
      <4>3. DepsDone(c.leaf, p)
        BY <2>5 DEF DepsDone
      <4> QED
        BY <1>2, <1>3, <2>1, <3>2, <4>2, <4>3 DEF PlanHolds
    <3>3. CASE ~CheckAdmission(budget, usage, SpecAt[p])
      <4>1. s = Step(p, "wait", "budget")
        BY <3>1, <3>3
      <4>2. s \in Steps /\ s.path = p /\ s.action = "wait"
        BY <1>4, <1>8, <4>1
      <4> QED
        BY <1>2, <1>3, <1>7, <4>2 DEF PlanHolds
    <3> QED
      BY <3>2, <3>3
  <2> HIDE DEF blocked, unmet
  <2> QED
    BY <2>3, <2>4, <2>5
<1> QED
  BY <1>5, <1>6, <1>7

\* The usage a planned leaf is admitted against is that of the leaves before it.
Admits(leaf, p, budget, v) ==
    IF PlanLeaf(leaf, p, budget, v).action # "submit" THEN v
    ELSE [Account(v, SpecAt[p]) EXCEPT !.running = @ + 1]

\* v is the usage of next_actions after each leaf of the walk.
PlannedAlong(v, c, budget, usage) ==
    /\ v \in [0 .. Len(c.order) -> Usage] /\ v[0].jobs = usage.jobs
    /\ \A n \in 1 .. Len(c.order) : v[n] = Admits(c.leaf, c.order[n], budget, v[n - 1])
    /\ NextActions(c.order, c.leaf, budget, usage) =
         [n \in DOMAIN c.order |-> PlanLeaf(c.leaf, c.order[n], budget, v[n - 1])]

\* A planned submission counts as one job more.
LEMMA AdmitsIs ==
  ASSUME NEW leaf, NEW p \in Paths, NEW budget, NEW v \in Usage
  PROVE  /\ Admits(leaf, p, budget, v) \in Usage
         /\ Admits(leaf, p, budget, v).jobs =
              IF PlanLeaf(leaf, p, budget, v).action = "submit" THEN v.jobs + 1 ELSE v.jobs
<1>1. CASE PlanLeaf(leaf, p, budget, v).action # "submit"
  BY <1>1 DEF Admits
<1>2. CASE PlanLeaf(leaf, p, budget, v).action = "submit"
  <2>1. PICK q \in SpecType : q = SpecAt[p]
    BY SpecAssumption
  <2>2. q.core \in Nat /\ q.gpu \in Nat
    BY DEF SpecType
  <2>3. PICK g \in Nat : g = IF q.isGpu THEN q.gpu ELSE 0
    BY <2>2
  <2>4. Account(v, q) = [v EXCEPT !.core = v.core + q.core, !.jobs = v.jobs + 1, !.gpu = v.gpu + g]
    BY <2>3 DEF Account, Usage
  <2>5. Admits(leaf, p, budget, v) = [Account(v, q) EXCEPT !.running = @ + 1]
    BY <1>2, <2>1 DEF Admits
  <2>6. Account(v, q) \in Usage /\ Account(v, q).jobs = v.jobs + 1
    <3>1. PICK x \in Nat, y \in Nat, z \in Nat : x = v.core + q.core /\ y = v.jobs + 1 /\ z = v.gpu + g
      BY <2>2, <2>3 DEF Usage
    <3>2. Account(v, q) = [v EXCEPT !.core = x, !.jobs = y, !.gpu = z]
      BY <2>4, <3>1
    <3> QED
      BY <3>1, <3>2 DEF Usage
  <2> QED
    BY <1>2, <2>5, <2>6 DEF Usage
<1> QED
  BY <1>1, <1>2

\* The usage is built up along the walk.
LEMMA PlannedSteps ==
  ASSUME NEW c, WellFormed(c), NEW budget, NEW usage \in Usage
  PROVE  \E v : PlannedAlong(v, c, budget, usage)
<1> DEFINE N == Len(c.order)
           P(n) == c.order[n]
           u0 == [usage EXCEPT !.running = Running(c.leaf)]
           Body(g) == [n \in 0 .. N |->
               IF n = 0 THEN u0
               ELSE LET before == g[n - 1]
                    IN IF PlanLeaf(c.leaf, P(n), budget, before).action # "submit" THEN before
                       ELSE [Account(before, SpecAt[P(n)]) EXCEPT !.running = @ + 1]]
           F == CHOOSE g : g = Body(g)
           G == [n \in 1 .. N |-> [v \in Usage |-> Admits(c.leaf, P(n), budget, v)]]
<1>1. N \in Nat /\ u0 \in Usage /\ u0.jobs = usage.jobs /\ \A n \in 1 .. N : P(n) \in Paths
  <2>1. Running(c.leaf) \in Nat
    BY RunningType DEF WellFormed
  <2>2. N \in Nat /\ \A n \in 1 .. N : P(n) \in Paths
    BY WalkLeaves DEF WellFormed
  <2> QED
    BY <2>1, <2>2 DEF Usage
<1>2. G \in [1 .. N -> [Usage -> Usage]]
  <2> HIDE DEF N, P
  <2> QED
    BY <1>1, AdmitsIs
<1>3. PICK h : RecursTo(h, N, u0, G, Usage)
  <2> HIDE DEF G, N, u0
  <2> QED
    BY <1>1, <1>2, RecursionTo
<1>4. ASSUME NEW n \in 1 .. N
      PROVE  h[n] = Admits(c.leaf, P(n), budget, h[n - 1])
  <2> HIDE DEF P, N, G, u0
  <2>1. n - 1 \in 0 .. N
    BY <1>1
  <2>2. h[n - 1] \in Usage
    BY <1>3, <2>1 DEF RecursTo
  <2>3. h[n] = G[n][h[n - 1]]
    BY <1>3 DEF RecursTo
  <2>4. G[n][h[n - 1]] = Admits(c.leaf, P(n), budget, h[n - 1])
    BY <2>2 DEF G
  <2> QED
    BY <2>3, <2>4
<1> HIDE DEF u0, P
<1>5. F = Body(F)
  <2>1. h \in [0 .. N -> Usage] /\ h[0] = u0
    BY <1>3 DEF RecursTo
  <2>2. \A n \in 1 .. N : Body(h)[n] = Admits(c.leaf, P(n), budget, h[n - 1])
    <3>1. \A n \in 1 .. N : n \in 0 .. N /\ n # 0
      BY <1>1
    <3> HIDE DEF N
    <3> QED
      BY <3>1 DEF Admits
  <2>3. Body(h)[0] = u0
    <3>1. 0 \in 0 .. N
      BY <1>1
    <3> QED
      BY <3>1
  <2>4. Body(h) = [n \in 0 .. N |-> Body(h)[n]]
    OBVIOUS
  <2>5. h = Body(h)
    <3> HIDE DEF N, Body
    <3>1. \A n \in 0 .. N : n = 0 \/ n \in 1 .. N
      BY <1>1
    <3>2. \A n \in 0 .. N : h[n] = Body(h)[n]
      BY <1>4, <2>1, <2>2, <2>3, <3>1
    <3> QED
      BY <2>1, <2>4, <3>2
  <2> QED
    BY <2>5
<1>6. F \in [0 .. N -> Usage] /\ F = h
  <2> HIDE DEF F, N
  <2>0. 0 \in 0 .. N /\ \A n \in 1 .. N : n \in 0 .. N /\ n # 0
    BY <1>1
  <2>1. DOMAIN F = 0 .. N /\ F[0] = u0
    <3>1. DOMAIN Body(F) = 0 .. N /\ Body(F)[0] = u0
      BY <2>0
    <3> QED
      BY <3>1, <1>5
  <2>2. \A n \in 1 .. N : F[n] = Admits(c.leaf, P(n), budget, F[n - 1])
    <3>1. \A n \in 1 .. N : Body(F)[n] = Admits(c.leaf, P(n), budget, F[n - 1])
      BY <2>0 DEF Admits
    <3> QED
      BY <3>1, <1>5
  <2> DEFINE S == {n \in Nat : n <= N => F[n] = h[n]}
  <2>3. 0 \in S
    BY <2>1, <1>3 DEF RecursTo
  <2>4. ASSUME NEW n \in Nat, n \in S
        PROVE  n + 1 \in S
    <3>1. CASE n + 1 <= N
      <4>1. n + 1 \in 1 .. N /\ (n + 1) - 1 = n /\ n <= N
        BY <3>1, <1>1
      <4>2. F[n] = h[n]
        BY <2>4, <4>1
      <4>3. F[n + 1] = h[n + 1]
        BY <4>1, <4>2, <2>2, <1>4
      <4> QED
        BY <4>3
    <3> QED
      BY <3>1
  <2> HIDE DEF S
  <2>5. Nat \subseteq S
    BY <2>3, <2>4, SetInduction
  <2>6. \A n \in 0 .. N : F[n] = h[n]
    BY <2>5, <1>1 DEF S
  <2>7. h \in [0 .. N -> Usage]
    BY <1>3 DEF RecursTo
  <2>8. F = [n \in 0 .. N |-> F[n]]
    <3>1. Body(F) = [n \in 0 .. N |-> Body(F)[n]]
      BY <1>1
    <3> HIDE DEF Body
    <3> QED
      BY <3>1, <1>5
  <2> QED
    BY <2>6, <2>7, <2>8
<1>7. NextActions(c.order, c.leaf, budget, usage) =
        [n \in DOMAIN c.order |-> PlanLeaf(c.leaf, c.order[n], budget, F[n - 1])]
  BY DEF NextActions, u0, P
<1> HIDE DEF F
<1>8. PlannedAlong(h, c, budget, usage)
  BY <1>1, <1>3, <1>4, <1>6, <1>7 DEF PlannedAlong, RecursTo, P
<1> QED
  BY <1>8

\* w gives each step the jobs counted before it: the steps that submit are below the cap,
\* each above the ones before it.
Room(w, steps, jobs, cap) ==
    /\ w \in [1 .. Len(steps) -> Nat]
    /\ \A i \in 1 .. Len(steps) : steps[i].action = "submit" => jobs <= w[i] /\ w[i] < cap
    /\ \A i, j \in 1 .. Len(steps) :
         i < j /\ steps[i].action = "submit" /\ steps[j].action = "submit" => w[i] < w[j]

\* next_actions gives each leaf one step the campaign calls for; with a cap on the jobs
\* there is room for all its submissions together.
LEMMA PlanIs ==
  ASSUME NEW c, WellFormed(c), NEW budget, NEW usage \in Usage,
         "jobs" \in DOMAIN budget => budget.jobs \in Nat
  PROVE  LET steps == NextActions(c.order, c.leaf, budget, usage)
         IN /\ steps \in Seq(Steps) /\ OneStepEach(steps) /\ Len(steps) = Len(c.order)
            /\ \A i \in 1 .. Len(steps) : PlanHolds(c, steps[i]) /\ steps[i].path = c.order[i]
            /\ "jobs" \in DOMAIN budget => \E w : Room(w, steps, usage.jobs, budget.jobs)
<1>1. PICK v : PlannedAlong(v, c, budget, usage)
  BY PlannedSteps
<1>2. PICK N \in Nat : N = Len(c.order) /\ DOMAIN c.order = 1 .. N
  BY WalkLeaves DEF WellFormed
<1>3. PICK steps : steps = [n \in 1 .. N |-> PlanLeaf(c.leaf, c.order[n], budget, v[n - 1])]
  OBVIOUS
<1>4. NextActions(c.order, c.leaf, budget, usage) = steps
  BY <1>1, <1>2, <1>3 DEF PlannedAlong
<1>5. \A n \in 1 .. N : c.order[n] \in DOMAIN c.leaf /\ c.order[n] \in Paths
  BY <1>2, WalkLeaves DEF WellFormed
<1>6. \A n \in 1 .. N :
        /\ steps[n].path = c.order[n] /\ PlanHolds(c, steps[n]) /\ steps[n] \in Steps
        /\ steps[n].action = "submit" => CheckAdmission(budget, v[n - 1], SpecAt[c.order[n]])
  BY <1>3, <1>5, PlanLeafIs DEF PlanHolds
<1>7. steps \in Seq(Steps) /\ Len(steps) = N
  <2>1. PICK S : S = Steps
    OBVIOUS
  <2>2. steps \in [1 .. N -> S]
    BY <1>3, <1>6, <2>1
  <2>3. steps \in Seq(S) /\ Len(steps) = N
    BY <2>2
  <2> QED
    BY <2>1, <2>3
<1>8. OneStepEach(steps)
  <2>1. \A i, j \in 1 .. N : c.order[i] = c.order[j] => i = j
    BY <1>2 DEF WellFormed, IsInjective
  <2> QED
    BY <2>1, <1>6, <1>7 DEF OneStepEach
<1>9. ASSUME "jobs" \in DOMAIN budget
      PROVE  \E w : Room(w, steps, usage.jobs, budget.jobs)
  <2> DEFINE w == [i \in 1 .. N |-> v[i - 1].jobs]
  <2>1. \A n \in 0 .. N : v[n] \in Usage /\ v[n].jobs \in Nat
    BY <1>1, <1>2 DEF PlannedAlong, Usage
  <2>2. ASSUME NEW n \in 1 .. N
        PROVE  v[n].jobs = IF steps[n].action = "submit" THEN v[n - 1].jobs + 1 ELSE v[n - 1].jobs
    <3>1. n - 1 \in 0 .. N
      OBVIOUS
    <3>2. v[n - 1] \in Usage
      BY <2>1, <3>1
    <3>3. v[n] = Admits(c.leaf, c.order[n], budget, v[n - 1])
      BY <1>1, <1>2 DEF PlannedAlong
    <3>4. PICK u \in Usage, p \in Paths : u = v[n - 1] /\ p = c.order[n]
      BY <3>2, <1>5
    <3>5. Admits(c.leaf, p, budget, u).jobs =
              IF PlanLeaf(c.leaf, p, budget, u).action = "submit" THEN u.jobs + 1 ELSE u.jobs
      BY AdmitsIs
    <3>6. steps[n] = PlanLeaf(c.leaf, p, budget, u)
      BY <1>3, <3>4
    <3> QED
      BY <3>3, <3>4, <3>5, <3>6
  <2>3. ASSUME NEW n \in 1 .. N, steps[n].action = "submit"
        PROVE  v[n - 1].jobs + 1 <= budget.jobs
    BY <1>6, <1>9, <2>3 DEF CheckAdmission
  <2>4. ASSUME NEW i \in 0 .. N
        PROVE  \A n \in 0 .. N : i <= n => v[i].jobs <= v[n].jobs
    <3> DEFINE S == {n \in Nat : n <= N /\ i <= n => v[i].jobs <= v[n].jobs}
    <3>1. 0 \in S
      BY <2>1
    <3>2. ASSUME NEW n \in Nat, n \in S
          PROVE  n + 1 \in S
      <4>1. CASE n + 1 <= N /\ i <= n + 1 /\ i # n + 1
        <5>1. n + 1 \in 1 .. N /\ (n + 1) - 1 = n /\ n \in 0 .. N /\ n + 1 \in 0 .. N /\ i <= n
          BY <4>1
        <5>2. v[n].jobs <= v[n + 1].jobs
          BY <2>1, <2>2, <5>1
        <5>3. v[i].jobs <= v[n].jobs
          BY <3>2, <5>1
        <5> QED
          BY <2>1, <5>1, <5>2, <5>3
      <4>2. CASE i = n + 1
        BY <4>2, <2>1
      <4>3. CASE ~(n + 1 <= N /\ i <= n + 1)
        BY <4>3
      <4> QED
        BY <4>1, <4>2, <4>3
    <3> HIDE DEF S
    <3>3. Nat \subseteq S
      BY <3>1, <3>2, SetInduction
    <3> QED
      BY <3>3 DEF S
  <2>5. \A i \in 1 .. N : i - 1 \in 0 .. N /\ i \in 0 .. N /\ w[i] = v[i - 1].jobs /\ w[i] \in Nat
    BY <2>1
  <2>6. w \in [1 .. N -> Nat]
    BY <2>5
  <2> HIDE DEF w
  <2>7. \A i \in 1 .. N : steps[i].action = "submit" => usage.jobs <= w[i] /\ w[i] < budget.jobs
    <3>1. ASSUME NEW i \in 1 .. N, steps[i].action = "submit"
          PROVE  usage.jobs <= w[i] /\ w[i] < budget.jobs
      <4>1. v[0].jobs <= v[i - 1].jobs
        <5>1. 0 \in 0 .. N /\ 0 <= i - 1
          OBVIOUS
        <5> QED
          BY <2>4, <2>5, <5>1
      <4>2. v[0].jobs = usage.jobs
        BY <1>1 DEF PlannedAlong
      <4>3. v[i - 1].jobs + 1 <= budget.jobs
        BY <2>3, <3>1
      <4> QED
        BY <4>1, <4>2, <4>3, <2>5, <1>9
    <3> QED
      BY <3>1
  <2>8. \A i, j \in 1 .. N :
          i < j /\ steps[i].action = "submit" /\ steps[j].action = "submit" => w[i] < w[j]
    <3>1. ASSUME NEW i \in 1 .. N, NEW j \in 1 .. N, i < j, steps[i].action = "submit"
          PROVE  w[i] < w[j]
      <4>1. v[i].jobs = v[i - 1].jobs + 1
        BY <2>2, <3>1
      <4>2. v[i].jobs <= v[j - 1].jobs
        <5>1. i <= j - 1
          BY <3>1
        <5> QED
          BY <2>4, <2>5, <5>1
      <4>3. w[i] = v[i - 1].jobs /\ w[j] = v[j - 1].jobs /\ w[i] \in Nat /\ w[j] \in Nat
        BY <2>5
      <4> QED
        BY <4>1, <4>2, <4>3
    <3> QED
      BY <3>1
  <2>9. Room(w, steps, usage.jobs, budget.jobs)
    BY <1>7, <2>6, <2>7, <2>8 DEF Room
  <2> QED
    BY <2>9
<1> QED
  BY <1>2, <1>4, <1>6, <1>7, <1>8, <1>9

-----------------------------------------------------------------------------
(* A submission and its outcome. *)

\* d is c with other leaf, usage and callbacks: the leaf of p only is changed.
Changed(c, d, p) ==
    /\ WellFormed(d) /\ Kin(c, d) /\ \A q \in DOMAIN c.leaf : q # p => d.leaf[q] = c.leaf[q]

\* d is c with m at p, and this usage and these callbacks.
Sets(c, d, p, m, u, b) == d = [c EXCEPT !.leaf[p] = m, !.usage = u, !.callbacks = b]

\* Changing one leaf, the usage and the callbacks keeps a campaign well formed.
LEMMA ChangedIs ==
  ASSUME NEW c, WellFormed(c), NEW d, NEW p \in DOMAIN c.leaf, NEW m \in Leaf,
         m.sim \in {NoSim, SpecAt[p].sim}, m.approved = c.leaf[p].approved,
         NEW u \in Usage, NEW b \in Callbacks,
         Sets(c, d, p, m, u, b)
  PROVE  Changed(c, d, p) /\ d.leaf[p] = m /\ d.usage = u /\ d.callbacks = b
<1>1. c \in Campaigns /\ Range(c.order) = DOMAIN c.leaf /\ IsInjective(c.order)
  BY DEF WellFormed
<1>2. DOMAIN c.leaf \subseteq Paths /\ c.leaf \in [DOMAIN c.leaf -> Leaf]
  BY <1>1, WalkLeaves
<1>3. PICK f : f = [c.leaf EXCEPT ![p] = m]
  OBVIOUS
<1>4. f \in [DOMAIN c.leaf -> Leaf] /\ f[p] = m /\ \A q \in DOMAIN c.leaf : q # p => f[q] = c.leaf[q]
  BY <1>2, <1>3
<1>5. f \in LeafMaps /\ DOMAIN f = DOMAIN c.leaf
  <2>1. DOMAIN f = DOMAIN c.leaf
    BY <1>4
  <2> QED
    BY <2>1, <1>2, <1>4, LeafMapIs
<1>6. d = [c EXCEPT !.leaf = f, !.usage = u, !.callbacks = b]
  BY <1>1, <1>3 DEF Campaigns, Sets
<1>7. /\ d \in Campaigns /\ d.order = c.order /\ d.state = c.state /\ d.callbacks = b
      /\ d.analysed = c.analysed /\ d.concluded = c.concluded /\ d.leaf = f /\ d.usage = u
  BY <1>1, <1>5, <1>6 DEF Campaigns
<1>8. \A q \in DOMAIN c.leaf : f[q].sim \in {NoSim, SpecAt[q].sim} /\ f[q].approved = c.leaf[q].approved
  BY <1>4 DEF WellFormed
<1>9. WellFormed(d)
  BY <1>1, <1>5, <1>7, <1>8 DEF WellFormed
<1>10. Kin(c, d)
  BY <1>5, <1>7, <1>8 DEF Kin
<1> QED
  BY <1>4, <1>7, <1>9, <1>10 DEF Changed

\* A submission that is accepted.
IsAccepted(c, d, p) ==
    /\ d.leaf[p].status = "submitted" /\ d.leaf[p].run = p /\ d.leaf[p].estCore = SpecAt[p].core
    /\ d.leaf[p].reused = c.leaf[p].reused /\ d.leaf[p].actCore = c.leaf[p].actCore
    /\ d.usage.jobs = c.usage.jobs + 1 /\ d.usage.core = c.usage.core + SpecAt[p].core
    /\ d.callbacks = c.callbacks

\* A submission that changes what it cost in nothing.
CostsNothing(c, d, p) ==
    /\ d.leaf[p].run = c.leaf[p].run /\ d.leaf[p].estCore = c.leaf[p].estCore
    /\ d.leaf[p].reused = c.leaf[p].reused /\ d.leaf[p].actCore = c.leaf[p].actCore
    /\ d.usage = c.usage

\* A submission that fails its leaf, and says so.
IsFailed(c, d, p, why) ==
    /\ d.leaf[p].status = "failed" /\ d.leaf[p].why = why /\ CostsNothing(c, d, p)
    /\ d.callbacks = Append(c.callbacks, Callback(p, "failed", why))

\* A submission that is put off.
IsDeferred(c, d, p) ==
    /\ d.leaf[p].status = c.leaf[p].status /\ CostsNothing(c, d, p) /\ d.callbacks = c.callbacks

\* An accepted submission counts its cost and a job.
LEMMA AcceptedIs ==
  ASSUME NEW c, WellFormed(c), NEW p \in DOMAIN c.leaf
  PROVE  Changed(c, Accepted(c, p), p) /\ IsAccepted(c, Accepted(c, p), p)
<1>1. c \in Campaigns /\ Range(c.order) = DOMAIN c.leaf
  BY DEF WellFormed
<1>2. p \in Paths /\ p \in Runs /\ c.leaf[p] \in Leaf /\ SpecAt[p].sim \in Sims
  BY <1>1, WalkLeaves, Names
<1>3. PICK q \in SpecType : q = SpecAt[p]
  BY <1>2, SpecAssumption
<1>4. q.core \in Nat /\ q.gpu \in Nat /\ q.isGpu \in BOOLEAN
  BY DEF SpecType
<1>5. PICK l \in Leaf : l = c.leaf[p]
  BY <1>2
<1>6. PICK m : m = [l EXCEPT !.sim = q.sim, !.run = p, !.status = "submitted", !.deferred = FALSE,
                             !.why = "", !.estCore = q.core, !.estGpu = q.gpu, !.isGpu = q.isGpu]
  OBVIOUS
<1>7. m \in Leaf
  <2>1. "submitted" \in Statuses /\ "" \in Whys /\ q.sim \in Sims
    BY <1>2, <1>3 DEF Statuses, InFlight, Whys
  <2> QED
    BY <2>1, <1>2, <1>4, <1>6 DEF Leaf
<1>8. PICK u : u = [Account(c.usage, q) EXCEPT !.running = @ + 1]
  OBVIOUS
<1>9. u \in Usage /\ u.jobs = c.usage.jobs + 1 /\ u.core = c.usage.core + q.core
  <2>1. PICK v \in Usage : v = c.usage
    BY <1>1 DEF Campaigns
  <2>2. PICK g \in Nat : g = IF q.isGpu THEN q.gpu ELSE 0
    BY <1>4
  <2>3. PICK x \in Nat, y \in Nat, z \in Nat, w \in Nat :
          x = v.core + q.core /\ y = v.jobs + 1 /\ z = v.gpu + g /\ w = v.running + 1
    BY <1>4, <2>2 DEF Usage
  <2>4. Account(v, q) = [v EXCEPT !.core = x, !.jobs = y, !.gpu = z]
    BY <2>2, <2>3 DEF Account, Usage
  <2>5. u = [v EXCEPT !.core = x, !.jobs = y, !.gpu = z, !.running = w]
    BY <1>8, <2>1, <2>3, <2>4 DEF Usage
  <2> QED
    BY <2>1, <2>3, <2>5 DEF Usage
<1>10. PICK d : d = Accepted(c, p) /\ Sets(c, d, p, m, u, c.callbacks)
  <2>1. Accepted(c, p) = [c EXCEPT !.leaf[p] = m, !.usage = u]
    BY <1>1, <1>2, <1>3, <1>5, <1>6, <1>8 DEF Accepted, Campaigns
  <2> QED
    BY <2>1, <1>1 DEF Campaigns, Sets
<1>11. c.callbacks \in Callbacks
  BY <1>1 DEF Campaigns
<1>12. /\ m.sim = SpecAt[p].sim /\ m.approved = l.approved /\ m.status = "submitted" /\ m.run = p
       /\ m.estCore = q.core /\ m.reused = l.reused /\ m.actCore = l.actCore
  BY <1>3, <1>6 DEF Leaf
<1>13. Changed(c, d, p) /\ d.leaf[p] = m /\ d.usage = u /\ d.callbacks = c.callbacks
  BY <1>5, <1>7, <1>9, <1>10, <1>11, <1>12, ChangedIs
<1> QED
  BY <1>3, <1>5, <1>9, <1>10, <1>12, <1>13 DEF IsAccepted

\* A callback at the end of the callbacks.
LEMMA TellType ==
  ASSUME NEW b \in Callbacks, NEW p \in Paths, NEW kind \in Ended, NEW why \in Whys
  PROVE  Append(b, Callback(p, kind, why)) \in Callbacks
  BY DEF Callbacks, Callback

\* A submission that is refused, or that raises, fails its leaf.
LEMMA SubmitFailedIs ==
  ASSUME NEW c, WellFormed(c), NEW p \in DOMAIN c.leaf, NEW why \in {"refused", "error"}
  PROVE  Changed(c, SubmitFailed(c, p, why), p) /\ IsFailed(c, SubmitFailed(c, p, why), p, why)
<1>1. c \in Campaigns /\ Range(c.order) = DOMAIN c.leaf
  BY DEF WellFormed
<1>2. p \in Paths /\ c.leaf[p] \in Leaf /\ c.leaf[p].sim \in {NoSim, SpecAt[p].sim}
  BY <1>1, WalkLeaves DEF WellFormed
<1>3. PICK l \in Leaf : l = c.leaf[p]
  BY <1>2
<1>4. PICK m : m = [l EXCEPT !.status = "failed", !.why = why]
  OBVIOUS
<1>5. "failed" \in Statuses /\ "failed" \in Ended /\ why \in Whys
  BY DEF Statuses, Ended, Whys
<1>6. m \in Leaf
  BY <1>4, <1>5 DEF Leaf
<1>7. /\ m.sim = l.sim /\ m.approved = l.approved /\ m.status = "failed" /\ m.run = l.run
      /\ m.estCore = l.estCore /\ m.reused = l.reused /\ m.actCore = l.actCore /\ m.why = why
  BY <1>4 DEF Leaf
<1>8. PICK b : b = Append(c.callbacks, Callback(p, "failed", why))
  OBVIOUS
<1>9. b \in Callbacks /\ c.usage \in Usage
  BY <1>1, <1>2, <1>5, <1>8, TellType DEF Campaigns
<1>10. PICK e : e = [c EXCEPT !.leaf[p].status = "failed", !.leaf[p].why = why]
  OBVIOUS
<1>11. e = [c EXCEPT !.leaf[p] = m] /\ e.leaf[p].status = "failed"
  BY <1>1, <1>2, <1>3, <1>4, <1>7, <1>10 DEF Campaigns
<1>12. SubmitFailed(c, p, why) = [e EXCEPT !.callbacks = b]
  BY <1>1, <1>8, <1>10, <1>11 DEF SubmitFailed, Tell, Campaigns
<1>13. PICK d : d = SubmitFailed(c, p, why) /\ Sets(c, d, p, m, c.usage, b)
  BY <1>1, <1>11, <1>12 DEF Campaigns, Sets
<1>14. Changed(c, d, p) /\ d.leaf[p] = m /\ d.usage = c.usage /\ d.callbacks = b
  BY <1>2, <1>3, <1>6, <1>7, <1>9, <1>13, ChangedIs
<1> QED
  BY <1>3, <1>7, <1>8, <1>13, <1>14 DEF IsFailed, CostsNothing

\* A deferred submission waits, or fails its leaf when the window has passed.
LEMMA DeferredIs ==
  ASSUME NEW c, WellFormed(c), NEW p \in DOMAIN c.leaf, NEW out
  PROVE  LET d == Deferred(c, p, out)
         IN /\ Changed(c, d, p) /\ d.leaf[p].deferred
            /\ \/ IsDeferred(c, d, p)
               \/ IsFailed(c, d, p, "outcome_unknown")
                  /\ ~((IF c.leaf[p].deferred THEN waited[p] ELSE 0) < Window)
<1> DEFINE elapsed == IF c.leaf[p].deferred THEN waited[p] ELSE 0
<1>1. c \in Campaigns /\ Range(c.order) = DOMAIN c.leaf
  BY DEF WellFormed
<1>2. p \in Paths /\ c.leaf[p] \in Leaf /\ c.leaf[p].sim \in {NoSim, SpecAt[p].sim} /\ SpecAt[p].sim \in Sims
  BY <1>1, WalkLeaves, Names DEF WellFormed
<1>3. PICK l \in Leaf : l = c.leaf[p]
  BY <1>2
<1>4. PICK s \in {NoSim, SpecAt[p].sim} : s = IF out = "unknown" /\ l.sim = NoSim THEN SpecAt[p].sim ELSE l.sim
  BY <1>2, <1>3
<1>5. PICK m : m = [l EXCEPT !.deferred = TRUE, !.why = "outcome_unknown", !.sim = s]
  OBVIOUS
<1>6. "failed" \in Statuses /\ "failed" \in Ended /\ "outcome_unknown" \in Whys
  BY DEF Statuses, Ended, Whys
<1>7. m \in Leaf
  BY <1>2, <1>4, <1>5, <1>6 DEF Leaf
<1>8. /\ m.sim = s /\ m.approved = l.approved /\ m.status = l.status /\ m.run = l.run
      /\ m.estCore = l.estCore /\ m.reused = l.reused /\ m.actCore = l.actCore /\ m.deferred
      /\ m.why = "outcome_unknown"
  BY <1>5 DEF Leaf
<1>9. c.callbacks \in Callbacks /\ c.usage \in Usage
  BY <1>1 DEF Campaigns
<1>10. PICK e : e = [c EXCEPT !.leaf[p] = [c.leaf[p] EXCEPT !.deferred = TRUE, !.why = "outcome_unknown",
             !.sim = IF out = "unknown" /\ c.leaf[p].sim = NoSim THEN SpecAt[p].sim ELSE c.leaf[p].sim]]
  OBVIOUS
<1>11. e = [c EXCEPT !.leaf[p] = m]
  <2>1. PICK k : k = [c.leaf[p] EXCEPT !.deferred = TRUE, !.why = "outcome_unknown",
             !.sim = IF out = "unknown" /\ c.leaf[p].sim = NoSim THEN SpecAt[p].sim ELSE c.leaf[p].sim]
    OBVIOUS
  <2>2. k = m
    BY <1>3, <1>4, <1>5, <2>1 DEF Leaf
  <2>3. e = [c EXCEPT !.leaf[p] = k]
    BY <1>10, <2>1
  <2> QED
    BY <2>2, <2>3
<1>12. Deferred(c, p, out) = IF elapsed < Window THEN e
                             ELSE Tell([e EXCEPT !.leaf[p].status = "failed"], p, "outcome_unknown")
  BY <1>10 DEF Deferred
<1>13. CASE elapsed < Window
  <2>1. PICK d : d = Deferred(c, p, out) /\ Sets(c, d, p, m, c.usage, c.callbacks)
    <3>1. Deferred(c, p, out) = e
      <4> HIDE DEF elapsed
      <4> QED
        BY <1>12, <1>13
    <3> QED
      BY <3>1, <1>1, <1>11 DEF Sets, Campaigns
  <2>2. Changed(c, d, p) /\ d.leaf[p] = m /\ d.usage = c.usage /\ d.callbacks = c.callbacks
    BY <1>3, <1>4, <1>7, <1>8, <1>9, <2>1, ChangedIs
  <2> QED
    BY <1>3, <1>8, <2>1, <2>2 DEF IsDeferred, CostsNothing
<1>14. CASE ~(elapsed < Window)
  <2>1. PICK n : n = [m EXCEPT !.status = "failed"]
    OBVIOUS
  <2>2. n \in Leaf
    BY <1>6, <1>7, <2>1 DEF Leaf
  <2>3. /\ n.sim = s /\ n.approved = l.approved /\ n.status = "failed" /\ n.run = l.run
        /\ n.estCore = l.estCore /\ n.reused = l.reused /\ n.actCore = l.actCore /\ n.deferred
        /\ n.why = "outcome_unknown"
    BY <1>7, <1>8, <2>1 DEF Leaf
  <2>4. PICK b : b = Append(c.callbacks, Callback(p, "failed", "outcome_unknown"))
    OBVIOUS
  <2>5. b \in Callbacks
    BY <1>2, <1>6, <1>9, <2>4, TellType
  <2>6. PICK g : g = [e EXCEPT !.leaf[p].status = "failed"]
    OBVIOUS
  <2>7. g = [c EXCEPT !.leaf[p] = n] /\ g.leaf[p].status = "failed"
    BY <1>1, <1>2, <1>3, <1>11, <2>1, <2>3, <2>6 DEF Campaigns
  <2>8. Deferred(c, p, out) = [g EXCEPT !.callbacks = b]
    <3>1. Deferred(c, p, out) = Tell(g, p, "outcome_unknown")
      <4> HIDE DEF elapsed
      <4> QED
        BY <1>12, <1>14, <2>6
    <3> QED
      BY <3>1, <1>1, <2>4, <2>7 DEF Tell, Campaigns
  <2>9. PICK d : d = Deferred(c, p, out) /\ Sets(c, d, p, n, c.usage, b)
    <3>1. [g EXCEPT !.callbacks = b] = [c EXCEPT !.leaf[p] = n, !.usage = c.usage, !.callbacks = b]
      BY <1>1, <2>7 DEF Campaigns
    <3> QED
      BY <2>8, <3>1 DEF Sets
  <2>10. Changed(c, d, p) /\ d.leaf[p] = n /\ d.usage = c.usage /\ d.callbacks = b
    <3>1. n.sim \in {NoSim, SpecAt[p].sim} /\ n.approved = c.leaf[p].approved
      BY <1>3, <1>4, <2>3
    <3> HIDE DEF elapsed
    <3> QED
      BY <1>9, <2>2, <2>5, <2>9, <3>1, ChangedIs
  <2> QED
    BY <1>3, <1>14, <2>3, <2>4, <2>9, <2>10 DEF IsFailed, CostsNothing
<1> HIDE DEF elapsed
<1> QED
  BY <1>13, <1>14

Answers == Outcomes \cup {"lost", "error"}

\* The four ends of a submission.
LEMMA SubmitIs ==
  ASSUME NEW c, WellFormed(c), NEW p \in DOMAIN c.leaf, NEW out \in Answers
  PROVE  LET d == SubmitOne(c, p, out)
         IN /\ Changed(c, d, p)
            /\ \/ out = "accepted" /\ IsAccepted(c, d, p)
               \/ out \in {"refused", "error"} /\ IsFailed(c, d, p, out)
               \/ /\ out \in {"lost", "unknown"} /\ d.leaf[p].deferred
                  /\ \/ IsDeferred(c, d, p)
                     \/ IsFailed(c, d, p, "outcome_unknown")
                        /\ ~((IF c.leaf[p].deferred THEN waited[p] ELSE 0) < Window)
<1>1. CASE out = "accepted"
  <2>1. SubmitOne(c, p, out) = Accepted(c, p)
    BY <1>1 DEF SubmitOne, ClassifySubmit
  <2> QED
    BY <1>1, <2>1, AcceptedIs
<1>2. CASE out \in {"refused", "error"}
  <2>1. SubmitOne(c, p, out) = SubmitFailed(c, p, out)
    BY <1>2 DEF SubmitOne, ClassifySubmit
  <2> QED
    BY <1>2, <2>1, SubmitFailedIs
<1>3. CASE out \in {"lost", "unknown"}
  <2>1. SubmitOne(c, p, out) = Deferred(c, p, out)
    BY <1>3 DEF SubmitOne, ClassifySubmit
  <2> QED
    BY <1>3, <2>1, DeferredIs
<1> QED
  BY <1>1, <1>2, <1>3 DEF Answers, Outcomes

\* The next submission is the first step that submits and that nothing blocks; without one
\* it is past the last step.
LEMMA NextIs ==
  ASSUME op.steps \in Seq(Steps)
  PROVE  /\ NextSubmission \in 1 .. Len(op.steps) + 1
         /\ NextSubmission <= Len(op.steps) => Submittable(NextSubmission)
<1> DEFINE N == Len(op.steps)
           S == {i \in 1 .. N + 1 : i <= N => Submittable(i)}
           T == {i \in Nat : i \in S}
<1>1. N \in Nat
  OBVIOUS
<1> HIDE DEF N
<1>2. N + 1 \in S /\ S \subseteq Nat
  BY <1>1
<1>3. PICK m \in S : \A n \in S : m <= n
  <2> HIDE DEF S
  <2> QED
    BY <1>2, Least
<1>4. \A j \in 1 .. m - 1 : ~Submittable(j)
  <2>1. ASSUME NEW j \in 1 .. m - 1, Submittable(j)
        PROVE  FALSE
    <3>1. j \in S /\ j < m /\ m \in Nat
      BY <1>1, <2>1
    <3> QED
      BY <1>3, <3>1
  <2> QED
    BY <2>1
<1>5. m \in 1 .. N + 1 /\ (m <= N => Submittable(m)) /\ \A j \in 1 .. m - 1 : ~Submittable(j)
  BY <1>3, <1>4
<1> HIDE DEF S, T
<1>6. \E i \in 1 .. N + 1 : (i <= N => Submittable(i)) /\ \A j \in 1 .. i - 1 : ~Submittable(j)
  BY <1>5
<1> QED
  BY <1>6 DEF NextSubmission, N

\* s is a part of the steps of the tick, after the first ones.
Part(s, first, length) ==
    /\ s \in Seq(Steps) /\ Len(s) = length
    /\ \A i \in 1 .. length : i + first \in 1 .. Len(op.steps) /\ s[i] = op.steps[i + first]

\* The steps before the next submission, and those after it, are steps of the tick.
LEMMA PartsOfSteps ==
  ASSUME op.steps \in Seq(Steps)
  PROVE  /\ Part(Passed, 0, NextSubmission - 1)
         /\ NextSubmission <= Len(op.steps) =>
              Part(SubSeq(op.steps, NextSubmission + 1, Len(op.steps)), NextSubmission,
                   Len(op.steps) - NextSubmission)
<1>1. PICK N \in Nat : N = Len(op.steps)
  OBVIOUS
<1>2. PICK n \in 1 .. N + 1 : n = NextSubmission
  BY <1>1, NextIs
<1>3. PICK s \in Seq(Steps) : s = op.steps
  OBVIOUS
<1>4. SubSeq(s, 1, n - 1) \in Seq(Steps) /\ Len(SubSeq(s, 1, n - 1)) = n - 1
      /\ \A i \in 1 .. n - 1 : SubSeq(s, 1, n - 1)[i] = s[i]
  BY <1>1, <1>2, <1>3
<1>5. ASSUME n <= N
      PROVE  Part(SubSeq(op.steps, n + 1, N), n, N - n)
  <2>1. SubSeq(s, n + 1, N) \in Seq(Steps) /\ Len(SubSeq(s, n + 1, N)) = N - n
        /\ \A i \in 1 .. N - n : SubSeq(s, n + 1, N)[i] = s[i + n]
    BY <1>1, <1>2, <1>3, <1>5
  <2>2. \A i \in 1 .. N - n : i + n \in 1 .. N
    OBVIOUS
  <2>3. Part(SubSeq(s, n + 1, N), n, N - n)
    BY <1>1, <1>3, <2>1, <2>2 DEF Part
  <2> QED
    BY <1>1, <1>2, <1>3, <2>3
<1>6. Part(Passed, 0, n - 1)
  <2>1. PICK q : q = SubSeq(s, 1, n - 1)
    OBVIOUS
  <2>2. q \in Seq(Steps) /\ Len(q) = n - 1 /\ \A i \in 1 .. n - 1 : q[i] = s[i]
    BY <1>4, <2>1
  <2>3. \A i \in 1 .. n - 1 : i + 0 = i /\ i \in 1 .. N
    OBVIOUS
  <2>4. Part(q, 0, n - 1)
    BY <1>1, <1>3, <2>2, <2>3 DEF Part
  <2> QED
    BY <1>2, <1>3, <2>1, <2>4 DEF Passed
<1> QED
  BY <1>1, <1>2, <1>5, <1>6

-----------------------------------------------------------------------------
(* The reuse registry. *)

\* A registry is a function to records.
LEMMA RegistryIs ==
  ASSUME NEW reg, DOMAIN reg = ReuseKeys, reg = [k \in ReuseKeys |-> reg[k]],
         \A k \in ReuseKeys : RecordOK(k, reg[k])
  PROVE  RegistryOK(reg)
<1>1. \A k \in ReuseKeys : reg[k] \in Records
  BY DEF RecordOK
<1> QED
  BY <1>1 DEF RegistryOK

\* promote makes a pending record of one of the runs a done record.
LEMMA PromoteIs ==
  ASSUME NEW reg, RegistryOK(reg), NEW runs, runs \subseteq Runs
  PROVE  /\ RegistryOK(Reuse!Promote(reg, runs))
         /\ \A k \in ReuseKeys :
              \/ Reuse!Promote(reg, runs)[k] = reg[k]
              \/ \E r \in runs : SimOf[r] = k[1]
<1>1. PICK new : new = Reuse!Promote(reg, runs)
  OBVIOUS
<1>2. DOMAIN reg = ReuseKeys
  BY DEF RegistryOK
<1>3. DOMAIN new = ReuseKeys /\ new = [k \in ReuseKeys |-> new[k]]
  BY <1>1, <1>2 DEF Reuse!Promote
<1>4. ASSUME NEW k \in ReuseKeys
      PROVE  RecordOK(k, new[k]) /\ (new[k] = reg[k] \/ \E r \in runs : SimOf[r] = k[1])
  <2>1. PICK rec : rec = reg[k] /\ RecordOK(k, rec)
    BY DEF RegistryOK
  <2>2. PICK hits : hits = Reuse!Candidates(rec) \cap runs
    OBVIOUS
  <2>3. new[k] = IF rec.st = "pending" /\ hits # {} THEN Reuse!Done(rec.sim, CHOOSE r \in hits : TRUE)
                 ELSE rec
    BY <1>1, <1>2, <2>1, <2>2 DEF Reuse!Promote
  <2>4. CASE rec.st = "pending" /\ hits # {}
    <3>1. PICK r : r = CHOOSE x \in hits : TRUE
      OBVIOUS
    <3>2. r \in hits
      BY <2>4, <3>1
    <3>3. r \in runs /\ r \in Runs /\ SimOf[r] = k[1] /\ rec.sim = k[1]
      BY <2>1, <2>2, <2>4, <3>2 DEF RecordOK, Reuse!Candidates
    <3>4. new[k] = [st |-> "done", sim |-> k[1], run |-> r, waits |-> {}]
      BY <2>3, <2>4, <3>1, <3>3 DEF Reuse!Done
    <3>5. k[1] \in Sims
      BY Names
    <3>6. RecordOK(k, new[k])
      <4>1. PICK x : x = [st |-> "done", sim |-> k[1], run |-> r, waits |-> {}]
        OBVIOUS
      <4>2. x \in Records
        BY <3>3, <3>5, <4>1 DEF Records
      <4>3. x.st = "done" /\ x.sim = k[1] /\ x.run = r
        BY <4>1
      <4>4. RecordOK(k, x)
        BY <3>3, <4>2, <4>3 DEF RecordOK
      <4> QED
        BY <3>4, <4>1, <4>4
    <3> QED
      BY <3>3, <3>6
  <2>5. CASE ~(rec.st = "pending" /\ hits # {})
    BY <2>1, <2>3, <2>5
  <2> QED
    BY <2>4, <2>5
<1> QED
  BY <1>1, <1>3, <1>4, RegistryIs

\* record_direct keeps the other records, and its own but for the run it adds; only a
\* done record makes one done.
LEMMA RecordDirectIs ==
  ASSUME NEW reg, RegistryOK(reg), NEW d \in Direct, NEW rec,
         rec \in {Reuse!Done(DirectSim[d], d), Reuse!Pending(DirectSim[d], d)}
  PROVE  LET new == Reuse!RecordDirect(reg, DirectKey(d), rec)
         IN /\ RegistryOK(new)
            /\ \A k \in ReuseKeys : new[k].st = "done" =>
                 \/ reg[k].st = "done" /\ new[k] = reg[k]
                 \/ k = DirectKey(d) /\ rec.st = "done"
<1> DEFINE key == DirectKey(d)
<1>1. key \in ReuseKeys /\ key[1] = DirectSim[d] /\ d \in Runs /\ SimOf[d] = DirectSim[d]
      /\ DirectSim[d] \in Sims
  BY Names
<1>2. /\ rec.sim = DirectSim[d] /\ rec.run = d /\ rec.waits = {} /\ rec.st \in {"done", "pending"}
      /\ RecordOK(key, rec)
  <2>1. CASE rec = Reuse!Done(DirectSim[d], d)
    BY <1>1, <2>1 DEF Reuse!Done, RecordOK, Records
  <2>2. CASE rec = Reuse!Pending(DirectSim[d], d)
    BY <1>1, <2>2 DEF Reuse!Pending, RecordOK, Records
  <2> QED
    BY <2>1, <2>2
<1>3. PICK old : old = reg[key] /\ RecordOK(key, old)
  BY <1>1 DEF RegistryOK
<1>4. PICK new : new = Reuse!RecordDirect(reg, key, rec)
  OBVIOUS
<1> HIDE DEF key
<1>5. PICK x : /\ new = [reg EXCEPT ![key] = x] /\ RecordOK(key, x)
               /\ x.st = "done" => x = old \/ rec.st = "done"
  <2>1. CASE old.st = "none"
    <3>1. new = [reg EXCEPT ![key] = rec]
      BY <1>3, <1>4, <2>1 DEF Reuse!RecordDirect, Reuse!Remember
    <3> QED
      BY <1>2, <3>1
  <2>2. CASE old.st = "done"
    <3>1. new = reg
      BY <1>3, <1>4, <2>2 DEF Reuse!RecordDirect
    <3>2. new = [reg EXCEPT ![key] = old]
      BY <1>1, <1>3, <3>1 DEF RegistryOK
    <3> QED
      BY <1>3, <3>2
  <2>3. CASE old.st = "pending"
    <3>1. old.sim = DirectSim[d] /\ old.run \in Runs /\ old.waits \subseteq Runs
          /\ \A r \in old.waits \cup {old.run} : SimOf[r] = key[1]
      BY <1>1, <1>3, <2>3 DEF RecordOK, Records
    <3>2. CASE rec.st = "done"
      <4>1. PICK x : x = [old EXCEPT !.st = "done", !.run = rec.run, !.waits = {}]
        OBVIOUS
      <4>2. new = [reg EXCEPT ![key] = x]
        BY <1>3, <1>4, <2>3, <3>2, <4>1 DEF Reuse!RecordDirect, Reuse!Remember
      <4>3. x \in Records /\ x.st = "done" /\ x.sim = DirectSim[d] /\ x.run = d
        BY <1>1, <1>2, <1>3, <3>1, <4>1 DEF RecordOK, Records
      <4>4. RecordOK(key, x)
        BY <1>1, <4>3 DEF RecordOK
      <4> QED
        BY <3>2, <4>2, <4>4
    <3>3. CASE rec.st = "pending"
      <4>1. PICK w : w = old.waits \cup {old.run, rec.run}
        OBVIOUS
      <4>2. PICK x : x = [old EXCEPT !.waits = w]
        OBVIOUS
      <4>3. new = [reg EXCEPT ![key] = x]
        BY <1>3, <1>4, <2>3, <3>3, <4>1, <4>2 DEF Reuse!RecordDirect, Reuse!Remember
      <4>4. x \in Records /\ x.st = "pending" /\ x.sim = DirectSim[d] /\ x.run = old.run /\ x.waits = w
        BY <1>1, <1>2, <1>3, <2>3, <3>1, <4>1, <4>2 DEF RecordOK, Records
      <4>5. \A r \in w \cup {old.run} : SimOf[r] = key[1]
        BY <1>1, <1>2, <3>1, <4>1
      <4>6. RecordOK(key, x)
        BY <1>1, <3>1, <4>4, <4>5 DEF RecordOK
      <4> QED
        BY <4>3, <4>4, <4>6
    <3> QED
      BY <1>2, <3>2, <3>3
  <2> QED
    BY <1>3, <2>1, <2>2, <2>3 DEF RecordOK, Records
<1>6. /\ new = [k \in ReuseKeys |-> new[k]] /\ DOMAIN new = ReuseKeys /\ new[key] = x
      /\ \A k \in ReuseKeys : k # key => new[k] = reg[k]
  BY <1>1, <1>5 DEF RegistryOK
<1>7. \A k \in ReuseKeys : RecordOK(k, new[k])
  BY <1>5, <1>6 DEF RegistryOK
<1>8. RegistryOK(new)
  BY <1>6, <1>7, RegistryIs
<1>9. \A k \in ReuseKeys : new[k].st = "done" =>
        (reg[k].st = "done" /\ new[k] = reg[k]) \/ (k = key /\ rec.st = "done")
  BY <1>3, <1>5, <1>6
<1> QED
  BY <1>4, <1>8, <1>9 DEF key

\* The last leaf of the walk with a sim_id carries it.
LEMMA LastPathIs ==
  ASSUME NEW c, WellFormed(c), NEW s, \E p \in DOMAIN c.leaf : c.leaf[p].sim = s
  PROVE  LastPath(c, s) \in DOMAIN c.leaf /\ c.leaf[LastPath(c, s)].sim = s
<1> DEFINE at == {i \in DOMAIN c.order : c.leaf[c.order[i]].sim = s}
<1>1. PICK n \in Nat : n = Len(c.order) /\ DOMAIN c.order = 1 .. n
  BY WalkLeaves DEF WellFormed
<1>2. \A i \in 1 .. n : c.order[i] \in DOMAIN c.leaf
  BY <1>1, WalkLeaves DEF WellFormed
<1>3. at \subseteq 1 .. n /\ at # {}
  <2>1. PICK p \in DOMAIN c.leaf : c.leaf[p].sim = s
    OBVIOUS
  <2>2. PICK i \in 1 .. n : c.order[i] = p
    BY <1>1, WalkLeaves DEF WellFormed
  <2> QED
    BY <1>1, <2>1, <2>2
<1>4. PICK i : i = CHOOSE x \in at : \A j \in at : j <= x
  OBVIOUS
<1>5. i \in at
  <2>1. \E x \in at : \A j \in at : j <= x
    <3> HIDE DEF at
    <3> QED
      BY <1>3, Greatest
  <2> HIDE DEF at
  <2> QED
    BY <1>4, <2>1
<1>6. LastPath(c, s) = c.order[i]
  BY <1>4 DEF LastPath
<1> QED
  BY <1>1, <1>2, <1>5, <1>6

\* _record_reuse records the done leaves under their own runs.
LEMMA RecordReuseIs ==
  ASSUME NEW c, WellFormed(c), RegistryOK(reuse)
  PROVE  /\ RegistryOK(RecordReuse(c))
         /\ \A k \in ReuseKeys : \/ RecordReuse(c)[k] = reuse[k]
                                 \/ op.observed[k[1]] = "results_ready"
<1>1. PICK new : new = RecordReuse(c)
  OBVIOUS
<1>2. DOMAIN new = ReuseKeys /\ new = [k \in ReuseKeys |-> new[k]]
  BY <1>1 DEF RecordReuse
<1>3. ASSUME NEW k \in ReuseKeys
      PROVE  RecordOK(k, new[k]) /\ (new[k] = reuse[k] \/ op.observed[k[1]] = "results_ready")
  <2>1. PICK hits : hits = {s \in Sims : Offerable(c, s) /\ ReuseKey(LastPath(c, s)) = k}
    OBVIOUS
  <2>2. new[k] = IF hits = {} THEN reuse[k]
                 ELSE Reuse!Done(k[1], LastPath(c, CHOOSE s \in hits : TRUE))
    BY <1>1, <2>1 DEF RecordReuse
  <2>3. CASE hits = {}
    BY <2>2, <2>3 DEF RegistryOK
  <2>4. CASE hits # {}
    <3>1. PICK s : s = CHOOSE x \in hits : TRUE
      OBVIOUS
    <3>2. s \in hits
      BY <2>4, <3>1
    <3>3. s \in Sims /\ Offerable(c, s) /\ ReuseKey(LastPath(c, s)) = k
      BY <2>1, <3>2
    <3>4. PICK p : p = LastPath(c, s)
      OBVIOUS
    <3>5. p \in DOMAIN c.leaf /\ c.leaf[p].sim = s
      BY <3>3, <3>4, LastPathIs DEF Offerable
    <3>6. p \in Paths /\ c.leaf[p].sim \in {NoSim, SpecAt[p].sim}
      BY <3>5, WalkLeaves DEF WellFormed
    <3>7. s = SpecAt[p].sim /\ p \in Runs /\ SimOf[p] = s /\ k[1] = s
      BY <3>3, <3>4, <3>5, <3>6, Names
    <3>8. new[k] = [st |-> "done", sim |-> k[1], run |-> p, waits |-> {}]
      BY <2>2, <2>4, <3>1, <3>4 DEF Reuse!Done
    <3>9. RecordOK(k, new[k])
      <4>1. PICK x : x = [st |-> "done", sim |-> k[1], run |-> p, waits |-> {}]
        OBVIOUS
      <4>2. x \in Records
        BY <3>3, <3>7, <4>1 DEF Records
      <4>3. x.st = "done" /\ x.sim = k[1] /\ x.run = p
        BY <4>1
      <4>4. RecordOK(k, x)
        BY <3>7, <4>2, <4>3 DEF RecordOK
      <4> QED
        BY <3>8, <4>1, <4>4
    <3>10. op.observed[k[1]] = "results_ready"
      BY <3>3, <3>7 DEF Offerable
    <3> QED
      BY <3>9, <3>10
  <2> QED
    BY <2>3, <2>4
<1> QED
  BY <1>1, <1>2, <1>3, RegistryIs

-----------------------------------------------------------------------------
(* The structure of the files, of the operation in progress and of the cluster. *)

Befores == UNION {[S -> Statuses] : S \in SUBSET Paths}
Reports == [DOMAIN NoResult -> SUBSET Paths]
Ticks == [kind : {"tick"}, c : Campaigns, steps : Seq(Steps), before : Befores,
          observed : [Sims -> States], result : Reports, inFlight : Nat, await : Paths \cup {NoRun},
          raises : BOOLEAN]
Stops == [kind : {"stop"}, left : SUBSET Sims, asked : SUBSET Sims]

\* A tick in progress: what it has in memory is the campaign on disk but for its leaves;
\* its steps, one for each of some leaves, still hold; the leaf it awaits is planned and
\* has no step left.
TickOK ==
    op.kind = "tick" =>
        /\ op \in Ticks /\ disk # NoCampaign /\ WellFormed(op.c) /\ Kin(disk, op.c)
        /\ OneStepEach(op.steps) /\ \A i \in 1 .. Len(op.steps) : PlanHolds(op.c, op.steps[i])
        /\ op.await # NoRun =>
              /\ op.await \in DOMAIN op.c.leaf /\ op.c.leaf[op.await].status = "planned"
              /\ \A i \in 1 .. Len(op.steps) : op.steps[i].path # op.await

\* A stop in progress asks for the jobs of all leaves that may have a live one.
StopOK ==
    op.kind = "stop" =>
        /\ op \in Stops /\ disk # NoCampaign
        /\ op.asked = {disk.leaf[p].sim : p \in {q \in DOMAIN disk.leaf : MayBeLive(disk.leaf[q])}}

DiskOK == disk # NoCampaign => WellFormed(disk)
OpOK == /\ op = Idle \/ op.kind \in {"tick", "stop"}
        /\ TickOK /\ StopOK
Structure == WorldOK /\ DiskOK /\ OpOK

\* A campaign is not the absence of one.
LEMMA SomeCampaign ==
  ASSUME NEW c, WellFormed(c)
  PROVE  c # NoCampaign
<1>1. c.state \in Lifecycle
  BY DEF WellFormed, Campaigns
<1>2. NoCampaign.state = "none"
  BY DEF NoCampaign
<1>3. "none" \notin Lifecycle
  BY DEF Lifecycle
<1> QED
  BY <1>1, <1>2, <1>3

\* The instance explored.
LEMMA LimitIs ==
  ASSUME WorldOK
  PROVE  /\ limit.seed \in Seq(Paths) /\ IsInjective(limit.seed) /\ limit.extra \subseteq Paths
         /\ "jobs" \in DOMAIN limit.budget => limit.budget.jobs \in Nat
  BY AgendaAssumption DEF WorldOK

-----------------------------------------------------------------------------
(* Every step keeps the structure.  First the steps of the environment, which leave the
campaign and the operation alone. *)

\* The campaign file and the operation have their structure as long as they are left alone.
LEMMA Untouched ==
  ASSUME Structure, WorldOK', UNCHANGED <<disk, op>>
  PROVE  Structure'
<1>1. DiskOK'
  BY DEF Structure, DiskOK
<1>2. TickOK'
  BY DEF Structure, OpOK, TickOK
<1>3. StopOK'
  BY DEF Structure, OpOK, StopOK, MayBeLive
<1> QED
  BY <1>1, <1>2, <1>3 DEF Structure, OpOK

\* An ack that is sent is an ack.
LEMMA SendIs ==
  ASSUME WorldOK, NEW r \in Runs, NEW out \in Outcomes, NEW st \in States, Send(Ack(r, out, st))
  PROVE  acks' \subseteq Acks
<1>1. Ack(r, out, st) \in Acks
  BY DEF Ack, Acks
<1> QED
  BY <1>1 DEF Send, WorldOK

\* The simclient's answers keep the structure.
LEMMA ReceiveKeeps ==
  ASSUME Structure, NEW r \in Runs, Receive(r)
  PROVE  Structure'
<1>1. /\ "accepted" \in Outcomes /\ "refused" \in Outcomes /\ "unknown" \in Outcomes
      /\ "accepted" \in States /\ "failed" \in States /\ "" \in States /\ "workflow_finished" \in States
  BY DEF Outcomes, States
<1>2. WorldOK
  BY DEF Structure
<1>3. acks' \subseteq Acks
  <2>1. CASE cmd[r] = "none" /\ Send(Ack(r, "accepted", "accepted"))
    BY <1>1, <1>2, <2>1, SendIs
  <2>2. CASE cmd[r] = "none" /\ Send(Ack(r, "refused", "failed"))
    BY <1>1, <1>2, <2>2, SendIs
  <2>3. CASE cmd[r] # "none" /\ Send(Replay(r))
    <3>1. cmd[r] \in {"pending", "done", "refused"}
      BY <1>2, <2>3 DEF WorldOK, CmdStates
    <3>2. \E out \in Outcomes, st \in States : Replay(r) = Ack(r, out, st)
      <4>1. CASE cmd[r] = "pending"
        BY <1>1, <4>1 DEF Replay
      <4>2. CASE cmd[r] = "done"
        BY <1>1, <4>2 DEF Replay
      <4>3. CASE cmd[r] = "refused"
        BY <1>1, <4>3 DEF Replay
      <4> QED
        BY <3>1, <4>1, <4>2, <4>3
    <3>3. PICK out \in Outcomes, st \in States : Replay(r) = Ack(r, out, st)
      BY <3>2
    <3> QED
      BY <1>2, <2>3, <3>3, SendIs
  <2> QED
    BY <2>1, <2>2, <2>3 DEF Receive
<1>4. cmd' \in [Runs -> CmdStates] /\ job' \in [Runs -> JobStates] /\ wire' \subseteq Runs
  BY <1>2 DEF Receive, WorldOK, CmdStates, JobStates
<1>5. WorldOK'
  BY <1>2, <1>3, <1>4 DEF Receive, WorldOK, fileVars, history
<1> QED
  BY <1>5, Untouched DEF Receive, fileVars

\* The job's life keeps the structure.
LEMMA ProgressKeeps ==
  ASSUME Structure, NEW r \in Runs, Progress(r) \/ ClientDies(r)
  PROVE  Structure'
<1>1. cmd' \in [Runs -> CmdStates] /\ job' \in [Runs -> JobStates]
  <2>1. cmd \in [Runs -> CmdStates] /\ job \in [Runs -> JobStates]
    BY DEF Structure, WorldOK
  <2>2. CASE ClientDies(r)
    BY <2>1, <2>2 DEF ClientDies, JobStates
  <2>3. CASE Progress(r)
    <3>1. PICK next \in {"running", "failed", "finished", "ready"} :
            /\ job' = [job EXCEPT ![r] = next]
            /\ cmd' = IF job[r] # "building" \/ cmd[r] # "pending" THEN cmd
                      ELSE [cmd EXCEPT ![r] = IF next = "running" THEN "done" ELSE "refused"]
      <4>1. PICK next \in CASE job[r] = "building" -> {"running", "failed"}
                     [] job[r] = "running" -> {"finished", "failed"}
                     [] job[r] = "finished" -> {"ready"}
                     [] OTHER -> {} :
            /\ job' = [job EXCEPT ![r] = next]
            /\ cmd' = IF job[r] # "building" \/ cmd[r] # "pending" THEN cmd
                      ELSE [cmd EXCEPT ![r] = IF next = "running" THEN "done" ELSE "refused"]
        BY <2>3 DEF Progress
      <4>2. next \in {"running", "failed", "finished", "ready"}
        OBVIOUS
      <4> QED
        BY <4>1, <4>2
    <3>2. next \in JobStates
      BY DEF JobStates
    <3>3. "done" \in CmdStates /\ "refused" \in CmdStates
      BY DEF CmdStates
    <3> QED
      BY <2>1, <3>1, <3>2, <3>3
  <2> QED
    BY <2>2, <2>3
<1>2. WorldOK'
  BY <1>1 DEF Progress, ClientDies, Structure, WorldOK, fileVars, history
<1> QED
  BY <1>2, Untouched DEF Progress, ClientDies, fileVars

\* A projected event keeps the structure.
LEMMA ReportKeeps ==
  ASSUME Structure, NEW r \in Runs, Report(r)
  PROVE  Structure'
<1>1. WorldOK
  BY DEF Structure
<1>2. /\ job[r] \in JobStates /\ SimOf[r] \in Sims /\ job[r] \in DOMAIN StateOf
  BY <1>1, Names DEF WorldOK, Report
<1>3. StateOf[job[r]] \in States /\ StateOf[job[r]] # ""
  <2>1. \A j \in DOMAIN StateOf : StateOf[j] \in {"job_running", "job_finished", "results_ready",
                                                  "job_failed", "cancelled"}
    BY DEF StateOf
  <2>2. \A x \in {"job_running", "job_finished", "results_ready", "job_failed", "cancelled"} :
          x \in States /\ x # ""
    BY DEF States
  <2> QED
    BY <1>2, <2>1, <2>2
<1>4. PICK w : w = [run |-> r, st |-> StateOf[job[r]]]
  OBVIOUS
<1>5. w \in Shows /\ w.run = r
  BY <1>3, <1>4 DEF Shows
<1>6. registry' = [registry EXCEPT ![SimOf[r]] = w]
  BY <1>4 DEF Report
<1>7. registry' \in [Sims -> Shows] /\ \A s \in Sims : registry'[s].st # "" => registry'[s].run \in Runs
  BY <1>1, <1>2, <1>5, <1>6 DEF WorldOK
<1>8. RegistryOK(reuse') /\ pending' \subseteq Runs
  <2>1. CASE reuse' = Reuse!Promote(reuse, {r}) /\ pending' = pending \ {r}
    <3>1. RegistryOK(Reuse!Promote(reuse, {r}))
      BY <1>1, PromoteIs DEF WorldOK
    <3> QED
      BY <1>1, <2>1, <3>1 DEF WorldOK
  <2> QED
    BY <1>1, <2>1 DEF Report, WorldOK
<1>9. shown' \in [Runs -> JobStates]
  BY <1>1, <1>2 DEF Report, WorldOK
<1>10. WorldOK'
  BY <1>1, <1>7, <1>8, <1>9 DEF Report, WorldOK, history, RegistryOK, RecordOK
<1> QED
  BY <1>10, Untouched DEF Report

\* Time keeps the structure.
LEMMA ElapseKeeps ==
  ASSUME Structure, Elapse
  PROVE  Structure'
<1>1. waited' \in [Paths -> 0 .. Window]
  <2>1. waited \in [Paths -> 0 .. Window] /\ Window \in Nat
    BY AgendaAssumption DEF Structure, WorldOK
  <2> QED
    BY <2>1 DEF Elapse
<1>2. WorldOK'
  BY <1>1 DEF Elapse, Structure, WorldOK, RegistryOK, RecordOK, fileVars, clusterVars, history
<1> QED
  BY <1>2, Untouched DEF Elapse, fileVars

\* The direct submissions keep the structure.
LEMMA DirectKeeps ==
  ASSUME Structure, NEW d \in Direct, DirectSubmit(d) \/ DirectTimeout(d) \/ RememberDirect(d)
  PROVE  Structure'
<1>1. WorldOK /\ d \in Runs
  BY Names DEF Structure
<1>2. CASE DirectSubmit(d) \/ DirectTimeout(d)
  <2>1. WorldOK'
    BY <1>1, <1>2 DEF DirectSubmit, DirectTimeout, WorldOK, RegistryOK, RecordOK, fileVars, clusterVars,
                      history
  <2> QED
    BY <1>2, <2>1, Untouched DEF DirectSubmit, DirectTimeout, fileVars
<1>3. CASE RememberDirect(d)
  <2>1. RegistryOK(reuse') /\ pending' \subseteq Runs
    <3>1. DirectRecord(d) \in {Reuse!Done(DirectSim[d], d), Reuse!Pending(DirectSim[d], d)}
      BY DEF DirectRecord
    <3>2. RegistryOK(Reuse!RecordDirect(reuse, DirectKey(d), DirectRecord(d)))
      BY <1>1, <3>1, RecordDirectIs DEF WorldOK
    <3> QED
      BY <1>1, <1>3, <3>2 DEF RememberDirect, WorldOK
  <2>2. WorldOK'
    BY <1>1, <1>3, <2>1 DEF RememberDirect, WorldOK, RegistryOK, RecordOK, clusterVars, history
  <2> QED
    BY <1>3, <2>2, Untouched DEF RememberDirect
<1> QED
  BY <1>2, <1>3

-----------------------------------------------------------------------------
(* The tools, which find no operation in progress. *)

Words == [state : Lifecycle, approved : SUBSET Paths, added : SUBSET Paths, analysed : SUBSET Paths]

\* What a tool writes is well formed, and there is no operation it could disturb.
LEMMA ToolKeeps ==
  ASSUME Structure, Locked, OnlyFile, said' \in Words, WellFormed(disk')
  PROVE  Structure'
<1>1. WorldOK'
  BY DEF Structure, WorldOK, OnlyFile, clusterVars, Words, RegistryOK, RecordOK
<1>2. op' = Idle /\ op'.kind = "idle"
  BY DEF Locked, OnlyFile, Idle
<1>3. OpOK'
  BY <1>2 DEF OpOK, TickOK, StopOK
<1>4. DiskOK'
  BY DEF DiskOK
<1> QED
  BY <1>1, <1>3, <1>4 DEF Structure

\* What was said of an existing campaign, and the campaign.
LEMMA SaidIs ==
  ASSUME Structure
  PROVE  said \in Words /\ (disk # NoCampaign => WellFormed(disk))
  BY DEF Structure, WorldOK, DiskOK, Words

\* A new campaign is well formed.
LEMMA NewIs ==
  ASSUME NEW order \in Seq(Paths), IsInjective(order)
  PROVE  WellFormed(Campaign(order))
<1>1. NewLeaf \in Leaf
  <2>1. "planned" \in Statuses /\ "" \in Whys /\ Unset \in Costs
    BY DEF Statuses, Whys, Costs
  <2>2. PICK m : m = NewLeaf
    OBVIOUS
  <2> QED
    BY <2>1 DEF NewLeaf, Leaf
<1>2. Range(order) \subseteq Paths
  BY DEF Range
<1>3. PICK f : f = [p \in Range(order) |-> NewLeaf]
  OBVIOUS
<1>4. f \in LeafMaps /\ DOMAIN f = Range(order) /\ \A p \in Range(order) : f[p].sim = NoSim
  <2>1. DOMAIN f = Range(order) /\ f \in [Range(order) -> Leaf]
    BY <1>1, <1>3
  <2>2. \A p \in Range(order) : f[p].sim = NoSim
    BY <1>3 DEF NewLeaf
  <2> QED
    BY <2>1, <2>2, <1>2, LeafMapIs
<1>5. NoUsage \in Usage /\ "running" \in Lifecycle /\ <<>> \in Callbacks
  BY DEF NoUsage, Usage, Lifecycle, Callbacks
<1>6. PICK c : c = [order |-> order, leaf |-> f, usage |-> NoUsage, state |-> "running",
                    callbacks |-> <<>>, analysed |-> {}, concluded |-> FALSE]
  OBVIOUS
<1>7. c \in Campaigns /\ c.order = order /\ c.leaf = f
  BY <1>4, <1>5, <1>6 DEF Campaigns
<1>8. Campaign(order) = c
  BY <1>3, <1>6 DEF Campaign
<1> QED
  BY <1>4, <1>7, <1>8 DEF WellFormed

\* d is c with a new leaf.
Added(c, d, p) ==
    /\ WellFormed(d) /\ d.usage = c.usage /\ d.state = c.state /\ d.callbacks = c.callbacks
    /\ d.analysed = c.analysed /\ DOMAIN d.leaf = DOMAIN c.leaf \cup {p}
    /\ d.leaf[p] = NewLeaf /\ \A q \in DOMAIN c.leaf : d.leaf[q] = c.leaf[q]
    /\ d.order = Append(c.order, p)

\* A campaign with a leaf more is well formed.
LEMMA AddedIs ==
  ASSUME NEW c, WellFormed(c), NEW p \in Paths, p \notin DOMAIN c.leaf
  PROVE  Added(c, [c EXCEPT !.order = Append(@, p),
                            !.leaf = [q \in DOMAIN @ \cup {p} |-> IF q = p THEN NewLeaf ELSE @[q]]], p)
<1>1. c \in Campaigns /\ Range(c.order) = DOMAIN c.leaf /\ IsInjective(c.order)
  BY DEF WellFormed
<1>2. NewLeaf \in Leaf /\ NewLeaf.sim = NoSim
  <2>1. "planned" \in Statuses /\ "" \in Whys /\ Unset \in Costs
    BY DEF Statuses, Whys, Costs
  <2> QED
    BY <2>1 DEF NewLeaf, Leaf
<1>3. PICK o : o = Append(c.order, p)
  OBVIOUS
<1>4. PICK s \in Seq(Paths) : s = c.order
  BY <1>1 DEF Campaigns
<1>5. PICK n \in Nat : n = Len(s)
  OBVIOUS
<1>6. /\ o \in Seq(Paths) /\ Len(o) = n + 1 /\ DOMAIN o = 1 .. n + 1 /\ o[n + 1] = p
      /\ \A i \in 1 .. n : o[i] = s[i]
  BY <1>3, <1>4, <1>5
<1>7. DOMAIN s = 1 .. n /\ \A i \in 1 .. n : s[i] \in DOMAIN c.leaf
  BY <1>1, <1>4, <1>5, WalkLeaves
<1>8. Range(o) = DOMAIN c.leaf \cup {p}
  <2>1. \A q \in DOMAIN c.leaf : \E i \in 1 .. n : s[i] = q
    BY <1>1, <1>4, <1>5, WalkLeaves
  <2>2. ASSUME NEW q \in DOMAIN c.leaf \cup {p}
        PROVE  q \in Range(o)
    <3>1. \E i \in 1 .. n + 1 : o[i] = q
      BY <1>6, <2>1
    <3> QED
      BY <3>1, <1>6 DEF Range
  <2>3. ASSUME NEW q \in Range(o)
        PROVE  q \in DOMAIN c.leaf \cup {p}
    <3>1. PICK i \in 1 .. n + 1 : q = o[i]
      BY <1>6 DEF Range
    <3>2. CASE i = n + 1
      BY <1>6, <3>1, <3>2
    <3>3. CASE i # n + 1
      <4>1. i \in 1 .. n
        BY <3>3
      <4> QED
        BY <4>1, <1>6, <1>7, <3>1
    <3> QED
      BY <3>2, <3>3
  <2> QED
    BY <2>2, <2>3
<1>9. IsInjective(o)
  <2>1. ASSUME NEW i \in 1 .. n + 1, NEW j \in 1 .. n + 1, o[i] = o[j]
        PROVE  i = j
    <3>1. CASE i \in 1 .. n /\ j \in 1 .. n
      <4>1. s[i] = s[j]
        BY <2>1, <3>1, <1>6
      <4> QED
        BY <4>1, <3>1, <1>1, <1>4, <1>7 DEF IsInjective
    <3>2. CASE i = n + 1 /\ j \in 1 .. n
      BY <2>1, <3>2, <1>6, <1>7
    <3>3. CASE j = n + 1 /\ i \in 1 .. n
      BY <2>1, <3>3, <1>6, <1>7
    <3>4. CASE i = n + 1 /\ j = n + 1
      BY <3>4
    <3>5. \A x \in 1 .. n + 1 : x = n + 1 \/ x \in 1 .. n
      OBVIOUS
    <3> QED
      BY <3>1, <3>2, <3>3, <3>4, <3>5
  <2> QED
    BY <2>1, <1>6 DEF IsInjective
<1>10. PICK f : f = [q \in DOMAIN c.leaf \cup {p} |-> IF q = p THEN NewLeaf ELSE c.leaf[q]]
  OBVIOUS
<1>11. /\ DOMAIN f = DOMAIN c.leaf \cup {p} /\ f[p] = NewLeaf
       /\ \A q \in DOMAIN c.leaf : f[q] = c.leaf[q]
  BY <1>10
<1>12. f \in LeafMaps
  <2>1. \A q \in DOMAIN c.leaf : q \in Paths /\ c.leaf[q] \in Leaf
    BY <1>1, WalkLeaves
  <2>2. f \in [DOMAIN c.leaf \cup {p} -> Leaf] /\ DOMAIN c.leaf \cup {p} \subseteq Paths
    BY <2>1, <1>2, <1>10
  <2> QED
    BY <2>2, <1>11, LeafMapIs
<1>13. PICK d : d = [c EXCEPT !.order = o, !.leaf = f]
  OBVIOUS
<1>14. d = [c EXCEPT !.order = Append(@, p),
                     !.leaf = [q \in DOMAIN @ \cup {p} |-> IF q = p THEN NewLeaf ELSE @[q]]]
  BY <1>1, <1>3, <1>10, <1>13 DEF Campaigns
<1>15. /\ d \in Campaigns /\ d.order = o /\ d.leaf = f /\ d.usage = c.usage /\ d.state = c.state
       /\ d.callbacks = c.callbacks /\ d.analysed = c.analysed
  BY <1>1, <1>6, <1>12, <1>13 DEF Campaigns
<1>16. WellFormed(d)
  BY <1>2, <1>8, <1>9, <1>11, <1>15 DEF WellFormed
<1> QED
  BY <1>3, <1>11, <1>14, <1>15, <1>16 DEF Added

\* d is c after the approval of p.
ApprovedAs(c, d, p) ==
    /\ WellFormed(d) /\ d.usage = c.usage /\ d.state = c.state /\ d.callbacks = c.callbacks
    /\ d.analysed = c.analysed /\ DOMAIN d.leaf = DOMAIN c.leaf /\ d.leaf[p].approved
    /\ \A q \in DOMAIN c.leaf : d.leaf[q] = [c.leaf[q] EXCEPT !.approved = d.leaf[q].approved]
    /\ \A q \in DOMAIN c.leaf : q # p => d.leaf[q] = c.leaf[q]
    /\ d.order = c.order

\* An approval changes one leaf.
LEMMA ApprovedIs ==
  ASSUME NEW c, WellFormed(c), NEW p \in DOMAIN c.leaf
  PROVE  ApprovedAs(c, [c EXCEPT !.leaf[p].approved = TRUE], p)
<1>1. c \in Campaigns /\ Range(c.order) = DOMAIN c.leaf /\ IsInjective(c.order)
  BY DEF WellFormed
<1>2. DOMAIN c.leaf \subseteq Paths /\ c.leaf \in [DOMAIN c.leaf -> Leaf]
  BY <1>1, WalkLeaves
<1>3. PICK l \in Leaf : l = c.leaf[p]
  BY <1>2
<1>4. PICK m : m = [l EXCEPT !.approved = TRUE]
  OBVIOUS
<1>5. m \in Leaf /\ m.approved /\ m.sim = l.sim
  BY <1>4 DEF Leaf
<1>6. PICK f : f = [c.leaf EXCEPT ![p] = m]
  OBVIOUS
<1>7. f \in [DOMAIN c.leaf -> Leaf] /\ f[p] = m /\ \A q \in DOMAIN c.leaf : q # p => f[q] = c.leaf[q]
  BY <1>2, <1>5, <1>6
<1>8. f \in LeafMaps /\ DOMAIN f = DOMAIN c.leaf
  <2>1. DOMAIN f = DOMAIN c.leaf
    BY <1>7
  <2> QED
    BY <2>1, <1>2, <1>7, LeafMapIs
<1>9. PICK d : d = [c EXCEPT !.leaf = f]
  OBVIOUS
<1>10. d = [c EXCEPT !.leaf[p].approved = TRUE]
  BY <1>1, <1>2, <1>3, <1>4, <1>6, <1>9 DEF Campaigns
<1>11. /\ d \in Campaigns /\ d.order = c.order /\ d.leaf = f /\ d.usage = c.usage /\ d.state = c.state
       /\ d.callbacks = c.callbacks /\ d.analysed = c.analysed
  BY <1>1, <1>8, <1>9 DEF Campaigns
<1>12. \A q \in DOMAIN c.leaf : f[q].sim \in {NoSim, SpecAt[q].sim}
  BY <1>3, <1>5, <1>7 DEF WellFormed
<1>13. WellFormed(d)
  BY <1>1, <1>8, <1>11, <1>12 DEF WellFormed
<1>14. \A q \in DOMAIN c.leaf : f[q] = [c.leaf[q] EXCEPT !.approved = f[q].approved]
  <2>1. f[p] = [c.leaf[p] EXCEPT !.approved = f[p].approved]
    BY <1>3, <1>4, <1>5, <1>7
  <2>2. \A q \in DOMAIN c.leaf : c.leaf[q] = [c.leaf[q] EXCEPT !.approved = c.leaf[q].approved]
    BY <1>2 DEF Leaf
  <2> QED
    BY <2>1, <2>2, <1>7
<1>15. ApprovedAs(c, d, p)
  BY <1>5, <1>7, <1>8, <1>11, <1>13, <1>14 DEF ApprovedAs
<1> QED
  BY <1>10, <1>15

\* A tool's note, a state or the drained callbacks leave the leaves alone.
Notes(c, d) == d \in Campaigns /\ d.order = c.order /\ d.leaf = c.leaf /\ d.usage = c.usage

\* It stays well formed.
LEMMA NotesIs ==
  ASSUME NEW c, WellFormed(c), NEW d, Notes(c, d)
  PROVE  WellFormed(d)
  BY DEF Notes, WellFormed

\* The notes the tools make.
LEMMA ToolNotes ==
  ASSUME NEW c, WellFormed(c)
  PROVE  /\ \A p \in Paths : LET d == [c EXCEPT !.analysed = @ \cup {p}]
                             IN /\ Notes(c, d) /\ d.state = c.state /\ d.callbacks = c.callbacks
                                /\ d.analysed = c.analysed \cup {p}
         /\ LET d == [c EXCEPT !.concluded = TRUE]
            IN /\ Notes(c, d) /\ d.state = c.state /\ d.callbacks = c.callbacks
               /\ d.analysed = c.analysed
         /\ \A s \in Lifecycle : LET d == [c EXCEPT !.state = s]
                                 IN /\ Notes(c, d) /\ d.state = s /\ d.callbacks = c.callbacks
                                    /\ d.analysed = c.analysed
         /\ LET d == [c EXCEPT !.callbacks = <<>>]
            IN /\ Notes(c, d) /\ d.state = c.state /\ d.callbacks = <<>>
               /\ d.analysed = c.analysed
<1>1. c \in Campaigns /\ <<>> \in Callbacks
  BY DEF WellFormed, Callbacks
<1>2. ASSUME NEW p \in Paths
      PROVE  LET d == [c EXCEPT !.analysed = @ \cup {p}]
             IN /\ Notes(c, d) /\ d.state = c.state /\ d.callbacks = c.callbacks
                /\ d.analysed = c.analysed \cup {p}
  BY <1>1 DEF Notes, Campaigns
<1>3. LET d == [c EXCEPT !.concluded = TRUE]
      IN /\ Notes(c, d) /\ d.state = c.state /\ d.callbacks = c.callbacks
         /\ d.analysed = c.analysed
  BY <1>1 DEF Notes, Campaigns
<1>4. ASSUME NEW s \in Lifecycle
      PROVE  LET d == [c EXCEPT !.state = s]
             IN /\ Notes(c, d) /\ d.state = s /\ d.callbacks = c.callbacks
                /\ d.analysed = c.analysed
  BY <1>1 DEF Notes, Campaigns
<1>5. LET d == [c EXCEPT !.callbacks = <<>>]
      IN /\ Notes(c, d) /\ d.state = c.state /\ d.callbacks = <<>>
         /\ d.analysed = c.analysed
  BY <1>1 DEF Notes, Campaigns
<1> QED
  BY <1>2, <1>3, <1>4, <1>5

\* Each tool keeps the structure.
LEMMA ToolsKeep ==
  ASSUME Structure,
         \/ CreateCampaign \/ RecordConclusion \/ TakeCallbacks
         \/ \E p \in Paths : AddLeaf(p) \/ Approve(p) \/ RecordAnalysis(p)
         \/ \E s \in {"running", "paused", "stopped"} : SetState(s)
  PROVE  Structure'
<1>1. said \in Words /\ (disk # NoCampaign => WellFormed(disk)) /\ WorldOK
  BY SaidIs DEF Structure
<1>2. CASE CreateCampaign
  <2>1. NothingSaid \in Words
    BY DEF NothingSaid, Words, Lifecycle
  <2>2. WellFormed(Campaign(limit.seed))
    BY <1>1, NewIs, LimitIs
  <2>3. WellFormed(disk')
    BY <1>2, <2>2 DEF CreateCampaign, Save
  <2> QED
    BY <1>2, <2>1, <2>3, ToolKeeps DEF CreateCampaign
<1>3. CASE RecordConclusion
  <2>1. WellFormed(disk) /\ disk' = [disk EXCEPT !.concluded = TRUE]
    BY <1>1, <1>3 DEF RecordConclusion, Save
  <2>2. WellFormed(disk')
    BY <2>1, ToolNotes, NotesIs
  <2> QED
    BY <1>1, <1>3, <2>2, ToolKeeps DEF RecordConclusion, history
<1>4. CASE TakeCallbacks
  <2>1. WellFormed(disk) /\ disk' = [disk EXCEPT !.callbacks = <<>>]
    BY <1>1, <1>4 DEF TakeCallbacks, Save
  <2>2. WellFormed(disk')
    BY <2>1, ToolNotes, NotesIs
  <2> QED
    BY <1>1, <1>4, <2>2, ToolKeeps DEF TakeCallbacks
<1>5. ASSUME NEW p \in Paths, AddLeaf(p)
      PROVE  Structure'
  <2>1. WellFormed(disk) /\ p \notin DOMAIN disk.leaf
    BY <1>1, <1>5 DEF AddLeaf
  <2>2. WellFormed(disk')
    BY <1>5, <2>1, AddedIs, ZenonT(40) DEF AddLeaf, Save, Added
  <2>3. said' \in Words
    BY <1>1, <1>5 DEF AddLeaf, Words
  <2> QED
    BY <1>5, <2>2, <2>3, ToolKeeps DEF AddLeaf
<1>6. ASSUME NEW p \in Paths, Approve(p)
      PROVE  Structure'
  <2>1. p \in DOMAIN disk.leaf
    BY <1>6 DEF Approve
  <2>2. disk # NoCampaign
    <3>1. DOMAIN NoCampaign.leaf = {}
      BY DEF NoCampaign
    <3> QED
      BY <2>1, <3>1
  <2>3. WellFormed(disk')
    BY <1>1, <1>6, <2>1, <2>2, ApprovedIs DEF Approve, Save, ApprovedAs
  <2>4. said' \in Words
    BY <1>1, <1>6 DEF Approve, Words
  <2> QED
    BY <1>6, <2>3, <2>4, ToolKeeps DEF Approve
<1>7. ASSUME NEW p \in Paths, RecordAnalysis(p)
      PROVE  Structure'
  <2>1. p \in DOMAIN disk.leaf
    BY <1>7 DEF RecordAnalysis
  <2>2. disk # NoCampaign
    <3>1. DOMAIN NoCampaign.leaf = {}
      BY DEF NoCampaign
    <3> QED
      BY <2>1, <3>1
  <2>3. WellFormed(disk')
    BY <1>1, <1>7, <2>2, ToolNotes, NotesIs DEF RecordAnalysis, Save
  <2>4. said' \in Words
    BY <1>1, <1>7 DEF RecordAnalysis, Words
  <2> QED
    BY <1>7, <2>3, <2>4, ToolKeeps DEF RecordAnalysis
<1>8. ASSUME NEW s \in {"running", "paused", "stopped"}, SetState(s)
      PROVE  Structure'
  <2>1. s \in Lifecycle
    BY DEF Lifecycle
  <2>2. WellFormed(disk')
    BY <1>1, <1>8, <2>1, ToolNotes, NotesIs DEF SetState, Save
  <2>3. said' \in Words
    BY <1>1, <1>8, <2>1 DEF SetState, Words
  <2> QED
    BY <1>8, <2>2, <2>3, ToolKeeps DEF SetState
<1> QED
  BY <1>2, <1>3, <1>4, <1>5, <1>6, <1>7, <1>8

\* A deletion keeps the structure.
LEMMA DeleteKeeps ==
  ASSUME Structure, NEW force, DeleteCampaign(force)
  PROVE  Structure'
<1>1. PICK new : new = [k \in ReuseKeys |-> Reuse!NoRecord]
  OBVIOUS
<1>2. RegistryOK(new)
  <2>1. Reuse!NoRecord \in Records /\ Reuse!NoRecord.st = "none"
    BY DEF Reuse!NoRecord, Records
  <2>2. \A k \in ReuseKeys : RecordOK(k, new[k])
    BY <1>1, <2>1 DEF RecordOK
  <2> QED
    BY <1>1, <2>2, RegistryIs
<1>3. RegistryOK(reuse')
  BY <1>1, <1>2 DEF DeleteCampaign
<1>4. NothingSaid \in Words
  BY DEF NothingSaid, Words, Lifecycle
<1>5. WorldOK'
  BY <1>3, <1>4 DEF Structure, WorldOK, DeleteCampaign, clusterVars, Words, RegistryOK, RecordOK
<1>6. op' = Idle /\ op'.kind = "idle"
  BY DEF DeleteCampaign, Locked, Idle
<1>7. OpOK' /\ DiskOK'
  BY <1>6 DEF OpOK, TickOK, StopOK, DiskOK, DeleteCampaign
<1> QED
  BY <1>5, <1>7 DEF Structure

-----------------------------------------------------------------------------
(* A stop, and the death of the server. *)

\* The simulations of the leaves that may be live are simulations.
LEMMA LiveSims ==
  ASSUME NEW c, WellFormed(c)
  PROVE  {c.leaf[p].sim : p \in {q \in DOMAIN c.leaf : MayBeLive(c.leaf[q])}} \subseteq Sims
<1>1. \A p \in DOMAIN c.leaf : p \in Paths /\ c.leaf[p].sim \in {NoSim, SpecAt[p].sim}
  BY WalkLeaves DEF WellFormed
<1>2. \A p \in DOMAIN c.leaf : MayBeLive(c.leaf[p]) => c.leaf[p].sim \in Sims
  BY <1>1, Names DEF MayBeLive
<1> QED
  BY <1>2

\* The start of a stop keeps the structure.
LEMMA StopStartKeeps ==
  ASSUME Structure, StopStart
  PROVE  Structure'
<1>1. WorldOK /\ WellFormed(disk)
  BY DEF Structure, DiskOK, StopStart
<1>2. disk' = [disk EXCEPT !.state = "stopped"] /\ "stopped" \in Lifecycle
  BY DEF StopStart, Save, Lifecycle
<1>3. WellFormed(disk') /\ disk'.leaf = disk.leaf
  <2>1. PICK d : d = [disk EXCEPT !.state = "stopped"]
    OBVIOUS
  <2>2. Notes(disk, d)
    BY <1>1, <1>2, <2>1, ToolNotes
  <2>3. WellFormed(d) /\ d.leaf = disk.leaf
    BY <1>1, <2>2, NotesIs DEF Notes
  <2> QED
    BY <1>2, <2>1, <2>3
<1>4. PICK sims : sims = {disk.leaf[p].sim : p \in {q \in DOMAIN disk.leaf : MayBeLive(disk.leaf[q])}}
  OBVIOUS
<1>5. op' = [kind |-> "stop", left |-> sims, asked |-> sims] /\ sims \subseteq Sims
  BY <1>1, <1>4, LiveSims DEF StopStart
<1>6. op' \in Stops /\ op'.asked = sims /\ op'.kind = "stop"
  BY <1>5 DEF Stops
<1>7. StopOK'
  BY <1>3, <1>4, <1>6, SomeCampaign DEF StopOK, MayBeLive
<1>8. OpOK'
  BY <1>6, <1>7 DEF OpOK, TickOK
<1>9. WorldOK'
  BY <1>1, <1>2 DEF StopStart, WorldOK, clusterVars, RegistryOK, RecordOK
<1> QED
  BY <1>3, <1>8, <1>9 DEF Structure, DiskOK

\* The requests of a stop, and its end, keep the structure.
LEMMA StopKeeps ==
  ASSUME Structure, StopNext \/ StopEnd
  PROVE  Structure'
<1>1. WorldOK /\ op \in Stops /\ op.kind = "stop" /\ disk # NoCampaign /\ UNCHANGED <<disk, reuse>>
  BY DEF Structure, OpOK, StopOK, StopNext, StopEnd, fileVars
<1>2. CASE StopNext
  <2>1. PICK s \in op.left : op' = [op EXCEPT !.left = @ \ {s}]
    BY <1>2 DEF StopNext
  <2>2. op' \in Stops /\ op'.asked = op.asked /\ op'.kind = "stop"
    BY <1>1, <2>1 DEF Stops
  <2>3. OpOK'
    BY <1>1, <2>2 DEF Structure, OpOK, StopOK, TickOK, MayBeLive
  <2>4. job' \in [Runs -> JobStates]
    BY <1>1, <1>2 DEF StopNext, WorldOK, JobStates
  <2>5. WorldOK'
    BY <1>1, <1>2, <2>4 DEF StopNext, WorldOK, history, fileVars, RegistryOK, RecordOK
  <2> QED
    BY <1>1, <2>3, <2>5 DEF Structure, DiskOK
<1>3. CASE StopEnd
  <2>1. op' = Idle /\ op'.kind = "idle"
    BY <1>3 DEF StopEnd, Idle
  <2>2. OpOK'
    BY <2>1 DEF OpOK, TickOK, StopOK
  <2>3. WorldOK'
    BY <1>1, <1>3 DEF StopEnd, WorldOK, fileVars, clusterVars, RegistryOK, RecordOK
  <2> QED
    BY <1>1, <2>2, <2>3 DEF Structure, DiskOK
<1> QED
  BY <1>2, <1>3

\* The runs that are waited for when a server starts.
WaitingRuns == UNION {Reuse!Candidates(reuse[k]) : k \in {j \in ReuseKeys : reuse[j].st = "pending"}}

\* They are runs of the simulations whose records wait for them.
LEMMA WaitingIs ==
  ASSUME RegistryOK(reuse)
  PROVE  WaitingRuns \subseteq Runs
<1>1. ASSUME NEW k \in ReuseKeys, reuse[k].st = "pending"
      PROVE  Reuse!Candidates(reuse[k]) \subseteq Runs
  <2>1. reuse[k] \in Records /\ reuse[k].run \in Runs
    BY <1>1 DEF RegistryOK, RecordOK
  <2> QED
    BY <2>1 DEF Reuse!Candidates, Records
<1> QED
  BY <1>1 DEF WaitingRuns

\* A crash keeps the structure.
LEMMA CrashKeeps ==
  ASSUME Structure, Crash
  PROVE  Structure'
<1>1. WorldOK /\ RegistryOK(reuse)
  BY DEF Structure, WorldOK
<1>2. PICK ready : ready = {r \in WaitingRuns : shown[r] = "ready"}
  OBVIOUS
<1>3. reuse' = Reuse!Promote(reuse, ready) /\ pending' = WaitingRuns \ ready
  BY <1>2 DEF Crash, WaitingRuns
<1>4. WaitingRuns \subseteq Runs /\ ready \subseteq Runs
  BY <1>1, <1>2, WaitingIs
<1>5. RegistryOK(Reuse!Promote(reuse, ready))
  BY <1>1, <1>4, PromoteIs
<1>6. PICK new : new = Reuse!Promote(reuse, ready)
  OBVIOUS
<1>7. RegistryOK(new) /\ reuse' = new /\ pending' \subseteq Runs
  BY <1>3, <1>4, <1>5, <1>6
<1>8. WorldOK'
  BY <1>1, <1>7 DEF Crash, WorldOK, clusterVars, history, RegistryOK, RecordOK
<1>9. op' = Idle /\ op'.kind = "idle" /\ disk' = disk
  BY DEF Crash, Idle
<1>10. OpOK' /\ DiskOK'
  BY <1>9 DEF OpOK, TickOK, StopOK, DiskOK, Structure
<1> QED
  BY <1>8, <1>10 DEF Structure

-----------------------------------------------------------------------------
(* The steps of a tick. *)

\* What a tick does not change of what it did not change.
LEMMA KinTwice ==
  ASSUME NEW a, NEW b, NEW c, Kin(a, b), Kin(b, c)
  PROVE  Kin(a, c)
  BY DEF Kin

\* The beginning of a tick: the campaign that is saved is the folded one with the callbacks
\* it owes, and the steps are those the campaign calls for.
Begins(before, folded, steps, c) ==
    /\ before = [p \in DOMAIN disk.leaf |-> disk.leaf[p].status] /\ folded = Fold(disk)
    /\ c = EmitCallbacks(folded, before) /\ ~Collides(folded.leaf, steps)
    /\ steps = NextActions(folded.order, folded.leaf, limit.budget, folded.usage)
    /\ WellFormed(folded) /\ Kin(disk, folded) /\ WellFormed(c) /\ Kin(folded, c) /\ Kin(disk, c)
    /\ steps \in Seq(Steps) /\ OneStepEach(steps) /\ Len(steps) = Len(folded.order)
    /\ \A i \in 1 .. Len(steps) : PlanHolds(c, steps[i]) /\ steps[i].path = folded.order[i]

Begun(before, steps, c) ==
    [kind |-> "tick", c |-> c, steps |-> steps, before |-> before,
     observed |-> [s \in Sims |-> registry[s].st], result |-> NoResult,
     inFlight |-> c.usage.running, await |-> NoRun, raises |-> FALSE]

\* What the first save of a tick writes, and what the tick goes on with.
LEMMA TickStartIs ==
  ASSUME Structure, TickStart
  PROVE  \E before, folded, steps, c :
           Begins(before, folded, steps, c) /\ disk' = c /\ op' = Begun(before, steps, c)
<1>1. WorldOK /\ WellFormed(disk)
  BY DEF Structure, DiskOK, TickStart
<1>2. PICK before, folded : before = [p \in DOMAIN disk.leaf |-> disk.leaf[p].status] /\ folded = Fold(disk)
  OBVIOUS
<1>3. PICK steps, c : /\ steps = NextActions(folded.order, folded.leaf, limit.budget, folded.usage)
                      /\ c = EmitCallbacks(folded, before)
  OBVIOUS
<1>4. /\ ~Collides(folded.leaf, steps) /\ disk' = c
      /\ op' = Begun(before, steps, c)
  BY <1>2, <1>3 DEF TickStart, Save, Begun
<1>5. WellFormed(folded) /\ Kin(disk, folded)
  BY <1>1, <1>2, FoldIs
<1>6. /\ WellFormed(c) /\ Kin(folded, c)
      /\ \A p \in DOMAIN folded.leaf : Reasoned(folded.leaf[p], c.leaf[p])
  BY <1>3, <1>5, EmitIs DEF Emitted
<1>7. /\ steps \in Seq(Steps) /\ OneStepEach(steps) /\ Len(steps) = Len(folded.order)
      /\ \A i \in 1 .. Len(steps) : PlanHolds(folded, steps[i]) /\ steps[i].path = folded.order[i]
  <2>1. folded.usage \in Usage
    BY <1>5 DEF WellFormed, Campaigns
  <2> QED
    BY <1>1, <1>3, <1>5, <2>1, PlanIs, LimitIs
<1>8. \A p \in DOMAIN folded.leaf : c.leaf[p].status = folded.leaf[p].status
  <2>1. ASSUME NEW p \in DOMAIN folded.leaf
        PROVE  c.leaf[p].status = folded.leaf[p].status
    <3>1. PICK l \in Leaf : l = folded.leaf[p]
      BY <1>5, WalkLeaves DEF WellFormed
    <3>2. PICK w, x : c.leaf[p] = [l EXCEPT !.suspect = x, !.why = w]
      BY <1>6, <3>1 DEF Reasoned
    <3> QED
      BY <3>1, <3>2 DEF Leaf
  <2> QED
    BY <2>1
<1>9. \A i \in 1 .. Len(steps) : PlanHolds(c, steps[i])
  <2>1. ASSUME NEW i \in 1 .. Len(steps)
        PROVE  PlanHolds(c, steps[i])
    <3>1. PlanHolds(folded, steps[i]) /\ steps[i].path \in DOMAIN folded.leaf
      BY <1>7 DEF PlanHolds
    <3>2. DOMAIN c.leaf = DOMAIN folded.leaf
      BY <1>6 DEF Kin
    <3> QED
      BY <1>8, <3>1, <3>2, PlanStays
  <2> QED
    BY <2>1
<1>10. Kin(disk, c)
  BY <1>5, <1>6, KinTwice
<1>11. Begins(before, folded, steps, c)
  BY <1>2, <1>3, <1>4, <1>5, <1>6, <1>7, <1>9, <1>10 DEF Begins
<1> QED
  BY <1>4, <1>11

\* The beginning of a tick keeps the structure.
LEMMA TickStartKeeps ==
  ASSUME Structure, TickStart
  PROVE  Structure'
<1>1. PICK before, folded, steps, c :
         Begins(before, folded, steps, c) /\ disk' = c /\ op' = Begun(before, steps, c)
  BY TickStartIs
<1>2. WorldOK /\ WellFormed(disk)
  BY DEF Structure, DiskOK, TickStart
<1>3. before \in Befores
  <2>1. \A p \in DOMAIN disk.leaf : disk.leaf[p].status \in Statuses
    BY <1>2, WalkLeaves DEF WellFormed, Leaf
  <2>2. DOMAIN disk.leaf \subseteq Paths
    BY <1>2, WalkLeaves DEF WellFormed
  <2>3. before \in [DOMAIN disk.leaf -> Statuses]
    BY <1>1, <2>1 DEF Begins
  <2> QED
    BY <2>2, <2>3 DEF Befores
<1>4. PICK observed \in [Sims -> States] : observed = [s \in Sims |-> registry[s].st]
  <2>1. \A s \in Sims : registry[s].st \in States
    BY <1>2 DEF WorldOK, Shows
  <2>2. [s \in Sims |-> registry[s].st] \in [Sims -> States]
    BY <2>1
  <2> QED
    BY <2>2
<1>5. NoResult \in Reports
  BY DEF Reports, NoResult
<1>6. c \in Campaigns /\ c.usage.running \in Nat
  BY <1>1 DEF Begins, WellFormed, Campaigns, Usage
<1>7. PICK o : o = [kind |-> "tick", c |-> c, steps |-> steps, before |-> before,
                    observed |-> observed, result |-> NoResult,
                    inFlight |-> c.usage.running, await |-> NoRun, raises |-> FALSE]
  OBVIOUS
<1>8. o \in Ticks /\ o.kind = "tick" /\ o.c = c /\ o.steps = steps /\ o.await = NoRun
  BY <1>1, <1>3, <1>5, <1>6, <1>7 DEF Begins, Ticks
<1>9. op' = o
  BY <1>1, <1>4, <1>7 DEF Begun
<1>10. Kin(c, c)
  BY DEF Kin
<1>11. TickOK'
  BY <1>1, <1>8, <1>9, <1>10, SomeCampaign DEF Begins, TickOK
<1>12. OpOK'
  BY <1>8, <1>9, <1>11 DEF OpOK, StopOK
<1>13. WorldOK'
  BY <1>2 DEF TickStart, WorldOK, clusterVars, history, RegistryOK, RecordOK
<1> QED
  BY <1>1, <1>12, <1>13 DEF Begins, Structure, DiskOK

\* The planned leaves whose steps, passed now, fail them.
Failing == EndedBy(op.c, Passed)

\* The steps up to the next submission fail these leaves, each with its callback.
LEMMA SkippedIs ==
  ASSUME Structure, InTick
  PROVE  Persisted(op.c, Skipped, Failing) /\ Kin(disk, Skipped)
<1>1. /\ op \in Ticks /\ WellFormed(op.c) /\ Kin(disk, op.c) /\ OneStepEach(op.steps)
      /\ \A i \in 1 .. Len(op.steps) : PlanHolds(op.c, op.steps[i])
  BY DEF Structure, OpOK, TickOK, InTick
<1>2. op.steps \in Seq(Steps)
  BY <1>1 DEF Ticks
<1>3. PICK c, steps : c = op.c /\ steps = Passed
  OBVIOUS
<1>4. /\ steps \in Seq(Steps)
      /\ \A i \in 1 .. Len(steps) : i \in 1 .. Len(op.steps) /\ steps[i] = op.steps[i]
  <2>1. Part(steps, 0, NextSubmission - 1)
    BY <1>2, <1>3, PartsOfSteps
  <2>2. steps \in Seq(Steps) /\ Len(steps) \in Nat
    BY <2>1 DEF Part
  <2>3. \A i \in 1 .. Len(steps) : i + 0 = i
    BY <2>2
  <2> QED
    BY <2>1, <2>3 DEF Part
<1>5. OneStepEach(steps)
  BY <1>1, <1>4 DEF OneStepEach
<1>6. \A i \in 1 .. Len(steps) : PlanHolds(c, steps[i])
  BY <1>1, <1>3, <1>4
<1>7. Persisted(c, PersistTerminal(c, steps), EndedBy(c, steps))
  BY <1>1, <1>3, <1>4, <1>5, <1>6, PersistIs
<1>8. Persisted(op.c, Skipped, Failing)
  BY <1>3, <1>7 DEF Skipped, Failing
<1> QED
  BY <1>1, <1>8, KinTwice DEF Persisted

\* The submission of a step that nothing blocks.
LEMMA RunStepsIs ==
  ASSUME Structure, RunSteps
  PROVE  \E n \in 1 .. Len(op.steps) :
           /\ n = NextSubmission /\ op.steps[n].action = "submit" /\ ~Blocked(op.c, op.steps[n].path)
           /\ op.steps[n].path \in DOMAIN op.c.leaf /\ op.c.leaf[op.steps[n].path].status = "planned"
           /\ op.steps[n].path \notin Failing /\ DepsDone(op.c.leaf, op.steps[n].path)
           /\ wire' \in {wire, wire \cup {op.steps[n].path}}
           /\ op' \in Ticks /\ op'.kind = "tick" /\ op'.c = Skipped /\ op'.await = op.steps[n].path
           /\ op'.observed = op.observed /\ op'.result = Reported(op.result)
           /\ op'.steps \in Seq(Steps) /\ Len(op'.steps) = Len(op.steps) - n
           /\ \A i \in 1 .. Len(op'.steps) : /\ i + n \in 1 .. Len(op.steps)
                                             /\ op'.steps[i] = op.steps[i + n]
                                             /\ op'.steps[i].path \notin Failing
<1>1. /\ op \in Ticks /\ op.kind = "tick" /\ WellFormed(op.c) /\ OneStepEach(op.steps)
      /\ \A i \in 1 .. Len(op.steps) : PlanHolds(op.c, op.steps[i])
  BY DEF RunSteps, Structure, OpOK, TickOK, InTick
<1>2. op.steps \in Seq(Steps)
  BY <1>1 DEF Ticks
<1>3. PICK N \in Nat : N = Len(op.steps)
  BY <1>2
<1>4. PICK n \in 1 .. N : n = NextSubmission
  BY <1>2, <1>3, NextIs DEF RunSteps
<1>5. op.steps[n].action = "submit" /\ ~Blocked(op.c, op.steps[n].path)
  BY <1>2, <1>3, <1>4, NextIs DEF Submittable
<1>6. PICK p : p = op.steps[n].path
  OBVIOUS
<1>7. p \in DOMAIN op.c.leaf /\ op.c.leaf[p].status = "planned" /\ DepsDone(op.c.leaf, p) /\ p \in Paths
  <2>1. PlanHolds(op.c, op.steps[n])
    BY <1>1, <1>3
  <2> QED
    BY <2>1, <1>1, <1>5, <1>6, WalkLeaves DEF PlanHolds, WellFormed
<1>8. PICK rest : rest = SubSeq(op.steps, n + 1, Len(op.steps))
  OBVIOUS
<1>9. /\ rest \in Seq(Steps) /\ Len(rest) = N - n
      /\ \A i \in 1 .. Len(rest) : i + n \in 1 .. N /\ rest[i] = op.steps[i + n]
      /\ Len(Passed) = n - 1
      /\ \A i \in 1 .. Len(Passed) : i \in 1 .. N /\ Passed[i] = op.steps[i]
  <2>1. Part(rest, n, N - n) /\ Part(Passed, 0, n - 1)
    BY <1>2, <1>3, <1>4, <1>8, PartsOfSteps
  <2>2. \A i \in 1 .. n - 1 : i + 0 = i
    OBVIOUS
  <2> QED
    BY <2>1, <2>2, <1>3, SMTT(40) DEF Part
<1>10. \A i \in 1 .. Len(rest) : rest[i].path \notin Failing
  <2>1. ASSUME NEW i \in 1 .. Len(rest), rest[i].path \in Failing
        PROVE  FALSE
    <3>1. PICK j \in 1 .. Len(Passed) : Passed[j].path = rest[i].path
      BY <2>1 DEF Failing, EndedBy
    <3>2. j \in 1 .. N /\ i + n \in 1 .. N /\ op.steps[j].path = op.steps[i + n].path
      BY <1>9, <3>1
    <3>3. j = i + n
      BY <3>2, <1>1, <1>3 DEF OneStepEach
    <3> QED
      BY <3>3, <1>9
  <2> QED
    BY <2>1
<1>11. p \notin Failing
  <2>1. ASSUME p \in Failing
        PROVE  FALSE
    <3>1. PICK j \in 1 .. Len(Passed) : Passed[j].path = p
      BY <2>1 DEF Failing, EndedBy
    <3>2. j \in 1 .. N /\ op.steps[j].path = op.steps[n].path
      BY <1>6, <1>9, <3>1
    <3>3. j = n
      BY <3>2, <1>1, <1>3 DEF OneStepEach
    <3> QED
      BY <3>3, <1>9
  <2> QED
    BY <2>1
<1>12. PICK c : c = Skipped
  OBVIOUS
<1>13. c \in Campaigns
  BY <1>1, <1>12, SkippedIs DEF InTick, WellFormed, Persisted
<1>14. PICK r : r = Reported(op.result)
  OBVIOUS
<1>15. r \in Reports
  <2>1. op.result \in Reports
    BY <1>1 DEF Ticks
  <2>2. \A x \in Range(Passed) : x.path \in Paths
    <3>1. Passed \in Seq(Steps)
      BY <1>2, PartsOfSteps DEF Part
    <3>2. PICK W : W = Steps
      OBVIOUS
    <3>3. \A i \in DOMAIN Passed : Passed[i] \in W
      BY <3>1, <3>2
    <3>4. \A i \in DOMAIN Passed : Passed[i].path \in Paths
      BY <3>2, <3>3 DEF Steps
    <3> QED
      BY <3>4 DEF Range
  <2>3. \A b : {s.path : s \in {x \in Range(Passed) : Bucket(x) = b}} \subseteq Paths
    BY <2>2
  <2> QED
    BY <1>14, <2>1, <2>3 DEF Reported, Reports
<1>16. PICK raises \in BOOLEAN :
          /\ op' = [op EXCEPT !.c = c, !.await = p, !.raises = raises, !.result = r, !.steps = rest]
          /\ wire' \in {wire, wire \cup {p}}
  BY <1>4, <1>6, <1>8, <1>12, <1>14 DEF RunSteps
<1>17. /\ op' \in Ticks /\ op'.kind = "tick" /\ op'.c = c /\ op'.await = p /\ op'.steps = rest
       /\ op'.observed = op.observed /\ op'.result = r
  BY <1>1, <1>7, <1>9, <1>13, <1>15, <1>16 DEF Ticks
<1> QED
  BY <1>3, <1>4, <1>5, <1>6, <1>7, <1>9, <1>10, <1>11, <1>12, <1>14, <1>16, <1>17

\* The submission keeps the structure.
LEMMA RunStepsKeeps ==
  ASSUME Structure, RunSteps
  PROVE  Structure'
<1>1. /\ WorldOK /\ op.kind = "tick" /\ op \in Ticks /\ disk # NoCampaign /\ OneStepEach(op.steps)
      /\ \A i \in 1 .. Len(op.steps) : PlanHolds(op.c, op.steps[i])
      /\ WellFormed(op.c)
  BY DEF RunSteps, Structure, OpOK, TickOK, InTick
<1>2. PICK n \in 1 .. Len(op.steps) :
           /\ op.steps[n].path \in DOMAIN op.c.leaf /\ op.c.leaf[op.steps[n].path].status = "planned"
           /\ op.steps[n].path \notin Failing /\ wire' \in {wire, wire \cup {op.steps[n].path}}
           /\ op' \in Ticks /\ op'.kind = "tick" /\ op'.c = Skipped /\ op'.await = op.steps[n].path
           /\ op'.steps \in Seq(Steps) /\ Len(op'.steps) = Len(op.steps) - n
           /\ \A i \in 1 .. Len(op'.steps) : /\ i + n \in 1 .. Len(op.steps)
                                             /\ op'.steps[i] = op.steps[i + n]
                                             /\ op'.steps[i].path \notin Failing
  BY RunStepsIs
<1>3. PICK c, rest : c = Skipped /\ rest = op'.steps
  OBVIOUS
<1>4. /\ WellFormed(c) /\ Kin(op.c, c) /\ Kin(disk, c)
      /\ \A p \in DOMAIN op.c.leaf :
           c.leaf[p] = IF p \in Failing
                       THEN [op.c.leaf[p] EXCEPT !.status = "failed", !.why = "dependency"]
                       ELSE op.c.leaf[p]
  BY <1>1, <1>3, SkippedIs DEF InTick, Persisted
<1>5. \A p \in DOMAIN op.c.leaf : op.c.leaf[p].status = "done" => c.leaf[p].status = "done"
  BY <1>4 DEF Failing, EndedBy
<1>6. DOMAIN c.leaf = DOMAIN op.c.leaf
  BY <1>4 DEF Kin
<1>7. \A i \in 1 .. Len(rest) : PlanHolds(c, rest[i])
  <2>1. ASSUME NEW i \in 1 .. Len(rest)
        PROVE  PlanHolds(c, rest[i])
    <3>1. PICK s : s = rest[i]
      OBVIOUS
    <3>2. PlanHolds(op.c, s) /\ s.path \in DOMAIN op.c.leaf /\ s.path \notin Failing
      BY <1>1, <1>2, <1>3, <3>1 DEF PlanHolds
    <3>3. c.leaf[s.path].status = op.c.leaf[s.path].status
      BY <1>4, <3>2
    <3>4. PlanHolds(c, s)
      BY <1>5, <1>6, <3>2, <3>3, PlanStays
    <3> QED
      BY <3>1, <3>4
  <2> QED
    BY <2>1
<1>8. PICK p : p = op.steps[n].path
  OBVIOUS
<1>9. OneStepEach(rest) /\ \A i \in 1 .. Len(rest) : rest[i].path # p
  <2>1. \A i \in 1 .. Len(rest) : i + n \in 1 .. Len(op.steps) /\ rest[i] = op.steps[i + n]
    BY <1>2, <1>3
  <2>2. ASSUME NEW i \in 1 .. Len(rest), NEW j \in 1 .. Len(rest), rest[i].path = rest[j].path
        PROVE  i = j
    <3>1. i + n = j + n
      BY <1>1, <2>1, <2>2 DEF OneStepEach
    <3> QED
      BY <3>1
  <2>3. ASSUME NEW i \in 1 .. Len(rest), rest[i].path = p
        PROVE  FALSE
    <3>1. i + n = n
      BY <1>1, <1>8, <2>1, <2>3 DEF OneStepEach
    <3> QED
      BY <3>1
  <2> QED
    BY <2>2, <2>3 DEF OneStepEach
<1>10. p \in DOMAIN c.leaf /\ c.leaf[p].status = "planned"
  BY <1>2, <1>4, <1>6, <1>8
<1>11. disk' = disk /\ op'.kind = "tick" /\ op' \in Ticks /\ op'.c = c /\ op'.steps = rest /\ op'.await = p
  BY <1>2, <1>3, <1>8 DEF RunSteps, fileVars
<1>12. TickOK'
  BY <1>1, <1>4, <1>7, <1>9, <1>10, <1>11 DEF TickOK
<1>13. OpOK' /\ DiskOK'
  BY <1>11, <1>12 DEF OpOK, StopOK, Structure, DiskOK
<1>14. wire' \subseteq Runs
  <2>1. p \in Runs
    BY <1>1, <1>2, <1>8, WalkLeaves, Names DEF WellFormed
  <2> QED
    BY <2>1, <1>1, <1>2, <1>8 DEF WorldOK
<1>15. WorldOK'
  BY <1>1, <1>14 DEF RunSteps, WorldOK, fileVars, history, RegistryOK, RecordOK
<1> QED
  BY <1>13, <1>15 DEF Structure

\* d is c after the submission of p ended with an outcome.
Submitted(c, d, p, out) ==
    /\ Changed(c, d, p)
    /\ \/ out = "accepted" /\ IsAccepted(c, d, p)
       \/ out \in {"refused", "error"} /\ IsFailed(c, d, p, out)
       \/ /\ out \in {"lost", "unknown"} /\ d.leaf[p].deferred
          /\ \/ IsDeferred(c, d, p)
             \/ IsFailed(c, d, p, "outcome_unknown")
                /\ ~((IF c.leaf[p].deferred THEN waited[p] ELSE 0) < Window)

\* The end of the submission that is awaited: the campaign is saved as it is in memory.
LEMMA ResolveIs ==
  ASSUME Structure, InTick, op.await # NoRun, NEW out \in Answers, Resolve(out)
  PROVE  /\ op.await \in DOMAIN op.c.leaf /\ op.c.leaf[op.await].status = "planned" /\ op.await \in Paths
         /\ Submitted(op.c, disk', op.await, out)
         /\ op' \in Ticks /\ op'.kind = "tick" /\ op'.c = disk' /\ op'.steps = op.steps
         /\ op'.await = NoRun /\ op'.observed = op.observed
         /\ op'.result = [b \in DOMAIN op.result |->
                            IF b \in Buckets(disk', op.await, out) THEN op.result[b] \cup {op.await}
                            ELSE op.result[b]]
         /\ waited' = IF disk'.leaf[op.await].deferred /\ ~op.c.leaf[op.await].deferred
                      THEN [waited EXCEPT ![op.await] = 0] ELSE waited
<1>1. /\ op \in Ticks /\ op.kind = "tick" /\ WellFormed(op.c) /\ op.await \in DOMAIN op.c.leaf
      /\ op.c.leaf[op.await].status = "planned"
  BY DEF Structure, OpOK, TickOK, InTick
<1>2. PICK p, c : p = op.await /\ c = SubmitOne(op.c, p, out)
  OBVIOUS
<1>3. Submitted(op.c, c, p, out)
  BY <1>1, <1>2, SubmitIs DEF Submitted
<1>4. disk' = c
  BY <1>2 DEF Resolve, Save
<1>5. PICK r : r = [b \in DOMAIN op.result |->
                      IF b \in Buckets(c, p, out) THEN op.result[b] \cup {p} ELSE op.result[b]]
  OBVIOUS
<1>6. p \in Paths /\ c \in Campaigns
  BY <1>1, <1>2, <1>3, WalkLeaves DEF WellFormed, Submitted, Changed
<1>7. r \in Reports
  <2>1. op.result \in Reports
    BY <1>1 DEF Ticks
  <2> QED
    BY <2>1, <1>5, <1>6 DEF Reports
<1>8. PICK one \in Nat : one = IF out = "accepted" THEN 1 ELSE 0
  OBVIOUS
<1>9. PICK k \in Nat : k = op.inFlight + one
  BY <1>1 DEF Ticks
<1>10. op' = [op EXCEPT !.c = c, !.await = NoRun, !.raises = FALSE, !.result = r, !.inFlight = k]
  BY <1>1, <1>2, <1>5, <1>8, <1>9 DEF Resolve
<1>11. /\ op' \in Ticks /\ op'.kind = "tick" /\ op'.c = c /\ op'.steps = op.steps /\ op'.await = NoRun
       /\ op'.observed = op.observed /\ op'.result = r
  BY <1>1, <1>6, <1>7, <1>9, <1>10 DEF Ticks
<1>12. waited' = IF c.leaf[p].deferred /\ ~op.c.leaf[p].deferred THEN [waited EXCEPT ![p] = 0] ELSE waited
  BY <1>2 DEF Resolve
<1> QED
  BY <1>1, <1>2, <1>3, <1>4, <1>5, <1>6, <1>11, <1>12

\* It keeps the structure of the files and of the tick.
LEMMA ResolveKeeps ==
  ASSUME Structure, InTick, op.await # NoRun, NEW out \in Answers, Resolve(out)
  PROVE  DiskOK' /\ OpOK' /\ waited' \in [Paths -> 0 .. Window]
<1>1. PICK p, c : p = op.await /\ c = disk'
  OBVIOUS
<1>2. /\ op.await \in DOMAIN op.c.leaf /\ op.c.leaf[op.await].status = "planned" /\ op.await \in Paths
      /\ Submitted(op.c, disk', op.await, out)
      /\ op' \in Ticks /\ op'.kind = "tick" /\ op'.c = disk' /\ op'.steps = op.steps
      /\ op'.await = NoRun
      /\ waited' = IF disk'.leaf[op.await].deferred /\ ~op.c.leaf[op.await].deferred
                   THEN [waited EXCEPT ![op.await] = 0] ELSE waited
  BY ResolveIs
<1>3. /\ OneStepEach(op.steps) /\ \A i \in 1 .. Len(op.steps) : PlanHolds(op.c, op.steps[i])
      /\ \A i \in 1 .. Len(op.steps) : op.steps[i].path # p
  BY <1>1 DEF Structure, OpOK, TickOK, InTick
<1>4. /\ WellFormed(c) /\ DOMAIN c.leaf = DOMAIN op.c.leaf
      /\ \A q \in DOMAIN op.c.leaf : q # p => c.leaf[q] = op.c.leaf[q]
  BY <1>1, <1>2 DEF Submitted, Changed, Kin
<1>5. \A q \in DOMAIN op.c.leaf : op.c.leaf[q].status = "done" => c.leaf[q].status = "done"
  BY <1>1, <1>2, <1>4
<1>6. \A i \in 1 .. Len(op.steps) : PlanHolds(c, op.steps[i])
  <2>1. ASSUME NEW i \in 1 .. Len(op.steps)
        PROVE  PlanHolds(c, op.steps[i])
    <3>1. PICK s : s = op.steps[i]
      OBVIOUS
    <3>2. PlanHolds(op.c, s) /\ s.path \in DOMAIN op.c.leaf /\ s.path # p
      BY <1>3, <3>1 DEF PlanHolds
    <3>3. c.leaf[s.path].status = op.c.leaf[s.path].status
      BY <1>4, <3>2
    <3>4. PlanHolds(c, s)
      BY <1>4, <1>5, <3>2, <3>3, PlanStays
    <3> QED
      BY <3>1, <3>4
  <2> QED
    BY <2>1
<1>7. Kin(c, c) /\ c # NoCampaign
  BY <1>4, SomeCampaign DEF Kin
<1>8. TickOK'
  BY <1>1, <1>2, <1>3, <1>4, <1>6, <1>7 DEF TickOK
<1>9. OpOK' /\ DiskOK'
  BY <1>1, <1>2, <1>4, <1>8 DEF OpOK, StopOK, DiskOK
<1>10. waited' \in [Paths -> 0 .. Window]
  <2>1. Window \in Nat
    BY AgendaAssumption
  <2>2. 0 \in 0 .. Window
    BY <2>1
  <2>3. waited \in [Paths -> 0 .. Window]
    BY DEF Structure, WorldOK
  <2> QED
    BY <1>2, <2>2, <2>3
<1> QED
  BY <1>9, <1>10

\* A lost ack keeps the structure.
LEMMA AckTimeoutKeeps ==
  ASSUME Structure, AckTimeout
  PROVE  Structure'
<1>1. InTick /\ op.await # NoRun /\ Resolve("lost") /\ "lost" \in Answers
  BY DEF AckTimeout, Answers
<1>2. DiskOK' /\ OpOK' /\ waited' \in [Paths -> 0 .. Window]
  BY <1>1, ResolveKeeps
<1>3. WorldOK'
  BY <1>2 DEF AckTimeout, Structure, WorldOK, clusterVars, history, RegistryOK, RecordOK
<1> QED
  BY <1>2, <1>3 DEF Structure

\* So does a submission that raises.
LEMMA SubmitErrorKeeps ==
  ASSUME Structure, SubmitError
  PROVE  Structure'
<1>1. InTick /\ op.await # NoRun /\ Resolve("error") /\ "error" \in Answers
  BY DEF SubmitError, Answers
<1>2. DiskOK' /\ OpOK' /\ waited' \in [Paths -> 0 .. Window]
  BY <1>1, ResolveKeeps
<1>3. WorldOK'
  BY <1>2 DEF SubmitError, Structure, WorldOK, clusterVars, history, RegistryOK, RecordOK
<1> QED
  BY <1>2, <1>3 DEF Structure

\* An ack registers its run.
LEMMA AckRegisters ==
  ASSUME WorldOK, NEW a \in acks, AckArrives(a)
  PROVE  /\ a \in Acks /\ SimOf[a.run] \in Sims
         /\ \E w \in Shows :
              /\ registry' = [registry EXCEPT ![SimOf[a.run]] = w] /\ w.run = a.run
              /\ \/ w.st = a.st
                 \/ registry[SimOf[a.run]].run = a.run /\ w = registry[SimOf[a.run]]
<1>1. a \in Acks
  BY DEF WorldOK
<1>2. PICK r \in Runs, st \in States : r = a.run /\ st = a.st
  BY <1>1 DEF Acks
<1>3. PICK s \in Sims : s = SimOf[r]
  BY Names
<1>4. PICK v \in Shows : v = registry[s]
  BY DEF WorldOK
<1>5. PICK w : w = IF v.run # r THEN [run |-> r, st |-> st]
                   ELSE IF v.st = "" THEN [v EXCEPT !.st = st] ELSE v
  OBVIOUS
<1>6. registry' = [registry EXCEPT ![s] = w]
  <2>1. registry' = [registry EXCEPT ![SimOf[a.run]] =
            IF @.run # a.run THEN [run |-> a.run, st |-> a.st]
            ELSE IF @.st = "" THEN [@ EXCEPT !.st = a.st] ELSE @]
    BY DEF AckArrives
  <2> QED
    BY <2>1, <1>2, <1>3, <1>4, <1>5
<1>7. w \in Shows /\ w.run = r /\ (w.st = st \/ (v.run = r /\ w = v))
  BY <1>2, <1>5 DEF Shows
<1> QED
  BY <1>1, <1>2, <1>3, <1>4, <1>6, <1>7

\* An ack that arrives keeps the structure.
LEMMA AckArrivesKeeps ==
  ASSUME Structure, NEW a \in acks, AckArrives(a)
  PROVE  Structure'
<1>1. WorldOK
  BY DEF Structure
<1>2. a \in Acks /\ SimOf[a.run] \in Sims
  BY <1>1, AckRegisters
<1>3. PICK w \in Shows : registry' = [registry EXCEPT ![SimOf[a.run]] = w] /\ w.run = a.run
  BY <1>1, AckRegisters
<1>4. registry' \in [Sims -> Shows] /\ \A s \in Sims : registry'[s].st # "" => registry'[s].run \in Runs
  <2>1. a.run \in Runs
    BY <1>2 DEF Acks
  <2> QED
    BY <1>1, <1>2, <1>3, <2>1 DEF WorldOK
<1>5. DiskOK' /\ OpOK' /\ waited' \in [Paths -> 0 .. Window]
  <2>1. CASE Awaits(a.run)
    <3>1. op.await # NoRun /\ a.out \in Answers
      BY <2>1, <1>2, Names DEF Acks, Answers, Awaits
    <3>2. Resolve(a.out)
      BY <2>1 DEF AckArrives
    <3> QED
      BY <2>1, <3>1, <3>2, ResolveKeeps DEF Awaits
  <2>2. CASE ~Awaits(a.run)
    <3>1. UNCHANGED <<disk, op, waited>>
      BY <2>2 DEF AckArrives
    <3>2. DiskOK'
      BY <3>1 DEF Structure, DiskOK
    <3>3. TickOK' /\ StopOK'
      BY <3>1 DEF Structure, OpOK, TickOK, StopOK, MayBeLive
    <3> QED
      BY <1>1, <3>1, <3>2, <3>3 DEF WorldOK, Structure, OpOK
  <2> QED
    BY <2>1, <2>2
<1>6. WorldOK'
  BY <1>1, <1>4, <1>5 DEF AckArrives, WorldOK, history, RegistryOK, RecordOK
<1> QED
  BY <1>5, <1>6 DEF Structure

\* The end of a tick keeps the structure.
LEMMA TickEndKeeps ==
  ASSUME Structure, TickEnd
  PROVE  Structure'
<1>1. WorldOK /\ RegistryOK(reuse) /\ InTick
  BY DEF Structure, WorldOK, TickEnd
<1>2. WellFormed(Skipped)
  BY <1>1, SkippedIs DEF Persisted
<1>3. PICK new : new = RecordReuse(Skipped)
  OBVIOUS
<1>4. RegistryOK(new) /\ reuse' = new
  BY <1>1, <1>2, <1>3, RecordReuseIs DEF TickEnd
<1>5. WorldOK'
  BY <1>1, <1>4 DEF TickEnd, WorldOK, clusterVars, history, RegistryOK, RecordOK
<1>6. op' = Idle /\ op'.kind = "idle"
  BY DEF TickEnd, Idle
<1>7. OpOK'
  BY <1>6 DEF OpOK, TickOK, StopOK
<1>8. PICK c : c = Skipped
  OBVIOUS
<1>9. disk' = c /\ WellFormed(c)
  BY <1>2, <1>8 DEF TickEnd, Save
<1> QED
  BY <1>5, <1>7, <1>9 DEF Structure, DiskOK

-----------------------------------------------------------------------------
\* It begins with the structure.
LEMMA StructureInit == Init => Structure
<1> SUFFICES ASSUME Init
             PROVE  Structure
  OBVIOUS
<1>1. reuse = [k \in ReuseKeys |-> Reuse!NoRecord]
  BY DEF Init
<1>2. RegistryOK(reuse)
  <2>1. Reuse!NoRecord \in Records /\ Reuse!NoRecord.st = "none"
    BY DEF Reuse!NoRecord, Records
  <2>2. \A k \in ReuseKeys : RecordOK(k, reuse[k])
    BY <1>1, <2>1 DEF RecordOK
  <2> QED
    BY <1>1, <2>2, RegistryIs
<1>3. registry \in [Sims -> Shows] /\ \A s \in Sims : registry[s].st = ""
  <2>1. [run |-> NoRun, st |-> ""] \in Shows
    BY DEF Shows, States
  <2> QED
    BY <2>1 DEF Init
<1>4. said \in Words
  BY DEF Init, NothingSaid, Words, Lifecycle
<1>5. waited \in [Paths -> 0 .. Window]
  <2>1. 0 \in 0 .. Window
    BY AgendaAssumption
  <2> QED
    BY <2>1 DEF Init
<1>6. WorldOK
  BY <1>2, <1>3, <1>4, <1>5 DEF Init, WorldOK, CmdStates, JobStates, Words
<1>7. op.kind = "idle" /\ op = Idle /\ disk = NoCampaign
  BY DEF Init, Idle
<1> QED
  BY <1>6, <1>7 DEF Structure, DiskOK, OpOK, TickOK, StopOK

\* Every step keeps it.
LEMMA StructureStep == Structure /\ [Next]_vars => Structure'
<1> SUFFICES ASSUME Structure, [Next]_vars
             PROVE  Structure'
  OBVIOUS
<1>1. CASE Tick
  BY <1>1, TickStartKeeps, RunStepsKeeps, AckTimeoutKeeps, SubmitErrorKeeps, TickEndKeeps DEF Tick
<1>2. CASE Stop
  BY <1>2, StopStartKeeps, StopKeeps DEF Stop
<1>3. CASE Crash \/ Elapse
  BY <1>3, CrashKeeps, ElapseKeeps
<1>4. CASE TakeCallbacks \/ CreateCampaign \/ RecordConclusion
  BY <1>4, ToolsKeep
<1>5. CASE \E a \in acks : AckArrives(a)
  BY <1>5, AckArrivesKeeps
<1>6. CASE \E r \in Runs : Receive(r) \/ Progress(r) \/ ClientDies(r) \/ Report(r)
  BY <1>6, ReceiveKeeps, ProgressKeeps, ReportKeeps
<1>7. CASE \E d \in Direct : DirectSubmit(d) \/ DirectTimeout(d) \/ RememberDirect(d)
  BY <1>7, DirectKeeps
<1>8. CASE \/ \E p \in Paths : AddLeaf(p) \/ Approve(p) \/ RecordAnalysis(p)
           \/ \E s \in {"running", "paused", "stopped"} : SetState(s)
  BY <1>8, ToolsKeep
<1>9. CASE \E force \in BOOLEAN : DeleteCampaign(force)
  BY <1>9, DeleteKeeps
<1>10. CASE UNCHANGED vars
  <2>1. WorldOK'
    BY <1>10 DEF vars, Structure, WorldOK, RegistryOK, RecordOK
  <2> QED
    BY <1>10, <2>1, Untouched DEF vars
<1> QED
  BY <1>1, <1>2, <1>3, <1>4, <1>5, <1>6, <1>7, <1>8, <1>9, <1>10 DEF Next

\* The campaign on disk is well formed, what a tick holds in memory is the same campaign
\* but for its leaves, its steps still hold, and a stop asks for every job that may live.
THEOREM AgendaStructure == Spec => []Structure
  BY StructureInit, StructureStep, PTL DEF Spec

-----------------------------------------------------------------------------
(* The type invariant, what the tools acknowledged, and the stop. *)

\* The type invariant follows from the structure.
LEMMA StructureTypes == Structure => TypeOK
<1> SUFFICES ASSUME Structure
             PROVE  TypeOK
  OBVIOUS
<1>1. WorldOK
  BY DEF Structure
<1>2. ASSUME disk # NoCampaign
      PROVE  /\ Range(disk.order) = DOMAIN disk.leaf /\ disk.state \in {"running", "paused", "stopped"}
             /\ \A p \in DOMAIN disk.leaf : disk.leaf[p].status \in Statuses
                                            /\ disk.leaf[p].run \in Runs \cup {NoRun}
  <2>1. WellFormed(disk)
    BY <1>2 DEF Structure, DiskOK
  <2>2. \A p \in DOMAIN disk.leaf : disk.leaf[p] \in Leaf
    BY <2>1, WalkLeaves DEF WellFormed
  <2>3. disk.state \in {"running", "paused", "stopped"} /\ Range(disk.order) = DOMAIN disk.leaf
    BY <2>1 DEF WellFormed, Campaigns, Lifecycle
  <2> QED
    BY <2>2, <2>3 DEF Leaf
<1>3. op.kind \in {"idle", "tick", "stop"}
  BY DEF Structure, OpOK, Idle
<1>4. \A k \in ReuseKeys : reuse[k].st \in {"none", "pending", "done"}
  BY <1>1 DEF WorldOK, RegistryOK, Records
<1> QED
  BY <1>1, <1>2, <1>3, <1>4 DEF TypeOK, WorldOK

\* The files, the operation in progress and the cluster have their types.
THEOREM AgendaTypes == Spec => []TypeOK
  BY AgendaStructure, StructureTypes, PTL

\* What the tools acknowledged is in the file; what was approved is a leaf of it.
SaidInv == disk # NoCampaign => UpdatesSurvive /\ said.approved \subseteq DOMAIN disk.leaf

\* A tick writes a campaign of which it did not change what the tools wrote.
LEMMA TickWrites ==
  ASSUME Structure,
         \/ Tick
         \/ \E a \in acks : AckArrives(a)
  PROVE  UNCHANGED <<said, asked, told>> /\ (disk' = disk \/ (disk # NoCampaign /\ Kin(disk, disk')))
<1>1. CASE TickStart
  <2>1. PICK before, folded, steps, c :
          Begins(before, folded, steps, c) /\ disk' = c /\ op' = Begun(before, steps, c)
    BY <1>1, TickStartIs
  <2> QED
    BY <1>1, <2>1 DEF Begins, TickStart, history
<1>2. CASE RunSteps
  <2>1. UNCHANGED <<said, asked, told>> /\ disk' = disk
    BY <1>2 DEF RunSteps, fileVars, history
  <2> QED
    BY <2>1
<1>3. ASSUME NEW out \in Answers, InTick, op.await # NoRun, Resolve(out)
      PROVE  disk # NoCampaign /\ Kin(disk, disk')
  <2>1. Kin(op.c, disk')
    BY <1>3, ResolveIs DEF Submitted, Changed
  <2>2. Kin(disk, op.c) /\ disk # NoCampaign
    BY <1>3 DEF Structure, OpOK, TickOK, InTick
  <2> QED
    BY <2>1, <2>2, KinTwice
<1>4. CASE AckTimeout \/ SubmitError
  BY <1>3, <1>4 DEF AckTimeout, SubmitError, Answers, history
<1>5. CASE TickEnd
  <2>1. Kin(disk, Skipped) /\ disk # NoCampaign
    BY <1>5, SkippedIs DEF TickEnd, Structure, OpOK, TickOK, InTick
  <2>2. PICK c : c = Skipped
    OBVIOUS
  <2>3. disk' = c /\ Kin(disk, c)
    BY <1>5, <2>1, <2>2 DEF TickEnd, Save
  <2> QED
    BY <1>5, <2>1, <2>3 DEF TickEnd, history
<1>6. ASSUME NEW a \in acks, AckArrives(a)
      PROVE  UNCHANGED <<said, asked, told>> /\ (disk' = disk \/ (disk # NoCampaign /\ Kin(disk, disk')))
  <2>1. CASE Awaits(a.run)
    <3>1. a \in Acks
      BY DEF Structure, WorldOK
    <3>2. op.await # NoRun /\ a.out \in Answers
      BY <2>1, <3>1, Names DEF Acks, Answers, Awaits
    <3>3. Resolve(a.out)
      BY <1>6, <2>1 DEF AckArrives
    <3> QED
      BY <1>3, <1>6, <2>1, <3>2, <3>3 DEF AckArrives, history, Awaits
  <2>2. CASE ~Awaits(a.run)
    <3>1. UNCHANGED <<said, asked, told>> /\ disk' = disk
      BY <1>6, <2>2 DEF AckArrives, history
    <3> QED
      BY <3>1
  <2> QED
    BY <2>1, <2>2
<1> QED
  BY <1>1, <1>2, <1>4, <1>5, <1>6 DEF Tick

\* What was acknowledged stays, at every step.
LEMMA SaidStep == Structure /\ SaidInv /\ [Next]_vars => SaidInv'
<1> SUFFICES ASSUME Structure, SaidInv, [Next]_vars
             PROVE  SaidInv'
  OBVIOUS
<1>1. said \in Words /\ (disk # NoCampaign => WellFormed(disk))
  BY SaidIs
<1>2. ASSUME UNCHANGED <<disk, said>>
      PROVE  SaidInv'
  BY <1>2 DEF SaidInv, UpdatesSurvive
<1>3. ASSUME disk # NoCampaign, Kin(disk, disk'), said' = said
      PROVE  SaidInv'
  BY <1>3 DEF SaidInv, UpdatesSurvive, Kin
<1>4. CASE Tick \/ \E a \in acks : AckArrives(a)
  BY <1>2, <1>3, <1>4, TickWrites
<1>5. CASE CreateCampaign
  <2>1. PICK c : c = Campaign(limit.seed)
    OBVIOUS
  <2>2. disk' = c /\ said' = NothingSaid /\ c.state = "running"
    BY <1>5, <2>1 DEF CreateCampaign, Save, Campaign
  <2> QED
    BY <2>2 DEF SaidInv, UpdatesSurvive, NothingSaid
<1>6. ASSUME NEW p \in Paths, AddLeaf(p)
      PROVE  SaidInv'
  <2>1. WellFormed(disk) /\ disk # NoCampaign /\ p \notin DOMAIN disk.leaf
    BY <1>1, <1>6 DEF AddLeaf
  <2>2. PICK d : d = [disk EXCEPT !.order = Append(@, p),
                            !.leaf = [q \in DOMAIN @ \cup {p} |-> IF q = p THEN NewLeaf ELSE @[q]]]
    OBVIOUS
  <2>3. /\ d.state = disk.state /\ d.analysed = disk.analysed /\ DOMAIN d.leaf = DOMAIN disk.leaf \cup {p}
        /\ \A q \in DOMAIN disk.leaf : d.leaf[q] = disk.leaf[q]
    <3>1. Added(disk, d, p)
      BY <2>1, <2>2, AddedIs
    <3> QED
      BY <3>1 DEF Added
  <2>4. disk' = d /\ said' = [said EXCEPT !.added = @ \cup {p}]
    BY <1>6, <2>2 DEF AddLeaf, Save
  <2>5. /\ said'.state = said.state /\ said'.approved = said.approved /\ said'.added = said.added \cup {p}
        /\ said'.analysed = said.analysed
    BY <1>1, <2>4 DEF Words
  <2> QED
    BY <2>1, <2>3, <2>4, <2>5 DEF SaidInv, UpdatesSurvive
<1>7. ASSUME NEW p \in Paths, Approve(p)
      PROVE  SaidInv'
  <2>1. p \in DOMAIN disk.leaf
    BY <1>7 DEF Approve
  <2>2. disk # NoCampaign /\ WellFormed(disk)
    <3>1. DOMAIN NoCampaign.leaf = {}
      BY DEF NoCampaign
    <3> QED
      BY <1>1, <2>1, <3>1
  <2>3. PICK d : d = [disk EXCEPT !.leaf[p].approved = TRUE]
    OBVIOUS
  <2>4. /\ d.state = disk.state /\ d.analysed = disk.analysed /\ DOMAIN d.leaf = DOMAIN disk.leaf
        /\ d.leaf[p].approved /\ \A q \in DOMAIN disk.leaf : q # p => d.leaf[q] = disk.leaf[q]
    BY <2>1, <2>2, <2>3, ApprovedIs DEF ApprovedAs
  <2>5. disk' = d /\ said' = [said EXCEPT !.approved = @ \cup {p}]
    BY <1>7, <2>3 DEF Approve, Save
  <2>6. /\ said'.state = said.state /\ said'.added = said.added /\ said'.approved = said.approved \cup {p}
        /\ said'.analysed = said.analysed
    BY <1>1, <2>5 DEF Words
  <2> QED
    BY <2>1, <2>2, <2>4, <2>5, <2>6 DEF SaidInv, UpdatesSurvive
<1>8. ASSUME NEW p \in Paths, RecordAnalysis(p)
      PROVE  SaidInv'
  <2>1. disk # NoCampaign /\ WellFormed(disk)
    <3>1. DOMAIN NoCampaign.leaf = {} /\ p \in DOMAIN disk.leaf
      BY <1>8 DEF NoCampaign, RecordAnalysis
    <3> QED
      BY <1>1, <3>1
  <2>2. PICK d : d = [disk EXCEPT !.analysed = @ \cup {p}]
    OBVIOUS
  <2>3. d.leaf = disk.leaf /\ d.state = disk.state /\ d.analysed = disk.analysed \cup {p}
    BY <2>1, <2>2, ToolNotes DEF Notes
  <2>4. disk' = d /\ said' = [said EXCEPT !.analysed = @ \cup {p}]
    BY <1>8, <2>2 DEF RecordAnalysis, Save
  <2>5. /\ said'.state = said.state /\ said'.added = said.added /\ said'.approved = said.approved
        /\ said'.analysed = said.analysed \cup {p}
    BY <1>1, <2>4 DEF Words
  <2> QED
    BY <2>1, <2>3, <2>4, <2>5 DEF SaidInv, UpdatesSurvive
<1>9. ASSUME NEW s \in Lifecycle, disk # NoCampaign, disk' = [disk EXCEPT !.state = s],
             said' = [said EXCEPT !.state = s]
      PROVE  SaidInv'
  <2>1. PICK d : d = [disk EXCEPT !.state = s]
    OBVIOUS
  <2>2. d.leaf = disk.leaf /\ d.state = s /\ d.analysed = disk.analysed
    BY <1>1, <1>9, <2>1, ToolNotes DEF Notes
  <2>3. /\ said'.state = s /\ said'.added = said.added /\ said'.approved = said.approved
        /\ said'.analysed = said.analysed
    BY <1>1, <1>9 DEF Words
  <2> QED
    BY <1>9, <2>1, <2>2, <2>3 DEF SaidInv, UpdatesSurvive
<1>10. ASSUME NEW s \in {"running", "paused", "stopped"}, SetState(s)
       PROVE  SaidInv'
  <2>1. s \in Lifecycle
    BY DEF Lifecycle
  <2> QED
    BY <1>9, <1>10, <2>1 DEF SetState, Save
<1>11. CASE StopStart
  <2>1. "stopped" \in Lifecycle
    BY DEF Lifecycle
  <2> QED
    BY <1>9, <1>11, <2>1 DEF StopStart, Save
<1>12. CASE RecordConclusion
  <2>1. PICK d : d = [disk EXCEPT !.concluded = TRUE]
    OBVIOUS
  <2>2. disk' = d /\ said' = said /\ disk # NoCampaign /\ WellFormed(disk)
    BY <1>1, <1>12, <2>1 DEF RecordConclusion, Save, history
  <2>3. d.leaf = disk.leaf /\ d.state = disk.state /\ d.analysed = disk.analysed
    BY <2>1, <2>2, ToolNotes DEF Notes
  <2> QED
    BY <2>2, <2>3 DEF SaidInv, UpdatesSurvive
<1>13. CASE TakeCallbacks
  <2>1. PICK d : d = [disk EXCEPT !.callbacks = <<>>]
    OBVIOUS
  <2>2. disk' = d /\ said' = said /\ disk # NoCampaign /\ WellFormed(disk)
    BY <1>1, <1>13, <2>1 DEF TakeCallbacks, Save, history
  <2>3. d.leaf = disk.leaf /\ d.state = disk.state /\ d.analysed = disk.analysed
    BY <2>1, <2>2, ToolNotes DEF Notes
  <2> QED
    BY <2>2, <2>3 DEF SaidInv, UpdatesSurvive
<1>14. ASSUME NEW force, DeleteCampaign(force)
       PROVE  SaidInv'
  BY <1>14 DEF DeleteCampaign, SaidInv
<1>15. CASE StopNext \/ StopEnd \/ Crash \/ Elapse
  BY <1>2, <1>15 DEF StopNext, StopEnd, Crash, Elapse, fileVars, history
<1>16. CASE \E r \in Runs : Receive(r) \/ Progress(r) \/ ClientDies(r) \/ Report(r)
  BY <1>2, <1>16 DEF Receive, Progress, ClientDies, Report, fileVars, history
<1>17. CASE \E d \in Direct : DirectSubmit(d) \/ DirectTimeout(d) \/ RememberDirect(d)
  BY <1>2, <1>17 DEF DirectSubmit, DirectTimeout, RememberDirect, fileVars, history
<1>18. CASE UNCHANGED vars
  BY <1>2, <1>18 DEF vars
<1> QED
  BY <1>4, <1>5, <1>6, <1>7, <1>8, <1>10, <1>11, <1>12, <1>13, <1>14, <1>15, <1>16, <1>17, <1>18
  DEF Next, Stop

\* What a tool acknowledged stays in the file, whatever operation holds the lock
\* (AgendaService._lock).
THEOREM AcknowledgedStays == Spec => []UpdatesSurvive
<1>1. Init => SaidInv
  BY DEF Init, SaidInv
<1>2. SaidInv => UpdatesSurvive
  BY DEF SaidInv, UpdatesSurvive
<1> QED
  BY <1>1, <1>2, SaidStep, AgendaStructure, PTL DEF Spec

\* Only the end of a stop changes what was asked while it is in progress.
LEMMA AskedIs ==
  ASSUME Structure, [Next]_vars, op.kind = "stop", asked' # asked
  PROVE  asked' = op.asked
<1>1. ~Locked /\ ~InTick
  BY DEF Locked, Idle, InTick
<1>2. CASE Tick \/ \E a \in acks : AckArrives(a)
  BY <1>2, TickWrites
<1>3. CASE Stop
  BY <1>1, <1>3 DEF Stop, StopStart, StopNext, StopEnd, history
<1>4. CASE Crash \/ Elapse
  BY <1>4 DEF Crash, Elapse, history
<1>5. CASE TakeCallbacks \/ CreateCampaign \/ RecordConclusion
  BY <1>1, <1>5 DEF TakeCallbacks, CreateCampaign, RecordConclusion
<1>6. CASE \E r \in Runs : Receive(r) \/ Progress(r) \/ ClientDies(r) \/ Report(r)
  BY <1>6 DEF Receive, Progress, ClientDies, Report, history
<1>7. CASE \E d \in Direct : DirectSubmit(d) \/ DirectTimeout(d) \/ RememberDirect(d)
  BY <1>7 DEF DirectSubmit, DirectTimeout, RememberDirect, history
<1>8. CASE \/ \E p \in Paths : AddLeaf(p) \/ Approve(p) \/ RecordAnalysis(p)
           \/ \E s \in {"running", "paused", "stopped"} : SetState(s)
           \/ \E force \in BOOLEAN : DeleteCampaign(force)
  BY <1>1, <1>8 DEF AddLeaf, Approve, RecordAnalysis, SetState, DeleteCampaign
<1>9. CASE UNCHANGED vars
  BY <1>9 DEF vars
<1> QED
  BY <1>2, <1>3, <1>4, <1>5, <1>6, <1>7, <1>8, <1>9 DEF Next

\* When stop_agenda returns it has asked to cancel every live job it can know of, also of
\* a leaf that is still planned because the outcome of its submission was unknown.
THEOREM StopReaches == Spec => StopReachesEveryJob
<1>1. Structure /\ [Next]_vars =>
        [op.kind = "stop" /\ asked' # asked =>
           \A p \in DOMAIN disk.leaf :
             job[p] \in Live /\ disk.leaf[p].sim # NoSim /\ disk.leaf[p].status \notin Ended
                 => SpecAt[p].sim \in asked']_vars
  <2> SUFFICES ASSUME Structure, [Next]_vars, op.kind = "stop", asked' # asked,
                      NEW p \in DOMAIN disk.leaf,
                      disk.leaf[p].sim # NoSim, disk.leaf[p].status \notin Ended
               PROVE  SpecAt[p].sim \in asked'
    OBVIOUS
  <2>1. asked' = op.asked
    BY AskedIs
  <2>2. /\ disk # NoCampaign
        /\ op.asked = {disk.leaf[q].sim : q \in {x \in DOMAIN disk.leaf : MayBeLive(disk.leaf[x])}}
    BY DEF Structure, OpOK, StopOK
  <2>3. disk.leaf[p].sim = SpecAt[p].sim
    BY <2>2 DEF Structure, DiskOK, WellFormed
  <2>4. disk.leaf[p].sim \in op.asked
    BY <2>2 DEF MayBeLive
  <2> QED
    BY <2>1, <2>3, <2>4
<1> QED
  BY <1>1, AgendaStructure, PTL DEF Spec, StopReachesEveryJob

-----------------------------------------------------------------------------
(* What the files claim of a simulation is true. *)

HasRun(s, states) == \E r \in Runs : SimOf[r] = s /\ job[r] \in states

\* A run that failed: it was refused, or its job failed or was cancelled.
HasFailure(s) == \E r \in Runs : SimOf[r] = s /\ (cmd[r] = "refused" \/ job[r] \in {"failed", "cancelled"})

\* The cluster and the simclient's answers agree: a command that was not handled has no job,
\* results that were announced are there, and a refusal that was answered was recorded.
ClusterTrue ==
    /\ \A r \in Runs : cmd[r] = "none" => job[r] = "none"
    /\ \A r \in Runs : shown[r] = "ready" => job[r] = "ready"
    /\ \A a \in acks : a.out = "refused" \/ a.st = "failed" => cmd[a.run] = "refused"
    /\ \A a \in acks : a.st \in {"", "accepted", "workflow_finished", "failed"}

\* What the registry shows of a simulation is true of the run it shows.
ShownTrue(s, w) ==
    w.st # "" =>
        /\ SimOf[w.run] = s
        /\ w.st = "job_finished" => job[w.run] \in {"finished", "ready"}
        /\ w.st = "results_ready" => job[w.run] = "ready"
        /\ w.st = "job_failed" => job[w.run] = "failed"
        /\ w.st = "cancelled" => job[w.run] = "cancelled"
        /\ w.st = "failed" => cmd[w.run] = "refused"
RegistryTrue == \A s \in Sims : ShownTrue(s, registry[s])

\* What a tick observed is true.
ObservedTrue ==
    op.kind = "tick" => \A s \in Sims : op.observed[s] = "results_ready" => HasRun(s, {"ready"})

\* What a leaf claims is true of the runs of its simulation.
LeafTrue(p, l) ==
    /\ l.status = "done" => HasRun(SpecAt[p].sim, {"finished", "ready"})
    /\ l.status = "failed" => \/ l.why = "dependency"
                              \/ l.why = "outcome_unknown" /\ waited[p] = Window
                              \/ l.why = "error" /\ p \in spent.raised
                              \/ HasFailure(SpecAt[p].sim)
CampaignTrue(c) == \A p \in DOMAIN c.leaf : LeafTrue(p, c.leaf[p])
CampaignsTrue == /\ disk # NoCampaign => CampaignTrue(disk)
                 /\ op.kind = "tick" => CampaignTrue(op.c)

\* Nothing that was true of a run stops being true.
Forward ==
    \A r \in Runs :
        /\ job[r] = "ready" => job'[r] = "ready"
        /\ job[r] \in {"finished", "ready"} => job'[r] \in {"finished", "ready"}
        /\ job[r] = "failed" => job'[r] = "failed"
        /\ job[r] = "cancelled" => job'[r] = "cancelled"
        /\ cmd[r] = "refused" => cmd'[r] = "refused"

\* Nor is it forgotten which submissions raised.
Onward == Forward /\ spent.raised \subseteq spent'.raised
SpentOK == "raised" \in DOMAIN spent

\* At every step.
LEMMA SpentStep ==
  ASSUME SpentOK, [Next]_vars
  PROVE  SpentOK' /\ spent.raised \subseteq spent'.raised
<1>1. CASE UNCHANGED spent
  BY <1>1 DEF SpentOK
<1>2. ASSUME NEW field, NEW value, field # "raised", spent' = [spent EXCEPT ![field] = value]
      PROVE  SpentOK' /\ spent.raised \subseteq spent'.raised
  BY <1>2 DEF SpentOK
<1>3. CASE TickStart \/ RunSteps \/ TickEnd
  BY <1>1, <1>3 DEF TickStart, RunSteps, TickEnd
<1>4. CASE AckTimeout
  BY <1>2, <1>4 DEF AckTimeout
<1>5. CASE SubmitError
  BY <1>5 DEF SubmitError, SpentOK
<1>6. CASE Stop \/ Crash
  BY <1>1, <1>2, <1>6 DEF Stop, StopStart, StopNext, StopEnd, Crash, Agent
<1>7. CASE Elapse \/ TakeCallbacks \/ CreateCampaign \/ RecordConclusion
  BY <1>1, <1>2, <1>7 DEF Elapse, TakeCallbacks, CreateCampaign, RecordConclusion, Agent
<1>8. CASE \E a \in acks : AckArrives(a)
  BY <1>1, <1>8 DEF AckArrives
<1>9. CASE \E r \in Runs : Receive(r) \/ Progress(r) \/ ClientDies(r) \/ Report(r)
  BY <1>1, <1>2, <1>9 DEF Receive, Progress, ClientDies, Report
<1>10. CASE \E d \in Direct : DirectSubmit(d) \/ DirectTimeout(d) \/ RememberDirect(d)
  BY <1>1, <1>2, <1>10 DEF DirectSubmit, DirectTimeout, RememberDirect, Agent
<1>11. CASE \/ \E p \in Paths : AddLeaf(p) \/ Approve(p) \/ RecordAnalysis(p)
            \/ \E s \in {"running", "paused", "stopped"} : SetState(s)
            \/ \E force \in BOOLEAN : DeleteCampaign(force)
  BY <1>1, <1>2, <1>11 DEF AddLeaf, Approve, RecordAnalysis, SetState, DeleteCampaign, Agent
<1>12. CASE UNCHANGED vars
  BY <1>1, <1>12 DEF vars
<1> QED
  BY <1>3, <1>4, <1>5, <1>6, <1>7, <1>8, <1>9, <1>10, <1>11, <1>12 DEF Next, Tick

\* The cluster and the answers are left alone by most steps.
LEMMA ClusterAlone ==
  ASSUME Structure, [Next]_vars,
         ~ \E r \in Runs : Receive(r) \/ Progress(r) \/ ClientDies(r) \/ Report(r),
         ~ \E a \in acks : AckArrives(a),
         ~ StopNext
  PROVE  UNCHANGED <<acks, cmd, job, shown, registry>>
<1>1. CASE Tick
  BY <1>1 DEF Tick, TickStart, RunSteps, AckTimeout, SubmitError, TickEnd, clusterVars
<1>2. CASE StopStart \/ StopEnd \/ Crash \/ Elapse
  BY <1>2 DEF StopStart, StopEnd, Crash, Elapse, clusterVars
<1>3. CASE TakeCallbacks \/ CreateCampaign \/ RecordConclusion
  BY <1>3 DEF TakeCallbacks, CreateCampaign, RecordConclusion, OnlyFile, clusterVars
<1>4. CASE \E d \in Direct : DirectSubmit(d) \/ DirectTimeout(d) \/ RememberDirect(d)
  BY <1>4 DEF DirectSubmit, DirectTimeout, RememberDirect, clusterVars
<1>5. CASE \/ \E p \in Paths : AddLeaf(p) \/ Approve(p) \/ RecordAnalysis(p)
           \/ \E s \in {"running", "paused", "stopped"} : SetState(s)
           \/ \E force \in BOOLEAN : DeleteCampaign(force)
  BY <1>5 DEF AddLeaf, Approve, RecordAnalysis, SetState, DeleteCampaign, OnlyFile, clusterVars
<1>6. CASE UNCHANGED vars
  BY <1>6 DEF vars, clusterVars
<1> QED
  BY <1>1, <1>2, <1>3, <1>4, <1>5, <1>6 DEF Next, Stop

\* A command that is handled.
LEMMA ReceiveTrue ==
  ASSUME Structure, ClusterTrue, NEW r \in Runs, Receive(r)
  PROVE  Forward /\ ClusterTrue'
<1>1. cmd \in [Runs -> CmdStates] /\ job \in [Runs -> JobStates] /\ acks \subseteq Acks
  BY DEF Structure, WorldOK
<1>2. Forward
  <2>1. CASE UNCHANGED <<cmd, job>>
    BY <2>1 DEF Forward
  <2>2. CASE cmd[r] = "none" /\ cmd' = [cmd EXCEPT ![r] = "pending"] /\ job' = [job EXCEPT ![r] = "building"]
    BY <1>1, <2>2 DEF Forward, ClusterTrue
  <2>3. CASE cmd[r] = "none" /\ cmd' = [cmd EXCEPT ![r] = "refused"] /\ UNCHANGED job
    BY <1>1, <2>3 DEF Forward
  <2> QED
    BY <2>1, <2>2, <2>3 DEF Receive
<1>3. (\A x \in Runs : cmd'[x] = "none" => job'[x] = "none") /\ shown' = shown
  BY <1>1 DEF Receive, ClusterTrue
<1>4. \A x \in Runs : shown'[x] = "ready" => job'[x] = "ready"
  BY <1>2, <1>3 DEF Forward, ClusterTrue
<1>5. ASSUME NEW b, Send(b), b.run = r,
             b.out = "refused" \/ b.st = "failed" => cmd'[r] = "refused",
             b.st \in {"", "accepted", "workflow_finished", "failed"}
      PROVE  \A a \in acks' : /\ a.out = "refused" \/ a.st = "failed" => cmd'[a.run] = "refused"
                              /\ a.st \in {"", "accepted", "workflow_finished", "failed"}
  <2>1. ASSUME NEW a \in acks'
        PROVE  /\ a.out = "refused" \/ a.st = "failed" => cmd'[a.run] = "refused"
               /\ a.st \in {"", "accepted", "workflow_finished", "failed"}
    <3>1. CASE a = b
      BY <1>5, <3>1
    <3>2. CASE a \in acks
      <4>1. a.run \in Runs
        BY <1>1, <3>2 DEF Acks
      <4> QED
        BY <1>2, <3>2, <4>1 DEF ClusterTrue, Forward
    <3> QED
      BY <1>5, <2>1, <3>1, <3>2 DEF Send
  <2> QED
    BY <2>1
<1>6. \A a \in acks' : /\ a.out = "refused" \/ a.st = "failed" => cmd'[a.run] = "refused"
                       /\ a.st \in {"", "accepted", "workflow_finished", "failed"}
  <2>1. CASE cmd[r] = "none" /\ Send(Ack(r, "accepted", "accepted"))
    <3>1. PICK b : b = Ack(r, "accepted", "accepted")
      OBVIOUS
    <3>2. b.run = r /\ b.out = "accepted" /\ b.st = "accepted" /\ Send(b)
      BY <2>1, <3>1 DEF Ack
    <3> QED
      BY <1>5, <3>2
  <2>2. CASE cmd[r] = "none" /\ Send(Ack(r, "refused", "failed")) /\ cmd' = [cmd EXCEPT ![r] = "refused"]
    <3>1. PICK b : b = Ack(r, "refused", "failed")
      OBVIOUS
    <3>2. b.run = r /\ b.st = "failed" /\ Send(b) /\ cmd'[r] = "refused"
      BY <1>1, <2>2, <3>1 DEF Ack
    <3> QED
      BY <1>5, <3>2
  <2>3. CASE cmd[r] # "none" /\ Send(Replay(r)) /\ UNCHANGED <<cmd, job>>
    <3>1. cmd[r] \in {"pending", "done", "refused"}
      BY <1>1, <2>3 DEF CmdStates
    <3>2. CASE cmd[r] = "pending"
      <4>1. PICK b : b = Ack(r, "unknown", "")
        OBVIOUS
      <4>2. b.run = r /\ b.out = "unknown" /\ b.st = "" /\ Send(b)
        BY <2>3, <3>2, <4>1 DEF Ack, Replay
      <4> QED
        BY <1>5, <4>2
    <3>3. CASE cmd[r] = "done"
      <4>1. PICK b : b = Ack(r, "accepted", "workflow_finished")
        OBVIOUS
      <4>2. b.run = r /\ b.out = "accepted" /\ b.st = "workflow_finished" /\ Send(b)
        BY <2>3, <3>3, <4>1 DEF Ack, Replay
      <4> QED
        BY <1>5, <4>2
    <3>4. CASE cmd[r] = "refused"
      <4>1. PICK b : b = Ack(r, "refused", "failed")
        OBVIOUS
      <4>2. b.run = r /\ b.st = "failed" /\ Send(b) /\ cmd'[r] = "refused"
        BY <2>3, <3>4, <4>1 DEF Ack, Replay
      <4> QED
        BY <1>5, <4>2
    <3> QED
      BY <3>1, <3>2, <3>3, <3>4
  <2> QED
    BY <2>1, <2>2, <2>3 DEF Receive
<1> QED
  BY <1>2, <1>3, <1>4, <1>6 DEF ClusterTrue

\* A job only moves forward, and its cluster stays true.
LEMMA JobTrue ==
  ASSUME Structure, ClusterTrue, NEW r \in Runs, NEW next \in JobStates,
         \/ job[r] \in {"building", "running"}
         \/ job[r] = "finished" /\ next = "ready",
         job' = [job EXCEPT ![r] = next],
         \/ UNCHANGED cmd
         \/ cmd[r] = "pending" /\ \E s \in {"done", "refused"} : cmd' = [cmd EXCEPT ![r] = s],
         UNCHANGED <<acks, shown>>
  PROVE  Forward /\ ClusterTrue'
<1>1. cmd \in [Runs -> CmdStates] /\ job \in [Runs -> JobStates] /\ acks \subseteq Acks
  BY DEF Structure, WorldOK
<1>2. Forward
  BY <1>1 DEF Forward
<1>3. \A x \in Runs : cmd'[x] = "none" => job'[x] = "none"
  BY <1>1 DEF ClusterTrue
<1>4. \A x \in Runs : shown'[x] = "ready" => job'[x] = "ready"
  BY <1>2 DEF Forward, ClusterTrue
<1>5. \A a \in acks' : /\ a.out = "refused" \/ a.st = "failed" => cmd'[a.run] = "refused"
                       /\ a.st \in {"", "accepted", "workflow_finished", "failed"}
  <2>1. \A a \in acks : a.run \in Runs
    BY <1>1 DEF Acks
  <2> QED
    BY <1>2, <2>1 DEF ClusterTrue, Forward
<1> QED
  BY <1>3, <1>4, <1>5, <1>2 DEF ClusterTrue

\* At every step the cluster moves forward and stays true.
LEMMA ClusterStep ==
  ASSUME Structure, ClusterTrue, [Next]_vars
  PROVE  Forward /\ ClusterTrue'
<1>0. cmd \in [Runs -> CmdStates] /\ job \in [Runs -> JobStates] /\ shown \in [Runs -> JobStates]
  BY DEF Structure, WorldOK
<1>1. ASSUME NEW r \in Runs, Receive(r)
      PROVE  Forward /\ ClusterTrue'
  BY <1>1, ReceiveTrue
<1>2. ASSUME NEW r \in Runs, Progress(r)
      PROVE  Forward /\ ClusterTrue'
  <2>1. PICK next \in CASE job[r] = "building" -> {"running", "failed"}
                     [] job[r] = "running" -> {"finished", "failed"}
                     [] job[r] = "finished" -> {"ready"}
                     [] OTHER -> {} :
            /\ job' = [job EXCEPT ![r] = next]
            /\ cmd' = IF job[r] # "building" \/ cmd[r] # "pending" THEN cmd
                      ELSE [cmd EXCEPT ![r] = IF next = "running" THEN "done" ELSE "refused"]
    BY <1>2 DEF Progress
  <2>2. next \in {"running", "failed", "finished", "ready"}
        /\ (job[r] \in {"building", "running"} \/ (job[r] = "finished" /\ next = "ready"))
    <3>1. CASE job[r] = "building"
      BY <2>1, <3>1
    <3>2. CASE job[r] = "running"
      BY <2>1, <3>2
    <3>3. CASE job[r] = "finished"
      BY <2>1, <3>3
    <3>4. CASE job[r] \notin {"building", "running", "finished"}
      BY <2>1, <3>4
    <3> QED
      BY <3>1, <3>2, <3>3, <3>4
  <2>3. next \in JobStates
    BY <2>2 DEF JobStates
  <2>4. \/ UNCHANGED cmd
        \/ cmd[r] = "pending" /\ \E s \in {"done", "refused"} : cmd' = [cmd EXCEPT ![r] = s]
    BY <2>1
  <2>5. job' = [job EXCEPT ![r] = next] /\ UNCHANGED <<acks, shown>>
    BY <1>2, <2>1 DEF Progress
  <2> QED
    BY <2>2, <2>3, <2>4, <2>5, JobTrue
<1>3. ASSUME NEW r \in Runs, ClientDies(r)
      PROVE  Forward /\ ClusterTrue'
  <2>1. PICK next \in {"lost", "running"} : job' = [job EXCEPT ![r] = next]
    BY <1>3 DEF ClientDies
  <2>2. next \in JobStates /\ job[r] = "building" /\ UNCHANGED <<cmd, acks, shown>>
    BY <1>3 DEF ClientDies, JobStates
  <2> QED
    BY <2>1, <2>2, JobTrue
<1>4. ASSUME NEW r \in Runs, Report(r)
      PROVE  Forward /\ ClusterTrue'
  <2>1. UNCHANGED <<cmd, job, acks>> /\ shown' = [shown EXCEPT ![r] = job[r]]
    BY <1>4 DEF Report
  <2> QED
    BY <1>0, <2>1 DEF Forward, ClusterTrue
<1>5. ASSUME NEW a \in acks, AckArrives(a)
      PROVE  Forward /\ ClusterTrue'
  BY <1>5 DEF AckArrives, Forward, ClusterTrue
<1>6. CASE StopNext
  <2>1. UNCHANGED <<cmd, acks, shown>>
    BY <1>6 DEF StopNext
  <2>2. CASE UNCHANGED job
    BY <2>1, <2>2 DEF Forward, ClusterTrue
  <2>3. CASE \E r \in Runs : job[r] \in Live /\ job' = [job EXCEPT ![r] = "cancelled"]
    <3>1. PICK r \in Runs : job[r] \in Live /\ job' = [job EXCEPT ![r] = "cancelled"]
      BY <2>3
    <3>2. job[r] = "running" /\ "cancelled" \in JobStates
      BY <3>1 DEF Live, JobStates
    <3> QED
      BY <2>1, <3>1, <3>2, JobTrue
  <2> QED
    BY <1>6, <2>2, <2>3 DEF StopNext
<1>7. CASE UNCHANGED <<acks, cmd, job, shown, registry>>
  BY <1>7 DEF Forward, ClusterTrue
<1> QED
  BY <1>1, <1>2, <1>3, <1>4, <1>5, <1>6, <1>7, ClusterAlone

\* What is shown of a run stays true.
LEMMA ShownStays ==
  ASSUME Forward, NEW s, NEW w, ShownTrue(s, w), w.st # "" => w.run \in Runs
  PROVE  ShownTrue(s, w)'
<1>1. CASE w.st = ""
  BY <1>1 DEF ShownTrue
<1>2. CASE w.st # ""
  BY <1>2 DEF ShownTrue, Forward
<1> QED
  BY <1>1, <1>2

\* At every step what the registry shows stays true.
LEMMA RegistryStep ==
  ASSUME Structure, ClusterTrue, RegistryTrue, [Next]_vars
  PROVE  RegistryTrue'
<1>1. Forward
  BY ClusterStep
<1>2. /\ registry \in [Sims -> Shows] /\ \A s \in Sims : registry[s].st # "" => registry[s].run \in Runs
      /\ acks \subseteq Acks
  BY DEF Structure, WorldOK
<1>3. ASSUME NEW s \in Sims
      PROVE  ShownTrue(s, registry[s])'  \/ registry'[s] # registry[s]
  <2>1. PICK w : w = registry[s]
    OBVIOUS
  <2>2. ShownTrue(s, w)'
    BY <1>1, <1>2, <2>1, ShownStays DEF RegistryTrue
  <2>3. CASE registry'[s] = w
    BY <2>2, <2>3
  <2> QED
    BY <2>1, <2>3
<1>4. CASE UNCHANGED registry
  BY <1>3, <1>4 DEF RegistryTrue
<1>5. ASSUME NEW s \in Sims, NEW w \in Shows, registry' = [registry EXCEPT ![s] = w], ShownTrue(s, w)'
      PROVE  RegistryTrue'
  <2>1. ASSUME NEW x \in Sims
        PROVE  ShownTrue(x, registry[x])'
    <3>1. CASE x = s
      <4>1. registry'[x] = w
        BY <1>2, <1>5, <3>1
      <4> QED
        BY <1>5, <3>1, <4>1
    <3>2. CASE x # s
      <4>1. registry'[x] = registry[x]
        BY <1>2, <1>5, <3>2
      <4> QED
        BY <1>3, <4>1
    <3> QED
      BY <3>1, <3>2
  <2> QED
    BY <2>1 DEF RegistryTrue
<1>6. ASSUME NEW r \in Runs, Report(r)
      PROVE  RegistryTrue'
  <2>1. PICK w : w = [run |-> r, st |-> StateOf[job[r]]]
    OBVIOUS
  <2>2. PICK s \in Sims : s = SimOf[r]
    BY Names
  <2>3. registry' = [registry EXCEPT ![s] = w] /\ job' = job /\ cmd' = cmd /\ job[r] \in DOMAIN StateOf
    BY <1>6, <2>1, <2>2 DEF Report
  <2>4. ShownTrue(s, w)
    <3>1. job[r] \in {"running", "finished", "ready", "failed", "cancelled"}
      BY <2>3 DEF StateOf
    <3>2. CASE job[r] = "running"
      BY <2>1, <2>2, <3>2 DEF ShownTrue, StateOf
    <3>3. CASE job[r] = "finished"
      BY <2>1, <2>2, <3>3 DEF ShownTrue, StateOf
    <3>4. CASE job[r] = "ready"
      BY <2>1, <2>2, <3>4 DEF ShownTrue, StateOf
    <3>5. CASE job[r] = "failed"
      BY <2>1, <2>2, <3>5 DEF ShownTrue, StateOf
    <3>6. CASE job[r] = "cancelled"
      BY <2>1, <2>2, <3>6 DEF ShownTrue, StateOf
    <3> QED
      BY <3>1, <3>2, <3>3, <3>4, <3>5, <3>6
  <2>5. w \in Shows
    <3>1. registry' \in [Sims -> Shows]
      BY <1>6, ReportKeeps DEF Structure, WorldOK
    <3>2. registry'[s] = w
      BY <1>2, <2>3
    <3> QED
      BY <3>1, <3>2
  <2>6. ShownTrue(s, w)'
    BY <1>1, <2>1, <2>4, ShownStays
  <2> QED
    BY <1>5, <2>3, <2>5, <2>6
<1>7. ASSUME NEW a \in acks, AckArrives(a)
      PROVE  RegistryTrue'
  <2>1. a \in Acks /\ SimOf[a.run] \in Sims
    BY <1>7, AckRegisters DEF Structure
  <2>2. PICK w \in Shows :
          /\ registry' = [registry EXCEPT ![SimOf[a.run]] = w] /\ w.run = a.run
          /\ \/ w.st = a.st
             \/ registry[SimOf[a.run]].run = a.run /\ w = registry[SimOf[a.run]]
    BY <1>7, AckRegisters DEF Structure
  <2>3. PICK s \in Sims : s = SimOf[a.run]
    BY <2>1
  <2>4. ShownTrue(s, w)
    <3>1. CASE w.st = a.st
      <4>1. a.st \in {"", "accepted", "workflow_finished", "failed"}
            /\ (a.st = "failed" => cmd[a.run] = "refused")
        BY DEF ClusterTrue
      <4>2. w.st # "job_finished" /\ w.st # "results_ready" /\ w.st # "job_failed" /\ w.st # "cancelled"
        BY <3>1, <4>1
      <4> QED
        BY <2>2, <2>3, <3>1, <4>1, <4>2 DEF ShownTrue
    <3>2. CASE w = registry[s]
      BY <3>2 DEF RegistryTrue
    <3> QED
      BY <2>2, <2>3, <3>1, <3>2
  <2>5. w.run \in Runs
    BY <2>1, <2>2 DEF Acks
  <2>6. ShownTrue(s, w)'
    BY <1>1, <2>4, <2>5, ShownStays
  <2> QED
    BY <1>5, <2>2, <2>3, <2>6
<1>8. ASSUME NEW r \in Runs, Receive(r) \/ Progress(r) \/ ClientDies(r)
      PROVE  RegistryTrue'
  BY <1>4, <1>8 DEF Receive, Progress, ClientDies
<1>9. CASE StopNext
  BY <1>4, <1>9 DEF StopNext
<1> QED
  BY <1>4, <1>6, <1>7, <1>8, <1>9, ClusterAlone

\* A run that exists goes on to exist.
LEMMA RunsStay ==
  ASSUME Forward, NEW s
  PROVE  /\ HasRun(s, {"ready"}) => HasRun(s, {"ready"})'
         /\ HasRun(s, {"finished", "ready"}) => HasRun(s, {"finished", "ready"})'
         /\ HasFailure(s) => HasFailure(s)'
         /\ HasRun(s, {"ready"}) => HasRun(s, {"finished", "ready"})
<1>1. HasRun(s, {"ready"}) => HasRun(s, {"ready"})'
  BY DEF HasRun, Forward
<1>2. HasRun(s, {"finished", "ready"}) => HasRun(s, {"finished", "ready"})'
  BY DEF HasRun, Forward
<1>3. HasFailure(s) => HasFailure(s)'
  BY DEF HasFailure, Forward
<1>4. HasRun(s, {"ready"}) => HasRun(s, {"finished", "ready"})
  BY DEF HasRun
<1> QED
  BY <1>1, <1>2, <1>3, <1>4

\* What the registry shows of a simulation says of its runs.
LEMMA RegistrySays ==
  ASSUME Structure, RegistryTrue, NEW s \in Sims
  PROVE  /\ registry[s].st = "results_ready" => HasRun(s, {"ready"})
         /\ registry[s].st \in {"job_finished", "results_ready"} => HasRun(s, {"finished", "ready"})
         /\ registry[s].st \in {"failed", "job_failed", "cancelled"} => HasFailure(s)
<1>1. PICK w : w = registry[s]
  OBVIOUS
<1>2. ShownTrue(s, w) /\ (w.st # "" => w.run \in Runs)
  BY <1>1 DEF Structure, WorldOK, RegistryTrue
<1>3. CASE w.st = "results_ready"
  BY <1>1, <1>2, <1>3 DEF ShownTrue, HasRun
<1>4. CASE w.st = "job_finished"
  BY <1>1, <1>2, <1>4 DEF ShownTrue, HasRun
<1>5. CASE w.st = "failed"
  BY <1>1, <1>2, <1>5 DEF ShownTrue, HasFailure
<1>6. CASE w.st = "job_failed"
  BY <1>1, <1>2, <1>6 DEF ShownTrue, HasFailure
<1>7. CASE w.st = "cancelled"
  BY <1>1, <1>2, <1>7 DEF ShownTrue, HasFailure
<1>8. CASE w.st \notin {"results_ready", "job_finished", "failed", "job_failed", "cancelled"}
  BY <1>1, <1>8
<1> QED
  BY <1>3, <1>4, <1>5, <1>6, <1>7, <1>8

\* At every step what a tick observed stays true.
LEMMA ObservedStep ==
  ASSUME Structure, ClusterTrue, RegistryTrue, ObservedTrue, [Next]_vars
  PROVE  ObservedTrue'
<1>1. Forward
  BY ClusterStep
<1>2. ASSUME op.kind = "tick", op'.observed = op.observed
      PROVE  ObservedTrue'
  BY <1>1, <1>2, RunsStay DEF ObservedTrue
<1>3. CASE op'.kind # "tick"
  BY <1>3 DEF ObservedTrue
<1>4. CASE UNCHANGED op
  BY <1>2, <1>3, <1>4
<1>5. CASE TickStart
  <2>1. PICK before, folded, steps, c :
          Begins(before, folded, steps, c) /\ disk' = c /\ op' = Begun(before, steps, c)
    BY <1>5, TickStartIs
  <2>2. \A s \in Sims : op'.observed[s] = registry[s].st
    BY <2>1 DEF Begun
  <2>3. \A s \in Sims : registry[s].st = "results_ready" => HasRun(s, {"ready"})'
    BY <1>1, RegistrySays, RunsStay
  <2> QED
    BY <2>2, <2>3 DEF ObservedTrue
<1>6. CASE RunSteps
  <2>1. op.kind = "tick" /\ op'.observed = op.observed
    BY <1>6, RunStepsIs DEF RunSteps, InTick
  <2> QED
    BY <1>2, <2>1
<1>7. ASSUME NEW out \in Answers, InTick, op.await # NoRun, Resolve(out)
      PROVE  ObservedTrue'
  <2>1. op.kind = "tick" /\ op'.observed = op.observed
    BY <1>7, ResolveIs DEF InTick
  <2> QED
    BY <1>2, <2>1
<1>8. CASE AckTimeout \/ SubmitError
  BY <1>7, <1>8 DEF AckTimeout, SubmitError, Answers
<1>9. CASE TickEnd \/ Crash \/ StopEnd
  <2>1. op'.kind # "tick"
    BY <1>9 DEF TickEnd, Crash, StopEnd, Idle
  <2> QED
    BY <1>3, <2>1
<1>10. ASSUME NEW a \in acks, AckArrives(a)
       PROVE  ObservedTrue'
  <2>1. CASE Awaits(a.run)
    <3>1. a \in Acks
      BY DEF Structure, WorldOK
    <3>2. op.await # NoRun /\ a.out \in Answers
      BY <2>1, <3>1, Names DEF Acks, Answers, Awaits
    <3>3. Resolve(a.out)
      BY <1>10, <2>1 DEF AckArrives
    <3> QED
      BY <1>7, <2>1, <3>2, <3>3 DEF Awaits
  <2>2. CASE ~Awaits(a.run)
    BY <1>4, <1>10, <2>2 DEF AckArrives
  <2> QED
    BY <2>1, <2>2
<1>11. CASE StopStart \/ StopNext
  <2>1. op'.kind # "tick"
    <3>1. CASE StopStart
      BY <3>1 DEF StopStart
    <3>2. CASE StopNext
      <4>1. op \in Stops
        BY <3>2 DEF StopNext, Structure, OpOK, StopOK
      <4> QED
        BY <3>2, <4>1 DEF StopNext, Stops
    <3> QED
      BY <1>11, <3>1, <3>2
  <2> QED
    BY <1>3, <2>1
<1>12. CASE Elapse \/ TakeCallbacks \/ CreateCampaign \/ RecordConclusion
  BY <1>4, <1>12 DEF Elapse, TakeCallbacks, CreateCampaign, RecordConclusion, OnlyFile
<1>13. CASE \E r \in Runs : Receive(r) \/ Progress(r) \/ ClientDies(r) \/ Report(r)
  BY <1>4, <1>13 DEF Receive, Progress, ClientDies, Report
<1>14. CASE \E d \in Direct : DirectSubmit(d) \/ DirectTimeout(d) \/ RememberDirect(d)
  BY <1>4, <1>14 DEF DirectSubmit, DirectTimeout, RememberDirect
<1>15. CASE \/ \E p \in Paths : AddLeaf(p) \/ Approve(p) \/ RecordAnalysis(p)
            \/ \E s \in {"running", "paused", "stopped"} : SetState(s)
            \/ \E force \in BOOLEAN : DeleteCampaign(force)
  BY <1>4, <1>15 DEF AddLeaf, Approve, RecordAnalysis, SetState, DeleteCampaign, OnlyFile
<1>16. CASE UNCHANGED vars
  BY <1>4, <1>16 DEF vars
<1> QED
  BY <1>5, <1>6, <1>8, <1>9, <1>10, <1>11, <1>12, <1>13, <1>14, <1>15, <1>16 DEF Next, Tick, Stop

\* The records of a reuse registry that are done are about simulations that have results.
Reusable(reg) == \A k \in ReuseKeys : reg[k].st = "done" => HasRun(k[1], {"ready"})

\* ReusableHasResults says it of the registry on disk.
LEMMA ReusableIs == ReusableHasResults <=> Reusable(reuse)
  BY DEF ReusableHasResults, Reusable, HasRun

\* At every step what the reuse registry offers stays true.
LEMMA ReusableStep ==
  ASSUME Structure, ClusterTrue, RegistryTrue, ObservedTrue, Reusable(reuse), [Next]_vars
  PROVE  Reusable(reuse)'
<1>1. Forward
  BY ClusterStep
<1>2. RegistryOK(reuse) /\ \A k \in ReuseKeys : k[1] \in Sims
  BY Names DEF Structure, WorldOK
<1>3. ASSUME NEW k \in ReuseKeys, reuse'[k] = reuse[k], reuse'[k].st = "done"
      PROVE  HasRun(k[1], {"ready"})'
  BY <1>1, <1>3, RunsStay DEF Reusable
<1>4. CASE UNCHANGED reuse
  BY <1>3, <1>4 DEF Reusable
<1>5. ASSUME NEW runs, runs \subseteq Runs, \A r \in runs : job[r] = "ready",
             reuse' = Reuse!Promote(reuse, runs)
      PROVE  Reusable(reuse)'
  <2>1. ASSUME NEW k \in ReuseKeys, reuse'[k].st = "done"
        PROVE  HasRun(k[1], {"ready"})'
    <3>1. CASE reuse'[k] = reuse[k]
      BY <1>3, <2>1, <3>1
    <3>2. CASE \E r \in runs : SimOf[r] = k[1]
      <4>1. HasRun(k[1], {"ready"})
        BY <1>5, <3>2 DEF HasRun
      <4> QED
        BY <1>1, <4>1, RunsStay
    <3> QED
      BY <1>2, <1>5, <3>1, <3>2, PromoteIs
  <2> QED
    BY <2>1 DEF Reusable
<1>6. ASSUME NEW r \in Runs, Report(r)
      PROVE  Reusable(reuse)'
  <2>1. CASE job[r] = "ready" /\ r \in pending
    <3>1. reuse' = Reuse!Promote(reuse, {r})
      BY <1>6, <2>1 DEF Report
    <3>2. {r} \subseteq Runs /\ \A x \in {r} : job[x] = "ready"
      BY <2>1
    <3> QED
      BY <1>5, <3>1, <3>2
  <2>2. CASE ~(job[r] = "ready" /\ r \in pending)
    BY <1>4, <1>6, <2>2 DEF Report
  <2> QED
    BY <2>1, <2>2
<1>7. CASE Crash
  <2>1. PICK ready : ready = {r \in WaitingRuns : shown[r] = "ready"}
    OBVIOUS
  <2>2. reuse' = Reuse!Promote(reuse, ready)
    BY <1>7, <2>1 DEF Crash, WaitingRuns
  <2>3. ready \subseteq Runs /\ \A r \in ready : job[r] = "ready"
    BY <1>2, <2>1, WaitingIs DEF ClusterTrue
  <2> QED
    BY <1>5, <2>2, <2>3
<1>8. ASSUME NEW d \in Direct, RememberDirect(d)
      PROVE  Reusable(reuse)'
  <2>1. PICK rec : rec = DirectRecord(d)
    OBVIOUS
  <2>2. /\ rec \in {Reuse!Done(DirectSim[d], d), Reuse!Pending(DirectSim[d], d)}
        /\ rec.st = "done" => registry[DirectSim[d]] = [run |-> d, st |-> "results_ready"]
    <3>1. CASE registry[DirectSim[d]] = [run |-> d, st |-> "results_ready"]
      BY <2>1, <3>1 DEF DirectRecord
    <3>2. CASE registry[DirectSim[d]] # [run |-> d, st |-> "results_ready"]
      BY <2>1, <3>2 DEF DirectRecord, Reuse!Pending
    <3> QED
      BY <3>1, <3>2
  <2>3. PICK new : new = Reuse!RecordDirect(reuse, DirectKey(d), rec)
    OBVIOUS
  <2>4. reuse' = new
    BY <1>8, <2>1, <2>3 DEF RememberDirect
  <2>5. \A k \in ReuseKeys : new[k].st = "done" => \/ reuse[k].st = "done" /\ new[k] = reuse[k]
                                                   \/ k = DirectKey(d) /\ rec.st = "done"
    BY <1>2, <2>2, <2>3, RecordDirectIs
  <2>6. rec.st = "done" => HasRun(DirectSim[d], {"ready"})
    <3>1. DirectSim[d] \in Sims
      BY Names
    <3>2. rec.st = "done" => registry[DirectSim[d]].st = "results_ready"
      BY <2>2
    <3> QED
      BY <3>1, <3>2, RegistrySays
  <2>7. ASSUME NEW k \in ReuseKeys, reuse'[k].st = "done"
        PROVE  HasRun(k[1], {"ready"})'
    <3>1. CASE reuse'[k] = reuse[k]
      BY <1>3, <2>7, <3>1
    <3>2. CASE k = DirectKey(d) /\ rec.st = "done"
      <4>1. k[1] = DirectSim[d]
        BY <3>2, Names
      <4> QED
        BY <1>1, <2>6, <3>2, <4>1, RunsStay
    <3> QED
      BY <2>4, <2>5, <2>7, <3>1, <3>2
  <2> QED
    BY <2>7 DEF Reusable
<1>9. CASE TickEnd
  <2>1. PICK c : c = Skipped
    OBVIOUS
  <2>2. WellFormed(c) /\ op.kind = "tick" /\ reuse' = RecordReuse(c)
    BY <1>9, <2>1, SkippedIs DEF TickEnd, InTick, Persisted
  <2>3. ASSUME NEW k \in ReuseKeys, reuse'[k].st = "done"
        PROVE  HasRun(k[1], {"ready"})'
    <3>1. CASE reuse'[k] = reuse[k]
      BY <1>3, <2>3, <3>1
    <3>2. CASE op.observed[k[1]] = "results_ready"
      <4>1. HasRun(k[1], {"ready"})
        BY <1>2, <2>2, <3>2 DEF ObservedTrue
      <4> QED
        BY <1>1, <4>1, RunsStay
    <3> QED
      BY <1>2, <2>2, <3>1, <3>2, RecordReuseIs
  <2> QED
    BY <2>3 DEF Reusable
<1>10. ASSUME NEW force, DeleteCampaign(force)
       PROVE  Reusable(reuse)'
  <2>1. \A k \in ReuseKeys : reuse'[k].st = "none"
    BY <1>10 DEF DeleteCampaign, Reuse!NoRecord
  <2> QED
    BY <2>1 DEF Reusable
<1>11. CASE TickStart \/ RunSteps \/ AckTimeout \/ SubmitError \/ \E a \in acks : AckArrives(a)
  BY <1>4, <1>11 DEF TickStart, RunSteps, fileVars, AckTimeout, SubmitError, AckArrives
<1>12. CASE Elapse \/ TakeCallbacks \/ CreateCampaign \/ RecordConclusion
  BY <1>4, <1>12 DEF Elapse, fileVars, TakeCallbacks, CreateCampaign, RecordConclusion, OnlyFile
<1>13. CASE \E r \in Runs : Receive(r) \/ Progress(r) \/ ClientDies(r)
  BY <1>4, <1>13 DEF Receive, Progress, ClientDies, fileVars
<1>14. CASE \E d \in Direct : DirectSubmit(d) \/ DirectTimeout(d)
  BY <1>4, <1>14 DEF DirectSubmit, DirectTimeout, fileVars
<1>15. CASE \/ \E p \in Paths : AddLeaf(p) \/ Approve(p) \/ RecordAnalysis(p)
            \/ \E s \in {"running", "paused", "stopped"} : SetState(s)
  BY <1>4, <1>15 DEF AddLeaf, Approve, RecordAnalysis, SetState, OnlyFile
<1>16. CASE Stop
  BY <1>4, <1>16 DEF Stop, StopStart, StopNext, StopEnd, fileVars
<1>17. CASE UNCHANGED vars
  BY <1>4, <1>17 DEF vars
<1> QED
  BY <1>6, <1>7, <1>8, <1>9, <1>10, <1>11, <1>12, <1>13, <1>14, <1>15, <1>16, <1>17 DEF Next, Tick

\* A leaf's claim stays true while the cluster moves forward and its window stays over.
LEMMA LeafStays ==
  ASSUME Onward, NEW p, NEW l, LeafTrue(p, l), waited[p] = Window => waited'[p] = Window
  PROVE  LeafTrue(p, l)'
<1>1. PICK s : s = SpecAt[p].sim
  OBVIOUS
<1>2. /\ HasRun(s, {"finished", "ready"}) => HasRun(s, {"finished", "ready"})'
      /\ HasFailure(s) => HasFailure(s)'
  BY RunsStay DEF Onward
<1>3. p \in spent.raised => p \in spent'.raised
  BY DEF Onward
<1> QED
  BY <1>1, <1>2, <1>3 DEF LeafTrue

\* So do the claims of a campaign.
LEMMA CampaignStays ==
  ASSUME Onward, NEW c, CampaignTrue(c),
         \A p \in DOMAIN c.leaf : waited[p] = Window => waited'[p] = Window
  PROVE  CampaignTrue(c)'
<1>1. \A p \in DOMAIN c.leaf : LeafTrue(p, c.leaf[p])
  BY DEF CampaignTrue
<1>2. ASSUME NEW p \in DOMAIN c.leaf
      PROVE  LeafTrue(p, c.leaf[p])'
  <2>1. PICK l : l = c.leaf[p]
    OBVIOUS
  <2>2. LeafTrue(p, l)'
    BY <1>1, <2>1, LeafStays
  <2> QED
    BY <2>1, <2>2
<1> QED
  BY <1>2 DEF CampaignTrue

\* A claim is about the status and the reason of a leaf.
LEMMA SameClaim ==
  ASSUME NEW p, NEW l, NEW m, LeafTrue(p, l), m.status = l.status, m.why = l.why
  PROVE  LeafTrue(p, m)
  BY DEF LeafTrue

\* What the registries show of a leaf becomes its status only if it is true.
LEMMA SeenTrue ==
  ASSUME Structure, RegistryTrue, Reusable(reuse), NEW p \in Paths, NEW l \in Leaf,
         l.sim \in {NoSim, SpecAt[p].sim}, LeafTrue(p, l), NEW m, Seen(p, l, m)
  PROVE  LeafTrue(p, m)
<1>0. SpecAt[p].sim \in Sims /\ ReuseKey(p) \in ReuseKeys /\ ReuseKey(p)[1] = SpecAt[p].sim
  BY Names
<1>1. CASE m = l
  BY <1>1
<1>2. CASE /\ l.sim # NoSim /\ registry[l.sim].st \in DOMAIN StatusOf
           /\ m = [l EXCEPT !.status = StatusOf[registry[l.sim].st]]
  <2>1. PICK s \in Sims : s = l.sim /\ s = SpecAt[p].sim
    BY <1>0, <1>2
  <2>2. PICK st : st = registry[s].st
    OBVIOUS
  <2>3. m.status = StatusOf[st] /\ m.why = l.why /\ st \in DOMAIN StatusOf
    BY <1>2, <2>1, <2>2 DEF Leaf
  <2>4. CASE st \in {"job_finished", "results_ready"}
    <3>1. HasRun(s, {"finished", "ready"})
      BY <2>2, <2>4, RegistrySays
    <3>2. m.status = "done"
      BY <2>3, <2>4 DEF StatusOf
    <3> QED
      BY <2>1, <3>1, <3>2 DEF LeafTrue
  <2>5. CASE st \in {"failed", "job_failed", "cancelled"}
    <3>1. HasFailure(s)
      BY <2>2, <2>5, RegistrySays
    <3>2. m.status = "failed"
      BY <2>3, <2>5 DEF StatusOf
    <3> QED
      BY <2>1, <3>1, <3>2 DEF LeafTrue
  <2>6. CASE st \notin {"job_finished", "results_ready", "failed", "job_failed", "cancelled"}
    <3>1. st \in {"accepted", "submitted", "job_running", "workflow_finished"}
      BY <2>3, <2>6 DEF StatusOf
    <3>2. m.status \in {"submitted", "running"}
      BY <2>3, <3>1 DEF StatusOf
    <3> QED
      BY <3>2 DEF LeafTrue
  <2> QED
    BY <2>4, <2>5, <2>6
<1>3. CASE /\ l.status = "planned" /\ reuse[ReuseKey(p)].st = "done"
           /\ m = [l EXCEPT !.sim = reuse[ReuseKey(p)].sim, !.run = reuse[ReuseKey(p)].run,
                            !.status = "done", !.reused = TRUE]
  <2>1. m.status = "done"
    BY <1>3 DEF Leaf
  <2>2. HasRun(SpecAt[p].sim, {"finished", "ready"})
    <3>1. PICK k \in ReuseKeys : k = ReuseKey(p)
      BY <1>0
    <3>2. HasRun(k[1], {"ready"})
      BY <1>3, <3>1 DEF Reusable
    <3> QED
      BY <1>0, <3>1, <3>2 DEF HasRun
  <2> QED
    BY <2>1, <2>2 DEF LeafTrue
<1> QED
  BY <1>1, <1>2, <1>3 DEF Seen

\* The tick's fold and its callbacks claim nothing that is not true.
LEMMA FoldTrue ==
  ASSUME Structure, RegistryTrue, Reusable(reuse), NEW c, WellFormed(c), CampaignTrue(c), NEW before
  PROVE  CampaignTrue(EmitCallbacks(Fold(c), before))
<1>1. PICK f : f = Fold(c)
  OBVIOUS
<1>2. WellFormed(f) /\ Kin(c, f) /\ \A p \in DOMAIN c.leaf : Folded(p, c.leaf[p], f.leaf[p])
  BY <1>1, FoldIs DEF Structure
<1>3. PICK d : d = EmitCallbacks(f, before)
  OBVIOUS
<1>4. Kin(f, d) /\ \A p \in DOMAIN f.leaf : Reasoned(f.leaf[p], d.leaf[p])
  BY <1>2, <1>3, EmitIs DEF Emitted
<1>5. ASSUME NEW p \in DOMAIN d.leaf
      PROVE  LeafTrue(p, d.leaf[p])
  <2>1. /\ p \in DOMAIN c.leaf /\ p \in DOMAIN f.leaf /\ p \in Paths
        /\ c.leaf[p] \in Leaf /\ c.leaf[p].sim \in {NoSim, SpecAt[p].sim}
        /\ f.leaf[p] \in Leaf /\ f.leaf[p].sim \in {NoSim, SpecAt[p].sim}
    <3>1. p \in DOMAIN f.leaf /\ p \in DOMAIN c.leaf
      BY <1>2, <1>4, <1>5 DEF Kin
    <3> QED
      BY <1>2, <3>1, WalkLeaves DEF WellFormed
  <2>2. PICK l, m, n : l = c.leaf[p] /\ m = f.leaf[p] /\ n = d.leaf[p]
    OBVIOUS
  <2>3. PICK s \in Leaf : /\ Seen(p, l, s)
                          /\ m = IF OwesActual(s) THEN [s EXCEPT !.actCore = ActualOf(s).core,
                                                                 !.actGpu = ActualOf(s).gpu]
                                 ELSE s
    BY <1>2, <2>1, <2>2 DEF Folded
  <2>4. LeafTrue(p, s)
    BY <2>1, <2>2, <2>3, SeenTrue DEF CampaignTrue
  <2>5. m.status = s.status /\ m.why = s.why
    BY <2>3 DEF Leaf
  <2>6. LeafTrue(p, m)
    BY <2>4, <2>5, SameClaim
  <2>7. PICK w, x : n = [m EXCEPT !.suspect = x, !.why = w] /\ (w = m.why \/ FailureOf(m) # "")
    BY <1>4, <2>1, <2>2 DEF Reasoned
  <2>8. n.status = m.status /\ n.why = w
    BY <2>1, <2>2, <2>7 DEF Leaf
  <2>9. CASE w = m.why
    BY <2>2, <2>6, <2>8, <2>9, SameClaim
  <2>10. CASE FailureOf(m) # ""
    <3>1. m.sim # NoSim /\ registry[m.sim].st \in {"failed", "job_failed", "cancelled"}
      BY <2>10 DEF FailureOf
    <3>2. PICK y \in Sims : y = m.sim /\ y = SpecAt[p].sim
      BY <2>1, <2>2, <3>1, Names
    <3>3. HasFailure(y)
      BY <3>1, <3>2, RegistrySays
    <3> QED
      BY <2>2, <2>6, <2>8, <3>2, <3>3 DEF LeafTrue
  <2> QED
    BY <2>7, <2>9, <2>10
<1>6. CampaignTrue(d)
  BY <1>5 DEF CampaignTrue
<1> QED
  BY <1>1, <1>3, <1>6

\* The leaves that a dependency fails have their cause.
LEMMA PersistedTrue ==
  ASSUME NEW c, NEW d, NEW ended, Persisted(c, d, ended), CampaignTrue(c), WellFormed(c)
  PROVE  CampaignTrue(d)
<1>1. ASSUME NEW p \in DOMAIN d.leaf
      PROVE  LeafTrue(p, d.leaf[p])
  <2>1. p \in DOMAIN c.leaf
    BY DEF Persisted, Kin
  <2>2. CASE p \in ended
    <3>1. d.leaf[p] = [c.leaf[p] EXCEPT !.status = "failed", !.why = "dependency"] /\ c.leaf[p] \in Leaf
      BY <2>1, <2>2, WalkLeaves DEF Persisted, WellFormed
    <3>2. d.leaf[p].status = "failed" /\ d.leaf[p].why = "dependency"
      BY <3>1 DEF Leaf
    <3> QED
      BY <3>2 DEF LeafTrue
  <2>3. CASE p \notin ended
    BY <2>1, <2>3 DEF Persisted, CampaignTrue
  <2> QED
    BY <2>2, <2>3
<1> QED
  BY <1>1 DEF CampaignTrue

\* The time a leaf was deferred only grows, except where its submission is resolved.
LEMMA WindowStays ==
  ASSUME Structure, [Next]_vars, NEW p \in Paths, waited[p] = Window,
         ~AckTimeout, ~SubmitError, ~ \E a \in acks : AckArrives(a)
  PROVE  waited'[p] = Window
<1>1. waited \in [Paths -> 0 .. Window] /\ Window \in Nat
  BY AgendaAssumption DEF Structure, WorldOK
<1>2. CASE UNCHANGED waited
  BY <1>2
<1>3. CASE Elapse
  BY <1>1, <1>3 DEF Elapse
<1>4. CASE TickStart \/ RunSteps \/ TickEnd \/ Stop \/ Crash
  BY <1>2, <1>4 DEF TickStart, RunSteps, TickEnd, Stop, StopStart, StopNext, StopEnd, Crash
<1>5. CASE TakeCallbacks \/ CreateCampaign \/ RecordConclusion
  BY <1>2, <1>5 DEF TakeCallbacks, CreateCampaign, RecordConclusion, OnlyFile
<1>6. CASE \E r \in Runs : Receive(r) \/ Progress(r) \/ ClientDies(r) \/ Report(r)
  BY <1>2, <1>6 DEF Receive, Progress, ClientDies, Report
<1>7. CASE \E d \in Direct : DirectSubmit(d) \/ DirectTimeout(d) \/ RememberDirect(d)
  BY <1>2, <1>7 DEF DirectSubmit, DirectTimeout, RememberDirect
<1>8. CASE \/ \E q \in Paths : AddLeaf(q) \/ Approve(q) \/ RecordAnalysis(q)
           \/ \E s \in {"running", "paused", "stopped"} : SetState(s)
           \/ \E force \in BOOLEAN : DeleteCampaign(force)
  BY <1>2, <1>8 DEF AddLeaf, Approve, RecordAnalysis, SetState, DeleteCampaign, OnlyFile
<1>9. CASE UNCHANGED vars
  BY <1>2, <1>9 DEF vars
<1> QED
  BY <1>3, <1>4, <1>5, <1>6, <1>7, <1>8, <1>9 DEF Next, Tick

\* A resolved submission claims nothing that is not true: a refusal is on record, so is a
\* submission that raised, and an outcome is given up only when the window is over.
LEMMA ResolveTrue ==
  ASSUME Structure, CampaignsTrue, Onward, InTick, op.await # NoRun, NEW out \in Answers, Resolve(out),
         out = "refused" => cmd[op.await] = "refused",
         out = "error" => op.await \in spent'.raised
  PROVE  CampaignsTrue'
<1>1. waited \in [Paths -> 0 .. Window] /\ Window \in Nat
  BY AgendaAssumption DEF Structure, WorldOK
<1>2. PICK p, c, d : p = op.await /\ c = op.c /\ d = disk'
  OBVIOUS
<1>3. /\ p \in DOMAIN c.leaf /\ c.leaf[p].status = "planned" /\ p \in Paths
      /\ Submitted(c, d, p, out) /\ op'.kind = "tick" /\ op'.c = d
      /\ waited' = IF d.leaf[p].deferred /\ ~c.leaf[p].deferred THEN [waited EXCEPT ![p] = 0] ELSE waited
  BY <1>2, ResolveIs
<1>4. WellFormed(c) /\ CampaignTrue(c)
  BY <1>2 DEF InTick, Structure, OpOK, TickOK, CampaignsTrue
<1>5. DOMAIN d.leaf = DOMAIN c.leaf /\ \A q \in DOMAIN c.leaf : q # p => d.leaf[q] = c.leaf[q]
  BY <1>3 DEF Submitted, Changed, Kin
<1>6. ASSUME NEW q \in DOMAIN d.leaf, q # p
      PROVE  LeafTrue(q, d.leaf[q])'
  <2>1. PICK l : l = d.leaf[q]
    OBVIOUS
  <2>2. LeafTrue(q, l)
    BY <1>4, <1>5, <1>6, <2>1 DEF CampaignTrue
  <2>3. q \in Paths
    BY <1>4, <1>5, <1>6, WalkLeaves DEF WellFormed
  <2>4. waited'[q] = waited[q]
    BY <1>1, <1>3, <1>6, <2>3
  <2>5. LeafTrue(q, l)'
    BY <2>2, <2>4, LeafStays
  <2> QED
    BY <2>1, <2>5
<1>7. PICK l : l = d.leaf[p]
  OBVIOUS
<1>8. LeafTrue(p, l)'
  <2>1. CASE out = "accepted" /\ IsAccepted(c, d, p)
    BY <1>7, <2>1 DEF IsAccepted, LeafTrue
  <2>2. CASE out = "refused" /\ IsFailed(c, d, p, "refused")
    <3>1. l.status = "failed"
      BY <1>7, <2>2 DEF IsFailed
    <3>2. p \in Runs /\ SimOf[p] = SpecAt[p].sim /\ cmd[p] = "refused"
      BY <1>2, <1>3, <2>2, Names
    <3>3. HasFailure(SpecAt[p].sim)
      BY <3>2 DEF HasFailure
    <3>4. PICK s : s = SpecAt[p].sim
      OBVIOUS
    <3>5. HasFailure(s)'
      BY <3>3, <3>4, RunsStay DEF Onward
    <3> QED
      BY <3>1, <3>4, <3>5 DEF LeafTrue
  <2>3. CASE out = "error" /\ IsFailed(c, d, p, "error")
    <3>1. l.why = "error" /\ p \in spent'.raised
      BY <1>2, <1>7, <2>3 DEF IsFailed
    <3>2. l.status = "failed"
      BY <1>7, <2>3 DEF IsFailed
    <3> QED
      BY <3>1, <3>2 DEF LeafTrue
  <2>5. CASE IsDeferred(c, d, p)
    BY <1>3, <1>7, <2>5 DEF IsDeferred, LeafTrue
  <2>4. CASE /\ d.leaf[p].deferred /\ IsFailed(c, d, p, "outcome_unknown")
             /\ ~((IF c.leaf[p].deferred THEN waited[p] ELSE 0) < Window)
    <3>1. l.status = "failed" /\ l.why = "outcome_unknown"
      BY <1>7, <2>4 DEF IsFailed
    <3>2. waited'[p] = Window
      <4>1. CASE c.leaf[p].deferred
        <5>1. waited[p] \in 0 .. Window /\ ~(waited[p] < Window) /\ waited' = waited
          BY <1>1, <1>3, <2>4, <4>1
        <5> QED
          BY <1>1, <5>1
      <4>2. CASE ~c.leaf[p].deferred
        <5>1. ~(0 < Window) /\ waited' = [waited EXCEPT ![p] = 0]
          BY <1>3, <2>4, <4>2
        <5> QED
          BY <1>1, <1>3, <5>1
      <4> QED
        BY <4>1, <4>2
    <3> QED
      BY <3>1, <3>2 DEF LeafTrue
  <2> QED
    BY <1>3, <2>1, <2>2, <2>3, <2>4, <2>5 DEF Submitted
<1>9. \A q \in DOMAIN d.leaf : LeafTrue(q, d.leaf[q])'
  <2>1. ASSUME NEW q \in DOMAIN d.leaf
        PROVE  LeafTrue(q, d.leaf[q])'
    <3>1. CASE q = p
      BY <1>7, <1>8, <3>1
    <3> QED
      BY <1>6, <3>1
  <2> QED
    BY <2>1
<1>10. CampaignTrue(d)'
  BY <1>9 DEF CampaignTrue
<1> QED
  BY <1>2, <1>3, <1>10 DEF CampaignsTrue

\* d is c after a tool's edit: the leaves of c but for their approval, and new ones.
Edited(c, d) ==
    /\ DOMAIN c.leaf \subseteq DOMAIN d.leaf
    /\ \A p \in DOMAIN c.leaf : d.leaf[p] = [c.leaf[p] EXCEPT !.approved = d.leaf[p].approved]
    /\ \A p \in DOMAIN d.leaf : p \notin DOMAIN c.leaf => d.leaf[p] = NewLeaf

\* The walk of d is that of c, or has one leaf more.
Grown(c, d) ==
    d.order = c.order \/ \E p \in Paths : p \notin DOMAIN c.leaf /\ d.order = Append(c.order, p)

\* The tools that keep a campaign, or make one.
Tool == \/ CreateCampaign \/ RecordConclusion \/ TakeCallbacks \/ StopStart
        \/ \E p \in Paths : AddLeaf(p) \/ Approve(p) \/ RecordAnalysis(p)
        \/ \E s \in {"running", "paused", "stopped"} : SetState(s)

\* What a tool leaves alone.
Tooled ==
    /\ op.kind # "tick" /\ op'.kind # "tick" /\ disk' # NoCampaign
    /\ UNCHANGED <<limit, reuse, waited, wire, acks, cmd, job, shown, registry>>
    /\ Edited(disk, disk') /\ (disk # NoCampaign => WellFormed(disk) /\ Grown(disk, disk'))
    /\ disk'.usage = IF disk = NoCampaign THEN NoUsage ELSE disk.usage
    /\ \/ CreateCampaign /\ disk = NoCampaign
       \/ disk # NoCampaign /\ TakeCallbacks
       \/ disk # NoCampaign /\ disk'.callbacks = disk.callbacks /\ told' = told

\* An edit that keeps the leaves.
LEMMA EditedSame ==
  ASSUME NEW c, WellFormed(c), NEW d, d.leaf = c.leaf
  PROVE  Edited(c, d)
<1>1. \A p \in DOMAIN c.leaf : c.leaf[p] \in Leaf
  BY WalkLeaves DEF WellFormed
<1>2. \A p \in DOMAIN c.leaf : c.leaf[p] = [c.leaf[p] EXCEPT !.approved = c.leaf[p].approved]
  BY <1>1 DEF Leaf
<1> QED
  BY <1>2 DEF Edited

\* What each tool does to the leaves, the usage and the callbacks.
LEMMA ToolIs ==
  ASSUME Structure, Tool
  PROVE  Tooled
<1>1. disk # NoCampaign => WellFormed(disk)
  BY SaidIs
<1>2. DOMAIN NoCampaign.leaf = {}
  BY DEF NoCampaign
<1>3. Idle.kind # "tick"
  BY DEF Idle
<1>4. ASSUME NEW d, disk' = d, disk # NoCampaign, Notes(disk, d), op = Idle, op'.kind # "tick",
             UNCHANGED <<limit, reuse, waited, clusterVars>>,
             TakeCallbacks \/ (d.callbacks = disk.callbacks /\ told' = told)
      PROVE  Tooled
  <2>1. WellFormed(d) /\ d.leaf = disk.leaf /\ d.usage = disk.usage /\ Grown(disk, d)
    BY <1>1, <1>4, NotesIs DEF Notes, Grown
  <2>2. d # NoCampaign /\ Edited(disk, d)
    BY <1>1, <1>4, <2>1, SomeCampaign, EditedSame
  <2> QED
    BY <1>1, <1>3, <1>4, <2>1, <2>2 DEF Tooled, clusterVars
<1>5. CASE CreateCampaign
  <2>1. PICK c : c = Campaign(limit.seed)
    OBVIOUS
  <2>2. disk' = c /\ disk = NoCampaign /\ op = Idle /\ UNCHANGED <<limit, reuse, waited, op, clusterVars>>
    BY <1>5, <2>1 DEF CreateCampaign, Save, OnlyFile, Locked
  <2>3. c.usage = NoUsage /\ \A p \in DOMAIN c.leaf : c.leaf[p] = NewLeaf
    BY <2>1 DEF Campaign
  <2>4. Edited(disk, c)
    BY <1>2, <2>2, <2>3 DEF Edited
  <2>5. c # NoCampaign
    <3>1. WellFormed(c)
      BY <2>1, LimitIs, NewIs DEF Structure
    <3> QED
      BY <3>1, SomeCampaign
  <2> QED
    BY <1>3, <1>5, <2>2, <2>3, <2>4, <2>5 DEF Tooled, clusterVars
<1>6. CASE RecordConclusion
  <2>1. PICK d : d = [disk EXCEPT !.concluded = TRUE]
    OBVIOUS
  <2>2. /\ disk' = d /\ told' = told /\ disk # NoCampaign /\ WellFormed(disk) /\ op = Idle
        /\ UNCHANGED <<limit, reuse, waited, op, clusterVars>>
    BY <1>1, <1>6, <2>1 DEF RecordConclusion, Save, history, OnlyFile, Locked
  <2>3. Notes(disk, d) /\ d.callbacks = disk.callbacks
    BY <2>1, <2>2, ToolNotes
  <2> QED
    BY <1>3, <1>4, <2>2, <2>3
<1>7. CASE TakeCallbacks
  <2>1. PICK d : d = [disk EXCEPT !.callbacks = <<>>]
    OBVIOUS
  <2>2. /\ disk' = d /\ disk # NoCampaign /\ WellFormed(disk) /\ op = Idle
        /\ UNCHANGED <<limit, reuse, waited, op, clusterVars>>
    BY <1>1, <1>7, <2>1 DEF TakeCallbacks, Save, OnlyFile, Locked
  <2>3. Notes(disk, d)
    BY <2>1, <2>2, ToolNotes
  <2> QED
    BY <1>3, <1>4, <1>7, <2>2, <2>3
<1>8. ASSUME NEW s \in Lifecycle, disk # NoCampaign, disk' = [disk EXCEPT !.state = s], op = Idle,
             op'.kind # "tick", UNCHANGED <<limit, reuse, waited, clusterVars, told>>
      PROVE  Tooled
  <2>1. PICK d : d = [disk EXCEPT !.state = s]
    OBVIOUS
  <2>2. Notes(disk, d) /\ d.callbacks = disk.callbacks
    BY <1>1, <1>8, <2>1, ToolNotes
  <2> QED
    BY <1>4, <1>8, <2>1, <2>2
<1>9. CASE StopStart
  <2>1. "stopped" \in Lifecycle
    BY DEF Lifecycle
  <2>2. op'.kind # "tick"
    BY <1>9 DEF StopStart
  <2> QED
    BY <1>8, <1>9, <2>1, <2>2 DEF StopStart, Save, Locked
<1>10. ASSUME NEW s \in {"running", "paused", "stopped"}, SetState(s)
       PROVE  Tooled
  <2>1. s \in Lifecycle
    BY DEF Lifecycle
  <2>2. op = Idle /\ op'.kind # "tick"
    BY <1>3, <1>10 DEF SetState, Locked, OnlyFile
  <2> QED
    BY <1>8, <1>10, <2>1, <2>2 DEF SetState, Save, OnlyFile
<1>11. ASSUME NEW p \in Paths, AddLeaf(p)
       PROVE  Tooled
  <2>1. WellFormed(disk) /\ disk # NoCampaign /\ p \notin DOMAIN disk.leaf /\ op = Idle
        /\ UNCHANGED <<limit, reuse, waited, op, clusterVars, told>>
    BY <1>1, <1>11 DEF AddLeaf, Locked, OnlyFile
  <2>2. PICK d : d = [disk EXCEPT !.order = Append(@, p),
                            !.leaf = [q \in DOMAIN @ \cup {p} |-> IF q = p THEN NewLeaf ELSE @[q]]]
    OBVIOUS
  <2>3. Added(disk, d, p) /\ disk' = d
    BY <1>11, <2>1, <2>2, AddedIs DEF AddLeaf, Save
  <2>4. \A q \in DOMAIN disk.leaf : disk.leaf[q] = [disk.leaf[q] EXCEPT !.approved = disk.leaf[q].approved]
    <3>1. \A q \in DOMAIN disk.leaf : disk.leaf[q] \in Leaf
      BY <2>1, WalkLeaves DEF WellFormed
    <3> QED
      BY <3>1 DEF Leaf
  <2>5. Edited(disk, d)
    BY <2>3, <2>4 DEF Added, Edited
  <2>6. d # NoCampaign /\ d.callbacks = disk.callbacks /\ d.usage = disk.usage /\ Grown(disk, d)
    BY <2>1, <2>3, SomeCampaign DEF Added, Grown
  <2> QED
    BY <1>1, <1>3, <2>1, <2>3, <2>5, <2>6 DEF Tooled, clusterVars
<1>12. ASSUME NEW p \in Paths, Approve(p)
       PROVE  Tooled
  <2>1. p \in DOMAIN disk.leaf /\ op = Idle /\ UNCHANGED <<limit, reuse, waited, op, clusterVars, told>>
    BY <1>12 DEF Approve, Locked, OnlyFile
  <2>2. disk # NoCampaign /\ WellFormed(disk)
    BY <1>1, <1>2, <2>1
  <2>3. PICK c, d : c = disk /\ d = [c EXCEPT !.leaf[p].approved = TRUE]
    OBVIOUS
  <2>4. /\ WellFormed(d) /\ d.usage = c.usage /\ d.callbacks = c.callbacks
        /\ DOMAIN d.leaf = DOMAIN c.leaf /\ d.order = c.order
        /\ \A q \in DOMAIN c.leaf : d.leaf[q] = [c.leaf[q] EXCEPT !.approved = d.leaf[q].approved]
    <3>1. WellFormed(c) /\ p \in DOMAIN c.leaf
      BY <2>1, <2>2, <2>3
    <3>2. ApprovedAs(c, d, p)
      BY <2>3, <3>1, ApprovedIs
    <3> QED
      BY <3>2 DEF ApprovedAs
  <2>5. disk' = d /\ d # NoCampaign /\ Edited(c, d) /\ Grown(c, d)
    BY <1>12, <2>3, <2>4, SomeCampaign DEF Approve, Save, Edited, Grown
  <2> QED
    BY <1>1, <1>3, <2>1, <2>2, <2>3, <2>4, <2>5 DEF Tooled, clusterVars
<1>13. ASSUME NEW p \in Paths, RecordAnalysis(p)
       PROVE  Tooled
  <2>1. p \in DOMAIN disk.leaf /\ op = Idle /\ UNCHANGED <<limit, reuse, waited, op, clusterVars, told>>
    BY <1>13 DEF RecordAnalysis, Locked, OnlyFile
  <2>2. disk # NoCampaign /\ WellFormed(disk)
    BY <1>1, <1>2, <2>1
  <2>3. PICK d : d = [disk EXCEPT !.analysed = @ \cup {p}]
    OBVIOUS
  <2>4. Notes(disk, d) /\ d.callbacks = disk.callbacks
    BY <2>2, <2>3, ToolNotes
  <2> QED
    BY <1>3, <1>4, <1>13, <2>1, <2>2, <2>3, <2>4 DEF RecordAnalysis, Save
<1> QED
  BY <1>5, <1>6, <1>7, <1>9, <1>10, <1>11, <1>12, <1>13 DEF Tool

\* The operations that leave the campaign and the operation in progress alone.
LEMMA OthersKeep ==
  ASSUME [Next]_vars, ~Tool, ~Tick, ~ \E a \in acks : AckArrives(a),
         ~ \E force \in BOOLEAN : DeleteCampaign(force), ~Crash, ~StopNext, ~StopEnd
  PROVE  UNCHANGED <<limit, disk, op, told, said>>
<1>1. CASE \E r \in Runs : Receive(r) \/ Progress(r) \/ ClientDies(r) \/ Report(r)
  BY <1>1 DEF Receive, Progress, ClientDies, Report, fileVars, history
<1>2. CASE \E d \in Direct : DirectSubmit(d) \/ DirectTimeout(d) \/ RememberDirect(d)
  BY <1>2 DEF DirectSubmit, DirectTimeout, RememberDirect, fileVars, history
<1>3. CASE UNCHANGED vars
  BY <1>3 DEF vars
<1>4. CASE Elapse
  BY <1>4 DEF Elapse, fileVars, history
<1> QED
  BY <1>1, <1>2, <1>3, <1>4 DEF Next, Stop, Tool

\* At every step the campaigns' claims stay true.
LEMMA CampaignsStep ==
  ASSUME Structure, ClusterTrue, RegistryTrue, Reusable(reuse), SpentOK, CampaignsTrue, [Next]_vars
  PROVE  CampaignsTrue'
<1>0. SpentOK
  OBVIOUS
<1>1. Onward
  BY ClusterStep, SpentStep DEF Onward
<1>2. (disk # NoCampaign => WellFormed(disk)) /\ (op.kind = "tick" => WellFormed(op.c) /\ disk # NoCampaign)
  BY DEF Structure, DiskOK, OpOK, TickOK
<1>3. ASSUME NEW c, WellFormed(c), CampaignTrue(c), ~AckTimeout, ~SubmitError,
             ~ \E a \in acks : AckArrives(a)
      PROVE  CampaignTrue(c)'
  <2>1. DOMAIN c.leaf \subseteq Paths
    BY <1>3, WalkLeaves DEF WellFormed
  <2> QED
    BY <1>1, <1>3, <2>1, WindowStays, CampaignStays
<1>4. ASSUME disk' = disk, op' = op \/ op'.kind # "tick", ~AckTimeout, ~SubmitError,
             ~ \E a \in acks : AckArrives(a)
      PROVE  CampaignsTrue'
  <2>1. PICK d, c : d = disk /\ c = op.c
    OBVIOUS
  <2>2. disk # NoCampaign => CampaignTrue(d)'
    BY <1>2, <1>3, <1>4, <2>1 DEF CampaignsTrue
  <2>3. op.kind = "tick" => CampaignTrue(c)'
    BY <1>2, <1>3, <1>4, <2>1 DEF CampaignsTrue
  <2> QED
    BY <1>4, <2>1, <2>2, <2>3 DEF CampaignsTrue
<1>5. CASE TickStart
  <2>1. PICK before, folded, steps, c :
          Begins(before, folded, steps, c) /\ disk' = c /\ op' = Begun(before, steps, c)
    BY <1>5, TickStartIs
  <2>2. WellFormed(disk) /\ CampaignTrue(disk)
    BY <1>2, <1>5 DEF TickStart, CampaignsTrue
  <2>3. c = EmitCallbacks(Fold(disk), before) /\ WellFormed(c)
    BY <2>1 DEF Begins
  <2>4. CampaignTrue(c)
    BY <2>2, <2>3, FoldTrue
  <2>5. UNCHANGED waited
    BY <1>5 DEF TickStart
  <2>6. CampaignTrue(c)'
    BY <1>1, <2>4, <2>5, CampaignStays
  <2>7. op'.c = c
    BY <2>1 DEF Begun
  <2> QED
    BY <2>1, <2>6, <2>7 DEF CampaignsTrue
<1>6. ASSUME InTick
      PROVE  CampaignTrue(Skipped) /\ WellFormed(Skipped) /\ WellFormed(op.c) /\ CampaignTrue(op.c)
  <2>1. PICK c, d, e : c = op.c /\ d = Skipped /\ e = Failing
    OBVIOUS
  <2>2. Persisted(c, d, e) /\ CampaignTrue(c) /\ WellFormed(c)
    BY <1>2, <1>6, <2>1, SkippedIs DEF InTick, CampaignsTrue
  <2>3. CampaignTrue(d) /\ WellFormed(d)
    BY <2>2, PersistedTrue DEF Persisted
  <2> QED
    BY <2>1, <2>2, <2>3
<1>7. CASE RunSteps
  <2>1. PICK d, c : d = disk /\ c = Skipped
    OBVIOUS
  <2>2. /\ op'.c = c /\ disk' = d /\ UNCHANGED waited /\ CampaignTrue(c) /\ CampaignTrue(d)
        /\ d # NoCampaign
    BY <1>2, <1>6, <1>7, <2>1, RunStepsIs DEF RunSteps, fileVars, InTick, CampaignsTrue
  <2>3. CampaignTrue(c)' /\ CampaignTrue(d)'
    BY <1>1, <2>2, CampaignStays
  <2> QED
    BY <2>2, <2>3 DEF CampaignsTrue
<1>8. CASE TickEnd
  <2>1. PICK c : c = Skipped
    OBVIOUS
  <2>2. CampaignTrue(c) /\ disk' = c /\ UNCHANGED waited /\ op'.kind # "tick"
    BY <1>6, <1>8, <2>1 DEF TickEnd, Save, Idle
  <2>3. CampaignTrue(c)'
    BY <1>1, <2>2, CampaignStays
  <2> QED
    BY <2>2, <2>3 DEF CampaignsTrue
<1>9. CASE AckTimeout
  <2>1. "lost" \in Answers /\ "lost" \notin {"refused", "error"}
    BY DEF Answers
  <2> QED
    BY <1>1, <1>9, <2>1, ResolveTrue DEF AckTimeout
<1>9a. CASE SubmitError
  <2>1. "error" \in Answers /\ "error" # "refused"
    BY DEF Answers
  <2>2. op.await \in spent'.raised
    BY <1>0, <1>9a DEF SubmitError, SpentOK
  <2> QED
    BY <1>1, <1>9a, <2>1, <2>2, ResolveTrue DEF SubmitError
<1>10. ASSUME NEW a \in acks, AckArrives(a)
       PROVE  CampaignsTrue'
  <2>1. CASE Awaits(a.run)
    <3>1. a \in Acks
      BY DEF Structure, WorldOK
    <3>2. op.await # NoRun /\ a.out \in Answers
      BY <2>1, <3>1, Names DEF Acks, Answers, Awaits
    <3>3. Resolve(a.out)
      BY <1>10, <2>1 DEF AckArrives
    <3>4. a.out = "refused" => cmd[op.await] = "refused"
      BY <2>1 DEF ClusterTrue, Awaits
    <3>5. a.out # "error"
      BY <3>1 DEF Acks, Outcomes
    <3> QED
      BY <1>1, <2>1, <3>2, <3>3, <3>4, <3>5, ResolveTrue DEF Awaits
  <2>2. CASE ~Awaits(a.run)
    <3>1. UNCHANGED <<disk, op, waited>>
      BY <1>10, <2>2 DEF AckArrives
    <3>2. PICK d, c : d = disk /\ c = op.c
      OBVIOUS
    <3>3. disk # NoCampaign => CampaignTrue(d)'
      BY <1>1, <3>1, <3>2, CampaignStays DEF CampaignsTrue
    <3>4. op.kind = "tick" => CampaignTrue(c)'
      BY <1>1, <3>1, <3>2, CampaignStays DEF CampaignsTrue
    <3> QED
      BY <3>1, <3>2, <3>3, <3>4 DEF CampaignsTrue
  <2> QED
    BY <2>1, <2>2
<1>11. CASE Tool
  <2>1. Tooled
    BY <1>11, ToolIs
  <2>2. PICK c, d : c = disk /\ d = disk'
    OBVIOUS
  <2>3. Edited(c, d) /\ UNCHANGED waited /\ op'.kind # "tick"
    BY <2>1, <2>2 DEF Tooled
  <2>3a. \A p \in DOMAIN d.leaf : p \notin DOMAIN c.leaf => d.leaf[p] = NewLeaf
    BY <2>3, Zenon DEF Edited
  <2>4. ASSUME NEW p \in DOMAIN d.leaf
        PROVE  LeafTrue(p, d.leaf[p])
    <3>1. CASE p \in DOMAIN c.leaf
      <4>1. c # NoCampaign
        <5>1. DOMAIN NoCampaign.leaf = {}
          BY DEF NoCampaign
        <5> QED
          BY <3>1, <5>1
      <4>2. c.leaf[p] \in Leaf /\ LeafTrue(p, c.leaf[p])
        BY <1>2, <2>2, <3>1, <4>1, WalkLeaves DEF WellFormed, CampaignsTrue, CampaignTrue
      <4>3. d.leaf[p] = [c.leaf[p] EXCEPT !.approved = d.leaf[p].approved]
        BY <2>3, <3>1 DEF Edited
      <4>4. PICK l, m, x : l = c.leaf[p] /\ m = d.leaf[p] /\ x = d.leaf[p].approved
        OBVIOUS
      <4>5. m = [l EXCEPT !.approved = x] /\ l \in Leaf
        BY <4>2, <4>3, <4>4
      <4>6. m.status = l.status /\ m.why = l.why
        BY <4>5 DEF Leaf
      <4>7. LeafTrue(p, m)
        BY <4>2, <4>4, <4>6, SameClaim
      <4> QED
        BY <4>4, <4>7
    <3>2. CASE p \notin DOMAIN c.leaf
      <4>1. d.leaf[p] = NewLeaf
        BY <2>3a, <3>2
      <4>2. NewLeaf.status = "planned"
        BY DEF NewLeaf
      <4>3. LeafTrue(p, NewLeaf)
        BY <4>2 DEF LeafTrue
      <4> QED
        BY <4>1, <4>3
    <3> QED
      BY <3>1, <3>2
  <2>5. CampaignTrue(d)
    BY <2>4 DEF CampaignTrue
  <2>6. CampaignTrue(d)'
    BY <1>1, <2>3, <2>5, CampaignStays
  <2> QED
    BY <2>2, <2>3, <2>6 DEF CampaignsTrue
<1>12. ASSUME NEW force, DeleteCampaign(force)
       PROVE  CampaignsTrue'
  BY <1>12 DEF DeleteCampaign, CampaignsTrue, Locked, Idle
<1>13. CASE StopNext
  <2>1. op \in Stops
    BY <1>13 DEF StopNext, Structure, OpOK, StopOK
  <2>2. op'.kind # "tick" /\ disk' = disk
    BY <1>13, <2>1 DEF StopNext, Stops, fileVars
  <2> QED
    BY <1>4, <1>9, <1>9a, <1>10, <2>2
<1>14. CASE StopEnd \/ Crash
  <2>1. op'.kind # "tick" /\ disk' = disk
    BY <1>14 DEF StopEnd, Crash, Idle, fileVars
  <2> QED
    BY <1>4, <1>9, <1>9a, <1>10, <2>1
<1>15. CASE UNCHANGED <<disk, op>>
  BY <1>4, <1>9, <1>9a, <1>10, <1>15
<1> QED
  BY <1>5, <1>7, <1>8, <1>9, <1>9a, <1>10, <1>11, <1>12, <1>13, <1>14, <1>15, OthersKeep DEF Tick

\* What the campaign, the observations and the registries claim of the cluster is true.
Truth == ClusterTrue /\ RegistryTrue /\ ObservedTrue /\ Reusable(reuse) /\ SpentOK /\ CampaignsTrue

\* Nothing is claimed at the start.
LEMMA TruthInit == Init => Truth
<1> SUFFICES ASSUME Init
             PROVE  Truth
  OBVIOUS
<1>1. ClusterTrue
  BY DEF Init, ClusterTrue
<1>2. RegistryTrue
  BY DEF Init, RegistryTrue, ShownTrue
<1>3. op.kind # "tick" /\ disk = NoCampaign
  BY DEF Init, Idle
<1>4. Reusable(reuse)
  BY DEF Init, Reusable, Reuse!NoRecord
<1>5. SpentOK
  BY DEF Init, SpentOK
<1> QED
  BY <1>1, <1>2, <1>3, <1>4, <1>5 DEF Truth, ObservedTrue, CampaignsTrue

\* No step makes a claim that is not true, nor a claim that was true false.
LEMMA TruthStep == Structure /\ Truth /\ [Next]_vars => Truth'
<1> SUFFICES ASSUME Structure, Truth, [Next]_vars
             PROVE  Truth'
  OBVIOUS
<1>1. ClusterTrue' /\ RegistryTrue' /\ ObservedTrue'
  BY ClusterStep, RegistryStep, ObservedStep DEF Truth
<1>2. Reusable(reuse)' /\ CampaignsTrue'
  BY ReusableStep, CampaignsStep DEF Truth
<1>3. SpentOK'
  BY SpentStep DEF Truth
<1> QED
  BY <1>1, <1>2, <1>3 DEF Truth

\* What the files claim of a simulation, done, failed or reusable, is true of its runs.
THEOREM ClaimsAreTrue == Spec => []ClaimsAreReal
<1>1. Structure /\ Truth => ClaimsAreReal
  <2> SUFFICES ASSUME Structure, Truth
               PROVE  ClaimsAreReal
    OBVIOUS
  <2>1. ReusableHasResults
    BY ReusableIs DEF Truth
  <2>2. disk # NoCampaign => \A p \in DOMAIN disk.leaf : LeafTrue(p, disk.leaf[p])
    BY DEF Truth, CampaignsTrue, CampaignTrue
  <2>3. DoneIsReal
    BY <2>2 DEF DoneIsReal, LeafTrue, HasRun
  <2>4. FailureHasCause
    BY <2>2 DEF FailureHasCause, LeafTrue, HasFailure
  <2> QED
    BY <2>1, <2>3, <2>4 DEF ClaimsAreReal
<1> QED
  BY <1>1, TruthInit, TruthStep, AgendaStructure, PTL DEF Spec

\* A leaf goes on the wire only when a tick comes to its step and nothing blocks it.
LEMMA WireGrows ==
  ASSUME Structure, [Next]_vars, NEW p \in Paths, p \in wire', p \notin wire
  PROVE  RunSteps
<1>1. CASE UNCHANGED wire
  BY <1>1
<1>2. CASE Tool
  BY <1>1, <1>2, ToolIs DEF Tooled
<1>3. CASE TickStart \/ AckTimeout \/ SubmitError \/ TickEnd
  BY <1>1, <1>3 DEF TickStart, AckTimeout, SubmitError, TickEnd, clusterVars
<1>4. CASE \E a \in acks : AckArrives(a)
  BY <1>1, <1>4 DEF AckArrives
<1>5. CASE \E force \in BOOLEAN : DeleteCampaign(force)
  BY <1>1, <1>5 DEF DeleteCampaign, clusterVars
<1>6. CASE Crash \/ StopNext \/ StopEnd \/ Elapse
  BY <1>1, <1>6 DEF Crash, StopNext, StopEnd, Elapse, clusterVars
<1>7. ASSUME NEW r \in Runs, Receive(r)
      PROVE  RunSteps
  BY <1>7 DEF Receive
<1>8. CASE \E r \in Runs : Progress(r) \/ ClientDies(r) \/ Report(r)
  BY <1>1, <1>8 DEF Progress, ClientDies, Report
<1>9. ASSUME NEW d \in Direct, DirectSubmit(d)
      PROVE  RunSteps
  BY <1>9, IdAssumption DEF DirectSubmit
<1>10. CASE \E d \in Direct : DirectTimeout(d) \/ RememberDirect(d)
  BY <1>1, <1>10 DEF DirectTimeout, RememberDirect, clusterVars
<1>11. CASE UNCHANGED vars
  BY <1>1, <1>11 DEF vars
<1> QED
  BY <1>2, <1>3, <1>4, <1>5, <1>6, <1>7, <1>8, <1>9, <1>10, <1>11 DEF Next, Tick, Stop, Tool

\* A submission leaves the server only for a running campaign, and only after a run of
\* each simulation it depends on has really finished (_submission_block, _plan_leaf).
THEOREM SubmitsReady == Spec => SubmitsOnlyReady
<1>1. ASSUME Structure, CampaignsTrue, [Next]_vars, NEW p \in Paths, p \in wire', p \notin wire
      PROVE  /\ disk.state = "running"
             /\ \A dep \in SpecAt[p].deps :
                  LET group == ResolveDependency(op.c.leaf, p, dep)
                  IN group # {} /\ \A q \in group :
                        \E r \in Runs : SimOf[r] = SpecAt[q].sim /\ job[r] \in {"finished", "ready"}
  <2>1. RunSteps
    BY <1>1, WireGrows
  <2>2. PICK n \in 1 .. Len(op.steps) :
          /\ ~Blocked(op.c, op.steps[n].path) /\ DepsDone(op.c.leaf, op.steps[n].path)
          /\ wire' \in {wire, wire \cup {op.steps[n].path}}
    BY <1>1, <2>1, RunStepsIs
  <2>3. p = op.steps[n].path
    BY <1>1, <2>2
  <2>4. Kin(disk, op.c) /\ CampaignTrue(op.c)
    BY <1>1, <2>1 DEF RunSteps, InTick, Structure, OpOK, TickOK, CampaignsTrue
  <2>5. disk.state = "running"
    BY <2>2, <2>4 DEF Blocked, Kin
  <2>6. ASSUME NEW dep \in SpecAt[p].deps, NEW group, group = ResolveDependency(op.c.leaf, p, dep)
        PROVE  group # {} /\ \A q \in group :
                 \E r \in Runs : SimOf[r] = SpecAt[q].sim /\ job[r] \in {"finished", "ready"}
    <3>1. group # {} /\ \A q \in group : op.c.leaf[q].status = "done"
      BY <2>2, <2>3, <2>6 DEF DepsDone
    <3>2. group \subseteq DOMAIN op.c.leaf
      BY <2>6 DEF ResolveDependency, Subtree
    <3>3. \A q \in group : HasRun(SpecAt[q].sim, {"finished", "ready"})
      BY <2>4, <3>1, <3>2 DEF CampaignTrue, LeafTrue
    <3> QED
      BY <3>1, <3>3 DEF HasRun
  <2> QED
    BY <2>5, <2>6
<1>2. Structure /\ Truth /\ [Next]_vars =>
        [\A p \in Paths : p \in wire' \ wire => disk.state = "running"]_vars
  BY <1>1 DEF Truth
<1>3. Structure /\ Truth /\ [Next]_vars =>
        [\A p \in Paths : p \in wire' \ wire =>
           \A dep \in SpecAt[p].deps :
              LET group == ResolveDependency(op.c.leaf, p, dep)
              IN group # {} /\ \A q \in group :
                    \E r \in Runs : SimOf[r] = SpecAt[q].sim /\ job[r] \in {"finished", "ready"}]_vars
  BY <1>1 DEF Truth
<1> QED
  BY <1>2, <1>3, TruthInit, TruthStep, AgendaStructure, PTL
  DEF Spec, SubmitsOnlyReady, HeldUnlessRunning, DependenciesReallyDone

-----------------------------------------------------------------------------
(* No decision point is lost. *)

\* Every leaf of the campaign that ended has its callback, or it was drained.
ToldOf(c) ==
    \A p \in DOMAIN c.leaf :
        c.leaf[p].status \in Ended => LastWord(c.callbacks, p, told[p]) = c.leaf[p].status

\* DecisionNotLost, of the file and of the campaign a tick has in memory.
ToldInv == /\ disk # NoCampaign => ToldOf(disk)
           /\ op.kind = "tick" => ToldOf(op.c)

\* d is c with more callbacks: one for each leaf owed, and every other ended leaf had
\* ended that way in c.
Speaks(c, d, new, owed) ==
    /\ c.callbacks \in Callbacks /\ new \in Callbacks /\ d.callbacks = c.callbacks \o new
    /\ DOMAIN d.leaf = DOMAIN c.leaf
    /\ \A p \in DOMAIN c.leaf : p \in owed => Announces(new, d, p)
    /\ \A i \in 1 .. Len(new) : new[i].path \in owed
    /\ \A p \in DOMAIN c.leaf : p \notin owed /\ d.leaf[p].status \in Ended =>
                                    d.leaf[p].status = c.leaf[p].status

\* Such callbacks keep the decisions.
LEMMA SpeaksKeeps ==
  ASSUME NEW c, NEW d, NEW new, NEW owed, Speaks(c, d, new, owed), ToldOf(c)
  PROVE  ToldOf(d)
<1>1. ASSUME NEW p \in DOMAIN d.leaf, d.leaf[p].status \in Ended
      PROVE  LastWord(d.callbacks, p, told[p]) = d.leaf[p].status
  <2>1. PICK old, kind, otherwise : old = c.callbacks /\ kind = d.leaf[p].status /\ otherwise = told[p]
    OBVIOUS
  <2>2. old \in Callbacks /\ new \in Callbacks /\ d.callbacks = old \o new /\ p \in DOMAIN c.leaf
    BY <1>1, <2>1 DEF Speaks
  <2>3. CASE p \in owed
    <3>1. Says(new, p, kind)
      BY <2>1, <2>2, <2>3 DEF Speaks, Announces
    <3>2. LastWord(old \o new, p, otherwise) = kind
      BY <2>2, <3>1, LastWordNew
    <3> QED
      BY <2>1, <2>2, <3>2
  <2>4. CASE p \notin owed
    <3>1. \A i \in 1 .. Len(new) : new[i].path # p
      BY <2>4 DEF Speaks
    <3>2. LastWord(old \o new, p, otherwise) = LastWord(old, p, otherwise)
      BY <2>2, <3>1, LastWordOld
    <3>3. LastWord(old, p, otherwise) = kind
      BY <1>1, <2>1, <2>2, <2>4 DEF Speaks, ToldOf
    <3> QED
      BY <2>1, <2>2, <3>2, <3>3
  <2> QED
    BY <2>3, <2>4
<1> QED
  BY <1>1 DEF ToldOf

\* Nothing is forgotten while nothing is drained.
LEMMA ToldStays ==
  ASSUME NEW c, ToldOf(c), UNCHANGED told
  PROVE  ToldOf(c)'
  BY DEF ToldOf

\* The fold saves its ended leaves with their callbacks.
LEMMA FoldTold ==
  ASSUME WorldOK, NEW c, WellFormed(c), ToldOf(c), NEW before,
         before = [p \in DOMAIN c.leaf |-> c.leaf[p].status]
  PROVE  ToldOf(EmitCallbacks(Fold(c), before))
<1>1. PICK f : f = Fold(c)
  OBVIOUS
<1>2. WellFormed(f) /\ Kin(c, f) /\ f.callbacks = c.callbacks
  BY <1>1, FoldIs
<1>3. PICK d, owed : d = EmitCallbacks(f, before) /\ owed = Owed(f, before)
  OBVIOUS
<1>3a. Emitted(f, d, owed)
  BY <1>2, <1>3, EmitIs
<1>4. Kin(f, d) /\ \A p \in DOMAIN f.leaf : Reasoned(f.leaf[p], d.leaf[p])
  BY <1>3a DEF Emitted
<1>5. PICK new \in Callbacks :
                 /\ d.callbacks = f.callbacks \o new
                 /\ \A p \in owed : Announces(new, d, p)
                 /\ \A i \in 1 .. Len(new) : new[i].path \in owed
  BY <1>3a DEF Emitted
<1>6. DOMAIN f.leaf = DOMAIN c.leaf /\ DOMAIN d.leaf = DOMAIN c.leaf
  BY <1>2, <1>4 DEF Kin
<1>7. ASSUME NEW p \in DOMAIN c.leaf
      PROVE  d.leaf[p].status = f.leaf[p].status
  <2>1. PICK l, m : l = f.leaf[p] /\ m = d.leaf[p]
    OBVIOUS
  <2>2. l \in Leaf
    BY <1>2, <1>6, <2>1, WalkLeaves DEF WellFormed
  <2>3. PICK w, x : m = [l EXCEPT !.suspect = x, !.why = w]
    BY <1>4, <1>6, <2>1 DEF Reasoned
  <2>4. m.status = l.status
    BY <2>2, <2>3 DEF Leaf
  <2> QED
    BY <2>1, <2>4
<1>8. \A p \in DOMAIN c.leaf : p \notin owed /\ d.leaf[p].status \in Ended => d.leaf[p].status = c.leaf[p].status
  BY <1>3, <1>6, <1>7 DEF Owed
<1>9. c.callbacks \in Callbacks
  BY DEF WellFormed, Campaigns
<1>10. Speaks(c, d, new, owed)
  BY <1>2, <1>5, <1>6, <1>8, <1>9 DEF Speaks
<1>11. ToldOf(d)
  BY <1>10, SpeaksKeeps
<1> QED
  BY <1>1, <1>3, <1>11

\* The steps that fail a leaf append its callback.
LEMMA PersistedTold ==
  ASSUME NEW c, NEW d, NEW ended, WellFormed(c), Persisted(c, d, ended), ToldOf(c)
  PROVE  ToldOf(d)
<1>1. PICK new \in Callbacks :
         /\ d.callbacks = c.callbacks \o new
         /\ \A p \in ended : Announces(new, d, p)
         /\ \A i \in 1 .. Len(new) : new[i].path \in ended
  BY DEF Persisted
<1>2. c.callbacks \in Callbacks /\ DOMAIN d.leaf = DOMAIN c.leaf
  BY DEF WellFormed, Campaigns, Persisted, Kin
<1>3. \A p \in DOMAIN c.leaf : p \notin ended => d.leaf[p] = c.leaf[p]
  BY DEF Persisted
<1>4. Speaks(c, d, new, ended)
  BY <1>1, <1>2, <1>3 DEF Speaks
<1> QED
  BY <1>4, SpeaksKeeps

\* A submission that ended tells when it failed.
LEMMA SubmittedTold ==
  ASSUME NEW c, NEW d, NEW p \in DOMAIN c.leaf, NEW out, WellFormed(c), Submitted(c, d, p, out), ToldOf(c),
         c.leaf[p].status = "planned"
  PROVE  ToldOf(d)
<1>1. /\ c.callbacks \in Callbacks /\ DOMAIN d.leaf = DOMAIN c.leaf /\ p \in Paths
      /\ \A q \in DOMAIN c.leaf : q # p => d.leaf[q] = c.leaf[q]
  BY WalkLeaves DEF WellFormed, Campaigns, Submitted, Changed, Kin
<1>2. CASE d.callbacks = c.callbacks /\ d.leaf[p].status \notin Ended
  <2>1. PICK new : new = <<>>
    OBVIOUS
  <2>2. new \in Callbacks /\ Len(new) = 0 /\ c.callbacks \o new = c.callbacks
    BY <1>1, <2>1 DEF Callbacks
  <2>3. Speaks(c, d, new, {})
    BY <1>1, <1>2, <2>2 DEF Speaks
  <2> QED
    BY <2>3, SpeaksKeeps
<1>3. ASSUME NEW why \in Whys, IsFailed(c, d, p, why)
      PROVE  ToldOf(d)
  <2>1. PICK cb : cb = Callback(p, "failed", why)
    OBVIOUS
  <2>2. PICK new : new = <<cb>>
    OBVIOUS
  <2>3. cb.path = p /\ cb.kind = "failed" /\ cb \in [path : Paths, kind : Ended, why : Whys]
    BY <1>1, <1>3, <2>1 DEF Callback, Ended
  <2>4. new \in Callbacks /\ Len(new) = 1 /\ new[1] = cb
    BY <2>2, <2>3 DEF Callbacks
  <2>5. Append(c.callbacks, cb) = c.callbacks \o new
    BY <1>1, <2>2, SMTT(40) DEF Callbacks
  <2>6. d.callbacks = c.callbacks \o new /\ d.leaf[p].status = "failed"
    BY <1>3, <2>1, <2>5 DEF IsFailed
  <2>7. Announces(new, d, p)
    BY <2>3, <2>4, <2>6 DEF Announces, Says
  <2>8. \A i \in 1 .. Len(new) : new[i].path \in {p}
    BY <2>3, <2>4
  <2>9. Speaks(c, d, new, {p})
    BY <1>1, <2>4, <2>6, <2>7, <2>8 DEF Speaks
  <2> QED
    BY <2>9, SpeaksKeeps
<1>4. CASE IsAccepted(c, d, p)
  BY <1>2, <1>4 DEF IsAccepted, Ended
<1>5. CASE IsDeferred(c, d, p)
  BY <1>2, <1>5 DEF IsDeferred, Ended
<1>6. "refused" \in Whys /\ "error" \in Whys /\ "outcome_unknown" \in Whys
  BY DEF Whys
<1> QED
  BY <1>3, <1>4, <1>5, <1>6 DEF Submitted

\* At every step each ended leaf has had its callback.
LEMMA ToldStep == Structure /\ ToldInv /\ [Next]_vars => ToldInv'
<1> SUFFICES ASSUME Structure, ToldInv, [Next]_vars
             PROVE  ToldInv'
  OBVIOUS
<1>1. /\ disk # NoCampaign => WellFormed(disk)
      /\ op.kind = "tick" => WellFormed(op.c) /\ disk # NoCampaign
  BY DEF Structure, DiskOK, OpOK, TickOK
<1>2. ASSUME UNCHANGED told, NEW c, NEW d, ToldOf(c), ToldOf(d), disk' = d, op'.kind = "tick" => op'.c = c
      PROVE  ToldInv'
  <2>1. ToldOf(c)' /\ ToldOf(d)'
    BY <1>2, ToldStays
  <2> QED
    BY <1>2, <2>1 DEF ToldInv
<1>3. ASSUME UNCHANGED <<told, disk>>, op' = op \/ op'.kind # "tick"
      PROVE  ToldInv'
  <2>1. PICK c, d : c = op.c /\ d = disk
    OBVIOUS
  <2>2. disk # NoCampaign => ToldOf(d)'
    BY <1>3, <2>1, ToldStays DEF ToldInv
  <2>3. op.kind = "tick" => ToldOf(c)'
    BY <1>3, <2>1, ToldStays DEF ToldInv
  <2> QED
    BY <1>3, <2>1, <2>2, <2>3 DEF ToldInv
<1>4. CASE TickStart
  <2>1. PICK before, folded, steps, c :
          Begins(before, folded, steps, c) /\ disk' = c /\ op' = Begun(before, steps, c)
    BY <1>4, TickStartIs
  <2>2. WellFormed(disk) /\ ToldOf(disk) /\ UNCHANGED told /\ WorldOK
    BY <1>1, <1>4 DEF TickStart, ToldInv, history, Structure
  <2>3. c = EmitCallbacks(Fold(disk), before) /\ before = [p \in DOMAIN disk.leaf |-> disk.leaf[p].status]
    BY <2>1 DEF Begins
  <2>4. ToldOf(c)
    BY <2>2, <2>3, FoldTold
  <2>5. op'.c = c
    BY <2>1 DEF Begun
  <2> QED
    BY <1>2, <2>1, <2>2, <2>4, <2>5
<1>5. ASSUME InTick
      PROVE  ToldOf(Skipped)
  <2>1. PICK c, d, e : c = op.c /\ d = Skipped /\ e = Failing
    OBVIOUS
  <2>2. Persisted(c, d, e) /\ ToldOf(c) /\ WellFormed(c)
    BY <1>1, <1>5, <2>1, SkippedIs DEF InTick, ToldInv
  <2> QED
    BY <2>1, <2>2, PersistedTold
<1>6. CASE RunSteps
  <2>1. PICK c, d : c = Skipped /\ d = disk
    OBVIOUS
  <2>2. op'.c = c /\ disk' = d /\ UNCHANGED told /\ ToldOf(c) /\ ToldOf(d)
    BY <1>1, <1>5, <1>6, <2>1, RunStepsIs DEF RunSteps, fileVars, history, InTick, ToldInv
  <2> QED
    BY <1>2, <2>2
<1>7. CASE TickEnd
  <2>1. PICK c : c = Skipped
    OBVIOUS
  <2>2. ToldOf(c) /\ disk' = c /\ UNCHANGED told /\ op'.kind # "tick"
    BY <1>5, <1>7, <2>1 DEF TickEnd, Save, Idle, history
  <2> QED
    BY <1>2, <2>2
<1>8. ASSUME InTick, op.await # NoRun, NEW out \in Answers, Resolve(out), UNCHANGED told
      PROVE  ToldInv'
  <2>1. PICK p, c, d : p = op.await /\ c = op.c /\ d = disk'
    OBVIOUS
  <2>2. p \in DOMAIN c.leaf /\ c.leaf[p].status = "planned" /\ Submitted(c, d, p, out) /\ op'.c = d
    BY <1>8, <2>1, ResolveIs
  <2>3. WellFormed(c) /\ ToldOf(c)
    BY <1>1, <1>8, <2>1 DEF InTick, ToldInv
  <2>4. ToldOf(d)
    BY <2>2, <2>3, SubmittedTold
  <2> QED
    BY <1>2, <1>8, <2>1, <2>2, <2>4
<1>9. CASE AckTimeout \/ SubmitError
  <2>1. "lost" \in Answers /\ "error" \in Answers
    BY DEF Answers
  <2> QED
    BY <1>8, <1>9, <2>1 DEF AckTimeout, SubmitError, history
<1>10. ASSUME NEW a \in acks, AckArrives(a)
       PROVE  ToldInv'
  <2>1. CASE Awaits(a.run)
    <3>1. a \in Acks
      BY DEF Structure, WorldOK
    <3>2. op.await # NoRun /\ a.out \in Answers
      BY <2>1, <3>1, Names DEF Acks, Answers, Awaits
    <3>3. Resolve(a.out) /\ UNCHANGED told
      BY <1>10, <2>1 DEF AckArrives, history
    <3> QED
      BY <1>8, <2>1, <3>2, <3>3 DEF Awaits
  <2>2. CASE ~Awaits(a.run)
    BY <1>3, <1>10, <2>2 DEF AckArrives, history
  <2> QED
    BY <2>1, <2>2
<1>11. CASE Tool
  <2>1. Tooled
    BY <1>11, ToolIs
  <2>2. PICK c, d : c = disk /\ d = disk'
    OBVIOUS
  <2>3. Edited(c, d) /\ op'.kind # "tick" /\ (c # NoCampaign => WellFormed(c))
    BY <1>1, <2>1, <2>2 DEF Tooled
  <2>4. \A p \in DOMAIN d.leaf : p \notin DOMAIN c.leaf => d.leaf[p].status = "planned"
    <3>1. \A p \in DOMAIN d.leaf : p \notin DOMAIN c.leaf => d.leaf[p] = NewLeaf
      BY <2>3, Zenon DEF Edited
    <3>2. NewLeaf.status = "planned"
      BY DEF NewLeaf
    <3> QED
      BY <3>1, <3>2
  <2>5. \A p \in DOMAIN c.leaf : d.leaf[p].status = c.leaf[p].status /\ p \in Paths
    <3>1. ASSUME NEW p \in DOMAIN c.leaf
          PROVE  d.leaf[p].status = c.leaf[p].status /\ p \in Paths
      <4>1. c # NoCampaign
        <5>1. DOMAIN NoCampaign.leaf = {}
          BY DEF NoCampaign
        <5> QED
          BY <3>1, <5>1
      <4>2. PICK l, m : l = c.leaf[p] /\ m = d.leaf[p]
        OBVIOUS
      <4>3. l \in Leaf /\ p \in Paths
        BY <2>3, <3>1, <4>1, <4>2, WalkLeaves DEF WellFormed
      <4>4. m = [l EXCEPT !.approved = m.approved]
        BY <2>3, <3>1, <4>2 DEF Edited
      <4>5. m.status = l.status
        BY <4>3, <4>4 DEF Leaf
      <4> QED
        BY <4>2, <4>3, <4>5
    <3> QED
      BY <3>1
  <2>6. CASE CreateCampaign /\ c = NoCampaign
    <3>1. \A p \in DOMAIN d.leaf : d.leaf[p].status = "planned"
      <4>1. DOMAIN NoCampaign.leaf = {}
        BY DEF NoCampaign
      <4> QED
        BY <2>4, <2>6, <4>1
    <3>2. ToldOf(d)'
      BY <3>1 DEF ToldOf, Ended
    <3> QED
      BY <2>2, <2>3, <3>2 DEF ToldInv
  <2>7. CASE c # NoCampaign /\ TakeCallbacks
    <3>1. PICK b, drained : b = c.callbacks /\ drained = d.callbacks
      OBVIOUS
    <3>2. drained = <<>>
      <4>1. WellFormed(c) /\ d = [c EXCEPT !.callbacks = <<>>]
        BY <2>2, <2>3, <2>7 DEF TakeCallbacks, Save
      <4> QED
        BY <3>1, <4>1, ToolNotes
    <3>3. told' = [p \in Paths |-> LastWord(b, p, told[p])]
      BY <2>2, <2>7, <3>1 DEF TakeCallbacks
    <3>4. ASSUME NEW p \in DOMAIN d.leaf, d.leaf[p].status \in Ended
          PROVE  LastWord(drained, p, told'[p]) = d.leaf[p].status
      <4>1. p \in DOMAIN c.leaf
        BY <2>4, <3>4 DEF Ended
      <4>2. told'[p] = LastWord(b, p, told[p])
        BY <2>5, <3>3, <4>1
      <4>3. LastWord(b, p, told[p]) = c.leaf[p].status
        BY <2>2, <2>5, <2>7, <3>1, <3>4, <4>1 DEF ToldInv, ToldOf
      <4>4. PICK x : x = told'[p]
        OBVIOUS
      <4>5. LastWord(drained, p, x) = x
        BY <3>2, LastWordDrained
      <4> QED
        BY <2>5, <4>1, <4>2, <4>3, <4>4, <4>5
    <3>5. ToldOf(d)'
      BY <3>1, <3>4 DEF ToldOf
    <3> QED
      BY <2>2, <2>3, <3>5 DEF ToldInv
  <2>8. CASE c # NoCampaign /\ d.callbacks = c.callbacks /\ told' = told
    <3>1. ToldOf(c)
      BY <2>2, <2>8 DEF ToldInv
    <3>2. \A p \in DOMAIN d.leaf : d.leaf[p].status \in Ended =>
             p \in DOMAIN c.leaf /\ d.leaf[p].status = c.leaf[p].status
      BY <2>4, <2>5 DEF Ended
    <3>3. ToldOf(d)
      BY <2>8, <3>1, <3>2 DEF ToldOf
    <3> QED
      BY <1>2, <2>2, <2>3, <2>8, <3>3
  <2> QED
    BY <2>1, <2>2, <2>6, <2>7, <2>8 DEF Tooled
<1>12. ASSUME NEW force, DeleteCampaign(force)
       PROVE  ToldInv'
  BY <1>12 DEF DeleteCampaign, ToldInv, Locked, Idle
<1>13. CASE StopNext
  <2>1. op \in Stops
    BY <1>13 DEF StopNext, Structure, OpOK, StopOK
  <2>2. op'.kind # "tick" /\ disk' = disk /\ told' = told
    BY <1>13, <2>1 DEF StopNext, Stops, fileVars, history
  <2> QED
    BY <1>3, <2>2
<1>14. CASE StopEnd \/ Crash
  <2>1. op'.kind # "tick" /\ disk' = disk /\ told' = told
    BY <1>14 DEF StopEnd, Crash, Idle, fileVars, history
  <2> QED
    BY <1>3, <2>1
<1>15. CASE UNCHANGED <<disk, op, told>>
  BY <1>3, <1>15
<1> QED
  BY <1>4, <1>6, <1>7, <1>9, <1>10, <1>11, <1>12, <1>13, <1>14, <1>15, OthersKeep DEF Tick

\* A leaf that is done or failed on disk has its callback on disk, or it was drained: no
\* crash loses a decision point (AgendaEngine.tick, AgendaService.take_callbacks).
THEOREM DecisionsKept == Spec => []DecisionNotLost
<1>1. Init => ToldInv
  <2> SUFFICES ASSUME Init
               PROVE  ToldInv
    OBVIOUS
  <2>1. op.kind # "tick" /\ disk = NoCampaign
    BY DEF Init, Idle
  <2> QED
    BY <2>1 DEF ToldInv
<1>2. ToldInv => DecisionNotLost
  BY DEF ToldInv, ToldOf, DecisionNotLost
<1> QED
  BY <1>1, <1>2, ToldStep, AgendaStructure, PTL DEF Spec

-----------------------------------------------------------------------------
(* The budget: sums along the walk. *)

\* t[n] is the sum of the first n of the N numbers a.
Sums(t, a, N) ==
    /\ a \in [1 .. N -> Nat] /\ t \in [0 .. N -> Nat] /\ t[0] = 0
    /\ \A n \in 1 .. N : t[n] = t[n - 1] + a[n]

\* The sums of the same numbers are the same.
LEMMA SumsSame ==
  ASSUME NEW M \in Nat, NEW N \in Nat, NEW s, NEW a, NEW t, NEW b, Sums(s, a, M), Sums(t, b, N),
         NEW K \in Nat, K <= M, K <= N, \A n \in 1 .. K : a[n] = b[n]
  PROVE  s[K] = t[K]
<1> DEFINE S == {n \in Nat : n <= K => s[n] = t[n]}
<1>1. 0 \in S
  BY DEF Sums
<1>2. ASSUME NEW n \in Nat, n \in S
      PROVE  n + 1 \in S
  <2>1. CASE n + 1 <= K
    <3>1. PICK m \in 1 .. K : m = n + 1 /\ m - 1 = n /\ m \in 1 .. M /\ m \in 1 .. N
      BY <2>1
    <3>2. s[m] = s[m - 1] + a[m] /\ t[m] = t[m - 1] + b[m]
      BY <3>1 DEF Sums
    <3>3. s[n] = t[n]
      BY <1>2, <2>1
    <3> QED
      BY <3>1, <3>2, <3>3
  <2> QED
    BY <2>1
<1> HIDE DEF S
<1>3. K \in S
  BY <1>1, <1>2, SetInduction
<1> QED
  BY <1>3 DEF S

\* When one number changes, the sum changes by as much.
LEMMA SumsDiffer ==
  ASSUME NEW N \in Nat, NEW s, NEW a, NEW t, NEW b, Sums(s, a, N), Sums(t, b, N),
         NEW k \in 1 .. N, \A n \in 1 .. N : n # k => a[n] = b[n]
  PROVE  s[N] + b[k] = t[N] + a[k]
<1> DEFINE S == {n \in Nat : k <= n /\ n <= N => s[n] + b[k] = t[n] + a[k]}
<1>0. a \in [1 .. N -> Nat] /\ b \in [1 .. N -> Nat] /\ s \in [0 .. N -> Nat] /\ t \in [0 .. N -> Nat]
  BY DEF Sums
<1>1. 0 \in S
  OBVIOUS
<1>2. ASSUME NEW n \in Nat, n \in S
      PROVE  n + 1 \in S
  <2> SUFFICES ASSUME k <= n + 1, n + 1 <= N
               PROVE  s[n + 1] + b[k] = t[n + 1] + a[k]
    OBVIOUS
  <2>1. PICK m \in 1 .. N : m = n + 1 /\ m - 1 = n
    OBVIOUS
  <2>2. s[m] = s[n] + a[m] /\ t[m] = t[n] + b[m]
    BY <2>1 DEF Sums
  <2>3. s[n] \in Nat /\ t[n] \in Nat /\ a[m] \in Nat /\ b[m] \in Nat /\ a[k] \in Nat /\ b[k] \in Nat
    BY <1>0, <2>1
  <2>4. CASE k = m
    <3>1. n <= N /\ \A i \in 1 .. n : a[i] = b[i]
      BY <2>1, <2>4
    <3>2. s[n] = t[n]
      BY <3>1, SumsSame
    <3> QED
      BY <2>1, <2>2, <2>3, <2>4, <3>2
  <2>5. CASE k # m
    <3>1. s[n] + b[k] = t[n] + a[k]
      BY <1>2, <2>1, <2>5
    <3>2. a[m] = b[m]
      BY <2>5
    <3> QED
      BY <2>1, <2>2, <2>3, <3>1, <3>2
  <2> QED
    BY <2>4, <2>5
<1> HIDE DEF S
<1>3. N \in S
  BY <1>1, <1>2, SetInduction
<1> QED
  BY <1>3 DEF S

\* A part of the sum is at most the sum.
LEMMA SumsGrow ==
  ASSUME NEW N \in Nat, NEW t, NEW a, Sums(t, a, N), NEW k \in 0 .. N
  PROVE  t[k] <= t[N]
<1> DEFINE S == {n \in Nat : k <= n /\ n <= N => t[k] <= t[n]}
<1>1. 0 \in S
  <2>1. t[0] \in Nat
    BY DEF Sums
  <2> QED
    BY <2>1
<1>2. ASSUME NEW n \in Nat, n \in S
      PROVE  n + 1 \in S
  <2> SUFFICES ASSUME k <= n + 1, n + 1 <= N
               PROVE  t[k] <= t[n + 1]
    OBVIOUS
  <2>1. PICK m \in 1 .. N : m = n + 1 /\ m - 1 = n
    OBVIOUS
  <2>2. t[m] = t[n] + a[m] /\ t[n] \in Nat /\ a[m] \in Nat /\ t[k] \in Nat /\ t[m] \in Nat
    BY <2>1 DEF Sums
  <2> QED
    BY <1>2, <2>1, <2>2
<1> HIDE DEF S
<1>3. N \in S
  BY <1>1, <1>2, SetInduction
<1> QED
  BY <1>3 DEF S

\* The cost of each leaf of the walk.
CostsAlong(c) == [n \in 1 .. Len(c.order) |-> Cost(c.leaf[c.order[n]])]

\* t sums them up.
Totals(t, c) == Sums(t, CostsAlong(c), Len(c.order)) /\ CostOf(c) = t[Len(c.order)]

\* A cost is a natural number.
LEMMA CostType ==
  ASSUME NEW l \in Leaf
  PROVE  Cost(l) \in Nat
  BY DEF Cost, Leaf, Costs, Unset

\* The cost of a campaign is summed up along the walk.
LEMMA CostSteps ==
  ASSUME NEW c \in Campaigns, Range(c.order) = DOMAIN c.leaf
  PROVE  \E t : Totals(t, c)
<1> DEFINE N == Len(c.order)
           a == CostsAlong(c)
           Body(g) == [n \in 0 .. N |-> IF n = 0 THEN 0 ELSE g[n - 1] + Cost(c.leaf[c.order[n]])]
           F == CHOOSE g : g = Body(g)
           G == [n \in 1 .. N |-> [v \in Nat |-> v + a[n]]]
<1>1. N \in Nat /\ a \in [1 .. N -> Nat] /\ \A n \in 1 .. N : a[n] = Cost(c.leaf[c.order[n]])
  BY WalkLeaves, CostType DEF CostsAlong
<1>2. G \in [1 .. N -> [Nat -> Nat]]
  <2> HIDE DEF N, a
  <2> QED
    BY <1>1
<1>3. PICK h : RecursTo(h, N, 0, G, Nat)
  <2> HIDE DEF G, N
  <2> QED
    BY <1>1, <1>2, RecursionTo
<1>4. Sums(h, a, N)
  <2> HIDE DEF N, a
  <2>1. ASSUME NEW n \in 1 .. N
        PROVE  h[n] = h[n - 1] + a[n]
    <3>1. n - 1 \in 0 .. N
      BY <1>1
    <3>2. h[n - 1] \in Nat /\ h[n] = G[n][h[n - 1]]
      BY <1>3, <3>1 DEF RecursTo
    <3> QED
      BY <3>2
  <2>2. h \in [0 .. N -> Nat] /\ h[0] = 0
    BY <1>3 DEF RecursTo
  <2> QED
    BY <1>1, <2>1, <2>2 DEF Sums
<1>5. h = Body(h)
  <2>1. h \in [0 .. N -> Nat] /\ h[0] = 0 /\ \A n \in 1 .. N : h[n] = h[n - 1] + Cost(c.leaf[c.order[n]])
    BY <1>1, <1>4 DEF Sums
  <2> HIDE DEF N
  <2> QED
    BY <1>1, <2>1
<1>6. F = Body(F)
  BY <1>5
<1>7. DOMAIN F = 0 .. N /\ F[0] = 0 /\ \A n \in 1 .. N : F[n] = F[n - 1] + a[n]
  <2> HIDE DEF F, N, a
  <2>1. /\ DOMAIN Body(F) = 0 .. N /\ Body(F)[0] = 0
        /\ \A n \in 1 .. N : Body(F)[n] = F[n - 1] + Cost(c.leaf[c.order[n]])
    BY <1>1
  <2> QED
    BY <1>1, <1>6, <2>1
<1> DEFINE S == {n \in Nat : n <= N => F[n] = h[n]}
<1>8. 0 \in S
  BY <1>4, <1>7 DEF Sums
<1>9. ASSUME NEW n \in Nat, n \in S
      PROVE  n + 1 \in S
  <2> HIDE DEF F, N, a
  <2>1. CASE n + 1 <= N
    <3>1. PICK m \in 1 .. N : m = n + 1 /\ m - 1 = n
      BY <1>1, <2>1
    <3>2. F[m] = F[n] + a[m] /\ h[m] = h[n] + a[m]
      BY <1>4, <1>7, <3>1 DEF Sums
    <3> QED
      BY <1>1, <1>9, <2>1, <3>1, <3>2
  <2> QED
    BY <2>1
<1> HIDE DEF S
<1>10. N \in S
  BY <1>1, <1>8, <1>9, SetInduction
<1>11. CostOf(c) = F[N]
  BY DEF CostOf
<1>12. Totals(h, c)
  <2> HIDE DEF F
  <2>1. F[N] = h[N]
    BY <1>1, <1>10 DEF S
  <2> QED
    BY <1>4, <1>11, <2>1 DEF Totals
<1> QED
  BY <1>12

\* Leaves that cost the same cost the same together.
LEMMA CostSame ==
  ASSUME NEW c \in Campaigns, Range(c.order) = DOMAIN c.leaf,
         NEW d \in Campaigns, Range(d.order) = DOMAIN d.leaf, d.order = c.order,
         \A p \in DOMAIN c.leaf : Cost(d.leaf[p]) = Cost(c.leaf[p])
  PROVE  CostOf(d) = CostOf(c)
<1>1. PICK s, t : Totals(s, c) /\ Totals(t, d)
  BY CostSteps
<1>2. PICK N \in Nat : N = Len(c.order)
  BY WalkLeaves
<1>3. PICK a, b : a = CostsAlong(c) /\ b = CostsAlong(d)
  OBVIOUS
<1>4. \A n \in 1 .. N : a[n] = b[n]
  <2>1. \A n \in 1 .. N : c.order[n] \in DOMAIN c.leaf
    BY <1>2, WalkLeaves
  <2> QED
    BY <1>2, <1>3, <2>1 DEF CostsAlong
<1>5. Sums(s, a, N) /\ Sums(t, b, N) /\ N <= N
  BY <1>1, <1>2, <1>3 DEF Totals
<1>6. s[N] = t[N]
  BY <1>4, <1>5, SumsSame
<1> QED
  BY <1>1, <1>2, <1>6 DEF Totals

\* When the cost of one leaf changes, that of the campaign changes by as much.
LEMMA CostOne ==
  ASSUME NEW c, WellFormed(c), NEW d, WellFormed(d), d.order = c.order, NEW p \in DOMAIN c.leaf,
         \A q \in DOMAIN c.leaf : q # p => Cost(d.leaf[q]) = Cost(c.leaf[q])
  PROVE  CostOf(c) + Cost(d.leaf[p]) = CostOf(d) + Cost(c.leaf[p])
<1>1. PICK s, t : Totals(s, c) /\ Totals(t, d)
  BY CostSteps DEF WellFormed
<1>2. PICK N \in Nat : N = Len(c.order)
  BY WalkLeaves DEF WellFormed
<1>3. PICK a, b : a = CostsAlong(c) /\ b = CostsAlong(d)
  OBVIOUS
<1>4. PICK k \in 1 .. N : c.order[k] = p
  BY <1>2, WalkLeaves DEF WellFormed
<1>5. \A n \in 1 .. N : a[n] = Cost(c.leaf[c.order[n]]) /\ b[n] = Cost(d.leaf[c.order[n]])
  BY <1>2, <1>3 DEF CostsAlong
<1>6. \A n \in 1 .. N : n # k => a[n] = b[n]
  <2>1. \A n \in 1 .. N : n # k => c.order[n] \in DOMAIN c.leaf /\ c.order[n] # p
    <3>1. DOMAIN c.order = 1 .. N /\ IsInjective(c.order)
      BY <1>2, WalkLeaves DEF WellFormed
    <3>2. \A n \in 1 .. N : n # k => c.order[n] # c.order[k]
      BY <3>1 DEF IsInjective
    <3> QED
      BY <1>2, <1>4, <3>2, WalkLeaves DEF WellFormed
  <2> QED
    BY <1>5, <2>1
<1>7. Sums(s, a, N) /\ Sums(t, b, N)
  BY <1>1, <1>2, <1>3 DEF Totals
<1>8. s[N] + b[k] = t[N] + a[k]
  BY <1>6, <1>7, SumsDiffer
<1> QED
  BY <1>1, <1>2, <1>4, <1>5, <1>8 DEF Totals

\* A new leaf at the end of the walk that costs nothing adds nothing.
LEMMA CostMore ==
  ASSUME NEW c, WellFormed(c), NEW d, WellFormed(d), NEW p \in Paths, d.order = Append(c.order, p),
         Cost(d.leaf[p]) = 0, \A q \in DOMAIN c.leaf : Cost(d.leaf[q]) = Cost(c.leaf[q])
  PROVE  CostOf(d) = CostOf(c)
<1>1. PICK s, t : Totals(s, c) /\ Totals(t, d)
  BY CostSteps DEF WellFormed
<1>2. PICK N \in Nat : N = Len(c.order) /\ Len(d.order) = N + 1 /\ d.order[N + 1] = p
                       /\ \A n \in 1 .. N : d.order[n] = c.order[n] /\ c.order[n] \in DOMAIN c.leaf
  <2>1. PICK order \in Seq(Paths) : order = c.order
    BY WalkLeaves DEF WellFormed
  <2>2. \A n \in 1 .. Len(order) : order[n] \in DOMAIN c.leaf
    BY <2>1, WalkLeaves DEF WellFormed
  <2> QED
    BY <2>1, <2>2
<1>3. PICK a, b : a = CostsAlong(c) /\ b = CostsAlong(d)
  OBVIOUS
<1>4. \A n \in 1 .. N : a[n] = b[n]
  BY <1>2, <1>3 DEF CostsAlong
<1>5. PICK M \in Nat : M = N + 1 /\ N <= M /\ M \in 1 .. M /\ M - 1 = N
  BY <1>2
<1>6. Sums(s, a, N) /\ Sums(t, b, M) /\ N <= N
  BY <1>1, <1>2, <1>3, <1>5 DEF Totals
<1>7. s[N] = t[N]
  BY <1>4, <1>5, <1>6, SumsSame
<1>8. b[M] = 0
  BY <1>2, <1>3, <1>5 DEF CostsAlong
<1>9. t[M] = t[N] + b[M] /\ t[N] \in Nat
  BY <1>5, <1>6 DEF Sums
<1> QED
  BY <1>1, <1>2, <1>5, <1>7, <1>8, <1>9 DEF Totals

\* A campaign of leaves that cost nothing costs nothing.
LEMMA CostNone ==
  ASSUME NEW c, WellFormed(c), \A p \in DOMAIN c.leaf : Cost(c.leaf[p]) = 0
  PROVE  CostOf(c) = 0
<1>1. PICK s : Totals(s, c)
  BY CostSteps DEF WellFormed
<1>2. PICK N \in Nat : N = Len(c.order) /\ \A n \in 1 .. N : c.order[n] \in DOMAIN c.leaf
  BY WalkLeaves DEF WellFormed
<1>3. PICK a : a = CostsAlong(c)
  OBVIOUS
<1>4. \A n \in 1 .. N : a[n] = 0
  BY <1>2, <1>3 DEF CostsAlong
<1>5. PICK t : t = [n \in 0 .. N |-> 0]
  OBVIOUS
<1>6. Sums(s, a, N)
  BY <1>1, <1>2, <1>3 DEF Totals
<1>7. Sums(t, a, N) /\ N <= N
  BY <1>4, <1>5, <1>6 DEF Sums
<1>8. s[N] = t[N]
  BY <1>6, <1>7, SumsSame
<1> QED
  BY <1>1, <1>2, <1>5, <1>8 DEF Totals

\* What reconcile makes of the usage.
LEMMA ReconcileCore ==
  ASSUME NEW u \in Usage, NEW l \in Leaf, NEW a \in [core : Nat, gpu : Nat], l.estCore <= u.core
  PROVE  LET v == Reconcile(u, l, a)
         IN v.jobs = u.jobs /\ v.core = u.core + a.core - l.estCore
<1>1. u.core \in Nat /\ l.estCore \in Nat /\ a.core \in Nat
  BY DEF Usage, Leaf
<1>2. PICK x \in Nat : x = u.core + a.core - l.estCore
  BY <1>1
<1>3. PICK y : Reconcile(u, l, a) = [u EXCEPT !.core = IF x < 0 THEN 0 ELSE x, !.gpu = y]
  BY <1>2, Zenon DEF Reconcile
<1>4. (IF x < 0 THEN 0 ELSE x) = x
  OBVIOUS
<1> QED
  BY <1>2, <1>3, <1>4 DEF Usage

\* The correction of the actual costs keeps the usage the sum of the costs.
LEMMA ReconcileSums ==
  ASSUME WorldOK, NEW c \in Campaigns, Range(c.order) = DOMAIN c.leaf
  PROVE  LET d == ReconcileActuals(c)
         IN /\ d.usage.jobs = c.usage.jobs
            /\ c.usage.core = CostOf(c) => d.usage.core = CostOf(d)
<1>1. PICK N \in Nat : N = Len(c.order) /\ \A n \in 1 .. N : c.leaf[c.order[n]] \in Leaf /\ c.order[n] \in DOMAIN c.leaf
  BY WalkLeaves
<1>2. PICK u : UsageAlong(u, c)
  BY UsageSteps
<1>3. PICK d : d = ReconcileActuals(c)
  OBVIOUS
<1>4. /\ d \in Campaigns /\ d.order = c.order /\ DOMAIN d.leaf = DOMAIN c.leaf
      /\ \A p \in DOMAIN c.leaf : d.leaf[p] = Stamped(c.leaf[p])
  BY <1>3, ReconcileIs
<1>5. PICK s, t : Totals(s, d) /\ Totals(t, c)
  BY <1>4, CostSteps
<1>6. PICK a, b : a = CostsAlong(c) /\ b = CostsAlong(d)
  OBVIOUS
<1>7. Sums(s, b, N) /\ Sums(t, a, N) /\ CostOf(d) = s[N] /\ CostOf(c) = t[N]
  BY <1>1, <1>4, <1>5, <1>6 DEF Totals
<1>8. /\ u \in [0 .. N -> Usage] /\ u[0] = c.usage /\ d.usage = u[N]
      /\ \A n \in 1 .. N :
           LET l == c.leaf[c.order[n]]
           IN u[n] = IF OwesActual(l) THEN Reconcile(u[n - 1], l, ActualOf(l)) ELSE u[n - 1]
  BY <1>1, <1>2, <1>3 DEF UsageAlong
<1>9. ASSUME NEW n \in 1 .. N, NEW m \in 0 .. N, m = n - 1,
             c.usage.core = CostOf(c) => u[m].core + t[m] = t[N] + s[m]
      PROVE  c.usage.core = CostOf(c) => u[n].core + t[n] = t[N] + s[n]
  <2> SUFFICES ASSUME c.usage.core = CostOf(c)
               PROVE  u[n].core + t[n] = t[N] + s[n]
    OBVIOUS
  <2>1. PICK l \in Leaf : l = c.leaf[c.order[n]]
    BY <1>1
  <2>2. a[n] = Cost(l) /\ b[n] = Cost(Stamped(l))
    BY <1>1, <1>4, <1>6, <2>1 DEF CostsAlong
  <2>3. t[n] = t[m] + a[n] /\ s[n] = s[m] + b[n]
    BY <1>7, <1>9 DEF Sums
  <2>4. t[m] \in Nat /\ s[m] \in Nat /\ t[N] \in Nat /\ a[n] \in Nat /\ b[n] \in Nat /\ t[n] \in Nat
    <3>1. N \in 0 .. N /\ n \in 0 .. N
      OBVIOUS
    <3> QED
      BY <1>7, <3>1 DEF Sums
  <2>5. PICK v \in Usage : v = u[m]
    BY <1>8
  <2>6. v.core \in Nat /\ v.core + t[m] = t[N] + s[m]
    BY <1>9, <2>5 DEF Usage
  <2>7. CASE OwesActual(l)
    <3>1. PICK act \in [core : Nat, gpu : Nat] : act = ActualOf(l)
      BY <2>7, ActualType
    <3>2. Cost(l) = l.estCore
      BY <2>7 DEF Cost, OwesActual
    <3>3. Cost(Stamped(l)) = act.core
      <4>1. PICK m2 \in Leaf : m2 = Stamped(l)
        BY StampedType
      <4>2. m2.reused = l.reused /\ m2.actCore = act.core
        BY <2>7, <3>1, <4>1 DEF Stamped, Leaf
      <4>3. ~l.reused /\ act.core # Unset
        BY <2>7 DEF OwesActual, Unset
      <4> QED
        BY <4>1, <4>2, <4>3 DEF Cost
    <3>4. t[n] <= t[N]
      BY <1>7, SumsGrow
    <3>5. l.estCore <= v.core
      BY <2>2, <2>3, <2>4, <2>6, <3>2, <3>4
    <3>6. u[n] = Reconcile(v, l, act)
      BY <1>8, <1>9, <2>1, <2>5, <2>7, <3>1
    <3>7. u[n].core = v.core + act.core - l.estCore
      BY <3>5, <3>6, ReconcileCore
    <3>8. l.estCore \in Nat /\ act.core \in Nat
      BY DEF Leaf
    <3> QED
      BY <2>2, <2>3, <2>4, <2>6, <3>2, <3>3, <3>7, <3>8
  <2>8. CASE ~OwesActual(l)
    <3>1. u[n] = v
      BY <1>8, <1>9, <2>1, <2>5, <2>8
    <3>2. a[n] = b[n]
      BY <2>2, <2>8 DEF Stamped
    <3> QED
      BY <2>3, <2>4, <2>6, <3>1, <3>2
  <2> QED
    BY <2>7, <2>8
<1> DEFINE S == {n \in Nat : n <= N => /\ c.usage.core = CostOf(c) => u[n].core + t[n] = t[N] + s[n]
                                       /\ u[n].jobs = c.usage.jobs}
<1>10. 0 \in S
  <2>1. t[0] = 0 /\ s[0] = 0 /\ t[N] \in Nat
    BY <1>7 DEF Sums
  <2>2. c.usage.core = CostOf(c) => u[0].core + t[0] = t[N] + s[0]
    BY <1>7, <1>8, <2>1
  <2> QED
    BY <1>8, <2>2
<1>11. ASSUME NEW n \in Nat, n \in S
       PROVE  n + 1 \in S
  <2> SUFFICES ASSUME n + 1 <= N
               PROVE  /\ c.usage.core = CostOf(c) => u[n + 1].core + t[n + 1] = t[N] + s[n + 1]
                      /\ u[n + 1].jobs = c.usage.jobs
    OBVIOUS
  <2>1. PICK k \in 1 .. N : k = n + 1 /\ n = k - 1 /\ n \in 0 .. N
    OBVIOUS
  <2>2. c.usage.core = CostOf(c) => u[n].core + t[n] = t[N] + s[n]
    BY <1>11
  <2>3. c.usage.core = CostOf(c) => u[k].core + t[k] = t[N] + s[k]
    BY <1>9, <2>1, <2>2
  <2>4. u[k].jobs = u[n].jobs
    <3>1. PICK l \in Leaf : l = c.leaf[c.order[k]]
      BY <1>1
    <3>2. PICK v \in Usage : v = u[n]
      BY <1>8, <2>1
    <3>3. PICK act : act = ActualOf(l)
      OBVIOUS
    <3>4. u[k] = IF OwesActual(l) THEN Reconcile(v, l, act) ELSE v
      BY <1>8, <2>1, <3>1, <3>2, <3>3
    <3>5. Reconcile(v, l, act).jobs = v.jobs
      BY DEF Reconcile, Usage
    <3> QED
      BY <3>2, <3>4, <3>5
  <2> QED
    BY <1>11, <2>1, <2>3, <2>4
<1> HIDE DEF S
<1>12. N \in S
  BY <1>10, <1>11, SetInduction
<1>13. /\ c.usage.core = CostOf(c) => u[N].core + t[N] = t[N] + s[N]
       /\ u[N].jobs = c.usage.jobs
  BY <1>12 DEF S
<1>14. t[N] \in Nat /\ s[N] \in Nat /\ u[N].core \in Nat
  BY <1>7, <1>8 DEF Sums, Usage
<1>15. c.usage.core = CostOf(c) => d.usage.core = CostOf(d)
  BY <1>7, <1>8, <1>13, <1>14
<1> QED
  BY <1>3, <1>8, <1>13, <1>15

-----------------------------------------------------------------------------
(* The budget: the usage is what the leaves cost. *)

\* A planned leaf has no run and has cost nothing yet.
Fresh(c) ==
    \A p \in DOMAIN c.leaf : c.leaf[p].status = "planned" =>
        /\ c.leaf[p].run = NoRun /\ ~c.leaf[p].reused
        /\ c.leaf[p].estCore = 0 /\ c.leaf[p].actCore = Unset

\* The usage of a campaign counts each accepted submission and each cost once.
Balanced(c) == Fresh(c) /\ c.usage.jobs = Cardinality(Counted(c)) /\ c.usage.core = CostOf(c)

\* A leaf that cost as much as before, for the same run, and that was planned if it is.
Even(l, m) ==
    /\ m.run = l.run /\ m.reused = l.reused /\ m.estCore = l.estCore /\ m.actCore = l.actCore
    /\ m.status = "planned" => l.status = "planned"

\* d has the leaves of c, each as even.
EvenLeaves(c, d) ==
    DOMAIN d.leaf = DOMAIN c.leaf /\ \A p \in DOMAIN c.leaf : Even(c.leaf[p], d.leaf[p])

\* A campaign stays balanced when its usage and its walk stay and its leaves are even.
LEMMA EvenStays ==
  ASSUME NEW c, WellFormed(c), NEW d, WellFormed(d), d.order = c.order, d.usage = c.usage,
         EvenLeaves(c, d), Balanced(c)
  PROVE  Balanced(d)
<1>1. Fresh(d)
  BY DEF Balanced, Fresh, EvenLeaves, Even
<1>2. Counted(d) = Counted(c)
  BY DEF Counted, EvenLeaves, Even
<1>3. \A p \in DOMAIN c.leaf : Cost(d.leaf[p]) = Cost(c.leaf[p])
  BY DEF Cost, EvenLeaves, Even
<1>4. CostOf(d) = CostOf(c)
  BY <1>3, CostSame DEF WellFormed
<1> QED
  BY <1>1, <1>2, <1>4 DEF Balanced

\* What is seen of a leaf costs nothing, and counts no run more or less; what is planned
\* was left alone.
LEMMA SeenCost ==
  ASSUME NEW p \in Paths, NEW l \in Leaf, NEW m \in Leaf, Seen(p, l, m),
         l.status = "planned" => l.run = NoRun /\ ~l.reused /\ l.estCore = 0 /\ l.actCore = Unset
  PROVE  /\ Cost(m) = Cost(l) /\ (~m.reused /\ m.run = p <=> ~l.reused /\ l.run = p)
         /\ m.status = "planned" => m = l
<1>1. CASE m = l
  BY <1>1
<1>2. CASE /\ l.sim # NoSim /\ registry[l.sim].st \in DOMAIN StatusOf
           /\ m = [l EXCEPT !.status = StatusOf[registry[l.sim].st]]
  <2>1. PICK s : s = StatusOf[registry[l.sim].st]
    OBVIOUS
  <2>2. m = [l EXCEPT !.status = s] /\ s \in {"submitted", "running", "done", "failed"}
    BY <1>2, <2>1, StatusOfIs
  <2>3. m.status = s /\ m.run = l.run /\ m.reused = l.reused /\ m.estCore = l.estCore /\ m.actCore = l.actCore
    BY <2>2 DEF Leaf
  <2> QED
    BY <2>2, <2>3 DEF Cost
<1>3. CASE /\ l.status = "planned" /\ reuse[ReuseKey(p)].st = "done"
           /\ m = [l EXCEPT !.sim = reuse[ReuseKey(p)].sim, !.run = reuse[ReuseKey(p)].run,
                            !.status = "done", !.reused = TRUE]
  <2>1. m.reused /\ m.status = "done"
    BY <1>3 DEF Leaf
  <2>2. Cost(m) = 0 /\ Cost(l) = 0
    BY <1>3, <2>1 DEF Cost
  <2>3. l.run # p
    BY <1>3, Names
  <2> QED
    BY <2>1, <2>2, <2>3
<1> QED
  BY <1>1, <1>2, <1>3 DEF Seen

\* The fold keeps a campaign balanced: what a leaf is observed to have cost is counted once.
LEMMA FoldBalanced ==
  ASSUME WorldOK, NEW c, WellFormed(c), Balanced(c)
  PROVE  Balanced(Fold(c)) /\ Fold(c).usage.jobs = c.usage.jobs
<1>1. PICK b : Observed(c, b) /\ Fold(c) = ReconcileActuals(b)
  BY FoldParts
<1>2. c \in Campaigns /\ Range(c.order) = DOMAIN c.leaf /\ b \in Campaigns /\ Range(b.order) = DOMAIN b.leaf
  BY <1>1 DEF WellFormed, Observed
<1>3. /\ b.order = c.order /\ b.usage.jobs = c.usage.jobs /\ b.usage.core = c.usage.core
      /\ DOMAIN b.leaf = DOMAIN c.leaf
      /\ \A p \in DOMAIN c.leaf : Seen(p, c.leaf[p], b.leaf[p]) /\ b.leaf[p] \in Leaf
  BY <1>1 DEF Observed
<1>4. \A p \in DOMAIN c.leaf :
        LET l == c.leaf[p]
            m == b.leaf[p]
        IN /\ Cost(m) = Cost(l) /\ (~m.reused /\ m.run = p <=> ~l.reused /\ l.run = p)
           /\ m.status = "planned" => m = l
  <2> SUFFICES ASSUME NEW p \in DOMAIN c.leaf
               PROVE  LET l == c.leaf[p]
                          m == b.leaf[p]
                      IN /\ Cost(m) = Cost(l) /\ (~m.reused /\ m.run = p <=> ~l.reused /\ l.run = p)
                         /\ m.status = "planned" => m = l
    OBVIOUS
  <2>1. PICK l \in Leaf, m \in Leaf : l = c.leaf[p] /\ m = b.leaf[p]
    BY <1>2, <1>3, WalkLeaves
  <2>2. l.status = "planned" => l.run = NoRun /\ ~l.reused /\ l.estCore = 0 /\ l.actCore = Unset
    BY <2>1 DEF Balanced, Fresh
  <2>3. p \in Paths /\ Seen(p, l, m)
    BY <1>2, <1>3, <2>1, WalkLeaves
  <2>4. /\ Cost(m) = Cost(l) /\ (~m.reused /\ m.run = p <=> ~l.reused /\ l.run = p)
        /\ m.status = "planned" => m = l
    BY <2>2, <2>3, SeenCost
  <2> QED
    BY <2>1, <2>4
<1>5. Counted(b) = Counted(c)
  BY <1>3, <1>4 DEF Counted
<1>6. CostOf(b) = CostOf(c)
  BY <1>2, <1>3, <1>4, CostSame
<1>7. b.usage.core = CostOf(b) /\ b.usage.jobs = Cardinality(Counted(b))
  BY <1>3, <1>5, <1>6 DEF Balanced
<1>8. PICK d : d = ReconcileActuals(b)
  OBVIOUS
<1>9. d.usage.jobs = b.usage.jobs /\ d.usage.core = CostOf(d)
  BY <1>2, <1>7, <1>8, ReconcileSums
<1>10. DOMAIN d.leaf = DOMAIN b.leaf /\ \A p \in DOMAIN b.leaf : d.leaf[p] = Stamped(b.leaf[p])
  BY <1>2, <1>8, ReconcileIs
<1>11. ASSUME NEW p \in DOMAIN b.leaf
       PROVE  /\ d.leaf[p].reused = b.leaf[p].reused /\ d.leaf[p].run = b.leaf[p].run
              /\ d.leaf[p].status = "planned" => d.leaf[p] = c.leaf[p]
  <2>1. PICK m \in Leaf : m = b.leaf[p]
    BY <1>3
  <2>2. d.leaf[p] = Stamped(m)
    BY <1>10, <2>1
  <2>3. Stamped(m).reused = m.reused /\ Stamped(m).run = m.run /\ Stamped(m).status = m.status
    BY DEF Stamped, Leaf
  <2>4. m.status = "planned" => Stamped(m) = m
    BY DEF Stamped, OwesActual, Ended
  <2> QED
    BY <1>3, <1>4, <2>1, <2>2, <2>3, <2>4
<1>12. Counted(d) = Counted(b)
  BY <1>10, <1>11 DEF Counted
<1>13. Fresh(d)
  BY <1>3, <1>10, <1>11 DEF Fresh, Balanced
<1> QED
  BY <1>1, <1>3, <1>7, <1>8, <1>9, <1>12, <1>13 DEF Balanced

\* The callbacks change no cost.
LEMMA EmittedBalanced ==
  ASSUME NEW c, WellFormed(c), NEW d, NEW owed, Emitted(c, d, owed), Balanced(c)
  PROVE  Balanced(d)
<1>1. WellFormed(d) /\ d.order = c.order /\ d.usage = c.usage /\ DOMAIN d.leaf = DOMAIN c.leaf
  BY DEF Emitted, Kin
<1>2. ASSUME NEW p \in DOMAIN c.leaf
      PROVE  Even(c.leaf[p], d.leaf[p])
  <2>1. PICK l, m : l \in Leaf /\ l = c.leaf[p] /\ m = d.leaf[p]
    BY WalkLeaves DEF WellFormed
  <2>2. Reasoned(l, m)
    BY <2>1 DEF Emitted
  <2>3. PICK w, x : m = [l EXCEPT !.suspect = x, !.why = w]
    BY <2>2 DEF Reasoned
  <2>4. Even(l, m)
    BY <2>1, <2>3 DEF Even, Leaf
  <2> QED
    BY <2>1, <2>4
<1> QED
  BY <1>1, <1>2, EvenStays DEF EvenLeaves

\* Failing a leaf over its dependency changes no cost.
LEMMA PersistedBalanced ==
  ASSUME NEW c, WellFormed(c), NEW d, NEW ended, Persisted(c, d, ended), Balanced(c)
  PROVE  Balanced(d)
<1>1. WellFormed(d) /\ d.order = c.order /\ d.usage = c.usage /\ DOMAIN d.leaf = DOMAIN c.leaf
  BY DEF Persisted, Kin
<1>2. ASSUME NEW p \in DOMAIN c.leaf
      PROVE  Even(c.leaf[p], d.leaf[p])
  <2>1. PICK l, m : l \in Leaf /\ l = c.leaf[p] /\ m = d.leaf[p]
    BY WalkLeaves DEF WellFormed
  <2>2. m = l \/ m = [l EXCEPT !.status = "failed", !.why = "dependency"]
    BY <2>1 DEF Persisted
  <2>3. CASE m = l
    BY <2>1, <2>3 DEF Even, Leaf
  <2>4. CASE m = [l EXCEPT !.status = "failed", !.why = "dependency"]
    <3>1. Even(l, m)
      BY <2>1, <2>4 DEF Even, Leaf
    <3> QED
      BY <2>1, <3>1
  <2> QED
    BY <2>2, <2>3, <2>4
<1> QED
  BY <1>1, <1>2, EvenStays DEF EvenLeaves

\* The end of a submission keeps a campaign balanced: an acceptance reserves its cost and
\* counts its run, anything else counts nothing.
LEMMA SubmittedBalanced ==
  ASSUME NEW c, NEW d, NEW p \in DOMAIN c.leaf, NEW out, WellFormed(c), Submitted(c, d, p, out),
         c.leaf[p].status = "planned", Balanced(c)
  PROVE  /\ Balanced(d)
         /\ d.usage = c.usage \/ (out = "accepted" /\ d.usage.jobs = c.usage.jobs + 1)
<1>1. /\ WellFormed(d) /\ d.order = c.order /\ DOMAIN d.leaf = DOMAIN c.leaf
      /\ \A q \in DOMAIN c.leaf : q # p => d.leaf[q] = c.leaf[q]
  BY DEF Submitted, Changed, Kin
<1>2. CASE CostsNothing(c, d, p)
  <2>1. \A q \in DOMAIN c.leaf : Even(c.leaf[q], d.leaf[q])
    BY <1>1, <1>2 DEF CostsNothing, Even
  <2>2. d.usage = c.usage
    BY <1>2 DEF CostsNothing
  <2> QED
    BY <1>1, <2>1, <2>2, EvenStays DEF EvenLeaves
<1>3. CASE out = "accepted" /\ IsAccepted(c, d, p)
  <2>1. p \in Paths /\ c.leaf[p] \in Leaf /\ SpecAt[p].core \in Nat
    BY WalkLeaves, SpecAssumption DEF WellFormed, SpecType
  <2>2. /\ c.leaf[p].run = NoRun /\ ~c.leaf[p].reused /\ c.leaf[p].estCore = 0 /\ c.leaf[p].actCore = Unset
    BY DEF Balanced, Fresh
  <2>3. /\ d.leaf[p].run = p /\ ~d.leaf[p].reused /\ d.leaf[p].estCore = SpecAt[p].core
        /\ d.leaf[p].actCore = Unset /\ d.leaf[p].status = "submitted"
        /\ d.usage.jobs = c.usage.jobs + 1 /\ d.usage.core = c.usage.core + SpecAt[p].core
    BY <1>3, <2>2 DEF IsAccepted
  <2>4. Fresh(d)
    BY <1>1, <2>3 DEF Fresh, Balanced
  <2>5. Counted(d) = Counted(c) \cup {p} /\ p \notin Counted(c)
    BY <1>1, <2>1, <2>2, <2>3, Names DEF Counted
  <2>6. IsFiniteSet(Counted(c))
    BY FiniteLeaves, FS_Subset DEF Counted, WellFormed
  <2>7. d.usage.jobs = Cardinality(Counted(d))
    BY <2>3, <2>5, <2>6, FS_AddElement DEF Balanced
  <2>8. Cost(c.leaf[p]) = 0 /\ Cost(d.leaf[p]) = SpecAt[p].core
    BY <2>2, <2>3 DEF Cost
  <2>9. CostOf(c) + Cost(d.leaf[p]) = CostOf(d) + Cost(c.leaf[p])
    BY <1>1, CostOne
  <2>10. CostOf(d) \in Nat
    <3>1. PICK t : Totals(t, d)
      BY <1>1, CostSteps DEF WellFormed
    <3>2. Len(d.order) \in Nat
      BY <1>1, WalkLeaves DEF WellFormed
    <3> QED
      BY <3>1, <3>2 DEF Totals, Sums
  <2>11. d.usage.core = CostOf(d)
    BY <2>3, <2>8, <2>9, <2>10 DEF Balanced
  <2> QED
    BY <1>3, <2>3, <2>4, <2>7, <2>11 DEF Balanced
<1> QED
  BY <1>2, <1>3 DEF Submitted, IsFailed, IsDeferred

\* A new leaf is fresh, and has cost nothing.
LEMMA NewLeafIs ==
  /\ NewLeaf.status = "planned" /\ NewLeaf.run = NoRun /\ NewLeaf.reused = FALSE
  /\ NewLeaf.estCore = 0 /\ NewLeaf.actCore = Unset /\ Cost(NewLeaf) = 0
<1>1. /\ NewLeaf.status = "planned" /\ NewLeaf.run = NoRun /\ NewLeaf.reused = FALSE
      /\ NewLeaf.estCore = 0 /\ NewLeaf.actCore = Unset
  BY DEF NewLeaf
<1> QED
  BY <1>1 DEF Cost

\* A campaign of new leaves with nothing used is balanced.
LEMMA NewBalanced ==
  ASSUME NEW d, WellFormed(d), d.usage = NoUsage, \A p \in DOMAIN d.leaf : d.leaf[p] = NewLeaf
  PROVE  Balanced(d)
<1>1. Fresh(d)
  BY NewLeafIs DEF Fresh
<1>2. Counted(d) = {}
  BY NewLeafIs, Names, WalkLeaves DEF Counted, WellFormed
<1>3. \A p \in DOMAIN d.leaf : Cost(d.leaf[p]) = 0
  BY NewLeafIs
<1>4. CostOf(d) = 0
  BY <1>3, CostNone
<1>5. d.usage.jobs = 0 /\ d.usage.core = 0
  BY DEF NoUsage
<1> QED
  BY <1>1, <1>2, <1>4, <1>5, FS_EmptySet DEF Balanced

\* A tool's edit changes no cost: a new leaf has cost nothing.
LEMMA EditedBalanced ==
  ASSUME NEW c, WellFormed(c), NEW d, WellFormed(d), Edited(c, d), Grown(c, d), d.usage = c.usage,
         Balanced(c)
  PROVE  Balanced(d)
<1>1. \A p \in DOMAIN c.leaf : Even(c.leaf[p], d.leaf[p]) /\ Cost(d.leaf[p]) = Cost(c.leaf[p])
  <2> SUFFICES ASSUME NEW p \in DOMAIN c.leaf
               PROVE  Even(c.leaf[p], d.leaf[p]) /\ Cost(d.leaf[p]) = Cost(c.leaf[p])
    OBVIOUS
  <2>1. PICK l, m : l \in Leaf /\ l = c.leaf[p] /\ m = d.leaf[p]
    BY WalkLeaves DEF WellFormed
  <2>2. m = [l EXCEPT !.approved = m.approved]
    BY <2>1, Zenon DEF Edited
  <2>3. Even(l, m)
    BY <2>1, <2>2 DEF Even, Leaf
  <2>4. Cost(m) = Cost(l)
    BY <2>3 DEF Even, Cost
  <2> QED
    BY <2>1, <2>3, <2>4
<1>2. CASE d.order = c.order
  <2>1. DOMAIN d.leaf = DOMAIN c.leaf
    BY <1>2 DEF WellFormed
  <2> QED
    BY <1>1, <1>2, <2>1, EvenStays DEF EvenLeaves
<1>3. ASSUME NEW p \in Paths, p \notin DOMAIN c.leaf, d.order = Append(c.order, p)
      PROVE  Balanced(d)
  <2>1. \A q \in DOMAIN d.leaf : q \notin DOMAIN c.leaf => d.leaf[q] = NewLeaf
    BY Zenon DEF Edited
  <2>2. DOMAIN c.leaf \subseteq DOMAIN d.leaf
    BY Zenon DEF Edited
  <2>3. p \in DOMAIN d.leaf
    <3>1. PICK o \in Seq(Paths) : o = c.order
      BY WalkLeaves DEF WellFormed
    <3>2. PICK n \in Nat : n = Len(o) + 1
      BY <3>1
    <3>3. d.order[n] = p /\ Len(d.order) = n
      BY <1>3, <3>1, <3>2
    <3>4. n \in 1 .. Len(d.order)
      BY <3>1, <3>2, <3>3
    <3> QED
      BY <3>3, <3>4, WalkLeaves DEF WellFormed
  <2>4. Fresh(d)
    BY <1>1, <2>1, NewLeafIs DEF Fresh, Balanced, Even
  <2>5. Counted(d) = Counted(c)
    <3>1. \A q \in DOMAIN d.leaf : q \in Paths
      BY WalkLeaves DEF WellFormed
    <3> QED
      BY <1>1, <2>1, <2>2, <3>1, NewLeafIs, Names DEF Counted, Even
  <2>6. CostOf(d) = CostOf(c)
    <3>1. Cost(d.leaf[p]) = 0
      BY <1>3, <2>1, <2>3, NewLeafIs
    <3> QED
      BY <1>1, <1>3, <3>1, CostMore
  <2> QED
    BY <2>4, <2>5, <2>6 DEF Balanced
<1> QED
  BY <1>2, <1>3 DEF Grown

\* After a submission is planned for, there is room for the rest.
LEMMA RoomLater ==
  ASSUME NEW steps, NEW jobs \in Nat, NEW cap \in Nat, NEW w, Room(w, steps, jobs, cap),
         Len(steps) \in Nat, NEW n \in 1 .. Len(steps), steps[n].action = "submit",
         NEW rest, Len(rest) = Len(steps) - n, \A i \in 1 .. Len(rest) : rest[i] = steps[i + n]
  PROVE  jobs + 1 <= cap /\ \E v : Room(v, rest, jobs + 1, cap)
<1>1. jobs <= w[n] /\ w[n] < cap /\ w[n] \in Nat
  BY DEF Room
<1>2. PICK v : v = [i \in 1 .. Len(rest) |-> w[i + n]]
  OBVIOUS
<1>3. \A i \in 1 .. Len(rest) : i + n \in 1 .. Len(steps) /\ n < i + n
  OBVIOUS
<1>4. v \in [1 .. Len(rest) -> Nat] /\ \A i \in 1 .. Len(rest) : v[i] = w[i + n]
  BY <1>2, <1>3 DEF Room
<1>5. ASSUME NEW i \in 1 .. Len(rest), rest[i].action = "submit"
      PROVE  jobs + 1 <= v[i] /\ v[i] < cap
  <2>1. PICK k \in 1 .. Len(steps) : k = i + n /\ n < k
    BY <1>3
  <2>2. w[n] < w[k] /\ w[k] < cap /\ w[k] \in Nat
    BY <1>5, <2>1 DEF Room
  <2>3. PICK x \in Nat, y \in Nat : x = w[n] /\ y = w[k] /\ v[i] = y
    BY <1>1, <1>4, <2>1, <2>2
  <2> QED
    BY <1>1, <2>2, <2>3
<1>6. ASSUME NEW i \in 1 .. Len(rest), NEW j \in 1 .. Len(rest), i < j,
             rest[i].action = "submit", rest[j].action = "submit"
      PROVE  v[i] < v[j]
  <2>1. PICK k \in 1 .. Len(steps), m \in 1 .. Len(steps) : k = i + n /\ m = j + n /\ k < m
    BY <1>3, <1>6
  <2>2. w[k] < w[m]
    BY <1>6, <2>1 DEF Room
  <2> QED
    BY <1>4, <2>1, <2>2
<1>7. Room(v, rest, jobs + 1, cap)
  BY <1>4, <1>5, <1>6 DEF Room
<1> QED
  BY <1>1, <1>7

\* The job that is counted when the submission awaited is accepted.
InQuestion == IF op.await # NoRun THEN 1 ELSE 0

\* With a cap on the jobs, those counted are within it, and there is room for the submission
\* awaited and for those planned.
CapKept ==
    "jobs" \in DOMAIN limit.budget =>
        /\ disk # NoCampaign => disk.usage.jobs <= limit.budget.jobs
        /\ op.kind = "tick" =>
             /\ op.c.usage.jobs + InQuestion <= limit.budget.jobs
             /\ \E w : Room(w, op.steps, op.c.usage.jobs + InQuestion, limit.budget.jobs)

\* The campaign on disk and the one in memory are balanced, and within the cap.
BudgetInv == /\ disk # NoCampaign => Balanced(disk)
             /\ op.kind = "tick" => Balanced(op.c)
             /\ CapKept

\* Whether a campaign is balanced does not depend on the state of the system.
LEMMA BalancedStays ==
  ASSUME NEW c, Balanced(c)
  PROVE  Balanced(c)'
  BY DEF Balanced, Fresh, Counted, CostOf, Cost

\* The campaign that is saved and the one a tick goes on with are balanced and within the
\* cap, when the steps of the tick have room.
LEMMA BudgetBy ==
  ASSUME NEW c, NEW d, NEW steps, NEW n \in {0, 1}, UNCHANGED limit, disk' = d, Balanced(d),
         op'.kind = "tick" => /\ op'.c = c /\ op'.steps = steps /\ Balanced(c)
                              /\ n = IF op'.await # NoRun THEN 1 ELSE 0,
         "jobs" \in DOMAIN limit.budget =>
             /\ d.usage.jobs <= limit.budget.jobs
             /\ op'.kind = "tick" => /\ c.usage.jobs + n <= limit.budget.jobs
                                     /\ \E w : Room(w, steps, c.usage.jobs + n, limit.budget.jobs)
  PROVE  BudgetInv'
<1>1. op'.kind = "tick" => InQuestion' = n
  BY DEF InQuestion
<1>2. Balanced(d)' /\ (op'.kind = "tick" => Balanced(c)')
  BY BalancedStays
<1>3. CapKept'
  BY <1>1 DEF CapKept, Room
<1> QED
  BY <1>2, <1>3 DEF BudgetInv

\* At every step the budget is kept.
LEMMA BudgetStep == Structure /\ Structure' /\ BudgetInv /\ [Next]_vars => BudgetInv'
<1> SUFFICES ASSUME Structure, Structure', BudgetInv, [Next]_vars
             PROVE  BudgetInv'
  OBVIOUS
<1>1. /\ disk # NoCampaign => WellFormed(disk)
      /\ op.kind = "tick" => WellFormed(op.c) /\ disk # NoCampaign
      /\ disk' # NoCampaign => WellFormed(disk')
  BY DEF Structure, DiskOK, OpOK, TickOK
<1>2. "jobs" \in DOMAIN limit.budget => limit.budget.jobs \in Nat
  BY LimitIs DEF Structure
<1>3. ASSUME UNCHANGED <<limit, disk>>, op' = op \/ op'.kind # "tick"
      PROVE  BudgetInv'
  <2>1. PICK c, d : c = op.c /\ d = disk
    OBVIOUS
  <2>2. d # NoCampaign => Balanced(d)'
    BY <2>1, BalancedStays DEF BudgetInv
  <2>3. op.kind = "tick" => Balanced(c)'
    BY <2>1, BalancedStays DEF BudgetInv
  <2>4. CapKept'
    BY <1>3 DEF BudgetInv, CapKept, InQuestion, Room
  <2> QED
    BY <1>3, <2>1, <2>2, <2>3, <2>4 DEF BudgetInv
<1>4. CASE TickStart
  <2>1. PICK before, folded, steps, c :
          Begins(before, folded, steps, c) /\ disk' = c /\ op' = Begun(before, steps, c)
    BY <1>4, TickStartIs
  <2>2. PICK old : old = disk
    OBVIOUS
  <2>3. WellFormed(old) /\ Balanced(old) /\ UNCHANGED limit /\ WorldOK /\ disk # NoCampaign
    BY <1>1, <1>4, <2>2 DEF TickStart, BudgetInv, Structure
  <2>4. folded = Fold(old) /\ WellFormed(folded) /\ c = EmitCallbacks(folded, before)
        /\ steps = NextActions(folded.order, folded.leaf, limit.budget, folded.usage)
    BY <2>1, <2>2 DEF Begins
  <2>5. Balanced(folded) /\ folded.usage.jobs = old.usage.jobs
    BY <2>3, <2>4, FoldBalanced
  <2>6. Emitted(folded, c, Owed(folded, before))
    BY <2>4, EmitIs
  <2>7. Balanced(c) /\ c.usage = folded.usage /\ c.usage.jobs \in Nat
    <3>1. WellFormed(c) /\ c.usage = folded.usage
      BY <2>6 DEF Emitted
    <3> QED
      BY <2>4, <2>5, <2>6, <3>1, EmittedBalanced DEF WellFormed, Campaigns, Usage
  <2>8. "jobs" \in DOMAIN limit.budget =>
           /\ c.usage.jobs <= limit.budget.jobs
           /\ \E w : Room(w, steps, c.usage.jobs + 0, limit.budget.jobs)
    <3>1. PICK budget, usage : budget = limit.budget /\ usage = folded.usage
      OBVIOUS
    <3>2. usage \in Usage
      BY <2>4, <3>1 DEF WellFormed, Campaigns
    <3>3. "jobs" \in DOMAIN budget => \E w : Room(w, steps, usage.jobs, budget.jobs)
      BY <1>2, <2>4, <3>1, <3>2, PlanIs
    <3>4. c.usage.jobs + 0 = usage.jobs
      BY <2>7, <3>1
    <3>5. "jobs" \in DOMAIN limit.budget => c.usage.jobs <= limit.budget.jobs
      BY <2>2, <2>3, <2>5, <2>7 DEF BudgetInv, CapKept
    <3> QED
      BY <3>1, <3>3, <3>4, <3>5
  <2>9. op'.c = c /\ op'.steps = steps /\ op'.await = NoRun
    BY <2>1 DEF Begun
  <2>10. PICK n \in {0, 1} : n = 0
    OBVIOUS
  <2>11. c.usage.jobs + n = c.usage.jobs
    BY <2>7, <2>10
  <2> QED
    BY <2>1, <2>3, <2>7, <2>8, <2>9, <2>10, <2>11, BudgetBy
<1>5. ASSUME InTick
      PROVE  Balanced(Skipped) /\ Skipped.usage = op.c.usage
  <2>1. PICK c, d, e : c = op.c /\ d = Skipped /\ e = Failing
    OBVIOUS
  <2>2. Persisted(c, d, e) /\ Balanced(c) /\ WellFormed(c)
    BY <1>1, <1>5, <2>1, SkippedIs DEF InTick, BudgetInv
  <2>3. Balanced(d) /\ d.usage = c.usage
    BY <2>2, PersistedBalanced DEF Persisted
  <2> QED
    BY <2>1, <2>3
<1>6. CASE RunSteps
  <2>1. PICK c, d, old : c = Skipped /\ d = disk /\ old = op.c
    OBVIOUS
  <2>2. /\ InTick /\ op.await = NoRun /\ disk' = d /\ UNCHANGED limit /\ op.kind = "tick"
        /\ d # NoCampaign /\ WellFormed(old)
    BY <1>1, <1>6, <2>1 DEF RunSteps, InTick, fileVars
  <2>3. Balanced(c) /\ c.usage = old.usage /\ Balanced(d)
    BY <1>5, <2>1, <2>2 DEF BudgetInv
  <2>4. PICK steps, rest : steps = op.steps /\ rest = op'.steps
    OBVIOUS
  <2>5. PICK n \in 1 .. Len(steps) :
          /\ steps[n].action = "submit" /\ steps[n].path \in DOMAIN old.leaf
          /\ op'.kind = "tick" /\ op'.c = c /\ op'.await = steps[n].path
          /\ Len(rest) = Len(steps) - n /\ \A i \in 1 .. Len(rest) : rest[i] = steps[i + n]
    BY <1>6, <2>1, <2>4, RunStepsIs
  <2>6. op'.await # NoRun
    BY <2>2, <2>5, WalkLeaves, Names DEF WellFormed
  <2>7. Len(steps) \in Nat
    BY <2>2, <2>4 DEF Structure, OpOK, TickOK, Ticks
  <2>8. PICK jobs \in Nat : jobs = old.usage.jobs
    BY <2>2 DEF WellFormed, Campaigns, Usage
  <2>9. ASSUME "jobs" \in DOMAIN limit.budget
        PROVE  /\ d.usage.jobs <= limit.budget.jobs /\ jobs + 1 <= limit.budget.jobs
               /\ \E w : Room(w, rest, jobs + 1, limit.budget.jobs)
    <3>1. PICK cap \in Nat : cap = limit.budget.jobs
      BY <1>2, <2>9
    <3>2. InQuestion = 0
      BY <2>2 DEF InQuestion
    <3>3. PICK w : Room(w, steps, jobs + 0, cap)
      BY <2>1, <2>2, <2>4, <2>8, <2>9, <3>1, <3>2 DEF BudgetInv, CapKept
    <3>4. Room(w, steps, jobs, cap)
      BY <3>3
    <3>5. jobs + 1 <= cap /\ \E v : Room(v, rest, jobs + 1, cap)
      BY <2>5, <2>7, <3>4, RoomLater
    <3>6. d.usage.jobs <= cap
      BY <2>1, <2>2, <2>9, <3>1 DEF BudgetInv, CapKept
    <3> QED
      BY <3>1, <3>5, <3>6
  <2>10. PICK n1 \in {0, 1} : n1 = 1
    OBVIOUS
  <2>11. c.usage.jobs + n1 = jobs + 1
    BY <2>3, <2>8, <2>10
  <2> QED
    BY <2>2, <2>3, <2>4, <2>5, <2>6, <2>9, <2>10, <2>11, BudgetBy
<1>7. CASE TickEnd
  <2>1. PICK c : c = Skipped
    OBVIOUS
  <2>2. InTick /\ disk' = c /\ UNCHANGED limit /\ op'.kind # "tick"
    BY <1>7, <2>1 DEF TickEnd, Save, Idle
  <2>3. Balanced(c) /\ c.usage = op.c.usage /\ WellFormed(op.c)
    BY <1>1, <1>5, <2>1, <2>2 DEF InTick
  <2>4. "jobs" \in DOMAIN limit.budget => c.usage.jobs <= limit.budget.jobs
    <3>1. InQuestion = 0 /\ op.kind = "tick"
      BY <1>7, <2>2 DEF InQuestion, TickEnd, InTick
    <3>2. "jobs" \in DOMAIN limit.budget => op.c.usage.jobs + 0 <= limit.budget.jobs
      BY <3>1 DEF BudgetInv, CapKept
    <3>3. op.c.usage.jobs \in Nat
      BY <2>3 DEF WellFormed, Campaigns, Usage
    <3> QED
      BY <2>3, <3>2, <3>3
  <2>5. 0 \in {0, 1}
    OBVIOUS
  <2> QED
    BY <2>2, <2>3, <2>4, <2>5, BudgetBy
<1>8. ASSUME InTick, op.await # NoRun, NEW out \in Answers, Resolve(out), UNCHANGED limit
      PROVE  BudgetInv'
  <2>1. PICK p, c, d : p = op.await /\ c = op.c /\ d = disk'
    OBVIOUS
  <2>2. /\ p \in DOMAIN c.leaf /\ c.leaf[p].status = "planned" /\ Submitted(c, d, p, out)
        /\ op'.c = d /\ op'.steps = op.steps /\ op'.await = NoRun
    BY <1>8, <2>1, ResolveIs
  <2>3. WellFormed(c) /\ Balanced(c)
    BY <1>1, <1>8, <2>1 DEF InTick, BudgetInv
  <2>4. Balanced(d) /\ (d.usage = c.usage \/ d.usage.jobs = c.usage.jobs + 1)
    BY <2>2, <2>3, SubmittedBalanced
  <2>5. PICK jobs \in Nat, more \in Nat : jobs = c.usage.jobs /\ more = d.usage.jobs
                                           /\ more <= jobs + 1
    <3>1. c.usage.jobs \in Nat
      BY <2>3 DEF WellFormed, Campaigns, Usage
    <3> QED
      BY <2>4, <3>1
  <2>6. PICK steps : steps = op.steps
    OBVIOUS
  <2>7. ASSUME "jobs" \in DOMAIN limit.budget
        PROVE  more <= limit.budget.jobs /\ \E w : Room(w, steps, more, limit.budget.jobs)
    <3>1. PICK cap \in Nat : cap = limit.budget.jobs
      BY <1>2, <2>7
    <3>2. InQuestion = 1 /\ op.kind = "tick"
      BY <1>8 DEF InQuestion, InTick
    <3>3. jobs + 1 <= cap
      BY <2>1, <2>5, <2>7, <3>1, <3>2 DEF BudgetInv, CapKept
    <3>4. PICK w : Room(w, steps, jobs + 1, cap)
      BY <2>1, <2>5, <2>6, <2>7, <3>1, <3>2 DEF BudgetInv, CapKept
    <3>5. ASSUME NEW i \in 1 .. Len(steps), steps[i].action = "submit"
          PROVE  more <= w[i] /\ w[i] < cap
      <4>1. jobs + 1 <= w[i] /\ w[i] < cap /\ w[i] \in Nat
        BY <3>4, <3>5 DEF Room
      <4>2. PICK x \in Nat : x = w[i]
        BY <4>1
      <4> QED
        BY <2>5, <4>1, <4>2
    <3>6. Room(w, steps, more, cap)
      BY <3>4, <3>5 DEF Room
    <3>7. more <= cap
      BY <2>5, <3>3
    <3> QED
      BY <3>1, <3>6, <3>7
  <2>8. PICK n \in {0, 1} : n = 0
    OBVIOUS
  <2>9. d.usage.jobs = more /\ d.usage.jobs + n = more
    BY <2>5, <2>8
  <2> QED
    BY <1>8, <2>1, <2>2, <2>4, <2>6, <2>7, <2>8, <2>9, BudgetBy
<1>9. CASE AckTimeout \/ SubmitError
  <2>1. "lost" \in Answers /\ "error" \in Answers
    BY DEF Answers
  <2> QED
    BY <1>8, <1>9, <2>1 DEF AckTimeout, SubmitError
<1>10. ASSUME NEW a \in acks, AckArrives(a)
       PROVE  BudgetInv'
  <2>1. CASE Awaits(a.run)
    <3>1. a \in Acks
      BY DEF Structure, WorldOK
    <3>2. op.await # NoRun /\ a.out \in Answers
      BY <2>1, <3>1, Names DEF Acks, Answers, Awaits
    <3>3. Resolve(a.out) /\ UNCHANGED limit
      BY <1>10, <2>1 DEF AckArrives
    <3> QED
      BY <1>8, <2>1, <3>2, <3>3 DEF Awaits
  <2>2. CASE ~Awaits(a.run)
    BY <1>3, <1>10, <2>2 DEF AckArrives
  <2> QED
    BY <2>1, <2>2
<1>11. CASE Tool
  <2>1. PICK c, d : c = disk /\ d = disk'
    OBVIOUS
  <2>2. /\ UNCHANGED limit /\ op'.kind # "tick" /\ disk' # NoCampaign /\ Edited(c, d)
        /\ c # NoCampaign => WellFormed(c) /\ Grown(c, d)
        /\ d.usage = IF c = NoCampaign THEN NoUsage ELSE c.usage
    BY <1>11, <2>1, ToolIs DEF Tooled
  <2>3. WellFormed(d)
    BY <1>1, <2>1, <2>2
  <2>4. Balanced(d)
    <3>1. CASE c = NoCampaign
      <4>1. DOMAIN c.leaf = {}
        BY <3>1 DEF NoCampaign
      <4>2. \A p \in DOMAIN d.leaf : p \notin DOMAIN c.leaf => d.leaf[p] = NewLeaf
        BY <2>2, Zenon DEF Edited
      <4> QED
        BY <2>2, <2>3, <3>1, <4>1, <4>2, NewBalanced
    <3>2. CASE c # NoCampaign
      BY <2>1, <2>2, <2>3, <3>2, EditedBalanced DEF BudgetInv
    <3> QED
      BY <3>1, <3>2
  <2>5. "jobs" \in DOMAIN limit.budget => d.usage.jobs <= limit.budget.jobs
    <3>1. NoUsage.jobs = 0
      BY DEF NoUsage
    <3>2. c # NoCampaign /\ "jobs" \in DOMAIN limit.budget => c.usage.jobs <= limit.budget.jobs
      BY <2>1 DEF BudgetInv, CapKept
    <3>3. "jobs" \in DOMAIN limit.budget => 0 <= limit.budget.jobs
      BY <1>2
    <3> QED
      BY <2>2, <3>1, <3>2, <3>3
  <2>6. 0 \in {0, 1}
    OBVIOUS
  <2> QED
    BY <2>1, <2>2, <2>4, <2>5, <2>6, BudgetBy
<1>12. ASSUME NEW force, DeleteCampaign(force)
       PROVE  BudgetInv'
  BY <1>12 DEF DeleteCampaign, BudgetInv, CapKept, Locked, Idle
<1>13. CASE StopNext
  <2>1. op \in Stops
    BY <1>13 DEF StopNext, Structure, OpOK, StopOK
  <2>2. op'.kind # "tick" /\ disk' = disk /\ limit' = limit
    BY <1>13, <2>1 DEF StopNext, Stops, fileVars
  <2> QED
    BY <1>3, <2>2
<1>14. CASE StopEnd \/ Crash
  <2>1. op'.kind # "tick" /\ disk' = disk /\ limit' = limit
    BY <1>14 DEF StopEnd, Crash, Idle, fileVars
  <2> QED
    BY <1>3, <2>1
<1>15. CASE UNCHANGED <<limit, disk, op>>
  BY <1>3, <1>15
<1> QED
  BY <1>4, <1>6, <1>7, <1>9, <1>10, <1>11, <1>12, <1>13, <1>14, <1>15, OthersKeep DEF Tick

\* The budget: the usage on disk is what the accepted and the ended leaves cost, each
\* counted once, and the submissions counted are within the cap, whatever was retried,
\* deferred or interrupted (check_admission, _do_submit, _reconcile_actuals).
THEOREM BudgetHolds == Spec => []BudgetKept
<1>1. Init => BudgetInv
  <2> SUFFICES ASSUME Init
               PROVE  BudgetInv
    OBVIOUS
  <2>1. op.kind # "tick" /\ disk = NoCampaign
    BY DEF Init, Idle
  <2> QED
    BY <2>1 DEF BudgetInv, CapKept
<1>2. Structure /\ BudgetInv => BudgetKept
  BY StructureTypes DEF BudgetInv, Balanced, CapKept, BudgetKept, UsageIsSum, JobsWithinCap
<1> QED
  BY <1>1, <1>2, BudgetStep, AgendaStructure, PTL DEF Spec

-----------------------------------------------------------------------------
(* The report of a tick. *)

\* The buckets of a report that a leaf is in.
Where(report, p) == {b \in DOMAIN report : p \in report[b]}

\* The buckets fit a leaf's status.
Fits(in, now) ==
    /\ in \in {{"submitted"}, {"waiting"}, {"held"}, {"pending_approval"}, {"deferred"},
               {"deferred", "failed"}, {"done"}, {"failed"}}
    /\ "done" \in in <=> now = "done"
    /\ "failed" \in in <=> now = "failed"
    /\ "submitted" \in in => now = "submitted"
    /\ in = {"deferred"} => now = "planned"

\* A leaf the tick has yet to report: it has a step left, or its submission is awaited.
Todo(p) == p = op.await \/ \E i \in 1 .. Len(op.steps) : op.steps[i].path = p

\* In the middle of a tick a leaf that is not yet reported is in no bucket, and any other
\* one is in those that fit its status in memory.
ReportInv ==
    op.kind = "tick" =>
        \A p \in DOMAIN op.c.leaf :
            IF Todo(p) THEN Where(op.result, p) = {}
            ELSE Fits(Where(op.result, p), op.c.leaf[p].status)

\* The buckets.
LEMMA BucketNames ==
  DOMAIN NoResult = {"submitted", "waiting", "held", "pending_approval", "deferred", "done", "failed"}
  BY DEF NoResult

\* A step that submits nothing is reported where it fits what becomes of its leaf.
LEMMA BucketFits ==
  ASSUME NEW s \in Steps, PlanHolds(op.c, s), NEW now,
         now = IF s.action = "failed" THEN "failed" ELSE op.c.leaf[s.path].status
  PROVE  Bucket(s) \in DOMAIN NoResult /\ Fits({Bucket(s)}, now)
<1>0. s.action \in {"submit", "wait", "done", "failed"}
  BY DEF Steps
<1>1. CASE s.action = "wait"
  <2>1. Bucket(s) = "waiting"
    BY <1>1 DEF Bucket, Ended
  <2>2. now # "done" /\ now # "failed"
    BY <1>1 DEF PlanHolds, Ended
  <2> QED
    BY <2>1, <2>2, BucketNames DEF Fits
<1>2. CASE s.action = "done"
  <2>1. Bucket(s) = "done"
    BY <1>2 DEF Bucket, Ended
  <2>2. now = "done"
    BY <1>2 DEF PlanHolds
  <2> QED
    BY <2>1, <2>2, BucketNames DEF Fits
<1>3. CASE s.action = "failed"
  <2>1. Bucket(s) = "failed"
    BY <1>3 DEF Bucket, Ended
  <2>2. now = "failed"
    BY <1>3
  <2> QED
    BY <2>1, <2>2, BucketNames DEF Fits
<1>4. CASE s.action = "submit"
  <2>1. Bucket(s) \in {"held", "waiting", "pending_approval"}
    BY <1>4 DEF Bucket, Ended
  <2>2. now = "planned"
    BY <1>4 DEF PlanHolds
  <2> QED
    BY <2>1, <2>2, BucketNames DEF Fits
<1> QED
  BY <1>0, <1>1, <1>2, <1>3, <1>4

\* The steps before the next submission.
LEMMA PassedIs ==
  ASSUME Structure, InTick
  PROVE  /\ NextSubmission \in 1 .. Len(op.steps) + 1 /\ Len(op.steps) \in Nat
         /\ Passed \in Seq(Steps) /\ Len(Passed) = NextSubmission - 1
         /\ \A i \in 1 .. Len(Passed) : i \in 1 .. Len(op.steps) /\ Passed[i] = op.steps[i]
<1>1. op.steps \in Seq(Steps)
  BY DEF Structure, OpOK, TickOK, InTick, Ticks
<1>2. NextSubmission \in 1 .. Len(op.steps) + 1 /\ Len(op.steps) \in Nat
  BY <1>1, NextIs
<1>3. Part(Passed, 0, NextSubmission - 1)
  BY <1>1, PartsOfSteps
<1>4. PICK n \in 1 .. Len(op.steps) + 1 : n = NextSubmission
  BY <1>2
<1>5. Passed \in Seq(Steps) /\ Len(Passed) = n - 1
      /\ \A i \in 1 .. n - 1 : i + 0 \in 1 .. Len(op.steps) /\ Passed[i] = op.steps[i + 0]
  BY <1>3, <1>4 DEF Part
<1>6. \A i \in 1 .. n - 1 : i + 0 = i
  BY <1>2
<1> QED
  BY <1>2, <1>4, <1>5, <1>6

\* A leaf whose step is among those passed.
Done(p) == \E i \in 1 .. Len(Passed) : Passed[i].path = p

\* The steps before the next submission are reported: their leaves where they fit, the others
\* as before.
LEMMA ReportedIs ==
  ASSUME Structure, InTick, ReportInv, NEW p \in DOMAIN op.c.leaf
  PROVE  LET report == Reported(op.result)
         IN /\ DOMAIN report = DOMAIN NoResult /\ DOMAIN op.result = DOMAIN NoResult
            /\ Done(p) => Fits(Where(report, p), Skipped.leaf[p].status)
            /\ ~Done(p) => /\ Where(report, p) = Where(op.result, p)
                           /\ Skipped.leaf[p].status = op.c.leaf[p].status
<1>1. /\ op \in Ticks /\ op.kind = "tick" /\ WellFormed(op.c) /\ OneStepEach(op.steps)
      /\ \A i \in 1 .. Len(op.steps) : PlanHolds(op.c, op.steps[i])
  BY DEF Structure, OpOK, TickOK, InTick
<1>2. op.result \in Reports /\ DOMAIN op.result = DOMAIN NoResult
  BY <1>1 DEF Ticks, Reports
<1>3. PICK passed : passed = Passed
  OBVIOUS
<1>4. passed \in Seq(Steps) /\ Len(passed) \in Nat
      /\ \A i \in 1 .. Len(passed) : i \in 1 .. Len(op.steps) /\ passed[i] = op.steps[i]
  BY <1>3, PassedIs
<1>5. Range(passed) = {passed[i] : i \in 1 .. Len(passed)}
  BY <1>4 DEF Range
<1>6. PICK report : report = Reported(op.result)
  OBVIOUS
<1>7. /\ DOMAIN report = DOMAIN NoResult
      /\ \A b \in DOMAIN NoResult :
           report[b] = op.result[b] \cup {s.path : s \in {x \in Range(passed) : Bucket(x) = b}}
  BY <1>2, <1>3, <1>6 DEF Reported
<1>8. ASSUME NEW b \in DOMAIN NoResult
      PROVE  p \in report[b] <=>
               p \in op.result[b] \/ \E i \in 1 .. Len(passed) : passed[i].path = p /\ Bucket(passed[i]) = b
  BY <1>5, <1>7
<1>9. PICK d, e : d = Skipped /\ e = Failing
  OBVIOUS
<1>10. Skipped.leaf[p] = IF p \in e THEN [op.c.leaf[p] EXCEPT !.status = "failed", !.why = "dependency"]
                         ELSE op.c.leaf[p]
  BY <1>9, SkippedIs DEF Persisted
<1>11. p \in e <=> op.c.leaf[p].status = "planned"
                   /\ \E i \in 1 .. Len(passed) : passed[i].path = p /\ passed[i].action = "failed"
  BY <1>3, <1>9 DEF Failing, EndedBy
<1>12. op.c.leaf[p] \in Leaf
  BY <1>1, WalkLeaves DEF WellFormed
<1>13. CASE Done(p)
  <2>1. PICK k \in 1 .. Len(passed) : passed[k].path = p
    BY <1>3, <1>13 DEF Done
  <2>2. PICK s \in Steps : s = passed[k] /\ s = op.steps[k] /\ k \in 1 .. Len(op.steps)
    BY <1>4, <2>1
  <2>3. \A i \in 1 .. Len(passed) : passed[i].path = p => i = k
    BY <1>1, <1>4, <2>1, <2>2 DEF OneStepEach
  <2>4. Where(op.result, p) = {}
    <3>1. Todo(p)
      BY <2>1, <2>2 DEF Todo
    <3> QED
      BY <1>1, <3>1 DEF ReportInv
  <2>5. PICK now : now = Skipped.leaf[p].status
    OBVIOUS
  <2>6. PlanHolds(op.c, s) /\ s.path = p
    BY <1>1, <2>1, <2>2
  <2>7. now = IF s.action = "failed" THEN "failed" ELSE op.c.leaf[s.path].status
    <3>1. CASE s.action = "failed" /\ op.c.leaf[p].status = "planned"
      <4>1. p \in e
        BY <1>11, <2>1, <2>2, <3>1
      <4>2. [op.c.leaf[p] EXCEPT !.status = "failed", !.why = "dependency"].status = "failed"
        BY <1>12 DEF Leaf
      <4> QED
        BY <1>10, <2>5, <3>1, <4>1, <4>2
    <3>2. CASE s.action = "failed" /\ op.c.leaf[p].status # "planned"
      <4>1. op.c.leaf[p].status = "failed"
        BY <2>6, <3>2 DEF PlanHolds
      <4> QED
        BY <1>10, <1>11, <2>5, <3>2, <4>1
    <3>3. CASE s.action # "failed"
      <4>1. p \notin e
        BY <1>11, <2>2, <2>3, <3>3
      <4> QED
        BY <1>10, <2>5, <2>6, <3>3, <4>1
    <3> QED
      BY <3>1, <3>2, <3>3
  <2>8. Bucket(s) \in DOMAIN NoResult /\ Fits({Bucket(s)}, now)
    BY <2>6, <2>7, BucketFits
  <2>9. Where(report, p) = {Bucket(s)}
    <3>1. \A b \in DOMAIN NoResult : p \notin op.result[b]
      BY <1>2, <2>4 DEF Where
    <3>2. \A b \in DOMAIN NoResult : p \in report[b] <=> b = Bucket(s)
      BY <1>8, <2>1, <2>2, <2>3, <3>1
    <3> QED
      BY <1>7, <2>8, <3>2 DEF Where
  <2> QED
    BY <1>2, <1>6, <1>7, <1>13, <2>5, <2>8, <2>9
<1>14. CASE ~Done(p)
  <2>1. \A i \in 1 .. Len(passed) : passed[i].path # p
    BY <1>3, <1>14 DEF Done
  <2>2. Where(report, p) = Where(op.result, p)
    BY <1>2, <1>7, <1>8, <2>1 DEF Where
  <2>3. Skipped.leaf[p].status = op.c.leaf[p].status
    BY <1>10, <1>11, <2>1
  <2> QED
    BY <1>2, <1>6, <1>7, <1>14, <2>2, <2>3
<1> QED
  BY <1>13, <1>14

\* The end of a submission is reported where it fits.
LEMMA BucketsFit ==
  ASSUME NEW c, NEW d, NEW p, NEW out, Submitted(c, d, p, out), c.leaf[p].status = "planned"
  PROVE  Buckets(d, p, out) \subseteq DOMAIN NoResult /\ Fits(Buckets(d, p, out), d.leaf[p].status)
<1>1. PICK now : now = d.leaf[p].status
  OBVIOUS
<1>2. CASE out = "accepted" /\ IsAccepted(c, d, p)
  <2>1. now = "submitted"
    BY <1>1, <1>2 DEF IsAccepted
  <2>2. Buckets(d, p, out) = {"submitted"}
    BY <1>1, <1>2, <2>1 DEF Buckets
  <2> QED
    BY <1>1, <2>1, <2>2, BucketNames DEF Fits
<1>3. CASE out \in {"refused", "error"} /\ IsFailed(c, d, p, out)
  <2>1. now = "failed"
    BY <1>1, <1>3 DEF IsFailed
  <2>2. Buckets(d, p, out) = {"failed"}
    BY <1>1, <1>3, <2>1 DEF Buckets
  <2> QED
    BY <1>1, <2>1, <2>2, BucketNames DEF Fits
<1>4. CASE out \in {"lost", "unknown"} /\ IsDeferred(c, d, p)
  <2>1. now = "planned"
    BY <1>1, <1>4 DEF IsDeferred
  <2>2. Buckets(d, p, out) = {"deferred"}
    BY <1>1, <1>4, <2>1 DEF Buckets
  <2> QED
    BY <1>1, <2>1, <2>2, BucketNames DEF Fits
<1>5. CASE out \in {"lost", "unknown"} /\ IsFailed(c, d, p, "outcome_unknown")
  <2>1. now = "failed"
    BY <1>1, <1>5 DEF IsFailed
  <2>2. Buckets(d, p, out) = {"deferred", "failed"}
    BY <1>1, <1>5, <2>1 DEF Buckets
  <2> QED
    BY <1>1, <2>1, <2>2, BucketNames DEF Fits
<1> QED
  BY <1>2, <1>3, <1>4, <1>5 DEF Submitted

\* At every step of a tick each leaf is reported where it fits, once.
LEMMA ReportStep == Structure /\ ReportInv /\ [Next]_vars => ReportInv'
<1> SUFFICES ASSUME Structure, ReportInv, [Next]_vars
             PROVE  ReportInv'
  OBVIOUS
<1>1. op.kind = "tick" => /\ op \in Ticks /\ WellFormed(op.c) /\ DOMAIN op.result = DOMAIN NoResult
                          /\ \A p \in DOMAIN op.c.leaf : p \in Paths
  BY WalkLeaves DEF Structure, OpOK, TickOK, Ticks, Reports, WellFormed
<1>2. ASSUME op' = op \/ op'.kind # "tick"
      PROVE  ReportInv'
  BY <1>2 DEF ReportInv, Todo
<1>3. CASE TickStart
  <2>1. PICK before, folded, steps, c :
          Begins(before, folded, steps, c) /\ disk' = c /\ op' = Begun(before, steps, c)
    BY <1>3, TickStartIs
  <2>2. op'.c = c /\ op'.steps = steps /\ op'.result = NoResult
    BY <2>1 DEF Begun
  <2>3. ASSUME NEW p \in DOMAIN c.leaf
        PROVE  \E i \in 1 .. Len(steps) : steps[i].path = p
    <3>1. WellFormed(folded) /\ p \in DOMAIN folded.leaf
      BY <2>1, <2>3 DEF Begins, Kin
    <3>2. PICK i \in 1 .. Len(folded.order) : folded.order[i] = p
      BY <3>1, WalkLeaves DEF WellFormed
    <3> QED
      BY <2>1, <3>2 DEF Begins
  <2>4. \A p \in DOMAIN c.leaf : Where(NoResult, p) = {}
    BY DEF Where, NoResult
  <2> QED
    BY <2>2, <2>3, <2>4 DEF ReportInv, Todo
<1>4. CASE RunSteps
  <2>1. PICK steps, rest, report : steps = op.steps /\ rest = op'.steps /\ report = Reported(op.result)
    OBVIOUS
  <2>2. InTick /\ op.kind = "tick" /\ op.await = NoRun
    BY <1>4 DEF RunSteps, InTick
  <2>3. PICK n \in 1 .. Len(steps) :
          /\ n = NextSubmission /\ op'.c = Skipped /\ op'.await = steps[n].path
          /\ op'.result = report /\ Len(rest) = Len(steps) - n
          /\ \A i \in 1 .. Len(rest) : i + n \in 1 .. Len(steps) /\ rest[i] = steps[i + n]
    BY <1>4, <2>1, RunStepsIs
  <2>4. /\ Len(steps) \in Nat /\ Len(Passed) = n - 1
        /\ \A i \in 1 .. Len(Passed) : i \in 1 .. Len(steps) /\ Passed[i] = steps[i]
    BY <2>1, <2>2, <2>3, PassedIs
  <2>5. \A i, j \in 1 .. Len(steps) : steps[i].path = steps[j].path => i = j
    BY <2>1, <2>2 DEF Structure, OpOK, TickOK, OneStepEach
  <2>6. DOMAIN Skipped.leaf = DOMAIN op.c.leaf
    BY <2>2, SkippedIs DEF Persisted, Kin
  <2>7. ASSUME NEW p \in DOMAIN op.c.leaf
        PROVE  IF Todo(p)' THEN Where(report, p) = {} ELSE Fits(Where(report, p), Skipped.leaf[p].status)
    <3>1. Todo(p)' <=> p = steps[n].path \/ \E i \in 1 .. Len(rest) : rest[i].path = p
      BY <2>1, <2>3 DEF Todo
    <3>2. CASE Todo(p)'
      <4>1. PICK k \in 1 .. Len(steps) : steps[k].path = p /\ n <= k
        <5>1. CASE p = steps[n].path
          BY <2>4, <5>1
        <5>2. ASSUME NEW i \in 1 .. Len(rest), rest[i].path = p
              PROVE  \E k \in 1 .. Len(steps) : steps[k].path = p /\ n <= k
          <6>1. i + n \in 1 .. Len(steps) /\ steps[i + n].path = p /\ n <= i + n
            BY <2>3, <2>4, <5>2
          <6> QED
            BY <6>1
        <5> QED
          BY <3>1, <3>2, <5>1, <5>2
      <4>2. ~Done(p)
        <5>1. ASSUME NEW i \in 1 .. Len(Passed), Passed[i].path = p
              PROVE  FALSE
          <6>1. i = k
            BY <2>4, <2>5, <4>1, <5>1
          <6> QED
            BY <2>4, <4>1, <6>1
        <5> QED
          BY <5>1 DEF Done
      <4>3. Todo(p)
        BY <2>1, <4>1 DEF Todo
      <4>4. Where(report, p) = Where(op.result, p)
        BY <2>1, <2>2, <4>2, ReportedIs
      <4> QED
        BY <2>2, <3>2, <4>3, <4>4 DEF ReportInv
    <3>3. CASE ~Todo(p)' /\ Done(p)
      BY <2>1, <2>2, <3>3, ReportedIs
    <3>4. CASE ~Todo(p)' /\ ~Done(p)
      <4>1. ~Todo(p)
        <5>1. p # op.await
          BY <1>1, <2>2, <2>7, Names
        <5>2. ASSUME NEW k \in 1 .. Len(steps), steps[k].path = p
              PROVE  FALSE
          <6>1. CASE k < n
            <7>1. k \in 1 .. Len(Passed)
              BY <2>4, <6>1
            <7> QED
              BY <2>4, <3>4, <5>2, <7>1 DEF Done
          <6>2. CASE k = n
            BY <3>1, <3>4, <5>2, <6>2
          <6>3. CASE k > n
            <7>1. PICK i \in 1 .. Len(rest) : i + n = k
              <8>1. k - n \in 1 .. Len(rest) /\ (k - n) + n = k
                BY <2>3, <2>4, <6>3
              <8> QED
                BY <8>1
            <7>2. rest[i].path = p
              BY <2>3, <5>2, <7>1
            <7> QED
              BY <3>1, <3>4, <7>2
          <6> QED
            BY <2>4, <6>1, <6>2, <6>3
        <5> QED
          BY <2>1, <5>1, <5>2 DEF Todo
      <4>2. Where(report, p) = Where(op.result, p) /\ Skipped.leaf[p].status = op.c.leaf[p].status
        BY <2>1, <2>2, <3>4, ReportedIs
      <4> QED
        BY <2>2, <3>4, <4>1, <4>2 DEF ReportInv
    <3> QED
      BY <3>2, <3>3, <3>4
  <2> QED
    BY <2>3, <2>6, <2>7 DEF ReportInv
<1>5. ASSUME InTick, op.await # NoRun, NEW out \in Answers, Resolve(out)
      PROVE  ReportInv'
  <2>1. PICK p, c, d : p = op.await /\ c = op.c /\ d = disk'
    OBVIOUS
  <2>2. PICK in : in = Buckets(d, p, out)
    OBVIOUS
  <2>3. /\ p \in DOMAIN c.leaf /\ c.leaf[p].status = "planned" /\ Submitted(c, d, p, out)
        /\ op'.c = d /\ op'.steps = op.steps /\ op'.await = NoRun
        /\ op'.result = [b \in DOMAIN op.result |->
                            IF b \in in THEN op.result[b] \cup {p} ELSE op.result[b]]
    BY <1>5, <2>1, <2>2, ResolveIs
  <2>4. in \subseteq DOMAIN NoResult /\ Fits(in, d.leaf[p].status)
    BY <2>2, <2>3, BucketsFit
  <2>5. /\ DOMAIN d.leaf = DOMAIN c.leaf
        /\ \A q \in DOMAIN c.leaf : q # p => d.leaf[q] = c.leaf[q]
    BY <2>3 DEF Submitted, Changed, Kin
  <2>6. \A i \in 1 .. Len(op.steps) : op.steps[i].path # p
    BY <1>5, <2>1 DEF Structure, OpOK, TickOK, InTick
  <2>7. op.kind = "tick" /\ DOMAIN op.result = DOMAIN NoResult
    BY <1>1, <1>5 DEF InTick
  <2>8. ~Todo(p)' /\ Where(op'.result, p) = in
    <3>1. Where(op.result, p) = {}
      BY <2>1, <2>3, <2>7 DEF ReportInv, Todo
    <3>2. p # NoRun
      BY <1>5, <2>1
    <3>3. ~Todo(p)'
      BY <2>3, <2>6, <3>2 DEF Todo
    <3>4. \A b \in DOMAIN op.result : p \in op'.result[b] <=> b \in in
      BY <2>3, <3>1 DEF Where
    <3>5. DOMAIN op'.result = DOMAIN op.result
      BY <2>3
    <3> QED
      BY <2>4, <2>7, <3>3, <3>4, <3>5 DEF Where
  <2>9. ASSUME NEW q \in DOMAIN c.leaf, q # p
        PROVE  (Todo(q)' <=> Todo(q)) /\ Where(op'.result, q) = Where(op.result, q)
    <3>1. q # NoRun
      BY <1>1, <2>1, <2>7, Names
    <3>2. Todo(q)' <=> Todo(q)
      BY <2>1, <2>3, <2>9, <3>1 DEF Todo
    <3>3. Where(op'.result, q) = Where(op.result, q)
      BY <2>3, <2>9 DEF Where
    <3> QED
      BY <3>2, <3>3
  <2>10. ASSUME NEW q \in DOMAIN d.leaf
         PROVE  IF Todo(q)' THEN Where(op'.result, q) = {} ELSE Fits(Where(op'.result, q), d.leaf[q].status)
    <3>1. CASE q = p
      BY <2>4, <2>8, <3>1
    <3>2. CASE q # p
      BY <2>1, <2>5, <2>7, <2>9, <3>2 DEF ReportInv
    <3> QED
      BY <3>1, <3>2
  <2> QED
    BY <2>3, <2>10 DEF ReportInv
<1>6. CASE AckTimeout \/ SubmitError
  <2>1. "lost" \in Answers /\ "error" \in Answers
    BY DEF Answers
  <2> QED
    BY <1>5, <1>6, <2>1 DEF AckTimeout, SubmitError
<1>7. ASSUME NEW a \in acks, AckArrives(a)
      PROVE  ReportInv'
  <2>1. CASE Awaits(a.run)
    <3>1. a \in Acks
      BY DEF Structure, WorldOK
    <3>2. op.await # NoRun /\ a.out \in Answers
      BY <2>1, <3>1, Names DEF Acks, Answers, Awaits
    <3>3. Resolve(a.out)
      BY <1>7, <2>1 DEF AckArrives
    <3> QED
      BY <1>5, <2>1, <3>2, <3>3 DEF Awaits
  <2>2. CASE ~Awaits(a.run)
    BY <1>2, <1>7, <2>2 DEF AckArrives
  <2> QED
    BY <2>1, <2>2
<1>8. CASE TickEnd \/ StopEnd \/ Crash
  BY <1>2, <1>8 DEF TickEnd, StopEnd, Crash, Idle
<1>9. CASE Tool
  BY <1>2, <1>9, ToolIs DEF Tooled
<1>10. ASSUME NEW force, DeleteCampaign(force)
       PROVE  ReportInv'
  BY <1>2, <1>10 DEF DeleteCampaign
<1>11. CASE StopNext
  <2>1. op \in Stops
    BY <1>11 DEF StopNext, Structure, OpOK, StopOK
  <2>2. op'.kind # "tick"
    BY <1>11, <2>1 DEF StopNext, Stops
  <2> QED
    BY <1>2, <2>2
<1>12. CASE UNCHANGED op
  BY <1>2, <1>12
<1> QED
  BY <1>3, <1>4, <1>6, <1>7, <1>8, <1>9, <1>10, <1>11, <1>12, OthersKeep DEF Tick

\* What is in one of the buckets that fit, but for a deferral that was given up.
LEMMA FitsOne ==
  ASSUME NEW in, NEW now, Fits(in, now)
  PROVE  /\ Cardinality(in \ {"deferred"}) <= 1 /\ in # {}
         /\ \A b \in {"done", "failed"} : b \in in <=> now = b
         /\ "submitted" \in in => now = "submitted"
         /\ "deferred" \in in => now = "planned" \/ "failed" \in in
<1>1. in \ {"deferred"} = {} \/ \E b : in \ {"deferred"} = {b}
  <2>1. {"deferred"} \ {"deferred"} = {} /\ {"deferred", "failed"} \ {"deferred"} = {"failed"}
    OBVIOUS
  <2>2. \A x : x # "deferred" => {x} \ {"deferred"} = {x}
    OBVIOUS
  <2>3. in \in {{"deferred"}, {"deferred", "failed"}} \/ \E x : x # "deferred" /\ in = {x}
    BY DEF Fits
  <2>4. CASE in \in {{"deferred"}, {"deferred", "failed"}}
    BY <2>1, <2>4
  <2>5. ASSUME NEW x, x # "deferred", in = {x}
        PROVE  \E b : in \ {"deferred"} = {b}
    BY <2>2, <2>5
  <2> QED
    BY <2>3, <2>4, <2>5
<1>2. Cardinality(in \ {"deferred"}) <= 1
  <2>1. PICK rest : rest = in \ {"deferred"}
    OBVIOUS
  <2>2. CASE rest = {}
    BY <2>1, <2>2, FS_EmptySet
  <2>3. ASSUME NEW b, rest = {b}
        PROVE  Cardinality(rest) <= 1
    <3>1. Cardinality(rest) = 1
      BY <2>3, FS_Singleton
    <3> QED
      BY <3>1
  <2> QED
    BY <1>1, <2>1, <2>2, <2>3
<1>3. in # {} /\ ("deferred" \in in => now = "planned" \/ "failed" \in in)
  BY DEF Fits
<1>4. ("done" \in in <=> now = "done") /\ ("failed" \in in <=> now = "failed")
      /\ ("submitted" \in in => now = "submitted")
  BY DEF Fits
<1> QED
  BY <1>2, <1>3, <1>4

\* What a tick reports is what it saved: every leaf is in one bucket, and in done, failed or
\* submitted only if it is that on disk; only a deferral that was given up is in two, deferred
\* and failed (TickResult, _run_steps).
THEOREM ReportsAreTrue == Spec => ReportMatchesFile
<1>1. Init => ReportInv
  <2> SUFFICES ASSUME Init
               PROVE  ReportInv
    OBVIOUS
  <2>1. op.kind # "tick"
    BY DEF Init, Idle
  <2> QED
    BY <2>1 DEF ReportInv
<1>2. ASSUME Structure, ReportInv, InTick, TickEnd
      PROVE  LET report == Reported(op.result)
                 In(p) == {b \in DOMAIN report : p \in report[b]}
             IN \A p \in DOMAIN disk'.leaf :
                   LET now == disk'.leaf[p].status
                   IN /\ Cardinality(In(p) \ {"deferred"}) <= 1 /\ In(p) # {}
                      /\ \A b \in {"done", "failed"} : b \in In(p) <=> now = b
                      /\ "submitted" \in In(p) => now = "submitted"
                      /\ "deferred" \in In(p) => now = "planned" \/ "failed" \in In(p)
  <2>1. PICK report, d : report = Reported(op.result) /\ d = Skipped /\ disk' = d
    BY <1>2 DEF TickEnd, Save
  <2>2. DOMAIN d.leaf = DOMAIN op.c.leaf
    BY <1>2, <2>1, SkippedIs DEF Persisted, Kin
  <2>3. op.await = NoRun /\ NextSubmission > Len(op.steps) /\ op.kind = "tick"
    BY <1>2 DEF TickEnd, InTick
  <2>4. ASSUME NEW p \in DOMAIN op.c.leaf
        PROVE  Fits(Where(report, p), d.leaf[p].status)
    <3>1. CASE Done(p)
      BY <1>2, <2>1, <3>1, ReportedIs
    <3>2. CASE ~Done(p)
      <4>1. p # NoRun
        <5>1. WellFormed(op.c)
          BY <1>2, <2>3 DEF Structure, OpOK, TickOK
        <5>2. p \in Paths
          BY <2>4, <5>1, WalkLeaves DEF WellFormed
        <5> QED
          BY <5>2, Names
      <4>2. \A i \in 1 .. Len(op.steps) : op.steps[i].path # p
        <5>1. Len(Passed) = Len(op.steps) /\ \A i \in 1 .. Len(Passed) : Passed[i] = op.steps[i]
          <6>1. PICK n, N \in Nat : n = NextSubmission /\ N = Len(op.steps) /\ n \in 1 .. N + 1
            BY <1>2, PassedIs
          <6>2. n - 1 = N
            BY <2>3, <6>1
          <6> QED
            BY <1>2, <6>1, <6>2, PassedIs
        <5> QED
          BY <3>2, <5>1 DEF Done
      <4>3. ~Todo(p)
        BY <2>3, <4>1, <4>2 DEF Todo
      <4>4. Where(report, p) = Where(op.result, p) /\ d.leaf[p].status = op.c.leaf[p].status
        BY <1>2, <2>1, <3>2, ReportedIs
      <4> QED
        <5>1. Fits(Where(op.result, p), op.c.leaf[p].status)
          BY <1>2, <2>3, <2>4, <4>3 DEF ReportInv
        <5> QED
          BY <4>4, <5>1
    <3> QED
      BY <3>1, <3>2
  <2>5. ASSUME NEW p \in DOMAIN d.leaf
        PROVE  LET in == {b \in DOMAIN report : p \in report[b]}
                   now == d.leaf[p].status
               IN /\ Cardinality(in \ {"deferred"}) <= 1 /\ in # {}
                  /\ \A b \in {"done", "failed"} : b \in in <=> now = b
                  /\ "submitted" \in in => now = "submitted"
                  /\ "deferred" \in in => now = "planned" \/ "failed" \in in
    <3>1. PICK in, now : in = Where(report, p) /\ now = d.leaf[p].status
      OBVIOUS
    <3>2. Fits(in, now)
      BY <2>2, <2>4, <3>1
    <3>3. /\ Cardinality(in \ {"deferred"}) <= 1 /\ in # {}
          /\ \A b \in {"done", "failed"} : b \in in <=> now = b
          /\ "submitted" \in in => now = "submitted"
          /\ "deferred" \in in => now = "planned" \/ "failed" \in in
      BY <3>2, FitsOne
    <3> QED
      BY <3>1, <3>3 DEF Where
  <2> QED
    BY <2>1, <2>5
<1>3. Structure /\ ReportInv /\ [Next]_vars =>
        [InTick /\ TickEnd =>
          LET report == Reported(op.result)
              In(p) == {b \in DOMAIN report : p \in report[b]}
          IN \A p \in DOMAIN disk'.leaf :
                LET now == disk'.leaf[p].status
                IN /\ Cardinality(In(p) \ {"deferred"}) <= 1 /\ In(p) # {}
                   /\ \A b \in {"done", "failed"} : b \in In(p) <=> now = b
                   /\ "submitted" \in In(p) => now = "submitted"
                   /\ "deferred" \in In(p) => now = "planned" \/ "failed" \in In(p)]_vars
  BY <1>2
<1> QED
  BY <1>1, <1>3, ReportStep, AgendaStructure, PTL DEF Spec, ReportMatchesFile

=============================================================================
