------------------------ MODULE MatrixTransportProofs ------------------------
(***************************************************************************)
(* Theorems about MatrixTransport, for every room, every role, every limit *)
(* of a sync, a page and the backfill, and every bound on faults: a        *)
(* process gets the room in order, once and without holes in its replay,   *)
(* and is told when the replay was cut.                                    *)
(***************************************************************************)
EXTENDS MatrixTransport, WellFoundedInduction, TLAPS

-----------------------------------------------------------------------------
(* Induction and recursion over the natural numbers, stated with sets and  *)
(* functions in the place of predicates and operators.                     *)

\* A set of natural numbers has a least member.
LEMMA Least ==
  ASSUME NEW S, S \subseteq Nat, S # {}
  PROVE  \E m \in S : \A n \in S : m <= n
<1>1. PICK x \in S : \A y \in S : ~(<<y, x>> \in OpToRel(<, Nat))
  BY NatLessThanWellFounded, WFMin
<1>2. ASSUME NEW y \in S, y < x
      PROVE  FALSE
  <2>1. <<y, x>> \in Nat \X Nat
    OBVIOUS
  <2>2. <<y, x>>[1] < <<y, x>>[2]
    BY <1>2
  <2> QED
    BY <2>1, <2>2, <1>1 DEF OpToRel
<1> QED
  BY <1>2

\* Induction: a set with 0, and with n + 1 for each n of it, has every natural number.
LEMMA SetInduction ==
  ASSUME NEW S, 0 \in S, \A n \in Nat : n \in S => n + 1 \in S
  PROVE  Nat \subseteq S
<1> DEFINE T == Nat \ S
<1> SUFFICES ASSUME T # {} PROVE FALSE
  OBVIOUS
<1>1. PICK m \in T : \A n \in T : m <= n
  <2>1. T \subseteq Nat
    OBVIOUS
  <2> HIDE DEF T
  <2> QED
    BY <2>1, Least
<1>2. m # 0
  OBVIOUS
<1>3. m - 1 \in Nat /\ m - 1 \in S
  BY <1>1, <1>2
<1> QED
  BY <1>3

\* g is what the recursion from c by the steps of G builds up to n.
Builds(g, n, c, G, V) ==
    /\ g \in [0 .. n -> V] /\ g[0] = c
    /\ \A k \in 0 .. n - 1 : g[k + 1] = G[k][g[k]]

\* The recursion can be built up to every number.
LEMMA BuildsExists ==
  ASSUME NEW V, NEW c \in V, NEW G \in [Nat -> [V -> V]]
  PROVE  \A n \in Nat : \E g : Builds(g, n, c, G, V)
<1> DEFINE S == {n \in Nat : \E g : Builds(g, n, c, G, V)}
<1>1. 0 \in S
  <2>1. Builds([k \in 0 .. 0 |-> c], 0, c, G, V)
    BY DEF Builds
  <2> QED
    BY <2>1
<1>2. ASSUME NEW n \in Nat, n \in S
      PROVE  n + 1 \in S
  <2>1. PICK g : Builds(g, n, c, G, V)
    BY <1>2
  <2> DEFINE h == [k \in 0 .. n + 1 |-> IF k <= n THEN g[k] ELSE G[n][g[n]]]
  <2>2. g \in [0 .. n -> V] /\ g[n] \in V /\ G[n] \in [V -> V] /\ G[n][g[n]] \in V
    BY <2>1 DEF Builds
  <2>3. h \in [0 .. n + 1 -> V]
    BY <2>2
  <2>4. h[0] = c
    BY <2>1 DEF Builds
  <2>5. ASSUME NEW k \in 0 .. n
        PROVE  h[k + 1] = G[k][h[k]]
    <3>1. CASE k = n
      BY <3>1
    <3>2. CASE k # n
      <4>1. k \in 0 .. n - 1 /\ k + 1 \in 0 .. n
        BY <3>2
      <4> QED
        BY <4>1, <2>1 DEF Builds
    <3> QED
      BY <3>1, <3>2
  <2>6. Builds(h, n + 1, c, G, V)
    <3> HIDE DEF h
    <3> QED
      BY <2>3, <2>4, <2>5 DEF Builds
  <2> QED
    BY <2>6
<1> HIDE DEF S
<1>3. Nat \subseteq S
  BY <1>1, <1>2, SetInduction
<1> QED
  BY <1>3 DEF S

\* It is built in one way only.
LEMMA BuildsUnique ==
  ASSUME NEW V, NEW c \in V, NEW G \in [Nat -> [V -> V]]
  PROVE  \A n \in Nat : \A g, h : \A m, p \in Nat :
            n <= m /\ n <= p /\ Builds(g, m, c, G, V) /\ Builds(h, p, c, G, V) => g[n] = h[n]
<1> DEFINE S == {n \in Nat : \A g, h : \A m, p \in Nat :
            n <= m /\ n <= p /\ Builds(g, m, c, G, V) /\ Builds(h, p, c, G, V) => g[n] = h[n]}
<1>1. 0 \in S
  BY DEF Builds
<1>2. ASSUME NEW n \in Nat, n \in S
      PROVE  n + 1 \in S
  <2>1. SUFFICES ASSUME NEW g, NEW h, NEW m \in Nat, NEW p \in Nat, n + 1 <= m, n + 1 <= p,
                        Builds(g, m, c, G, V), Builds(h, p, c, G, V)
                 PROVE  g[n + 1] = h[n + 1]
    OBVIOUS
  <2>2. g[n] = h[n]
    BY <1>2, <2>1
  <2>3. n \in 0 .. m - 1 /\ n \in 0 .. p - 1
    BY <2>1
  <2> QED
    BY <2>1, <2>2, <2>3 DEF Builds
<1> HIDE DEF S
<1>3. Nat \subseteq S
  BY <1>1, <1>2, SetInduction
<1> QED
  BY <1>3 DEF S

\* f is the recursion from c by the steps of G.
Recurs(f, c, G, V) ==
    f \in [Nat -> V] /\ f[0] = c /\ \A n \in Nat : f[n + 1] = G[n][f[n]]

\* A recursion over the natural numbers defines a function.
LEMMA Recursion ==
  ASSUME NEW V, NEW c \in V, NEW G \in [Nat -> [V -> V]]
  PROVE  \E f : Recurs(f, c, G, V)
<1> DEFINE B(n) == CHOOSE g : Builds(g, n, c, G, V)
           f == [n \in Nat |-> B(n)[n]]
<1>1. \A n \in Nat : Builds(B(n), n, c, G, V)
  BY BuildsExists
<1> HIDE DEF B
<1>2. f \in [Nat -> V]
  BY <1>1 DEF Builds
<1>3. f[0] = c
  BY <1>1 DEF Builds
<1>4. ASSUME NEW n \in Nat
      PROVE  f[n + 1] = G[n][f[n]]
  <2>1. Builds(B(n), n, c, G, V) /\ Builds(B(n + 1), n + 1, c, G, V)
    BY <1>1
  <2>2. n <= n /\ n <= n + 1
    OBVIOUS
  <2>3. B(n)[n] = B(n + 1)[n]
    BY <2>1, <2>2, BuildsUnique
  <2>4. B(n + 1)[n + 1] = G[n][B(n + 1)[n]]
    BY <2>1 DEF Builds
  <2> QED
    BY <2>3, <2>4
<1> HIDE DEF f
<1>5. Recurs(f, c, G, V)
  BY <1>2, <1>3, <1>4 DEF Recurs
<1> QED
  BY <1>5

-----------------------------------------------------------------------------
(* What Extract returns. *)

\* The positions of the RCP messages among events a+1 .. b.
RcpIn(room, a, b) == {i \in a + 1 .. b : room[i] = "rcp"}

\* s has the members of T, each once and in rising order.
Lists(s, T) ==
    /\ s \in Seq(T)
    /\ \A i, j \in 1 .. Len(s) : i < j => s[i] < s[j]
    /\ \A x \in T : \E i \in 1 .. Len(s) : s[i] = x

\* Extract goes through the events one by one.
LEMMA ExtractSteps ==
  ASSUME NEW room, NEW a \in Nat
  PROVE  /\ Extract(room, a, a) = <<>>
         /\ \A b \in Nat : b >= a =>
               Extract(room, a, b + 1) = IF room[b + 1] = "rcp"
                                         THEN Append(Extract(room, a, b), b + 1)
                                         ELSE Extract(room, a, b)
<1> DEFINE Body(g) == [k \in Nat |->
               IF k = 0 THEN <<>>
               ELSE IF room[a + k] = "rcp" THEN Append(g[k - 1], a + k) ELSE g[k - 1]]
           F == CHOOSE g : g = Body(g)
           V == Seq(Nat)
           G == [n \in Nat |-> [v \in V |->
               IF room[a + (n + 1)] = "rcp" THEN Append(v, a + (n + 1)) ELSE v]]
<1>1. F = Body(F)
  <2>1. <<>> \in V /\ G \in [Nat -> [V -> V]]
    OBVIOUS
  <2>2. PICK h \in [Nat -> V] : h[0] = <<>> /\ \A n \in Nat : h[n + 1] = G[n][h[n]]
    <3> DEFINE c == <<>>
    <3>1. c \in V
      BY <2>1
    <3> HIDE DEF V, G, c
    <3>2. \E h : Recurs(h, c, G, V)
      BY <2>1, <3>1, Recursion
    <3> QED
      BY <3>2 DEF c, Recurs
  <2>3. ASSUME NEW k \in Nat
        PROVE  h[k] = Body(h)[k]
    <3>1. CASE k = 0
      BY <3>1, <2>2
    <3>2. CASE k # 0
      <4>1. k - 1 \in Nat /\ (k - 1) + 1 = k
        BY <3>2
      <4>2. h[k - 1] \in V /\ h[k] = G[k - 1][h[k - 1]]
        BY <4>1, <2>2
      <4>3. h[k] = IF room[a + k] = "rcp" THEN Append(h[k - 1], a + k) ELSE h[k - 1]
        BY <4>1, <4>2
      <4> QED
        BY <4>3, <3>2
    <3> QED
      BY <3>1, <3>2
  <2>4. h = Body(h)
    BY <2>3
  <2> QED
    BY <2>4
<1>2. \A b : Extract(room, a, b) = F[b - a]
  BY DEF Extract
<1>3. Extract(room, a, a) = <<>>
  <2>1. a - a = 0
    OBVIOUS
  <2>2. Body(F)[0] = <<>>
    OBVIOUS
  <2> QED
    BY <1>1, <1>2, <2>1, <2>2
<1>4. ASSUME NEW b \in Nat, b >= a
      PROVE  Extract(room, a, b + 1) = IF room[b + 1] = "rcp"
                                       THEN Append(Extract(room, a, b), b + 1)
                                       ELSE Extract(room, a, b)
  <2>1. PICK k \in Nat : k = (b + 1) - a
    BY <1>4
  <2>2. k # 0 /\ a + k = b + 1 /\ k - 1 = b - a
    BY <1>4, <2>1
  <2>3. Body(F)[k] = IF room[a + k] = "rcp" THEN Append(F[k - 1], a + k) ELSE F[k - 1]
    BY <2>2
  <2>4. F[k] = Body(F)[k]
    BY <1>1
  <2> QED
    BY <2>1, <2>2, <2>3, <2>4, <1>2
<1> QED
  BY <1>3, <1>4

\* A later member is put at the end of a list.
LEMMA AppendLists ==
  ASSUME NEW T, NEW s, Lists(s, T), NEW x, NEW U, U = T \cup {x}, \A y \in T : y < x
  PROVE  Lists(Append(s, x), U)
<1>1. s \in Seq(U) /\ Append(s, x) \in Seq(U) /\ Len(Append(s, x)) = Len(s) + 1 /\ Len(s) \in Nat
  <2>1. s \in Seq(T) /\ T \subseteq U
    BY DEF Lists
  <2>2. s \in Seq(U)
    BY <2>1
  <2> QED
    BY <2>2
<1>2. \A i \in 1 .. Len(s) : Append(s, x)[i] = s[i] /\ s[i] \in T
  BY DEF Lists
<1>3. Append(s, x)[Len(s) + 1] = x
  BY <1>1
<1>4. ASSUME NEW i \in 1 .. Len(s) + 1, NEW j \in 1 .. Len(s) + 1, i < j
      PROVE  Append(s, x)[i] < Append(s, x)[j]
  <2>1. i \in 1 .. Len(s)
    BY <1>1, <1>4
  <2>2. CASE j = Len(s) + 1
    BY <2>1, <2>2, <1>2, <1>3
  <2>3. CASE j # Len(s) + 1
    <3>1. j \in 1 .. Len(s)
      BY <1>1, <2>3
    <3>2. s[i] < s[j]
      BY <3>1, <2>1, <1>4 DEF Lists
    <3> QED
      BY <3>1, <3>2, <2>1, <1>2
  <2> QED
    BY <2>2, <2>3
<1>5. ASSUME NEW y \in U
      PROVE  \E i \in 1 .. Len(s) + 1 : Append(s, x)[i] = y
  <2>1. CASE y \in T
    <3>1. PICK i \in 1 .. Len(s) : s[i] = y
      BY <2>1 DEF Lists
    <3> QED
      BY <3>1, <1>1, <1>2
  <2>2. CASE y = x
    BY <2>2, <1>1, <1>3
  <2> QED
    BY <2>1, <2>2
<1> QED
  BY <1>1, <1>4, <1>5 DEF Lists

\* A list of later members is put after a list.
LEMMA ConcatLists ==
  ASSUME NEW T, NEW U, NEW s, NEW t, Lists(s, T), Lists(t, U), \A x \in T, y \in U : x < y
  PROVE  Lists(s \o t, T \cup U)
<1> DEFINE r == s \o t
           m == Len(s)
           n == Len(t)
<1>1. m \in Nat /\ n \in Nat /\ s \in Seq(T) /\ t \in Seq(U)
  BY DEF Lists
<1>2. r \in Seq(T \cup U) /\ Len(r) = m + n
  <2>1. s \in Seq(T \cup U) /\ t \in Seq(T \cup U)
    BY <1>1
  <2> QED
    BY <2>1
<1>3. \A i \in 1 .. m : r[i] = s[i] /\ s[i] \in T
  BY <1>1
<1>4. \A i \in 1 .. n : r[m + i] = t[i] /\ t[i] \in U
  BY <1>1
<1>5. \A i \in m + 1 .. m + n : i - m \in 1 .. n /\ r[i] = t[i - m] /\ t[i - m] \in U
  BY <1>1
<1> HIDE DEF r
<1>6. ASSUME NEW i \in 1 .. m + n, NEW j \in 1 .. m + n, i < j
      PROVE  r[i] < r[j]
  <2>1. CASE j <= m
    <3>1. i \in 1 .. m /\ j \in 1 .. m
      BY <2>1, <1>1, <1>6
    <3>2. s[i] < s[j]
      BY <3>1, <1>6 DEF Lists
    <3> QED
      BY <3>1, <3>2, <1>3
  <2>2. CASE i > m
    <3>1. i \in m + 1 .. m + n /\ j \in m + 1 .. m + n /\ i - m < j - m
      BY <2>2, <1>1, <1>6
    <3>2. i - m \in 1 .. n /\ j - m \in 1 .. n
      BY <3>1, <1>5
    <3>3. t[i - m] < t[j - m]
      BY <3>1, <3>2 DEF Lists
    <3> QED
      BY <3>1, <3>3, <1>5
  <2>3. CASE i <= m /\ j > m
    <3>1. i \in 1 .. m /\ j \in m + 1 .. m + n
      BY <2>3, <1>1
    <3> QED
      BY <3>1, <1>3, <1>5
  <2> QED
    BY <2>1, <2>2, <2>3, <1>1
<1>7. ASSUME NEW x \in T \cup U
      PROVE  \E i \in 1 .. m + n : r[i] = x
  <2>1. CASE x \in T
    <3>1. PICK i \in 1 .. m : s[i] = x
      BY <2>1 DEF Lists
    <3> QED
      BY <3>1, <1>1, <1>3
  <2>2. CASE x \in U
    <3>1. PICK i \in 1 .. n : t[i] = x
      BY <2>2 DEF Lists
    <3>2. m + i \in 1 .. m + n
      BY <3>1, <1>1
    <3> QED
      BY <3>1, <3>2, <1>4
  <2> QED
    BY <2>1, <2>2
<1>8. Lists(r, T \cup U)
  BY <1>2, <1>6, <1>7 DEF Lists
<1> QED
  BY <1>8 DEF r

\* Extract lists the RCP messages of its stretch.
LEMMA ExtractLists ==
  ASSUME NEW room, NEW a \in Nat, NEW b \in Nat, a <= b
  PROVE  Lists(Extract(room, a, b), RcpIn(room, a, b))
<1> DEFINE S == {n \in Nat : Lists(Extract(room, a, a + n), RcpIn(room, a, a + n))}
<1>1. 0 \in S
  <2>1. a + 0 = a /\ RcpIn(room, a, a) = {}
    BY DEF RcpIn
  <2>2. Extract(room, a, a) = <<>>
    BY ExtractSteps
  <2>3. Lists(<<>>, {})
    BY DEF Lists
  <2> QED
    BY <2>1, <2>2, <2>3
<1>2. ASSUME NEW n \in Nat, n \in S
      PROVE  n + 1 \in S
  <2>1. PICK c \in Nat : c = a + n /\ c >= a
    OBVIOUS
  <2>2. a + (n + 1) = c + 1
    BY <2>1
  <2>3. Lists(Extract(room, a, c), RcpIn(room, a, c))
    BY <1>2, <2>1
  <2>4. CASE room[c + 1] = "rcp"
    <3>1. Extract(room, a, c + 1) = Append(Extract(room, a, c), c + 1)
      BY <2>1, <2>4, ExtractSteps
    <3>2. RcpIn(room, a, c + 1) = RcpIn(room, a, c) \cup {c + 1}
      BY <2>1, <2>4 DEF RcpIn
    <3>3. \A y \in RcpIn(room, a, c) : y < c + 1
      BY <2>1 DEF RcpIn
    <3>4. Lists(Append(Extract(room, a, c), c + 1), RcpIn(room, a, c + 1))
      BY <2>3, <3>2, <3>3, AppendLists
    <3>5. Lists(Extract(room, a, c + 1), RcpIn(room, a, c + 1))
      BY <3>1, <3>4
    <3> QED
      BY <3>5, <2>2
  <2>5. CASE room[c + 1] # "rcp"
    <3>1. Extract(room, a, c + 1) = Extract(room, a, c)
      BY <2>1, <2>5, ExtractSteps
    <3>2. RcpIn(room, a, c + 1) = RcpIn(room, a, c)
      BY <2>1, <2>5 DEF RcpIn
    <3> QED
      BY <3>1, <3>2, <2>2, <2>3
  <2> QED
    BY <2>4, <2>5
<1> HIDE DEF S
<1>3. Nat \subseteq S
  BY <1>1, <1>2, SetInduction
<1>4. PICK n \in Nat : b = a + n
  <2>1. b - a \in Nat /\ b = a + (b - a)
    OBVIOUS
  <2> QED
    BY <2>1
<1> QED
  BY <1>3, <1>4 DEF S

\* Neighbouring stretches make one.
LEMMA RcpInJoins ==
  ASSUME NEW room, NEW a \in Nat, NEW b \in Nat, NEW c \in Nat, a <= b, b <= c
  PROVE  /\ RcpIn(room, a, b) \cup RcpIn(room, b, c) = RcpIn(room, a, c)
         /\ \A x \in RcpIn(room, a, b), y \in RcpIn(room, b, c) : x < y
  BY DEF RcpIn

\* Lists of neighbouring stretches, one after the other, list the whole.
LEMMA ListsJoin ==
  ASSUME NEW room, NEW a \in Nat, NEW b \in Nat, NEW c \in Nat, a <= b, b <= c,
         NEW s, NEW t, Lists(s, RcpIn(room, a, b)), Lists(t, RcpIn(room, b, c))
  PROVE  Lists(s \o t, RcpIn(room, a, c))
<1>1. Lists(s \o t, RcpIn(room, a, b) \cup RcpIn(room, b, c))
  BY RcpInJoins, ConcatLists
<1> QED
  BY <1>1, RcpInJoins

\* An event posted at the end is in no stretch before it.
LEMMA RcpInStays ==
  ASSUME NEW room \in Seq(Kinds), NEW k \in Kinds, NEW a \in Nat, NEW b \in 0 .. Len(room)
  PROVE  RcpIn(Append(room, k), a, b) = RcpIn(room, a, b)
  BY DEF RcpIn

\* Only the list of nothing is empty.
LEMMA ListsEmpty ==
  ASSUME NEW s, NEW T, Lists(s, T)
  PROVE  s = <<>> <=> T = {}
<1>1. ASSUME s = <<>>
      PROVE  T = {}
  <2>1. Len(s) = 0
    BY <1>1
  <2> QED
    BY <2>1 DEF Lists
<1>2. ASSUME T = {}
      PROVE  s = <<>>
  <2>1. s \in Seq({})
    BY <1>2 DEF Lists
  <2> QED
    BY <2>1
<1> QED
  BY <1>1, <1>2

-----------------------------------------------------------------------------
(* The inductive invariant. *)

\* Variables other than the messages, and where the pages have come to.
Shape ==
    /\ role \in Roles /\ timeline \in Seq(Kinds)
    /\ mode \in {"new", "unstarted", "paging", "broken", "live", "dead"}
    /\ since \in 0 .. Len(timeline) /\ prev \in 0 .. since /\ complete \in BOOLEAN
    /\ spent \in [{"fault", "restart"} -> Nat]

\* What was fetched lists the RCP messages of one stretch of the room, which begins
\* where the pages have come to and is cut in two where the first sync began.
ReplayListed ==
    /\ mode = "new" => older = <<>>
    /\ \E m, h \in prev .. since :
          /\ m <= h
          /\ Lists(older, RcpIn(timeline, prev, m)) /\ Lists(window, RcpIn(timeline, m, h))

\* s rises and has no message from after the first b events.
Rises(s, b) ==
    /\ s \in Seq(1 .. b)
    /\ \A i, j \in 1 .. Len(s) : i < j => s[i] < s[j]

\* What was delivered rises up to the token of the sync, so that the next one follows.
DeliveredRises == Rises(delivered, since)

\* The page before the oldest one fetched.
PageBefore == RcpIn(timeline, Max({0, prev - PageLimit}), prev)

\* Unless it is marked, the loop did not end before the start of the room or a page
\* without messages.
CutKnown ==
    /\ mode = "paging" => complete
    /\ mode \in {"broken", "live"} /\ complete => PageBefore = {}

\* The inductive invariant of MatrixTransport.
TransportInv == Shape /\ ReplayListed /\ DeliveredRises /\ CutKnown

\* The maximum of two numbers is one of them.
LEMMA MaxOfTwo ==
  ASSUME NEW a \in Int, NEW b \in Int
  PROVE  Max({a, b}) \in {a, b} /\ Max({a, b}) >= a /\ Max({a, b}) >= b
<1>1. \E x \in {a, b} : \A y \in {a, b} : x >= y
  OBVIOUS
<1>2. Max({a, b}) \in {a, b} /\ \A y \in {a, b} : Max({a, b}) >= y
  BY <1>1 DEF Max
<1> QED
  BY <1>2

\* What lists messages up to an event rises up to it.
LEMMA ListsRise ==
  ASSUME NEW room, NEW a \in Nat, NEW b \in Nat, NEW c \in Nat, b <= c,
         NEW s, Lists(s, RcpIn(room, a, b))
  PROVE  Rises(s, c)
<1>1. RcpIn(room, a, b) \subseteq 1 .. c
  BY DEF RcpIn
<1>2. s \in Seq(RcpIn(room, a, b))
  BY DEF Lists
<1>3. s \in Seq(1 .. c)
  BY <1>1, <1>2
<1> QED
  BY <1>3 DEF Lists, Rises

\* What rises up to an event rises up to every later one.
LEMMA RisesFurther ==
  ASSUME NEW a \in Nat, NEW b \in Nat, a <= b, NEW s, Rises(s, a)
  PROVE  Rises(s, b)
<1>1. s \in Seq(1 .. a) /\ 1 .. a \subseteq 1 .. b
  BY DEF Rises
<1>2. s \in Seq(1 .. b)
  BY <1>1
<1> QED
  BY <1>2 DEF Rises

\* A list of what comes after it keeps a sequence rising.
LEMMA RisesOn ==
  ASSUME NEW room, NEW a \in Nat, NEW b \in Nat, NEW c \in Nat, a <= b, b <= c,
         NEW s, Rises(s, a), NEW t, Lists(t, RcpIn(room, b, c))
  PROVE  Rises(s \o t, c)
<1> DEFINE r == s \o t
           m == Len(s)
           n == Len(t)
<1>1. s \in Seq(1 .. c) /\ t \in Seq(1 .. c) /\ m \in Nat /\ n \in Nat
  <2>1. s \in Seq(1 .. a) /\ 1 .. a \subseteq 1 .. c
    BY DEF Rises
  <2>2. Rises(t, c)
    BY ListsRise
  <2>3. s \in Seq(1 .. c)
    BY <2>1
  <2> QED
    BY <2>2, <2>3 DEF Rises
<1>2. r \in Seq(1 .. c) /\ Len(r) = m + n
  BY <1>1
<1>3. \A i \in 1 .. m : r[i] = s[i] /\ s[i] \in Nat /\ s[i] <= b
  BY <1>1 DEF Rises
<1>4. \A i \in m + 1 .. m + n :
        i - m \in 1 .. n /\ r[i] = t[i - m] /\ t[i - m] \in Nat /\ t[i - m] > b
  <2>1. \A i \in m + 1 .. m + n : i - m \in 1 .. n /\ r[i] = t[i - m]
    BY <1>1
  <2>2. \A i \in 1 .. n : t[i] \in RcpIn(room, b, c)
    BY DEF Lists
  <2>3. \A x \in RcpIn(room, b, c) : x \in Nat /\ x > b
    BY DEF RcpIn
  <2> QED
    BY <2>1, <2>2, <2>3
<1> HIDE DEF r
<1>5. ASSUME NEW i \in 1 .. m + n, NEW j \in 1 .. m + n, i < j
      PROVE  r[i] < r[j]
  <2>1. CASE j <= m
    <3>1. i \in 1 .. m /\ j \in 1 .. m
      BY <2>1, <1>1, <1>5
    <3>2. s[i] < s[j]
      BY <3>1, <1>5 DEF Rises
    <3> QED
      BY <3>1, <3>2, <1>3
  <2>2. CASE i > m
    <3>1. i \in m + 1 .. m + n /\ j \in m + 1 .. m + n /\ i - m < j - m
      BY <2>2, <1>1, <1>5
    <3>2. i - m \in 1 .. n /\ j - m \in 1 .. n
      BY <3>1, <1>4
    <3>3. t[i - m] < t[j - m]
      BY <3>1, <3>2 DEF Lists
    <3> QED
      BY <3>1, <3>3, <1>4
  <2>3. CASE i <= m /\ j > m
    <3>1. i \in 1 .. m /\ j \in m + 1 .. m + n
      BY <2>3, <1>1
    <3> QED
      BY <3>1, <1>3, <1>4
  <2> QED
    BY <2>1, <2>2, <2>3, <1>1
<1>6. Rises(r, c)
  BY <1>2, <1>5 DEF Rises
<1> QED
  BY <1>6 DEF r

\* The invariant holds when a process begins on any room.
LEMMA InitHolds == Init => TransportInv
<1> SUFFICES ASSUME Init PROVE TransportInv
  OBVIOUS
<1>1. timeline \in Seq(Kinds)
  BY DEF Init
<1>2. Len(timeline) \in Nat
  BY <1>1
<1>3. Shape
  BY <1>1, <1>2 DEF Init, Shape
<1>4. Lists(<<>>, RcpIn(timeline, 0, 0)) /\ RcpIn(timeline, 0, 0) = {}
  BY DEF RcpIn, Lists
<1>5. ReplayListed
  BY <1>4 DEF Init, ReplayListed
<1>6. DeliveredRises
  BY DEF Init, DeliveredRises, Rises
<1>7. PageBefore = {}
  <2>1. Max({0, prev - PageLimit}) = 0
    <3>1. PICK x \in Int : x = prev - PageLimit /\ x < 0
      BY TransportAssumption DEF Init
    <3>2. Max({0, x}) \in {0, x} /\ Max({0, x}) >= 0
      BY MaxOfTwo
    <3> QED
      BY <3>1, <3>2
  <2> QED
    BY <2>1, <1>4 DEF PageBefore, Init
<1>8. CutKnown
  BY <1>7 DEF Init, CutKnown
<1> QED
  BY <1>3, <1>5, <1>6, <1>8 DEF TransportInv

\* Where a page begins.
LEMMA PageStart ==
  ASSUME TransportInv
  PROVE  /\ Max({0, prev - PageLimit}) \in 0 .. prev
         /\ prev = 0 => Max({0, prev - PageLimit}) = 0
<1>1. prev \in Nat /\ PageLimit \in Nat
  BY TransportAssumption DEF TransportInv, Shape
<1>2. PICK x \in Int : x = prev - PageLimit /\ x <= prev
  BY <1>1
<1>3. Max({0, x}) \in {0, x} /\ Max({0, x}) >= 0 /\ Max({0, x}) >= x
  BY MaxOfTwo
<1> QED
  BY <1>1, <1>2, <1>3

\* Where the newest events begin.
LEMMA NewestStart ==
  ASSUME TransportInv, NEW a \in 0 .. Len(timeline), NEW limit \in Nat
  PROVE  Newest(a, limit) \in a .. Len(timeline)
<1>1. PICK n \in Nat : n = Len(timeline)
  BY DEF TransportInv, Shape
<1>2. PICK x \in Int : x = n - limit /\ x <= n
  <2>1. n - limit \in Int /\ n - limit <= n
    OBVIOUS
  <2> QED
    BY <2>1
<1>3. a \in 0 .. n /\ a \in Int
  BY <1>1
<1>4. Max({a, x}) \in {a, x} /\ Max({a, x}) >= a
  BY <1>2, <1>3, MaxOfTwo
<1>5. Max({a, x}) \in a .. n
  BY <1>2, <1>3, <1>4
<1> QED
  BY <1>1, <1>2, <1>5 DEF Newest

\* An event posted.
LEMMA PostKeeps == TransportInv /\ Post => TransportInv'
<1> SUFFICES ASSUME TransportInv, Post PROVE TransportInv'
  OBVIOUS
<1> USE DEF TransportInv
<1>1. PICK k \in Kinds : timeline' = Append(timeline, k)
  BY DEF Post
<1>2. timeline \in Seq(Kinds) /\ timeline' \in Seq(Kinds) /\ Len(timeline') = Len(timeline) + 1
      /\ Len(timeline) \in Nat
  BY <1>1 DEF Shape
<1>3. UNCHANGED <<role, mode, since, prev, older, window, complete, delivered, spent>>
  BY DEF Post, fetching
<1>4. Shape'
  BY <1>2, <1>3 DEF Shape
<1>5. since \in 0 .. Len(timeline) /\ prev \in 0 .. since
  BY DEF Shape
<1>6. \A a \in Nat : \A b \in 0 .. since : RcpIn(timeline', a, b) = RcpIn(timeline, a, b)
  <2>1. \A b \in 0 .. since : b \in 0 .. Len(timeline)
    BY <1>2, <1>5
  <2> QED
    BY <1>1, <1>2, <2>1, RcpInStays
<1>7. ReplayListed'
  <2>1. PICK m \in prev .. since, h \in prev .. since :
          /\ m <= h
          /\ Lists(older, RcpIn(timeline, prev, m)) /\ Lists(window, RcpIn(timeline, m, h))
    BY DEF ReplayListed
  <2>2. m \in Nat /\ prev \in Nat /\ m \in 0 .. since /\ h \in 0 .. since
    BY <1>2, <1>5
  <2>3. Lists(older, RcpIn(timeline', prev, m)) /\ Lists(window, RcpIn(timeline', m, h))
    BY <2>1, <2>2, <1>6
  <2> QED
    BY <2>1, <2>3, <1>3 DEF ReplayListed
<1>8. DeliveredRises'
  BY <1>3 DEF DeliveredRises
<1>9. CutKnown'
  <2>1. Max({0, prev - PageLimit}) \in Nat /\ prev \in 0 .. since
    BY PageStart, <1>2, <1>5
  <2>2. RcpIn(timeline', Max({0, prev - PageLimit}), prev) = PageBefore
    BY <2>1, <1>6 DEF PageBefore
  <2>3. PageBefore' = PageBefore
    BY <2>2, <1>3 DEF PageBefore
  <2> QED
    BY <2>3, <1>3 DEF CutKnown
<1> QED
  BY <1>4, <1>7, <1>8, <1>9

\* The first sync.
LEMMA FirstSyncKeeps == TransportInv /\ FirstSync => TransportInv'
<1> SUFFICES ASSUME TransportInv, FirstSync PROVE TransportInv'
  OBVIOUS
<1> USE DEF TransportInv
<1>1. mode' = "paging" /\ since' = Len(timeline) /\ prev' = Newest(0, SyncLimit)
      /\ window' = Extract(timeline, prev', since') /\ complete'
      /\ UNCHANGED <<role, timeline, older, delivered, spent>>
  BY DEF FirstSync
<1>2. Len(timeline) \in Nat /\ since \in 0 .. Len(timeline) /\ timeline \in Seq(Kinds)
  BY DEF Shape
<1>3. prev' \in 0 .. since' /\ since' \in 0 .. Len(timeline)
  BY <1>1, <1>2, NewestStart, TransportAssumption
<1>4. Shape'
  BY <1>1, <1>3 DEF Shape, FirstSync
<1>5. Lists(window', RcpIn(timeline, prev', since'))
  BY <1>1, <1>2, <1>3, ExtractLists
<1>6. ReplayListed'
  <2>1. older' = <<>> /\ older = <<>>
    BY <1>1 DEF FirstSync, ReplayListed
  <2>2. RcpIn(timeline, prev', prev') = {}
    BY <1>3, <1>2 DEF RcpIn
  <2>3. Lists(older', RcpIn(timeline, prev', prev'))
    BY <2>1, <2>2 DEF Lists
  <2>4. prev' \in prev' .. since' /\ since' \in prev' .. since' /\ prev' <= since'
    BY <1>2, <1>3
  <2> QED
    BY <2>3, <2>4, <1>1, <1>5 DEF ReplayListed
<1>7. DeliveredRises'
  <2>1. since \in Nat /\ Len(timeline) \in Nat /\ since <= Len(timeline)
    BY <1>2
  <2>2. Rises(delivered, since)
    BY DEF DeliveredRises
  <2> HIDE DEF TransportInv
  <2>3. Rises(delivered, Len(timeline))
    BY <2>1, <2>2, RisesFurther
  <2> QED
    BY <1>1, <2>3 DEF DeliveredRises
<1>8. CutKnown'
  BY <1>1 DEF CutKnown
<1> QED
  BY <1>4, <1>6, <1>7, <1>8

\* A page of older messages.
LEMMA PageKeeps == TransportInv /\ Page => TransportInv'
<1> SUFFICES ASSUME TransportInv, Page PROVE TransportInv'
  OBVIOUS
<1> USE DEF TransportInv
<1>1. PICK from : from = Max({0, prev - PageLimit})
  OBVIOUS
<1>2. PICK page : page = Extract(timeline, from, prev)
  OBVIOUS
<1>3. /\ mode = "paging"
      /\ IF page = <<>> THEN mode' = "broken" /\ UNCHANGED <<prev, older>>
         ELSE mode' = mode /\ prev' = from /\ older' = page \o older
      /\ UNCHANGED <<role, timeline, since, window, complete, delivered, spent>>
  BY <1>1, <1>2 DEF Page, More
<1>4. Len(timeline) \in Nat /\ since \in 0 .. Len(timeline) /\ prev \in 0 .. since
  BY DEF Shape
<1>5. from \in 0 .. prev
  BY <1>1, PageStart
<1>6. Lists(page, RcpIn(timeline, from, prev))
  BY <1>2, <1>4, <1>5, ExtractLists
<1>7. prev' \in 0 .. prev
  BY <1>3, <1>4, <1>5
<1>8. Shape'
  BY <1>3, <1>4, <1>7 DEF Shape
<1>9. ReplayListed'
  <2>1. PICK m \in prev .. since, h \in prev .. since :
          /\ m <= h
          /\ Lists(older, RcpIn(timeline, prev, m)) /\ Lists(window, RcpIn(timeline, m, h))
    BY DEF ReplayListed
  <2>2. m \in prev' .. since' /\ h \in prev' .. since'
    BY <1>3, <1>4, <1>7
  <2>3. Lists(older', RcpIn(timeline', prev', m))
    <3>1. CASE page = <<>>
      BY <3>1, <1>3, <2>1
    <3>2. CASE page # <<>>
      <4>1. Lists(page \o older, RcpIn(timeline, from, m))
        BY <1>4, <1>5, <1>6, <2>1, ListsJoin
      <4> QED
        BY <4>1, <3>2, <1>3
    <3> QED
      BY <3>1, <3>2
  <2> QED
    BY <2>1, <2>2, <2>3, <1>3 DEF ReplayListed
<1>10. DeliveredRises'
  BY <1>3 DEF DeliveredRises
<1>11. CutKnown'
  <2>1. CASE page = <<>>
    <3>1. RcpIn(timeline, from, prev) = {}
      BY <2>1, <1>6, ListsEmpty
    <3>2. PageBefore' = {}
      BY <3>1, <2>1, <1>1, <1>3 DEF PageBefore
    <3> QED
      BY <3>2, <2>1, <1>3 DEF CutKnown
  <2>2. CASE page # <<>>
    BY <2>2, <1>3 DEF CutKnown
  <2> QED
    BY <2>1, <2>2
<1> QED
  BY <1>8, <1>9, <1>10, <1>11

\* The end of the loop.
LEMMA FinishKeeps == TransportInv /\ Finish => TransportInv'
<1> SUFFICES ASSUME TransportInv, Finish PROVE TransportInv'
  OBVIOUS
<1> USE DEF TransportInv
<1>1. /\ mode = "broken" \/ (mode = "paging" /\ ~More)
      /\ mode' = "live" /\ delivered' = older \o window
      /\ complete' = (complete /\ Len(older) < Cap)
      /\ UNCHANGED <<role, timeline, since, prev, older, window, spent>>
  BY DEF Finish
<1>2. Len(timeline) \in Nat /\ since \in 0 .. Len(timeline) /\ prev \in 0 .. since
  BY DEF Shape
<1>3. Shape'
  BY <1>1 DEF Shape
<1>4. ReplayListed'
  BY <1>1 DEF ReplayListed
<1>5. DeliveredRises'
  <2>1. PICK m \in prev .. since, h \in prev .. since :
          /\ m <= h
          /\ Lists(older, RcpIn(timeline, prev, m)) /\ Lists(window, RcpIn(timeline, m, h))
    BY DEF ReplayListed
  <2>2. Lists(older \o window, RcpIn(timeline, prev, h))
    BY <1>2, <2>1, ListsJoin
  <2>3. Rises(older \o window, since)
    BY <1>2, <2>1, <2>2, ListsRise
  <2> QED
    BY <2>3, <1>1 DEF DeliveredRises
<1>6. CutKnown'
  <2>1. PageBefore' = PageBefore
    BY <1>1 DEF PageBefore
  <2>2. CASE mode = "broken"
    BY <2>1, <2>2, <1>1 DEF CutKnown, Shape
  <2>3. CASE mode = "paging" /\ ~More /\ complete'
    <3>1. prev = 0
      <4>1. Len(older) < Cap
        BY <2>3, <1>1
      <4> QED
        BY <4>1, <2>3, <1>2 DEF More
    <3>2. PageBefore = {}
      BY <3>1, PageStart DEF PageBefore, RcpIn
    <3> QED
      BY <3>2, <2>1, <1>1 DEF CutKnown
  <2>4. CASE ~complete'
    BY <2>4, <1>1 DEF CutKnown
  <2> QED
    BY <2>2, <2>3, <2>4, <1>1
<1> QED
  BY <1>3, <1>4, <1>5, <1>6

\* A sync of the loop.
LEMMA SyncKeeps == TransportInv /\ Sync => TransportInv'
<1> SUFFICES ASSUME TransportInv, Sync PROVE TransportInv'
  OBVIOUS
<1> USE DEF TransportInv
<1>1. PICK from : from = Newest(since, SyncLimit)
  OBVIOUS
<1>2. /\ mode = "live" /\ since' = Len(timeline)
      /\ delivered' = delivered \o Extract(timeline, from, since')
      /\ UNCHANGED <<role, timeline, mode, prev, older, window, complete, spent>>
  BY <1>1 DEF Sync, fetching
<1>3. Len(timeline) \in Nat /\ since \in 0 .. Len(timeline) /\ prev \in 0 .. since
  BY DEF Shape
<1>4. since' \in Nat /\ since <= since' /\ from \in since .. since'
  BY <1>1, <1>2, <1>3, NewestStart, TransportAssumption
<1>5. Shape'
  BY <1>2, <1>3, <1>4 DEF Shape
<1>6. ReplayListed'
  <2>1. prev .. since \subseteq prev' .. since'
    BY <1>2, <1>3, <1>4
  <2> QED
    BY <2>1, <1>2 DEF ReplayListed
<1>7. DeliveredRises'
  <2>1. Lists(Extract(timeline, from, since'), RcpIn(timeline, from, since'))
    BY <1>3, <1>4, ExtractLists
  <2>2. Rises(delivered, since)
    BY DEF DeliveredRises
  <2>3. PICK c \in Nat : c = since'
    BY <1>4
  <2>4. Rises(delivered \o Extract(timeline, from, c), c)
    BY <2>1, <2>2, <2>3, <1>3, <1>4, RisesOn
  <2> QED
    BY <2>3, <2>4, <1>2 DEF DeliveredRises
<1>8. CutKnown'
  BY <1>2 DEF CutKnown, PageBefore
<1> QED
  BY <1>5, <1>6, <1>7, <1>8

\* Faults, and what they count.
LEMMA FaultsKeep ==
  TransportInv /\ (BackfillRaises \/ PageFails \/ SyncRaises \/ SyncError) => TransportInv'
<1> SUFFICES ASSUME TransportInv, BackfillRaises \/ PageFails \/ SyncRaises \/ SyncError
             PROVE  TransportInv'
  OBVIOUS
<1> USE DEF TransportInv
<1>1. /\ UNCHANGED <<role, timeline, since, prev, older, window, delivered>>
      /\ Faulty
      /\ mode' \in {"unstarted", "broken", "dead", "live"} /\ complete' \in {complete, FALSE}
      /\ mode' = "live" => mode = "live" /\ complete' = complete
      /\ mode' = "broken" => ~complete'
  BY DEF BackfillRaises, PageFails, SyncRaises, SyncError, fetching
<1>2. spent' \in [{"fault", "restart"} -> Nat]
  BY <1>1 DEF Faulty, Shape
<1>3. Shape'
  BY <1>1, <1>2 DEF Shape
<1>4. ReplayListed' /\ DeliveredRises'
  BY <1>1 DEF ReplayListed, DeliveredRises
<1>5. CutKnown'
  BY <1>1 DEF CutKnown, PageBefore
<1> QED
  BY <1>3, <1>4, <1>5

\* A new process.
LEMMA RestartKeeps == TransportInv /\ Restart => TransportInv'
<1> SUFFICES ASSUME TransportInv, Restart PROVE TransportInv'
  OBVIOUS
<1> USE DEF TransportInv
<1>1. /\ mode' \in {"live", "new"} /\ since' = 0 /\ prev' = 0 /\ older' = <<>> /\ window' = <<>>
      /\ complete' = TRUE /\ delivered' = <<>> /\ UNCHANGED <<role, timeline>>
  BY DEF Restart, Start
<1>2. spent' \in [{"fault", "restart"} -> Nat]
  BY DEF Restart, Shape
<1>3. Len(timeline) \in Nat
  BY DEF Shape
<1>4. Shape'
  BY <1>1, <1>2, <1>3 DEF Shape
<1>5. RcpIn(timeline, 0, 0) = {}
  BY DEF RcpIn
<1>6. Lists(<<>>, {})
  BY DEF Lists
<1>7. ReplayListed'
  BY <1>1, <1>5, <1>6 DEF ReplayListed
<1>8. DeliveredRises'
  BY <1>1 DEF DeliveredRises, Rises
<1>9. CutKnown'
  <2>1. PICK x \in Int : x = 0 - PageLimit /\ x < 0
    BY TransportAssumption
  <2>2. Max({0, x}) \in {0, x} /\ Max({0, x}) >= 0
    BY MaxOfTwo
  <2>3. Max({0, 0 - PageLimit}) = 0
    BY <2>1, <2>2
  <2>4. PageBefore' = {}
    BY <2>3, <1>1, <1>5 DEF PageBefore
  <2> QED
    BY <2>4, <1>1 DEF CutKnown
<1> QED
  BY <1>4, <1>7, <1>8, <1>9

\* Every step keeps the invariant.
LEMMA StepKeeps == TransportInv /\ [Next]_vars => TransportInv'
<1> SUFFICES ASSUME TransportInv, [Next]_vars PROVE TransportInv'
  OBVIOUS
<1>1. CASE UNCHANGED vars
  BY <1>1 DEF vars, TransportInv, Shape, ReplayListed, DeliveredRises, CutKnown, PageBefore
<1>2. CASE Next
  BY <1>2, PostKeeps, FirstSyncKeeps, PageKeeps, FinishKeeps, SyncKeeps, FaultsKeep, RestartKeeps
     DEF Next, Step
<1> QED
  BY <1>1, <1>2

-----------------------------------------------------------------------------
(* What follows from it. *)

\* The replay has every message between its first and its last.
LEMMA ReplayComplete == TransportInv => ReplayHasNoHoles
<1> SUFFICES ASSUME TransportInv, replay # <<>>,
                    NEW i \in replay[1] .. Last(replay), IsRcp(i)
             PROVE  i \in Range(replay)
  BY DEF ReplayHasNoHoles
<1> USE DEF TransportInv
<1>1. Len(timeline) \in Nat /\ since \in 0 .. Len(timeline) /\ prev \in 0 .. since
  BY DEF Shape
<1>2. PICK m \in prev .. since, h \in prev .. since :
        /\ m <= h
        /\ Lists(older, RcpIn(timeline, prev, m)) /\ Lists(window, RcpIn(timeline, m, h))
  BY DEF ReplayListed
<1>3. PICK r : r = replay
  OBVIOUS
<1>4. Lists(r, RcpIn(timeline, prev, h))
  BY <1>1, <1>2, <1>3, ListsJoin DEF replay
<1>5. r \in Seq(RcpIn(timeline, prev, h)) /\ Len(r) \in Nat /\ Len(r) # 0
  BY <1>3, <1>4 DEF Lists
<1>6. r[1] \in RcpIn(timeline, prev, h) /\ r[Len(r)] \in RcpIn(timeline, prev, h)
  BY <1>5
<1>7. r[1] \in Nat /\ r[Len(r)] \in Nat /\ r[1] >= prev + 1 /\ r[Len(r)] <= h
  BY <1>1, <1>6 DEF RcpIn
<1>8. i \in r[1] .. r[Len(r)]
  BY <1>3 DEF Last
<1>9. i \in RcpIn(timeline, prev, h)
  BY <1>1, <1>7, <1>8 DEF RcpIn, IsRcp
<1>10. PICK k \in 1 .. Len(r) : r[k] = i
  BY <1>4, <1>9 DEF Lists
<1> QED
  BY <1>3, <1>5, <1>10 DEF Range

\* What was fetched and delivered are events of the room, delivered in rising order.
LEMMA MessagesAreEvents == TransportInv => TypeOK /\ InOrderOnce
<1> SUFFICES ASSUME TransportInv PROVE TypeOK /\ InOrderOnce
  OBVIOUS
<1> USE DEF TransportInv
<1>1. Len(timeline) \in Nat /\ since \in 0 .. Len(timeline) /\ prev \in 0 .. since
  BY DEF Shape
<1>2. PICK m \in prev .. since, h \in prev .. since :
        /\ m <= h
        /\ Lists(older, RcpIn(timeline, prev, m)) /\ Lists(window, RcpIn(timeline, m, h))
  BY DEF ReplayListed
<1>3. PICK n \in Nat : n = Len(timeline)
  BY <1>1
<1>4. Rises(older, n) /\ Rises(window, n)
  BY <1>1, <1>2, <1>3, ListsRise
<1>5. Rises(delivered, n)
  BY <1>1, <1>3, RisesFurther DEF DeliveredRises
<1>6. TypeOK
  BY <1>3, <1>4, <1>5 DEF TypeOK, Shape, Rises
<1>7. InOrderOnce
  BY DEF InOrderOnce, DeliveredRises, Rises
<1> QED
  BY <1>6, <1>7

\* A cut that is not marked was at a page without messages.
LEMMA CutMarked == TransportInv => CutIsMarked
<1> SUFFICES ASSUME TransportInv, mode = "live", complete
             PROVE  Extract(timeline, Max({0, prev - PageLimit}), prev) = <<>>
  BY DEF CutIsMarked
<1>1. PICK a : a = Max({0, prev - PageLimit})
  OBVIOUS
<1>2. a \in 0 .. prev /\ prev \in Nat
  BY <1>1, PageStart DEF TransportInv, Shape
<1>3. RcpIn(timeline, a, prev) = {}
  BY <1>1 DEF TransportInv, CutKnown, PageBefore
<1>4. Lists(Extract(timeline, a, prev), RcpIn(timeline, a, prev))
  BY <1>2, ExtractLists
<1> QED
  BY <1>1, <1>3, <1>4, ListsEmpty

\* A process gets the room in order, once and without holes in its replay, and is told
\* when the replay was cut, wherever pages end, requests fail and the process restarts
\* (backfill, _backfill_page, receive).
THEOREM TransportIsFaithful == Spec => []ReplayIsFaithful
<1>1. Init => TransportInv
  BY InitHolds
<1>2. TransportInv /\ [Next]_vars => TransportInv'
  BY StepKeeps
<1>3. TransportInv => ReplayIsFaithful
  BY ReplayComplete, MessagesAreEvents, CutMarked DEF ReplayIsFaithful
<1> QED
  BY <1>1, <1>2, <1>3, PTL DEF Spec

=============================================================================
