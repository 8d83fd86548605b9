---------------------------- MODULE EventsProofs ----------------------------
(***************************************************************************)
(* The write-event log, for any callers, calls, sizes and caps.  Every     *)
(* commit is announced or counted as dropped.  A log that is complete and  *)
(* in order rebuilds the scopes; one that is only complete still says where *)
(* each appended item of a growing scope is, and what its counters add up  *)
(* to.                                                                     *)
(*                                                                         *)
(* First, as in BufferProofs (whose constants are not those of Events), that *)
(* SumTo exists and what cutting an element out does to it.                *)
(***************************************************************************)
EXTENDS Events, FiniteSetTheorems, WellFoundedInduction, TLAPS

(***************************************************************************)
(* Induction over Nat in the form of a set (the library's theorem takes an *)
(* operator): a set that holds 0 and is closed under +1 holds Nat.         *)
(***************************************************************************)
LEMMA NatSetInduction ==
    ASSUME NEW S, 0 \in S, \A n \in Nat : n \in S => n + 1 \in S
    PROVE  Nat \subseteq S
<1> DEFINE T == Nat \ S
<1> SUFFICES ASSUME T # {} PROVE FALSE OBVIOUS
<1> DEFINE R == {ss \in Nat \X Nat : ss[1] < ss[2]}
<1>1. IsWellFoundedOn(R, Nat) BY NatLessThanWellFounded DEF OpToRel
<1>2. T \subseteq Nat OBVIOUS
<1> HIDE DEF R
<1>3. PICK x \in T : \A y \in T : ~ (<<y, x>> \in R) BY <1>1, <1>2, WFMin, Zenon
<1>4. \A y \in T : ~(y < x) BY <1>2, <1>3 DEF R
<1>5. x # 0 OBVIOUS
<1>6. x - 1 \in Nat BY <1>5
<1>7. x - 1 \notin T BY <1>4, <1>6
<1> QED BY <1>6, <1>7

\* g is the sum function up to n.
PartialSum(f, g, n) == g = [k \in 0..n |-> IF k = 0 THEN 0 ELSE g[k - 1] + f[k]]

(***************************************************************************)
(* Two partial sums agree where both are defined.                          *)
(***************************************************************************)
LEMMA PartialSumsAgree ==
    ASSUME NEW f, NEW g, NEW h, NEW n \in Nat, NEW m \in Nat,
           PartialSum(f, g, n), PartialSum(f, h, m)
    PROVE  \A k \in Nat : k <= n /\ k <= m => g[k] = h[k]
<1> DEFINE S == {k \in Nat : k <= n /\ k <= m => g[k] = h[k]}
<1>1. 0 \in S BY DEF PartialSum
<1>2. ASSUME NEW k \in Nat, k \in S PROVE k + 1 \in S
  <2> SUFFICES ASSUME k + 1 <= n, k + 1 <= m PROVE g[k + 1] = h[k + 1] OBVIOUS
  <2>1. g[k + 1] = g[k] + f[k + 1] BY DEF PartialSum
  <2>2. h[k + 1] = h[k] + f[k + 1] BY DEF PartialSum
  <2>3. g[k] = h[k] BY <1>2
  <2> QED BY <2>1, <2>2, <2>3
<1> HIDE DEF S
<1>3. Nat \subseteq S BY <1>1, <1>2, NatSetInduction
<1> QED BY <1>3 DEF S

(***************************************************************************)
(* Every length has a partial sum.                                         *)
(***************************************************************************)
LEMMA PartialSumExists ==
    ASSUME NEW f PROVE \A n \in Nat : \E g : PartialSum(f, g, n)
<1> DEFINE S == {n \in Nat : \E g : PartialSum(f, g, n)}
<1>1. 0 \in S
  <2> DEFINE g == [k \in 0..0 |-> 0]
  <2>1. PartialSum(f, g, 0) BY DEF PartialSum
  <2> QED BY <2>1
<1>2. ASSUME NEW n \in Nat, n \in S PROVE n + 1 \in S
  <2>1. PICK g : PartialSum(f, g, n) BY <1>2
  <2> DEFINE h == [k \in 0..(n + 1) |-> IF k = n + 1 THEN g[n] + f[n + 1] ELSE g[k]]
  <2>2. ASSUME NEW k \in 0..(n + 1)
        PROVE  h[k] = IF k = 0 THEN 0 ELSE h[k - 1] + f[k]
    <3>1. CASE k = 0 BY <2>1, <3>1 DEF PartialSum
    <3>2. CASE k = n + 1 BY <3>2
    <3>3. CASE k # 0 /\ k # n + 1
      <4>1. g[k] = g[k - 1] + f[k] BY <2>1, <3>3 DEF PartialSum
      <4>2. h[k] = g[k] /\ h[k - 1] = g[k - 1] BY <3>3
      <4> QED BY <3>3, <4>1, <4>2
    <3> QED BY <3>1, <3>2, <3>3
  <2>3. PartialSum(f, h, n + 1)
    <3> DEFINE hh == [k \in 0..(n + 1) |-> IF k = 0 THEN 0 ELSE h[k - 1] + f[k]]
    <3>1. \A k \in 0..(n + 1) : h[k] = hh[k] BY <2>2
    <3>2. h = hh BY <3>1
    <3> QED BY <3>2 DEF PartialSum
  <2> QED BY <2>3
<1> HIDE DEF S
<1>3. Nat \subseteq S BY <1>1, <1>2, NatSetInduction
<1> QED BY <1>3 DEF S

(***************************************************************************)
(* The recursion equation of SumTo has a solution, so SumTo satisfies it.  *)
(***************************************************************************)
LEMMA SumToEquation ==
    ASSUME NEW f
    PROVE  /\ SumTo(f)[0] = 0
           /\ \A n \in Nat : SumTo(f)[n + 1] = SumTo(f)[n] + f[n + 1]
<1> DEFINE G(n) == CHOOSE g : PartialSum(f, g, n)
           F == [n \in Nat |-> G(n)[n]]
           Body(s) == [n \in Nat |-> IF n = 0 THEN 0 ELSE s[n - 1] + f[n]]
<1>1. \A n \in Nat : PartialSum(f, G(n), n) BY PartialSumExists
<1> HIDE DEF G
<1>2. ASSUME NEW n \in Nat PROVE F[n] = IF n = 0 THEN 0 ELSE F[n - 1] + f[n]
  <2>1. PartialSum(f, G(n), n) BY <1>1
  <2>2. CASE n = 0 BY <2>1, <2>2 DEF PartialSum
  <2>3. CASE n # 0
    <3>1. n - 1 \in Nat /\ n - 1 <= n BY <2>3
    <3>2. PartialSum(f, G(n - 1), n - 1) BY <1>1, <3>1
    <3>3. G(n)[n - 1] = G(n - 1)[n - 1] BY <2>1, <3>1, <3>2, PartialSumsAgree
    <3>4. G(n)[n] = G(n)[n - 1] + f[n] BY <2>1, <2>3 DEF PartialSum
    <3> QED BY <2>3, <3>1, <3>3, <3>4
  <2> QED BY <2>2, <2>3
<1>3. F = Body(F)
  <2>1. \A n \in Nat : F[n] = Body(F)[n] BY <1>2
  <2> QED BY <2>1
<1> HIDE DEF F
<1>4. SumTo(f) = Body(SumTo(f))
  <2>1. SumTo(f) = CHOOSE s : s = Body(s) BY DEF SumTo
  <2> HIDE DEF Body
  <2> QED BY <1>3, <2>1
<1>5. \A n \in Nat : SumTo(f)[n] = Body(SumTo(f))[n] BY <1>4
<1> QED BY <1>5

(***************************************************************************)
(* Whatever starts at 0 and grows by f[k] at each k up to n is the sum.    *)
(***************************************************************************)
LEMMA SumToUnique ==
    ASSUME NEW f, NEW p, NEW n \in Nat,
           p[0] = 0, \A i \in 1..n : p[i] = p[i - 1] + f[i]
    PROVE  \A k \in 0..n : SumTo(f)[k] = p[k]
<1> DEFINE S == {k \in Nat : k <= n => SumTo(f)[k] = p[k]}
<1>1. 0 \in S BY SumToEquation
<1>2. ASSUME NEW k \in Nat, k \in S PROVE k + 1 \in S
  <2> SUFFICES ASSUME k + 1 <= n PROVE SumTo(f)[k + 1] = p[k + 1] OBVIOUS
  <2>1. SumTo(f)[k + 1] = SumTo(f)[k] + f[k + 1] BY SumToEquation
  <2>2. k + 1 \in 1..n /\ (k + 1) - 1 = k OBVIOUS
  <2>3. p[k + 1] = p[k] + f[k + 1] BY <2>2
  <2>4. SumTo(f)[k] = p[k] BY <1>2
  <2> QED BY <2>1, <2>3, <2>4
<1> HIDE DEF S
<1>3. Nat \subseteq S BY <1>1, <1>2, NatSetInduction
<1> QED BY <1>3 DEF S

(***************************************************************************)
(* The sum of integers is an integer, and each element adds itself.        *)
(***************************************************************************)
LEMMA SumToInt ==
    ASSUME NEW f, NEW n \in Nat, \A i \in 1..n : f[i] \in Int
    PROVE  /\ SumTo(f)[0] = 0
           /\ \A k \in 0..n : SumTo(f)[k] \in Int
           /\ \A k \in 1..n : SumTo(f)[k] = SumTo(f)[k - 1] + f[k]
<1> DEFINE S == {k \in Nat : k <= n => SumTo(f)[k] \in Int}
<1>1. 0 \in S BY SumToEquation
<1>2. ASSUME NEW k \in Nat, k \in S PROVE k + 1 \in S
  <2> SUFFICES ASSUME k + 1 <= n PROVE SumTo(f)[k + 1] \in Int OBVIOUS
  <2>1. SumTo(f)[k + 1] = SumTo(f)[k] + f[k + 1] BY SumToEquation
  <2>2. SumTo(f)[k] \in Int /\ f[k + 1] \in Int BY <1>2
  <2> QED BY <2>1, <2>2
<1> HIDE DEF S
<1>3. Nat \subseteq S BY <1>1, <1>2, NatSetInduction
<1>4. ASSUME NEW k \in 1..n PROVE SumTo(f)[k] = SumTo(f)[k - 1] + f[k]
  <2>1. k - 1 \in Nat /\ (k - 1) + 1 = k OBVIOUS
  <2> QED BY <2>1, SumToEquation
<1> QED BY <1>3, <1>4, SumToEquation DEF S

(***************************************************************************)
(* Cutting one element out subtracts it.                                   *)
(***************************************************************************)
LEMMA SumCut ==
    ASSUME NEW f, NEW g, NEW n \in Nat, NEW i \in 1..n,
           \A j \in 1..n : f[j] \in Int,
           \A j \in 1..(n - 1) : g[j] = IF j < i THEN f[j] ELSE f[j + 1]
    PROVE  SumTo(g)[n - 1] = SumTo(f)[n] - f[i]
<1> DEFINE p == [k \in 0..(n - 1) |-> IF k < i THEN SumTo(f)[k]
                                      ELSE SumTo(f)[k + 1] - f[i]]
<1>0. /\ SumTo(f)[0] = 0
      /\ \A k \in 0..n : SumTo(f)[k] \in Int
      /\ \A k \in 1..n : SumTo(f)[k] = SumTo(f)[k - 1] + f[k]
  BY SumToInt
<1>1. p[0] = 0 BY <1>0
<1>2. ASSUME NEW k \in 1..(n - 1) PROVE p[k] = p[k - 1] + g[k]
  <2>1. /\ SumTo(f)[k] = SumTo(f)[k - 1] + f[k] /\ SumTo(f)[k - 1] \in Int
        /\ SumTo(f)[k + 1] = SumTo(f)[k] + f[k + 1] /\ SumTo(f)[k] \in Int
    <3>1. k \in 1..n /\ k + 1 \in 1..n /\ k - 1 \in 0..n /\ (k + 1) - 1 = k OBVIOUS
    <3> QED BY <1>0, <3>1
  <2>2. f[k] \in Int /\ f[i] \in Int /\ f[k + 1] \in Int OBVIOUS
  <2>3. CASE k < i BY <2>1, <2>3
  <2>4. CASE k >= i
    <3>1. g[k] = f[k + 1] BY <2>4
    <3>2. p[k] = SumTo(f)[k + 1] - f[i] BY <2>4
    <3>3. p[k - 1] = SumTo(f)[k] - f[i]
      <4>1. CASE k - 1 < i
        <5>1. k = i BY <2>4, <4>1
        <5> QED BY <2>1, <2>2, <5>1
      <4>2. CASE k - 1 >= i BY <4>2
      <4> QED BY <4>1, <4>2
    <3> QED BY <2>1, <2>2, <3>1, <3>2, <3>3
  <2> QED BY <2>3, <2>4
<1>3. p[n - 1] = SumTo(f)[n] - f[i]
  <2>1. f[i] \in Int OBVIOUS
  <2>2. CASE n - 1 < i
    <3>1. n = i BY <2>2
    <3>2. SumTo(f)[n] = SumTo(f)[n - 1] + f[n] /\ SumTo(f)[n - 1] \in Int BY <1>0
    <3> QED BY <2>1, <3>1, <3>2
  <2>3. CASE n - 1 >= i BY <2>3
  <2> QED BY <2>2, <2>3
<1> HIDE DEF p
<1>4. n - 1 \in Nat OBVIOUS
<1>5. SumTo(g)[n - 1] = p[n - 1] BY <1>1, <1>2, <1>4, SumToUnique
<1> QED BY <1>3, <1>5

-----------------------------------------------------------------------------
(* The log and the scopes. *)

Total == Len(events) + Len(queue)

\* The events of this epoch: those logged, then those on their way.
StoryOf(log, callers, held) ==
    [i \in 1..(Len(log) + Len(callers)) |->
        IF i <= Len(log) THEN log[i].evt ELSE held[callers[i - Len(log)]]]

Story == StoryOf(events, queue, pending)

IsSequence(s) == s \in Seq(Range(s))

Types ==
    /\ mode \in {"off", "notify", "full"}
    /\ at \in [Procs -> {"idle", "emit", "append"}]
    /\ DOMAIN pending = Procs
    /\ IsSequence(events)
    /\ eventsLastSeq \in Nat /\ Len(events) <= eventsLastSeq
    /\ eventsDropsTotal \in Nat /\ commits \in Nat /\ gone \in Nat

\* The queue holds each caller with an event on its way, once.
QueueIsBusy ==
    /\ queue \in Seq(Procs)
    /\ \A i, j \in DOMAIN queue : queue[i] = queue[j] => i = j
    /\ \A p \in Procs : at[p] # "idle" <=> p \in Range(queue)

\* The story is whole: nothing of it was dropped, drained or overtaken, and
\* no /warm is in it.
Whole ==
    /\ mode = "full" /\ order = "kept"
    /\ eventsDropsTotal = 0 /\ Len(events) = eventsLastSeq
    /\ \A i \in 1..Total : Story[i].scope \in Scopes => Story[i].op # "warm"

\* A whole story leads from base to the scopes, at every step.
StoryLeadsHere == Whole => States(base, Story)[Total] = scopes

Inv == Types /\ QueueIsBusy /\ EventsAccounted /\ StoryLeadsHere

-----------------------------------------------------------------------------
(* States is the recursive function it is written as. *)

\* g is the history of the copy up to n events.
PartialStates(start, story, g, n) ==
    g = [k \in 0..n |-> IF k = 0 THEN start ELSE Redo(g[k - 1], story[k])]

LEMMA PartialStatesAgree ==
  ASSUME NEW start, NEW story, NEW g, NEW h, NEW n \in Nat, NEW m \in Nat,
         PartialStates(start, story, g, n), PartialStates(start, story, h, m)
  PROVE  \A k \in Nat : k <= n /\ k <= m => g[k] = h[k]
<1> DEFINE S == {k \in Nat : k <= n /\ k <= m => g[k] = h[k]}
<1>1. 0 \in S BY DEF PartialStates
<1>2. ASSUME NEW k \in Nat, k \in S PROVE k + 1 \in S
  <2> SUFFICES ASSUME k + 1 <= n, k + 1 <= m PROVE g[k + 1] = h[k + 1] OBVIOUS
  <2>1. g[k + 1] = Redo(g[k], story[k + 1]) BY DEF PartialStates
  <2>2. h[k + 1] = Redo(h[k], story[k + 1]) BY DEF PartialStates
  <2>3. g[k] = h[k] BY <1>2
  <2> QED BY <2>1, <2>2, <2>3
<1> HIDE DEF S
<1>3. Nat \subseteq S BY <1>1, <1>2, NatSetInduction
<1> QED BY <1>3 DEF S

LEMMA PartialStatesExist ==
  ASSUME NEW start, NEW story
  PROVE  \A n \in Nat : \E g : PartialStates(start, story, g, n)
<1> DEFINE S == {n \in Nat : \E g : PartialStates(start, story, g, n)}
<1>1. 0 \in S
  <2> DEFINE g == [k \in 0..0 |-> start]
  <2>1. PartialStates(start, story, g, 0) BY DEF PartialStates
  <2> QED BY <2>1
<1>2. ASSUME NEW n \in Nat, n \in S PROVE n + 1 \in S
  <2>1. PICK g : PartialStates(start, story, g, n) BY <1>2
  <2> DEFINE h == [k \in 0..(n + 1) |-> IF k = n + 1 THEN Redo(g[n], story[n + 1]) ELSE g[k]]
  <2>2. ASSUME NEW k \in 0..(n + 1)
        PROVE  h[k] = IF k = 0 THEN start ELSE Redo(h[k - 1], story[k])
    <3>1. CASE k = 0 BY <2>1, <3>1 DEF PartialStates
    <3>2. CASE k = n + 1 BY <3>2
    <3>3. CASE k # 0 /\ k # n + 1
      <4>1. g[k] = Redo(g[k - 1], story[k]) BY <2>1, <3>3 DEF PartialStates
      <4>2. h[k] = g[k] /\ h[k - 1] = g[k - 1] BY <3>3
      <4> QED BY <3>3, <4>1, <4>2
    <3> QED BY <3>1, <3>2, <3>3
  <2>3. PartialStates(start, story, h, n + 1)
    <3> DEFINE hh == [k \in 0..(n + 1) |-> IF k = 0 THEN start ELSE Redo(h[k - 1], story[k])]
    <3>1. \A k \in 0..(n + 1) : h[k] = hh[k] BY <2>2
    <3>2. h = hh BY <3>1
    <3> QED BY <3>2 DEF PartialStates
  <2> QED BY <2>3
<1> HIDE DEF S
<1>3. Nat \subseteq S BY <1>1, <1>2, NatSetInduction
<1> QED BY <1>3 DEF S

(***************************************************************************)
(* The recursion of States has a solution, so States satisfies it.         *)
(***************************************************************************)
LEMMA StatesEquation ==
  ASSUME NEW start, NEW story
  PROVE  /\ States(start, story)[0] = start
         /\ \A n \in Nat :
              States(start, story)[n + 1] = Redo(States(start, story)[n], story[n + 1])
<1> DEFINE G(n) == CHOOSE g : PartialStates(start, story, g, n)
           F == [n \in Nat |-> G(n)[n]]
           Body(st) == [k \in Nat |-> IF k = 0 THEN start ELSE Redo(st[k - 1], story[k])]
<1>1. \A n \in Nat : PartialStates(start, story, G(n), n) BY PartialStatesExist
<1> HIDE DEF G
<1>2. ASSUME NEW n \in Nat PROVE F[n] = IF n = 0 THEN start ELSE Redo(F[n - 1], story[n])
  <2>1. PartialStates(start, story, G(n), n) BY <1>1
  <2>2. CASE n = 0 BY <2>1, <2>2 DEF PartialStates
  <2>3. CASE n # 0
    <3>1. n - 1 \in Nat /\ n - 1 <= n BY <2>3
    <3>2. PartialStates(start, story, G(n - 1), n - 1) BY <1>1, <3>1
    <3>3. G(n)[n - 1] = G(n - 1)[n - 1] BY <2>1, <3>1, <3>2, PartialStatesAgree
    <3>4. G(n)[n] = Redo(G(n)[n - 1], story[n]) BY <2>1, <2>3 DEF PartialStates
    <3> QED BY <2>3, <3>1, <3>3, <3>4
  <2> QED BY <2>2, <2>3
<1>3. F = Body(F)
  <2>1. \A n \in Nat : F[n] = Body(F)[n] BY <1>2
  <2> QED BY <2>1
<1> HIDE DEF F
<1>4. States(start, story) = Body(States(start, story))
  <2>1. States(start, story) = CHOOSE st : st = Body(st) BY DEF States
  <2> HIDE DEF Body
  <2> QED BY <1>3, <2>1
<1> QED BY <1>4

(***************************************************************************)
(* What the copy is after k events depends on these k events only.         *)
(***************************************************************************)
LEMMA StatesAgree ==
  ASSUME NEW start, NEW s, NEW t, NEW n \in Nat, \A i \in 1..n : s[i] = t[i]
  PROVE  States(start, s)[n] = States(start, t)[n]
<1> DEFINE S == {k \in Nat : k <= n => States(start, s)[k] = States(start, t)[k]}
<1>1. 0 \in S BY StatesEquation
<1>2. ASSUME NEW k \in Nat, k \in S PROVE k + 1 \in S
  <2> SUFFICES ASSUME k + 1 <= n PROVE States(start, s)[k + 1] = States(start, t)[k + 1]
    OBVIOUS
  <2>1. States(start, s)[k] = States(start, t)[k] BY <1>2
  <2>2. States(start, s)[k + 1] = Redo(States(start, s)[k], s[k + 1]) BY StatesEquation
  <2>3. States(start, t)[k + 1] = Redo(States(start, t)[k], t[k + 1]) BY StatesEquation
  <2>4. s[k + 1] = t[k + 1] OBVIOUS
  <2> QED BY <2>1, <2>2, <2>3, <2>4
<1> HIDE DEF S
<1>3. Nat \subseteq S BY <1>1, <1>2, NatSetInduction
<1> QED BY <1>3 DEF S

(***************************************************************************)
(* An event that is none of a user scope may be put in anywhere.           *)
(***************************************************************************)
LEMMA StatesSkip ==
  ASSUME NEW start, NEW s, NEW t, NEW j \in Nat, NEW n \in Nat, j <= n,
         \A i \in 1..j : t[i] = s[i],
         t[j + 1].scope \notin Scopes,
         \A i \in 1..n : i > j => t[i + 1] = s[i]
  PROVE  States(start, t)[n + 1] = States(start, s)[n]
<1> DEFINE S == {k \in Nat : j <= k /\ k <= n =>
                                States(start, t)[k + 1] = States(start, s)[k]}
<1>1. ASSUME NEW k \in Nat, k = j PROVE States(start, t)[k + 1] = States(start, s)[k]
  <2>1. States(start, t)[j] = States(start, s)[j] BY StatesAgree
  <2>2. States(start, t)[j + 1] = Redo(States(start, t)[j], t[j + 1]) BY StatesEquation
  <2>3. States(start, t)[j + 1] = States(start, t)[j] BY <2>2 DEF Redo
  <2> QED BY <1>1, <2>1, <2>3
<1>2. 0 \in S BY <1>1
<1>3. ASSUME NEW k \in Nat, k \in S PROVE k + 1 \in S
  <2> SUFFICES ASSUME j <= k + 1, k + 1 <= n
               PROVE  States(start, t)[k + 2] = States(start, s)[k + 1]
    OBVIOUS
  <2>1. CASE k + 1 = j BY <1>1, <2>1
  <2>2. CASE k + 1 # j
    <3>1. j <= k /\ k <= n BY <2>2
    <3>2. States(start, t)[k + 1] = States(start, s)[k] BY <1>3, <3>1
    <3>3. States(start, t)[(k + 1) + 1] = Redo(States(start, t)[k + 1], t[(k + 1) + 1])
      BY StatesEquation
    <3>4. States(start, s)[k + 1] = Redo(States(start, s)[k], s[k + 1]) BY StatesEquation
    <3>5. k + 1 \in 1..n /\ k + 1 > j BY <3>1
    <3>6. t[(k + 1) + 1] = s[k + 1] BY <3>5
    <3>7. (k + 1) + 1 = k + 2 OBVIOUS
    <3> QED BY <3>2, <3>3, <3>4, <3>6, <3>7
  <2> QED BY <2>1, <2>2
<1> HIDE DEF S
<1>4. Nat \subseteq S BY <1>2, <1>3, NatSetInduction
<1> QED BY <1>4 DEF S

-----------------------------------------------------------------------------
(* Redoing an event is redoing the call. *)

\* Two calls that find and do the same: only the seq of a call that is not
\* addressed by it may differ.
SameCall(c, e) ==
    /\ e.op = c.op /\ e.scope = c.scope /\ e.id = c.id /\ e.val = c.val
    /\ c.op \notin {"append", "upsert"} => e.seq = c.seq

(***************************************************************************)
(* In full mode the event says all of the call, but for a /warm: what the  *)
(* seq of an append or upsert becomes decides nothing.                     *)
(***************************************************************************)
LEMMA EventIsCall ==
  ASSUME NEW c \in Calls, NEW st, mode = "full", c.op # "warm"
  PROVE  SameCall(c, writeEvent(c, st))
<1> DEFINE q == seqOf(c, Content(st, c.scope))
           e == [c EXCEPT !.seq = q, !.val = @]
<1>1. writeEvent(c, st) = e BY DEF writeEvent
<1>2. c.op \notin {"append", "upsert"} => q = c.seq BY DEF seqOf
<1> HIDE DEF q
<1>3. c = [op |-> c.op, scope |-> c.scope, id |-> c.id, seq |-> c.seq, val |-> c.val]
  BY EventsAssumption
<1>4. /\ e.op = c.op /\ e.scope = c.scope /\ e.id = c.id /\ e.val = c.val
      /\ e.seq = q
  BY <1>3
<1> QED BY <1>1, <1>2, <1>4 DEF SameCall

LEMMA SameCallFinds ==
  ASSUME NEW c, NEW e, SameCall(c, e), NEW sc
  PROVE  /\ Addressed(sc, e) = Addressed(sc, c)
         /\ c.op = "delete_up_to" => Upto(sc, e.seq) = Upto(sc, c.seq)
BY DEF SameCall, Addressed, Upto

LEMMA SameCallHits ==
  ASSUME NEW c, NEW e, SameCall(c, e), NEW st
  PROVE  Hits(st, e) = Hits(st, c)
<1> DEFINE sc == Content(st, c.scope)
<1>1. /\ Addressed(sc, e) = Addressed(sc, c)
      /\ c.op = "delete_up_to" => Upto(sc, e.seq) = Upto(sc, c.seq)
  BY SameCallFinds
<1>2. e.op = c.op /\ e.scope = c.scope /\ e.val = c.val BY DEF SameCall
<1> QED BY <1>1, <1>2 DEF Hits

LEMMA SameCallApplies ==
  ASSUME NEW c, NEW e, SameCall(c, e), NEW st
  PROVE  Apply(st, e) = Apply(st, c)
<1>1. e.op = c.op /\ e.scope = c.scope /\ e.id = c.id /\ e.val = c.val BY DEF SameCall
<1>2. ASSUME NEW sc, NEW b PROVE insertNewItem(sc, e, b) = insertNewItem(sc, c, b)
  BY <1>1 DEF insertNewItem
<1>3. ASSUME NEW sc PROVE AfterItemOp(sc, e) = AfterItemOp(sc, c)
  <2>1. /\ Addressed(sc, e) = Addressed(sc, c)
        /\ c.op = "delete_up_to" => Upto(sc, e.seq) = Upto(sc, c.seq)
    BY SameCallFinds
  <2> QED BY <1>1, <1>2, <2>1 DEF AfterItemOp
<1> QED BY <1>1, <1>2, <1>3 DEF Apply

(***************************************************************************)
(* A copy that was right before a call is right after redoing its event.   *)
(***************************************************************************)
LEMMA EventRedoesCall ==
  ASSUME NEW c \in Calls, NEW st, NEW e, SameCall(c, e), c.scope \in Scopes, Hits(st, c)
  PROVE  Redo(st, e) = Apply(st, c)
<1>1. Hits(st, e) BY SameCallHits, Zenon
<1>2. e.scope \in Scopes BY DEF SameCall
<1> QED BY <1>1, <1>2, SameCallApplies DEF Redo

-----------------------------------------------------------------------------
(* The sequences and the set of busy callers. *)

LEMMA SeqIsSequence ==
  ASSUME NEW T, NEW s \in Seq(T)
  PROVE  IsSequence(s)
<1>1. Len(s) \in Nat /\ s = [i \in 1..Len(s) |-> s[i]] OBVIOUS
<1>2. \A i \in 1..Len(s) : s[i] \in Range(s) BY DEF Range
<1> QED BY <1>1, <1>2 DEF IsSequence

LEMMA AppendedTo ==
  ASSUME NEW s, IsSequence(s), NEW x
  PROVE  /\ IsSequence(Append(s, x)) /\ Len(s) \in Nat /\ Len(Append(s, x)) = Len(s) + 1
         /\ \A i \in 1..Len(s) : Append(s, x)[i] = s[i]
         /\ Append(s, x)[Len(s) + 1] = x
<1> DEFINE T == Range(s) \cup {x}
<1>1. s \in Seq(Range(s)) BY DEF IsSequence
<1>2. Len(s) \in Nat /\ s \in [1..Len(s) -> Range(s)] BY <1>1
<1>3. s \in Seq(T)
  <2>1. s \in [1..Len(s) -> T] BY <1>2
  <2> QED BY <1>2, <2>1
<1>4. x \in T OBVIOUS
<1> HIDE DEF T
<1>5. /\ Append(s, x) \in Seq(T) /\ Len(Append(s, x)) = Len(s) + 1
      /\ \A i \in 1..Len(s) : Append(s, x)[i] = s[i]
      /\ Append(s, x)[Len(s) + 1] = x
  BY <1>3, <1>4
<1> QED BY <1>2, <1>5, SeqIsSequence

LEMMA PrefixCut ==
  ASSUME NEW S, NEW s \in Seq(S), NEW k \in Nat, k <= Len(s)
  PROVE  SubSeq(s, k + 1, Len(s)) \in Seq(S) /\ Len(SubSeq(s, k + 1, Len(s))) = Len(s) - k
OBVIOUS

LEMMA Joined ==
  ASSUME NEW S, NEW a \in Seq(S), NEW b \in Seq(S)
  PROVE  /\ a \o b \in Seq(S) /\ Len(a \o b) = Len(a) + Len(b)
         /\ \A j \in 1..Len(a) : (a \o b)[j] = a[j]
         /\ \A j \in 1..Len(b) : (a \o b)[Len(a) + j] = b[j]
OBVIOUS

LEMMA CutAway ==
  ASSUME NEW S, NEW s \in Seq(S), NEW i \in DOMAIN s
  PROVE  /\ RemoveAt(s, i) \in Seq(S) /\ Len(RemoveAt(s, i)) = Len(s) - 1
         /\ \A j \in 1..(Len(s) - 1) : RemoveAt(s, i)[j] = IF j < i THEN s[j] ELSE s[j + 1]
<1> DEFINE a == SubSeq(s, 1, i - 1)
           b == SubSeq(s, i + 1, Len(s))
<1>1. Len(s) \in Nat /\ i \in 1..Len(s) OBVIOUS
<1>2. /\ a \in Seq(S) /\ Len(a) = i - 1
      /\ \A j \in 1..(i - 1) : a[j] = s[j]
  BY <1>1
<1>3. /\ b \in Seq(S) /\ Len(b) = Len(s) - i
      /\ \A j \in 1..(Len(s) - i) : b[j] = s[i + j]
  BY <1>1
<1>4. RemoveAt(s, i) = a \o b BY DEF RemoveAt
<1> HIDE DEF a, b
<1>5. /\ a \o b \in Seq(S) /\ Len(a \o b) = Len(a) + Len(b)
      /\ \A j \in 1..Len(a) : (a \o b)[j] = a[j]
      /\ \A j \in 1..Len(b) : (a \o b)[Len(a) + j] = b[j]
  <2>1. a \in Seq(S) /\ b \in Seq(S) BY <1>2, <1>3
  <2> QED BY <2>1, Joined
<1>6. ASSUME NEW j \in 1..(Len(s) - 1)
      PROVE  (a \o b)[j] = IF j < i THEN s[j] ELSE s[j + 1]
  <2>1. CASE j < i
    <3>1. j \in 1..(i - 1) /\ j \in 1..Len(a) BY <1>1, <1>2, <2>1
    <3> QED BY <1>2, <1>5, <2>1, <3>1
  <2>2. CASE ~(j < i)
    <3> DEFINE k == j - (i - 1)
    <3>1. k \in 1..(Len(s) - i) /\ k \in 1..Len(b) /\ j = Len(a) + k /\ i + k = j + 1
      BY <1>1, <1>2, <1>3, <2>2
    <3> HIDE DEF k
    <3>2. (a \o b)[Len(a) + k] = b[k] BY <1>5, <3>1
    <3>3. b[k] = s[i + k] BY <1>3, <3>1
    <3> QED BY <2>2, <3>1, <3>2, <3>3
  <2> QED BY <2>1, <2>2
<1>7. Len(a \o b) = Len(s) - 1 BY <1>1, <1>2, <1>3, <1>5
<1> DEFINE r == a \o b
<1>8. r \in Seq(S) /\ Len(r) = Len(s) - 1 BY <1>5, <1>7
<1>9. \A j \in 1..(Len(s) - 1) : r[j] = IF j < i THEN s[j] ELSE s[j + 1] BY <1>6
<1>10. RemoveAt(s, i) = r BY <1>4
<1> HIDE DEF r
<1> QED BY <1>8, <1>9, <1>10

Busy == {p \in Procs : at[p] # "idle"}

LEMMA BusyCounted ==
  Cardinality(Busy) \in Nat /\ IsFiniteSet(Busy)
<1>1. IsFiniteSet(Procs) BY EventsAssumption
<1>2. Busy \in SUBSET Procs BY DEF Busy
<1> QED BY <1>1, <1>2, FS_Subset, FS_CardinalityType

(***************************************************************************)
(* A caller that commits is one more with an event on its way; one that    *)
(* has logged or dropped its event is one fewer.                           *)
(***************************************************************************)
LEMMA BusyGrows ==
  ASSUME Types, NEW p \in Procs, at[p] = "idle", at' = [at EXCEPT ![p] = "emit"]
  PROVE  Cardinality(Busy') = Cardinality(Busy) + 1
<1>1. Busy' = Busy \cup {p} BY DEF Busy, Types
<1>2. p \notin Busy BY DEF Busy
<1> QED BY <1>1, <1>2, BusyCounted, FS_AddElement

LEMMA BusyShrinks ==
  ASSUME Types, NEW p \in Procs, at[p] # "idle", at' = [at EXCEPT ![p] = "idle"]
  PROVE  Cardinality(Busy') = Cardinality(Busy) - 1
<1>1. Busy' = Busy \ {p} BY DEF Busy, Types
<1>2. p \in Busy BY DEF Busy
<1> QED BY <1>1, <1>2, BusyCounted, FS_RemoveElement

(***************************************************************************)
(* The caller that commits joins the queue; the one that announces leaves. *)
(***************************************************************************)
LEMMA QueueJoins ==
  ASSUME Types, QueueIsBusy, NEW p \in Procs, at[p] = "idle",
         at' = [at EXCEPT ![p] = "emit"], queue' = Append(queue, p)
  PROVE  /\ QueueIsBusy'
         /\ Len(queue) \in Nat /\ Len(queue') = Len(queue) + 1 /\ queue'[Len(queue) + 1] = p
         /\ \A i \in 1..Len(queue) : queue'[i] = queue[i] /\ queue[i] \in Procs /\ queue[i] # p
<1>1. queue \in Seq(Procs) /\ Len(queue) \in Nat /\ DOMAIN queue = 1..Len(queue)
  BY DEF QueueIsBusy
<1>2. /\ queue' \in Seq(Procs) /\ Len(queue') = Len(queue) + 1 /\ queue'[Len(queue) + 1] = p
      /\ \A i \in 1..Len(queue) : queue'[i] = queue[i]
  BY <1>1
<1>3. p \notin Range(queue) BY DEF QueueIsBusy
<1>4. \A i \in 1..Len(queue) : queue[i] # p /\ queue[i] \in Procs BY <1>1, <1>3 DEF Range
<1>5. DOMAIN queue' = 1..(Len(queue) + 1) BY <1>1, <1>2
<1>6. ASSUME NEW i \in DOMAIN queue', NEW j \in DOMAIN queue', queue'[i] = queue'[j]
      PROVE  i = j
  <2>1. i \in 1..Len(queue) \/ i = Len(queue) + 1 BY <1>1, <1>5
  <2>2. j \in 1..Len(queue) \/ j = Len(queue) + 1 BY <1>1, <1>5
  <2>3. \A k, m \in 1..Len(queue) : queue[k] = queue[m] => k = m BY <1>1 DEF QueueIsBusy
  <2> QED BY <1>2, <1>4, <1>6, <2>1, <2>2, <2>3
<1>7. Range(queue') = Range(queue) \cup {p}
  <2>1. \A i \in 1..(Len(queue) + 1) : i \in 1..Len(queue) \/ i = Len(queue) + 1 BY <1>1
  <2>2. Len(queue) + 1 \in 1..(Len(queue) + 1) BY <1>1
  <2>3. \A i \in 1..Len(queue) : i \in 1..(Len(queue) + 1) BY <1>1
  <2> QED BY <1>1, <1>2, <1>5, <2>1, <2>2, <2>3 DEF Range
<1>8. \A r \in Procs : at'[r] # "idle" <=> r \in Range(queue')
  BY <1>7 DEF QueueIsBusy, Types
<1> QED BY <1>1, <1>2, <1>4, <1>6, <1>8 DEF QueueIsBusy

LEMMA QueueLeaves ==
  ASSUME Types, QueueIsBusy, NEW i \in DOMAIN queue, NEW p \in Procs, queue[i] = p,
         at' = [at EXCEPT ![p] = "idle"], queue' = RemoveAt(queue, i)
  PROVE  /\ QueueIsBusy'
         /\ Len(queue) \in Nat /\ Len(queue') = Len(queue) - 1
         /\ \A j \in 1..(Len(queue) - 1) : /\ queue'[j] = queue[IF j < i THEN j ELSE j + 1]
                                           /\ queue'[j] # p /\ queue'[j] \in Procs
<1>1. queue \in Seq(Procs) /\ Len(queue) \in Nat /\ DOMAIN queue = 1..Len(queue)
  BY DEF QueueIsBusy
<1>2. /\ queue' \in Seq(Procs) /\ Len(queue') = Len(queue) - 1
      /\ \A j \in 1..(Len(queue) - 1) : queue'[j] = queue[IF j < i THEN j ELSE j + 1]
  <2>1. /\ RemoveAt(queue, i) \in Seq(Procs) /\ Len(RemoveAt(queue, i)) = Len(queue) - 1
        /\ \A j \in 1..(Len(queue) - 1) :
             RemoveAt(queue, i)[j] = IF j < i THEN queue[j] ELSE queue[j + 1]
    BY <1>1, CutAway
  <2> QED BY <2>1
<1>3. \A k, m \in 1..Len(queue) : queue[k] = queue[m] => k = m BY <1>1 DEF QueueIsBusy
<1>4. i \in 1..Len(queue) /\ DOMAIN queue' = 1..(Len(queue) - 1) BY <1>1, <1>2
<1> DEFINE old(j) == IF j < i THEN j ELSE j + 1
<1>5. ASSUME NEW j \in 1..(Len(queue) - 1)
      PROVE  old(j) \in 1..Len(queue) /\ old(j) # i
  BY <1>1, <1>4
<1>6. ASSUME NEW j \in 1..(Len(queue) - 1)
      PROVE  queue'[j] = queue[old(j)] /\ queue'[j] # p /\ queue'[j] \in Procs
  <2>1. queue'[j] = queue[old(j)] BY <1>2
  <2> QED BY <1>1, <1>3, <1>4, <1>5, <2>1
<1>7. ASSUME NEW j \in DOMAIN queue', NEW k \in DOMAIN queue', queue'[j] = queue'[k]
      PROVE  j = k
  <2>1. j \in 1..(Len(queue) - 1) /\ k \in 1..(Len(queue) - 1) BY <1>4
  <2>2. old(j) = old(k) BY <1>3, <1>5, <1>6, <1>7, <2>1
  <2> QED BY <1>1, <1>4, <2>1, <2>2
<1>8. Range(queue') = Range(queue) \ {p}
  <2>1. ASSUME NEW r \in Range(queue') PROVE r \in Range(queue) /\ r # p
    <3>1. PICK j \in 1..(Len(queue) - 1) : r = queue'[j] BY <1>4 DEF Range
    <3>2. r = queue[old(j)] /\ r # p BY <1>6, <3>1
    <3> QED BY <1>1, <1>5, <3>2 DEF Range
  <2>2. ASSUME NEW r \in Range(queue), r # p PROVE r \in Range(queue')
    <3>1. PICK j \in 1..Len(queue) : r = queue[j] BY <1>1 DEF Range
    <3>2. j # i BY <2>2, <3>1
    <3> DEFINE k == IF j < i THEN j ELSE j - 1
    <3>3. k \in 1..(Len(queue) - 1) /\ old(k) = j BY <1>1, <1>4, <3>2
    <3> HIDE DEF k, old
    <3>4. r = queue'[k] BY <1>6, <3>1, <3>3
    <3> QED BY <1>4, <3>3, <3>4 DEF Range
  <2> QED BY <2>1, <2>2
<1>9. \A r \in Procs : at'[r] # "idle" <=> r \in Range(queue')
  BY <1>8 DEF QueueIsBusy, Types
<1> QED BY <1>1, <1>2, <1>6, <1>7, <1>9 DEF QueueIsBusy

-----------------------------------------------------------------------------
(* The steps. *)

LEMMA StoryParts ==
  ASSUME NEW log, IsSequence(log), NEW callers \in Seq(Procs), NEW held
  PROVE  /\ Len(log) \in Nat /\ Len(callers) \in Nat
         /\ \A i \in 1..Len(log) : StoryOf(log, callers, held)[i] = log[i].evt
         /\ \A i \in 1..Len(callers) :
              StoryOf(log, callers, held)[Len(log) + i] = held[callers[i]]
         /\ \A i \in 1..(Len(log) + Len(callers)) :
              i \in 1..Len(log) \/ i - Len(log) \in 1..Len(callers)
<1>1. Len(log) \in Nat /\ Len(callers) \in Nat BY DEF IsSequence
<1>2. \A i \in 1..Len(log) : StoryOf(log, callers, held)[i] = log[i].evt BY <1>1 DEF StoryOf
<1>3. ASSUME NEW i \in 1..Len(callers)
      PROVE  StoryOf(log, callers, held)[Len(log) + i] = held[callers[i]]
  <2> DEFINE k == Len(log) + i
  <2>1. k \in 1..(Len(log) + Len(callers)) /\ ~(k <= Len(log)) /\ k - Len(log) = i BY <1>1
  <2> HIDE DEF k
  <2>2. StoryOf(log, callers, held)[k] = held[callers[k - Len(log)]] BY <2>1 DEF StoryOf
  <2> QED BY <2>1, <2>2 DEF k
<1>4. \A i \in 1..(Len(log) + Len(callers)) :
        i \in 1..Len(log) \/ i - Len(log) \in 1..Len(callers)
  BY <1>1
<1> QED BY <1>1, <1>2, <1>3, <1>4

(***************************************************************************)
(* A commit's event is one more at the end of the story.                   *)
(***************************************************************************)
LEMMA CommitTells ==
  ASSUME Inv, NEW c \in Calls, NEW p \in Procs, Commit(p, c), mode = "full"
  PROVE  /\ Total \in Nat /\ Total' = Total + 1
         /\ \A i \in 1..Total : Story'[i] = Story[i]
         /\ Story'[Total + 1] = writeEvent(c, Apply(scopes, c))
<1> USE DEF Inv
<1> DEFINE e == writeEvent(c, Apply(scopes, c))
<1>1. eventsEnabled(c.scope) BY EventsAssumption DEF Commit, eventsEnabled
<1>2. /\ pending' = [pending EXCEPT ![p] = e] /\ at' = [at EXCEPT ![p] = "emit"]
      /\ queue' = Append(queue, p) /\ at[p] = "idle"
      /\ events' = events /\ eventsLastSeq' = eventsLastSeq /\ base' = base
      /\ eventsDropsTotal' = eventsDropsTotal /\ order' = order /\ mode' = mode
      /\ commits' = commits + 1 /\ gone' = gone
      /\ scopes' = Apply(scopes, c) /\ c.scope \in Scopes /\ Hits(scopes, c)
  BY <1>1 DEF Commit
<1> HIDE DEF e
<1>3. /\ QueueIsBusy'
      /\ Len(queue) \in Nat /\ Len(queue') = Len(queue) + 1 /\ queue'[Len(queue) + 1] = p
      /\ \A i \in 1..Len(queue) : queue'[i] = queue[i] /\ queue[i] \in Procs /\ queue[i] # p
  BY <1>2, QueueJoins
<1>4. pending'[p] = e /\ \A r \in Procs : r # p => pending'[r] = pending[r]
  BY <1>2 DEF Types
<1>5. Types' BY <1>2 DEF Types
<1>6. /\ Len(events) \in Nat /\ Total \in Nat
      /\ \A i \in 1..Len(events) : Story[i] = events[i].evt
      /\ \A i \in 1..Len(queue) : Story[Len(events) + i] = pending[queue[i]]
      /\ \A i \in 1..Total : i \in 1..Len(events) \/ i - Len(events) \in 1..Len(queue)
  BY StoryParts DEF Types, QueueIsBusy, Story, Total
<1>7. /\ \A i \in 1..Len(events) : Story'[i] = events[i].evt
      /\ \A i \in 1..(Len(queue) + 1) : Story'[Len(events) + i] = pending'[queue'[i]]
  <2>1. /\ \A i \in 1..Len(events') : StoryOf(events', queue', pending')[i] = events'[i].evt
        /\ \A i \in 1..Len(queue') :
             StoryOf(events', queue', pending')[Len(events') + i] = pending'[queue'[i]]
    <3>1. IsSequence(events') /\ queue' \in Seq(Procs) BY <1>3, <1>5 DEF Types, QueueIsBusy
    <3> QED BY <3>1, StoryParts
  <2> QED BY <1>2, <1>3, <2>1 DEF Story
<1>8. Total = Len(events) + Len(queue) /\ Total' = Total + 1 BY <1>2, <1>3, <1>6 DEF Total
<1>9. ASSUME NEW i \in 1..Total PROVE Story'[i] = Story[i]
  <2>1. CASE i \in 1..Len(events) BY <1>6, <1>7, <2>1
  <2>2. CASE i - Len(events) \in 1..Len(queue)
    <3> DEFINE k == i - Len(events)
    <3>1. k \in 1..Len(queue) /\ k \in 1..(Len(queue) + 1) /\ i = Len(events) + k
      BY <1>3, <1>6, <2>2
    <3> HIDE DEF k
    <3>2. Story'[Len(events) + k] = pending'[queue'[k]] BY <1>7, <3>1
    <3>3. Story[Len(events) + k] = pending[queue[k]] BY <1>6, <3>1
    <3>4. pending'[queue'[k]] = pending[queue[k]] BY <1>3, <1>4, <3>1
    <3> QED BY <3>1, <3>2, <3>3, <3>4
  <2> QED BY <1>6, <2>1, <2>2
<1>10. Story'[Total + 1] = e
  <2>1. Len(queue) + 1 \in 1..(Len(queue) + 1) BY <1>3
  <2>2. Story'[Len(events) + (Len(queue) + 1)] = pending'[queue'[Len(queue) + 1]]
    BY <1>7, <2>1
  <2>3. Len(events) + (Len(queue) + 1) = Total + 1 BY <1>3, <1>6, <1>8
  <2> QED BY <1>3, <1>4, <2>2, <2>3
<1> QED BY <1>6, <1>8, <1>9, <1>10 DEF e

LEMMA StoryGrows ==
  ASSUME Inv, NEW c \in Calls, NEW p \in Procs, Commit(p, c), mode = "full"
  PROVE  StoryLeadsHere'
<1> USE DEF Inv
<1> DEFINE e == writeEvent(c, Apply(scopes, c))
<1>1. /\ Total \in Nat /\ Total' = Total + 1
      /\ \A i \in 1..Total : Story'[i] = Story[i]
      /\ Story'[Total + 1] = e
  BY CommitTells
<1> HIDE DEF e
<1>2. /\ events' = events /\ eventsLastSeq' = eventsLastSeq /\ base' = base
      /\ eventsDropsTotal' = eventsDropsTotal /\ order' = order /\ mode' = mode
      /\ scopes' = Apply(scopes, c) /\ c.scope \in Scopes /\ Hits(scopes, c)
  BY DEF Commit
<1>3. ASSUME Whole' PROVE States(base, Story')[Total + 1] = scopes'
  <2>1. \A i \in 1..(Total + 1) : Story'[i].scope \in Scopes => Story'[i].op # "warm"
    BY <1>1, <1>3 DEF Whole
  <2>2. \A i \in 1..Total : Story[i].scope \in Scopes => Story[i].op # "warm"
    BY <1>1, <2>1
  <2>3. Whole BY <1>2, <1>3, <2>2 DEF Whole
  <2>4. States(base, Story)[Total] = scopes BY <2>3 DEF StoryLeadsHere
  <2>5. States(base, Story')[Total] = States(base, Story)[Total]
    <3>1. Total \in Nat /\ \A i \in 1..Total : Story'[i] = Story[i] BY <1>1
    <3> QED BY <3>1, StatesAgree
  <2>6. e.op = c.op /\ e.scope = c.scope BY EventsAssumption DEF e, writeEvent
  <2>7. Total + 1 \in 1..(Total + 1) BY <1>1
  <2>8. c.op # "warm" BY <1>1, <1>2, <2>1, <2>6, <2>7
  <2>9. SameCall(c, e) BY <2>8, EventIsCall DEF e
  <2>10. Redo(scopes, e) = Apply(scopes, c) BY <1>2, <2>9, EventRedoesCall
  <2>11. States(base, Story')[Total + 1] = Redo(States(base, Story')[Total], Story'[Total + 1])
    BY <1>1, StatesEquation
  <2> QED BY <1>1, <1>2, <2>4, <2>5, <2>10, <2>11
<1> QED BY <1>1, <1>2, <1>3 DEF StoryLeadsHere

LEMMA CommitInv ==
  ASSUME Inv, NEW c \in Calls, NEW p \in Procs, Commit(p, c)
  PROVE  Inv'
<1> USE DEF Inv
<1> DEFINE e == writeEvent(c, Apply(scopes, c))
<1>1. /\ events' = events /\ eventsLastSeq' = eventsLastSeq /\ gone' = gone
      /\ eventsDropsTotal' = eventsDropsTotal /\ mode' = mode /\ commits' = commits + 1
      /\ at[p] = "idle"
  BY DEF Commit
<1>2. CASE eventsEnabled(c.scope)
  <2>1. /\ pending' = [pending EXCEPT ![p] = e] /\ at' = [at EXCEPT ![p] = "emit"]
        /\ queue' = Append(queue, p)
    BY <1>2 DEF Commit
  <2> HIDE DEF e
  <2>2. Types' BY <1>1, <2>1 DEF Types
  <2>3. QueueIsBusy' BY <1>1, <2>1, QueueJoins
  <2>4. EventsAccounted'
    <3>1. Cardinality(Busy') = Cardinality(Busy) + 1 BY <1>1, <2>1, BusyGrows
    <3>2. /\ Cardinality(Busy) \in Nat /\ Len(events) \in Nat /\ gone \in Nat
          /\ eventsDropsTotal \in Nat /\ commits \in Nat
      BY BusyCounted DEF Types, IsSequence
    <3>3. mode # "off" => commits = Len(events) + gone + eventsDropsTotal + Cardinality(Busy)
      BY DEF EventsAccounted, Busy
    <3>4. mode' # "off" =>
            commits' = Len(events') + gone' + eventsDropsTotal' + Cardinality(Busy')
      BY <1>1, <3>1, <3>2, <3>3
    <3> QED BY <3>4 DEF EventsAccounted, Busy
  <2>5. StoryLeadsHere'
    <3>1. CASE mode = "full" BY <3>1, StoryGrows
    <3>2. CASE mode # "full" BY <1>1, <3>2 DEF StoryLeadsHere, Whole
    <3> QED BY <3>1, <3>2
  <2> QED BY <2>2, <2>3, <2>4, <2>5
<1>3. CASE ~ eventsEnabled(c.scope)
  <2>1. pending' = pending /\ at' = at /\ queue' = queue BY <1>3 DEF Commit
  <2>2. mode = "off" BY <1>3, EventsAssumption DEF eventsEnabled, Commit
  <2>3. Types' BY <1>1, <2>1 DEF Types
  <2>4. QueueIsBusy' BY <2>1 DEF QueueIsBusy
  <2>5. EventsAccounted' BY <1>1, <2>2 DEF EventsAccounted
  <2>6. StoryLeadsHere' BY <1>1, <2>2 DEF StoryLeadsHere, Whole
  <2> QED BY <2>3, <2>4, <2>5, <2>6
<1> QED BY <1>2, <1>3

(***************************************************************************)
(* The client's own entry in _events comes between the log and the queue.  *)
(***************************************************************************)
LEMMA EntryTells ==
  ASSUME Inv, NEW c \in Calls, NEW p \in Procs, AppendToEvents(p, c)
  PROVE  /\ Len(events) \in Nat /\ Total \in Nat /\ Len(events) <= Total
         /\ Total' = Total + 1
         /\ \A i \in 1..Len(events) : Story'[i] = Story[i]
         /\ Story'[Len(events) + 1].scope \notin Scopes
         /\ \A i \in 1..Total : i > Len(events) => Story'[i + 1] = Story[i]
<1> USE DEF Inv
<1> DEFINE e == [c EXCEPT !.seq = eventsLastSeq + 1]
           x == eventItem(e)
           n == Len(events)
<1>1. ~ eventsEnabled(EventsScope) BY DEF eventsEnabled
<1>2. /\ events' = Append(events, x) /\ eventsLastSeq' = eventsLastSeq + 1
      /\ commits' = commits + 1 /\ pending' = pending /\ at' = at /\ queue' = queue
      /\ mode' = mode /\ scopes' = scopes /\ eventsDropsTotal' = eventsDropsTotal
      /\ gone' = gone /\ order' = order /\ base' = base /\ c.scope = EventsScope
  BY <1>1 DEF AppendToEvents
<1>3. x.evt.scope \notin Scopes
  <2>1. x.evt = e BY DEF eventItem
  <2>2. e.scope = c.scope BY EventsAssumption
  <2> QED BY <1>2, <2>1, <2>2, EventsAssumption
<1> HIDE DEF x
<1>4. IsSequence(events) BY DEF Types
<1>5. /\ IsSequence(events') /\ n \in Nat /\ Len(events') = n + 1
      /\ \A i \in 1..n : events'[i] = events[i]
      /\ events'[n + 1] = x
  BY <1>2, <1>4, AppendedTo
<1>6. /\ Len(queue) \in Nat /\ Total = n + Len(queue) /\ Total \in Nat
      /\ Total' = Total + 1 /\ n <= Total
  BY <1>2, <1>5 DEF QueueIsBusy, Total
<1>7. /\ \A i \in 1..n : Story[i] = events[i].evt
      /\ \A i \in 1..Len(queue) : Story[n + i] = pending[queue[i]]
  <2>1. queue \in Seq(Procs) BY DEF QueueIsBusy
  <2> QED BY <1>4, <2>1, StoryParts DEF Story
<1>8. /\ \A i \in 1..(n + 1) : Story'[i] = events'[i].evt
      /\ \A i \in 1..Len(queue) : Story'[(n + 1) + i] = pending[queue[i]]
  <2>1. queue \in Seq(Procs) /\ IsSequence(events') BY <1>5 DEF QueueIsBusy
  <2>2. /\ \A i \in 1..Len(events') : StoryOf(events', queue, pending)[i] = events'[i].evt
        /\ \A i \in 1..Len(queue) :
             StoryOf(events', queue, pending)[Len(events') + i] = pending[queue[i]]
    BY <2>1, StoryParts
  <2> QED BY <1>2, <1>5, <2>2 DEF Story
<1> HIDE DEF n
<1>9. \A i \in 1..n : Story'[i] = Story[i]
  <2>1. \A i \in 1..n : i \in 1..(n + 1) BY <1>5
  <2> QED BY <1>5, <1>7, <1>8, <2>1
<1>10. Story'[n + 1].scope \notin Scopes
  <2>1. n + 1 \in 1..(n + 1) BY <1>5
  <2> QED BY <1>3, <1>5, <1>8, <2>1
<1>11. ASSUME NEW i \in 1..Total, i > n PROVE Story'[i + 1] = Story[i]
  <2> DEFINE k == i - n
  <2>1. k \in 1..Len(queue) /\ i = n + k /\ i + 1 = (n + 1) + k BY <1>5, <1>6, <1>11
  <2> HIDE DEF k
  <2> QED BY <1>7, <1>8, <2>1
<1> QED BY <1>5, <1>6, <1>9, <1>10, <1>11 DEF n

(***************************************************************************)
(* A step that no copy takes.                                              *)
(***************************************************************************)
LEMMA ClientEntryInv ==
  ASSUME Inv, NEW c \in Calls, NEW p \in Procs, AppendToEvents(p, c)
  PROVE  Inv'
<1> USE DEF Inv
<1> DEFINE e == [c EXCEPT !.seq = eventsLastSeq + 1]
           x == eventItem(e)
           n == Len(events)
<1>1. ~ eventsEnabled(EventsScope) BY DEF eventsEnabled
<1>2. /\ events' = Append(events, x) /\ eventsLastSeq' = eventsLastSeq + 1
      /\ commits' = commits + 1 /\ pending' = pending /\ at' = at /\ queue' = queue
      /\ mode' = mode /\ scopes' = scopes /\ eventsDropsTotal' = eventsDropsTotal
      /\ gone' = gone /\ order' = order /\ base' = base /\ c.scope = EventsScope
  BY <1>1 DEF AppendToEvents
<1> HIDE DEF x
<1>3. IsSequence(events) BY DEF Types
<1>4. /\ IsSequence(events') /\ n \in Nat /\ Len(events') = n + 1
      /\ \A i \in 1..n : events'[i] = events[i]
      /\ events'[n + 1] = x
  BY <1>2, <1>3, AppendedTo
<1>5. Types' BY <1>2, <1>4 DEF Types
<1>6. QueueIsBusy' BY <1>2 DEF QueueIsBusy
<1>7. EventsAccounted'
  <2>1. /\ Cardinality(Busy) \in Nat /\ gone \in Nat
        /\ eventsDropsTotal \in Nat /\ commits \in Nat
    BY BusyCounted DEF Types
  <2>2. mode # "off" => commits = n + gone + eventsDropsTotal + Cardinality(Busy)
    BY DEF EventsAccounted, Busy
  <2>3. Cardinality(Busy') = Cardinality(Busy) BY <1>2 DEF Busy
  <2>4. mode' # "off" =>
          commits' = Len(events') + gone' + eventsDropsTotal' + Cardinality(Busy')
    <3> DEFINE b == Cardinality(Busy)
               bb == Cardinality(Busy')
    <3>1. mode # "off" => commits = n + gone + eventsDropsTotal + b
      BY <2>1, <2>2, <2>3
    <3>2. b \in Nat /\ bb = b BY <2>1, <2>3
    <3> HIDE DEF b, bb, n
    <3>3. mode' # "off" => commits' = Len(events') + gone' + eventsDropsTotal' + bb
      BY <1>2, <1>4, <2>1, <3>1, <3>2
    <3> QED BY <3>3 DEF bb
  <2> QED BY <2>4 DEF EventsAccounted, Busy
<1>8. /\ Total \in Nat /\ n <= Total /\ Total' = Total + 1
      /\ \A i \in 1..n : Story'[i] = Story[i]
      /\ Story'[n + 1].scope \notin Scopes
      /\ \A i \in 1..Total : i > n => Story'[i + 1] = Story[i]
  BY EntryTells
<1> HIDE DEF n
<1>9. StoryLeadsHere'
  <2> SUFFICES ASSUME Whole' PROVE States(base', Story')[Total'] = scopes'
    BY DEF StoryLeadsHere
  <2>1. \A i \in 1..(Total + 1) : Story'[i].scope \in Scopes => Story'[i].op # "warm"
    BY <1>8 DEF Whole
  <2>2. ASSUME NEW i \in 1..Total, Story[i].scope \in Scopes PROVE Story[i].op # "warm"
    <3>1. CASE i <= n
      <4>1. i \in 1..n /\ i \in 1..(Total + 1) BY <1>4, <1>8, <3>1
      <4> QED BY <1>8, <2>1, <2>2, <4>1
    <3>2. CASE i > n
      <4>1. i + 1 \in 1..(Total + 1) BY <1>8
      <4> QED BY <1>8, <2>1, <2>2, <3>2, <4>1
    <3> QED BY <1>4, <1>8, <3>1, <3>2
  <2>3. Len(events) = eventsLastSeq
    <3>1. n + 1 = eventsLastSeq + 1 BY <1>2, <1>4 DEF Whole
    <3> QED BY <3>1, <1>4 DEF Types, n
  <2>4. Whole BY <1>2, <2>2, <2>3 DEF Whole
  <2>5. States(base, Story)[Total] = scopes BY <2>4 DEF StoryLeadsHere
  <2>6. States(base, Story')[Total + 1] = States(base, Story)[Total]
    <3> DEFINE s == Story
               t == Story'
    <3>1. /\ \A i \in 1..n : t[i] = s[i]
          /\ t[n + 1].scope \notin Scopes
          /\ \A i \in 1..Total : i > n => t[i + 1] = s[i]
      BY <1>8
    <3> HIDE DEF s, t
    <3>2. n \in Nat /\ Total \in Nat /\ n <= Total BY <1>4, <1>8
    <3>3. States(base, t)[Total + 1] = States(base, s)[Total] BY <3>1, <3>2, StatesSkip
    <3> QED BY <3>3 DEF s, t
  <2> QED BY <1>2, <1>8, <2>5, <2>6
<1> QED BY <1>5, <1>6, <1>7, <1>9

(***************************************************************************)
(* Logging an event takes it out of its place in the queue and puts it     *)
(* behind the log; the rest of the story keeps its order.                  *)
(***************************************************************************)
LEMMA EmitMoves ==
  ASSUME Inv, NEW p \in Procs, emitAppend(p), NEW i \in DOMAIN queue,
         queue[i] = p, queue' = RemoveAt(queue, i), eventsDropsTotal' = eventsDropsTotal
  PROVE  /\ Len(events) \in Nat /\ Len(queue) \in Nat /\ i \in 1..Len(queue)
         /\ Total = Len(events) + Len(queue) /\ Total' = Total
         /\ Len(events') = Len(events) + 1 /\ eventsLastSeq' = eventsLastSeq + 1
         /\ \A k \in 1..Len(events) : Story'[k] = Story[k]
         /\ Story'[Len(events) + 1] = Story[Len(events) + i]
         /\ \A k \in 1..(Len(queue) - 1) :
              Story'[Len(events) + 1 + k] = Story[Len(events) + (IF k < i THEN k ELSE k + 1)]
<1> USE DEF Inv
<1> DEFINE x == eventItem(pending[p])
           n == Len(events)
           m == Len(queue)
<1>1. /\ at' = [at EXCEPT ![p] = "idle"] /\ pending' = [pending EXCEPT ![p] = NoEvent]
      /\ at[p] = "append" /\ at[p] # "idle"
  BY DEF emitAppend, eventsEnabled
<1>2. eventsDropsTotal # eventsDropsTotal + 1 BY DEF Types
<1>3. events' = Append(events, x) /\ eventsLastSeq' = eventsLastSeq + 1
  BY <1>2 DEF emitAppend
<1>4. x.evt = pending[p] BY DEF eventItem
<1> HIDE DEF x
<1>5. IsSequence(events) /\ queue \in Seq(Procs) BY DEF Types, QueueIsBusy
<1>6. /\ IsSequence(events') /\ n \in Nat /\ Len(events') = n + 1
      /\ \A k \in 1..n : events'[k] = events[k]
      /\ events'[n + 1] = x
  BY <1>3, <1>5, AppendedTo
<1>7. /\ QueueIsBusy'
      /\ m \in Nat /\ Len(queue') = m - 1
      /\ \A k \in 1..(m - 1) : /\ queue'[k] = queue[IF k < i THEN k ELSE k + 1]
                               /\ queue'[k] # p /\ queue'[k] \in Procs
  BY <1>1, QueueLeaves
<1>8. i \in 1..m BY <1>5
<1>9. /\ \A k \in 1..n : Story[k] = events[k].evt
      /\ \A k \in 1..m : Story[n + k] = pending[queue[k]]
  BY <1>5, StoryParts DEF Story
<1>10. /\ \A k \in 1..(n + 1) : Story'[k] = events'[k].evt
       /\ \A k \in 1..(m - 1) : Story'[(n + 1) + k] = pending'[queue'[k]]
  <2>1. IsSequence(events') /\ queue' \in Seq(Procs) BY <1>6, <1>7 DEF QueueIsBusy
  <2>2. /\ \A k \in 1..Len(events') : StoryOf(events', queue', pending')[k] = events'[k].evt
        /\ \A k \in 1..Len(queue') :
             StoryOf(events', queue', pending')[Len(events') + k] = pending'[queue'[k]]
    BY <2>1, StoryParts
  <2> QED BY <1>6, <1>7, <2>2 DEF Story
<1>11. Total = n + m /\ Total' = Total BY <1>6, <1>7, <1>8 DEF Total
<1>12. \A r \in Procs : r # p => pending'[r] = pending[r] BY <1>1 DEF Types
<1> HIDE DEF n, m
<1>13. ASSUME NEW k \in 1..n PROVE Story'[k] = Story[k]
  <2>1. k \in 1..(n + 1) BY <1>6
  <2> QED BY <1>6, <1>9, <1>10, <2>1
<1>14. Story'[n + 1] = Story[n + i]
  <2>1. n + 1 \in 1..(n + 1) BY <1>6
  <2> QED BY <1>4, <1>6, <1>8, <1>9, <1>10, <2>1
<1>15. ASSUME NEW k \in 1..(m - 1)
       PROVE  Story'[(n + 1) + k] = Story[n + (IF k < i THEN k ELSE k + 1)]
  <2> DEFINE j == IF k < i THEN k ELSE k + 1
  <2>1. j \in 1..m BY <1>7, <1>8
  <2>2. queue'[k] = queue[j] /\ queue'[k] # p /\ queue'[k] \in Procs BY <1>7
  <2> HIDE DEF j
  <2>3. Story'[(n + 1) + k] = pending[queue[j]] BY <1>10, <1>12, <2>2
  <2>4. Story[n + j] = pending[queue[j]] BY <1>9, <2>1
  <2> QED BY <2>3, <2>4 DEF j
<1> QED BY <1>3, <1>6, <1>7, <1>8, <1>11, <1>13, <1>14, <1>15 DEF n, m

(***************************************************************************)
(* The entry moves from its caller to the log; in a whole story the caller *)
(* is the first of the queue, so the story stays the same.                 *)
(***************************************************************************)
LEMMA EmitInv ==
  ASSUME Inv, NEW p \in Procs, emitAppend(p)
  PROVE  Inv'
<1> USE DEF Inv
<1> DEFINE x == eventItem(pending[p])
           n == Len(events)
           m == Len(queue)
<1>1. ~ eventsEnabled(EventsScope) BY DEF eventsEnabled
<1>2. /\ at' = [at EXCEPT ![p] = "idle"] /\ pending' = [pending EXCEPT ![p] = NoEvent]
      /\ at[p] = "append" /\ at[p] # "idle"
      /\ mode' = mode /\ scopes' = scopes /\ commits' = commits /\ gone' = gone /\ base' = base
  BY <1>1 DEF emitAppend
<1>3. \/ /\ eventsDropsTotal' = eventsDropsTotal + 1
         /\ events' = events /\ eventsLastSeq' = eventsLastSeq
      \/ /\ events' = Append(events, x) /\ eventsLastSeq' = eventsLastSeq + 1
         /\ eventsDropsTotal' = eventsDropsTotal
  BY DEF emitAppend
<1>4. PICK i \in DOMAIN queue :
        /\ queue[i] = p /\ queue' = RemoveAt(queue, i)
        /\ order' = IF order = "kept" /\ i # 1 THEN "swapped" ELSE order
  BY DEF emitAppend, Announced
<1> HIDE DEF x
<1>5. IsSequence(events) /\ queue \in Seq(Procs) BY DEF Types, QueueIsBusy
<1>6. /\ IsSequence(Append(events, x)) /\ n \in Nat /\ Len(Append(events, x)) = n + 1
      /\ \A k \in 1..n : Append(events, x)[k] = events[k]
      /\ Append(events, x)[n + 1] = x
  BY <1>5, AppendedTo
<1>7. /\ QueueIsBusy'
      /\ m \in Nat /\ Len(queue') = m - 1
      /\ \A j \in 1..(m - 1) : /\ queue'[j] = queue[IF j < i THEN j ELSE j + 1]
                               /\ queue'[j] # p /\ queue'[j] \in Procs
  BY <1>2, <1>4, QueueLeaves
<1>8. Types'
  <2>1. at' \in [Procs -> {"idle", "emit", "append"}] /\ DOMAIN pending' = Procs
    BY <1>2 DEF Types
  <2>2. IsSequence(events') /\ eventsLastSeq' \in Nat /\ Len(events') <= eventsLastSeq'
        /\ eventsDropsTotal' \in Nat
    <3>1. CASE events' = events /\ eventsLastSeq' = eventsLastSeq
               /\ eventsDropsTotal' = eventsDropsTotal + 1
      BY <3>1 DEF Types
    <3>2. CASE events' = Append(events, x) /\ eventsLastSeq' = eventsLastSeq + 1
               /\ eventsDropsTotal' = eventsDropsTotal
      <4>1. IsSequence(events') BY <1>6, <3>2
      <4>2. Len(events') = n + 1 BY <1>6, <3>2
      <4> QED BY <1>6, <3>2, <4>1, <4>2 DEF Types
    <3> QED BY <1>3, <3>1, <3>2
  <2> QED BY <1>2, <2>1, <2>2 DEF Types
<1>9. EventsAccounted'
  <2> DEFINE b == Cardinality(Busy)
             bb == Cardinality(Busy')
  <2>1. bb = b - 1 BY <1>2, BusyShrinks
  <2>2. b \in Nat /\ gone \in Nat /\ eventsDropsTotal \in Nat /\ commits \in Nat
    BY BusyCounted DEF Types
  <2>3. mode # "off" => commits = n + gone + eventsDropsTotal + b
    BY DEF EventsAccounted, Busy
  <2>4. Len(events') + eventsDropsTotal' = n + eventsDropsTotal + 1 /\ Len(events') \in Nat
    BY <1>3, <1>6, <2>2
  <2>5. eventsDropsTotal' \in Nat BY <1>3, <2>2
  <2> HIDE DEF b, bb, n
  <2>6. mode' # "off" => commits' = Len(events') + gone' + eventsDropsTotal' + bb
    <3>1. n \in Nat BY <1>6
    <3>2. mode' = mode /\ commits' = commits /\ gone' = gone BY <1>2
    <3> DEFINE k == Len(events')
    <3>3. k \in Nat /\ k + eventsDropsTotal' = n + eventsDropsTotal + 1 BY <2>4
    <3> HIDE DEF k, m
    <3>4. mode' # "off" => commits' = k + gone' + eventsDropsTotal' + bb
      <4> SUFFICES ASSUME mode' # "off" PROVE commits' = k + gone' + eventsDropsTotal' + bb
        OBVIOUS
      <4>1. commits = n + gone + eventsDropsTotal + b BY <2>3, <3>2
      <4>2. k + eventsDropsTotal' + b = n + eventsDropsTotal + 1 + b BY <3>3
      <4>3. \A d, dd, g \in Nat :
              k + dd = n + d + 1 => n + g + d + b = k + g + dd + (b - 1)
        BY <2>2, <3>1, <3>3
      <4>4. n + gone + eventsDropsTotal + b = k + gone + eventsDropsTotal' + (b - 1)
        BY <2>2, <2>5, <3>3, <4>3
      <4> QED BY <2>1, <3>2, <4>1, <4>4
    <3> QED BY <3>4 DEF k
  <2> QED BY <2>6 DEF EventsAccounted, Busy, bb
<1>10. StoryLeadsHere'
  <2> SUFFICES ASSUME Whole' PROVE States(base', Story')[Total'] = scopes'
    BY DEF StoryLeadsHere
  <2>1. eventsDropsTotal' = eventsDropsTotal BY <1>3 DEF Whole, Types
  <2>2. i = 1 /\ order = "kept" BY <1>4 DEF Whole
  <2>3. /\ n \in Nat /\ m \in Nat /\ i \in 1..m /\ Total = n + m /\ Total' = Total
        /\ Len(events') = n + 1 /\ eventsLastSeq' = eventsLastSeq + 1
        /\ \A k \in 1..n : Story'[k] = Story[k]
        /\ Story'[n + 1] = Story[n + i]
        /\ \A k \in 1..(m - 1) : Story'[n + 1 + k] = Story[n + (IF k < i THEN k ELSE k + 1)]
    BY <1>4, <2>1, EmitMoves
  <2> HIDE DEF n, m
  <2>4. ASSUME NEW k \in 1..Total PROVE Story'[k] = Story[k]
    <3>1. CASE k \in 1..n BY <2>3, <3>1
    <3>2. CASE k = n + 1 BY <2>2, <2>3, <3>2
    <3>3. CASE k > n + 1
      <4> DEFINE j == k - (n + 1)
      <4>1. j \in 1..(m - 1) /\ ~(j < i) /\ k = n + 1 + j /\ k = n + (j + 1)
        BY <2>2, <2>3, <3>3
      <4> HIDE DEF j
      <4>2. Story'[n + 1 + j] = Story[n + (j + 1)] BY <2>3, <4>1
      <4> QED BY <4>1, <4>2
    <3> QED BY <2>3, <3>1, <3>2, <3>3
  <2>5. Total \in Nat BY <2>3
  <2>6. Len(events) = eventsLastSeq
    <3>1. n + 1 = eventsLastSeq + 1 BY <2>3 DEF Whole
    <3> QED BY <2>3, <3>1 DEF Types, n
  <2>7. \A k \in 1..Total : Story'[k].scope \in Scopes => Story'[k].op # "warm"
    BY <2>3 DEF Whole
  <2>8. \A k \in 1..Total : Story[k].scope \in Scopes => Story[k].op # "warm"
    BY <2>4, <2>7
  <2>9. Whole BY <1>2, <2>1, <2>2, <2>6, <2>8 DEF Whole
  <2>10. States(base, Story)[Total] = scopes BY <2>9 DEF StoryLeadsHere
  <2>11. States(base, Story')[Total] = States(base, Story)[Total]
    <3>1. Total \in Nat /\ \A k \in 1..Total : Story'[k] = Story[k] BY <2>4, <2>5
    <3> QED BY <3>1, StatesAgree
  <2> QED BY <1>2, <2>3, <2>10, <2>11
<1> QED BY <1>7, <1>8, <1>9, <1>10

(***************************************************************************)
(* After a drain the log is shorter than its last seq until the next reset *)
(* and no story is whole.                                                  *)
(***************************************************************************)
LEMMA DrainShortens ==
  ASSUME Inv, NEW c \in Calls, NEW p \in Procs, Drain(p, c)
  PROVE  /\ IsSequence(events') /\ Len(events) \in Nat /\ Len(events') \in Nat
         /\ gone' \in Nat /\ Len(events') + gone' = Len(events) + gone
         /\ eventsLastSeq' \in Nat /\ Len(events') < eventsLastSeq'
<1> USE DEF Inv
<1> DEFINE D == {i \in DOMAIN events : events[i].seq <= c.seq}
           k == Cardinality(D)
           n == Len(events)
<1>1. /\ k > 0 /\ events' = SubSeq(events, k + 1, Len(events)) /\ gone' = gone + k
      /\ eventsLastSeq' = eventsLastSeq
  BY DEF Drain
<1>2. events \in Seq(Range(events)) /\ n \in Nat /\ DOMAIN events = 1..n
  BY DEF Types, IsSequence
<1>3. k \in Nat /\ k <= n
  <2>1. IsFiniteSet(1..n) /\ Cardinality(1..n) = n BY <1>2, FS_Interval
  <2>2. D \in SUBSET (1..n) BY <1>2
  <2>3. IsFiniteSet(D) /\ Cardinality(D) <= Cardinality(1..n) BY <2>1, <2>2, FS_Subset
  <2>4. Cardinality(D) \in Nat BY <2>3, FS_CardinalityType
  <2> QED BY <2>1, <2>3, <2>4
<1> HIDE DEF k
<1>4. IsSequence(events') /\ Len(events') = n - k
  <2>1. /\ SubSeq(events, k + 1, Len(events)) \in Seq(Range(events))
        /\ Len(SubSeq(events, k + 1, Len(events))) = Len(events) - k
    BY <1>2, <1>3, PrefixCut
  <2> QED BY <1>1, <2>1, SeqIsSequence
<1>5. n <= eventsLastSeq /\ eventsLastSeq \in Nat /\ gone \in Nat BY DEF Types
<1> HIDE DEF n, D
<1>6. n - k \in Nat /\ n - k < eventsLastSeq BY <1>1, <1>2, <1>3, <1>5
<1>7. gone' \in Nat /\ (n - k) + (gone + k) = n + gone BY <1>1, <1>2, <1>3, <1>5
<1> QED BY <1>1, <1>2, <1>4, <1>5, <1>6, <1>7 DEF n

LEMMA DrainInv ==
  ASSUME Inv, NEW c \in Calls, NEW p \in Procs, Drain(p, c)
  PROVE  Inv'
<1> USE DEF Inv
<1> DEFINE n == Len(events)
           nn == Len(events')
<1>1. /\ mode' = mode /\ scopes' = scopes /\ eventsLastSeq' = eventsLastSeq
      /\ eventsDropsTotal' = eventsDropsTotal /\ at' = at /\ pending' = pending
      /\ commits' = commits /\ queue' = queue /\ order' = order /\ base' = base
  BY DEF Drain, callerVars
<1>2. /\ IsSequence(events') /\ n \in Nat /\ nn \in Nat
      /\ gone' \in Nat /\ nn + gone' = n + gone
      /\ eventsLastSeq' \in Nat /\ nn < eventsLastSeq'
  BY DrainShortens
<1> HIDE DEF n, nn
<1>3. Types'
  <2>1. nn <= eventsLastSeq' BY <1>2
  <2> QED BY <1>1, <1>2, <2>1 DEF Types, nn
<1>4. QueueIsBusy' BY <1>1 DEF QueueIsBusy
<1>5. EventsAccounted'
  <2> DEFINE b == Cardinality(Busy)
             bb == Cardinality(Busy')
  <2>1. bb = b BY <1>1 DEF Busy
  <2>2. b \in Nat /\ gone \in Nat /\ eventsDropsTotal \in Nat /\ commits \in Nat
    BY BusyCounted DEF Types
  <2>3. mode # "off" => commits = n + gone + eventsDropsTotal + b
    BY DEF EventsAccounted, Busy, n
  <2> HIDE DEF b, bb
  <2>4. mode' # "off" => commits' = nn + gone' + eventsDropsTotal' + bb
    BY <1>1, <1>2, <2>1, <2>3
  <2> QED BY <2>4 DEF EventsAccounted, Busy, bb, nn
<1>6. StoryLeadsHere'
  <2>1. nn # eventsLastSeq' BY <1>2
  <2> QED BY <2>1 DEF StoryLeadsHere, Whole, nn
<1> QED BY <1>3, <1>4, <1>5, <1>6

(***************************************************************************)
(* A reset begins an empty story at what it leaves in the scopes, unless   *)
(* an event of a commit before it is still on its way.                     *)
(***************************************************************************)
LEMMA ResetInv ==
  ASSUME Inv, NEW c \in Calls, NEW p \in Procs, Reset(p, c)
  PROVE  Inv'
<1> USE DEF Inv
<1> DEFINE n == Len(events)
<1>1. /\ events' = <<>> /\ eventsLastSeq' = 0 /\ gone' = gone + n
      /\ mode' = mode /\ eventsDropsTotal' = eventsDropsTotal /\ at' = at /\ pending' = pending
      /\ commits' = commits /\ queue' = queue /\ base' = scopes'
      /\ order' = IF queue = <<>> THEN "kept" ELSE "crossed"
  BY DEF Reset, callerVars
<1>2. n \in Nat BY DEF Types, IsSequence
<1>3. IsSequence(events') /\ Len(events') = 0 BY <1>1 DEF IsSequence
<1>4. Types'
  <2>1. gone' \in Nat BY <1>1, <1>2 DEF Types
  <2> QED BY <1>1, <1>3, <2>1 DEF Types
<1>5. QueueIsBusy' BY <1>1 DEF QueueIsBusy
<1>6. EventsAccounted'
  <2> DEFINE b == Cardinality(Busy)
             bb == Cardinality(Busy')
  <2>1. bb = b BY <1>1 DEF Busy
  <2>2. b \in Nat /\ gone \in Nat /\ eventsDropsTotal \in Nat /\ commits \in Nat
    BY BusyCounted DEF Types
  <2>3. mode # "off" => commits = n + gone + eventsDropsTotal + b
    BY DEF EventsAccounted, Busy
  <2> HIDE DEF b, bb, n
  <2>4. 0 + (gone + n) = n + gone BY <1>2, <2>2
  <2>5. mode' # "off" => commits' = Len(events') + gone' + eventsDropsTotal' + bb
    BY <1>1, <1>3, <2>1, <2>3, <2>4
  <2> QED BY <2>5 DEF EventsAccounted, Busy, bb
<1>7. StoryLeadsHere'
  <2> SUFFICES ASSUME Whole' PROVE States(base', Story')[Total'] = scopes'
    BY DEF StoryLeadsHere
  <2>1. queue = <<>> BY <1>1 DEF Whole
  <2>2. Total' = 0 BY <1>1, <1>3, <2>1 DEF Total
  <2>3. States(base', Story')[0] = base' BY StatesEquation
  <2> QED BY <1>1, <2>2, <2>3
<1> QED BY <1>4, <1>5, <1>6, <1>7

(***************************************************************************)
(* Whatever leaves log, queue, scopes and the busy callers alone.          *)
(***************************************************************************)
LEMMA NothingTold ==
  ASSUME Inv, UNCHANGED <<mode, scopes, events, eventsLastSeq, eventsDropsTotal, pending,
                          commits, gone, queue, order, base>>,
         Busy' = Busy, at' \in [Procs -> {"idle", "emit", "append"}]
  PROVE  Inv'
<1> USE DEF Inv
<1>1. Types' BY DEF Types
<1>2. QueueIsBusy'
  <2>1. \A p \in Procs : at'[p] # "idle" <=> at[p] # "idle" BY DEF Busy
  <2> QED BY <2>1 DEF QueueIsBusy
<1>3. EventsAccounted'
  <2>1. Cardinality(Busy') = Cardinality(Busy) OBVIOUS
  <2>2. mode # "off" => commits = Len(events) + gone + eventsDropsTotal + Cardinality(Busy)
    BY DEF EventsAccounted, Busy
  <2>3. mode' # "off" =>
          commits' = Len(events') + gone' + eventsDropsTotal' + Cardinality(Busy')
    BY <2>1, <2>2
  <2> QED BY <2>3 DEF EventsAccounted, Busy
<1>4. StoryLeadsHere'
  <2>1. Story' = Story /\ Total' = Total BY DEF Story, Total
  <2> QED BY <2>1 DEF StoryLeadsHere, Whole
<1> QED BY <1>1, <1>2, <1>3, <1>4

-----------------------------------------------------------------------------
(* The theorems. *)

(***************************************************************************)
(* Inv holds throughout, for any callers, calls and configuration.         *)
(***************************************************************************)
THEOREM EventsInvariance == Spec => []Inv
<1>1. Init => Inv
  <2> SUFFICES ASSUME Init PROVE Inv OBVIOUS
  <2>1. Types BY EventsAssumption DEF Init, Types, IsSequence
  <2>2. QueueIsBusy BY DEF Init, QueueIsBusy, Range
  <2>3. EventsAccounted
    <3>1. {p \in Procs : at[p] # "idle"} = {} BY DEF Init
    <3>2. Cardinality({p \in Procs : at[p] # "idle"}) = 0 BY <3>1, FS_EmptySet
    <3> QED BY <3>2 DEF Init, EventsAccounted
  <2>4. StoryLeadsHere
    <3>1. Total = 0 BY DEF Init, Total
    <3>2. States(base, Story)[0] = base BY StatesEquation
    <3>3. base = scopes BY DEF Init
    <3> QED BY <3>1, <3>2, <3>3 DEF StoryLeadsHere
  <2> QED BY <2>1, <2>2, <2>3, <2>4 DEF Inv
<1>2. Inv /\ [Next]_vars => Inv'
  <2> SUFFICES ASSUME Inv, [Next]_vars PROVE Inv' OBVIOUS
  <2>0. at \in [Procs -> {"idle", "emit", "append"}] BY DEF Inv, Types
  <2>1. ASSUME NEW p \in Procs, emitLookup(p) PROVE Inv'
    <3>1. Busy' = Busy /\ at' \in [Procs -> {"idle", "emit", "append"}]
      BY <2>0, <2>1 DEF emitLookup, Busy
    <3>2. UNCHANGED <<mode, scopes, events, eventsLastSeq, eventsDropsTotal, pending,
                      commits, gone, queue, order, base>>
      BY <2>1 DEF emitLookup, history
    <3> QED BY <3>1, <3>2, NothingTold
  <2>2. ASSUME NEW p \in Procs, emitAppend(p) PROVE Inv' BY <2>2, EmitInv
  <2>3. ASSUME NEW p \in Procs, NEW c \in Calls, Miss(p, c) PROVE Inv'
    <3>1. Busy' = Busy /\ at' \in [Procs -> {"idle", "emit", "append"}]
      BY <2>0, <2>3 DEF Miss, Busy, callerVars
    <3>2. UNCHANGED <<mode, scopes, events, eventsLastSeq, eventsDropsTotal, pending,
                      commits, gone, queue, order, base>>
      BY <2>3 DEF Miss, history, callerVars
    <3> QED BY <3>1, <3>2, NothingTold
  <2>4. ASSUME NEW p \in Procs, NEW c \in Calls, Commit(p, c) PROVE Inv' BY <2>4, CommitInv
  <2>5. ASSUME NEW p \in Procs, NEW c \in Calls, Reset(p, c) PROVE Inv' BY <2>5, ResetInv
  <2>6. ASSUME NEW p \in Procs, NEW c \in Calls, AppendToEvents(p, c) PROVE Inv'
    BY <2>6, ClientEntryInv
  <2>7. ASSUME NEW p \in Procs, NEW c \in Calls, Drain(p, c) PROVE Inv' BY <2>7, DrainInv
  <2>8. CASE UNCHANGED vars
    <3>1. Busy' = Busy /\ at' \in [Procs -> {"idle", "emit", "append"}]
      BY <2>0, <2>8 DEF vars, Busy, callerVars
    <3>2. UNCHANGED <<mode, scopes, events, eventsLastSeq, eventsDropsTotal, pending,
                      commits, gone, queue, order, base>>
      BY <2>8 DEF vars, history, callerVars
    <3> QED BY <3>1, <3>2, NothingTold
  <2> QED BY <2>1, <2>2, <2>3, <2>4, <2>5, <2>6, <2>7, <2>8 DEF Next, Finished
<1> QED BY <1>1, <1>2, PTL DEF Spec

(***************************************************************************)
(* EventsAccounted: every commit is announced or counted as dropped, once. *)
(***************************************************************************)
THEOREM EveryEventIsAccounted == Spec => []EventsAccounted
<1>1. Inv => EventsAccounted BY DEF Inv
<1> QED BY <1>1, EventsInvariance, PTL

(***************************************************************************)
(* With nothing on its way, the story is the log.                          *)
(***************************************************************************)
LEMMA QuietStory ==
  ASSUME Inv, Quiet
  PROVE  /\ Len(events) \in Nat /\ DOMAIN events = 1..Len(events) /\ Total = Len(events)
         /\ \A i \in 1..Len(events) : Story[i] = events[i].evt
<1>1. IsSequence(events) /\ queue \in Seq(Procs) BY DEF Inv, Types, QueueIsBusy
<1>2. Len(events) \in Nat /\ DOMAIN events = 1..Len(events) BY <1>1 DEF IsSequence
<1>3. Len(queue) = 0
  <2>1. \A p \in Procs : p \notin Range(queue) BY DEF Quiet, Inv, QueueIsBusy
  <2>2. Len(queue) \in Nat /\ DOMAIN queue = 1..Len(queue) BY <1>1
  <2>3. \A i \in 1..Len(queue) : queue[i] \in Procs /\ queue[i] \in Range(queue)
    BY <1>1, <2>2 DEF Range
  <2>4. ~(Len(queue) > 0)
    <3>1. Len(queue) > 0 => 1 \in 1..Len(queue) BY <2>2
    <3> QED BY <2>1, <2>3, <3>1
  <2> QED BY <2>2, <2>4
<1>4. Total = Len(events) BY <1>2, <1>3 DEF Total
<1>5. \A i \in 1..Len(events) : StoryOf(events, queue, pending)[i] = events[i].evt
  BY <1>1, StoryParts
<1> QED BY <1>2, <1>4, <1>5 DEF Story

(***************************************************************************)
(* ReplayReconstructs: a complete log whose events kept the order of their *)
(* commits rebuilds the scopes from where its epoch began.                 *)
(***************************************************************************)
THEOREM ReplayAlwaysReconstructs == Spec => []ReplayReconstructs
<1>1. Inv => ReplayReconstructs
  <2> SUFFICES ASSUME Inv, Intact, order = "kept" PROVE Replay = scopes
    BY DEF ReplayReconstructs
  <2> DEFINE told == [i \in DOMAIN events |-> events[i].evt]
             n == Len(events)
  <2>1. /\ n \in Nat /\ DOMAIN events = 1..n /\ Total = n
        /\ \A i \in 1..n : Story[i] = events[i].evt
    BY QuietStory DEF Intact
  <2>2. \A i \in 1..n : Story[i] = told[i] BY <2>1
  <2>3. Whole
    <3>1. /\ mode = "full" /\ eventsDropsTotal = 0 /\ Len(events) = eventsLastSeq
          /\ \A i \in Log : events[i].evt.op # "warm"
      BY DEF Intact
    <3>2. \A i \in 1..n : events[i].evt.scope \in Scopes => events[i].evt.op # "warm"
      BY <2>1, <3>1 DEF Log
    <3>3. \A i \in 1..Total : Story[i].scope \in Scopes => Story[i].op # "warm"
      BY <2>1, <3>2
    <3> QED BY <3>1, <3>3 DEF Whole
  <2>4. States(base, Story)[n] = scopes BY <2>1, <2>3 DEF Inv, StoryLeadsHere
  <2> HIDE DEF told
  <2>5. States(base, told)[n] = States(base, Story)[n]
    <3>1. \A i \in 1..n : told[i] = Story[i] BY <2>2
    <3>2. n \in Nat BY <2>1
    <3> HIDE DEF n
    <3> QED BY <3>1, <3>2, StatesAgree
  <2>6. Replay = States(base, told)[n] BY DEF Replay, told
  <2> QED BY <2>4, <2>5, <2>6
<1> QED BY <1>1, EventsInvariance, PTL

-----------------------------------------------------------------------------
(* What the events of a scope say of its items, in whatever order they are. *)

IsAppend(e, s) == e.op = "append" /\ e.scope = s
IsAdd(e, s) == e.op = "counter_add" /\ e.scope = s

AddedIds(story, n, s) == {story[i].id : i \in {j \in 1..n : IsAdd(story[j], s)}}
AppendedIds(story, n, s) == {story[i].id : i \in {j \in 1..n : IsAppend(story[j], s)}}

Increments(story, n, s, id) == [i \in 1..n |-> Increment(story[i], s, id)]

\* Nothing was deleted: the seq of an item is its place.
Grown(sc) ==
    /\ sc \in Scope /\ sc.lastSeq = Len(sc.items)
    /\ \A k \in 1..Len(sc.items) : sc.items[k].seq = k
    /\ \A k, m \in 1..Len(sc.items) :
         sc.items[k].id = sc.items[m].id /\ sc.items[k].id # NoId => k = m

\* An append told of is there, and still says what it said unless a counter
\* was made of it.
AppendsFound(story, n, s, sc) ==
    \A i \in 1..n : IsAppend(story[i], s) =>
        /\ story[i].seq \in 1..Len(sc.items)
        /\ sc.items[story[i].seq].id = story[i].id
        /\ story[i].id \notin AddedIds(story, n, s) =>
             sc.items[story[i].seq].val = story[i].val

AppendsDiffer(story, n, s) ==
    \A i, j \in 1..n :
        IsAppend(story[i], s) /\ IsAppend(story[j], s) /\ story[i].seq = story[j].seq => i = j

ItemsTold(story, n, s, sc) ==
    \A k \in 1..Len(sc.items) : sc.items[k].id \notin AddedIds(story, n, s) =>
        \E i \in 1..n : IsAppend(story[i], s) /\ story[i].seq = k

AddsFound(story, n, s, sc) ==
    \A i \in 1..n : IsAdd(story[i], s) =>
        /\ story[i].val \in Int /\ story[i].id # NoId
        /\ \E k \in 1..Len(sc.items) : sc.items[k].id = story[i].id

AddsSumUp(story, n, s, sc) ==
    \A k \in 1..Len(sc.items) : sc.items[k].id \notin AppendedIds(story, n, s) =>
        sc.items[k].val = SumTo(Increments(story, n, s, sc.items[k].id))[n]

Carries(story, n, s, sc) ==
    /\ Grown(sc) /\ AppendsFound(story, n, s, sc) /\ AppendsDiffer(story, n, s)
    /\ ItemsTold(story, n, s, sc) /\ AddsFound(story, n, s, sc) /\ AddsSumUp(story, n, s, sc)

AddsOnly(story, n, s) ==
    \A i \in 1..n : story[i].scope = s => story[i].op \in {"append", "counter_add"}

Unbroken ==
    /\ mode = "full" /\ order # "crossed"
    /\ eventsDropsTotal = 0 /\ Len(events) = eventsLastSeq

\* Events of a scope that was empty and only grew carry all it holds, those
\* on their way included, in any order.
StoryCarries ==
    Unbroken => \A s \in Scopes :
        base[s] = Absent /\ AddsOnly(Story, Total, s) =>
            Carries(Story, Total, s, Content(scopes, s))

ScopesMapped == scopes = [s \in Scopes |-> scopes[s]]

CarryInv == ScopesMapped /\ StoryCarries

LEMMA SumsAgree ==
  ASSUME NEW f, NEW g, NEW n \in Nat, \A i \in 1..n : f[i] = g[i]
  PROVE  SumTo(g)[n] = SumTo(f)[n]
<1> DEFINE p == SumTo(g)
<1>1. p[0] = 0 BY SumToEquation
<1>2. ASSUME NEW i \in 1..n PROVE p[i] = p[i - 1] + f[i]
  <2>1. i - 1 \in Nat /\ (i - 1) + 1 = i OBVIOUS
  <2> QED BY <2>1, SumToEquation
<1> HIDE DEF p
<1>3. \A k \in 0..n : SumTo(f)[k] = p[k] BY <1>1, <1>2, SumToUnique
<1> QED BY <1>3 DEF p

LEMMA NothingAdded ==
  ASSUME NEW f, NEW n \in Nat, \A i \in 1..n : f[i] = 0
  PROVE  SumTo(f)[n] = 0
<1> DEFINE p == [k \in 0..n |-> 0]
<1>1. p[0] = 0 /\ p[n] = 0 OBVIOUS
<1>2. \A i \in 1..n : p[i] = p[i - 1] + f[i] OBVIOUS
<1> HIDE DEF p
<1> QED BY <1>1, <1>2, SumToUnique

IntAdds(story, n, s) == \A i \in 1..n : IsAdd(story[i], s) => story[i].val \in Int

LEMMA IncrementsAre ==
  ASSUME NEW story, NEW n \in Nat, NEW s, NEW id
  PROVE  /\ \A i \in 1..n : Increments(story, n, s, id)[i] = Increment(story[i], s, id)
         /\ IntAdds(story, n, s) =>
              \A i \in 1..n : Increments(story, n, s, id)[i] \in Int
<1>1. \A i \in 1..n : Increments(story, n, s, id)[i] = Increment(story[i], s, id)
  BY DEF Increments
<1>2. ASSUME IntAdds(story, n, s), NEW i \in 1..n PROVE Increment(story[i], s, id) \in Int
  BY <1>2 DEF IntAdds, Increment, IsAdd
<1> QED BY <1>1, <1>2

LEMMA SumIsInt ==
  ASSUME NEW story, NEW n \in Nat, NEW s, NEW id, IntAdds(story, n, s)
  PROVE  SumTo(Increments(story, n, s, id))[n] \in Int
<1> DEFINE f == Increments(story, n, s, id)
<1>1. \A i \in 1..n : f[i] \in Int BY IncrementsAre
<1> HIDE DEF f
<1>2. \A k \in 0..n : SumTo(f)[k] \in Int BY <1>1, SumToInt
<1>3. n \in 0..n OBVIOUS
<1> QED BY <1>2, <1>3 DEF f

\* t is story and one event more.
Extends(story, n, t) == \A i \in 1..n : t[i] = story[i]

(***************************************************************************)
(* One event more adds its increment.                                      *)
(***************************************************************************)
LEMMA SumsGrow ==
  ASSUME NEW story, NEW n \in Nat, NEW t, NEW s, Extends(story, n, t)
  PROVE  \A id : SumTo(Increments(t, n + 1, s, id))[n + 1] =
                  SumTo(Increments(story, n, s, id))[n] + Increment(t[n + 1], s, id)
<1> SUFFICES ASSUME NEW id
             PROVE  SumTo(Increments(t, n + 1, s, id))[n + 1] =
                      SumTo(Increments(story, n, s, id))[n] + Increment(t[n + 1], s, id)
  OBVIOUS
<1> DEFINE f == Increments(story, n, s, id)
           g == Increments(t, n + 1, s, id)
<1>1. \A i \in 1..n : f[i] = Increment(story[i], s, id) BY IncrementsAre
<1>2. \A i \in 1..(n + 1) : g[i] = Increment(t[i], s, id)
  <2>1. n + 1 \in Nat OBVIOUS
  <2> QED BY <2>1, IncrementsAre
<1>3. \A i \in 1..n : f[i] = g[i] BY <1>1, <1>2 DEF Extends
<1>4. g[n + 1] = Increment(t[n + 1], s, id) BY <1>2
<1> HIDE DEF f, g
<1>5. SumTo(g)[n] = SumTo(f)[n] BY <1>3, SumsAgree
<1>6. SumTo(g)[n + 1] = SumTo(g)[n] + g[n + 1] BY SumToEquation
<1> QED BY <1>4, <1>5, <1>6 DEF f, g

\* What is left of the first n of story when its k-th is taken out.
WithoutAt(story, n, k) == [i \in 1..(n - 1) |-> IF i < k THEN story[i] ELSE story[i + 1]]

LEMMA SumWithout ==
  ASSUME NEW story, NEW n \in Nat, NEW k \in 1..n, NEW s, NEW id, IntAdds(story, n, s)
  PROVE  SumTo(Increments(WithoutAt(story, n, k), n - 1, s, id))[n - 1] =
           SumTo(Increments(story, n, s, id))[n] - Increment(story[k], s, id)
<1> DEFINE f == Increments(story, n, s, id)
           w == WithoutAt(story, n, k)
           g == Increments(w, n - 1, s, id)
<1>1. /\ \A i \in 1..n : f[i] = Increment(story[i], s, id)
      /\ \A i \in 1..n : f[i] \in Int
  BY IncrementsAre
<1>2. n - 1 \in Nat OBVIOUS
<1>3. \A i \in 1..(n - 1) : w[i] = IF i < k THEN story[i] ELSE story[i + 1] BY DEF WithoutAt
<1> HIDE DEF w, f
<1>4. \A i \in 1..(n - 1) : g[i] = Increment(w[i], s, id) BY <1>2, IncrementsAre
<1> HIDE DEF g
<1>5. ASSUME NEW i \in 1..(n - 1) PROVE g[i] = IF i < k THEN f[i] ELSE f[i + 1]
  <2>1. i \in 1..n /\ i + 1 \in 1..n OBVIOUS
  <2> QED BY <1>1, <1>3, <1>4, <2>1
<1>6. SumTo(g)[n - 1] = SumTo(f)[n] - f[k] BY <1>1, <1>5, SumCut
<1> QED BY <1>1, <1>6 DEF f, g, w

(***************************************************************************)
(* An event that is moved adds what it added where it was.                 *)
(***************************************************************************)
LEMMA SumMoves ==
  ASSUME NEW story, NEW t, NEW n \in Nat, NEW k \in 1..n, NEW j \in 1..n, NEW s, NEW id,
         IntAdds(story, n, s), IntAdds(t, n, s),
         WithoutAt(t, n, j) = WithoutAt(story, n, k), t[j] = story[k]
  PROVE  SumTo(Increments(t, n, s, id))[n] = SumTo(Increments(story, n, s, id))[n]
<1> DEFINE w == WithoutAt(t, n, j)
           z == SumTo(Increments(w, n - 1, s, id))[n - 1]
           x == SumTo(Increments(t, n, s, id))[n]
           y == SumTo(Increments(story, n, s, id))[n]
           d == Increment(story[k], s, id)
<1>1. z = x - d BY SumWithout
<1>2. z = y - d
  <2>1. SumTo(Increments(WithoutAt(story, n, k), n - 1, s, id))[n - 1] = y - d BY SumWithout
  <2> QED BY <2>1
<1>3. x \in Int /\ y \in Int BY SumIsInt
<1>4. d \in Int BY DEF IntAdds, Increment, IsAdd
<1> HIDE DEF x, y, z, d
<1>5. x = y BY <1>1, <1>2, <1>3, <1>4
<1> QED BY <1>5 DEF x, y

\* t is story with the event t[j] put in.
InsertedAt(story, n, t, j) == \A i \in 1..n : story[i] = IF i < j THEN t[i] ELSE t[i + 1]

(***************************************************************************)
(* An event of another scope that is put in adds nothing.                  *)
(***************************************************************************)
LEMMA SumSkips ==
  ASSUME NEW story, NEW t, NEW n \in Nat, NEW j \in 1..(n + 1), NEW s, NEW id,
         IntAdds(t, n + 1, s), t[j].scope # s, InsertedAt(story, n, t, j)
  PROVE  SumTo(Increments(t, n + 1, s, id))[n + 1] = SumTo(Increments(story, n, s, id))[n]
<1> DEFINE w == WithoutAt(t, n + 1, j)
           x == SumTo(Increments(t, n + 1, s, id))[n + 1]
<1>1. n + 1 \in Nat /\ (n + 1) - 1 = n OBVIOUS
<1>2. SumTo(Increments(w, (n + 1) - 1, s, id))[(n + 1) - 1] = x - Increment(t[j], s, id)
  BY <1>1, SumWithout
<1>3. SumTo(Increments(w, n, s, id))[n] = x - Increment(t[j], s, id) BY <1>1, <1>2
<1>4. Increment(t[j], s, id) = 0 BY DEF Increment
<1>5. x \in Int BY <1>1, SumIsInt
<1>6. \A i \in 1..n : w[i] = story[i] BY <1>1 DEF WithoutAt, InsertedAt
<1> HIDE DEF w
<1>7. Increments(w, n, s, id) = Increments(story, n, s, id) BY <1>6 DEF Increments
<1> HIDE DEF x
<1>8. SumTo(Increments(story, n, s, id))[n] = x BY <1>3, <1>4, <1>5, <1>7
<1> QED BY <1>8 DEF x

-----------------------------------------------------------------------------
(* What the events carry, and the ways a story changes. *)

(***************************************************************************)
(* Only what it says of s matters, not where: f takes each event of s in t *)
(* to its place in story.                                                  *)
(***************************************************************************)
Rearranges(story, n, t, m, s, f) ==
    /\ \A i \in 1..m : t[i].scope = s => f[i] \in 1..n /\ story[f[i]] = t[i]
    /\ \A i, j \in 1..m : t[i].scope = s /\ t[j].scope = s /\ f[i] = f[j] => i = j
    /\ \A k \in 1..n : story[k].scope = s => \E i \in 1..m : t[i].scope = s /\ f[i] = k

SameSums(story, n, t, m, s) ==
    \A id : SumTo(Increments(t, m, s, id))[m] = SumTo(Increments(story, n, s, id))[n]

LEMMA RearrangedIds ==
  ASSUME NEW story, NEW n \in Nat, NEW t, NEW m \in Nat, NEW s, NEW f,
         Rearranges(story, n, t, m, s, f)
  PROVE  /\ AddedIds(t, m, s) = AddedIds(story, n, s)
         /\ AppendedIds(t, m, s) = AppendedIds(story, n, s)
         /\ AddsOnly(t, m, s) => AddsOnly(story, n, s)
<1>1. \A i \in 1..m : t[i].scope = s => f[i] \in 1..n /\ story[f[i]] = t[i] BY DEF Rearranges
<1>2. \A k \in 1..n : story[k].scope = s => \E i \in 1..m : t[i].scope = s /\ t[i] = story[k]
  BY DEF Rearranges
<1>3. AddedIds(t, m, s) = AddedIds(story, n, s)
  <2>1. ASSUME NEW x \in AddedIds(t, m, s) PROVE x \in AddedIds(story, n, s)
    <3>1. PICK i \in 1..m : IsAdd(t[i], s) /\ x = t[i].id BY DEF AddedIds
    <3>2. f[i] \in 1..n /\ story[f[i]] = t[i] BY <1>1, <3>1 DEF IsAdd
    <3> QED BY <3>1, <3>2 DEF AddedIds
  <2>2. ASSUME NEW x \in AddedIds(story, n, s) PROVE x \in AddedIds(t, m, s)
    <3>1. PICK k \in 1..n : IsAdd(story[k], s) /\ x = story[k].id BY DEF AddedIds
    <3>2. PICK i \in 1..m : t[i] = story[k] BY <1>2, <3>1 DEF IsAdd
    <3> QED BY <3>1, <3>2 DEF AddedIds
  <2> QED BY <2>1, <2>2
<1>4. AppendedIds(t, m, s) = AppendedIds(story, n, s)
  <2>1. ASSUME NEW x \in AppendedIds(t, m, s) PROVE x \in AppendedIds(story, n, s)
    <3>1. PICK i \in 1..m : IsAppend(t[i], s) /\ x = t[i].id BY DEF AppendedIds
    <3>2. f[i] \in 1..n /\ story[f[i]] = t[i] BY <1>1, <3>1 DEF IsAppend
    <3> QED BY <3>1, <3>2 DEF AppendedIds
  <2>2. ASSUME NEW x \in AppendedIds(story, n, s) PROVE x \in AppendedIds(t, m, s)
    <3>1. PICK k \in 1..n : IsAppend(story[k], s) /\ x = story[k].id BY DEF AppendedIds
    <3>2. PICK i \in 1..m : t[i] = story[k] BY <1>2, <3>1 DEF IsAppend
    <3> QED BY <3>1, <3>2 DEF AppendedIds
  <2> QED BY <2>1, <2>2
<1>5. ASSUME AddsOnly(t, m, s) PROVE AddsOnly(story, n, s)
  <2>1. ASSUME NEW k \in 1..n, story[k].scope = s
        PROVE  story[k].op \in {"append", "counter_add"}
    <3>1. PICK i \in 1..m : t[i].scope = s /\ t[i] = story[k] BY <1>2, <2>1
    <3> QED BY <1>5, <3>1 DEF AddsOnly
  <2> QED BY <2>1 DEF AddsOnly
<1> QED BY <1>3, <1>4, <1>5

LEMMA RearrangedCarries ==
  ASSUME NEW story, NEW n \in Nat, NEW t, NEW m \in Nat, NEW s, NEW f, NEW sc,
         Rearranges(story, n, t, m, s, f), SameSums(story, n, t, m, s),
         Carries(story, n, s, sc)
  PROVE  Carries(t, m, s, sc)
<1> USE DEF Carries
<1>1. \A i \in 1..m : t[i].scope = s => f[i] \in 1..n /\ story[f[i]] = t[i] BY DEF Rearranges
<1>2. \A i, j \in 1..m : t[i].scope = s /\ t[j].scope = s /\ f[i] = f[j] => i = j
  BY DEF Rearranges
<1>3. \A k \in 1..n : story[k].scope = s => \E i \in 1..m : t[i].scope = s /\ t[i] = story[k]
  BY DEF Rearranges
<1>4. /\ AddedIds(t, m, s) = AddedIds(story, n, s)
      /\ AppendedIds(t, m, s) = AppendedIds(story, n, s)
  BY RearrangedIds
<1>5. AppendsFound(t, m, s, sc)
  <2> SUFFICES ASSUME NEW i \in 1..m, IsAppend(t[i], s)
               PROVE  /\ t[i].seq \in 1..Len(sc.items)
                      /\ sc.items[t[i].seq].id = t[i].id
                      /\ t[i].id \notin AddedIds(t, m, s) => sc.items[t[i].seq].val = t[i].val
    BY DEF AppendsFound
  <2>1. f[i] \in 1..n /\ story[f[i]] = t[i] BY <1>1 DEF IsAppend
  <2> QED BY <1>4, <2>1 DEF AppendsFound
<1>6. AppendsDiffer(t, m, s)
  <2> SUFFICES ASSUME NEW i \in 1..m, NEW j \in 1..m, IsAppend(t[i], s), IsAppend(t[j], s),
                      t[i].seq = t[j].seq
               PROVE  i = j
    BY DEF AppendsDiffer
  <2>1. t[i].scope = s /\ t[j].scope = s BY DEF IsAppend
  <2>2. f[i] \in 1..n /\ story[f[i]] = t[i] /\ f[j] \in 1..n /\ story[f[j]] = t[j]
    BY <1>1, <2>1
  <2>3. f[i] = f[j] BY <2>2 DEF AppendsDiffer
  <2> QED BY <1>2, <2>1, <2>3
<1>7. ItemsTold(t, m, s, sc)
  <2> SUFFICES ASSUME NEW k \in 1..Len(sc.items), sc.items[k].id \notin AddedIds(t, m, s)
               PROVE  \E i \in 1..m : IsAppend(t[i], s) /\ t[i].seq = k
    BY DEF ItemsTold
  <2>1. PICK j \in 1..n : IsAppend(story[j], s) /\ story[j].seq = k BY <1>4 DEF ItemsTold
  <2>2. PICK i \in 1..m : t[i] = story[j] BY <1>3, <2>1 DEF IsAppend
  <2> QED BY <2>1, <2>2
<1>8. AddsFound(t, m, s, sc)
  <2> SUFFICES ASSUME NEW i \in 1..m, IsAdd(t[i], s)
               PROVE  /\ t[i].val \in Int /\ t[i].id # NoId
                      /\ \E k \in 1..Len(sc.items) : sc.items[k].id = t[i].id
    BY DEF AddsFound
  <2>1. f[i] \in 1..n /\ story[f[i]] = t[i] BY <1>1 DEF IsAdd
  <2> QED BY <2>1 DEF AddsFound
<1>9. AddsSumUp(t, m, s, sc) BY <1>4 DEF AddsSumUp, SameSums
<1> QED BY <1>5, <1>6, <1>7, <1>8, <1>9

LEMMA ExtendedIds ==
  ASSUME NEW story, NEW n \in Nat, NEW t, NEW s, Extends(story, n, t)
  PROVE  /\ AddedIds(t, n + 1, s) =
              AddedIds(story, n, s) \cup (IF IsAdd(t[n + 1], s) THEN {t[n + 1].id} ELSE {})
         /\ AppendedIds(t, n + 1, s) =
              AppendedIds(story, n, s) \cup (IF IsAppend(t[n + 1], s) THEN {t[n + 1].id} ELSE {})
         /\ AddsOnly(t, n + 1, s) => AddsOnly(story, n, s)
<1>1. \A i \in 1..(n + 1) : i \in 1..n \/ i = n + 1 OBVIOUS
<1>2. \A i \in 1..n : i \in 1..(n + 1) OBVIOUS
<1>3. n + 1 \in 1..(n + 1) OBVIOUS
<1>4. \A i \in 1..n : t[i] = story[i] BY DEF Extends
<1>5. AddedIds(t, n + 1, s) =
        AddedIds(story, n, s) \cup (IF IsAdd(t[n + 1], s) THEN {t[n + 1].id} ELSE {})
  BY <1>1, <1>2, <1>3, <1>4 DEF AddedIds
<1>6. AppendedIds(t, n + 1, s) =
        AppendedIds(story, n, s) \cup (IF IsAppend(t[n + 1], s) THEN {t[n + 1].id} ELSE {})
  BY <1>1, <1>2, <1>3, <1>4 DEF AppendedIds
<1>7. AddsOnly(t, n + 1, s) => AddsOnly(story, n, s) BY <1>2, <1>4 DEF AddsOnly
<1> QED BY <1>5, <1>6, <1>7

\* sc2 is sc and the item x, with the id and the payload of the event e.
Lengthens(sc, x, sc2, e) ==
    /\ sc2 \in Scope /\ sc2.lastSeq = Len(sc2.items)
    /\ Len(sc2.items) = Len(sc.items) + 1 /\ sc2.items[Len(sc.items) + 1] = x
    /\ \A k \in 1..Len(sc.items) : sc2.items[k] = sc.items[k]
    /\ x.seq = Len(sc.items) + 1 /\ x.id = e.id /\ x.val = e.val
    /\ e.id # NoId => \A k \in 1..Len(sc.items) : sc.items[k].id # e.id

LEMMA LongerIsGrown ==
  ASSUME NEW sc, NEW x, NEW sc2, NEW e, Grown(sc), Lengthens(sc, x, sc2, e)
  PROVE  Grown(sc2) /\ Len(sc.items) \in Nat
<1> USE DEF Grown, Lengthens
<1>1. Len(sc.items) \in Nat BY DEF Scope
<1>2. \A k \in 1..Len(sc2.items) : k \in 1..Len(sc.items) \/ k = Len(sc.items) + 1 BY <1>1
<1>3. \A k \in 1..Len(sc2.items) : sc2.items[k].seq = k BY <1>2
<1>4. ASSUME NEW k \in 1..Len(sc2.items), NEW m \in 1..Len(sc2.items),
             sc2.items[k].id = sc2.items[m].id, sc2.items[k].id # NoId
      PROVE  k = m
  <2>1. k \in 1..Len(sc.items) \/ k = Len(sc.items) + 1 BY <1>2
  <2>2. m \in 1..Len(sc.items) \/ m = Len(sc.items) + 1 BY <1>2
  <2>3. CASE k \in 1..Len(sc.items) /\ m \in 1..Len(sc.items) BY <1>4, <2>3
  <2>4. CASE k = Len(sc.items) + 1 /\ m \in 1..Len(sc.items) BY <1>4, <2>4
  <2>5. CASE k \in 1..Len(sc.items) /\ m = Len(sc.items) + 1 BY <1>4, <2>5
  <2> QED BY <2>1, <2>2, <2>3, <2>4, <2>5
<1> QED BY <1>1, <1>3, <1>4

(***************************************************************************)
(* An append tells of the item it leaves.                                  *)
(***************************************************************************)
LEMMA AppendCarries ==
  ASSUME NEW story, NEW n \in Nat, NEW t, NEW s, NEW sc, NEW x, NEW sc2,
         Carries(story, n, s, sc), Extends(story, n, t),
         Lengthens(sc, x, sc2, t[n + 1]), IsAppend(t[n + 1], s), t[n + 1].seq = Len(sc.items) + 1
  PROVE  Carries(t, n + 1, s, sc2)
<1> DEFINE e == t[n + 1]
           w == Len(sc.items)
<1> USE DEF Carries
<1>1. Grown(sc2) /\ w \in Nat BY LongerIsGrown
<1>2. /\ Len(sc2.items) = w + 1 /\ sc2.items[w + 1] = x
      /\ \A k \in 1..w : sc2.items[k] = sc.items[k]
      /\ x.id = e.id /\ x.val = e.val
  BY DEF Lengthens
<1>3. ~IsAdd(e, s) BY DEF IsAdd, IsAppend
<1>4. /\ AddedIds(t, n + 1, s) = AddedIds(story, n, s)
      /\ AppendedIds(t, n + 1, s) = AppendedIds(story, n, s) \cup {e.id}
  <2>1. AddedIds(t, n + 1, s) =
          AddedIds(story, n, s) \cup (IF IsAdd(t[n + 1], s) THEN {t[n + 1].id} ELSE {})
    BY ExtendedIds
  <2>2. AppendedIds(t, n + 1, s) =
          AppendedIds(story, n, s) \cup (IF IsAppend(t[n + 1], s) THEN {t[n + 1].id} ELSE {})
    BY ExtendedIds
  <2> QED BY <1>3, <2>1, <2>2
<1>5. /\ \A i \in 1..(n + 1) : (i \in 1..n /\ t[i] = story[i]) \/ i = n + 1
      /\ \A i \in 1..n : i \in 1..(n + 1) /\ t[i] = story[i]
      /\ n + 1 \in 1..(n + 1)
  BY DEF Extends
<1>6. /\ \A k \in 1..(w + 1) : k \in 1..w \/ k = w + 1
      /\ \A k \in 1..w : k \in 1..(w + 1) /\ k # w + 1
      /\ w + 1 \in 1..(w + 1)
  BY <1>1
<1>7. IsAppend(e, s) /\ e.seq = w + 1 OBVIOUS
<1> HIDE DEF e, w
<1>8. \A i \in 1..n : IsAppend(story[i], s) => story[i].seq \in 1..w
  BY DEF AppendsFound, w
<1>9. AppendsFound(t, n + 1, s, sc2)
  <2> SUFFICES ASSUME NEW i \in 1..(n + 1), IsAppend(t[i], s)
               PROVE  /\ t[i].seq \in 1..Len(sc2.items)
                      /\ sc2.items[t[i].seq].id = t[i].id
                      /\ t[i].id \notin AddedIds(t, n + 1, s) => sc2.items[t[i].seq].val = t[i].val
    BY DEF AppendsFound
  <2>1. CASE i \in 1..n /\ t[i] = story[i]
    <3> DEFINE q == story[i].seq
    <3>1. /\ q \in 1..w /\ sc.items[q].id = story[i].id
          /\ story[i].id \notin AddedIds(story, n, s) => sc.items[q].val = story[i].val
      BY <2>1 DEF AppendsFound, w
    <3> QED BY <1>2, <1>4, <1>6, <2>1, <3>1
  <2>2. CASE i = n + 1 BY <1>2, <1>6, <1>7, <2>2 DEF e
  <2> QED BY <1>5, <2>1, <2>2
<1>10. AppendsDiffer(t, n + 1, s)
  <2> SUFFICES ASSUME NEW i \in 1..(n + 1), NEW j \in 1..(n + 1),
                      IsAppend(t[i], s), IsAppend(t[j], s), t[i].seq = t[j].seq
               PROVE  i = j
    BY DEF AppendsDiffer
  <2>1. CASE i \in 1..n /\ t[i] = story[i] /\ j \in 1..n /\ t[j] = story[j]
    BY <2>1 DEF AppendsDiffer
  <2>2. CASE i \in 1..n /\ t[i] = story[i] /\ j = n + 1
    BY <1>6, <1>7, <1>8, <2>2 DEF e
  <2>3. CASE i = n + 1 /\ j \in 1..n /\ t[j] = story[j]
    BY <1>6, <1>7, <1>8, <2>3 DEF e
  <2> QED BY <1>5, <2>1, <2>2, <2>3
<1>11. ItemsTold(t, n + 1, s, sc2)
  <2> SUFFICES ASSUME NEW k \in 1..(w + 1), sc2.items[k].id \notin AddedIds(t, n + 1, s)
               PROVE  \E i \in 1..(n + 1) : IsAppend(t[i], s) /\ t[i].seq = k
    BY <1>2 DEF ItemsTold
  <2>1. CASE k \in 1..w
    <3>1. sc.items[k].id \notin AddedIds(story, n, s) BY <1>2, <1>4, <2>1
    <3>2. PICK i \in 1..n : IsAppend(story[i], s) /\ story[i].seq = k
      BY <2>1, <3>1 DEF ItemsTold, w
    <3> QED BY <1>5, <3>2
  <2>2. CASE k = w + 1 BY <1>5, <1>7, <2>2 DEF e
  <2> QED BY <1>6, <2>1, <2>2
<1>12. AddsFound(t, n + 1, s, sc2)
  <2> SUFFICES ASSUME NEW i \in 1..(n + 1), IsAdd(t[i], s)
               PROVE  /\ t[i].val \in Int /\ t[i].id # NoId
                      /\ \E k \in 1..(w + 1) : sc2.items[k].id = t[i].id
    BY <1>2 DEF AddsFound
  <2>1. i \in 1..n /\ t[i] = story[i] BY <1>3, <1>5 DEF e
  <2>2. t[i].val \in Int /\ t[i].id # NoId BY <2>1 DEF AddsFound
  <2>3. PICK k \in 1..w : sc.items[k].id = story[i].id BY <2>1 DEF AddsFound, w
  <2> QED BY <1>2, <1>6, <2>1, <2>2, <2>3
<1>13. AddsSumUp(t, n + 1, s, sc2)
  <2> SUFFICES ASSUME NEW k \in 1..(w + 1), sc2.items[k].id \notin AppendedIds(t, n + 1, s)
               PROVE  sc2.items[k].val =
                        SumTo(Increments(t, n + 1, s, sc2.items[k].id))[n + 1]
    BY <1>2 DEF AddsSumUp
  <2>1. sc2.items[k].id \notin AppendedIds(story, n, s) /\ sc2.items[k].id # e.id BY <1>4
  <2>2. k \in 1..w /\ sc2.items[k] = sc.items[k] BY <1>2, <1>6, <2>1
  <2> DEFINE id == sc.items[k].id
             sum == SumTo(Increments(story, n, s, id))[n]
  <2>3. sc.items[k].val = sum BY <2>1, <2>2 DEF AddsSumUp, w
  <2>4. sum \in Int
    <3>1. IntAdds(story, n, s) BY DEF AddsFound, IntAdds
    <3> QED BY <3>1, SumIsInt
  <2>5. SumTo(Increments(t, n + 1, s, id))[n + 1] = sum + Increment(t[n + 1], s, id)
    BY SumsGrow
  <2>6. Increment(t[n + 1], s, id) = 0 BY <1>3 DEF Increment, IsAdd, e
  <2> HIDE DEF sum
  <2> QED BY <2>2, <2>3, <2>4, <2>5, <2>6
<1> QED BY <1>1, <1>9, <1>10, <1>11, <1>12, <1>13

\* sc2 is sc, but for the item e.id: made, or overwritten.
Counts(sc, sc2, e) ==
    /\ Grown(sc2) /\ Len(sc.items) <= Len(sc2.items)
    /\ \A k \in 1..Len(sc.items) :
         /\ sc2.items[k].id = sc.items[k].id
         /\ sc.items[k].id # e.id => sc2.items[k].val = sc.items[k].val
    /\ \A k \in 1..Len(sc2.items) : k \in 1..Len(sc.items) \/ sc2.items[k].id = e.id
    /\ \E k \in 1..Len(sc2.items) : sc2.items[k].id = e.id

\* The counter e.id is what the story added up to, and what e adds.
CountsTo(sc2, e, sum) ==
    \A k \in 1..Len(sc2.items) : sc2.items[k].id = e.id => sc2.items[k].val = sum + e.val

(***************************************************************************)
(* A counter_add tells of the counter it leaves.                           *)
(***************************************************************************)
LEMMA CounterCarries ==
  ASSUME NEW story, NEW n \in Nat, NEW t, NEW s, NEW sc, NEW sc2,
         Carries(story, n, s, sc), Extends(story, n, t), IsAdd(t[n + 1], s),
         t[n + 1].val \in Int, t[n + 1].id # NoId, Counts(sc, sc2, t[n + 1]),
         t[n + 1].id \notin AppendedIds(story, n, s) =>
           CountsTo(sc2, t[n + 1], SumTo(Increments(story, n, s, t[n + 1].id))[n])
  PROVE  Carries(t, n + 1, s, sc2)
<1> DEFINE e == t[n + 1]
           w == Len(sc.items)
           z == Len(sc2.items)
<1> USE DEF Carries
<1>1. Grown(sc2) /\ w \in Nat /\ z \in Nat /\ w <= z BY DEF Counts, Grown, Scope
<1>2. /\ \A k \in 1..w : /\ sc2.items[k].id = sc.items[k].id
                         /\ sc.items[k].id # e.id => sc2.items[k].val = sc.items[k].val
      /\ \A k \in 1..z : k \in 1..w \/ sc2.items[k].id = e.id
      /\ \E k \in 1..z : sc2.items[k].id = e.id
  BY DEF Counts
<1>3. ~IsAppend(e, s) BY DEF IsAdd, IsAppend
<1>4. /\ AddedIds(t, n + 1, s) = AddedIds(story, n, s) \cup {e.id}
      /\ AppendedIds(t, n + 1, s) = AppendedIds(story, n, s)
  <2>1. AddedIds(t, n + 1, s) =
          AddedIds(story, n, s) \cup (IF IsAdd(t[n + 1], s) THEN {t[n + 1].id} ELSE {})
    BY ExtendedIds
  <2>2. AppendedIds(t, n + 1, s) =
          AppendedIds(story, n, s) \cup (IF IsAppend(t[n + 1], s) THEN {t[n + 1].id} ELSE {})
    BY ExtendedIds
  <2> QED BY <1>3, <2>1, <2>2
<1>5. /\ \A i \in 1..(n + 1) : (i \in 1..n /\ t[i] = story[i]) \/ i = n + 1
      /\ \A i \in 1..n : i \in 1..(n + 1) /\ t[i] = story[i]
      /\ n + 1 \in 1..(n + 1)
  BY DEF Extends
<1>6. \A k \in 1..w : k \in 1..z BY <1>1
<1>7. /\ IsAdd(e, s) /\ e.val \in Int /\ e.id # NoId
      /\ e.id \notin AppendedIds(story, n, s) =>
           CountsTo(sc2, e, SumTo(Increments(story, n, s, e.id))[n])
  OBVIOUS
<1>8. \A id : SumTo(Increments(t, n + 1, s, id))[n + 1] =
               SumTo(Increments(story, n, s, id))[n] + Increment(t[n + 1], s, id)
  BY SumsGrow
<1> HIDE DEF e, w, z
<1>9. AppendsFound(t, n + 1, s, sc2)
  <2> SUFFICES ASSUME NEW i \in 1..(n + 1), IsAppend(t[i], s)
               PROVE  /\ t[i].seq \in 1..z
                      /\ sc2.items[t[i].seq].id = t[i].id
                      /\ t[i].id \notin AddedIds(t, n + 1, s) => sc2.items[t[i].seq].val = t[i].val
    BY DEF AppendsFound, z
  <2>1. i \in 1..n /\ t[i] = story[i] BY <1>3, <1>5 DEF e
  <2> DEFINE q == story[i].seq
  <2>2. /\ q \in 1..w /\ sc.items[q].id = story[i].id
        /\ story[i].id \notin AddedIds(story, n, s) => sc.items[q].val = story[i].val
    BY <2>1 DEF AppendsFound, w
  <2> QED BY <1>2, <1>4, <1>6, <2>1, <2>2
<1>10. AppendsDiffer(t, n + 1, s)
  <2> SUFFICES ASSUME NEW i \in 1..(n + 1), NEW j \in 1..(n + 1),
                      IsAppend(t[i], s), IsAppend(t[j], s), t[i].seq = t[j].seq
               PROVE  i = j
    BY DEF AppendsDiffer
  <2>1. i \in 1..n /\ t[i] = story[i] /\ j \in 1..n /\ t[j] = story[j] BY <1>3, <1>5 DEF e
  <2> QED BY <2>1 DEF AppendsDiffer
<1>11. ItemsTold(t, n + 1, s, sc2)
  <2> SUFFICES ASSUME NEW k \in 1..z, sc2.items[k].id \notin AddedIds(t, n + 1, s)
               PROVE  \E i \in 1..(n + 1) : IsAppend(t[i], s) /\ t[i].seq = k
    BY DEF ItemsTold, z
  <2>1. k \in 1..w /\ sc.items[k].id \notin AddedIds(story, n, s) BY <1>2, <1>4
  <2>2. PICK i \in 1..n : IsAppend(story[i], s) /\ story[i].seq = k
    BY <2>1 DEF ItemsTold, w
  <2> QED BY <1>5, <2>2
<1>12. AddsFound(t, n + 1, s, sc2)
  <2> SUFFICES ASSUME NEW i \in 1..(n + 1), IsAdd(t[i], s)
               PROVE  /\ t[i].val \in Int /\ t[i].id # NoId
                      /\ \E k \in 1..z : sc2.items[k].id = t[i].id
    BY DEF AddsFound, z
  <2>1. CASE i \in 1..n /\ t[i] = story[i]
    <3>1. t[i].val \in Int /\ t[i].id # NoId BY <2>1 DEF AddsFound
    <3>2. PICK k \in 1..w : sc.items[k].id = story[i].id BY <2>1 DEF AddsFound, w
    <3> QED BY <1>2, <1>6, <2>1, <3>1, <3>2
  <2>2. CASE i = n + 1 BY <1>2, <1>7, <2>2 DEF e
  <2> QED BY <1>5, <2>1, <2>2
<1>13. AddsSumUp(t, n + 1, s, sc2)
  <2> SUFFICES ASSUME NEW k \in 1..z, sc2.items[k].id \notin AppendedIds(t, n + 1, s)
               PROVE  sc2.items[k].val =
                        SumTo(Increments(t, n + 1, s, sc2.items[k].id))[n + 1]
    BY DEF AddsSumUp, z
  <2> DEFINE id == sc2.items[k].id
             sum == SumTo(Increments(story, n, s, id))[n]
  <2>1. id \notin AppendedIds(story, n, s) BY <1>4
  <2>2. SumTo(Increments(t, n + 1, s, id))[n + 1] = sum + Increment(t[n + 1], s, id) BY <1>8
  <2>3. CASE id = e.id
    <3>1. sc2.items[k].val = SumTo(Increments(story, n, s, e.id))[n] + e.val
      BY <1>7, <2>1, <2>3 DEF CountsTo, z
    <3>2. Increment(t[n + 1], s, id) = e.val BY <1>7, <2>3 DEF Increment, IsAdd, e
    <3> QED BY <2>2, <2>3, <3>1, <3>2
  <2>4. CASE id # e.id
    <3>1. k \in 1..w /\ sc.items[k].id = id /\ sc2.items[k].val = sc.items[k].val
      BY <1>2, <2>4
    <3>2. sc.items[k].val = sum BY <2>1, <3>1 DEF AddsSumUp, w
    <3>3. sum \in Int
      <4>1. IntAdds(story, n, s) BY DEF AddsFound, IntAdds
      <4> QED BY <4>1, SumIsInt
    <3>4. Increment(t[n + 1], s, id) = 0 BY <2>4 DEF Increment, e
    <3> HIDE DEF sum
    <3> QED BY <2>2, <3>1, <3>2, <3>3, <3>4
  <2> QED BY <2>3, <2>4
<1> QED BY <1>1, <1>9, <1>10, <1>11, <1>12, <1>13

-----------------------------------------------------------------------------
(* What the calls of an only growing scope leave in it. *)

LEMMA InsertLengthens ==
  ASSUME NEW sc, Grown(sc), NEW c \in Calls, NEW b \in Nat, c.val \in Payloads,
         NEW e, e.id = c.id, e.val = c.val,
         c.id # NoId => \A k \in 1..Len(sc.items) : sc.items[k].id # c.id
  PROVE  \E x : Lengthens(sc, x, insertNewItem(sc, c, b), e)
<1> DEFINE I == [seq : Nat, id : {d.id : d \in Calls}, val : Payloads, bytes : Nat]
           w == Len(sc.items)
           x == [seq |-> sc.lastSeq + 1, id |-> c.id, val |-> c.val, bytes |-> b]
           sc2 == insertNewItem(sc, c, b)
<1>1. sc.items \in Seq(I) /\ sc.lastSeq = w /\ w \in Nat BY DEF Grown, Scope
<1>2. x \in I /\ x.seq = w + 1 /\ x.id = c.id /\ x.val = c.val
  <2>1. w + 1 \in Nat BY <1>1
  <2> QED BY <1>1, <2>1
<1>3. sc2 = [items |-> Append(sc.items, x), lastSeq |-> w + 1] BY <1>1 DEF insertNewItem
<1> HIDE DEF I, x, w, sc2
<1>4. /\ Append(sc.items, x) \in Seq(I) /\ Len(Append(sc.items, x)) = w + 1
      /\ Append(sc.items, x)[w + 1] = x
      /\ \A k \in 1..w : Append(sc.items, x)[k] = sc.items[k]
  BY <1>1, <1>2 DEF w
<1>5. /\ sc2 \in Scope /\ sc2.lastSeq = w + 1 /\ sc2.items = Append(sc.items, x)
  BY <1>1, <1>3, <1>4 DEF Scope, I
<1>6. Lengthens(sc, x, sc2, e) BY <1>2, <1>4, <1>5 DEF Lengthens, w
<1> QED BY <1>6 DEF sc2

LEMMA LongerCounts ==
  ASSUME NEW sc, NEW x, NEW sc2, NEW e, Grown(sc), Lengthens(sc, x, sc2, e)
  PROVE  Counts(sc, sc2, e)
<1> DEFINE w == Len(sc.items)
<1>1. Grown(sc2) /\ w \in Nat BY LongerIsGrown
<1>2. /\ Len(sc2.items) = w + 1 /\ sc2.items[w + 1] = x /\ x.id = e.id
      /\ \A k \in 1..w : sc2.items[k] = sc.items[k]
  BY DEF Lengthens
<1>3. /\ w <= w + 1 /\ w + 1 \in 1..(w + 1) /\ \A k \in 1..(w + 1) : k \in 1..w \/ k = w + 1
  BY <1>1
<1> QED BY <1>1, <1>2, <1>3 DEF Counts

(***************************************************************************)
(* A counter that did not exist: nothing told so far was added to it.      *)
(***************************************************************************)
LEMMA NewCounterCarries ==
  ASSUME NEW story, NEW n \in Nat, NEW t, NEW s, NEW sc, NEW x, NEW sc2,
         Carries(story, n, s, sc), Extends(story, n, t), IsAdd(t[n + 1], s),
         t[n + 1].val \in Int, t[n + 1].id # NoId, Lengthens(sc, x, sc2, t[n + 1])
  PROVE  Carries(t, n + 1, s, sc2)
<1> DEFINE e == t[n + 1]
           w == Len(sc.items)
           f == Increments(story, n, s, e.id)
<1>1. Counts(sc, sc2, e) BY LongerCounts DEF Carries
<1>2. SumTo(f)[n] = 0
  <2>1. \A k \in 1..w : sc.items[k].id # e.id BY DEF Lengthens
  <2>2. ASSUME NEW i \in 1..n PROVE f[i] = 0
    <3>1. IsAdd(story[i], s) => story[i].id # e.id BY <2>1 DEF Carries, AddsFound
    <3>2. Increment(story[i], s, e.id) = 0 BY <3>1 DEF Increment, IsAdd
    <3>3. f[i] = Increment(story[i], s, e.id) BY IncrementsAre
    <3> QED BY <3>2, <3>3
  <2> HIDE DEF f
  <2> QED BY <2>2, NothingAdded
<1>3. CountsTo(sc2, e, SumTo(f)[n])
  <2>1. /\ Len(sc2.items) = w + 1 /\ sc2.items[w + 1] = x /\ x.id = e.id /\ x.val = e.val
        /\ \A k \in 1..w : sc2.items[k] = sc.items[k] /\ sc.items[k].id # e.id
    BY DEF Lengthens
  <2>2. w \in Nat BY LongerIsGrown DEF Carries
  <2>3. \A k \in 1..(w + 1) : k \in 1..w \/ k = w + 1 BY <2>2
  <2>4. \A k \in 1..(w + 1) : sc2.items[k].id = e.id => sc2.items[k].val = e.val
    BY <2>1, <2>3
  <2>5. e.val \in Int OBVIOUS
  <2> HIDE DEF e, f
  <2>6. SumTo(f)[n] + e.val = e.val BY <1>2, <2>5
  <2> QED BY <2>1, <2>4, <2>6 DEF CountsTo
<1> QED BY <1>1, <1>3, CounterCarries

LEMMA ReplaceCounts ==
  ASSUME NEW sc, Grown(sc), NEW i \in 1..Len(sc.items), NEW v \in Int, NEW b \in Nat,
         NEW e, sc.items[i].id = e.id, e.id # NoId
  PROVE  /\ Counts(sc, replaceItem(sc, i, v, b), e)
         /\ \A k \in 1..Len(replaceItem(sc, i, v, b).items) :
              replaceItem(sc, i, v, b).items[k].id = e.id =>
                replaceItem(sc, i, v, b).items[k].val = v
<1> DEFINE I == [seq : Nat, id : {d.id : d \in Calls}, val : Payloads, bytes : Nat]
           w == Len(sc.items)
           sc2 == replaceItem(sc, i, v, b)
           y == [[sc.items[i] EXCEPT !.val = v] EXCEPT !.bytes = b]
           items2 == [sc.items EXCEPT ![i] = y]
<1>1. sc.items \in Seq(I) /\ w \in Nat /\ sc \in Scope /\ sc.lastSeq = w BY DEF Grown, Scope
<1>2. sc.items[i] \in I
  <2> HIDE DEF I
  <2> QED BY <1>1
<1>3. y \in I /\ y.seq = sc.items[i].seq /\ y.id = e.id /\ y.val = v
  <2>1. v \in Payloads BY DEF Payloads
  <2> QED BY <1>2, <2>1
<1>4. sc2 = [sc EXCEPT !.items = items2]
  <2>1. sc2 = [sc EXCEPT !.items = [[sc.items EXCEPT ![i] = [sc.items[i] EXCEPT !.val = v]]
                                      EXCEPT ![i] = [[sc.items EXCEPT ![i] = [sc.items[i] EXCEPT !.val = v]][i] EXCEPT !.bytes = b]]]
    BY <1>1 DEF replaceItem, Scope
  <2> QED BY <1>1, <2>1
<1> HIDE DEF y, I
<1>5. /\ items2 \in Seq(I) /\ Len(items2) = w /\ items2[i] = y
      /\ \A k \in 1..w : k # i => items2[k] = sc.items[k]
  BY <1>1, <1>3
<1> HIDE DEF items2, sc2, w
<1>6. sc2.items = items2 /\ sc2.lastSeq = w /\ sc2 \in Scope BY <1>1, <1>4, <1>5 DEF Scope, I
<1>7. /\ \A k \in 1..w : sc.items[k].seq = k
      /\ \A k, m \in 1..w : sc.items[k].id = sc.items[m].id /\ sc.items[k].id # NoId => k = m
      /\ i \in 1..w
  BY DEF Grown, w
<1>8. \A k \in 1..w : items2[k].id = sc.items[k].id /\ items2[k].seq = sc.items[k].seq
  BY <1>3, <1>5
<1>9. Grown(sc2)
  <2>1. Len(sc2.items) = w /\ sc2 \in Scope /\ sc2.lastSeq = w BY <1>5, <1>6
  <2>2. \A k \in 1..w : items2[k].seq = k BY <1>7, <1>8
  <2>3. \A k, m \in 1..w : items2[k].id = items2[m].id /\ items2[k].id # NoId => k = m
    BY <1>7, <1>8
  <2>4. \A k \in 1..w : sc2.items[k].seq = k BY <1>6, <2>2
  <2>5. \A k, m \in 1..w : sc2.items[k].id = sc2.items[m].id /\ sc2.items[k].id # NoId => k = m
    BY <1>6, <2>3
  <2> QED BY <2>1, <2>4, <2>5 DEF Grown
<1>10. \A k \in 1..w : sc.items[k].id # e.id => items2[k].val = sc.items[k].val BY <1>5
<1>11. \A k \in 1..w : items2[k].id = e.id => items2[k].val = v BY <1>3, <1>5, <1>7, <1>8
<1>12. Counts(sc, sc2, e) BY <1>1, <1>3, <1>5, <1>6, <1>7, <1>8, <1>9, <1>10 DEF Counts, w
<1> QED BY <1>5, <1>6, <1>11, <1>12 DEF sc2

LEMMA AddressedById ==
  ASSUME NEW sc, Grown(sc), NEW c, c.op \in {"append", "counter_add"}
  PROVE  /\ Addressed(sc, c) = {} /\ c.id # NoId =>
              \A k \in 1..Len(sc.items) : sc.items[k].id # c.id
         /\ \A k \in Addressed(sc, c) :
              k \in 1..Len(sc.items) /\ c.id # NoId /\ sc.items[k].id = c.id
<1>1. DOMAIN sc.items = 1..Len(sc.items) BY DEF Grown, Scope
<1> QED BY <1>1 DEF Addressed

LEMMA AddressedVal ==
  ASSUME NEW sc, Grown(sc), NEW id, id # NoId, NEW i \in 1..Len(sc.items), sc.items[i].id = id,
         NEW j \in 1..Len(sc.items), sc.items[j].id = id, sc.items[j].val # NotInt
  PROVE  sc.items[i].val \in Int
<1> DEFINE I == [seq : Nat, id : {d.id : d \in Calls}, val : Payloads, bytes : Nat]
<1>1. sc.items \in Seq(I) BY DEF Grown, Scope
<1>2. \A x \in I : x.val \in Payloads OBVIOUS
<1> HIDE DEF I
<1>3. sc.items[i].val \in Payloads BY <1>1, <1>2
<1>4. i = j BY DEF Grown
<1> QED BY <1>3, <1>4 DEF Payloads

LEMMA EmptyCarries ==
  ASSUME NEW story, NEW s
  PROVE  Carries(story, 0, s, EmptyScope)
<1>1. EmptyScope.items = <<>> /\ EmptyScope.lastSeq = 0 /\ Len(<<>>) = 0 BY DEF EmptyScope
<1>2. EmptyScope \in Scope BY DEF EmptyScope, Scope
<1> HIDE DEF EmptyScope
<1>3. Grown(EmptyScope) BY <1>1, <1>2 DEF Grown
<1>4. 1..0 = {} OBVIOUS
<1> QED BY <1>1, <1>3, <1>4
    DEF Carries, AppendsFound, AppendsDiffer, ItemsTold, AddsFound, AddsSumUp

\* What the event e of a call c on the scope s says, which left sc2 there.
Tells(e, c, s, sc2) ==
    /\ e.op = c.op /\ e.scope = s /\ e.id = c.id /\ e.val = c.val
    /\ c.op = "append" => e.seq = sc2.lastSeq

LEMMA AfterIsScope ==
  ASSUME NEW sc, Grown(sc), NEW c \in Calls, c.op \in {"append", "counter_add"},
         NEW st, Hits(st, c), sc = Content(st, c.scope)
  PROVE  AfterItemOp(sc, c) \in Scope
<1> DEFINE found == Addressed(sc, c)
           i == CHOOSE j \in found : TRUE
           b == PayloadBytes[c.val]
<1>1. c.val \in Payloads
  <2>1. c.op = "append" => c.val \in Payloads BY EventsAssumption DEF PayloadOps
  <2>2. c.op = "counter_add" => c.val \in Int BY EventsAssumption
  <2> QED BY <2>1, <2>2 DEF Payloads
<1>2. /\ found = {} /\ c.id # NoId => \A k \in 1..Len(sc.items) : sc.items[k].id # c.id
      /\ \A k \in found : k \in 1..Len(sc.items) /\ c.id # NoId /\ sc.items[k].id = c.id
  BY AddressedById
<1>3. c.op = "append" => found = {} /\ b \in Nat
  BY EventsAssumption DEF Hits, PayloadOps
<1>4. CounterBytes \in Nat BY EventsAssumption
<1>5. AfterItemOp(sc, c) =
        IF found = {}
        THEN insertNewItem(sc, c, IF c.op = "counter_add" THEN CounterBytes ELSE b)
        ELSE replaceItem(sc, i, sc.items[i].val + c.val, CounterBytes)
  BY <1>3 DEF AfterItemOp
<1>6. found # {} => c.op = "counter_add" /\ \E j \in found : sc.items[j].val # NotInt
  BY <1>3 DEF Hits
<1> HIDE DEF found, b
<1>7. CASE found = {}
  <2> DEFINE size == IF c.op = "counter_add" THEN CounterBytes ELSE b
  <2>1. size \in Nat BY <1>3, <1>4
  <2> HIDE DEF size
  <2>2. PICK x : Lengthens(sc, x, insertNewItem(sc, c, size), c)
    BY <1>1, <1>2, <1>7, <2>1, InsertLengthens
  <2>3. insertNewItem(sc, c, size) \in Scope BY <2>2 DEF Lengthens
  <2> QED BY <1>5, <1>7, <2>3 DEF size
<1>8. CASE found # {}
  <2>1. c.val \in Int BY <1>6, <1>8, EventsAssumption
  <2>2. i \in found BY <1>8
  <2>3. i \in 1..Len(sc.items) /\ sc.items[i].id = c.id /\ c.id # NoId BY <1>2, <2>2
  <2>4. sc.items[i].val \in Int
    <3>1. PICK j \in found : sc.items[j].val # NotInt BY <1>6, <1>8
    <3>2. j \in 1..Len(sc.items) /\ sc.items[j].id = c.id BY <1>2
    <3> HIDE DEF i
    <3> QED BY <2>3, <3>1, <3>2, AddressedVal
  <2> DEFINE v == sc.items[i].val + c.val
  <2>5. v \in Int BY <2>1, <2>4
  <2> HIDE DEF v, i
  <2>6. Counts(sc, replaceItem(sc, i, v, CounterBytes), c) BY <1>4, <2>3, <2>5, ReplaceCounts
  <2>7. replaceItem(sc, i, v, CounterBytes) \in Scope BY <2>6 DEF Counts, Grown
  <2> QED BY <1>5, <1>8, <2>7 DEF v
<1> QED BY <1>7, <1>8

LEMMA AppendCallCarries ==
  ASSUME NEW story, NEW n \in Nat, NEW t, NEW s, NEW sc, NEW c \in Calls, NEW st,
         Carries(story, n, s, sc), Extends(story, n, t), c.op = "append", c.scope = s,
         Hits(st, c), sc = Content(st, s), Tells(t[n + 1], c, s, AfterItemOp(sc, c))
  PROVE  Carries(t, n + 1, s, AfterItemOp(sc, c))
<1> DEFINE e == t[n + 1]
           b == PayloadBytes[c.val]
           sc2 == insertNewItem(sc, c, b)
<1>1. Addressed(sc, c) = {} BY DEF Hits
<1>2. AfterItemOp(sc, c) = sc2 BY <1>1 DEF AfterItemOp
<1>3. b \in Nat /\ c.val \in Payloads BY EventsAssumption DEF PayloadOps
<1>4. Grown(sc) BY DEF Carries
<1>5. e.op = c.op /\ e.scope = s /\ e.id = c.id /\ e.val = c.val /\ e.seq = sc2.lastSeq
  BY <1>2 DEF Tells
<1>6. c.id # NoId => \A k \in 1..Len(sc.items) : sc.items[k].id # c.id
  BY <1>1, <1>4, AddressedById
<1> HIDE DEF b, sc2, e
<1>7. PICK x : Lengthens(sc, x, sc2, e) BY <1>3, <1>4, <1>5, <1>6, InsertLengthens DEF sc2
<1>8. e.seq = Len(sc.items) + 1 BY <1>5, <1>7 DEF Lengthens
<1>9. IsAppend(e, s) BY <1>5 DEF IsAppend
<1>10. Carries(t, n + 1, s, sc2) BY <1>7, <1>8, <1>9, AppendCarries DEF e
<1> QED BY <1>2, <1>10

LEMMA CounterCallCarries ==
  ASSUME NEW story, NEW n \in Nat, NEW t, NEW s, NEW sc, NEW c \in Calls, NEW st,
         Carries(story, n, s, sc), Extends(story, n, t), c.op = "counter_add", c.scope = s,
         Hits(st, c), sc = Content(st, s), Tells(t[n + 1], c, s, AfterItemOp(sc, c))
  PROVE  Carries(t, n + 1, s, AfterItemOp(sc, c))
<1> DEFINE e == t[n + 1]
           found == Addressed(sc, c)
           i == CHOOSE j \in found : TRUE
<1>1. c.val \in Int /\ c.id # NoId /\ CounterBytes \in Nat BY EventsAssumption
<1>2. Grown(sc) BY DEF Carries
<1>3. e.op = c.op /\ e.scope = s /\ e.id = c.id /\ e.val = c.val BY DEF Tells
<1>4. IsAdd(e, s) BY <1>3 DEF IsAdd
<1>5. /\ found = {} /\ c.id # NoId => \A k \in 1..Len(sc.items) : sc.items[k].id # c.id
      /\ \A k \in found : k \in 1..Len(sc.items) /\ c.id # NoId /\ sc.items[k].id = c.id
  BY <1>2, AddressedById
<1>6. AfterItemOp(sc, c) = IF found = {} THEN insertNewItem(sc, c, CounterBytes)
                           ELSE replaceItem(sc, i, sc.items[i].val + c.val, CounterBytes)
  BY DEF AfterItemOp
<1>7. found # {} => \E j \in found : sc.items[j].val # NotInt BY DEF Hits
<1> HIDE DEF e, found
<1>8. CASE found = {}
  <2> DEFINE sc2 == insertNewItem(sc, c, CounterBytes)
  <2>1. c.val \in Payloads BY <1>1 DEF Payloads
  <2>2. PICK x : Lengthens(sc, x, sc2, e)
    BY <1>1, <1>2, <1>3, <1>5, <1>8, <2>1, InsertLengthens
  <2> HIDE DEF sc2
  <2>3. Carries(t, n + 1, s, sc2) BY <1>1, <1>3, <1>4, <2>2, NewCounterCarries DEF e
  <2> QED BY <1>6, <1>8, <2>3 DEF sc2
<1>9. CASE found # {}
  <2> DEFINE v == sc.items[i].val + c.val
             sc2 == replaceItem(sc, i, v, CounterBytes)
             sum == SumTo(Increments(story, n, s, e.id))[n]
  <2>1. i \in found BY <1>9
  <2>2. i \in 1..Len(sc.items) /\ sc.items[i].id = e.id /\ e.id # NoId
    BY <1>1, <1>3, <1>5, <2>1
  <2>3. sc.items[i].val \in Int
    <3>1. PICK j \in found : sc.items[j].val # NotInt BY <1>7, <1>9
    <3>2. j \in 1..Len(sc.items) /\ sc.items[j].id = e.id BY <1>3, <1>5
    <3> HIDE DEF i
    <3> QED BY <1>2, <2>2, <3>1, <3>2, AddressedVal
  <2>4. v \in Int BY <1>1, <2>3
  <2> HIDE DEF v, i
  <2>5. /\ Counts(sc, sc2, e)
        /\ \A k \in 1..Len(sc2.items) : sc2.items[k].id = e.id => sc2.items[k].val = v
    BY <1>1, <1>2, <2>2, <2>4, ReplaceCounts
  <2>6. ASSUME e.id \notin AppendedIds(story, n, s) PROVE v = sum + e.val
    <3>1. sc.items[i].val = sum BY <2>2, <2>6 DEF Carries, AddsSumUp
    <3> QED BY <1>3, <3>1 DEF v
  <2> HIDE DEF sc2, sum
  <2>7. e.id \notin AppendedIds(story, n, s) => CountsTo(sc2, e, sum)
    BY <2>5, <2>6 DEF CountsTo
  <2>8. Carries(t, n + 1, s, sc2)
    BY <1>1, <1>3, <1>4, <2>5, <2>7, CounterCarries DEF e, sum
  <2> QED BY <1>6, <1>9, <2>8 DEF sc2, v
<1> QED BY <1>8, <1>9

(***************************************************************************)
(* An event of another scope may be put in anywhere.                       *)
(***************************************************************************)
LEMMA InsertionRearranges ==
  ASSUME NEW story, NEW n \in Nat, NEW t, NEW j \in 1..(n + 1), NEW s,
         InsertedAt(story, n, t, j), t[j].scope # s
  PROVE  \E f : Rearranges(story, n, t, n + 1, s, f)
<1> DEFINE f == [i \in 1..(n + 1) |-> IF i < j THEN i ELSE i - 1]
<1>1. ASSUME NEW i \in 1..(n + 1), t[i].scope = s PROVE f[i] \in 1..n /\ story[f[i]] = t[i]
  <2>1. i # j BY <1>1
  <2>2. CASE i < j BY <2>2 DEF InsertedAt
  <2>3. CASE i > j
    <3>1. f[i] = i - 1 /\ i - 1 \in 1..n /\ ~(i - 1 < j) /\ (i - 1) + 1 = i BY <2>3
    <3> HIDE DEF f
    <3> QED BY <3>1 DEF InsertedAt
  <2> QED BY <2>1, <2>2, <2>3
<1>2. ASSUME NEW i \in 1..(n + 1), NEW k \in 1..(n + 1),
             t[i].scope = s, t[k].scope = s, f[i] = f[k]
      PROVE  i = k
  <2>1. i # j /\ k # j BY <1>2
  <2> QED BY <1>2, <2>1
<1>3. ASSUME NEW k \in 1..n, story[k].scope = s
      PROVE  \E i \in 1..(n + 1) : t[i].scope = s /\ f[i] = k
  <2>1. CASE k < j
    <3>1. k \in 1..(n + 1) /\ f[k] = k /\ story[k] = t[k] BY <2>1 DEF InsertedAt
    <3> QED BY <1>3, <3>1
  <2>2. CASE ~(k < j)
    <3>1. k + 1 \in 1..(n + 1) /\ f[k + 1] = k /\ story[k] = t[k + 1] BY <2>2 DEF InsertedAt
    <3> QED BY <1>3, <3>1
  <2> QED BY <2>1, <2>2
<1> HIDE DEF f
<1>4. Rearranges(story, n, t, n + 1, s, f) BY <1>1, <1>2, <1>3 DEF Rearranges
<1> QED BY <1>4

LEMMA RearrangedInts ==
  ASSUME NEW story, NEW n \in Nat, NEW t, NEW m \in Nat, NEW s, NEW f, NEW sc,
         Rearranges(story, n, t, m, s, f), Carries(story, n, s, sc)
  PROVE  IntAdds(t, m, s)
<1> SUFFICES ASSUME NEW i \in 1..m, IsAdd(t[i], s) PROVE t[i].val \in Int BY DEF IntAdds
<1>1. f[i] \in 1..n /\ story[f[i]] = t[i] BY DEF Rearranges, IsAdd
<1> QED BY <1>1 DEF Carries, AddsFound

LEMMA InsertedCarries ==
  ASSUME NEW story, NEW n \in Nat, NEW t, NEW j \in 1..(n + 1), NEW s, NEW sc,
         InsertedAt(story, n, t, j), t[j].scope # s, Carries(story, n, s, sc)
  PROVE  Carries(t, n + 1, s, sc)
<1>1. PICK f : Rearranges(story, n, t, n + 1, s, f) BY InsertionRearranges
<1>2. n + 1 \in Nat OBVIOUS
<1>3. IntAdds(t, n + 1, s) BY <1>1, <1>2, RearrangedInts
<1>4. SameSums(story, n, t, n + 1, s)
  <2> SUFFICES ASSUME NEW id
               PROVE  SumTo(Increments(t, n + 1, s, id))[n + 1] =
                        SumTo(Increments(story, n, s, id))[n]
    BY DEF SameSums
  <2> QED BY <1>3, SumSkips
<1> QED BY <1>1, <1>2, <1>4, RearrangedCarries

LEMMA InsertedAddsOnly ==
  ASSUME NEW story, NEW n \in Nat, NEW t, NEW j \in 1..(n + 1), NEW s,
         InsertedAt(story, n, t, j), t[j].scope # s, AddsOnly(t, n + 1, s)
  PROVE  AddsOnly(story, n, s)
<1>1. PICK f : Rearranges(story, n, t, n + 1, s, f) BY InsertionRearranges
<1>2. n + 1 \in Nat OBVIOUS
<1> QED BY <1>1, <1>2, RearrangedIds

(***************************************************************************)
(* The k-th event may be moved to the place j before it.                   *)
(***************************************************************************)
MovedTo(story, n, t, k, j) ==
    /\ j \in 1..k /\ k \in 1..n /\ t[j] = story[k]
    /\ \A i \in 1..n : /\ i < j \/ i > k => t[i] = story[i]
                       /\ j < i /\ i <= k => t[i] = story[i - 1]

LEMMA MoveRearranges ==
  ASSUME NEW story, NEW n \in Nat, NEW t, NEW k, NEW j, MovedTo(story, n, t, k, j), NEW s
  PROVE  \E f : Rearranges(story, n, t, n, s, f)
<1> DEFINE f == [i \in 1..n |-> IF i = j THEN k ELSE IF j < i /\ i <= k THEN i - 1 ELSE i]
<1> USE DEF MovedTo
<1>1. ASSUME NEW i \in 1..n PROVE f[i] \in 1..n /\ story[f[i]] = t[i]
  <2>1. CASE i = j BY <2>1
  <2>2. CASE j < i /\ i <= k BY <2>2
  <2>3. CASE i < j \/ i > k BY <2>3
  <2> QED BY <2>1, <2>2, <2>3
<1>2. ASSUME NEW i \in 1..n, NEW m \in 1..n, f[i] = f[m] PROVE i = m BY <1>2
<1>3. ASSUME NEW m \in 1..n PROVE \E i \in 1..n : f[i] = m
  <2>1. CASE m = k
    <3>1. j \in 1..n /\ f[j] = m BY <2>1
    <3> QED BY <3>1
  <2>2. CASE j <= m /\ m < k
    <3>1. m + 1 \in 1..n /\ f[m + 1] = m BY <2>2
    <3> QED BY <3>1
  <2>3. CASE m < j \/ m > k
    <3>1. f[m] = m BY <2>3
    <3> QED BY <3>1
  <2> QED BY <2>1, <2>2, <2>3
<1> HIDE DEF f
<1>4. Rearranges(story, n, t, n, s, f)
  <2>1. ASSUME NEW m \in 1..n, story[m].scope = s
        PROVE  \E i \in 1..n : t[i].scope = s /\ f[i] = m
    <3>1. PICK i \in 1..n : f[i] = m BY <1>3
    <3> QED BY <1>1, <2>1, <3>1
  <2> QED BY <1>1, <1>2, <2>1 DEF Rearranges
<1> QED BY <1>4

LEMMA MovedCarries ==
  ASSUME NEW story, NEW n \in Nat, NEW t, NEW k, NEW j, MovedTo(story, n, t, k, j),
         NEW s, NEW sc, Carries(story, n, s, sc)
  PROVE  Carries(t, n, s, sc)
<1>1. PICK f : Rearranges(story, n, t, n, s, f) BY MoveRearranges
<1>2. IntAdds(t, n, s) BY <1>1, RearrangedInts
<1>3. IntAdds(story, n, s) BY DEF Carries, AddsFound, IntAdds
<1>4. k \in 1..n /\ j \in 1..n /\ t[j] = story[k] BY DEF MovedTo
<1>5. WithoutAt(t, n, j) = WithoutAt(story, n, k)
  <2>1. ASSUME NEW i \in 1..(n - 1)
        PROVE  (IF i < j THEN t[i] ELSE t[i + 1]) = IF i < k THEN story[i] ELSE story[i + 1]
    <3>1. i \in 1..n /\ i + 1 \in 1..n OBVIOUS
    <3>2. CASE i < j BY <3>1, <3>2 DEF MovedTo
    <3>3. CASE j <= i /\ i < k
      <4>1. j < i + 1 /\ i + 1 <= k /\ (i + 1) - 1 = i BY <1>4, <3>3
      <4>2. t[i + 1] = story[(i + 1) - 1] BY <3>1, <4>1 DEF MovedTo
      <4> QED BY <1>4, <3>3, <4>1, <4>2
    <3>4. CASE i >= k
      <4>1. i + 1 > k /\ ~(i < j) BY <1>4, <3>4 DEF MovedTo
      <4>2. t[i + 1] = story[i + 1] BY <3>1, <4>1 DEF MovedTo
      <4> QED BY <1>4, <3>4, <4>1, <4>2
    <3> QED BY <1>4, <3>2, <3>3, <3>4
  <2> QED BY <2>1 DEF WithoutAt
<1>6. SameSums(story, n, t, n, s) BY <1>2, <1>3, <1>4, <1>5, SumMoves DEF SameSums
<1> QED BY <1>1, <1>6, RearrangedCarries

LEMMA MovedAddsOnly ==
  ASSUME NEW story, NEW n \in Nat, NEW t, NEW k, NEW j, MovedTo(story, n, t, k, j),
         NEW s, AddsOnly(t, n, s)
  PROVE  AddsOnly(story, n, s)
<1>1. PICK f : Rearranges(story, n, t, n, s, f) BY MoveRearranges
<1> QED BY <1>1, RearrangedIds

-----------------------------------------------------------------------------
(* The steps. *)

(***************************************************************************)
(* What a call leaves in its scope, and in the others.                     *)
(***************************************************************************)
LEMMA ApplyMaps ==
  ASSUME NEW st, st = [s \in Scopes |-> st[s]], NEW c
  PROVE  /\ Apply(st, c) = [s \in Scopes |-> Apply(st, c)[s]]
         /\ c.op \notin ResetOps =>
              \A s \in Scopes : s # c.scope => Apply(st, c)[s] = st[s]
         /\ c.op \in {"append", "counter_add"} /\ c.scope \in Scopes =>
              Apply(st, c)[c.scope] = AfterItemOp(Content(st, c.scope), c)
<1> DEFINE batch == insertNewItem(EmptyScope, c, PayloadBytes[c.val])
           after == AfterItemOp(Content(st, c.scope), c)
           r == Apply(st, c)
<1> USE DEF ResetOps
<1>1. CASE c.op = "wipe" BY <1>1 DEF Apply, EmptyStore
<1>2. CASE c.op = "rebuild" BY <1>2 DEF Apply, EmptyStore
<1>3. CASE c.op = "warm"
  <2>1. r = [st EXCEPT ![c.scope] = batch] BY <1>3 DEF Apply
  <2> QED BY <1>3, <2>1
<1>4. CASE c.op = "delete_scope"
  <2>1. r = [st EXCEPT ![c.scope] = Absent] BY <1>4 DEF Apply
  <2> QED BY <1>4, <2>1
<1>5. CASE c.op \notin {"wipe", "rebuild", "warm", "delete_scope"}
  <2>1. r = [st EXCEPT ![c.scope] = after] BY <1>5 DEF Apply
  <2> HIDE DEF after, r
  <2>2. r = [s \in Scopes |-> r[s]] BY <2>1
  <2>3. \A s \in Scopes : s # c.scope => r[s] = st[s] BY <2>1
  <2>4. c.scope \in Scopes => r[c.scope] = after BY <2>1
  <2> QED BY <2>2, <2>3, <2>4 DEF after, r
<1> QED BY <1>1, <1>2, <1>3, <1>4, <1>5

LEMMA CommitCarries ==
  ASSUME Inv, CarryInv, NEW c \in Calls, NEW p \in Procs, Commit(p, c), mode = "full"
  PROVE  StoryCarries'
<1> DEFINE e == writeEvent(c, Apply(scopes, c))
<1>1. /\ Total \in Nat /\ Total' = Total + 1
      /\ \A i \in 1..Total : Story'[i] = Story[i]
      /\ Story'[Total + 1] = e
  BY CommitTells
<1>2. /\ events' = events /\ eventsLastSeq' = eventsLastSeq /\ base' = base
      /\ eventsDropsTotal' = eventsDropsTotal /\ order' = order /\ mode' = mode
      /\ scopes' = Apply(scopes, c) /\ c.scope \in Scopes /\ Hits(scopes, c)
      /\ c.op \notin ResetOps
  BY DEF Commit
<1>3. e.op = c.op /\ e.scope = c.scope BY EventsAssumption DEF writeEvent
<1>4. SUFFICES ASSUME Unbroken', NEW s \in Scopes, base'[s] = Absent,
                      AddsOnly(Story', Total', s)
               PROVE  Carries(Story', Total', s, Content(scopes', s))
  BY DEF StoryCarries
<1> DEFINE n == Total
           story == Story
           t == Story'
           sc == Content(scopes, s)
<1>5. n \in Nat /\ Extends(story, n, t) /\ t[n + 1] = e BY <1>1 DEF Extends
<1> HIDE DEF n, story, t
<1>6. AddsOnly(t, n + 1, s) BY <1>1, <1>4 DEF n, t
<1>7. AddsOnly(story, n, s) BY <1>5, <1>6, ExtendedIds
<1>8. Carries(story, n, s, sc)
  <2>1. Unbroken /\ base[s] = Absent BY <1>2, <1>4 DEF Unbroken
  <2> QED BY <1>7, <2>1 DEF CarryInv, StoryCarries, n, story
<1> HIDE DEF sc
<1>9. /\ c.scope # s => scopes'[s] = scopes[s]
      /\ c.op \in {"append", "counter_add"} => scopes'[c.scope] = AfterItemOp(Content(scopes, c.scope), c)
  <2>1. scopes = [r \in Scopes |-> scopes[r]] BY DEF CarryInv, ScopesMapped
  <2>2. /\ \A r \in Scopes : r # c.scope => Apply(scopes, c)[r] = scopes[r]
        /\ c.op \in {"append", "counter_add"} =>
             Apply(scopes, c)[c.scope] = AfterItemOp(Content(scopes, c.scope), c)
    BY <1>2, <2>1, ApplyMaps
  <2> QED BY <1>2, <2>2
<1>10. CASE c.scope = s
  <2> DEFINE sc2 == AfterItemOp(sc, c)
  <2>1. c.op \in {"append", "counter_add"}
    <3>1. n + 1 \in 1..(n + 1) BY <1>5
    <3> QED BY <1>3, <1>5, <1>6, <1>10, <3>1 DEF AddsOnly
  <2>2. Content(scopes', s) = sc2
    <3>1. sc2 \in Scope
      <4>1. Grown(sc) BY <1>8 DEF Carries
      <4> QED BY <1>2, <1>10, <2>1, <4>1, AfterIsScope DEF sc
    <3>2. scopes'[s] = sc2 BY <1>9, <1>10, <2>1 DEF sc
    <3> QED BY <3>1, <3>2, EventsAssumption DEF Content
  <2>3. Tells(e, c, s, sc2)
    <3>1. SameCall(c, e) BY <2>1, EventIsCall
    <3>2. c.op = "append" => e.seq = sc2.lastSeq
      BY <1>2, <1>10, <2>2, EventsAssumption DEF writeEvent, seqOf
    <3> QED BY <1>10, <3>1, <3>2 DEF Tells, SameCall
  <2>4. Tells(t[n + 1], c, s, AfterItemOp(sc, c)) BY <1>5, <2>3
  <2> HIDE DEF sc2, e
  <2>5. sc = Content(scopes, s) BY DEF sc
  <2>6. Carries(t, n + 1, s, AfterItemOp(sc, c))
    <3>1. CASE c.op = "append"
      BY <1>2, <1>5, <1>8, <1>10, <2>4, <2>5, <3>1, AppendCallCarries
    <3>2. CASE c.op = "counter_add"
      BY <1>2, <1>5, <1>8, <1>10, <2>4, <2>5, <3>2, CounterCallCarries
    <3> QED BY <2>1, <3>1, <3>2
  <2>7. Carries(Story', Total', s, sc2) BY <1>1, <2>6 DEF t, n, sc2
  <2> QED BY <2>2, <2>7
<1>11. CASE c.scope # s
  <2>1. Content(scopes', s) = sc BY <1>9, <1>11 DEF Content, sc
  <2>2. InsertedAt(story, n, t, n + 1) /\ n + 1 \in 1..(n + 1)
    BY <1>5 DEF InsertedAt, Extends
  <2>3. t[n + 1].scope # s BY <1>3, <1>5, <1>11
  <2>4. Carries(t, n + 1, s, sc) BY <1>5, <1>8, <2>2, <2>3, InsertedCarries
  <2>5. Carries(Story', Total', s, sc) BY <1>1, <2>4 DEF t, n
  <2> QED BY <2>1, <2>5
<1> QED BY <1>10, <1>11

LEMMA EntryCarries ==
  ASSUME Inv, CarryInv, NEW c \in Calls, NEW p \in Procs, AppendToEvents(p, c)
  PROVE  StoryCarries'
<1>1. /\ Len(events) \in Nat /\ Total \in Nat /\ Len(events) <= Total
      /\ Total' = Total + 1
      /\ \A i \in 1..Len(events) : Story'[i] = Story[i]
      /\ Story'[Len(events) + 1].scope \notin Scopes
      /\ \A i \in 1..Total : i > Len(events) => Story'[i + 1] = Story[i]
  BY EntryTells
<1>2. /\ base' = base /\ scopes' = scopes /\ order' = order /\ mode' = mode
      /\ eventsDropsTotal' = eventsDropsTotal /\ eventsLastSeq' = eventsLastSeq + 1
  BY DEF AppendToEvents
<1>3. Len(events') = Len(events) + 1
  <2>1. IsSequence(events) BY DEF Inv, Types
  <2>2. \E x : events' = Append(events, x) BY DEF AppendToEvents
  <2> QED BY <2>1, <2>2, AppendedTo
<1>4. SUFFICES ASSUME Unbroken', NEW s \in Scopes, base'[s] = Absent,
                      AddsOnly(Story', Total', s)
               PROVE  Carries(Story', Total', s, Content(scopes', s))
  BY DEF StoryCarries
<1>5. Unbroken
  <2>1. Len(events) + 1 = eventsLastSeq + 1 BY <1>2, <1>3, <1>4 DEF Unbroken
  <2>2. eventsLastSeq \in Nat BY DEF Inv, Types
  <2>3. Len(events) = eventsLastSeq BY <1>1, <2>1, <2>2
  <2> QED BY <1>2, <1>4, <2>3 DEF Unbroken
<1> DEFINE n == Total
           story == Story
           t == Story'
           j == Len(events) + 1
           sc == Content(scopes, s)
<1>6. n \in Nat /\ j \in 1..(n + 1) /\ t[j].scope # s BY <1>1
<1>7. InsertedAt(story, n, t, j)
  <2>1. ASSUME NEW i \in 1..n PROVE story[i] = IF i < j THEN t[i] ELSE t[i + 1]
    <3>1. CASE i < j
      <4>1. i \in 1..Len(events) BY <1>1, <3>1
      <4> QED BY <1>1, <3>1, <4>1
    <3>2. CASE ~(i < j)
      <4>1. i > Len(events) BY <1>1, <3>2
      <4> QED BY <1>1, <3>2, <4>1
    <3> QED BY <3>1, <3>2
  <2> QED BY <2>1 DEF InsertedAt
<1>8. Total' = n + 1 /\ AddsOnly(t, n + 1, s) BY <1>1, <1>4
<1> HIDE DEF n, story, t, j, sc
<1>9. AddsOnly(story, n, s) BY <1>6, <1>7, <1>8, InsertedAddsOnly
<1>10. Carries(story, n, s, sc)
  BY <1>2, <1>4, <1>5, <1>9 DEF CarryInv, StoryCarries, n, story, sc
<1>11. Carries(t, n + 1, s, sc) BY <1>6, <1>7, <1>10, InsertedCarries
<1> QED BY <1>2, <1>8, <1>11 DEF t, sc, Content

LEMMA EmitCarries ==
  ASSUME Inv, CarryInv, NEW p \in Procs, emitAppend(p)
  PROVE  StoryCarries'
<1>1. /\ base' = base /\ scopes' = scopes /\ mode' = mode
      /\ eventsDropsTotal' \in {eventsDropsTotal, eventsDropsTotal + 1}
  BY DEF emitAppend
<1>2. PICK i \in DOMAIN queue :
        /\ queue[i] = p /\ queue' = RemoveAt(queue, i)
        /\ order' = IF order = "kept" /\ i # 1 THEN "swapped" ELSE order
  BY DEF emitAppend, Announced
<1>3. SUFFICES ASSUME Unbroken', NEW s \in Scopes, base'[s] = Absent,
                      AddsOnly(Story', Total', s)
               PROVE  Carries(Story', Total', s, Content(scopes', s))
  BY DEF StoryCarries
<1>4. eventsDropsTotal' = eventsDropsTotal BY <1>1, <1>3 DEF Unbroken, Inv, Types
<1> DEFINE n == Total
           story == Story
           t == Story'
           w == Len(events)
           m == Len(queue)
           sc == Content(scopes, s)
<1>5. /\ w \in Nat /\ m \in Nat /\ i \in 1..m /\ n = w + m /\ Total' = n
      /\ Len(events') = w + 1 /\ eventsLastSeq' = eventsLastSeq + 1
      /\ \A k \in 1..w : t[k] = story[k]
      /\ t[w + 1] = story[w + i]
      /\ \A k \in 1..(m - 1) : t[w + 1 + k] = story[w + (IF k < i THEN k ELSE k + 1)]
  BY <1>2, <1>4, EmitMoves
<1>6. Unbroken
  <2>1. w + 1 = eventsLastSeq + 1 BY <1>3, <1>5 DEF Unbroken
  <2>2. eventsLastSeq \in Nat BY DEF Inv, Types
  <2>3. w = eventsLastSeq BY <1>5, <2>1, <2>2
  <2> QED BY <1>1, <1>2, <1>3, <1>4, <2>3 DEF Unbroken
<1> HIDE DEF n, story, t, w, m, sc
<1>7. n \in Nat BY <1>5
<1>8. MovedTo(story, n, t, w + i, w + 1)
  <2>1. ASSUME NEW k \in 1..n, k < w + 1 \/ k > w + i PROVE t[k] = story[k]
    <3>1. CASE k < w + 1
      <4>1. k \in 1..w BY <1>5, <3>1
      <4> QED BY <1>5, <4>1
    <3>2. CASE k > w + i
      <4> DEFINE j == k - (w + 1)
      <4>1. j \in 1..(m - 1) /\ ~(j < i) /\ k = w + 1 + j /\ k = w + (j + 1) BY <1>5, <3>2
      <4> HIDE DEF j
      <4>2. t[w + 1 + j] = story[w + (j + 1)] BY <1>5, <4>1
      <4> QED BY <4>1, <4>2
    <3> QED BY <2>1, <3>1, <3>2
  <2>2. ASSUME NEW k \in 1..n, w + 1 < k, k <= w + i PROVE t[k] = story[k - 1]
    <3> DEFINE j == k - (w + 1)
    <3>1. j \in 1..(m - 1) /\ j < i /\ k = w + 1 + j /\ k - 1 = w + j BY <1>5, <2>2
    <3> HIDE DEF j
    <3>2. t[w + 1 + j] = story[w + j] BY <1>5, <3>1
    <3> QED BY <3>1, <3>2
  <2>3. w + 1 \in 1..(w + i) /\ w + i \in 1..n BY <1>5
  <2> QED BY <1>5, <2>1, <2>2, <2>3 DEF MovedTo
<1>9. AddsOnly(t, n, s) BY <1>3, <1>5 DEF t
<1>10. AddsOnly(story, n, s) BY <1>7, <1>8, <1>9, MovedAddsOnly
<1>11. Carries(story, n, s, sc)
  BY <1>1, <1>3, <1>6, <1>10 DEF CarryInv, StoryCarries, n, story, sc
<1>12. Carries(t, n, s, sc) BY <1>7, <1>8, <1>11, MovedCarries
<1> QED BY <1>1, <1>5, <1>12 DEF t, sc, Content

LEMMA ResetCarries ==
  ASSUME Inv, CarryInv, NEW c \in Calls, NEW p \in Procs, Reset(p, c)
  PROVE  StoryCarries'
<1>1. /\ events' = <<>> /\ queue' = queue /\ base' = scopes'
      /\ order' = IF queue = <<>> THEN "kept" ELSE "crossed"
  BY DEF Reset
<1>2. SUFFICES ASSUME Unbroken', NEW s \in Scopes, base'[s] = Absent
               PROVE  Carries(Story', Total', s, Content(scopes', s))
  BY DEF StoryCarries
<1>3. queue = <<>> BY <1>1, <1>2 DEF Unbroken
<1>4. Total' = 0 BY <1>1, <1>3 DEF Total
<1>5. Content(scopes', s) = EmptyScope BY <1>1, <1>2 DEF Content
<1> QED BY <1>4, <1>5, EmptyCarries

LEMMA DrainCarries ==
  ASSUME Inv, NEW c \in Calls, NEW p \in Procs, Drain(p, c)
  PROVE  StoryCarries'
<1>1. Len(events') < eventsLastSeq' /\ Len(events') \in Nat /\ eventsLastSeq' \in Nat
  BY DrainShortens
<1>2. Len(events') # eventsLastSeq' BY <1>1
<1> QED BY <1>2 DEF StoryCarries, Unbroken

LEMMA NothingCarried ==
  ASSUME CarryInv, UNCHANGED <<mode, scopes, events, eventsLastSeq, eventsDropsTotal, pending,
                               queue, order, base>>
  PROVE  CarryInv'
<1>1. Story' = Story /\ Total' = Total BY DEF Story, Total
<1>2. ScopesMapped' BY DEF CarryInv, ScopesMapped
<1>3. Unbroken' = Unbroken BY DEF Unbroken
<1>4. \A s \in Scopes : Content(scopes', s) = Content(scopes, s) OBVIOUS
<1>5. StoryCarries'
  <2> SUFFICES ASSUME Unbroken, NEW s \in Scopes, base[s] = Absent, AddsOnly(Story, Total, s)
               PROVE  Carries(Story, Total, s, Content(scopes, s))
    BY <1>1, <1>3, <1>4 DEF StoryCarries
  <2> QED BY DEF CarryInv, StoryCarries
<1> QED BY <1>2, <1>5 DEF CarryInv

(***************************************************************************)
(* However the events of an only growing scope are reordered on their way, *)
(* they carry what it holds, at every step.                                *)
(***************************************************************************)
THEOREM CarryInvariance == Spec => []CarryInv
<1>1. Init => CarryInv
  <2> SUFFICES ASSUME Init PROVE CarryInv OBVIOUS
  <2>1. ScopesMapped BY DEF Init, EmptyStore, ScopesMapped
  <2>2. Total = 0 BY DEF Init, Total
  <2>3. \A s \in Scopes : Content(scopes, s) = EmptyScope BY DEF Init, EmptyStore, Content
  <2>4. StoryCarries BY <2>2, <2>3, EmptyCarries DEF StoryCarries
  <2> QED BY <2>1, <2>4 DEF CarryInv
<1>2. Inv /\ CarryInv /\ [Next]_vars => CarryInv'
  <2> SUFFICES ASSUME Inv, CarryInv, [Next]_vars PROVE CarryInv' OBVIOUS
  <2>0. scopes = [s \in Scopes |-> scopes[s]] BY DEF CarryInv, ScopesMapped
  <2>1. ASSUME NEW p \in Procs, emitLookup(p) PROVE CarryInv'
    BY <2>1, NothingCarried DEF emitLookup, history
  <2>2. ASSUME NEW p \in Procs, emitAppend(p) PROVE CarryInv'
    <3>1. scopes' = scopes BY <2>2 DEF emitAppend
    <3> QED BY <2>0, <2>2, <3>1, EmitCarries DEF CarryInv, ScopesMapped
  <2>3. ASSUME NEW p \in Procs, NEW c \in Calls, Miss(p, c) PROVE CarryInv'
    BY <2>3, NothingCarried DEF Miss, history, callerVars
  <2>4. ASSUME NEW p \in Procs, NEW c \in Calls, Commit(p, c) PROVE CarryInv'
    <3>1. ScopesMapped'
      <4>1. scopes' = Apply(scopes, c) BY <2>4 DEF Commit
      <4>2. Apply(scopes, c) = [s \in Scopes |-> Apply(scopes, c)[s]] BY <2>0, ApplyMaps
      <4> QED BY <4>1, <4>2 DEF ScopesMapped
    <3>2. StoryCarries'
      <4>1. CASE mode = "full" BY <2>4, <4>1, CommitCarries
      <4>2. CASE mode # "full"
        <5>1. mode' # "full" BY <2>4, <4>2 DEF Commit
        <5> QED BY <5>1 DEF StoryCarries, Unbroken
      <4> QED BY <4>1, <4>2
    <3> QED BY <3>1, <3>2 DEF CarryInv
  <2>5. ASSUME NEW p \in Procs, NEW c \in Calls, Reset(p, c) PROVE CarryInv'
    <3>1. ScopesMapped'
      <4>1. scopes' = Apply(scopes, c) BY <2>5 DEF Reset
      <4>2. Apply(scopes, c) = [s \in Scopes |-> Apply(scopes, c)[s]] BY <2>0, ApplyMaps
      <4> QED BY <4>1, <4>2 DEF ScopesMapped
    <3> QED BY <2>5, <3>1, ResetCarries DEF CarryInv
  <2>6. ASSUME NEW p \in Procs, NEW c \in Calls, AppendToEvents(p, c) PROVE CarryInv'
    <3>1. scopes' = scopes BY <2>6 DEF AppendToEvents
    <3> QED BY <2>0, <2>6, <3>1, EntryCarries DEF CarryInv, ScopesMapped
  <2>7. ASSUME NEW p \in Procs, NEW c \in Calls, Drain(p, c) PROVE CarryInv'
    <3>1. scopes' = scopes BY <2>7 DEF Drain
    <3> QED BY <2>0, <2>7, <3>1, DrainCarries DEF CarryInv, ScopesMapped
  <2>8. CASE UNCHANGED vars BY <2>8, NothingCarried DEF vars, history, callerVars
  <2> QED BY <2>1, <2>2, <2>3, <2>4, <2>5, <2>6, <2>7, <2>8 DEF Next, Finished
<1> QED BY <1>1, <1>2, EventsInvariance, PTL DEF Spec

LEMMA LogCarries ==
  ASSUME Inv, CarryInv, Intact, NEW s \in Scopes, OnlyAdds(s)
  PROVE  /\ Carries(Story, Len(events), s, Content(scopes, s))
         /\ Counted(s) = AddedIds(Story, Len(events), s)
         /\ Appended(s) = AppendedIds(Story, Len(events), s)
         /\ Told(s, "append") = {i \in 1..Len(events) : IsAppend(Story[i], s)}
<1> DEFINE n == Len(events)
<1>1. /\ n \in Nat /\ DOMAIN events = 1..n /\ Total = n
      /\ \A i \in 1..n : Story[i] = events[i].evt
  BY QuietStory DEF Intact
<1>2. base[s] = Absent /\ AddsOnly(Story, Total, s) BY <1>1 DEF OnlyAdds, AddsOnly
<1>3. Unbroken BY DEF Intact, Unbroken
<1>4. Carries(Story, n, s, Content(scopes, s)) BY <1>1, <1>2, <1>3 DEF CarryInv, StoryCarries
<1>5. /\ Told(s, "append") = {i \in 1..n : IsAppend(Story[i], s)}
      /\ Told(s, "counter_add") = {i \in 1..n : IsAdd(Story[i], s)}
  BY <1>1 DEF Told, IsAppend, IsAdd
<1>6. Counted(s) = AddedIds(Story, n, s) BY <1>1, <1>5 DEF Counted, AddedIds
<1>7. Appended(s) = AppendedIds(Story, n, s) BY <1>1, <1>5 DEF Appended, AppendedIds
<1> QED BY <1>4, <1>5, <1>6, <1>7

(***************************************************************************)
(* AppendsCarryTheirOrder: sorting a scope's append events by seq gives    *)
(* back its items, whatever the order in which they were announced.        *)
(***************************************************************************)
THEOREM AppendsAlwaysCarryTheirOrder == Spec => []AppendsCarryTheirOrder
<1>1. Inv /\ CarryInv => AppendsCarryTheirOrder
  <2> SUFFICES ASSUME Inv, CarryInv, Intact, NEW s \in Scopes, OnlyAdds(s)
               PROVE  LET items == Content(scopes, s).items
                          kept == {i \in DOMAIN items : items[i].id \notin Counted(s)}
                          told == {i \in Told(s, "append") : events[i].evt.id \notin Counted(s)}
                      IN  /\ {Entry(events[i].evt) : i \in told} = {Entry(items[i]) : i \in kept}
                          /\ Cardinality(told) = Cardinality(kept)
    BY DEF AppendsCarryTheirOrder
  <2> DEFINE n == Len(events)
             sc == Content(scopes, s)
             items == sc.items
             kept == {i \in DOMAIN items : items[i].id \notin Counted(s)}
             told == {i \in Told(s, "append") : events[i].evt.id \notin Counted(s)}
  <2>1. /\ n \in Nat /\ DOMAIN events = 1..n
        /\ \A i \in 1..n : Story[i] = events[i].evt
    BY QuietStory DEF Intact
  <2>2. /\ Carries(Story, n, s, sc) /\ Counted(s) = AddedIds(Story, n, s)
        /\ Told(s, "append") = {i \in 1..n : IsAppend(Story[i], s)}
    BY LogCarries
  <2> DEFINE w == Len(items)
  <2>3. /\ w \in Nat /\ DOMAIN items = 1..w /\ \A k \in 1..w : items[k].seq = k
    BY <2>2 DEF Carries, Grown, Scope
  <2>4. ASSUME NEW i \in told
        PROVE  /\ events[i].evt.seq \in kept /\ i \in 1..n
               /\ Entry(items[events[i].evt.seq]) = Entry(events[i].evt)
    <3>1. i \in 1..n /\ IsAppend(Story[i], s) /\ Story[i] = events[i].evt
          /\ Story[i].id \notin AddedIds(Story, n, s)
      BY <2>1, <2>2
    <3>2. /\ Story[i].seq \in 1..w /\ items[Story[i].seq].id = Story[i].id
          /\ items[Story[i].seq].val = Story[i].val
      BY <2>2, <3>1 DEF Carries, AppendsFound
    <3> QED BY <2>2, <2>3, <3>1, <3>2 DEF Entry
  <2>5. ASSUME NEW k \in kept PROVE \E i \in told : events[i].evt.seq = k
    <3>1. k \in 1..w /\ items[k].id \notin AddedIds(Story, n, s) BY <2>2, <2>3
    <3>2. PICK i \in 1..n : IsAppend(Story[i], s) /\ Story[i].seq = k
      BY <2>2, <3>1 DEF Carries, ItemsTold
    <3>3. items[k].id = Story[i].id BY <2>2, <3>2 DEF Carries, AppendsFound
    <3>4. i \in told BY <2>1, <2>2, <3>1, <3>2, <3>3
    <3> QED BY <2>1, <3>2, <3>4
  <2>6. ASSUME NEW i \in told, NEW j \in told, events[i].evt.seq = events[j].evt.seq
        PROVE  i = j
    <3>1. /\ i \in 1..n /\ IsAppend(Story[i], s) /\ Story[i] = events[i].evt
          /\ j \in 1..n /\ IsAppend(Story[j], s) /\ Story[j] = events[j].evt
      BY <2>1, <2>2
    <3> QED BY <2>2, <2>6, <3>1 DEF Carries, AppendsDiffer
  <2>7. IsFiniteSet(kept)
    <3>1. kept \in SUBSET (1..w) BY <2>3
    <3>2. IsFiniteSet(1..w)
      <4> HIDE DEF w
      <4> QED BY <2>3, FS_Interval
    <3> HIDE DEF kept, w
    <3> QED BY <3>1, <3>2, FS_Subset
  <2> HIDE DEF told, kept
  <2>8. {Entry(events[i].evt) : i \in told} = {Entry(items[i]) : i \in kept}
    <3>1. ASSUME NEW k \in kept
          PROVE  \E i \in told : Entry(items[k]) = Entry(events[i].evt)
      <4>1. PICK i \in told : events[i].evt.seq = k BY <2>5
      <4> QED BY <2>4, <4>1
    <3> QED BY <2>4, <3>1
  <2>9. Cardinality(told) = Cardinality(kept)
    <3> DEFINE f == [i \in told |-> events[i].evt.seq]
    <3>1. f \in Injection(told, kept) BY <2>4, <2>6 DEF Injection, IsInjective
    <3>2. f \in Surjection(told, kept) BY <2>4, <2>5 DEF Surjection
    <3> HIDE DEF f
    <3> QED BY <2>7, <3>1, <3>2, FS_Injection
  <2> QED BY <2>8, <2>9 DEF told, kept
<1> QED BY <1>1, EventsInvariance, CarryInvariance, PTL

(***************************************************************************)
(* CountersSumUp: a counter is the sum of the increments its events carry. *)
(***************************************************************************)
THEOREM CountersAlwaysSumUp == Spec => []CountersSumUp
<1>1. Inv /\ CarryInv => CountersSumUp
  <2> SUFFICES ASSUME Inv, CarryInv, Intact, NEW s \in Scopes, OnlyAdds(s),
                      NEW item \in Range(Content(scopes, s).items), item.id \notin Appended(s)
               PROVE  item.val =
                        SeqSum([i \in DOMAIN events |-> Increment(events[i].evt, s, item.id)])
    BY DEF CountersSumUp
  <2> DEFINE n == Len(events)
             sc == Content(scopes, s)
             f == Increments(Story, n, s, item.id)
             g == [i \in DOMAIN events |-> Increment(events[i].evt, s, item.id)]
  <2>1. /\ n \in Nat /\ DOMAIN events = 1..n
        /\ \A i \in 1..n : Story[i] = events[i].evt
    BY QuietStory DEF Intact
  <2>2. Carries(Story, n, s, sc) /\ Appended(s) = AppendedIds(Story, n, s) BY LogCarries
  <2>3. PICK k \in 1..Len(sc.items) : item = sc.items[k]
    BY <2>2 DEF Range, Carries, Grown, Scope
  <2>4. item.val = SumTo(f)[n] BY <2>2, <2>3 DEF Carries, AddsSumUp
  <2>5. f = g BY <2>1 DEF Increments
  <2>6. Len(g) = n BY <2>1
  <2> HIDE DEF f, g
  <2>7. SeqSum(g) = SumTo(f)[n] BY <2>5, <2>6 DEF SeqSum
  <2> QED BY <2>4, <2>7 DEF g
<1> QED BY <1>1, EventsInvariance, CarryInvariance, PTL
=============================================================================
