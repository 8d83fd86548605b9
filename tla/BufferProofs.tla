---------------------------- MODULE BufferProofs ----------------------------
(***************************************************************************)
(* What the operations of BufferOps preserve, for every buffer: a buffer   *)
(* is WellFormed when its items ascend in seq, its two index maps hold     *)
(* exactly its items, and its two byte counters are the sums over them.    *)
(* First the arithmetic of these sums: SumTo exists, and how a sum changes *)
(* when an element is appended, overwritten or cut out, or a prefix is cut *)
(* off.                                                                    *)
(***************************************************************************)
EXTENDS BufferOps, SequenceTheorems, WellFoundedInduction, TLAPS

(***************************************************************************)
(* Induction over Nat in the form of a set (the library's theorem takes an *)
(* operator): a set that holds 0 and is closed under +1 holds Nat.         *)
(***************************************************************************)
LEMMA NatSetInduction ==
    ASSUME NEW S, 0 \in S, \A n \in Nat : n \in S => n + 1 \in S
    PROVE  Nat \subseteq S
<1> DEFINE T == Nat \ S
<1> SUFFICES ASSUME T # {} PROVE FALSE OBVIOUS
<1> DEFINE R == {ss \in Nat \X Nat : ss[1] < ss[2]}
<1>1. IsWellFoundedOn(R, Nat) BY NatLessThanWellFounded DEF OpToRel
<1>2. T \subseteq Nat OBVIOUS
<1> HIDE DEF R
<1>3. PICK x \in T : \A y \in T : ~ (<<y, x>> \in R) BY <1>1, <1>2, WFMin, Zenon
<1>4. \A y \in T : ~(y < x) BY <1>2, <1>3 DEF R
<1>5. x # 0 OBVIOUS
<1>6. x - 1 \in Nat BY <1>5
<1>7. x - 1 \notin T BY <1>4, <1>6
<1> QED BY <1>6, <1>7

\* g is the sum function up to n.
PartialSum(f, g, n) == g = [k \in 0..n |-> IF k = 0 THEN 0 ELSE g[k - 1] + f[k]]

(***************************************************************************)
(* Two partial sums agree where both are defined.                          *)
(***************************************************************************)
LEMMA PartialSumsAgree ==
    ASSUME NEW f, NEW g, NEW h, NEW n \in Nat, NEW m \in Nat,
           PartialSum(f, g, n), PartialSum(f, h, m)
    PROVE  \A k \in Nat : k <= n /\ k <= m => g[k] = h[k]
<1> DEFINE S == {k \in Nat : k <= n /\ k <= m => g[k] = h[k]}
<1>1. 0 \in S BY DEF PartialSum
<1>2. ASSUME NEW k \in Nat, k \in S PROVE k + 1 \in S
  <2> SUFFICES ASSUME k + 1 <= n, k + 1 <= m PROVE g[k + 1] = h[k + 1] OBVIOUS
  <2>1. g[k + 1] = g[k] + f[k + 1] BY DEF PartialSum
  <2>2. h[k + 1] = h[k] + f[k + 1] BY DEF PartialSum
  <2>3. g[k] = h[k] BY <1>2
  <2> QED BY <2>1, <2>2, <2>3
<1> HIDE DEF S
<1>3. Nat \subseteq S BY <1>1, <1>2, NatSetInduction
<1> QED BY <1>3 DEF S

(***************************************************************************)
(* Every length has a partial sum.                                         *)
(***************************************************************************)
LEMMA PartialSumExists ==
    ASSUME NEW f PROVE \A n \in Nat : \E g : PartialSum(f, g, n)
<1> DEFINE S == {n \in Nat : \E g : PartialSum(f, g, n)}
<1>1. 0 \in S
  <2> DEFINE g == [k \in 0..0 |-> 0]
  <2>1. PartialSum(f, g, 0) BY DEF PartialSum
  <2> QED BY <2>1
<1>2. ASSUME NEW n \in Nat, n \in S PROVE n + 1 \in S
  <2>1. PICK g : PartialSum(f, g, n) BY <1>2
  <2> DEFINE h == [k \in 0..(n + 1) |-> IF k = n + 1 THEN g[n] + f[n + 1] ELSE g[k]]
  <2>2. ASSUME NEW k \in 0..(n + 1)
        PROVE  h[k] = IF k = 0 THEN 0 ELSE h[k - 1] + f[k]
    <3>1. CASE k = 0 BY <2>1, <3>1 DEF PartialSum
    <3>2. CASE k = n + 1 BY <3>2
    <3>3. CASE k # 0 /\ k # n + 1
      <4>1. g[k] = g[k - 1] + f[k] BY <2>1, <3>3 DEF PartialSum
      <4>2. h[k] = g[k] /\ h[k - 1] = g[k - 1] BY <3>3
      <4> QED BY <3>3, <4>1, <4>2
    <3> QED BY <3>1, <3>2, <3>3
  <2>3. PartialSum(f, h, n + 1)
    <3> DEFINE hh == [k \in 0..(n + 1) |-> IF k = 0 THEN 0 ELSE h[k - 1] + f[k]]
    <3>1. \A k \in 0..(n + 1) : h[k] = hh[k] BY <2>2
    <3>2. h = hh BY <3>1
    <3> QED BY <3>2 DEF PartialSum
  <2> QED BY <2>3
<1> HIDE DEF S
<1>3. Nat \subseteq S BY <1>1, <1>2, NatSetInduction
<1> QED BY <1>3 DEF S

(***************************************************************************)
(* The recursion equation of SumTo has a solution, so SumTo satisfies it.  *)
(***************************************************************************)
LEMMA SumToEquation ==
    ASSUME NEW f
    PROVE  /\ SumTo(f)[0] = 0
           /\ \A n \in Nat : SumTo(f)[n + 1] = SumTo(f)[n] + f[n + 1]
<1> DEFINE G(n) == CHOOSE g : PartialSum(f, g, n)
           F == [n \in Nat |-> G(n)[n]]
           Body(s) == [n \in Nat |-> IF n = 0 THEN 0 ELSE s[n - 1] + f[n]]
<1>1. \A n \in Nat : PartialSum(f, G(n), n) BY PartialSumExists
<1> HIDE DEF G
<1>2. ASSUME NEW n \in Nat PROVE F[n] = IF n = 0 THEN 0 ELSE F[n - 1] + f[n]
  <2>1. PartialSum(f, G(n), n) BY <1>1
  <2>2. CASE n = 0 BY <2>1, <2>2 DEF PartialSum
  <2>3. CASE n # 0
    <3>1. n - 1 \in Nat /\ n - 1 <= n BY <2>3
    <3>2. PartialSum(f, G(n - 1), n - 1) BY <1>1, <3>1
    <3>3. G(n)[n - 1] = G(n - 1)[n - 1] BY <2>1, <3>1, <3>2, PartialSumsAgree
    <3>4. G(n)[n] = G(n)[n - 1] + f[n] BY <2>1, <2>3 DEF PartialSum
    <3> QED BY <2>3, <3>1, <3>3, <3>4
  <2> QED BY <2>2, <2>3
<1>3. F = Body(F)
  <2>1. \A n \in Nat : F[n] = Body(F)[n] BY <1>2
  <2> QED BY <2>1
<1> HIDE DEF F
<1>4. SumTo(f) = Body(SumTo(f))
  <2>1. SumTo(f) = CHOOSE s : s = Body(s) BY DEF SumTo
  <2> HIDE DEF Body
  <2> QED BY <1>3, <2>1
<1>5. \A n \in Nat : SumTo(f)[n] = Body(SumTo(f))[n] BY <1>4
<1> QED BY <1>5

(***************************************************************************)
(* Whatever starts at 0 and grows by f[k] at each k up to n is the sum.    *)
(***************************************************************************)
LEMMA SumToUnique ==
    ASSUME NEW f, NEW p, NEW n \in Nat,
           p[0] = 0, \A i \in 1..n : p[i] = p[i - 1] + f[i]
    PROVE  \A k \in 0..n : SumTo(f)[k] = p[k]
<1> DEFINE S == {k \in Nat : k <= n => SumTo(f)[k] = p[k]}
<1>1. 0 \in S BY SumToEquation
<1>2. ASSUME NEW k \in Nat, k \in S PROVE k + 1 \in S
  <2> SUFFICES ASSUME k + 1 <= n PROVE SumTo(f)[k + 1] = p[k + 1] OBVIOUS
  <2>1. SumTo(f)[k + 1] = SumTo(f)[k] + f[k + 1] BY SumToEquation
  <2>2. k + 1 \in 1..n /\ (k + 1) - 1 = k OBVIOUS
  <2>3. p[k + 1] = p[k] + f[k + 1] BY <2>2
  <2>4. SumTo(f)[k] = p[k] BY <1>2
  <2> QED BY <2>1, <2>3, <2>4
<1> HIDE DEF S
<1>3. Nat \subseteq S BY <1>1, <1>2, NatSetInduction
<1> QED BY <1>3 DEF S

(***************************************************************************)
(* The sum of integers is an integer, and each element adds itself.        *)
(***************************************************************************)
LEMMA SumToInt ==
    ASSUME NEW f, NEW n \in Nat, \A i \in 1..n : f[i] \in Int
    PROVE  /\ SumTo(f)[0] = 0
           /\ \A k \in 0..n : SumTo(f)[k] \in Int
           /\ \A k \in 1..n : SumTo(f)[k] = SumTo(f)[k - 1] + f[k]
<1> DEFINE S == {k \in Nat : k <= n => SumTo(f)[k] \in Int}
<1>1. 0 \in S BY SumToEquation
<1>2. ASSUME NEW k \in Nat, k \in S PROVE k + 1 \in S
  <2> SUFFICES ASSUME k + 1 <= n PROVE SumTo(f)[k + 1] \in Int OBVIOUS
  <2>1. SumTo(f)[k + 1] = SumTo(f)[k] + f[k + 1] BY SumToEquation
  <2>2. SumTo(f)[k] \in Int /\ f[k + 1] \in Int BY <1>2
  <2> QED BY <2>1, <2>2
<1> HIDE DEF S
<1>3. Nat \subseteq S BY <1>1, <1>2, NatSetInduction
<1>4. ASSUME NEW k \in 1..n PROVE SumTo(f)[k] = SumTo(f)[k - 1] + f[k]
  <2>1. k - 1 \in Nat /\ (k - 1) + 1 = k OBVIOUS
  <2> QED BY <2>1, SumToEquation
<1> QED BY <1>3, <1>4, SumToEquation DEF S

(***************************************************************************)
(* Appending an element adds it.                                           *)
(***************************************************************************)
LEMMA SumAppend ==
    ASSUME NEW f, NEW g, NEW n \in Nat,
           \A i \in 1..(n + 1) : g[i] \in Int,
           \A i \in 1..n : f[i] = g[i]
    PROVE  SumTo(g)[n + 1] = SumTo(f)[n] + g[n + 1]
<1>1. SumTo(g)[n + 1] = SumTo(g)[n] + g[n + 1] BY SumToEquation
<1>2. \A i \in 1..n : SumTo(g)[i] = SumTo(g)[i - 1] + f[i] BY SumToInt
<1> DEFINE p == SumTo(g)
<1>3. p[0] = 0 /\ \A i \in 1..n : p[i] = p[i - 1] + f[i] BY <1>2, SumToEquation
<1> HIDE DEF p
<1>4. \A k \in 0..n : SumTo(f)[k] = p[k] BY <1>3, SumToUnique
<1>5. SumTo(f)[n] = p[n] BY <1>4
<1> QED BY <1>1, <1>5 DEF p

(***************************************************************************)
(* Overwriting one element moves the sum by the difference.                *)
(***************************************************************************)
LEMMA SumReplace ==
    ASSUME NEW f, NEW g, NEW n \in Nat, NEW i \in 1..n,
           \A j \in 1..n : f[j] \in Int /\ g[j] \in Int,
           \A j \in 1..n : j # i => f[j] = g[j]
    PROVE  SumTo(g)[n] = SumTo(f)[n] + (g[i] - f[i])
<1> DEFINE p == [k \in 0..n |-> IF k < i THEN SumTo(f)[k]
                                ELSE SumTo(f)[k] + (g[i] - f[i])]
<1>0. /\ SumTo(f)[0] = 0
      /\ \A k \in 0..n : SumTo(f)[k] \in Int
      /\ \A k \in 1..n : SumTo(f)[k] = SumTo(f)[k - 1] + f[k]
  BY SumToInt
<1>1. p[0] = 0 BY <1>0
<1>2. ASSUME NEW k \in 1..n PROVE p[k] = p[k - 1] + g[k]
  <2>1. SumTo(f)[k] = SumTo(f)[k - 1] + f[k] /\ SumTo(f)[k - 1] \in Int BY <1>0
  <2>2. f[k] \in Int /\ g[k] \in Int /\ f[i] \in Int /\ g[i] \in Int OBVIOUS
  <2>3. CASE k < i BY <2>1, <2>3
  <2>4. CASE k = i BY <2>1, <2>2, <2>4
  <2>5. CASE k > i
    <3>1. f[k] = g[k] BY <2>5
    <3> QED BY <2>1, <2>2, <2>5, <3>1
  <2> QED BY <2>3, <2>4, <2>5
<1>3. p[n] = SumTo(f)[n] + (g[i] - f[i]) OBVIOUS
<1> HIDE DEF p
<1>4. \A k \in 0..n : SumTo(g)[k] = p[k] BY <1>1, <1>2, SumToUnique
<1>5. SumTo(g)[n] = p[n] BY <1>4
<1> QED BY <1>3, <1>5

(***************************************************************************)
(* Cutting one element out subtracts it.                                   *)
(***************************************************************************)
LEMMA SumCut ==
    ASSUME NEW f, NEW g, NEW n \in Nat, NEW i \in 1..n,
           \A j \in 1..n : f[j] \in Int,
           \A j \in 1..(n - 1) : g[j] = IF j < i THEN f[j] ELSE f[j + 1]
    PROVE  SumTo(g)[n - 1] = SumTo(f)[n] - f[i]
<1> DEFINE p == [k \in 0..(n - 1) |-> IF k < i THEN SumTo(f)[k]
                                      ELSE SumTo(f)[k + 1] - f[i]]
<1>0. /\ SumTo(f)[0] = 0
      /\ \A k \in 0..n : SumTo(f)[k] \in Int
      /\ \A k \in 1..n : SumTo(f)[k] = SumTo(f)[k - 1] + f[k]
  BY SumToInt
<1>1. p[0] = 0 BY <1>0
<1>2. ASSUME NEW k \in 1..(n - 1) PROVE p[k] = p[k - 1] + g[k]
  <2>1. /\ SumTo(f)[k] = SumTo(f)[k - 1] + f[k] /\ SumTo(f)[k - 1] \in Int
        /\ SumTo(f)[k + 1] = SumTo(f)[k] + f[k + 1] /\ SumTo(f)[k] \in Int
    <3>1. k \in 1..n /\ k + 1 \in 1..n /\ k - 1 \in 0..n /\ (k + 1) - 1 = k OBVIOUS
    <3> QED BY <1>0, <3>1
  <2>2. f[k] \in Int /\ f[i] \in Int /\ f[k + 1] \in Int OBVIOUS
  <2>3. CASE k < i BY <2>1, <2>3
  <2>4. CASE k >= i
    <3>1. g[k] = f[k + 1] BY <2>4
    <3>2. p[k] = SumTo(f)[k + 1] - f[i] BY <2>4
    <3>3. p[k - 1] = SumTo(f)[k] - f[i]
      <4>1. CASE k - 1 < i
        <5>1. k = i BY <2>4, <4>1
        <5> QED BY <2>1, <2>2, <5>1
      <4>2. CASE k - 1 >= i BY <4>2
      <4> QED BY <4>1, <4>2
    <3> QED BY <2>1, <2>2, <3>1, <3>2, <3>3
  <2> QED BY <2>3, <2>4
<1>3. p[n - 1] = SumTo(f)[n] - f[i]
  <2>1. f[i] \in Int OBVIOUS
  <2>2. CASE n - 1 < i
    <3>1. n = i BY <2>2
    <3>2. SumTo(f)[n] = SumTo(f)[n - 1] + f[n] /\ SumTo(f)[n - 1] \in Int BY <1>0
    <3> QED BY <2>1, <3>1, <3>2
  <2>3. CASE n - 1 >= i BY <2>3
  <2> QED BY <2>2, <2>3
<1> HIDE DEF p
<1>4. n - 1 \in Nat OBVIOUS
<1>5. SumTo(g)[n - 1] = p[n - 1] BY <1>1, <1>2, <1>4, SumToUnique
<1> QED BY <1>3, <1>5

\* f[1..m+w] is head[1..m] followed by tail[1..w].
IsSplit(f, head, tail, m, w) ==
    /\ m \in Nat /\ w \in Nat
    /\ \A j \in 1..(m + w) : f[j] \in Int
    /\ \A j \in 1..m : head[j] = f[j]
    /\ \A j \in 1..w : tail[j] = f[m + j]

(***************************************************************************)
(* A prefix and the rest add up to the whole.                              *)
(***************************************************************************)
LEMMA SumSplit ==
    ASSUME NEW f, NEW head, NEW tail, NEW m, NEW w, IsSplit(f, head, tail, m, w)
    PROVE  SumTo(tail)[w] = SumTo(f)[m + w] - SumTo(head)[m]
<1> DEFINE n == m + w
<1> USE DEF IsSplit
<1> DEFINE p == [k \in 0..w |-> SumTo(f)[m + k] - SumTo(f)[m]]
<1>0. /\ SumTo(f)[0] = 0
      /\ \A k \in 0..n : SumTo(f)[k] \in Int
      /\ \A k \in 1..n : SumTo(f)[k] = SumTo(f)[k - 1] + f[k]
  BY SumToInt
<1>1. p[0] = 0
  <2>1. SumTo(f)[m] \in Int BY <1>0
  <2> QED BY <2>1
<1>2. ASSUME NEW k \in 1..w PROVE p[k] = p[k - 1] + tail[k]
  <2>1. m + k \in 1..n /\ (m + k) - 1 = m + (k - 1) /\ m + (k - 1) \in 0..n /\ m \in 0..n
    OBVIOUS
  <2>2. SumTo(f)[m + k] = SumTo(f)[m + (k - 1)] + f[m + k] BY <1>0, <2>1
  <2>3. SumTo(f)[m + (k - 1)] \in Int /\ SumTo(f)[m] \in Int /\ f[m + k] \in Int
    BY <1>0, <2>1
  <2> QED BY <2>2, <2>3
<1>3. p[w] = SumTo(f)[n] - SumTo(f)[m] OBVIOUS
<1> HIDE DEF p
<1>4. \A k \in 0..w : SumTo(tail)[k] = p[k] BY <1>1, <1>2, SumToUnique
<1>5. SumTo(tail)[w] = p[w] BY <1>4
<1> DEFINE q == SumTo(f)
<1>6. q[0] = 0 /\ \A k \in 1..m : q[k] = q[k - 1] + head[k] BY <1>0
<1> HIDE DEF q
<1>7. \A k \in 0..m : SumTo(head)[k] = q[k] BY <1>6, SumToUnique
<1>8. SumTo(head)[m] = q[m] BY <1>7
<1> QED BY <1>3, <1>5, <1>8 DEF q

-----------------------------------------------------------------------------
(* Well-formed buffers. *)

Ascending(items, last) ==
    /\ \A i, j \in 1..Len(items) : i < j => items[i].seq < items[j].seq
    /\ \A i \in 1..Len(items) : items[i].seq \in 1..last

Coherent(items, bySeq, byID) ==
    /\ DOMAIN bySeq = {items[i].seq : i \in 1..Len(items)}
    /\ DOMAIN byID = {items[i].id : i \in 1..Len(items)} \ {NoId}
    /\ \A i \in 1..Len(items) :
         /\ bySeq[items[i].seq] = items[i]
         /\ items[i].id # NoId => byID[items[i].id] = items[i]

WellFormed(buf) ==
    /\ buf \in Buffer
    /\ Ascending(buf.items, buf.lastSeq)
    /\ Coherent(buf.items, buf.bySeq, buf.byID)
    /\ buf.bytes = sumItemBytes(buf.items)
    /\ buf.idKeyBytes = sumIdBytes(buf.items)

-----------------------------------------------------------------------------
(* Sizes and sums. *)

(***************************************************************************)
(* Sizes are natural numbers.                                              *)
(***************************************************************************)
LEMMA SizeType ==
    ASSUME NEW item \in Item
    PROVE  approxItemSize(item) \in Nat /\ IdLen[item.id] \in Nat
<1>1. IdLen[item.id] \in Nat BY DataAssumption DEF Item
<1>2. payloadAndRenderBytes(item) \in Nat
  BY DataAssumption DEF Item, payloadAndRenderBytes
<1>3. ItemOverhead \in Nat BY DataAssumption
<1> QED BY <1>1, <1>2, <1>3 DEF approxItemSize

Sizes(items) == [i \in 1..Len(items) |-> approxItemSize(items[i])]
IdSizes(items) == [i \in 1..Len(items) |-> IdLen[items[i].id]]

(***************************************************************************)
(* The two sums of a sequence of items, in terms of SumTo.                 *)
(***************************************************************************)
LEMMA SumsOfItems ==
    ASSUME NEW items \in Seq(Item)
    PROVE  /\ \A i \in 1..Len(items) : Sizes(items)[i] \in Nat /\ IdSizes(items)[i] \in Nat
           /\ sumItemBytes(items) = SumTo(Sizes(items))[Len(items)]
           /\ sumIdBytes(items) = SumTo(IdSizes(items))[Len(items)]
           /\ sumItemBytes(items) \in Int /\ sumIdBytes(items) \in Int
<1>1. \A i \in 1..Len(items) : Sizes(items)[i] \in Nat /\ IdSizes(items)[i] \in Nat
  BY SizeType DEF Sizes, IdSizes
<1>2. Len(items) \in Nat OBVIOUS
<1>3. Len(Sizes(items)) = Len(items) /\ Len(IdSizes(items)) = Len(items)
  <2>1. Sizes(items) \in [1..Len(items) -> Nat] /\ IdSizes(items) \in [1..Len(items) -> Nat]
    BY <1>1 DEF Sizes, IdSizes
  <2> QED BY <1>2, <2>1
<1>4. /\ sumItemBytes(items) = SumTo(Sizes(items))[Len(items)]
      /\ sumIdBytes(items) = SumTo(IdSizes(items))[Len(items)]
  BY <1>3 DEF sumItemBytes, sumIdBytes, SeqSum, Sizes, IdSizes
<1>5. \A i \in 1..Len(items) : Sizes(items)[i] \in Int /\ IdSizes(items)[i] \in Int BY <1>1
<1>6. Len(items) \in 0..Len(items) BY <1>2
<1>7. SumTo(Sizes(items))[Len(items)] \in Int BY <1>2, <1>5, <1>6, SumToInt
<1>8. SumTo(IdSizes(items))[Len(items)] \in Int BY <1>2, <1>5, <1>6, SumToInt
<1> QED BY <1>1, <1>4, <1>7, <1>8

(***************************************************************************)
(* An append adds the new item's bytes.                                    *)
(***************************************************************************)
LEMMA AppendSums ==
    ASSUME NEW items \in Seq(Item), NEW item \in Item
    PROVE  /\ sumItemBytes(Append(items, item)) = sumItemBytes(items) + approxItemSize(item)
           /\ sumIdBytes(Append(items, item)) = sumIdBytes(items) + IdLen[item.id]
<1> DEFINE n == Len(items)
           more == Append(items, item)
<1>1. more \in Seq(Item) /\ Len(more) = n + 1 /\ n \in Nat /\ n = Len(items)
      /\ more[n + 1] = item
      /\ \A i \in 1..n : more[i] = items[i]
  OBVIOUS
<1>2. n + 1 \in 1..(n + 1) /\ \A i \in 1..n : i \in 1..(n + 1) BY <1>1
<1> HIDE DEF n, more
<1>3. \A i \in 1..(n + 1) : Sizes(more)[i] \in Int /\ IdSizes(more)[i] \in Int
  BY <1>1, SumsOfItems
<1>4. \A i \in 1..n : Sizes(items)[i] = Sizes(more)[i] /\ IdSizes(items)[i] = IdSizes(more)[i]
  BY <1>1, <1>2 DEF Sizes, IdSizes
<1>5. Sizes(more)[n + 1] = approxItemSize(item) /\ IdSizes(more)[n + 1] = IdLen[item.id]
  BY <1>1, <1>2 DEF Sizes, IdSizes
<1>6. SumTo(Sizes(more))[n + 1] = SumTo(Sizes(items))[n] + Sizes(more)[n + 1]
  BY ZenonT(40), <1>1, <1>3, <1>4, SumAppend
<1>7. SumTo(IdSizes(more))[n + 1] = SumTo(IdSizes(items))[n] + IdSizes(more)[n + 1]
  BY ZenonT(40), <1>1, <1>3, <1>4, SumAppend
<1> QED BY <1>1, <1>5, <1>6, <1>7, SumsOfItems DEF more, n

(***************************************************************************)
(* Overwriting slot i moves the sums by the difference of the two items.   *)
(***************************************************************************)
LEMMA ReplaceSums ==
    ASSUME NEW items \in Seq(Item), NEW item \in Item, NEW i \in 1..Len(items)
    PROVE  LET new == [items EXCEPT ![i] = item] IN
           /\ sumItemBytes(new)
                = sumItemBytes(items) + (approxItemSize(item) - approxItemSize(items[i]))
           /\ sumIdBytes(new)
                = sumIdBytes(items) + (IdLen[item.id] - IdLen[items[i].id])
<1> DEFINE n == Len(items)
           new == [items EXCEPT ![i] = item]
<1>1. new \in Seq(Item) /\ Len(new) = n /\ n \in Nat /\ new[i] = item
      /\ \A j \in 1..n : j # i => new[j] = items[j]
  OBVIOUS
<1> HIDE DEF new
<1>2. \A j \in 1..n : /\ Sizes(items)[j] \in Int /\ Sizes(new)[j] \in Int
                      /\ IdSizes(items)[j] \in Int /\ IdSizes(new)[j] \in Int
  BY <1>1, SumsOfItems
<1>3. \A j \in 1..n : j # i => /\ Sizes(items)[j] = Sizes(new)[j]
                               /\ IdSizes(items)[j] = IdSizes(new)[j]
  BY <1>1 DEF Sizes, IdSizes
<1>4. /\ Sizes(new)[i] = approxItemSize(item) /\ IdSizes(new)[i] = IdLen[item.id]
      /\ Sizes(items)[i] = approxItemSize(items[i]) /\ IdSizes(items)[i] = IdLen[items[i].id]
  BY <1>1 DEF Sizes, IdSizes
<1>5. SumTo(Sizes(new))[n] = SumTo(Sizes(items))[n] + (Sizes(new)[i] - Sizes(items)[i])
  BY <1>1, <1>2, <1>3, SumReplace
<1>6. SumTo(IdSizes(new))[n] = SumTo(IdSizes(items))[n] + (IdSizes(new)[i] - IdSizes(items)[i])
  BY <1>1, <1>2, <1>3, SumReplace
<1>7. /\ sumItemBytes(new)
           = sumItemBytes(items) + (approxItemSize(item) - approxItemSize(items[i]))
      /\ sumIdBytes(new)
           = sumIdBytes(items) + (IdLen[item.id] - IdLen[items[i].id])
  BY <1>1, <1>4, <1>5, <1>6, SumsOfItems
<1> QED BY <1>7 DEF new

(***************************************************************************)
(* CutAt is a sequence of items; cutting slot i out subtracts its bytes.   *)
(***************************************************************************)
LEMMA CutSums ==
    ASSUME NEW items \in Seq(Item), NEW i \in 1..Len(items)
    PROVE  /\ CutAt(items, i) \in Seq(Item)
           /\ Len(CutAt(items, i)) = Len(items) - 1
           /\ sumItemBytes(CutAt(items, i)) = sumItemBytes(items) - approxItemSize(items[i])
           /\ sumIdBytes(CutAt(items, i)) = sumIdBytes(items) - IdLen[items[i].id]
<1> DEFINE n == Len(items)
           rest == CutAt(items, i)
<1>1. n \in Nat /\ n - 1 \in Nat OBVIOUS
<1>2. rest \in [1..(n - 1) -> Item] BY DEF CutAt
<1>3. rest \in Seq(Item) /\ Len(rest) = n - 1 BY <1>1, <1>2
<1>4. \A j \in 1..(n - 1) : rest[j] = IF j < i THEN items[j] ELSE items[j + 1] BY DEF CutAt
<1> HIDE DEF rest
<1>5. \A j \in 1..n : Sizes(items)[j] \in Int /\ IdSizes(items)[j] \in Int BY SumsOfItems
<1>6. \A j \in 1..(n - 1) :
        /\ Sizes(rest)[j] = IF j < i THEN Sizes(items)[j] ELSE Sizes(items)[j + 1]
        /\ IdSizes(rest)[j] = IF j < i THEN IdSizes(items)[j] ELSE IdSizes(items)[j + 1]
  BY <1>1, <1>3, <1>4 DEF Sizes, IdSizes
<1>7. Sizes(items)[i] = approxItemSize(items[i]) /\ IdSizes(items)[i] = IdLen[items[i].id]
  BY DEF Sizes, IdSizes
<1>8. SumTo(Sizes(rest))[n - 1] = SumTo(Sizes(items))[n] - Sizes(items)[i]
  BY <1>1, <1>5, <1>6, SumCut
<1>9. SumTo(IdSizes(rest))[n - 1] = SumTo(IdSizes(items))[n] - IdSizes(items)[i]
  BY <1>1, <1>5, <1>6, SumCut
<1>10. /\ sumItemBytes(rest) = sumItemBytes(items) - approxItemSize(items[i])
       /\ sumIdBytes(rest) = sumIdBytes(items) - IdLen[items[i].id]
  BY <1>3, <1>7, <1>8, <1>9, SumsOfItems
<1> QED BY <1>3, <1>10 DEF rest

(***************************************************************************)
(* Cutting off a prefix subtracts the prefix's bytes.                      *)
(***************************************************************************)
LEMMA PrefixSums ==
    ASSUME NEW items \in Seq(Item), NEW m \in 0..Len(items)
    PROVE  LET head == SubSeq(items, 1, m)
               rest == SubSeq(items, m + 1, Len(items)) IN
           /\ head \in Seq(Item) /\ rest \in Seq(Item)
           /\ Len(head) = m /\ Len(rest) = Len(items) - m
           /\ \A j \in 1..m : head[j] = items[j]
           /\ \A j \in 1..(Len(items) - m) : rest[j] = items[m + j]
           /\ sumItemBytes(rest) = sumItemBytes(items) - sumItemBytes(head)
           /\ sumIdBytes(rest) = sumIdBytes(items) - sumIdBytes(head)
<1> DEFINE n == Len(items)
           head == SubSeq(items, 1, m)
           rest == SubSeq(items, m + 1, n)
           w == n - m
<1>0. n \in Nat /\ m \in Nat /\ m <= n OBVIOUS
<1>1. head \in Seq(Item) /\ Len(head) = m /\ \A j \in 1..m : head[j] = items[j]
  <2>1. \A j \in 1..m : items[j] \in Item BY <1>0
  <2> QED BY <1>0, <2>1, SubSeqProperties
<1>2. rest \in Seq(Item) /\ Len(rest) = n - m /\ \A j \in 1..(n - m) : rest[j] = items[m + j]
  <2>1. \A j \in (m + 1)..n : items[j] \in Item BY <1>0
  <2>2. m + 1 \in Int /\ n \in Int BY <1>0
  <2>3. /\ rest \in Seq(Item)
        /\ Len(rest) = IF m + 1 <= n THEN n - (m + 1) + 1 ELSE 0
        /\ \A j \in 1..(n - (m + 1) + 1) : rest[j] = items[(m + 1) + j - 1]
    BY <2>1, <2>2, SubSeqProperties
  <2> HIDE DEF rest
  <2>4. n - (m + 1) + 1 = n - m BY <1>0
  <2>5. \A j \in 1..(n - m) : (m + 1) + j - 1 = m + j BY <1>0
  <2>6. Len(rest) = n - m BY <1>0, <2>3
  <2> QED BY <2>3, <2>4, <2>5, <2>6
<1> HIDE DEF head, rest
<1>9. w \in Nat /\ n = m + w BY <1>0
<1>3. \A j \in 1..n : Sizes(items)[j] \in Int /\ IdSizes(items)[j] \in Int BY SumsOfItems
<1>4. \A j \in 1..m : /\ Sizes(head)[j] = Sizes(items)[j]
                      /\ IdSizes(head)[j] = IdSizes(items)[j]
  BY <1>0, <1>1 DEF Sizes, IdSizes
<1>5. \A j \in 1..w : /\ Sizes(rest)[j] = Sizes(items)[m + j]
                      /\ IdSizes(rest)[j] = IdSizes(items)[m + j]
  BY <1>0, <1>2 DEF Sizes, IdSizes
<1>10. Len(rest) = w BY <1>2
<1> HIDE DEF w
<1>6. SumTo(Sizes(rest))[w] = SumTo(Sizes(items))[n] - SumTo(Sizes(head))[m]
  <2>1. IsSplit(Sizes(items), Sizes(head), Sizes(rest), m, w)
    BY <1>0, <1>3, <1>4, <1>5, <1>9 DEF IsSplit
  <2> QED BY <1>9, <2>1, SumSplit
<1>7. SumTo(IdSizes(rest))[w] = SumTo(IdSizes(items))[n] - SumTo(IdSizes(head))[m]
  <2>1. IsSplit(IdSizes(items), IdSizes(head), IdSizes(rest), m, w)
    BY <1>0, <1>3, <1>4, <1>5, <1>9 DEF IsSplit
  <2> QED BY <1>9, <2>1, SumSplit
<1>8. /\ sumItemBytes(rest) = sumItemBytes(items) - sumItemBytes(head)
      /\ sumIdBytes(rest) = sumIdBytes(items) - sumIdBytes(head)
  <2>1. /\ SumTo(Sizes(items))[n] \in Int /\ SumTo(Sizes(head))[m] \in Int
        /\ SumTo(IdSizes(items))[n] \in Int /\ SumTo(IdSizes(head))[m] \in Int
    BY <1>1, SumsOfItems
  <2> QED BY <1>1, <1>2, <1>6, <1>7, <1>10, SumsOfItems
<1> QED BY <1>1, <1>2, <1>8 DEF head, rest

-----------------------------------------------------------------------------
(* Index maps. *)

(***************************************************************************)
(* Put adds or overwrites one entry and stays within the type.             *)
(***************************************************************************)
LEMMA PutSeq ==
    ASSUME NEW f \in SeqMaps, NEW k \in Nat, NEW v \in Item
    PROVE  /\ Put(f, k, v) \in SeqMaps
           /\ DOMAIN Put(f, k, v) = DOMAIN f \cup {k}
           /\ Put(f, k, v)[k] = v
           /\ \A x \in DOMAIN f : x # k => Put(f, k, v)[x] = f[x]
<1>1. DOMAIN f \subseteq Nat /\ \A x \in DOMAIN f : f[x] \in Item BY DEF SeqMaps
<1>2. Put(f, k, v) \in [DOMAIN f \cup {k} -> Item] BY <1>1 DEF Put
<1>3. DOMAIN f \cup {k} \in SUBSET Nat BY <1>1
<1> QED BY <1>2, <1>3 DEF Put, SeqMaps

(***************************************************************************)
(* The same for the id map.                                                *)
(***************************************************************************)
LEMMA PutId ==
    ASSUME NEW f \in IdMaps, NEW k \in Ids, NEW v \in Item
    PROVE  /\ Put(f, k, v) \in IdMaps
           /\ DOMAIN Put(f, k, v) = DOMAIN f \cup {k}
           /\ Put(f, k, v)[k] = v
           /\ \A x \in DOMAIN f : x # k => Put(f, k, v)[x] = f[x]
<1>1. DOMAIN f \subseteq Ids /\ \A x \in DOMAIN f : f[x] \in Item BY DEF IdMaps
<1>2. Put(f, k, v) \in [DOMAIN f \cup {k} -> Item] BY <1>1 DEF Put
<1>3. DOMAIN f \cup {k} \in SUBSET Ids BY <1>1
<1> QED BY <1>2, <1>3 DEF Put, IdMaps

(***************************************************************************)
(* Without drops entries and stays within the type.                        *)
(***************************************************************************)
LEMMA WithoutSeq ==
    ASSUME NEW f \in SeqMaps, NEW K
    PROVE  /\ Without(f, K) \in SeqMaps
           /\ DOMAIN Without(f, K) = DOMAIN f \ K
           /\ \A x \in DOMAIN f \ K : Without(f, K)[x] = f[x]
<1>1. DOMAIN f \subseteq Nat /\ \A x \in DOMAIN f : f[x] \in Item BY DEF SeqMaps
<1>2. Without(f, K) \in [DOMAIN f \ K -> Item] BY <1>1 DEF Without
<1>3. DOMAIN f \ K \in SUBSET Nat BY <1>1
<1> QED BY <1>2, <1>3 DEF Without, SeqMaps

(***************************************************************************)
(* The same for the id map.                                                *)
(***************************************************************************)
LEMMA WithoutId ==
    ASSUME NEW f \in IdMaps, NEW K
    PROVE  /\ Without(f, K) \in IdMaps
           /\ DOMAIN Without(f, K) = DOMAIN f \ K
           /\ \A x \in DOMAIN f \ K : Without(f, K)[x] = f[x]
<1>1. DOMAIN f \subseteq Ids /\ \A x \in DOMAIN f : f[x] \in Item BY DEF IdMaps
<1>2. Without(f, K) \in [DOMAIN f \ K -> Item] BY <1>1 DEF Without
<1>3. DOMAIN f \ K \in SUBSET Ids BY <1>1
<1> QED BY <1>2, <1>3 DEF Without, IdMaps

(***************************************************************************)
(* The fields of a buffer, one by one.                                     *)
(***************************************************************************)
LEMMA BufferFields ==
    ASSUME NEW buf \in Buffer
    PROVE  /\ buf.items \in Seq(Item) /\ buf.byID \in IdMaps /\ buf.bySeq \in SeqMaps
           /\ buf.lastSeq \in Nat /\ buf.maxItems \in Nat
           /\ buf.bytes \in Int /\ buf.idKeyBytes \in Int
           /\ buf.detached \in BOOLEAN /\ buf.lastWriteTS \in Nat
BY DEF Buffer

(***************************************************************************)
(* No two items share an id: byID could not hold both.                     *)
(***************************************************************************)
LEMMA IdsDistinct ==
    ASSUME NEW items \in Seq(Item), NEW last, NEW bySeq, NEW byID,
           Ascending(items, last), Coherent(items, bySeq, byID),
           NEW i \in 1..Len(items), NEW j \in 1..Len(items), i # j
    PROVE  items[i].seq # items[j].seq /\ (items[i].id # NoId => items[i].id # items[j].id)
<1>1. items[i].seq # items[j].seq
  <2>1. items[i] \in Item /\ items[j] \in Item OBVIOUS
  <2>2. items[i].seq \in Nat /\ items[j].seq \in Nat BY <2>1 DEF Item
  <2>3. i < j \/ j < i OBVIOUS
  <2> QED BY <2>2, <2>3 DEF Ascending
<1>2. ASSUME items[i].id # NoId, items[i].id = items[j].id PROVE FALSE
  <2>1. byID[items[i].id] = items[i] /\ byID[items[j].id] = items[j] BY <1>2 DEF Coherent
  <2> QED BY <1>1, <1>2, <2>1
<1> QED BY <1>1, <1>2

-----------------------------------------------------------------------------
(* The operations keep a buffer well-formed. *)

(***************************************************************************)
(* Appending an item with the next seq and a fresh id.                     *)
(***************************************************************************)
LEMMA InsertKeepsWellFormed ==
    ASSUME NEW buf, WellFormed(buf), NEW item \in Item, item.seq = buf.lastSeq + 1,
           item.id = NoId \/ item.id \notin DOMAIN buf.byID
    PROVE  WellFormed(insertItem(buf, item))
<1> DEFINE new == insertItem(buf, item)
           n == Len(buf.items)
<1>0. buf \in Buffer BY DEF WellFormed
<1>1. /\ buf.items \in Seq(Item) /\ buf.byID \in IdMaps /\ buf.bySeq \in SeqMaps
      /\ buf.lastSeq \in Nat /\ buf.bytes \in Int /\ buf.idKeyBytes \in Int
  BY <1>0, BufferFields
<1>2. item.seq \in Nat /\ item.id \in Ids \cup {NoId} BY DEF Item
<1> DEFINE id == IF item.id = NoId THEN buf.byID ELSE Put(buf.byID, item.id, item)
           sq == Put(buf.bySeq, item.seq, item)
<1>3. new = [buf EXCEPT !.lastSeq = item.seq, !.items = Append(buf.items, item),
                        !.bySeq = sq, !.byID = id,
                        !.idKeyBytes = buf.idKeyBytes + IdLen[item.id],
                        !.bytes = buf.bytes + approxItemSize(item)]
  BY DEF insertItem
<1> HIDE DEF new
<1>4. /\ sq \in SeqMaps /\ DOMAIN sq = DOMAIN buf.bySeq \cup {item.seq}
      /\ sq[item.seq] = item
      /\ \A x \in DOMAIN buf.bySeq : x # item.seq => sq[x] = buf.bySeq[x]
  <2>1. buf.bySeq \in SeqMaps BY <1>1
  <2>2. item.seq \in Nat BY <1>2
  <2>3. sq \in SeqMaps BY <2>1, <2>2, PutSeq
  <2>6. DOMAIN sq = DOMAIN buf.bySeq \cup {item.seq} BY DEF Put
  <2>4. sq[item.seq] = item BY ZenonT(40), <2>1, <2>2, PutSeq
  <2>5. \A x \in DOMAIN buf.bySeq : x # item.seq => sq[x] = buf.bySeq[x]
    BY ZenonT(40), <2>1, <2>2, PutSeq
  <2> QED BY <2>3, <2>4, <2>5, <2>6
<1>5. /\ id \in IdMaps /\ DOMAIN id = DOMAIN buf.byID \cup ({item.id} \ {NoId})
      /\ item.id # NoId => id[item.id] = item
      /\ \A x \in DOMAIN buf.byID : x # item.id => id[x] = buf.byID[x]
  <2>1. CASE item.id = NoId
    <3>1. NoId \notin DOMAIN buf.byID BY DataAssumption, <1>1 DEF IdMaps
    <3> QED BY <1>1, <2>1, <3>1
  <2>2. CASE item.id # NoId
    <3>1. item.id \in Ids /\ {item.id} \ {NoId} = {item.id} BY <1>2, <2>2
    <3>2. id = Put(buf.byID, item.id, item) BY <2>2
    <3> HIDE DEF id
    <3>3. /\ id \in IdMaps /\ DOMAIN id = DOMAIN buf.byID \cup {item.id}
          /\ id[item.id] = item
          /\ \A x \in DOMAIN buf.byID : x # item.id => id[x] = buf.byID[x]
      <4>1. buf.byID \in IdMaps BY <1>1
      <4>2. item.id \in Ids BY <3>1
      <4>3. Put(buf.byID, item.id, item) \in IdMaps BY <4>1, <4>2, PutId
      <4>4. DOMAIN id = DOMAIN buf.byID \cup {item.id} BY <3>2 DEF Put
      <4>5. id[item.id] = item BY <3>2 DEF Put
      <4>6. \A x \in DOMAIN buf.byID : x # item.id => id[x] = buf.byID[x]
        BY <3>2 DEF Put
      <4> QED BY <3>2, <4>3, <4>4, <4>5, <4>6
    <3> QED BY <3>1, <3>3
  <2> QED BY <2>1, <2>2
<1>6. approxItemSize(item) \in Nat /\ IdLen[item.id] \in Nat BY SizeType
<1> HIDE DEF id, sq
<1>7. /\ new.items = Append(buf.items, item) /\ new.lastSeq = buf.lastSeq + 1
      /\ new.bySeq = sq /\ new.byID = id
      /\ new.bytes = buf.bytes + approxItemSize(item)
      /\ new.idKeyBytes = buf.idKeyBytes + IdLen[item.id]
  BY <1>0, <1>3 DEF Buffer
<1>8. new \in Buffer
  <2>1. Append(buf.items, item) \in Seq(Item) BY <1>1
  <2>2. /\ buf.bytes + approxItemSize(item) \in Int
        /\ buf.idKeyBytes + IdLen[item.id] \in Int
    BY <1>1, <1>6
  <2>3. sq \in SeqMaps /\ id \in IdMaps /\ item.seq \in Nat BY <1>2, <1>4, <1>5
  <2> QED BY <1>0, <1>3, <2>1, <2>2, <2>3 DEF Buffer
<1>9. /\ new.items \in Seq(Item) /\ Len(new.items) = n + 1 /\ n \in Nat
      /\ new.items[n + 1] = item /\ \A i \in 1..n : new.items[i] = buf.items[i]
      /\ n = Len(buf.items) /\ \A i \in 1..(n + 1) : i \in 1..n \/ i = n + 1
  BY <1>1, <1>7
<1> HIDE DEF n
<1>10. Ascending(new.items, new.lastSeq)
  <2>1. \A i \in 1..n : buf.items[i].seq \in 1..buf.lastSeq BY <1>9 DEF WellFormed, Ascending
  <2>2. \A i, j \in 1..n : i < j => buf.items[i].seq < buf.items[j].seq
    BY <1>9 DEF WellFormed, Ascending
  <2>3. ASSUME NEW i \in 1..(n + 1), NEW j \in 1..(n + 1), i < j
        PROVE  new.items[i].seq < new.items[j].seq
    <3>1. i \in 1..n /\ new.items[i] = buf.items[i] BY <1>9, <2>3
    <3>2. CASE j = n + 1 BY SMTT(40), <1>1, <1>9, <2>1, <3>1, <3>2
    <3>3. CASE j \in 1..n BY <1>9, <2>2, <2>3, <3>1, <3>3
    <3> QED BY <1>9, <3>2, <3>3
  <2>4. ASSUME NEW i \in 1..(n + 1) PROVE new.items[i].seq \in 1..(buf.lastSeq + 1)
    <3>1. CASE i = n + 1 BY <1>1, <1>9, <3>1
    <3>2. CASE i \in 1..n
      <4>1. new.items[i].seq \in 1..buf.lastSeq BY <1>9, <2>1, <3>2
      <4> QED BY <1>1, <4>1
    <3> QED BY <1>9, <3>1, <3>2
  <2> QED BY <1>7, <1>9, <2>3, <2>4 DEF Ascending
<1>11. Coherent(new.items, new.bySeq, new.byID)
  <2>1. Coherent(buf.items, buf.bySeq, buf.byID) BY DEF WellFormed
  <2>2. DOMAIN new.bySeq = {new.items[i].seq : i \in 1..Len(new.items)}
    BY <1>4, <1>7, <1>9, <2>1 DEF Coherent
  <2>3. DOMAIN new.byID = {new.items[i].id : i \in 1..Len(new.items)} \ {NoId}
    <3>1. DOMAIN new.byID = DOMAIN buf.byID \cup ({item.id} \ {NoId}) BY <1>5, <1>7
    <3>2. DOMAIN buf.byID = {buf.items[i].id : i \in 1..n} \ {NoId}
      BY <1>9, <2>1 DEF Coherent
    <3>3. {new.items[i].id : i \in 1..Len(new.items)}
            = {buf.items[i].id : i \in 1..n} \cup {item.id}
      BY SMTT(40), <1>9
    <3> QED BY <3>1, <3>2, <3>3
  <2>4. ASSUME NEW i \in 1..n
        PROVE  /\ new.bySeq[buf.items[i].seq] = buf.items[i]
               /\ buf.items[i].id # NoId => new.byID[buf.items[i].id] = buf.items[i]
    <3>1. buf.items[i].seq \in DOMAIN buf.bySeq /\ buf.items[i].seq # item.seq
      BY <1>1, <1>9, <2>1 DEF WellFormed, Ascending, Coherent
    <3>2. buf.bySeq[buf.items[i].seq] = buf.items[i] BY <1>9, <2>1 DEF Coherent
    <3>3. ASSUME buf.items[i].id # NoId
          PROVE  new.byID[buf.items[i].id] = buf.items[i]
      <4>1. buf.items[i].id \in DOMAIN buf.byID BY <1>9, <2>1, <3>3 DEF Coherent
      <4>2. buf.items[i].id # item.id BY <3>3, <4>1
      <4>3. buf.byID[buf.items[i].id] = buf.items[i] BY <1>9, <2>1, <3>3 DEF Coherent
      <4>4. id[buf.items[i].id] = buf.byID[buf.items[i].id] BY <1>5, <4>1, <4>2
      <4>5. new.byID = id BY <1>7
      <4> QED BY <4>3, <4>4, <4>5
    <3> QED BY <1>4, <1>7, <3>1, <3>2, <3>3
  <2>5. new.bySeq[item.seq] = item /\ (item.id # NoId => new.byID[item.id] = item)
    <3>1. sq[item.seq] = item BY <1>4
    <3>2. item.id # NoId => id[item.id] = item BY <1>5
    <3>3. new.bySeq = sq /\ new.byID = id BY <1>7
    <3> QED BY <3>1, <3>2, <3>3
  <2>6. ASSUME NEW i \in 1..(n + 1)
        PROVE  /\ new.bySeq[new.items[i].seq] = new.items[i]
               /\ new.items[i].id # NoId => new.byID[new.items[i].id] = new.items[i]
    BY <1>9, <2>4, <2>5
  <2> QED BY <1>9, <2>2, <2>3, <2>6 DEF Coherent
<1>12. new.bytes = sumItemBytes(new.items) /\ new.idKeyBytes = sumIdBytes(new.items)
  BY <1>1, <1>7, AppendSums DEF WellFormed
<1> QED BY <1>8, <1>10, <1>11, <1>12 DEF WellFormed, new

(***************************************************************************)
(* Overwriting an entry of an index map stays within the type.             *)
(***************************************************************************)
LEMMA OverwriteSeq ==
    ASSUME NEW f \in SeqMaps, NEW k, NEW v \in Item
    PROVE  [f EXCEPT ![k] = v] \in SeqMaps
<1>1. PICK S \in SUBSET Nat : f \in [S -> Item] BY DEF SeqMaps
<1>2. [f EXCEPT ![k] = v] \in [S -> Item] BY <1>1
<1> QED BY <1>2 DEF SeqMaps

(***************************************************************************)
(* The same for the id map.                                                *)
(***************************************************************************)
LEMMA OverwriteId ==
    ASSUME NEW f \in IdMaps, NEW k, NEW v \in Item
    PROVE  [f EXCEPT ![k] = v] \in IdMaps
<1>1. PICK S \in SUBSET Ids : f \in [S -> Item] BY DEF IdMaps
<1>2. [f EXCEPT ![k] = v] \in [S -> Item] BY <1>1
<1> QED BY <1>2 DEF IdMaps

(***************************************************************************)
(* Overwriting slot i with an item of the same seq and id, when delta is   *)
(* the change of its size.                                                 *)
(***************************************************************************)
LEMMA SetItemKeepsWellFormed ==
    ASSUME NEW buf, WellFormed(buf), NEW i \in 1..Len(buf.items), NEW item \in Item,
           item.seq = buf.items[i].seq, item.id = buf.items[i].id,
           NEW delta, delta = approxItemSize(item) - approxItemSize(buf.items[i])
    PROVE  WellFormed(setItemAt(buf, i, item, delta))
<1> DEFINE new == setItemAt(buf, i, item, delta)
           n == Len(buf.items)
           its == [buf.items EXCEPT ![i] = item]
           sq == [buf.bySeq EXCEPT ![item.seq] = item]
           id == IF item.id = NoId THEN buf.byID ELSE [buf.byID EXCEPT ![item.id] = item]
<1>0. buf \in Buffer BY DEF WellFormed
<1>1. /\ buf.items \in Seq(Item) /\ buf.byID \in IdMaps /\ buf.bySeq \in SeqMaps
      /\ buf.lastSeq \in Nat /\ buf.bytes \in Int /\ buf.idKeyBytes \in Int
  BY <1>0, BufferFields
<1>2. /\ Ascending(buf.items, buf.lastSeq) /\ Coherent(buf.items, buf.bySeq, buf.byID)
      /\ buf.bytes = sumItemBytes(buf.items) /\ buf.idKeyBytes = sumIdBytes(buf.items)
  BY DEF WellFormed
<1>3. delta \in Int
  <2>1. buf.items[i] \in Item BY <1>1
  <2> QED BY <2>1, SizeType
<1>4. new = [buf EXCEPT !.items = its, !.bySeq = sq, !.byID = id, !.bytes = buf.bytes + delta]
  BY <1>0 DEF setItemAt, Buffer
<1>5. /\ its \in Seq(Item) /\ Len(its) = n /\ its[i] = item /\ n = Len(buf.items)
      /\ \A j \in 1..n : j # i => its[j] = buf.items[j]
  BY <1>1
<1>6. its[i].seq = buf.items[i].seq /\ its[i].id = buf.items[i].id BY <1>5
<1>7. \A j \in 1..n : its[j].seq = buf.items[j].seq /\ its[j].id = buf.items[j].id
  BY <1>5, <1>6
<1>8. sq \in SeqMaps
  <2>1. buf.bySeq \in SeqMaps BY <1>1
  <2> QED BY <2>1, OverwriteSeq
<1>9. id \in IdMaps BY <1>1, OverwriteId
<1>10. item.seq \in DOMAIN buf.bySeq /\ (item.id # NoId => item.id \in DOMAIN buf.byID)
  BY <1>2 DEF Coherent
<1>11. /\ DOMAIN sq = DOMAIN buf.bySeq /\ DOMAIN id = DOMAIN buf.byID
       /\ sq[item.seq] = item /\ (item.id # NoId => id[item.id] = item)
       /\ \A x \in DOMAIN buf.bySeq : x # item.seq => sq[x] = buf.bySeq[x]
       /\ \A x \in DOMAIN buf.byID : x # item.id => id[x] = buf.byID[x]
  BY <1>10
<1> HIDE DEF new, its, sq, id, n
<1>12. /\ new.items = its /\ new.bySeq = sq /\ new.byID = id
       /\ new.lastSeq = buf.lastSeq /\ new.bytes = buf.bytes + delta
       /\ new.idKeyBytes = buf.idKeyBytes
  BY <1>0, <1>4 DEF Buffer
<1>13. new \in Buffer
  <2>1. buf.bytes + delta \in Int BY <1>1, <1>3
  <2> QED BY <1>0, <1>4, <1>5, <1>8, <1>9, <2>1 DEF Buffer
<1>14. Ascending(new.items, new.lastSeq)
  <2>1. \A j \in 1..n : its[j].seq \in 1..buf.lastSeq BY <1>2, <1>5, <1>7 DEF Ascending
  <2>2. \A j, k \in 1..n : j < k => its[j].seq < its[k].seq
    BY <1>2, <1>5, <1>7 DEF Ascending
  <2> QED BY <1>5, <1>12, <2>1, <2>2 DEF Ascending
<1>15. Coherent(new.items, new.bySeq, new.byID)
  <2>1. DOMAIN sq = {its[j].seq : j \in 1..n}
    <3>1. DOMAIN sq = {buf.items[j].seq : j \in 1..n} BY <1>2, <1>5, <1>11 DEF Coherent
    <3> QED BY <1>7, <3>1
  <2>2. DOMAIN id = {its[j].id : j \in 1..n} \ {NoId}
    <3>1. DOMAIN id = {buf.items[j].id : j \in 1..n} \ {NoId}
      BY <1>2, <1>5, <1>11 DEF Coherent
    <3> QED BY <1>7, <3>1
  <2>3. ASSUME NEW j \in 1..n, j # i
        PROVE  /\ sq[buf.items[j].seq] = buf.items[j]
               /\ buf.items[j].id # NoId => id[buf.items[j].id] = buf.items[j]
    <3>1. /\ buf.items[i].seq # buf.items[j].seq
          /\ buf.items[i].id # NoId => buf.items[i].id # buf.items[j].id
      BY <1>1, <1>2, <1>5, <2>3, IdsDistinct
    <3>2. /\ buf.items[j].seq \in DOMAIN buf.bySeq
          /\ buf.bySeq[buf.items[j].seq] = buf.items[j]
      BY <1>2, <1>5 DEF Coherent
    <3>3. sq[buf.items[j].seq] = buf.items[j] BY <1>11, <3>1, <3>2
    <3>4. ASSUME buf.items[j].id # NoId PROVE id[buf.items[j].id] = buf.items[j]
      <4>1. /\ buf.items[j].id \in DOMAIN buf.byID
            /\ buf.byID[buf.items[j].id] = buf.items[j]
        BY <1>2, <1>5, <3>4 DEF Coherent
      <4>2. buf.items[j].id # item.id BY <3>1, <3>4
      <4> QED BY <1>11, <4>1, <4>2
    <3> QED BY <3>3, <3>4
  <2>4. ASSUME NEW j \in 1..n
        PROVE  /\ sq[its[j].seq] = its[j]
               /\ its[j].id # NoId => id[its[j].id] = its[j]
    <3>1. CASE j = i BY <1>5, <1>11, <3>1
    <3>2. CASE j # i BY <1>5, <2>3, <3>2
    <3> QED BY <3>1, <3>2
  <2> QED BY SMTT(40), <1>5, <1>12, <2>1, <2>2, <2>4 DEF Coherent
<1>16. new.bytes = sumItemBytes(new.items) /\ new.idKeyBytes = sumIdBytes(new.items)
  <2>1. buf.items[i] \in Item BY <1>1
  <2>2. /\ sumItemBytes(its)
             = sumItemBytes(buf.items) + (approxItemSize(item) - approxItemSize(buf.items[i]))
        /\ sumIdBytes(its) = sumIdBytes(buf.items) + (IdLen[item.id] - IdLen[buf.items[i].id])
    BY <1>1, ReplaceSums DEF its
  <2>3. IdLen[item.id] \in Nat BY SizeType
  <2> QED BY <1>1, <1>2, <1>12, <2>2, <2>3
<1> QED BY <1>13, <1>14, <1>15, <1>16 DEF WellFormed, new

(***************************************************************************)
(* rest is what stays of items when the slots of gone are cut out: slot j  *)
(* of rest was slot h[j] of items.                                         *)
(***************************************************************************)
Remains(items, gone, rest, h) ==
    /\ rest \in Seq(Item)
    /\ \A j \in 1..Len(rest) : h[j] \in 1..Len(items) /\ h[j] \notin gone
    /\ \A j \in 1..Len(rest) : rest[j] = items[h[j]]
    /\ \A j, k \in 1..Len(rest) : j < k => h[j] < h[k]
    /\ \A i \in 1..Len(items) : i \notin gone => \E j \in 1..Len(rest) : h[j] = i

(***************************************************************************)
(* Cutting slots out and dropping their seqs and ids from the maps leaves  *)
(* order and maps coherent: no kept item has the seq or id of a cut one.   *)
(***************************************************************************)
LEMMA RemainsCoherent ==
    ASSUME NEW items \in Seq(Item), NEW last, NEW bySeq \in SeqMaps, NEW byID \in IdMaps,
           Ascending(items, last), Coherent(items, bySeq, byID),
           NEW gone, gone \subseteq 1..Len(items), NEW rest, NEW h,
           Remains(items, gone, rest, h)
    PROVE  /\ Ascending(rest, last)
           /\ Coherent(rest, Without(bySeq, {items[i].seq : i \in gone}),
                             Without(byID, {items[i].id : i \in gone}))
<1> DEFINE seqs == {items[i].seq : i \in gone}
           ids == {items[i].id : i \in gone}
           m == Len(rest)
           sq == Without(bySeq, seqs)
           id == Without(byID, ids)
<1>1. /\ \A j \in 1..m : h[j] \in 1..Len(items) /\ h[j] \notin gone
      /\ \A j \in 1..m : rest[j] = items[h[j]]
      /\ \A j, k \in 1..m : j < k => h[j] < h[k]
      /\ \A i \in 1..Len(items) : i \notin gone => \E j \in 1..m : h[j] = i
  BY DEF Remains
<1>2. \A i \in 1..Len(items) : i \notin gone =>
         /\ items[i].seq \notin seqs
         /\ items[i].id # NoId => items[i].id \notin ids
  BY IdsDistinct
<1>3. Ascending(rest, last)
  <2>1. \A j \in 1..m : rest[j].seq \in 1..last BY <1>1 DEF Ascending
  <2>2. \A j, k \in 1..m : j < k => rest[j].seq < rest[k].seq
    <3>1. \A x, y \in 1..Len(items) : x < y => items[x].seq < items[y].seq BY DEF Ascending
    <3> QED BY SMTT(40), <1>1, <3>1
  <2> QED BY <2>1, <2>2 DEF Ascending
<1>4. /\ DOMAIN sq = DOMAIN bySeq \ seqs /\ DOMAIN id = DOMAIN byID \ ids
      /\ \A x \in DOMAIN sq : sq[x] = bySeq[x]
      /\ \A x \in DOMAIN id : id[x] = byID[x]
  BY DEF Without
<1>5. /\ DOMAIN bySeq = {items[i].seq : i \in 1..Len(items)}
      /\ DOMAIN byID = {items[i].id : i \in 1..Len(items)} \ {NoId}
      /\ \A i \in 1..Len(items) : bySeq[items[i].seq] = items[i]
      /\ \A i \in 1..Len(items) : items[i].id # NoId => byID[items[i].id] = items[i]
  BY DEF Coherent
<1>6. \A i \in gone : items[i].seq \in seqs /\ items[i].id \in ids OBVIOUS
<1> HIDE DEF seqs, ids, sq, id
<1>7. DOMAIN sq = {rest[j].seq : j \in 1..m}
  <2>1. \A x \in DOMAIN sq : \E i \in 1..Len(items) : i \notin gone /\ x = items[i].seq
    BY <1>4, <1>5, <1>6
  <2>2. \A x \in DOMAIN sq : \E j \in 1..m : x = rest[j].seq BY <1>1, <2>1
  <2>3. \A j \in 1..m : rest[j].seq \in DOMAIN sq BY <1>1, <1>2, <1>4, <1>5
  <2> QED BY <2>2, <2>3
<1>8. DOMAIN id = {rest[j].id : j \in 1..m} \ {NoId}
  <2>1. \A x \in DOMAIN id : \E i \in 1..Len(items) : i \notin gone /\ x = items[i].id
    BY <1>4, <1>5, <1>6
  <2>2. \A x \in DOMAIN id : \E j \in 1..m : x = rest[j].id BY <1>1, <2>1
  <2>3. NoId \notin DOMAIN id BY <1>4, <1>5
  <2>4. \A j \in 1..m : rest[j].id # NoId => rest[j].id \in DOMAIN id
    BY <1>1, <1>2, <1>4, <1>5
  <2> QED BY <2>2, <2>3, <2>4
<1>9. ASSUME NEW j \in 1..m
      PROVE  /\ sq[rest[j].seq] = rest[j]
             /\ rest[j].id # NoId => id[rest[j].id] = rest[j]
  <2>1. h[j] \in 1..Len(items) /\ rest[j] = items[h[j]] BY <1>1
  <2>2. rest[j].seq \in DOMAIN sq BY <1>7
  <2>3. rest[j].id # NoId => rest[j].id \in DOMAIN id BY <1>8
  <2>4. /\ bySeq[rest[j].seq] = rest[j]
        /\ rest[j].id # NoId => byID[rest[j].id] = rest[j]
    BY <1>5, <2>1
  <2>5. sq[rest[j].seq] = bySeq[rest[j].seq] BY <1>4, <2>2
  <2>6. rest[j].id # NoId => id[rest[j].id] = byID[rest[j].id] BY <1>4, <2>3
  <2> QED BY <2>4, <2>5, <2>6
<1>10. Coherent(rest, sq, id) BY <1>7, <1>8, <1>9 DEF Coherent
<1> QED BY <1>3, <1>10 DEF sq, id, seqs, ids

(***************************************************************************)
(* The reset of an emptied buffer touches nothing of a well-formed one.    *)
(***************************************************************************)
LEMMA ResetKeepsWellFormed ==
    ASSUME NEW buf, WellFormed(buf)
    PROVE  WellFormed(resetIfEmptyLocked(buf))
<1> DEFINE new == resetIfEmptyLocked(buf)
<1>0. buf \in Buffer BY DEF WellFormed
<1>1. CASE buf.items # <<>> BY <1>1 DEF resetIfEmptyLocked
<1>2. CASE buf.items = <<>>
  <2>1. new = [buf EXCEPT !.bySeq = EmptyMap, !.byID = EmptyMap, !.idKeyBytes = 0]
    BY <1>2 DEF resetIfEmptyLocked
  <2> HIDE DEF new
  <2>2. EmptyMap \in IdMaps /\ EmptyMap \in SeqMaps /\ DOMAIN EmptyMap = {}
    <3>1. EmptyMap \in [{} -> Item] /\ DOMAIN EmptyMap = {} BY DEF EmptyMap
    <3>2. {} \in SUBSET Ids /\ {} \in SUBSET Nat OBVIOUS
    <3>3. EmptyMap \in IdMaps BY <3>1, <3>2 DEF IdMaps
    <3>4. EmptyMap \in SeqMaps BY <3>1, <3>2 DEF SeqMaps
    <3> QED BY <3>1, <3>3, <3>4
  <2>3. new \in Buffer
    <3>1. EmptyMap \in IdMaps BY <2>2
    <3>2. EmptyMap \in SeqMaps BY <2>2
    <3> DEFINE z == 0
    <3>4. new = [buf EXCEPT !.bySeq = EmptyMap, !.byID = EmptyMap, !.idKeyBytes = z] BY <2>1
    <3>5. z \in Int OBVIOUS
    <3> HIDE DEF z
    <3> QED BY <1>0, <3>4, <3>1, <3>2, <3>5 DEF Buffer
  <2>4. /\ new.items = <<>> /\ new.lastSeq = buf.lastSeq /\ new.bytes = buf.bytes
        /\ new.bySeq = EmptyMap /\ new.byID = EmptyMap /\ new.idKeyBytes = 0
    BY <1>0, <1>2, <2>1 DEF Buffer
  <2>5. Ascending(new.items, new.lastSeq) BY <2>4 DEF Ascending
  <2>6. Coherent(new.items, new.bySeq, new.byID) BY <2>2, <2>4 DEF Coherent
  <2>7. new.idKeyBytes = sumIdBytes(new.items)
    <3>1. <<>> \in Seq(Item) /\ Len(<<>>) = 0 OBVIOUS
    <3>2. sumIdBytes(<<>>) = SumTo(IdSizes(<<>>))[0] BY <3>1, SumsOfItems
    <3> QED BY <2>4, <3>2, SumToEquation
  <2>8. new.bytes = sumItemBytes(new.items) BY <1>2, <2>4 DEF WellFormed
  <2> QED BY <2>3, <2>5, <2>6, <2>7, <2>8 DEF WellFormed, new
<1> QED BY <1>1, <1>2

(***************************************************************************)
(* Cutting slots out of the buffer, with their entries and their bytes.    *)
(***************************************************************************)
LEMMA CutKeepsWellFormed ==
    ASSUME NEW buf, WellFormed(buf), NEW gone, gone \subseteq 1..Len(buf.items),
           NEW rest, NEW h, Remains(buf.items, gone, rest, h),
           NEW seqs, seqs = {buf.items[i].seq : i \in gone},
           NEW ids, ids = {buf.items[i].id : i \in gone},
           NEW sub \in Int, sumItemBytes(rest) = buf.bytes - sub,
           NEW idsub \in Int, sumIdBytes(rest) = buf.idKeyBytes - idsub,
           NEW now \in Nat
    PROVE  WellFormed([buf EXCEPT !.items = rest, !.bySeq = Without(buf.bySeq, seqs),
                                  !.byID = Without(buf.byID, ids),
                                  !.idKeyBytes = buf.idKeyBytes - idsub,
                                  !.bytes = buf.bytes - sub, !.lastWriteTS = now])
<1> DEFINE sq == Without(buf.bySeq, seqs)
           id == Without(buf.byID, ids)
           idb == buf.idKeyBytes - idsub
           byt == buf.bytes - sub
           new == [buf EXCEPT !.items = rest, !.bySeq = sq, !.byID = id, !.idKeyBytes = idb,
                              !.bytes = byt, !.lastWriteTS = now]
<1>0. buf \in Buffer BY DEF WellFormed
<1>1. /\ buf.items \in Seq(Item) /\ buf.byID \in IdMaps /\ buf.bySeq \in SeqMaps
      /\ buf.lastSeq \in Nat /\ buf.bytes \in Int /\ buf.idKeyBytes \in Int
  BY <1>0, BufferFields
<1>2. sq \in SeqMaps BY <1>1, WithoutSeq
<1>3. id \in IdMaps BY <1>1, WithoutId
<1>4. rest \in Seq(Item) BY DEF Remains
<1>5. idb \in Int /\ byt \in Int BY <1>1
<1>6. Ascending(rest, buf.lastSeq) /\ Coherent(rest, sq, id)
  <2>1. Ascending(buf.items, buf.lastSeq) /\ Coherent(buf.items, buf.bySeq, buf.byID)
    BY DEF WellFormed
  <2>2. buf.items \in Seq(Item) BY <1>1
  <2>3. buf.bySeq \in SeqMaps BY <1>1
  <2>4. buf.byID \in IdMaps BY <1>1
  <2> QED BY <2>1, <2>2, <2>3, <2>4, RemainsCoherent
<1>7. byt = sumItemBytes(rest) /\ idb = sumIdBytes(rest) OBVIOUS
<1> HIDE DEF sq, id, idb, byt
<1>8. new \in Buffer
  <2>1. idb \in Int BY <1>5
  <2>2. byt \in Int BY <1>5
  <2> QED BY <1>0, <1>2, <1>3, <1>4, <2>1, <2>2 DEF Buffer
<1>9. /\ new.items = rest /\ new.bySeq = sq /\ new.byID = id /\ new.idKeyBytes = idb
      /\ new.bytes = byt /\ new.lastSeq = buf.lastSeq
  BY <1>0 DEF Buffer
<1> HIDE DEF new
<1>10. WellFormed(new) BY <1>6, <1>7, <1>8, <1>9 DEF WellFormed
<1> QED BY <1>10 DEF new, sq, id, idb, byt

(***************************************************************************)
(* Deleting the item in slot i.                                            *)
(***************************************************************************)
LEMMA DeleteIndexKeepsWellFormed ==
    ASSUME NEW buf, WellFormed(buf), NEW i \in 1..Len(buf.items), NEW now \in Nat
    PROVE  WellFormed(deleteIndexLocked(buf, i, now))
<1> DEFINE items == buf.items
           n == Len(items)
           rest == CutAt(items, i)
           h == [j \in 1..(n - 1) |-> IF j < i THEN j ELSE j + 1]
           sub == approxItemSize(items[i])
           idsub == IdLen[items[i].id]
           seqs == {items[i].seq}
           ids == {items[i].id}
<1>1. buf \in Buffer /\ items \in Seq(Item) /\ n \in Nat
  BY BufferFields DEF WellFormed
<1>2. rest \in Seq(Item) /\ Len(rest) = n - 1 BY <1>1, CutSums
<1>3. Remains(items, {i}, rest, h)
  <2>1. \A j \in 1..(n - 1) : h[j] \in 1..n /\ h[j] \notin {i} BY <1>1
  <2>2. \A j \in 1..(n - 1) : rest[j] = items[h[j]] BY <1>1 DEF CutAt
  <2>3. \A j, k \in 1..(n - 1) : j < k => h[j] < h[k] BY <1>1
  <2>4. ASSUME NEW k \in 1..n, k \notin {i} PROVE \E j \in 1..(n - 1) : h[j] = k
    <3>1. CASE k < i
      <4>1. k \in 1..(n - 1) /\ h[k] = k BY <1>1, <3>1
      <4> QED BY <4>1
    <3>2. CASE k > i
      <4>1. k - 1 \in 1..(n - 1) /\ h[k - 1] = k BY <1>1, <3>2
      <4> QED BY <4>1
    <3>3. k < i \/ k > i BY <1>1, <2>4
    <3> QED BY <3>1, <3>2, <3>3
  <2> HIDE DEF h, rest
  <2> QED BY <1>2, <2>1, <2>2, <2>3, <2>4 DEF Remains
<1>4. sub \in Int /\ idsub \in Int
  <2>1. items[i] \in Item BY <1>1
  <2> QED BY <2>1, SizeType
<1>5. sumItemBytes(rest) = buf.bytes - sub /\ sumIdBytes(rest) = buf.idKeyBytes - idsub
  BY <1>1, CutSums DEF WellFormed
<1>6. /\ seqs = {items[x].seq : x \in {i}} /\ ids = {items[x].id : x \in {i}}
      /\ {i} \subseteq 1..n
  OBVIOUS
<1>7. deleteIndexLocked(buf, i, now) =
        resetIfEmptyLocked([buf EXCEPT !.items = rest, !.bySeq = Without(buf.bySeq, seqs),
                                       !.byID = Without(buf.byID, ids),
                                       !.idKeyBytes = buf.idKeyBytes - idsub,
                                       !.bytes = buf.bytes - sub, !.lastWriteTS = now])
  BY <1>1 DEF deleteIndexLocked, Buffer
<1> HIDE DEF rest, h, sub, idsub, seqs, ids
<1>8. WellFormed([buf EXCEPT !.items = rest, !.bySeq = Without(buf.bySeq, seqs),
                             !.byID = Without(buf.byID, ids),
                             !.idKeyBytes = buf.idKeyBytes - idsub,
                             !.bytes = buf.bytes - sub, !.lastWriteTS = now])
  BY <1>3, <1>4, <1>5, <1>6, CutKeepsWellFormed
<1> QED BY <1>7, <1>8, ResetKeepsWellFormed

(***************************************************************************)
(* Draining the first m items.                                             *)
(***************************************************************************)
LEMMA DeletePrefixKeepsWellFormed ==
    ASSUME NEW buf, WellFormed(buf), NEW m \in 0..Len(buf.items), NEW now \in Nat
    PROVE  WellFormed(deletePrefix(buf, m, now))
<1> DEFINE items == buf.items
           n == Len(items)
           head == SubSeq(items, 1, m)
           rest == SubSeq(items, m + 1, n)
           h == [j \in 1..(n - m) |-> m + j]
           sub == sumItemBytes(head)
           idsub == sumIdBytes(head)
           seqs == {head[j].seq : j \in 1..m}
           ids == {head[j].id : j \in 1..m}
<1>1. buf \in Buffer /\ items \in Seq(Item) /\ n \in Nat /\ m \in Nat /\ m <= n
  BY BufferFields DEF WellFormed
<1>2. /\ head \in Seq(Item) /\ rest \in Seq(Item)
      /\ Len(head) = m /\ Len(rest) = n - m
      /\ \A j \in 1..m : head[j] = items[j]
      /\ \A j \in 1..(n - m) : rest[j] = items[m + j]
      /\ sumItemBytes(rest) = sumItemBytes(items) - sub
      /\ sumIdBytes(rest) = sumIdBytes(items) - idsub
  <2>1. items \in Seq(Item) BY <1>1
  <2> HIDE DEF items
  <2> QED BY <2>1, PrefixSums DEF items
<1>3. deletePrefix(buf, m, now) =
        resetIfEmptyLocked([buf EXCEPT !.items = rest, !.bySeq = Without(buf.bySeq, seqs),
                                       !.byID = Without(buf.byID, ids),
                                       !.idKeyBytes = buf.idKeyBytes - idsub,
                                       !.bytes = buf.bytes - sub, !.lastWriteTS = now])
  BY <1>1 DEF deletePrefix, Buffer
<1> HIDE DEF head, rest
<1>4. Remains(items, 1..m, rest, h)
  <2>1. \A j \in 1..(n - m) : h[j] \in 1..n /\ h[j] \notin 1..m BY <1>1
  <2>2. \A j \in 1..(n - m) : rest[j] = items[h[j]] BY <1>2
  <2>3. \A j, k \in 1..(n - m) : j < k => h[j] < h[k] BY <1>1
  <2>4. ASSUME NEW k \in 1..n, k \notin 1..m PROVE \E j \in 1..(n - m) : h[j] = k
    <3>1. k - m \in 1..(n - m) /\ h[k - m] = k BY <1>1, <2>4
    <3> QED BY <3>1
  <2> HIDE DEF h
  <2> QED BY <1>2, <2>1, <2>2, <2>3, <2>4 DEF Remains
<1>5. sub \in Int /\ idsub \in Int BY <1>2, SumsOfItems
<1>6. sumItemBytes(rest) = buf.bytes - sub /\ sumIdBytes(rest) = buf.idKeyBytes - idsub
  BY <1>2 DEF WellFormed
<1>7. /\ seqs = {items[x].seq : x \in 1..m} /\ ids = {items[x].id : x \in 1..m}
      /\ 1..m \subseteq 1..n
  <2>1. \A j \in 1..m : head[j] = items[j] BY <1>2
  <2>2. 1..m \subseteq 1..n BY <1>1
  <2> QED BY <2>1, <2>2
<1> HIDE DEF h, sub, idsub, seqs, ids
<1>8. WellFormed([buf EXCEPT !.items = rest, !.bySeq = Without(buf.bySeq, seqs),
                             !.byID = Without(buf.byID, ids),
                             !.idKeyBytes = buf.idKeyBytes - idsub,
                             !.bytes = buf.bytes - sub, !.lastWriteTS = now])
  BY <1>4, <1>5, <1>6, <1>7, CutKeepsWellFormed
<1> QED BY <1>3, <1>8, ResetKeepsWellFormed

(***************************************************************************)
(* A /warm batch without a repeated id becomes a list of items with seqs   *)
(* 1, 2, ... and distinct ids.                                             *)
(***************************************************************************)
LEMMA ReplacementItems ==
    ASSUME NEW inputs \in Seq(Input), ~DuplicateIds(inputs), NEW now \in Nat
    PROVE  LET items == replacementItems(inputs, now) IN
           /\ items \in Seq(Item) /\ Len(items) = Len(inputs)
           /\ \A i \in 1..Len(items) : items[i].seq = i
           /\ \A i, j \in 1..Len(items) :
                i # j /\ items[i].id # NoId => items[i].id # items[j].id
<1> DEFINE items == replacementItems(inputs, now)
           n == Len(inputs)
<1>1. n \in Nat OBVIOUS
<1>2. \A i \in 1..n : inputs[i] \in Input /\ inputs[i].id \in Ids \cup {NoId}
                        /\ inputs[i].payload \in Payloads
  <2>1. \A i \in 1..n : inputs[i] \in Input OBVIOUS
  <2> QED BY <2>1 DEF Input
<1>3. items \in [1..n -> Item]
  <2>1. \A i \in 1..n : [id |-> inputs[i].id, seq |-> i, ts |-> now,
                         payload |-> inputs[i].payload, counter |-> NoCell] \in Item
    BY <1>1, <1>2, DataAssumption DEF Item
  <2> QED BY <2>1 DEF replacementItems
<1>4. items \in Seq(Item) /\ Len(items) = n BY <1>1, <1>3
<1>5. \A i \in 1..n : items[i].seq = i /\ items[i].id = inputs[i].id
  BY DEF replacementItems
<1>6. \A i, j \in 1..n : i # j /\ inputs[i].id # NoId => inputs[i].id # inputs[j].id
  <2>1. DOMAIN inputs = 1..n OBVIOUS
  <2> QED BY <2>1 DEF DuplicateIds
<1> HIDE DEF items
<1>7. /\ \A i \in 1..Len(items) : items[i].seq = i
      /\ \A i, j \in 1..Len(items) :
           i # j /\ items[i].id # NoId => items[i].id # items[j].id
  BY <1>4, <1>5, <1>6
<1> QED BY <1>4, <1>7 DEF items

(***************************************************************************)
(* Committing such items, with their bytes, gives a well-formed buffer     *)
(* whatever the buffer held before.                                        *)
(***************************************************************************)
LEMMA CommitKeepsWellFormed ==
    ASSUME NEW buf \in Buffer, NEW items \in Seq(Item), NEW now \in Nat,
           \A i \in 1..Len(items) : items[i].seq = i,
           \A i, j \in 1..Len(items) :
              i # j /\ items[i].id # NoId => items[i].id # items[j].id,
           NEW newBytes, newBytes = sumItemBytes(items)
    PROVE  WellFormed(commitItems(buf, items, newBytes, now))
<1> DEFINE n == Len(items)
           sq == MapBySeq(items)
           id == MapByID(items)
           idb == sumIdBytes(items)
           new == commitItems(buf, items, newBytes, now)
<1>1. n \in Nat /\ \A i \in 1..n : items[i] \in Item OBVIOUS
<1>2. sq \in SeqMaps /\ DOMAIN sq = 1..n /\ \A i \in 1..n : sq[i] = items[i]
  <2>1. sq \in [1..n -> Item] BY <1>1 DEF MapBySeq
  <2>2. 1..n \in SUBSET Nat BY <1>1
  <2> QED BY <2>1, <2>2 DEF MapBySeq, SeqMaps
<1>3. /\ DOMAIN id = {items[i].id : i \in 1..n} \ {NoId}
      /\ \A i \in 1..n : items[i].id # NoId => id[items[i].id] = items[i]
      /\ id \in IdMaps
  <2> DEFINE K == {items[i].id : i \in 1..n} \ {NoId}
             at(k) == CHOOSE i \in 1..n : items[i].id = k
  <2>1. \A k \in K : at(k) \in 1..n /\ items[at(k)].id = k
    <3>1. \A k \in K : \E i \in 1..n : items[i].id = k OBVIOUS
    <3> QED BY <3>1
  <2>2. K \in SUBSET Ids
    <3>1. \A i \in 1..n : items[i].id \in Ids \cup {NoId} BY <1>1 DEF Item
    <3> QED BY <3>1
  <2>3. id = [k \in K |-> items[at(k)]] BY DEF MapByID
  <2>4. \A i \in 1..n : items[i].id # NoId => items[i].id \in K OBVIOUS
  <2> HIDE DEF id, K, at
  <2>5. id \in [K -> Item] BY <1>1, <2>1, <2>3
  <2>6. id \in IdMaps BY <2>2, <2>5 DEF IdMaps
  <2>7. ASSUME NEW i \in 1..n, items[i].id # NoId PROVE id[items[i].id] = items[i]
    <3>1. items[i].id \in K BY <2>4, <2>7
    <3>2. at(items[i].id) \in 1..n /\ items[at(items[i].id)].id = items[i].id BY <2>1, <3>1
    <3>3. at(items[i].id) = i BY <2>7, <3>2
    <3>4. id[items[i].id] = items[at(items[i].id)] BY <2>3, <3>1
    <3> QED BY <3>3, <3>4
  <2>8. DOMAIN id = K BY <2>3
  <2> QED BY <2>6, <2>7, <2>8 DEF K
<1>4. idb \in Int /\ newBytes \in Int BY SumsOfItems
<1>5. new = [buf EXCEPT !.items = items, !.byID = id, !.bySeq = sq, !.lastSeq = n,
                        !.bytes = newBytes, !.idKeyBytes = idb, !.lastWriteTS = now]
  BY DEF commitItems
<1>6. idb = sumIdBytes(items) OBVIOUS
<1> HIDE DEF sq, id, idb, new
<1>7. new \in Buffer
  <2>1. id \in IdMaps BY <1>3
  <2>2. sq \in SeqMaps BY <1>2
  <2>3. n \in Nat BY <1>1
  <2>4. idb \in Int BY <1>4
  <2>5. newBytes \in Int BY <1>4
  <2> HIDE DEF n
  <2> QED BY <1>5, <2>1, <2>2, <2>3, <2>4, <2>5 DEF Buffer
<1>8. /\ new.items = items /\ new.byID = id /\ new.bySeq = sq /\ new.lastSeq = n
      /\ new.bytes = newBytes /\ new.idKeyBytes = idb
  BY <1>5 DEF Buffer
<1>9. Ascending(items, n) BY <1>1 DEF Ascending
<1>10. Coherent(items, sq, id)
  <2>1. DOMAIN sq = {items[i].seq : i \in 1..n} BY <1>2
  <2>2. \A i \in 1..n : sq[items[i].seq] = items[i] BY <1>2
  <2> QED BY <1>3, <2>1, <2>2 DEF Coherent
<1> QED BY <1>6, <1>7, <1>8, <1>9, <1>10 DEF WellFormed, new

-----------------------------------------------------------------------------
(* Searches. *)

(***************************************************************************)
(* The binary search always has an answer.                                 *)
(***************************************************************************)
LEMMA SearchAnswer ==
    ASSUME NEW items \in Seq(Item), NEW seq \in Int
    PROVE  LET k == SearchAtLeast(items, seq) IN
           /\ k \in 1..(Len(items) + 1)
           /\ \A j \in 1..(k - 1) : items[j].seq < seq
           /\ k <= Len(items) => items[k].seq >= seq
<1> DEFINE n == Len(items)
           Splits(i, m) == /\ \A j \in 1..(i - 1) : items[j].seq < seq
                           /\ i <= m => items[i].seq >= seq
           S == {m \in Nat : m <= n => \E i \in 1..(m + 1) : Splits(i, m)}
<1>1. n \in Nat /\ \A j \in 1..n : items[j].seq \in Nat
  <2>1. \A j \in 1..n : items[j] \in Item OBVIOUS
  <2> QED BY <2>1 DEF Item
<1>2. 0 \in S
  <2>1. Splits(1, 0) OBVIOUS
  <2>2. 1 \in 1..(0 + 1) OBVIOUS
  <2> QED BY <2>1, <2>2
<1>3. ASSUME NEW m \in Nat, m \in S PROVE m + 1 \in S
  <2> SUFFICES ASSUME m + 1 <= n PROVE \E i \in 1..(m + 2) : Splits(i, m + 1) OBVIOUS
  <2>1. PICK i \in 1..(m + 1) : Splits(i, m) BY <1>3
  <2>2. CASE i <= m \/ items[m + 1].seq >= seq
    <3>1. Splits(i, m + 1) BY <2>1, <2>2
    <3> QED BY <3>1
  <2>3. CASE i = m + 1 /\ items[m + 1].seq < seq
    <3>1. \A j \in 1..(m + 1) : items[j].seq < seq BY <2>1, <2>3
    <3>2. Splits(m + 2, m + 1) BY <3>1
    <3> QED BY <3>2
  <2>4. items[m + 1].seq \in Nat BY <1>1
  <2>5. i <= m \/ i = m + 1 OBVIOUS
  <2>6. items[m + 1].seq >= seq \/ items[m + 1].seq < seq BY <2>4
  <2> HIDE DEF Splits
  <2> QED BY <2>2, <2>3, <2>5, <2>6
<1>4. n \in S
  <2> HIDE DEF S, n
  <2> QED BY <1>1, <1>2, <1>3, NatSetInduction
<1>5. \E i \in 1..(n + 1) : Splits(i, n) BY <1>1, <1>4
<1> QED BY <1>5 DEF SearchAtLeast

(***************************************************************************)
(* Searching for the seq of a live item finds that item's slot.            *)
(***************************************************************************)
LEMMA SearchFinds ==
    ASSUME NEW items \in Seq(Item), NEW last, Ascending(items, last),
           NEW i \in 1..Len(items)
    PROVE  SearchAtLeast(items, items[i].seq) = i
<1> DEFINE k == SearchAtLeast(items, items[i].seq)
<1>1. \A j \in 1..Len(items) : items[j].seq \in Nat
  <2>1. \A j \in 1..Len(items) : items[j] \in Item OBVIOUS
  <2> QED BY <2>1 DEF Item
<1>2. /\ k \in 1..(Len(items) + 1)
      /\ \A j \in 1..(k - 1) : items[j].seq < items[i].seq
      /\ k <= Len(items) => items[k].seq >= items[i].seq
  <2>1. items[i].seq \in Int BY <1>1
  <2> QED BY <2>1, SearchAnswer
<1> HIDE DEF k
<1>3. CASE i < k
  <2>1. i \in 1..(k - 1) BY <1>2, <1>3
  <2> QED BY <1>1, <1>2, <2>1
<1>4. CASE k < i
  <2>1. k \in 1..Len(items) /\ items[k].seq < items[i].seq BY <1>2, <1>4 DEF Ascending
  <2> QED BY <1>1, <1>2, <2>1
<1>5. i < k \/ k < i \/ k = i BY <1>2
<1> QED BY <1>3, <1>4, <1>5 DEF k

(***************************************************************************)
(* The item a map returns sits in the slice, in the slot the search finds. *)
(***************************************************************************)
LEMMA LookupFinds ==
    ASSUME NEW buf, WellFormed(buf), NEW existing,
           \/ \E k \in DOMAIN buf.byID : existing = buf.byID[k]
           \/ \E s \in DOMAIN buf.bySeq : existing = buf.bySeq[s]
    PROVE  LET i == SearchAtLeast(buf.items, existing.seq) IN
           i \in 1..Len(buf.items) /\ buf.items[i] = existing
<1>1. \E i \in 1..Len(buf.items) : buf.items[i] = existing BY DEF WellFormed, Coherent
<1>2. PICK i \in 1..Len(buf.items) : buf.items[i] = existing BY <1>1
<1>3. buf.items \in Seq(Item) /\ Ascending(buf.items, buf.lastSeq)
  BY BufferFields DEF WellFormed
<1>4. SearchAtLeast(buf.items, existing.seq) = i BY <1>2, <1>3, SearchFinds
<1> QED BY <1>2, <1>4

-----------------------------------------------------------------------------
(* The empty buffer, and what else the operations do to a buffer's fields. *)

(***************************************************************************)
(* A new scope's buffer is well-formed.                                    *)
(***************************************************************************)
LEMMA NewBufferWellFormed ==
    ASSUME NEW maxItems \in Nat, NEW now \in Nat
    PROVE  WellFormed(newscopeBuffer(maxItems, now))
<1> DEFINE new == newscopeBuffer(maxItems, now)
<1>1. EmptyMap \in IdMaps /\ EmptyMap \in SeqMaps /\ DOMAIN EmptyMap = {}
  <2>1. EmptyMap \in [{} -> Item] /\ DOMAIN EmptyMap = {} BY DEF EmptyMap
  <2>2. {} \in SUBSET Ids /\ {} \in SUBSET Nat OBVIOUS
  <2>3. EmptyMap \in IdMaps BY <2>1, <2>2 DEF IdMaps
  <2>4. EmptyMap \in SeqMaps BY <2>1, <2>2 DEF SeqMaps
  <2> QED BY <2>1, <2>3, <2>4
<1>2. <<>> \in Seq(Item) /\ Len(<<>>) = 0 OBVIOUS
<1>3. new \in Buffer
  <2>1. EmptyMap \in IdMaps BY <1>1
  <2>2. EmptyMap \in SeqMaps BY <1>1
  <2> QED BY <1>2, <2>1, <2>2 DEF newscopeBuffer, Buffer
<1>4. sumItemBytes(<<>>) = 0 /\ sumIdBytes(<<>>) = 0
  <2>1. sumItemBytes(<<>>) = SumTo(Sizes(<<>>))[0] /\ sumIdBytes(<<>>) = SumTo(IdSizes(<<>>))[0]
    BY <1>2, SumsOfItems
  <2> QED BY <2>1, SumToEquation
<1>5. /\ new.items = <<>> /\ new.bySeq = EmptyMap /\ new.byID = EmptyMap
      /\ new.bytes = 0 /\ new.idKeyBytes = 0
  BY DEF newscopeBuffer
<1> HIDE DEF new
<1>6. Ascending(new.items, new.lastSeq) BY <1>5 DEF Ascending
<1>7. Coherent(new.items, new.bySeq, new.byID) BY <1>1, <1>5 DEF Coherent
<1> QED BY <1>3, <1>4, <1>5, <1>6, <1>7 DEF WellFormed, new

(***************************************************************************)
(* Stamping or detaching a buffer leaves it well-formed.                   *)
(***************************************************************************)
LEMMA StampKeepsWellFormed ==
    ASSUME NEW buf, WellFormed(buf), NEW ts \in Nat
    PROVE  /\ WellFormed([buf EXCEPT !.lastWriteTS = ts])
           /\ WellFormed([buf EXCEPT !.detached = TRUE])
<1> DEFINE new == [buf EXCEPT !.lastWriteTS = ts]
           det == [buf EXCEPT !.detached = TRUE]
<1>1. buf \in Buffer BY DEF WellFormed
<1>2. new \in Buffer /\ det \in Buffer BY <1>1 DEF Buffer
<1>3. /\ new.items = buf.items /\ new.bySeq = buf.bySeq /\ new.byID = buf.byID
      /\ new.lastSeq = buf.lastSeq /\ new.bytes = buf.bytes
      /\ new.idKeyBytes = buf.idKeyBytes
  BY <1>1 DEF Buffer
<1>4. /\ det.items = buf.items /\ det.bySeq = buf.bySeq /\ det.byID = buf.byID
      /\ det.lastSeq = buf.lastSeq /\ det.bytes = buf.bytes
      /\ det.idKeyBytes = buf.idKeyBytes
  BY <1>1 DEF Buffer
<1> HIDE DEF new, det
<1>5. WellFormed(new) BY <1>2, <1>3 DEF WellFormed
<1>6. WellFormed(det) BY <1>2, <1>4 DEF WellFormed
<1> QED BY <1>5, <1>6 DEF new, det

(***************************************************************************)
(* new is a live buffer that took over from old with dB more bytes and dI  *)
(* more items: what a store-wide counter has to follow.                    *)
(***************************************************************************)
Follows(new, old, dB, dI) ==
    /\ WellFormed(new)
    /\ new.maxItems = old.maxItems /\ new.detached = old.detached
    /\ dB \in Int /\ new.bytes = old.bytes + dB
    /\ dI \in Int /\ Len(new.items) = Len(old.items) + dI

(***************************************************************************)
(* Stamping does not disturb it.                                           *)
(***************************************************************************)
LEMMA StampFollows ==
    ASSUME NEW old, NEW new, NEW dB, NEW dI, Follows(new, old, dB, dI), NEW ts \in Nat
    PROVE  Follows([new EXCEPT !.lastWriteTS = ts], old, dB, dI)
<1>1. WellFormed([new EXCEPT !.lastWriteTS = ts]) BY StampKeepsWellFormed DEF Follows
<1>2. new \in Buffer BY DEF Follows, WellFormed
<1> QED BY <1>1, <1>2 DEF Follows, Buffer

(***************************************************************************)
(* Insertion.                                                              *)
(***************************************************************************)
LEMMA InsertFollows ==
    ASSUME NEW buf, WellFormed(buf), NEW item \in Item, item.seq = buf.lastSeq + 1,
           item.id = NoId \/ item.id \notin DOMAIN buf.byID
    PROVE  Follows(insertItem(buf, item), buf, approxItemSize(item), 1)
<1> DEFINE new == insertItem(buf, item)
<1>1. WellFormed(new) BY InsertKeepsWellFormed
<1>2. buf \in Buffer /\ buf.items \in Seq(Item) BY BufferFields DEF WellFormed
<1>3. /\ new.maxItems = buf.maxItems /\ new.detached = buf.detached
      /\ new.bytes = buf.bytes + approxItemSize(item)
      /\ new.items = Append(buf.items, item)
  BY <1>2 DEF insertItem, Buffer
<1>4. Len(new.items) = Len(buf.items) + 1 BY <1>2, <1>3
<1>5. approxItemSize(item) \in Int BY SizeType
<1> HIDE DEF new
<1>6. Follows(new, buf, approxItemSize(item), 1) BY <1>1, <1>3, <1>4, <1>5 DEF Follows
<1> QED BY <1>6 DEF new

(***************************************************************************)
(* Overwriting a slot.                                                     *)
(***************************************************************************)
LEMMA SetItemFollows ==
    ASSUME NEW buf, WellFormed(buf), NEW i \in 1..Len(buf.items), NEW item \in Item,
           item.seq = buf.items[i].seq, item.id = buf.items[i].id,
           NEW delta, delta = approxItemSize(item) - approxItemSize(buf.items[i])
    PROVE  Follows(setItemAt(buf, i, item, delta), buf, delta, 0)
<1> DEFINE new == setItemAt(buf, i, item, delta)
<1>1. WellFormed(new) BY SetItemKeepsWellFormed
<1>2. buf \in Buffer /\ buf.items \in Seq(Item) BY BufferFields DEF WellFormed
<1>3. /\ new.maxItems = buf.maxItems /\ new.detached = buf.detached
      /\ new.bytes = buf.bytes + delta
      /\ new.items = [buf.items EXCEPT ![i] = item]
  BY <1>2 DEF setItemAt, Buffer
<1>4. Len(new.items) = Len(buf.items) + 0 BY <1>2, <1>3
<1>5. delta \in Int
  <2>1. buf.items[i] \in Item BY <1>2
  <2> QED BY <2>1, SizeType
<1> HIDE DEF new
<1>6. Follows(new, buf, delta, 0) BY <1>1, <1>3, <1>4, <1>5 DEF Follows
<1> QED BY <1>6 DEF new

(***************************************************************************)
(* Deletes.                                                                *)
(***************************************************************************)
LEMMA DeleteIndexFollows ==
    ASSUME NEW buf, WellFormed(buf), NEW i \in 1..Len(buf.items), NEW now \in Nat
    PROVE  Follows(deleteIndexLocked(buf, i, now), buf, -approxItemSize(buf.items[i]), -1)
<1> DEFINE new == deleteIndexLocked(buf, i, now)
<1>1. WellFormed(new) BY DeleteIndexKeepsWellFormed
<1>2. buf \in Buffer /\ buf.items \in Seq(Item) BY BufferFields DEF WellFormed
<1>3. approxItemSize(buf.items[i]) \in Int
  <2>1. buf.items[i] \in Item BY <1>2
  <2> QED BY <2>1, SizeType
<1>4. /\ new.maxItems = buf.maxItems /\ new.detached = buf.detached
      /\ new.bytes = buf.bytes - approxItemSize(buf.items[i])
      /\ new.items = CutAt(buf.items, i)
  BY <1>2 DEF deleteIndexLocked, resetIfEmptyLocked, Buffer
<1>5. Len(new.items) = Len(buf.items) - 1 BY <1>2, <1>4, CutSums
<1>6. buf.bytes \in Int /\ Len(buf.items) \in Nat BY <1>2 DEF Buffer
<1> HIDE DEF new
<1>7. Follows(new, buf, -approxItemSize(buf.items[i]), -1)
  BY <1>1, <1>3, <1>4, <1>5, <1>6 DEF Follows
<1> QED BY <1>7 DEF new

(***************************************************************************)
(* Drains.                                                                 *)
(***************************************************************************)
LEMMA DeletePrefixFollows ==
    ASSUME NEW buf, WellFormed(buf), NEW m \in 0..Len(buf.items), NEW now \in Nat
    PROVE  Follows(deletePrefix(buf, m, now), buf,
                   -sumItemBytes(SubSeq(buf.items, 1, m)), -m)
<1> DEFINE new == deletePrefix(buf, m, now)
           head == SubSeq(buf.items, 1, m)
           rest == SubSeq(buf.items, m + 1, Len(buf.items))
<1>1. WellFormed(new) BY DeletePrefixKeepsWellFormed
<1>2. buf \in Buffer /\ buf.items \in Seq(Item) BY BufferFields DEF WellFormed
<1>3. head \in Seq(Item) /\ Len(rest) = Len(buf.items) - m BY <1>2, PrefixSums
<1>4. sumItemBytes(head) \in Int BY <1>3, SumsOfItems
<1>5. /\ new.maxItems = buf.maxItems /\ new.detached = buf.detached
      /\ new.bytes = buf.bytes - sumItemBytes(head)
      /\ new.items = rest
  BY <1>2 DEF deletePrefix, resetIfEmptyLocked, Buffer
<1>6. buf.bytes \in Int /\ Len(buf.items) \in Nat /\ m \in Nat BY <1>2 DEF Buffer
<1> HIDE DEF new, rest, head
<1>7. -sumItemBytes(head) \in Int /\ new.bytes = buf.bytes + (-sumItemBytes(head))
  BY <1>4, <1>5, <1>6
<1>8. -m \in Int /\ Len(new.items) = Len(buf.items) + (-m)
  <2>1. new.items = rest BY <1>5
  <2>2. Len(new.items) = Len(buf.items) - m BY <1>3, <2>1
  <2>3. m \in Int /\ Len(buf.items) \in Int BY <1>6
  <2>4. \A x, y \in Int : -y \in Int /\ x - y = x + (-y) OBVIOUS
  <2> QED BY <2>2, <2>3, <2>4
<1>9. Follows(new, buf, -sumItemBytes(head), -m)
  BY <1>1, <1>5, <1>7, <1>8 DEF Follows
<1> QED BY <1>9 DEF new, head
=============================================================================
