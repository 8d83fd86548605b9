--------------------------- MODULE ListingProofs ---------------------------
(***************************************************************************)
(* Whatever is created, deleted, rebuilt or wiped during a walk over       *)
(* /scopelist, for any sharding and any page sizes: no name is listed      *)
(* twice, none out of order, and a scope that is there throughout is       *)
(* listed.                                                                 *)
(***************************************************************************)
EXTENDS Listing, FiniteSetTheorems, TLAPS

Types ==
    /\ present \in SUBSET Names /\ stable \in SUBSET Names
    /\ walk \in {"idle", "shards", "done"}
    /\ after \in Nat /\ shard \in 1..NumShards + 1
    /\ refs \in SUBSET Names /\ listed \in Seq(Names)

\* While the walk runs the cursor is no smaller than any name listed, and
\* the page being collected lies ahead of it.
CursorBetween ==
    /\ \A i \in DOMAIN listed : walk = "done" \/ listed[i] <= after
    /\ \A m \in refs : m > after

\* A stable scope ahead of the cursor is collected once its shard is passed.
StableCollected ==
    /\ walk = "idle" => after = 0 /\ shard = 1
    /\ stable \subseteq present
    /\ walk = "shards" =>
         \A m \in stable : m > after /\ ShardOf[m] < shard => m \in refs

Inv ==
    /\ Types
    /\ ListedInOrder
    /\ StableScopesListed
    /\ CursorBetween
    /\ StableCollected

-----------------------------------------------------------------------------
(* The page. *)

\* The place of a name among those collected.
Place(S, x) == Cardinality({m \in S : m <= x})

(***************************************************************************)
(* Among finitely many numbers each has a place of its own, in order.      *)
(***************************************************************************)
LEMMA PlaceRises ==
  ASSUME NEW S \in SUBSET Nat, IsFiniteSet(S)
  PROVE  /\ \A x \in S : Place(S, x) \in 1..Cardinality(S)
         /\ \A x, y \in S : x < y => Place(S, x) < Place(S, y)
<1>0. Cardinality(S) \in Nat BY FS_CardinalityType
<1>1. ASSUME NEW x \in S PROVE /\ IsFiniteSet({m \in S : m <= x})
                               /\ Place(S, x) \in Nat /\ Place(S, x) <= Cardinality(S)
  <2> DEFINE T == {m \in S : m <= x}
  <2>1. T \in SUBSET S OBVIOUS
  <2>2. IsFiniteSet(T) /\ Cardinality(T) <= Cardinality(S) BY <2>1, FS_Subset
  <2>3. Cardinality(T) \in Nat BY <2>2, FS_CardinalityType
  <2> QED BY <2>2, <2>3 DEF Place
<1>2. ASSUME NEW x \in S PROVE Place(S, x) # 0
  <2> DEFINE T == {m \in S : m <= x}
  <2>1. x \in T OBVIOUS
  <2>2. IsFiniteSet(T) BY <1>1
  <2>3. Cardinality(T) = 0 <=> T = {} BY <2>2, FS_EmptySet
  <2> QED BY <2>1, <2>3 DEF Place
<1>3. ASSUME NEW x \in S, NEW y \in S, x < y PROVE Place(S, x) < Place(S, y)
  <2> DEFINE T == {m \in S : m <= x}
             U == {m \in S : m <= y}
  <2>1. T \in SUBSET U
    <3>1. ASSUME NEW m \in S, m <= x PROVE m <= y
      <4>1. m \in Nat /\ x \in Nat /\ y \in Nat OBVIOUS
      <4> QED BY <1>3, <3>1, <4>1
    <3> QED BY <3>1
  <2>2. y \in U /\ y \notin T BY <1>3
  <2>3. IsFiniteSet(U) BY <1>1
  <2>4. Cardinality(T) <= Cardinality(U) /\ Cardinality(U) # Cardinality(T)
    BY <2>1, <2>2, <2>3, FS_Subset
  <2>5. Place(S, x) \in Nat /\ Place(S, y) \in Nat BY <1>1
  <2>6. Place(S, x) = Cardinality(T) /\ Place(S, y) = Cardinality(U) BY DEF Place
  <2> HIDE DEF T, U
  <2> QED BY <2>4, <2>5, <2>6
<1>4. ASSUME NEW x \in S PROVE Place(S, x) \in 1..Cardinality(S)
  <2>1. Place(S, x) \in Nat /\ Place(S, x) <= Cardinality(S) BY <1>1
  <2>2. Place(S, x) # 0 BY <1>2
  <2> QED BY <1>0, <2>1, <2>2
<1> QED BY <1>3, <1>4

(***************************************************************************)
(* ... and every place is taken.                                           *)
(***************************************************************************)
LEMMA PlaceOnto ==
  ASSUME NEW S \in SUBSET Nat, IsFiniteSet(S), NEW i \in 1..Cardinality(S)
  PROVE  \E x \in S : Place(S, x) = i
<1> DEFINE T == 1..Cardinality(S)
           f == [x \in S |-> Place(S, x)]
<1>1. Cardinality(S) \in Nat BY FS_CardinalityType
<1>2. IsFiniteSet(T) /\ Cardinality(T) = Cardinality(S) BY <1>1, FS_Interval
<1>3. f \in [S -> T] BY PlaceRises
<1>4. ASSUME NEW x \in S, NEW y \in S, x # y PROVE Place(S, x) # Place(S, y)
  <2>1. Place(S, x) \in Nat /\ Place(S, y) \in Nat BY PlaceRises, <1>1
  <2>2. x < y \/ y < x BY <1>4
  <2> QED BY <2>1, <2>2, PlaceRises
<1>5. f \in Injection(S, T) BY <1>3, <1>4 DEF Injection, IsInjective
<1>6. f \in Surjection(S, T) BY <1>2, <1>5, FS_Injection
<1> QED BY <1>6 DEF Surjection

\* What answerPage appends: numbers of S in order, all those up to the last
\* of the page, and all of S if the page holds as many.
IsPage(page, S, limit) ==
    /\ page \in Seq(S)
    /\ Len(page) = Smaller(limit, Cardinality(S))
    /\ \A i, j \in DOMAIN page : i < j => page[i] < page[j]
    /\ \A x \in S : Place(S, x) <= Len(page) => x \in Range(page)
    /\ \A i \in DOMAIN page : Place(S, page[i]) = i

(***************************************************************************)
(* Page yields the first limit names collected.                            *)
(***************************************************************************)
LEMMA PageIsPage ==
  ASSUME refs \in SUBSET Nat, IsFiniteSet(refs), NEW limit \in Nat
  PROVE  IsPage(Page(limit), refs, limit)
<1> DEFINE c == Cardinality(refs)
           k == Smaller(limit, c)
           page == Page(limit)
<1>1. c \in Nat BY FS_CardinalityType
<1>2. k \in Nat /\ k <= c BY <1>1 DEF Smaller
<1>3. page = [i \in 1..k |-> CHOOSE x \in refs : Place(refs, x) = i] BY DEF Page, Place
<1> HIDE DEF page
<1>4. ASSUME NEW i \in 1..k PROVE page[i] \in refs /\ Place(refs, page[i]) = i
  <2>1. i \in 1..c BY <1>1, <1>2
  <2>2. \E x \in refs : Place(refs, x) = i BY <2>1, PlaceOnto
  <2> QED BY <1>3, <2>2
<1>5. DOMAIN page = 1..k BY <1>3
<1>6. page \in Seq(refs) /\ Len(page) = k
  <2> HIDE DEF k
  <2>1. page \in [1..k -> refs] BY <1>3, <1>4
  <2> QED BY <1>2, <2>1
<1>7. ASSUME NEW i \in DOMAIN page, NEW j \in DOMAIN page, i < j PROVE page[i] < page[j]
  <2>1. i \in 1..k /\ j \in 1..k BY <1>5
  <2>2. /\ page[i] \in refs /\ Place(refs, page[i]) = i
        /\ page[j] \in refs /\ Place(refs, page[j]) = j BY <1>4, <2>1
  <2>3. page[i] \in Nat /\ page[j] \in Nat BY <2>2
  <2>4. ~(page[j] < page[i])
    <3>1. page[j] < page[i] => Place(refs, page[j]) < Place(refs, page[i]) BY <2>2, PlaceRises
    <3> QED BY <2>1, <2>2, <3>1, <1>2, <1>7
  <2>5. page[i] # page[j] BY <2>2, <1>7, <1>2, <2>1
  <2> QED BY <2>3, <2>4, <2>5
<1>8. ASSUME NEW x \in refs, Place(refs, x) <= Len(page) PROVE x \in Range(page)
  <2>1. Place(refs, x) \in 1..c BY PlaceRises
  <2>2. Place(refs, x) \in 1..k BY <1>1, <1>2, <1>6, <1>8, <2>1
  <2>3. page[Place(refs, x)] \in refs /\ Place(refs, page[Place(refs, x)]) = Place(refs, x)
    BY <1>4, <2>2
  <2>4. page[Place(refs, x)] = x
    <3> DEFINE y == page[Place(refs, x)]
    <3>1. y \in refs /\ Place(refs, y) = Place(refs, x) BY <2>3
    <3> HIDE DEF y
    <3>2. x \in Nat /\ y \in Nat /\ Place(refs, x) \in Nat BY <3>1, <2>1, <1>1
    <3>3. ~(x < y) /\ ~(y < x) BY <3>1, <3>2, PlaceRises
    <3>4. x = y BY <3>2, <3>3
    <3> QED BY <3>4 DEF y
  <2> QED BY <1>5, <2>2, <2>4 DEF Range
<1>9. \A i \in DOMAIN page : Place(refs, page[i]) = i BY <1>4, <1>5
<1> QED BY <1>6, <1>7, <1>8, <1>9 DEF IsPage, page

-----------------------------------------------------------------------------
(* The steps. *)

(***************************************************************************)
(* The numbers up to k are k numbers.                                      *)
(***************************************************************************)
LEMMA CountTo ==
  ASSUME NEW k \in Nat
  PROVE  Cardinality(1..k) = k
BY FS_Interval

(***************************************************************************)
(* A strictly ascending list of names is no longer than there are names,   *)
(* so that the bound in answerPage is never met.                           *)
(***************************************************************************)
LEMMA ListedFits ==
  ASSUME Types, ListedInOrder
  PROVE  Len(listed) <= Cardinality(Names)
<1> DEFINE T == 1..Len(listed)
<1> USE ListingAssumption DEF Types
<1>1. Len(listed) \in Nat /\ DOMAIN listed = T OBVIOUS
<1>2. IsFiniteSet(Names) /\ Names \subseteq Nat OBVIOUS
<1>3. listed \in [T -> Names] BY <1>1
<1>4. ASSUME NEW i \in T, NEW j \in T, i # j PROVE listed[i] # listed[j]
  <2>1. i < j \/ j < i BY <1>1, <1>4
  <2>2. listed[i] \in Nat /\ listed[j] \in Nat BY <1>2, <1>3
  <2>3. i < j => listed[i] < listed[j] BY <1>1 DEF ListedInOrder
  <2>4. j < i => listed[j] < listed[i] BY <1>1 DEF ListedInOrder
  <2> QED BY <2>1, <2>2, <2>3, <2>4
<1>5. listed \in Injection(T, Names) BY <1>3, <1>4 DEF Injection, IsInjective
<1>6. Cardinality(T) <= Cardinality(Names) BY <1>2, <1>5, FS_Injection
<1>7. Cardinality(T) = Len(listed) BY <1>1, CountTo
<1> QED BY <1>6, <1>7

(***************************************************************************)
(* A sequence over a set is one over every larger set.                     *)
(***************************************************************************)
LEMMA SeqWider ==
  ASSUME NEW S, NEW T, S \subseteq T, NEW s \in Seq(S)
  PROVE  s \in Seq(T)
<1>1. Len(s) \in Nat /\ s \in [1..Len(s) -> S] OBVIOUS
<1>2. s \in [1..Len(s) -> T] BY <1>1
<1> QED BY <1>1, <1>2

(***************************************************************************)
(* What is in two sequences joined.                                        *)
(***************************************************************************)
LEMMA Joined ==
  ASSUME NEW T, NEW s \in Seq(T), NEW u \in Seq(T)
  PROVE  /\ s \o u \in Seq(T) /\ Len(s \o u) = Len(s) + Len(u)
         /\ \A i \in 1..Len(s) : (s \o u)[i] = s[i]
         /\ \A i \in 1..Len(u) : (s \o u)[Len(s) + i] = u[i]
OBVIOUS

\* answerPage, with the page it appends.
Answers(page, limit) ==
    /\ walk = "shards" /\ shard > NumShards
    /\ IsPage(page, refs, limit)
    /\ listed' = listed \o page
    /\ \/ /\ Cardinality(refs) > limit
          /\ after' = page[limit] /\ walk' = walk
       \/ /\ Cardinality(refs) <= limit
          /\ walk' = "done" /\ after' = after
    /\ shard' = 1 /\ refs' = {}
    /\ present' = present /\ stable' = stable

(***************************************************************************)
(* answerPage never meets its bound.                                       *)
(***************************************************************************)
LEMMA AnswersPage ==
  ASSUME Types, ListedInOrder, answerPage
  PROVE  \E limit \in Limits : Answers(Page(limit), limit)
<1> USE ListingAssumption
<1>1. PICK limit \in Limits :
        /\ listed' = IF Len(listed) > Cardinality(Names) THEN listed ELSE listed \o Page(limit)
        /\ IF truncated(limit)
           THEN after' = Page(limit)[limit] /\ UNCHANGED walk
           ELSE walk' = "done" /\ UNCHANGED after
  BY DEF answerPage
<1>2. /\ refs \in SUBSET Nat /\ IsFiniteSet(refs) /\ Cardinality(refs) \in Nat
  BY FS_Subset, FS_CardinalityType DEF Types
<1>3. limit \in Nat OBVIOUS
<1>4. IsPage(Page(limit), refs, limit) BY <1>2, <1>3, PageIsPage
<1>5. Len(listed) <= Cardinality(Names) BY ListedFits
<1>6. Len(listed) \in Nat /\ Cardinality(Names) \in Nat BY FS_CardinalityType DEF Types
<1>7. listed' = listed \o Page(limit) BY <1>1, <1>5, <1>6
<1>8. CASE Cardinality(refs) > limit
  <2>1. after' = Page(limit)[limit] /\ walk' = walk BY <1>1, <1>8 DEF truncated
  <2> QED BY <2>1, <1>4, <1>7, <1>8 DEF Answers, answerPage
<1>9. CASE Cardinality(refs) <= limit
  <2>1. ~ truncated(limit) BY <1>2, <1>3, <1>9 DEF truncated
  <2>2. walk' = "done" /\ after' = after BY <1>1, <2>1
  <2> QED BY <2>2, <1>4, <1>7, <1>9 DEF Answers, answerPage
<1> QED BY <1>2, <1>3, <1>8, <1>9

(***************************************************************************)
(* The page keeps the invariant: what it appends lies ahead of the cursor  *)
(* and ends at the next one, and all stable scopes between were collected. *)
(***************************************************************************)
LEMMA PageInv ==
  ASSUME Inv, NEW limit \in Limits, NEW page, Answers(page, limit)
  PROVE  Inv'
<1> USE ListingAssumption DEF Inv
<1> DEFINE c == Cardinality(refs)
           k == Len(page)
<1>1. limit \in Nat \ {0} OBVIOUS
<1>2. refs \in SUBSET Nat /\ IsFiniteSet(refs) /\ c \in Nat
  BY FS_Subset, FS_CardinalityType DEF Types
<1>3. page \in Seq(refs) /\ page \in Seq(Names) /\ listed \in Seq(Names)
  <2>1. page \in Seq(refs) BY DEF Answers, IsPage
  <2>2. refs \in SUBSET Names /\ listed \in Seq(Names) BY DEF Types
  <2> QED BY <2>1, <2>2, SeqWider
<1>4. k \in Nat /\ k = Smaller(limit, c) /\ DOMAIN page = 1..k
  BY <1>3 DEF Answers, IsPage
<1>5. /\ listed' \in Seq(Names) /\ Len(listed') = Len(listed) + k
      /\ \A i \in 1..Len(listed) : listed'[i] = listed[i]
      /\ \A i \in 1..k : listed'[Len(listed) + i] = page[i]
  <2>1. listed' = listed \o page BY DEF Answers
  <2>2. /\ listed \o page \in Seq(Names) /\ Len(listed \o page) = Len(listed) + Len(page)
        /\ \A i \in 1..Len(listed) : (listed \o page)[i] = listed[i]
        /\ \A i \in 1..Len(page) : (listed \o page)[Len(listed) + i] = page[i]
    BY <1>3, Joined
  <2> QED BY <2>1, <2>2
<1>6. Len(listed) \in Nat /\ DOMAIN listed = 1..Len(listed)
      /\ DOMAIN listed' = 1..(Len(listed) + k)
  BY <1>3, <1>5
<1>7. \A i \in 1..k : page[i] \in refs /\ page[i] \in Nat /\ page[i] > after
  <2>1. ASSUME NEW i \in 1..k PROVE page[i] \in refs BY <1>3, <1>4
  <2> QED BY <2>1, <1>2 DEF CursorBetween
<1>8. \A i \in 1..Len(listed) : listed[i] \in Nat /\ listed[i] <= after
  <2>1. ASSUME NEW i \in 1..Len(listed) PROVE listed[i] \in Names BY <1>3
  <2>2. walk = "shards" BY DEF Answers
  <2>3. \A i \in 1..Len(listed) : listed[i] <= after BY <1>6, <2>2 DEF CursorBetween
  <2> QED BY <2>1, <2>3
<1>9. after \in Nat BY DEF Types
<1>10. \A x \in refs : Place(refs, x) <= k => x \in Range(page)
  BY DEF Answers, IsPage
<1>11. \A i, j \in 1..k : i < j => page[i] < page[j]
  BY <1>4 DEF Answers, IsPage
<1>12. Range(listed') = Range(listed) \cup Range(page)
  <2>1. ASSUME NEW x \in Range(listed') PROVE x \in Range(listed) \cup Range(page)
    <3>1. PICK i \in 1..(Len(listed) + k) : x = listed'[i] BY <1>6 DEF Range
    <3>2. CASE i <= Len(listed)
      <4>1. i \in 1..Len(listed) BY <1>4, <1>6, <3>2
      <4> QED BY <1>5, <1>6, <3>1, <4>1 DEF Range
    <3>3. CASE i > Len(listed)
      <4>1. i - Len(listed) \in 1..k /\ i = Len(listed) + (i - Len(listed))
        BY <1>4, <1>6, <3>3
      <4>2. x = page[i - Len(listed)] BY <1>5, <3>1, <4>1
      <4> QED BY <1>4, <4>1, <4>2 DEF Range
    <3> QED BY <1>4, <1>6, <3>2, <3>3
  <2>2. ASSUME NEW i \in 1..Len(listed) PROVE listed[i] \in Range(listed')
    <3>1. i \in DOMAIN listed' BY <1>4, <1>6
    <3> QED BY <1>5, <3>1 DEF Range
  <2>3. ASSUME NEW i \in 1..k PROVE page[i] \in Range(listed')
    <3>1. Len(listed) + i \in DOMAIN listed' BY <1>4, <1>6
    <3> QED BY <1>5, <3>1 DEF Range
  <2>4. Range(listed) \subseteq Range(listed') BY <1>6, <2>2 DEF Range
  <2>5. Range(page) \subseteq Range(listed') BY <1>4, <2>3 DEF Range
  <2> QED BY <2>1, <2>4, <2>5
<1>13. ListedInOrder'
  <2>1. ASSUME NEW i \in DOMAIN listed', NEW j \in DOMAIN listed', i < j
        PROVE  listed'[i] < listed'[j]
    <3>1. i \in 1..(Len(listed) + k) /\ j \in 1..(Len(listed) + k) BY <1>6
    <3>2. CASE j <= Len(listed)
      <4>1. i \in 1..Len(listed) /\ j \in 1..Len(listed) BY <1>4, <1>6, <2>1, <3>1, <3>2
      <4>2. listed[i] < listed[j] BY <1>6, <2>1, <4>1 DEF ListedInOrder
      <4> QED BY <1>5, <4>1, <4>2
    <3>3. CASE i > Len(listed)
      <4> DEFINE a == i - Len(listed)
                 b == j - Len(listed)
      <4>1. a \in 1..k /\ b \in 1..k /\ a < b /\ i = Len(listed) + a /\ j = Len(listed) + b
        BY <1>4, <1>6, <2>1, <3>1, <3>3
      <4>2. listed'[i] = page[a] /\ listed'[j] = page[b] BY <1>5, <4>1
      <4> QED BY <1>11, <4>1, <4>2
    <3>4. CASE i <= Len(listed) /\ j > Len(listed)
      <4> DEFINE b == j - Len(listed)
      <4>1. i \in 1..Len(listed) /\ b \in 1..k /\ j = Len(listed) + b
        BY <1>4, <1>6, <3>1, <3>4
      <4>2. listed'[i] = listed[i] /\ listed'[j] = page[b] BY <1>5, <4>1
      <4>3. listed[i] \in Nat /\ listed[i] <= after BY <1>8, <4>1
      <4>4. page[b] \in Nat /\ page[b] > after BY <1>7, <4>1
      <4> HIDE DEF b
      <4> QED BY <1>9, <4>2, <4>3, <4>4
    <3> QED BY <1>4, <1>6, <3>1, <3>2, <3>3, <3>4
  <2> QED BY <2>1 DEF ListedInOrder
<1>14. CASE c > limit
  <2>1. after' = page[limit] /\ walk' = "shards" /\ k = limit /\ limit \in 1..k
    BY <1>1, <1>2, <1>4, <1>14 DEF Answers, Smaller
  <2>2. after' \in Nat /\ after' > after BY <1>7, <2>1
  <2>3. Types' BY <1>5, <2>1, <2>2 DEF Types, Answers
  <2>4. ASSUME NEW i \in DOMAIN listed' PROVE listed'[i] <= after'
    <3>1. CASE i <= Len(listed)
      <4>1. i \in 1..Len(listed) BY <1>4, <1>6, <3>1
      <4>2. listed'[i] = listed[i] /\ listed[i] \in Nat /\ listed[i] <= after
        BY <1>5, <1>8, <4>1
      <4> QED BY <1>9, <2>2, <4>2
    <3>2. CASE i > Len(listed)
      <4> DEFINE a == i - Len(listed)
      <4>1. a \in 1..k /\ i = Len(listed) + a BY <1>4, <1>6, <3>2
      <4>2. listed'[i] = page[a] /\ page[a] \in Nat /\ page[limit] \in Nat
        BY <1>5, <1>7, <2>1, <4>1
      <4>3. a < limit => page[a] < page[limit] BY <1>11, <2>1, <4>1
      <4>4. a < limit \/ a = limit BY <2>1, <4>1
      <4> HIDE DEF a
      <4> QED BY <2>1, <4>2, <4>3, <4>4
    <3> QED BY <1>4, <1>6, <3>1, <3>2
  <2>5. CursorBetween' BY <2>4 DEF CursorBetween, Answers
  <2>6. ASSUME NEW x \in stable, x <= after' PROVE x \in Range(listed')
    <3>1. x \in Names /\ x \in Nat BY DEF Types
    <3>2. CASE x <= after
      <4>1. x \in Range(listed) BY <3>2 DEF StableScopesListed, Answers
      <4> QED BY <1>12, <4>1
    <3>3. CASE x > after
      <4>1. ShardOf[x] \in 1..NumShards BY <3>1
      <4>2. ShardOf[x] < shard BY <4>1 DEF Types, Answers
      <4>3. x \in refs BY <3>3, <4>2 DEF StableCollected, Answers
      <4>4. page[limit] \in refs /\ x <= page[limit] BY <1>7, <2>1, <2>6
      <4>5. Place(refs, page[limit]) = k BY <1>4, <2>1 DEF Answers, IsPage
      <4>6. x < page[limit] => Place(refs, x) < Place(refs, page[limit])
        BY <1>2, <4>3, <4>4, PlaceRises
      <4>7. Place(refs, x) \in 1..c BY <1>2, <4>3, PlaceRises
      <4>8. x < page[limit] \/ x = page[limit] BY <1>7, <2>1, <3>1, <4>4
      <4>9. Place(refs, x) <= k BY <1>2, <1>4, <4>5, <4>6, <4>7, <4>8
      <4> QED BY <1>10, <1>12, <4>3, <4>9
    <3> QED BY <1>9, <3>1, <3>2, <3>3
  <2>7. StableScopesListed'
    <3>1. stable' = stable BY DEF Answers
    <3> QED BY <2>1, <2>6, <3>1 DEF StableScopesListed
  <2>8. StableCollected' 
    <3>1. \A x \in stable : ShardOf[x] \in 1..NumShards BY DEF Types
    <3> QED BY <2>1, <3>1 DEF StableCollected, Answers
  <2> QED BY <1>13, <2>3, <2>5, <2>7, <2>8
<1>15. CASE c <= limit
  <2>1. after' = after /\ walk' = "done" /\ k = c
    BY <1>1, <1>2, <1>4, <1>15 DEF Answers, Smaller
  <2>2. Types' BY <1>5, <2>1 DEF Types, Answers
  <2>3. CursorBetween' BY <2>1 DEF CursorBetween, Answers
  <2>4. ASSUME NEW x \in stable PROVE x \in Range(listed')
    <3>1. x \in Names /\ x \in Nat BY DEF Types
    <3>2. CASE x <= after
      <4>1. x \in Range(listed) BY <3>2 DEF StableScopesListed, Answers
      <4> QED BY <1>12, <4>1
    <3>3. CASE x > after
      <4>1. ShardOf[x] \in 1..NumShards BY <3>1
      <4>2. ShardOf[x] < shard BY <4>1 DEF Types, Answers
      <4>3. x \in refs BY <3>3, <4>2 DEF StableCollected, Answers
      <4>4. Place(refs, x) \in 1..c BY <1>2, <4>3, PlaceRises
      <4>5. Place(refs, x) <= k BY <1>2, <2>1, <4>4
      <4> QED BY <1>10, <1>12, <4>3, <4>5
    <3> QED BY <1>9, <3>1, <3>2, <3>3
  <2>5. StableScopesListed'
    <3>1. stable' = stable BY DEF Answers
    <3> QED BY <2>4, <3>1 DEF StableScopesListed
  <2>6. StableCollected' BY <2>1 DEF StableCollected, Answers
  <2> QED BY <1>13, <2>2, <2>3, <2>5, <2>6
<1> QED BY <1>1, <1>2, <1>14, <1>15

(***************************************************************************)
(* A change of the store leaves the walk alone; a new scope is not stable. *)
(***************************************************************************)
LEMMA ChangeInv ==
  ASSUME Inv, NEW names \in SUBSET Names, Change(names)
  PROVE  Inv'
<1> USE DEF Inv, Change, walkVars
<1>1. Types' BY DEF Types
<1>2. ListedInOrder' /\ CursorBetween' BY DEF ListedInOrder, CursorBetween
<1>3. StableScopesListed' BY DEF StableScopesListed, Types
<1>4. StableCollected' BY DEF StableCollected, Types
<1> QED BY <1>1, <1>2, <1>3, <1>4

(***************************************************************************)
(* A shard under its lock: the stable scopes of it ahead of the cursor     *)
(* are collected.                                                          *)
(***************************************************************************)
LEMMA CollectInv ==
  ASSUME Inv, collectShard
  PROVE  Inv'
<1> USE ListingAssumption DEF Inv, collectShard
<1>1. Types'
  <2>1. shard' \in 1..NumShards + 1 BY DEF Types
  <2>2. refs' \in SUBSET Names BY DEF Types
  <2> QED BY <2>1, <2>2 DEF Types
<1>2. ListedInOrder' BY DEF ListedInOrder
<1>3. CursorBetween' BY DEF CursorBetween, Matches
<1>4. StableScopesListed' BY DEF StableScopesListed
<1>5. StableCollected'
  <2>1. ASSUME NEW x \in stable, x > after, ShardOf[x] < shard + 1 PROVE x \in refs'
    <3>1. ShardOf[x] \in 1..NumShards /\ shard \in Nat /\ x \in present
      BY DEF Types, StableCollected
    <3>2. CASE ShardOf[x] < shard BY <2>1, <3>2 DEF StableCollected
    <3>3. CASE ShardOf[x] = shard BY <2>1, <3>1, <3>3 DEF Matches
    <3> QED BY <2>1, <3>1, <3>2, <3>3
  <2> QED BY <2>1 DEF StableCollected
<1> QED BY <1>1, <1>2, <1>3, <1>4, <1>5

(***************************************************************************)
(* Inv holds throughout, for every set of names, sharding and page sizes.  *)
(***************************************************************************)
THEOREM ListingInvariance == Spec => []Inv
<1> USE ListingAssumption
<1>1. Init => Inv
  BY DEF Init, Inv, Types, ListedInOrder, StableScopesListed, CursorBetween, StableCollected
<1>2. Inv /\ [Next]_vars => Inv'
  <2> SUFFICES ASSUME Inv, [Next]_vars PROVE Inv' OBVIOUS
  <2>0. present \in SUBSET Names BY DEF Inv, Types
  <2>1. ASSUME NEW name \in Names, createScope(name) PROVE Inv'
    BY <2>0, <2>1, ChangeInv DEF createScope
  <2>2. ASSUME NEW name \in Names, deleteScope(name) PROVE Inv'
    <3>1. present \ {name} \in SUBSET Names BY <2>0
    <3> QED BY <2>2, <3>1, ChangeInv DEF deleteScope
  <2>3. ASSUME NEW S \in SUBSET (Names \ Reserved), rebuildAll(S) PROVE Inv'
    <3>1. S \cup Reserved \in SUBSET Names OBVIOUS
    <3> QED BY <2>3, <3>1, ChangeInv DEF rebuildAll
  <2>4. CASE startWalk
    <3>1. Types' BY <2>4 DEF startWalk, Inv, Types
    <3>2. ListedInOrder' /\ CursorBetween' BY <2>4 DEF startWalk, Inv, ListedInOrder, CursorBetween
    <3>3. \A x \in present : x \in Nat /\ x > 0 /\ ShardOf[x] \in 1..NumShards BY <2>0
    <3>4. StableScopesListed'
      BY <2>4, <3>3 DEF startWalk, Inv, StableScopesListed, StableCollected
    <3>5. StableCollected' BY <2>4, <3>3 DEF startWalk, Inv, StableCollected
    <3> QED BY <3>1, <3>2, <3>4, <3>5 DEF Inv
  <2>5. CASE collectShard BY <2>5, CollectInv
  <2>6. CASE answerPage
    <3>1. PICK limit \in Limits : Answers(Page(limit), limit)
      BY <2>6, AnswersPage DEF Inv
    <3> QED BY <3>1, PageInv
  <2>7. CASE UNCHANGED vars
    BY <2>7 DEF vars, walkVars, Inv, Types, ListedInOrder, StableScopesListed,
                CursorBetween, StableCollected
  <2> QED BY <2>1, <2>2, <2>3, <2>4, <2>5, <2>6, <2>7 DEF Next, scopeList, Finished
<1> QED BY <1>1, <1>2, PTL DEF Spec

(***************************************************************************)
(* ListedInOrder: no name twice, none out of order, over all pages.        *)
(***************************************************************************)
THEOREM PagesAscend == Spec => []ListedInOrder
<1>1. Inv => ListedInOrder BY DEF Inv
<1> QED BY <1>1, ListingInvariance, PTL

(***************************************************************************)
(* StableScopesListed: a scope that is there throughout the walk is        *)
(* listed, although the walk never holds two shard locks at a time.        *)
(***************************************************************************)
THEOREM StableScopesAreListed == Spec => []StableScopesListed
<1>1. Inv => StableScopesListed BY DEF Inv
<1> QED BY <1>1, ListingInvariance, PTL
=============================================================================
