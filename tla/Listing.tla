------------------------------- MODULE Listing -------------------------------
(***************************************************************************)
(* What a client that walks /scopelist page by page sees while scopes come *)
(* and go.  The walk never holds more than one shard lock at a time, and   *)
(* nothing at all between two pages.                                       *)
(***************************************************************************)
EXTENDS Integers, Sequences, FiniteSets, Functions

CONSTANTS
    Names,       \* scope names that match the prefix: 1..n in alphabetical order
    Reserved,    \* _events and _inbox among them
    NumShards, ShardOf,   \* the shards, and the shard of a name
    Limits,      \* page sizes a client may ask for, at least 1 after normalizeLimit
    MaxChanges   \* bound: scopes created or deleted, /rebuild and /wipe calls

ASSUME ListingAssumption ==
    /\ Names \subseteq Nat \ {0} /\ IsFiniteSet(Names) /\ Reserved \subseteq Names
    /\ NumShards \in Nat \ {0} /\ ShardOf \in [Names -> 1..NumShards]
    /\ Limits \subseteq Nat \ {0} /\ MaxChanges \in Nat

VARIABLES
    present,     \* the names with a scope
    changes,
    walk,        \* "idle", "shards" or "done"
    after, shard, refs,   \* cursor, next shard, names collected for this page
    listed,      \* names of all pages
    stable       \* history: the names that were there throughout the walk

walkVars == <<walk, after, shard, refs, listed>>
vars == <<present, changes, walkVars, stable>>

Init ==
    /\ present \in {S \in SUBSET Names : Reserved \subseteq S}
    /\ changes = 0
    /\ walk = "idle" /\ after = 0 /\ shard = 1 /\ refs = {} /\ listed = <<>>
    /\ stable = {}

-----------------------------------------------------------------------------
(* The store changes. *)

Change(names) ==
    /\ changes < MaxChanges
    /\ changes' = changes + 1
    /\ present' = names /\ stable' = stable \cap names
    /\ UNCHANGED walkVars

createScope(n) == n \notin present /\ Change(present \cup {n})

deleteScope(n) == n \in present \ Reserved /\ Change(present \ {n})

\* /rebuild with user scopes S, or /wipe with none: every shard is locked, and
\* the reserved scopes are there again before any is released.
rebuildAll(S) == Change(S \cup Reserved)

-----------------------------------------------------------------------------
(* A walk over /scopelist. *)

startWalk ==
    /\ walk = "idle"
    /\ walk' = "shards" /\ stable' = present
    /\ UNCHANGED <<present, changes, after, shard, refs, listed>>

\* Slip: the cursor is inclusive.
Slip_Matches(n) == n >= after

Matches(n) == n > after

\* One shard under its read lock.
collectShard ==
    /\ walk = "shards" /\ shard <= NumShards
    /\ refs' = refs \cup {n \in present : ShardOf[n] = shard /\ Matches(n)}
    /\ shard' = shard + 1
    /\ UNCHANGED <<present, changes, walk, after, listed, stable>>

Smaller(x, y) == IF x < y THEN x ELSE y

\* The page: the first `limit' names in order.
Page(limit) ==
    [i \in 1..Smaller(limit, Cardinality(refs)) |->
        CHOOSE n \in refs : Cardinality({m \in refs : m <= n}) = i]

\* Slip: a page is not truncated if only one more name matches.
Slip_truncated(limit) == Cardinality(refs) > limit + 1

truncated(limit) == Cardinality(refs) > limit

\* Sort, cut, answer; the client asks for the page after the last name.  The
\* bound on listed is never reached: a walk lists no name twice.
answerPage ==
    /\ walk = "shards" /\ shard > NumShards
    /\ \E limit \in Limits :
        /\ listed' = IF Len(listed) > Cardinality(Names) THEN listed ELSE listed \o Page(limit)
        /\ IF truncated(limit)
           THEN after' = Page(limit)[limit] /\ UNCHANGED walk
           ELSE walk' = "done" /\ UNCHANGED after
    /\ shard' = 1 /\ refs' = {}
    /\ UNCHANGED <<present, changes, stable>>

-----------------------------------------------------------------------------

Finished == walk = "done" /\ UNCHANGED vars

scopeList == startWalk \/ collectShard \/ answerPage

Next ==
    \/ \E n \in Names : createScope(n) \/ deleteScope(n)
    \/ \E S \in SUBSET (Names \ Reserved) : rebuildAll(S)
    \/ scopeList
    \/ Finished

Spec == Init /\ [][Next]_vars

\* The client asks for the next page, and a request runs to its end.
FairSpec == Spec /\ WF_vars(scopeList)

-----------------------------------------------------------------------------
(* Properties. *)

\* Pages never repeat a name nor go back, whatever is created or deleted
\* between and during them ("the cursor stays stable under concurrent writes").
ListedInOrder == \A i, j \in DOMAIN listed : i < j => listed[i] < listed[j]

\* A scope that is there throughout the walk is listed: behind the cursor as
\* soon as the cursor has passed it, all of them at the end, and although a
\* /rebuild may replace every map between two shards.
StableScopesListed ==
    \A n \in stable : walk = "done" \/ (walk = "shards" /\ n <= after) => n \in Range(listed)

\* The walk ends, however many scopes are created meanwhile.
WalkEnds == (walk = "shards") ~> (walk = "done")
=============================================================================
