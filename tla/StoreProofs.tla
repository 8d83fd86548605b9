---------------------------- MODULE StoreProofs ----------------------------
(***************************************************************************)
(* Proofs about the store, for any number of callers, scopes and shards    *)
(* and whatever the calls are: no acknowledged write lands in a buffer     *)
(* nobody can reach, and the reserved scopes are always there; then the    *)
(* three counters agree with the maps through every race of writers with   *)
(* old pointers, roll-backs, deletes, /warm, /wipe and /rebuild, and the   *)
(* byte cap holds until a /warm runs.                                      *)
(***************************************************************************)
EXTENDS Store, FunctionTheorems, FiniteSetTheorems, BufferProofs

\* The shape of the variables, as far as the proofs need it.
Typed ==
    /\ scopes \in [Scopes -> BufIds \cup {NoBuf}]
    /\ DOMAIN bufs = BufIds
    /\ \A k \in BufIds : "detached" \in DOMAIN bufs[k]
    /\ lock \in [Shards -> Procs \cup {Free}]
    /\ ptr \in [Procs -> BufIds \cup {NoBuf}]
    /\ DOMAIN at = Procs /\ DOMAIN call = Procs
    /\ DOMAIN created = Procs /\ DOMAIN todo = Procs

\* Which calls can be where, and what their locals are there.
InPlace(p) ==
    /\ at[p] # "idle" => call[p] \in Calls
    /\ at[p] \in {"lookup", "create", "operate", "cleanup"} => call[p].op \in ItemOps
    /\ at[p] = "unlink" => call[p].op = "delete_scope"
    /\ at[p] = "lock" => call[p].op \in {"wipe", "rebuild", "warm"}
    /\ at[p] = "detach" => call[p].op \in {"wipe", "rebuild"}
    /\ at[p] \in {"snapshot", "commit"} =>
         call[p].op = "warm" /\ todo[p] \subseteq DOMAIN call[p].batch
    /\ ptr[p] # NoBuf <=> at[p] \in {"operate", "cleanup"}
    /\ at[p] = "cleanup" => created[p]
    /\ created[p] => at[p] # "idle" /\ call[p].scope \notin Reserved

\* The shard locks a bulk call holds in each of its phases.
HoldsLocks(p) ==
    /\ at[p] = "lock" => \A h \in shardsToLock(call[p]) \ todo[p] : lock[h] = p
    /\ at[p] \in {"snapshot", "commit"} => \A s \in DOMAIN call[p].batch : lock[ShardOf[s]] = p
    /\ at[p] = "detach" => \A h \in Shards : lock[h] = p

\* A /wipe or /rebuild has detached every mapped buffer it no longer lists.
Detaches(p) ==
    at[p] = "detach" =>
        \A s \in Scopes : scopes[s] # NoBuf => s \in todo[p] \/ bufs[scopes[s]].detached

ReservedMapped == \A s \in Reserved : scopes[s] # NoBuf

Inv ==
    /\ Typed
    /\ \A p \in Procs : InPlace(p) /\ HoldsLocks(p) /\ Detaches(p)
    /\ ReservedMapped
    /\ NoOrphanWrites

LEMMA SetsAreDistinct ==
    /\ NoBuf \notin BufIds
    /\ Reserved \subseteq Scopes
    /\ UserScopes \subseteq Scopes
    /\ Reserved \cap UserScopes = {}
    /\ Shards # {}
  BY StoreAssumption DEF BufIds, Reserved, Scopes, UserScopes, Shards

\* What the shape of the calls says of the scopes they name.
LEMMA CallScopes ==
    ASSUME NEW c \in Calls
    PROVE  /\ c.op \in ItemOps \cup {"delete_scope"} => c.scope \in Scopes
           /\ c.op = "delete_scope" => c.scope \notin Reserved
           /\ c.op \in {"warm", "rebuild"} => DOMAIN c.batch \subseteq Scopes
           /\ c.op \in ItemOps \cup {"delete_scope", "warm", "rebuild", "wipe"}
  BY CallsAssumption, SetsAreDistinct DEF ItemOps, CreatingOps

-----------------------------------------------------------------------------
(* There is always a free address. *)

\* What a function takes on is no more than what it is defined on.
LEMMA ImageIsSmall ==
    ASSUME NEW S, IsFiniteSet(S), NEW f, DOMAIN f = S, NEW T, f \in [S -> T]
    PROVE  /\ IsFiniteSet({f[x] : x \in S})
           /\ Cardinality({f[x] : x \in S}) <= Cardinality(S)
<1> DEFINE R == {f[x] : x \in S}
<1>1. f \in Surjection(S, R)
  BY DEF Surjection
<1> HIDE DEF R
<1>2. IsFiniteSet(R) /\ Cardinality(R) <= Cardinality(S)
  BY <1>1, FS_Surjection
<1> QED
  BY <1>2 DEF R

LEMMA SetSizes ==
    /\ IsFiniteSet(Scopes) /\ Cardinality(Scopes) = NumScopes
    /\ IsFiniteSet(BufIds) /\ Cardinality(BufIds) = NumBufs
    /\ Cardinality(Procs) \in Nat /\ NumBufs \in Nat /\ NumScopes \in Nat
    /\ NumBufs >= NumScopes + Cardinality(Procs)
<1>1. NumScopes \in Nat /\ NumBufs \in Nat /\ IsFiniteSet(Procs)
      /\ NumBufs >= NumScopes + Cardinality(Procs)
  BY StoreAssumption
<1>2. Cardinality(Procs) \in Nat
  BY <1>1, FS_CardinalityType
<1>3. IsFiniteSet(1..NumScopes) /\ Cardinality(1..NumScopes) = NumScopes
  BY <1>1, FS_Interval
<1>4. IsFiniteSet(1..NumBufs) /\ Cardinality(1..NumBufs) = NumBufs
  BY <1>1, FS_Interval
<1> QED
  BY <1>1, <1>2, <1>3, <1>4 DEF Scopes, BufIds

\* FreshBuf finds an address whenever the caller holds none and some scope is
\* not mapped: the nil pointer then takes two of the places.
LEMMA FreshAddress ==
    ASSUME Typed, NEW s \in Scopes, scopes[s] = NoBuf, NEW p \in Procs, ptr[p] = NoBuf
    PROVE  /\ FreshBuf({scopes[t] : t \in Scopes}) \in BufIds
           /\ \A q \in Procs : ptr[q] # FreshBuf({scopes[t] : t \in Scopes})
           /\ \A t \in Scopes : scopes[t] # FreshBuf({scopes[u] : u \in Scopes})
<1> DEFINE A == {scopes[t] : t \in Scopes}
           B == {ptr[q] : q \in Procs}
<1>1. scopes \in [Scopes -> BufIds \cup {NoBuf}] /\ ptr \in [Procs -> BufIds \cup {NoBuf}]
  BY DEF Typed
<1>2. IsFiniteSet(A) /\ Cardinality(A) <= NumScopes
  BY <1>1, SetSizes, ImageIsSmall
<1>3. IsFiniteSet(Procs)
  BY StoreAssumption
<1>4. IsFiniteSet(B) /\ Cardinality(B) <= Cardinality(Procs)
  BY <1>1, <1>3, ImageIsSmall
<1>5. NoBuf \in A /\ NoBuf \in B
  OBVIOUS
<1>6. \E k \in BufIds : k \notin A /\ k \notin B
  <2> HIDE DEF A, B
  <2> SUFFICES ASSUME BufIds \subseteq A \cup B PROVE FALSE
    OBVIOUS
  <2>1. IsFiniteSet(A \cup B)
        /\ Cardinality(A \cup B) = Cardinality(A) + Cardinality(B) - Cardinality(A \cap B)
    BY <1>2, <1>4, FS_Union
  <2>2. IsFiniteSet(A \cap B)
    BY <1>2, FS_Intersection
  <2>3. Cardinality(A \cap B) # 0 /\ Cardinality(A \cap B) \in Nat
    BY <2>2, <1>5, FS_EmptySet, FS_CardinalityType
  <2>4. Cardinality(BufIds \cup {NoBuf}) = NumBufs + 1
    BY SetSizes, SetsAreDistinct, FS_AddElement
  <2>5. BufIds \cup {NoBuf} \in SUBSET (A \cup B)
    BY <1>5
  <2>6. NumBufs + 1 <= Cardinality(A \cup B)
    BY <2>1, <2>4, <2>5, FS_Subset
  <2>7. Cardinality(A) \in Nat /\ Cardinality(B) \in Nat
    BY <1>2, <1>4, FS_CardinalityType
  <2> QED
    BY <1>2, <1>4, <2>1, <2>3, <2>6, <2>7, SetSizes
<1>7. \E k \in BufIds : k \notin A /\ \A q \in Procs : ptr[q] # k
  BY <1>6
<1>8. FreshBuf(A) \in BufIds /\ FreshBuf(A) \notin A /\ \A q \in Procs : ptr[q] # FreshBuf(A)
  BY <1>7 DEF FreshBuf
<1> QED
  BY <1>8

\* newAddress finds distinct addresses for any set of scopes.
LEMMA NewAddresses ==
    ASSUME Typed, NEW S \in SUBSET Scopes
    PROVE  /\ newAddress(S) \in [S -> {k \in BufIds : \A q \in Procs : ptr[q] # k}]
           /\ \A s, t \in S : s # t => newAddress(S)[s] # newAddress(S)[t]
<1> DEFINE B == {ptr[q] : q \in Procs}
           F == {k \in BufIds : \A q \in Procs : ptr[q] # k}
<1>1. ptr \in [Procs -> BufIds \cup {NoBuf}]
  BY DEF Typed
<1>2. IsFiniteSet(Procs)
  BY StoreAssumption
<1>3. IsFiniteSet(B) /\ Cardinality(B) <= Cardinality(Procs)
  BY <1>1, <1>2, ImageIsSmall
<1>4. BufIds \subseteq F \cup B /\ F \subseteq BufIds
  OBVIOUS
<1> HIDE DEF B, F
<1>5. IsFiniteSet(F)
  BY <1>4, SetSizes, FS_Subset
<1>6. Cardinality(F) \in Nat /\ Cardinality(B) \in Nat
  BY <1>3, <1>5, FS_CardinalityType
<1>7. Cardinality(F) >= NumScopes
  <2>1. IsFiniteSet(F \cup B)
        /\ Cardinality(F \cup B) = Cardinality(F) + Cardinality(B) - Cardinality(F \cap B)
    BY <1>3, <1>5, FS_Union
  <2>2. Cardinality(F \cap B) \in Nat
    BY <1>5, FS_Intersection, FS_CardinalityType
  <2>3. NumBufs <= Cardinality(F \cup B)
    BY <1>4, <2>1, SetSizes, FS_Subset
  <2> QED
    BY <1>3, <1>6, <2>1, <2>2, <2>3, SetSizes
<1>8. IsFiniteSet(S) /\ Cardinality(S) <= NumScopes /\ Cardinality(S) \in Nat
  BY SetSizes, FS_Subset, FS_CardinalityType
<1>9. PICK e \in Bijection(1..Cardinality(F), F) : TRUE
  BY <1>5, FS_CardinalityType DEF ExistsBijection
<1>10. PICK g \in Bijection(1..Cardinality(S), S) : TRUE
  BY <1>8, FS_CardinalityType DEF ExistsBijection
<1>11. \A s \in S : \E i \in 1..Cardinality(S) : g[i] = s
  BY <1>10 DEF Bijection, Surjection
<1> DEFINE place(s) == CHOOSE i \in 1..Cardinality(S) : g[i] = s
           f == [s \in S |-> e[place(s)]]
<1>12. \A s \in S : place(s) \in 1..Cardinality(S) /\ g[place(s)] = s
  BY <1>11
<1>13. \A s \in S : place(s) \in 1..Cardinality(F)
  BY <1>12, <1>7, <1>8, <1>6, SetSizes
<1>14. \A i, j \in 1..Cardinality(F) : e[i] = e[j] => i = j
  BY <1>9 DEF Bijection, Injection, IsInjective
<1>15. \A i \in 1..Cardinality(F) : e[i] \in F
  BY <1>9 DEF Bijection, Injection
<1> HIDE DEF place
<1>16. f \in [S -> F]
  BY <1>13, <1>15
<1>17. \A s, t \in S : s # t => f[s] # f[t]
  <2> SUFFICES ASSUME NEW s \in S, NEW t \in S, e[place(s)] = e[place(t)] PROVE s = t
    OBVIOUS
  <2>1. place(s) = place(t)
    BY <1>13, <1>14
  <2> QED
    BY <2>1, <1>12
<1>18. \E addr \in [S -> F] : \A s, t \in S : s # t => addr[s] # addr[t]
  <2> HIDE DEF f
  <2> QED
    BY <1>16, <1>17
<1>19. newAddress(S) = CHOOSE addr \in [S -> F] : \A s, t \in S : s # t => addr[s] # addr[t]
  BY DEF newAddress, F
<1>20. newAddress(S) \in [S -> F] /\ \A s, t \in S : s # t => newAddress(S)[s] # newAddress(S)[t]
  BY <1>18, <1>19
<1> QED
  BY <1>20 DEF F

-----------------------------------------------------------------------------
(* No operation on a buffer loses its detached flag. *)

LEMMA NewBufferIsFlagged ==
    ASSUME NEW m
    PROVE  "detached" \in DOMAIN newscopeBuffer(m, 0) /\ ~newscopeBuffer(m, 0).detached
  BY DEF newscopeBuffer

LEMMA RebuiltBufferIsFlagged ==
    ASSUME NEW items
    PROVE  "detached" \in DOMAIN rebuiltBuffer(items)
  BY DEF rebuiltBuffer, newscopeBuffer

LEMMA CommitKeepsFlag ==
    ASSUME NEW b, "detached" \in DOMAIN b, NEW items, NEW n
    PROVE  /\ "detached" \in DOMAIN commitItems(b, items, n, 0)
           /\ commitItems(b, items, n, 0).detached = b.detached
  BY DEF commitItems

LEMMA ResetKeepsFlag ==
    ASSUME NEW b
    PROVE  DOMAIN resetIfEmptyLocked(b) = DOMAIN b
  BY DEF resetIfEmptyLocked

LEMMA SetItemKeepsFlag ==
    ASSUME NEW b, NEW i, NEW item, NEW d
    PROVE  DOMAIN setItemAt(b, i, item, d) = DOMAIN b
  BY DEF setItemAt

LEMMA InsertKeepsFlag ==
    ASSUME NEW b, NEW item
    PROVE  DOMAIN insertItem(b, item) = DOMAIN b
  BY DEF insertItem

LEMMA AfterCallIsFlagged ==
    ASSUME NEW b, NEW c
    PROVE  DOMAIN afterCall(b, c) = DOMAIN b
<1>1. CASE Inserts(b, c)
  BY <1>1, InsertKeepsFlag DEF afterCall, insertNewItemLocked
<1>2. CASE ~Inserts(b, c)
  <2>1. \A i, payload, d : DOMAIN replaceItemAtIndexLocked(b, i, payload, 0, d) = DOMAIN b
    BY SetItemKeepsFlag DEF replaceItemAtIndexLocked
  <2>2. \A i, x, cell, d : DOMAIN promoteAt(b, i, x, cell, d) = DOMAIN b
    BY SetItemKeepsFlag DEF promoteAt
  <2>3. \A i : DOMAIN deleteIndexLocked(b, i, 0) = DOMAIN b
    BY ResetKeepsFlag DEF deleteIndexLocked
  <2>4. \A n : DOMAIN deletePrefix(b, n, 0) = DOMAIN b
    BY ResetKeepsFlag DEF deletePrefix
  <2> QED
    BY <1>2, <2>1, <2>2, <2>3, <2>4 DEF afterCall
<1> QED
  BY <1>1, <1>2

-----------------------------------------------------------------------------
(* Each step preserves the invariant.  The actions that take shard locks   *)
(* one at a time or use them briefly cannot run where a bulk call of       *)
(* somebody else holds them; two bulk calls never hold the same one.       *)

\* While a call is in its detach phase no shard is free or anybody else's.
LEMMA DetachExcludes ==
    ASSUME Inv, NEW p \in Procs, at[p] = "detach"
    PROVE  /\ \A s \in Scopes : ~ShardFree(s)
           /\ \A h \in Shards : lock[h] # Free
           /\ \A q \in Procs : at[q] = "detach" => q = p
           /\ \A q \in Procs : at[q] \notin {"snapshot", "commit"}
<1>1. \A h \in Shards : lock[h] = p
  BY DEF Inv, HoldsLocks
<1>2. ShardOf \in [Scopes -> Shards] /\ Free \notin Procs
  BY StoreAssumption
<1>3. \A q \in Procs : at[q] = "detach" => q = p
  BY <1>1, SetsAreDistinct DEF Inv, HoldsLocks
<1>4. ASSUME NEW q \in Procs, at[q] \in {"snapshot", "commit"} PROVE FALSE
  <2>1. call[q] \in Calls /\ call[q].op = "warm"
    BY <1>4 DEF Inv, InPlace
  <2>2. PICK s \in Scopes : s \in DOMAIN call[q].batch
    BY <2>1, CallsAssumption, SetsAreDistinct
  <2>3. lock[ShardOf[s]] = q
    BY <1>4, <2>2 DEF Inv, HoldsLocks
  <2>4. q = p
    BY <2>3, <1>1, <1>2
  <2> QED
    BY <2>4, <1>4
<1> QED
  BY <1>1, <1>2, <1>3, <1>4 DEF ShardFree

LEMMA StartStep ==
    ASSUME Inv, NEW p \in Procs, NEW c \in Calls, Start(p, c)
    PROVE  Inv'
<1> USE DEF Inv
<1>1. Typed'
  BY DEF Typed, Start
<1>2. c.op \in ItemOps \cup {"delete_scope", "warm", "rebuild", "wipe"}
  BY CallScopes
<1>3. \A q \in Procs : InPlace(q)'
  BY <1>2 DEF Typed, InPlace, Start, firstStep, ItemOps, CreatingOps
<1>4. \A q \in Procs : HoldsLocks(q)'
  <2>1. at'[p] \in {"lookup", "unlink", "lock"} /\ todo'[p] = shardsToLock(call'[p])
    BY DEF Typed, Start, firstStep
  <2> QED
    BY <2>1 DEF Typed, HoldsLocks, Start, shardsToLock, shardsForScopes
<1>5. \A q \in Procs : Detaches(q)'
  BY DEF Typed, Detaches, Start, firstStep
<1>6. ReservedMapped'
  BY DEF ReservedMapped, Start
<1>7. NoOrphanWrites'
  <2>1. ptr[p] = NoBuf
    BY DEF InPlace, Start
  <2> QED
    BY <2>1 DEF Typed, NoOrphanWrites, Start
<1> QED
  BY <1>1, <1>3, <1>4, <1>5, <1>6, <1>7

LEMMA LookupStep ==
    ASSUME Inv, NEW p \in Procs, lookup(p)
    PROVE  Inv'
<1> USE DEF Inv
<1>1. call[p].scope \in Scopes /\ scopes[call[p].scope] \in BufIds \cup {NoBuf}
  BY CallScopes DEF InPlace, lookup, Typed
<1>2. Typed'
  BY <1>1 DEF Typed, lookup, Goto, Return
<1>3. \A q \in Procs : InPlace(q)'
  BY DEF Typed, InPlace, lookup, Goto, Return
<1>4. \A q \in Procs : HoldsLocks(q)' /\ Detaches(q)'
  <2>1. at'[p] \in {"operate", "create", "idle"}
    BY DEF Typed, lookup, Goto, Return
  <2> QED
    BY <2>1 DEF Typed, HoldsLocks, Detaches, lookup, Goto, Return
<1>5. ReservedMapped'
  BY DEF ReservedMapped, lookup
<1>6. NoOrphanWrites'
  BY DEF Typed, NoOrphanWrites, lookup, Goto, Return
<1> QED
  BY <1>2, <1>3, <1>4, <1>5, <1>6

LEMMA GetOrCreateStep ==
    ASSUME Inv, NEW p \in Procs, getOrCreateScope(p)
    PROVE  Inv'
<1> DEFINE s == call[p].scope
           k == FreshBuf({scopes[t] : t \in Scopes})
<1> USE DEF Inv
<1>1. at[p] = "create" /\ ShardFree(s) /\ UNCHANGED lock
  BY DEF getOrCreateScope
<1>2. s \in Scopes /\ ptr[p] = NoBuf
  BY <1>1, CallScopes DEF InPlace
<1>3. CASE UNCHANGED <<scopes, bufs>> /\ Return(p)
  <2>1. Typed'
    BY <1>1, <1>3 DEF Typed, Return
  <2>2. \A q \in Procs : InPlace(q)' /\ HoldsLocks(q)' /\ Detaches(q)'
    BY <1>1, <1>3 DEF Typed, InPlace, HoldsLocks, Detaches, Return
  <2> QED
    BY <1>3, <2>1, <2>2 DEF Typed, ReservedMapped, NoOrphanWrites, Return
<1>4. CASE /\ scopes[s] # NoBuf
           /\ at' = [at EXCEPT ![p] = "operate"]
           /\ ptr' = [ptr EXCEPT ![p] = scopes[s]]
           /\ created' = [created EXCEPT ![p] = FALSE]
           /\ UNCHANGED <<scopes, bufs, call, todo>>
  <2>1. Typed'
    BY <1>1, <1>2, <1>4 DEF Typed
  <2>2. \A q \in Procs : InPlace(q)' /\ HoldsLocks(q)' /\ Detaches(q)'
    BY <1>1, <1>4 DEF Typed, InPlace, HoldsLocks, Detaches
  <2> QED
    BY <1>4, <2>1, <2>2 DEF Typed, ReservedMapped, NoOrphanWrites
<1>5. CASE /\ scopes[s] = NoBuf
           /\ at' = [at EXCEPT ![p] = "operate"]
           /\ ptr' = [ptr EXCEPT ![p] = k]
           /\ created' = [created EXCEPT ![p] = TRUE]
           /\ bufs' = [bufs EXCEPT ![k] = newscopeBuffer(DefaultMaxItems, 0)]
           /\ scopes' = [scopes EXCEPT ![s] = k]
           /\ UNCHANGED <<call, todo>>
  <2>1. k \in BufIds /\ \A q \in Procs : ptr[q] # k
    BY <1>2, <1>5, FreshAddress
  <2> HIDE DEF k
  <2>2. Typed'
    BY <1>1, <1>2, <1>5, <2>1, NewBufferIsFlagged DEF Typed
  <2>3. s \notin Reserved
    BY <1>5 DEF ReservedMapped
  <2>4. \A q \in Procs : InPlace(q)'
    BY <1>1, <1>5, <2>1, <2>3, SetsAreDistinct DEF Typed, InPlace
  <2>5. \A q \in Procs : at[q] # "detach"
    BY <1>1, <1>2, DetachExcludes
  <2>6. \A q \in Procs : HoldsLocks(q)' /\ Detaches(q)'
    BY <1>1, <1>5, <2>5 DEF Typed, HoldsLocks, Detaches
  <2>7. ReservedMapped'
    BY <1>5, <2>1, SetsAreDistinct DEF Typed, ReservedMapped
  <2>8. NoOrphanWrites'
    BY <1>2, <1>5, <2>1 DEF Typed, NoOrphanWrites
  <2> QED
    BY <2>2, <2>4, <2>6, <2>7, <2>8
<1> QED
  BY <1>3, <1>4, <1>5 DEF getOrCreateScope, Typed

LEMMA OperateStep ==
    ASSUME Inv, NEW p \in Procs, operate(p)
    PROVE  Inv'
<1> DEFINE k == ptr[p]
           b == bufs[k]
           after == afterCall(b, call[p])
<1> USE DEF Inv
<1>1. at[p] = "operate" /\ UNCHANGED <<scopes, lock>>
  BY DEF operate
<1>2. ReservedMapped'
  BY <1>1 DEF ReservedMapped
<1>3. CASE UNCHANGED bufs /\ ((created[p] /\ Goto(p, "cleanup")) \/ Return(p))
  <2>1. Typed'
    BY <1>1, <1>3 DEF Typed, Goto, Return
  <2>2. \A q \in Procs : InPlace(q)'
    BY <1>1, <1>3 DEF Typed, InPlace, Goto, Return
  <2>3. \A q \in Procs : HoldsLocks(q)' /\ Detaches(q)'
    BY <1>1, <1>3 DEF Typed, HoldsLocks, Detaches, Goto, Return
  <2>4. NoOrphanWrites'
    BY <1>1, <1>3 DEF Typed, NoOrphanWrites, Goto, Return
  <2> QED
    BY <1>2, <2>1, <2>2, <2>3, <2>4
<1>4. CASE ~Refused(b, call[p]) /\ bufs' = [bufs EXCEPT ![k] = after] /\ Return(p)
  <2>1. ~b.detached
    BY <1>4 DEF Refused
  <2>2. DOMAIN after = DOMAIN b
    BY AfterCallIsFlagged
  <2> HIDE DEF after
  <2>3. Typed'
    BY <1>1, <1>4, <2>2 DEF Typed, Return
  <2>4. \A q \in Procs : InPlace(q)'
    BY <1>1, <1>4 DEF Typed, InPlace, Return
  <2>5. \A q \in Procs : HoldsLocks(q)'
    BY <1>1, <1>4 DEF Typed, HoldsLocks, Return
  <2>6. ASSUME NEW q \in Procs PROVE Detaches(q)'
    BY <1>1, <1>4, <2>1 DEF Typed, Detaches, Return
  <2>7. NoOrphanWrites'
    BY <1>1, <1>4, <2>1 DEF Typed, NoOrphanWrites, Return
  <2> QED
    BY <1>2, <2>3, <2>4, <2>5, <2>6, <2>7
<1> QED
  BY <1>3, <1>4 DEF operate

\* Unmapping a user scope and detaching its buffer is safe wherever no bulk
\* call holds the scope's shard.
LEMMA UnmapStep ==
    ASSUME Inv, NEW p \in Procs, Return(p), UNCHANGED lock,
           at[p] \notin {"detach", "snapshot", "commit", "lock"},
           NEW s \in Scopes, ShardFree(s), s \notin Reserved, scopes[s] # NoBuf,
           scopes' = [scopes EXCEPT ![s] = NoBuf],
           bufs' = [bufs EXCEPT ![scopes[s]].detached = TRUE]
    PROVE  Inv'
<1> USE DEF Inv
<1>1. Typed'
  BY DEF Typed, Return
<1>2. \A q \in Procs : InPlace(q)'
  BY DEF Typed, InPlace, Return
<1>3. \A q \in Procs : at[q] # "detach"
  BY DetachExcludes
<1>4. \A q \in Procs : HoldsLocks(q)' /\ Detaches(q)'
  BY <1>3 DEF Typed, HoldsLocks, Detaches, Return
<1>5. ReservedMapped'
  BY SetsAreDistinct DEF Typed, ReservedMapped
<1>6. NoOrphanWrites'
  <2>1. scopes[s] \in BufIds /\ bufs'[scopes[s]].detached
    BY DEF Typed
  <2>2. \A k \in BufIds : k # scopes[s] => bufs'[k] = bufs[k]
    BY DEF Typed
  <2> QED
    BY <2>1, <2>2 DEF Typed, NoOrphanWrites, Return
<1> QED
  BY <1>1, <1>2, <1>4, <1>5, <1>6

\* A call that returns and leaves maps, buffers and locks alone.
LEMMA ReturnStep ==
    ASSUME Inv, NEW p \in Procs, Return(p), UNCHANGED <<scopes, bufs, lock>>
    PROVE  Inv'
<1> USE DEF Inv
<1>1. Typed'
  BY DEF Typed, Return
<1>2. \A q \in Procs : InPlace(q)' /\ HoldsLocks(q)' /\ Detaches(q)'
  BY DEF Typed, InPlace, HoldsLocks, Detaches, Return
<1>3. ReservedMapped' /\ NoOrphanWrites'
  BY DEF Typed, ReservedMapped, NoOrphanWrites, Return
<1> QED
  BY <1>1, <1>2, <1>3

LEMMA CleanupStep ==
    ASSUME Inv, NEW p \in Procs, cleanupIfEmptyAndUnused(p)
    PROVE  Inv'
<1>1. at[p] = "cleanup" /\ ShardFree(call[p].scope) /\ Return(p) /\ UNCHANGED lock
  BY DEF cleanupIfEmptyAndUnused
<1>2. call[p].scope \in Scopes /\ call[p].scope \notin Reserved
  BY <1>1, CallScopes DEF Inv, InPlace
<1>3. CASE UNCHANGED <<scopes, bufs>>
  BY <1>1, <1>3, ReturnStep
<1>4. CASE scopes[call[p].scope] = ptr[p] /\ RollBack(call[p].scope, ptr[p])
  <2>1. ptr[p] # NoBuf
    BY <1>1 DEF Inv, InPlace
  <2> QED
    BY <1>1, <1>2, <1>4, <2>1, UnmapStep DEF RollBack
<1> QED
  BY <1>3, <1>4 DEF cleanupIfEmptyAndUnused

LEMMA DeleteScopeStep ==
    ASSUME Inv, NEW p \in Procs, deleteScope(p)
    PROVE  Inv'
<1>1. at[p] = "unlink" /\ ShardFree(call[p].scope) /\ Return(p) /\ UNCHANGED lock
  BY DEF deleteScope
<1>2. call[p].scope \in Scopes /\ call[p].scope \notin Reserved
  BY <1>1, CallScopes DEF Inv, InPlace
<1>3. CASE scopes[call[p].scope] = NoBuf
  BY <1>1, <1>3, ReturnStep DEF deleteScope
<1>4. CASE scopes[call[p].scope] # NoBuf
  BY <1>1, <1>2, <1>4, UnmapStep DEF deleteScope
<1> QED
  BY <1>3, <1>4

LEMMA LockShardsStep ==
    ASSUME Inv, NEW p \in Procs, lockShards(p)
    PROVE  Inv'
<1> DEFINE h == nextShard(call[p], todo[p])
           rest == todo[p] \ {h}
<1> USE DEF Inv
<1>1. /\ at[p] = "lock" /\ lock[h] = Free /\ lock' = [lock EXCEPT ![h] = p]
      /\ UNCHANGED <<scopes, bufs>>
  BY DEF lockShards
<1>2. call[p] \in Calls /\ call[p].op \in {"wipe", "rebuild", "warm"} /\ ptr[p] = NoBuf
  BY <1>1 DEF InPlace
<1>3. \/ rest # {} /\ GotoWith(p, "lock", rest)
      \/ rest = {} /\ call[p].op = "warm" /\ GotoWith(p, "snapshot", DOMAIN call[p].batch)
      \/ rest = {} /\ call[p].op # "warm" /\ GotoWith(p, "detach", Mapped)
  BY DEF lockShards
<1> HIDE DEF h
<1>4. Typed'
  BY <1>1, <1>3 DEF Typed, GotoWith
<1>5. \A q \in Procs : InPlace(q)'
  BY <1>1, <1>2, <1>3 DEF Typed, InPlace, GotoWith
<1>6. Free \notin Procs /\ ShardOf \in [Scopes -> Shards] /\ DOMAIN lock = Shards
  BY StoreAssumption DEF Typed
<1>7. shardsToLock(call[p]) \subseteq Shards
  BY <1>2, <1>6, CallScopes DEF shardsToLock, shardsForScopes
<1>8. \A g \in shardsToLock(call[p]) \ rest : lock'[g] = p
  BY <1>1, <1>6, <1>7 DEF HoldsLocks
<1>9. HoldsLocks(p)'
  <2>1. CASE rest # {} /\ GotoWith(p, "lock", rest)
    BY <2>1, <1>8 DEF Typed, HoldsLocks, GotoWith
  <2>2. CASE rest = {} /\ call[p].op = "warm" /\ GotoWith(p, "snapshot", DOMAIN call[p].batch)
    <3>1. shardsToLock(call[p]) = {ShardOf[s] : s \in DOMAIN call[p].batch}
      BY <2>2 DEF shardsToLock, shardsForScopes
    <3>2. \A s \in DOMAIN call[p].batch : lock'[ShardOf[s]] = p
      BY <2>2, <3>1, <1>8
    <3> QED
      BY <2>2, <3>2 DEF Typed, HoldsLocks, GotoWith
  <2>3. CASE rest = {} /\ call[p].op # "warm" /\ GotoWith(p, "detach", Mapped)
    <3>1. shardsToLock(call[p]) = Shards
      BY <2>3, <1>2 DEF shardsToLock
    <3> QED
      BY <2>3, <3>1, <1>8 DEF Typed, HoldsLocks, GotoWith
  <2> QED
    BY <1>3, <2>1, <2>2, <2>3
<1>10. ASSUME NEW q \in Procs, q # p PROVE HoldsLocks(q)'
  <2>1. /\ at'[q] = at[q] /\ todo'[q] = todo[q] /\ call'[q] = call[q]
    BY <1>3, <1>10 DEF Typed, GotoWith
  <2>2. \A g : lock[g] = q => lock'[g] = q
    BY <1>1, <1>6, <1>10
  <2> QED
    BY <2>1, <2>2 DEF HoldsLocks
<1>11. ASSUME NEW q \in Procs PROVE Detaches(q)'
  BY <1>1, <1>3 DEF Typed, Detaches, GotoWith, Mapped
<1>12. ReservedMapped' /\ NoOrphanWrites'
  BY <1>1, <1>3 DEF Typed, ReservedMapped, NoOrphanWrites, GotoWith
<1> QED
  BY <1>4, <1>5, <1>9, <1>10, <1>11, <1>12

LEMMA DetachStep ==
    ASSUME Inv, NEW p \in Procs, detach(p)
    PROVE  Inv'
<1> USE DEF Inv
<1>1. PICK s \in todo[p] : /\ bufs' = [bufs EXCEPT ![scopes[s]].detached = TRUE]
                           /\ GotoWith(p, "detach", todo[p] \ {s})
  BY DEF detach
<1>2. at[p] = "detach" /\ UNCHANGED <<scopes, lock>>
  BY DEF detach
<1>3. Typed'
  BY <1>1, <1>2 DEF Typed, GotoWith
<1>4. \A q \in Procs : InPlace(q)' /\ HoldsLocks(q)'
  BY <1>1, <1>2 DEF Typed, InPlace, HoldsLocks, GotoWith
<1>5. \A k \in BufIds : /\ bufs[k].detached => bufs'[k].detached
                        /\ k = scopes[s] => bufs'[k].detached
  BY <1>1 DEF Typed
<1>6. \A t \in Scopes : scopes[t] # NoBuf => scopes[t] \in BufIds
  BY DEF Typed
<1>7. ASSUME NEW q \in Procs PROVE Detaches(q)'
  BY <1>1, <1>2, <1>5, <1>6 DEF Typed, Detaches, GotoWith
<1>8. ReservedMapped'
  BY <1>2 DEF ReservedMapped
<1>9. NoOrphanWrites'
  BY <1>1, <1>2, <1>5 DEF Typed, NoOrphanWrites, GotoWith
<1> QED
  BY <1>3, <1>4, <1>7, <1>8, <1>9

\* Letting the locks go frees nobody else's.
LEMMA UnlockedLocks ==
    ASSUME Typed, NEW p \in Procs
    PROVE  /\ Unlocked(p) \in [Shards -> Procs \cup {Free}]
           /\ \A h \in Shards, q \in Procs : q # p /\ lock[h] = q => Unlocked(p)[h] = q
  BY StoreAssumption DEF Typed, Unlocked

\* The bulk calls end: their locks are free and the call is gone.
LEMMA UnlockStep ==
    ASSUME Inv, NEW p \in Procs, Return(p), lock' = Unlocked(p)
    PROVE  \A q \in Procs : InPlace(q)' /\ HoldsLocks(q)'
<1> USE DEF Inv
<1>1. \A q \in Procs : InPlace(q)'
  BY DEF Typed, InPlace, Return
<1>2. ASSUME NEW q \in Procs PROVE HoldsLocks(q)'
  <2>1. CASE q = p
    BY <2>1 DEF Typed, HoldsLocks, Return
  <2>2. CASE q # p
    <3>1. at'[q] = at[q] /\ todo'[q] = todo[q] /\ call'[q] = call[q]
      BY <2>2 DEF Typed, Return
    <3>2. \A h \in Shards : lock[h] = q => lock'[h] = q
      BY <2>2, UnlockedLocks
    <3>3. at[q] # "idle" => shardsToLock(call[q]) \subseteq Shards
      BY CallScopes, StoreAssumption DEF InPlace, shardsToLock, shardsForScopes
    <3>4. at[q] \in {"snapshot", "commit"} => \A s \in DOMAIN call[q].batch : ShardOf[s] \in Shards
      BY CallScopes, StoreAssumption DEF InPlace
    <3> QED
      BY <3>1, <3>2, <3>3, <3>4 DEF HoldsLocks
  <2> QED
    BY <2>1, <2>2
<1> QED
  BY <1>1, <1>2

LEMMA SwapMapsStep ==
    ASSUME Inv, NEW p \in Procs, NEW batch, DOMAIN batch \subseteq Scopes, swapMaps(p, batch)
    PROVE  Inv'
<1> DEFINE names == mapAfterSwap(batch)
           addr == newAddress(names)
           fresh(s) == IF s \in Reserved THEN newscopeBuffer(maxItemsFor(s), 0)
                       ELSE rebuiltBuffer(replacementItems(batch[s], 0))
<1> USE DEF Inv
<1>1. /\ at[p] = "detach" /\ todo[p] = {}
      /\ scopes' = [s \in Scopes |-> IF s \in names THEN addr[s] ELSE NoBuf]
      /\ bufs' = [k \in BufIds |->
            IF \E s \in names : addr[s] = k
            THEN fresh(CHOOSE s \in names : addr[s] = k) ELSE bufs[k]]
      /\ lock' = Unlocked(p)
      /\ Return(p)
  BY DEF swapMaps
<1>2. names \in SUBSET Scopes /\ Reserved \subseteq names
  BY SetsAreDistinct DEF mapAfterSwap
<1>3. addr \in [names -> {k \in BufIds : \A q \in Procs : ptr[q] # k}]
  BY <1>2, NewAddresses
<1>4. \A s : "detached" \in DOMAIN fresh(s)
  BY NewBufferIsFlagged, RebuiltBufferIsFlagged
<1> HIDE DEF names, addr, fresh
<1>5. Typed'
  <2>1. scopes' \in [Scopes -> BufIds \cup {NoBuf}]
    BY <1>1, <1>2, <1>3
  <2>2. DOMAIN bufs' = BufIds /\ \A k \in BufIds : "detached" \in DOMAIN bufs'[k]
    BY <1>1, <1>4 DEF Typed
  <2>3. lock' \in [Shards -> Procs \cup {Free}]
    BY <1>1, UnlockedLocks
  <2>4. /\ ptr' \in [Procs -> BufIds \cup {NoBuf}] /\ DOMAIN at' = Procs /\ DOMAIN call' = Procs
        /\ DOMAIN created' = Procs /\ DOMAIN todo' = Procs
    BY <1>1 DEF Typed, Return
  <2> QED
    BY <2>1, <2>2, <2>3, <2>4 DEF Typed
<1>6. \A q \in Procs : InPlace(q)' /\ HoldsLocks(q)'
  BY <1>1, UnlockStep
<1>7. \A q \in Procs : Detaches(q)'
  <2>1. \A q \in Procs : at'[q] # "detach"
    BY <1>1, DetachExcludes DEF Typed, Return
  <2> QED
    BY <2>1 DEF Detaches
<1>8. ReservedMapped'
  BY <1>1, <1>2, <1>3, SetsAreDistinct DEF ReservedMapped
<1>9. NoOrphanWrites'
  <2> SUFFICES ASSUME NEW q \in Procs, ptr'[q] # NoBuf
               PROVE  bufs'[ptr'[q]].detached
    BY DEF NoOrphanWrites
  <2>1. ptr'[q] = ptr[q] /\ ptr[q] \in BufIds
    BY <1>1 DEF Typed, Return
  <2>2. bufs[ptr[q]].detached
    <3>1. CASE scopes[call[q].scope] = ptr[q]
      <4>1. call[q].scope \in Scopes
        BY <2>1, SetsAreDistinct, CallScopes DEF InPlace
      <4> QED
        BY <4>1, <3>1, <2>1, <1>1, SetsAreDistinct DEF Detaches
    <3> QED
      BY <3>1, <2>1, SetsAreDistinct DEF NoOrphanWrites
  <2>3. ~\E s \in names : addr[s] = ptr[q]
    BY <1>3
  <2>4. bufs'[ptr[q]] = bufs[ptr[q]]
    BY <1>1, <2>1, <2>3
  <2> QED
    BY <2>1, <2>2, <2>4
<1> QED
  BY <1>5, <1>6, <1>7, <1>8, <1>9

LEMMA SnapshotStep ==
    ASSUME Inv, NEW p \in Procs, snapshot(p)
    PROVE  Inv'
<1> USE DEF Inv
<1>1. PICK s \in todo[p] : todo' = [todo EXCEPT ![p] = @ \ {s}]
  BY DEF snapshot
<1>2. at[p] = "snapshot" /\ UNCHANGED <<scopes, bufs, lock, at, call, ptr, created>>
  BY DEF snapshot
<1>3. Typed'
  BY <1>1, <1>2 DEF Typed
<1>4. \A q \in Procs : InPlace(q)' /\ HoldsLocks(q)' /\ Detaches(q)'
  BY <1>1, <1>2 DEF Typed, InPlace, HoldsLocks, Detaches
<1>5. ReservedMapped' /\ NoOrphanWrites'
  BY <1>2 DEF ReservedMapped, NoOrphanWrites
<1> QED
  BY <1>3, <1>4, <1>5

\* A /warm that ends, reserved or refused, changes no map and no buffer here.
LEMMA WarmEnds ==
    ASSUME Inv, NEW p \in Procs, Return(p), lock' = Unlocked(p), UNCHANGED <<scopes, bufs>>
    PROVE  Inv'
<1> USE DEF Inv
<1>1. Typed'
  BY UnlockedLocks DEF Typed, Return
<1>2. \A q \in Procs : InPlace(q)' /\ HoldsLocks(q)'
  BY UnlockStep
<1>3. \A q \in Procs : Detaches(q)'
  BY DEF Typed, Detaches, Return
<1>4. ReservedMapped' /\ NoOrphanWrites'
  BY DEF Typed, ReservedMapped, NoOrphanWrites, Return
<1> QED
  BY <1>1, <1>2, <1>3, <1>4

LEMMA ReserveStep ==
    ASSUME Inv, NEW p \in Procs, reserve(p)
    PROVE  Inv'
<1> USE DEF Inv
<1>1. at[p] = "snapshot" /\ UNCHANGED <<scopes, bufs>>
  BY DEF reserve
<1>2. CASE GotoWith(p, "commit", DOMAIN call[p].batch) /\ UNCHANGED lock
  <2>1. Typed'
    BY <1>1, <1>2 DEF Typed, GotoWith
  <2>2. \A q \in Procs : InPlace(q)' /\ HoldsLocks(q)' /\ Detaches(q)'
    BY <1>1, <1>2 DEF Typed, InPlace, HoldsLocks, Detaches, GotoWith
  <2>3. ReservedMapped' /\ NoOrphanWrites'
    BY <1>1, <1>2 DEF ReservedMapped, NoOrphanWrites, GotoWith
  <2> QED
    BY <2>1, <2>2, <2>3
<1>3. CASE Return(p) /\ lock' = Unlocked(p)
  BY <1>1, <1>3, WarmEnds
<1> QED
  BY <1>2, <1>3 DEF reserve

LEMMA ReplaceScopesDoneStep ==
    ASSUME Inv, NEW p \in Procs, replaceScopesDone(p)
    PROVE  Inv'
  BY WarmEnds DEF replaceScopesDone

LEMMA CommitScopeStep ==
    ASSUME Inv, NEW p \in Procs, commitScope(p)
    PROVE  Inv'
<1> DEFINE k(s) == IF scopes[s] = NoBuf THEN FreshBuf({scopes[t] : t \in Scopes}) ELSE scopes[s]
           b(s) == IF scopes[s] = NoBuf THEN newscopeBuffer(DefaultMaxItems, 0) ELSE bufs[k(s)]
           after(s) == commitItems(b(s), replacementItems(call[p].batch[s], 0),
                                   batchBytes(call[p].batch, s), 0)
<1> USE DEF Inv
<1>1. at[p] = "commit" /\ UNCHANGED <<lock, at, call, ptr, created>>
  BY DEF commitScope
<1>2. PICK s \in todo[p] : /\ bufs' = [bufs EXCEPT ![k(s)] = after(s)]
                           /\ scopes' = [scopes EXCEPT ![s] = k(s)]
                           /\ todo' = [todo EXCEPT ![p] = @ \ {s}]
  BY DEF commitScope
<1>3. s \in Scopes /\ ptr[p] = NoBuf
  BY <1>1, <1>2, CallScopes DEF InPlace
<1>4. /\ k(s) \in BufIds
      /\ scopes[s] = NoBuf => \A q \in Procs : ptr[q] # k(s)
      /\ scopes[s] # NoBuf => k(s) = scopes[s]
  BY <1>3, FreshAddress DEF Typed
<1>5. "detached" \in DOMAIN b(s)
  BY <1>4, NewBufferIsFlagged DEF Typed
<1> HIDE DEF b
<1>6. "detached" \in DOMAIN after(s) /\ after(s).detached = b(s).detached
  BY <1>5, CommitKeepsFlag
<1>7. scopes[s] # NoBuf => after(s).detached = bufs[k(s)].detached
  BY <1>6 DEF b
<1> HIDE DEF k, after
<1>8. Typed'
  BY <1>1, <1>2, <1>3, <1>4, <1>6 DEF Typed
<1>9. \A q \in Procs : InPlace(q)' /\ HoldsLocks(q)'
  BY <1>1, <1>2 DEF Typed, InPlace, HoldsLocks
<1>10. \A q \in Procs : Detaches(q)'
  BY <1>1, DetachExcludes DEF Detaches
<1>11. ReservedMapped'
  BY <1>2, <1>4, SetsAreDistinct DEF Typed, ReservedMapped
<1>12. NoOrphanWrites'
  <2> SUFFICES ASSUME NEW q \in Procs, ptr[q] # NoBuf
               PROVE  bufs'[ptr[q]].detached \/ scopes'[call[q].scope] = ptr[q]
    BY <1>1 DEF NoOrphanWrites
  <2>1. bufs[ptr[q]].detached \/ scopes[call[q].scope] = ptr[q]
    BY DEF NoOrphanWrites
  <2>2. bufs'[ptr[q]].detached = bufs[ptr[q]].detached
    BY <1>2, <1>4, <1>7 DEF Typed
  <2>3. scopes[call[q].scope] = ptr[q] => scopes'[call[q].scope] = ptr[q]
    BY <1>2, <1>4 DEF Typed
  <2> QED
    BY <2>1, <2>2, <2>3
<1> QED
  BY <1>8, <1>9, <1>10, <1>11, <1>12

-----------------------------------------------------------------------------
(* Theorems. *)

LEMMA InitInv == Init => Inv
<1> SUFFICES ASSUME Init PROVE Inv
  OBVIOUS
<1> USE DEF Init
<1>1. Reserved \subseteq BufIds
  <2>1. Cardinality(Procs) \in Nat
    BY SetSizes
  <2> QED
    BY <2>1, StoreAssumption DEF Reserved, BufIds
<1>2. Typed
  BY <1>1, NewBufferIsFlagged DEF Typed
<1>3. \A p \in Procs : InPlace(p) /\ HoldsLocks(p) /\ Detaches(p)
  BY DEF InPlace, HoldsLocks, Detaches
<1>4. ReservedMapped
  BY <1>1, SetsAreDistinct DEF ReservedMapped
<1>5. NoOrphanWrites
  BY DEF NoOrphanWrites
<1> QED
  BY <1>2, <1>3, <1>4, <1>5 DEF Inv

LEMMA NextInv == Inv /\ [Next]_vars => Inv'
<1> SUFFICES ASSUME Inv, [Next]_vars PROVE Inv'
  OBVIOUS
<1>1. ASSUME NEW p \in Procs, NEW c \in Calls, Start(p, c) PROVE Inv'
  BY <1>1, StartStep
<1>2. ASSUME NEW p \in Procs, Step(p) PROVE Inv'
  <2>1. CASE lookup(p)
    BY <2>1, LookupStep
  <2>2. CASE getOrCreateScope(p)
    BY <2>2, GetOrCreateStep
  <2>3. CASE operate(p)
    BY <2>3, OperateStep
  <2>4. CASE cleanupIfEmptyAndUnused(p)
    BY <2>4, CleanupStep
  <2>5. CASE deleteScope(p)
    BY <2>5, DeleteScopeStep
  <2>6. CASE lockShards(p)
    BY <2>6, LockShardsStep
  <2>7. CASE detach(p)
    BY <2>7, DetachStep
  <2>8. CASE wipe(p)
    <3>1. DOMAIN [s \in {} |-> s] \subseteq Scopes /\ swapMaps(p, [s \in {} |-> s])
      BY <2>8 DEF wipe
    <3> QED
      BY <3>1, SwapMapsStep
  <2>9. CASE rebuildAll(p)
    <3>1. call[p].op = "rebuild" /\ swapMaps(p, call[p].batch)
      BY <2>9 DEF rebuildAll
    <3>2. at[p] = "detach"
      BY <3>1 DEF swapMaps
    <3>3. DOMAIN call[p].batch \subseteq Scopes
      BY <3>1, <3>2, CallScopes DEF Inv, InPlace
    <3> QED
      BY <3>1, <3>3, SwapMapsStep
  <2>10. CASE snapshot(p)
    BY <2>10, SnapshotStep
  <2>11. CASE reserve(p)
    BY <2>11, ReserveStep
  <2>12. CASE commitScope(p)
    BY <2>12, CommitScopeStep
  <2>13. CASE replaceScopesDone(p)
    BY <2>13, ReplaceScopesDoneStep
  <2> QED
    BY <1>2, <2>1, <2>2, <2>3, <2>4, <2>5, <2>6, <2>7, <2>8, <2>9, <2>10, <2>11, <2>12, <2>13
    DEF Step
<1>3. CASE UNCHANGED vars
  <2>1. UNCHANGED <<scopes, bufs, lock, at, call, ptr, created, todo>>
    BY <1>3 DEF vars, local
  <2> QED
    BY <2>1 DEF Inv, Typed, InPlace, HoldsLocks, Detaches, ReservedMapped, NoOrphanWrites
<1> QED
  BY <1>1, <1>2, <1>3 DEF Next, Finished

\* The invariant of the proofs: which locks a bulk call holds in each phase,
\* where a caller can hold a pointer, and that /wipe and /rebuild have detached
\* every buffer they are about to drop.
THEOREM StoreInvariance == Spec => []Inv
  BY InitInv, NextInv, PTL DEF Spec

\* NoOrphanWrites holds of getOrCreateScope, cleanupIfEmptyAndUnused, deleteScope,
\* wipe, rebuildAll and replaceScopes together, for any callers and any calls.
THEOREM WritesAreReachable == Spec => []NoOrphanWrites
<1>1. Inv => NoOrphanWrites
  BY DEF Inv
<1> QED
  BY <1>1, StoreInvariance, PTL

\* ReservedPresent: a roll-back never takes a reserved scope, /delete_scope
\* cannot name one, and /wipe and /rebuild put them back before they let go.
THEOREM ReservedScopesStay == Spec => []ReservedPresent
<1>1. Inv => ReservedPresent
  BY DEF Inv, ReservedMapped, ReservedPresent
<1> QED
  BY <1>1, StoreInvariance, PTL

-----------------------------------------------------------------------------
(* Buffers.  A rebuilt buffer has a wrong idKeyBytes; apart from that every *)
(* buffer of the store is well-formed.                                     *)

\* b is buf with some idKeyBytes or other.
Alike(b, buf) == \E n : b = [buf EXCEPT !.idKeyBytes = n]

Sound(b) == \E buf : WellFormed(buf) /\ Alike(b, buf)

LEMMA SameButIdBytes ==
    ASSUME NEW buf \in Buffer, NEW b, Alike(b, buf)
    PROVE  /\ b.items = buf.items /\ b.byID = buf.byID /\ b.bySeq = buf.bySeq
           /\ b.lastSeq = buf.lastSeq /\ b.bytes = buf.bytes
  BY DEF Alike, Buffer

\* A record is its fields.
LEMMA BufferRecord ==
    ASSUME NEW x \in Buffer
    PROVE  /\ [x EXCEPT !.idKeyBytes = x.idKeyBytes] = x
           /\ \A n \in Int : [x EXCEPT !.idKeyBytes = n] \in Buffer
           /\ \A y \in Buffer :
                /\ x.items = y.items /\ x.byID = y.byID /\ x.bySeq = y.bySeq
                /\ x.lastSeq = y.lastSeq /\ x.maxItems = y.maxItems /\ x.bytes = y.bytes
                /\ x.idKeyBytes = y.idKeyBytes /\ x.detached = y.detached
                /\ x.lastWriteTS = y.lastWriteTS
                => x = y
  BY DEF Buffer

LEMMA SumOfNats ==
    ASSUME NEW f, NEW n \in Nat, \A i \in 1..n : f[i] \in Nat
    PROVE  SumTo(f)[n] \in Nat
<1> DEFINE S == {k \in Nat : k <= n => SumTo(f)[k] \in Nat}
<1>1. 0 \in S
  BY SumToEquation
<1>2. ASSUME NEW k \in Nat, k \in S PROVE k + 1 \in S
  <2> SUFFICES ASSUME k + 1 <= n PROVE SumTo(f)[k + 1] \in Nat
    OBVIOUS
  <2>1. SumTo(f)[k + 1] = SumTo(f)[k] + f[k + 1]
    BY SumToEquation
  <2>2. SumTo(f)[k] \in Nat /\ f[k + 1] \in Nat
    BY <1>2
  <2> QED
    BY <2>1, <2>2
<1> HIDE DEF S
<1>3. Nat \subseteq S
  BY <1>1, <1>2, NatSetInduction
<1> QED
  BY <1>3 DEF S

\* What the counters read of a buffer.
LEMMA SoundTallies ==
    ASSUME NEW b, Sound(b)
    PROVE  /\ b.bytes \in Nat /\ Len(b.items) \in Nat
           /\ b.items = <<>> => b.bytes = 0 /\ Len(b.items) = 0
<1>1. PICK buf : WellFormed(buf) /\ Alike(b, buf)
  BY DEF Sound
<1>2. buf \in Buffer /\ buf.items \in Seq(Item) /\ buf.bytes = sumItemBytes(buf.items)
  BY <1>1, BufferFields DEF WellFormed
<1>3. b.items = buf.items /\ b.bytes = buf.bytes
  BY <1>1, <1>2, SameButIdBytes
<1>4. /\ \A i \in 1..Len(buf.items) : Sizes(buf.items)[i] \in Nat
      /\ sumItemBytes(buf.items) = SumTo(Sizes(buf.items))[Len(buf.items)]
  BY <1>2, SumsOfItems
<1>5. Len(buf.items) \in Nat
  BY <1>2
<1>6. SumTo(Sizes(buf.items))[Len(buf.items)] \in Nat
  BY <1>4, <1>5, SumOfNats
<1>7. buf.items = <<>> => Len(buf.items) = 0
  OBVIOUS
<1>8. SumTo(Sizes(buf.items))[0] = 0
  BY SumToEquation
<1> QED
  BY <1>2, <1>3, <1>4, <1>5, <1>6, <1>7, <1>8

LEMMA SoundNew ==
    ASSUME NEW m \in Nat
    PROVE  Sound(newscopeBuffer(m, 0))
<1> DEFINE buf == newscopeBuffer(m, 0)
<1>1. WellFormed(buf)
  BY NewBufferWellFormed
<1>2. buf = [buf EXCEPT !.idKeyBytes = buf.idKeyBytes]
  BY <1>1, BufferRecord DEF WellFormed
<1> QED
  BY <1>1, <1>2 DEF Sound, Alike

LEMMA SoundDetached ==
    ASSUME NEW b, Sound(b)
    PROVE  /\ Sound([b EXCEPT !.detached = TRUE])
           /\ [b EXCEPT !.detached = TRUE].items = b.items
           /\ [b EXCEPT !.detached = TRUE].bytes = b.bytes
<1>1. PICK buf : WellFormed(buf) /\ Alike(b, buf)
  BY DEF Sound
<1>2. buf \in Buffer
  BY <1>1 DEF WellFormed
<1>3. WellFormed([buf EXCEPT !.detached = TRUE])
  BY <1>1, StampKeepsWellFormed
<1>4. PICK n : b = [buf EXCEPT !.idKeyBytes = n]
  BY <1>1 DEF Alike
<1>5. [b EXCEPT !.detached = TRUE] = [[buf EXCEPT !.detached = TRUE] EXCEPT !.idKeyBytes = n]
  BY <1>2, <1>4 DEF Buffer
<1>6. Sound([b EXCEPT !.detached = TRUE])
  BY <1>3, <1>5 DEF Sound, Alike
<1> QED
  BY <1>2, <1>4, <1>6 DEF Buffer

LEMMA SoundCommit ==
    ASSUME NEW b, Sound(b), NEW inputs \in Seq(Input), ~DuplicateIds(inputs)
    PROVE  LET items == replacementItems(inputs, 0)
               after == commitItems(b, items, sumItemBytes(items), 0)
           IN  /\ Sound(after) /\ after.bytes = sumItemBytes(items) /\ after.items = items
               /\ sumItemBytes(items) \in Int /\ Len(items) = Len(inputs)
<1> DEFINE items == replacementItems(inputs, 0)
           bytes == sumItemBytes(items)
<1>1. PICK buf : WellFormed(buf) /\ Alike(b, buf)
  BY DEF Sound
<1>2. buf \in Buffer
  BY <1>1 DEF WellFormed
<1>3. /\ items \in Seq(Item) /\ Len(items) = Len(inputs)
      /\ \A i \in 1..Len(items) : items[i].seq = i
      /\ \A i, j \in 1..Len(items) : i # j /\ items[i].id # NoId => items[i].id # items[j].id
  BY ReplacementItems
<1> HIDE DEF items
<1>4. bytes \in Int
  BY <1>3, SumsOfItems
<1>5. WellFormed(commitItems(buf, items, bytes, 0))
  BY <1>2, <1>3, CommitKeepsWellFormed
<1> HIDE DEF bytes
<1>6. PICK n : b = [buf EXCEPT !.idKeyBytes = n]
  BY <1>1 DEF Alike
<1>7. commitItems(b, items, bytes, 0)
        = [commitItems(buf, items, bytes, 0) EXCEPT !.idKeyBytes = sumIdBytes(items)]
  BY <1>2, <1>6 DEF commitItems, Buffer
<1>8. Sound(commitItems(b, items, bytes, 0))
  BY <1>5, <1>7 DEF Sound, Alike
<1>9. commitItems(b, items, bytes, 0).bytes = bytes /\ commitItems(b, items, bytes, 0).items = items
  BY <1>2, <1>6 DEF commitItems, Buffer
<1> QED
  BY <1>3, <1>4, <1>8, <1>9 DEF items, bytes

LEMMA SoundRebuilt ==
    ASSUME NEW inputs \in Seq(Input), ~DuplicateIds(inputs)
    PROVE  LET items == replacementItems(inputs, 0)
               b == rebuiltBuffer(items)
           IN  Sound(b) /\ b.bytes = sumItemBytes(items) /\ b.items = items
<1> DEFINE items == replacementItems(inputs, 0)
           new == newscopeBuffer(DefaultMaxItems, 0)
           buf == commitItems(new, items, sumItemBytes(items), 0)
<1>1. DefaultMaxItems \in Nat
  BY StoreAssumption
<1>2. WellFormed(new)
  BY <1>1, NewBufferWellFormed
<1>3. /\ items \in Seq(Item)
      /\ \A i \in 1..Len(items) : items[i].seq = i
      /\ \A i, j \in 1..Len(items) : i # j /\ items[i].id # NoId => items[i].id # items[j].id
  BY ReplacementItems
<1> HIDE DEF items
<1>4. WellFormed(buf)
  BY <1>2, <1>3, CommitKeepsWellFormed DEF WellFormed
<1>5. rebuiltBuffer(items) = [buf EXCEPT !.idKeyBytes = 0]
  <2>1. new \in Buffer /\ buf \in Buffer
    BY <1>2, <1>4 DEF WellFormed
  <2>2. new.idKeyBytes = 0 /\ rebuiltBuffer(items) =
          [new EXCEPT !.items = items, !.byID = MapByID(items), !.bySeq = MapBySeq(items),
                      !.lastSeq = Len(items), !.bytes = sumItemBytes(items)]
    BY DEF rebuiltBuffer, newscopeBuffer
  <2> HIDE DEF new
  <2>3. /\ buf.items = items /\ buf.byID = MapByID(items) /\ buf.bySeq = MapBySeq(items)
        /\ buf.lastSeq = Len(items) /\ buf.bytes = sumItemBytes(items)
        /\ buf.detached = new.detached /\ buf.maxItems = new.maxItems /\ buf.lastWriteTS = 0
    BY <2>1 DEF commitItems, Buffer
  <2>4. new.lastWriteTS = 0
    BY DEF new, newscopeBuffer
  <2> HIDE DEF buf
  <2>5. /\ MapByID(items) \in IdMaps /\ MapBySeq(items) \in SeqMaps
        /\ Len(items) \in Nat /\ sumItemBytes(items) \in Int
    BY <2>1, <2>3, BufferFields
  <2>6. rebuiltBuffer(items) \in Buffer
    BY ZenonT(60), <1>3, <2>1, <2>2, <2>5 DEF Buffer
  <2>7. [buf EXCEPT !.idKeyBytes = 0] \in Buffer
    BY <2>1, BufferRecord
  <2> DEFINE x == rebuiltBuffer(items)
             y == [buf EXCEPT !.idKeyBytes = 0]
  <2>8. /\ x.items = y.items /\ x.byID = y.byID /\ x.bySeq = y.bySeq
        /\ x.lastSeq = y.lastSeq /\ x.maxItems = y.maxItems /\ x.bytes = y.bytes
        /\ x.idKeyBytes = y.idKeyBytes /\ x.detached = y.detached
        /\ x.lastWriteTS = y.lastWriteTS
    BY <2>1, <2>2, <2>3, <2>4 DEF Buffer
  <2> QED
    BY <2>6, <2>7, <2>8, BufferRecord
<1>6. Sound(rebuiltBuffer(items))
  BY <1>4, <1>5 DEF Sound, Alike
<1>7. rebuiltBuffer(items).bytes = sumItemBytes(items) /\ rebuiltBuffer(items).items = items
  BY DEF rebuiltBuffer, newscopeBuffer
<1> QED
  BY <1>6, <1>7 DEF items

\* The four shapes of a write keep two buffers alike.
LEMMA InsertAlike ==
    ASSUME NEW buf \in Buffer, NEW b, Alike(b, buf), NEW item
    PROVE  Alike(insertItem(b, item), insertItem(buf, item))
<1>1. PICK n : b = [buf EXCEPT !.idKeyBytes = n]
  BY DEF Alike
<1>2. insertItem(b, item) = [insertItem(buf, item) EXCEPT !.idKeyBytes = n + IdLen[item.id]]
  BY <1>1 DEF insertItem, Buffer
<1> QED
  BY <1>2 DEF Alike

LEMMA SetItemAlike ==
    ASSUME NEW buf \in Buffer, NEW b, Alike(b, buf), NEW i, NEW item, NEW d
    PROVE  Alike(setItemAt(b, i, item, d), setItemAt(buf, i, item, d))
<1>1. PICK n : b = [buf EXCEPT !.idKeyBytes = n]
  BY DEF Alike
<1>2. setItemAt(b, i, item, d) = [setItemAt(buf, i, item, d) EXCEPT !.idKeyBytes = n]
  BY <1>1 DEF setItemAt, Buffer
<1> QED
  BY <1>2 DEF Alike

LEMMA DeleteIndexAlike ==
    ASSUME NEW buf \in Buffer, NEW b, Alike(b, buf), NEW i
    PROVE  Alike(deleteIndexLocked(b, i, 0), deleteIndexLocked(buf, i, 0))
<1>1. PICK n : b = [buf EXCEPT !.idKeyBytes = n]
  BY DEF Alike
<1>2. CASE CutAt(buf.items, i) = <<>>
  <2>1. deleteIndexLocked(b, i, 0) = [deleteIndexLocked(buf, i, 0) EXCEPT !.idKeyBytes = 0]
    BY ZenonT(60), <1>1, <1>2 DEF deleteIndexLocked, resetIfEmptyLocked, Buffer
  <2> QED
    BY <2>1 DEF Alike
<1>3. CASE CutAt(buf.items, i) # <<>>
  <2>1. deleteIndexLocked(b, i, 0)
          = [deleteIndexLocked(buf, i, 0) EXCEPT !.idKeyBytes = n - IdLen[buf.items[i].id]]
    BY ZenonT(60), <1>1, <1>3 DEF deleteIndexLocked, resetIfEmptyLocked, Buffer
  <2> QED
    BY <2>1 DEF Alike
<1> QED
  BY <1>2, <1>3

LEMMA DeletePrefixAlike ==
    ASSUME NEW buf \in Buffer, NEW b, Alike(b, buf), NEW k
    PROVE  Alike(deletePrefix(b, k, 0), deletePrefix(buf, k, 0))
<1>1. PICK n : b = [buf EXCEPT !.idKeyBytes = n]
  BY DEF Alike
<1> DEFINE head == SubSeq(buf.items, 1, k)
           rest == SubSeq(buf.items, k + 1, Len(buf.items))
           sq == Without(buf.bySeq, {head[i].seq : i \in 1..k})
           id == Without(buf.byID, {head[i].id : i \in 1..k})
           idBytes == sumIdBytes(head)
           left == buf.bytes - sumItemBytes(head)
           Cut(x, m) == [x EXCEPT !.items = rest, !.bySeq = sq, !.byID = id,
                                  !.idKeyBytes = m, !.bytes = left, !.lastWriteTS = 0]
<1>2. deletePrefix(buf, k, 0) = resetIfEmptyLocked(Cut(buf, buf.idKeyBytes - idBytes))
  BY DEF deletePrefix
<1>3. deletePrefix(b, k, 0) = resetIfEmptyLocked(Cut(b, b.idKeyBytes - idBytes))
  <2>1. /\ b.items = buf.items /\ b.bySeq = buf.bySeq /\ b.byID = buf.byID
        /\ b.bytes = buf.bytes
    BY SameButIdBytes
  <2> QED
    BY <2>1 DEF deletePrefix
<1> HIDE DEF head, rest, sq, id, idBytes, left
<1>4. ASSUME NEW m, NEW l
      PROVE  Alike(resetIfEmptyLocked(Cut(b, l)), resetIfEmptyLocked(Cut(buf, m)))
  <2>1. Cut(b, l) = [Cut(buf, m) EXCEPT !.idKeyBytes = l]
    BY <1>1 DEF Buffer
  <2>2. Cut(b, l).items = rest /\ Cut(buf, m).items = rest
    BY <1>1 DEF Buffer
  <2>3. CASE rest # <<>>
    <3>1. resetIfEmptyLocked(Cut(b, l)) = [resetIfEmptyLocked(Cut(buf, m)) EXCEPT !.idKeyBytes = l]
      BY <2>1, <2>2, <2>3 DEF resetIfEmptyLocked
    <3> QED
      BY <3>1 DEF Alike
  <2>4. CASE rest = <<>>
    <3>1. resetIfEmptyLocked(Cut(b, l)) = [resetIfEmptyLocked(Cut(buf, m)) EXCEPT !.idKeyBytes = 0]
      BY <1>1, <2>2, <2>4 DEF resetIfEmptyLocked, Buffer
    <3> QED
      BY <3>1 DEF Alike
  <2> QED
    BY <2>3, <2>4
<1> HIDE DEF Cut
<1> QED
  BY <1>2, <1>3, <1>4

LEMMA StampAlike ==
    ASSUME NEW b, NEW buf, Alike(b, buf)
    PROVE  Alike([b EXCEPT !.lastWriteTS = 0], [buf EXCEPT !.lastWriteTS = 0])
<1>1. PICK n : b = [buf EXCEPT !.idKeyBytes = n]
  BY DEF Alike
<1>2. [b EXCEPT !.lastWriteTS = 0] = [[buf EXCEPT !.lastWriteTS = 0] EXCEPT !.idKeyBytes = n]
  BY <1>1
<1> QED
  BY <1>2 DEF Alike

\* Every call that is not refused leaves a sound buffer.
LEMMA AfterCallSound ==
    ASSUME NEW b, Sound(b), NEW c \in Calls, c.op \in ItemOps, ~Refused(b, c)
    PROVE  Sound(afterCall(b, c))
<1>1. PICK buf : WellFormed(buf) /\ Alike(b, buf)
  BY DEF Sound
<1>2. /\ buf \in Buffer /\ buf.items \in Seq(Item) /\ buf.lastSeq \in Nat
      /\ buf.byID \in IdMaps /\ buf.bySeq \in SeqMaps
  BY <1>1, BufferFields DEF WellFormed
<1>3. /\ b.items = buf.items /\ b.byID = buf.byID /\ b.bySeq = buf.bySeq
      /\ b.lastSeq = buf.lastSeq
  BY <1>1, <1>2, SameButIdBytes
<1> DEFINE cell == CHOOSE k \in Cells : TRUE
<1>4. cell \in Cells /\ cell # NoCell
  BY CallsAssumption, DataAssumption
<1> HIDE DEF cell
<1>5. c.op \in {"append", "upsert", "update", "counter_add"} =>
        c.in \in Input /\ (c.op # "append" => c.in.id # NoId)
  BY CallsAssumption
<1>6. c.op \in {"delete", "delete_up_to"} => c.seq \in Nat
  BY CallsAssumption
<1>7. CASE Inserts(b, c) /\ c.op = "counter_add"
  <2> DEFINE x == counterItem(b, c.in.id, cell, 0)
  <2>1. x \in Item /\ x.seq = buf.lastSeq + 1 /\ x.id = c.in.id
    BY <1>2, <1>3, <1>4, <1>5, <1>7, DataAssumption DEF counterItem, Item, Input
  <2>2. x.id \notin DOMAIN buf.byID
    BY <1>3, <1>7, <2>1 DEF Inserts, HasId
  <2> HIDE DEF x
  <2>3. WellFormed(insertItem(buf, x))
    BY <1>1, <2>1, <2>2, InsertKeepsWellFormed
  <2>4. Sound(insertItem(b, x))
    BY <1>1, <1>2, <2>3, InsertAlike DEF Sound
  <2> QED
    BY <1>7, <2>4 DEF afterCall, x, cell
<1>8. CASE Inserts(b, c) /\ c.op # "counter_add"
  <2> DEFINE x == newItem(b, c.in, 0)
  <2>1. x \in Item /\ x.seq = buf.lastSeq + 1 /\ x.id = c.in.id
    BY <1>2, <1>3, <1>5, <1>8, DataAssumption DEF newItem, Item, Input, Inserts
  <2>2. x.id = NoId \/ x.id \notin DOMAIN buf.byID
    BY <1>3, <1>8, <2>1 DEF Inserts, HasId, Refused
  <2> HIDE DEF x
  <2>3. WellFormed([insertItem(buf, x) EXCEPT !.lastWriteTS = 0])
    BY <1>1, <2>1, <2>2, InsertKeepsWellFormed, StampKeepsWellFormed
  <2>4. Alike(insertItem(b, x), insertItem(buf, x))
    BY <1>1, <1>2, InsertAlike
  <2>5. Alike([insertItem(b, x) EXCEPT !.lastWriteTS = 0], [insertItem(buf, x) EXCEPT !.lastWriteTS = 0])
    BY <2>4, StampAlike
  <2>6. Sound([insertItem(b, x) EXCEPT !.lastWriteTS = 0])
    BY <2>3, <2>5 DEF Sound
  <2>7. afterCall(b, c) = insertNewItemLocked(b, c.in, 0)
    BY <1>8 DEF afterCall
  <2> QED
    BY <2>6, <2>7 DEF insertNewItemLocked, x
<1>9. CASE ~Inserts(b, c) /\ c.op \in {"upsert", "update"} /\ HasId(b, c)
  <2> DEFINE x == buf.byID[c.in.id]
             i == SearchAtLeast(buf.items, x.seq)
             y == replacedItem(x, c.in.payload, 0)
             d == approxItemSize(y) - approxItemSize(x)
  <2>1. c.in.id \in DOMAIN buf.byID /\ c.in.payload \in Payloads
    BY <1>3, <1>5, <1>9 DEF HasId, Input
  <2>2. i \in 1..Len(buf.items) /\ buf.items[i] = x
    BY <1>1, <2>1, LookupFinds
  <2>3. x \in Item
    BY <1>2, <2>2
  <2>4. afterCall(b, c) = replaceItemAtIndexLocked(b, i, c.in.payload, 0, d)
    BY <1>3, <1>9 DEF afterCall, IndexOf, sizeDelta
  <2>5. afterCall(b, c) = [setItemAt(b, i, y, d) EXCEPT !.lastWriteTS = 0]
    BY <1>3, <2>2, <2>4 DEF replaceItemAtIndexLocked
  <2>6. y \in Item /\ y.seq = x.seq /\ y.id = x.id
    BY <2>1, <2>3, DataAssumption DEF replacedItem, Item
  <2> HIDE DEF x, i, y
  <2>7. WellFormed([setItemAt(buf, i, y, d) EXCEPT !.lastWriteTS = 0])
    BY <1>1, <2>2, <2>6, SetItemKeepsWellFormed, StampKeepsWellFormed
  <2>8. Alike([setItemAt(b, i, y, d) EXCEPT !.lastWriteTS = 0],
              [setItemAt(buf, i, y, d) EXCEPT !.lastWriteTS = 0])
    BY <1>1, <1>2, SetItemAlike, StampAlike
  <2> QED
    BY <2>5, <2>7, <2>8 DEF Sound
<1>10. CASE ~Inserts(b, c) /\ c.op = "counter_add" /\ b.byID[c.in.id].counter = NoCell
  <2> DEFINE x == buf.byID[c.in.id]
             i == SearchAtLeast(buf.items, x.seq)
             y == promotedItem(x, cell)
             d == approxItemSize(y) - approxItemSize(x)
  <2>1. c.in.id \in DOMAIN buf.byID
    BY <1>3, <1>10 DEF HasId, Inserts
  <2>2. i \in 1..Len(buf.items) /\ buf.items[i] = x
    BY <1>1, <2>1, LookupFinds
  <2>3. x \in Item
    BY <1>2, <2>2
  <2>4. afterCall(b, c) = setItemAt(b, i, y, d)
    BY <1>3, <1>10 DEF afterCall, IndexOf, sizeDelta, promoteAt, cell
  <2>5. y \in Item /\ y.seq = x.seq /\ y.id = x.id
    BY <1>4, <2>3, DataAssumption DEF promotedItem, Item
  <2> HIDE DEF x, i, y
  <2>6. WellFormed(setItemAt(buf, i, y, d))
    BY <1>1, <2>2, <2>5, SetItemKeepsWellFormed
  <2>7. Alike(setItemAt(b, i, y, d), setItemAt(buf, i, y, d))
    BY <1>1, <1>2, SetItemAlike
  <2> QED
    BY <2>4, <2>6, <2>7 DEF Sound
<1>11. CASE c.op = "delete" /\ c.seq \in DOMAIN b.bySeq
  <2> DEFINE x == buf.bySeq[c.seq]
             i == SearchAtLeast(buf.items, x.seq)
  <2>1. i \in 1..Len(buf.items)
    BY <1>1, <1>3, <1>11, LookupFinds
  <2>2. afterCall(b, c) = deleteIndexLocked(b, i, 0)
    BY <1>3, <1>11 DEF afterCall, IndexOf, Inserts
  <2> HIDE DEF x, i
  <2>3. WellFormed(deleteIndexLocked(buf, i, 0))
    BY <1>1, <2>1, DeleteIndexKeepsWellFormed
  <2> QED
    BY <1>1, <1>2, <2>2, <2>3, DeleteIndexAlike DEF Sound
<1>12. CASE c.op = "delete_up_to"
  <2> DEFINE k == SearchAbove(buf.items, c.seq) - 1
  <2>1. k \in 0..Len(buf.items)
    <3>1. c.seq + 1 \in Int /\ Len(buf.items) \in Nat
      BY <1>2, <1>6, <1>12
    <3>2. SearchAtLeast(buf.items, c.seq + 1) \in 1..(Len(buf.items) + 1)
      BY <1>2, <3>1, SearchAnswer
    <3> QED
      BY <3>1, <3>2 DEF SearchAbove
  <2>2. afterCall(b, c) = deletePrefix(b, k, 0)
    BY <1>3, <1>12 DEF afterCall, Inserts
  <2> HIDE DEF k
  <2>3. WellFormed(deletePrefix(buf, k, 0))
    BY <1>1, <2>1, DeletePrefixKeepsWellFormed
  <2> QED
    BY <1>1, <1>2, <2>2, <2>3, DeletePrefixAlike DEF Sound
<1>13. CASE afterCall(b, c) = b
  BY <1>13
<1> QED
  BY <1>7, <1>8, <1>9, <1>10, <1>11, <1>12, <1>13 DEF afterCall

-----------------------------------------------------------------------------
(* Sums over the scopes and over the callers. *)

LEMMA OverReplace ==
    ASSUME NEW f \in [Scopes -> Int], NEW g \in [Scopes -> Int], NEW s \in Scopes,
           \A t \in Scopes : t # s => f[t] = g[t]
    PROVE  Over(g) = Over(f) + (g[s] - f[s])
<1>1. NumScopes \in Nat /\ Scopes = 1..NumScopes
  BY StoreAssumption DEF Scopes
<1>2. Len(f) = NumScopes /\ Len(g) = NumScopes
  BY <1>1
<1>3. SumTo(g)[NumScopes] = SumTo(f)[NumScopes] + (g[s] - f[s])
  BY <1>1, SumReplace
<1> QED
  BY <1>2, <1>3 DEF Over, SeqSum

LEMMA OverInt ==
    ASSUME NEW f \in [Scopes -> Int]
    PROVE  Over(f) \in Int
<1>1. NumScopes \in Nat /\ Scopes = 1..NumScopes
  BY StoreAssumption DEF Scopes
<1>2. Len(f) = NumScopes
  BY <1>1
<1>3. NumScopes \in 0..NumScopes /\ \A i \in 1..NumScopes : f[i] \in Int
  BY <1>1
<1>4. SumTo(f)[NumScopes] \in Int
  BY <1>1, <1>3, SumToInt
<1> QED
  BY <1>2, <1>4 DEF Over, SeqSum

\* A sum of zeros.
LEMMA OverZero ==
    Over([s \in Scopes |-> 0]) = 0
<1> DEFINE f == [s \in Scopes |-> 0]
           p == [k \in 0..NumScopes |-> 0]
<1>1. NumScopes \in Nat /\ Scopes = 1..NumScopes
  BY StoreAssumption DEF Scopes
<1>2. Len(f) = NumScopes
  BY <1>1
<1>3. p[0] = 0 /\ \A i \in 1..NumScopes : p[i] = p[i - 1] + f[i]
  BY <1>1
<1> HIDE DEF p, f
<1>4. \A k \in 0..NumScopes : SumTo(f)[k] = p[k]
  BY <1>1, <1>3, SumToUnique
<1>5. SumTo(f)[NumScopes] = 0
  BY <1>1, <1>4 DEF p
<1> QED
  BY <1>2, <1>5 DEF Over, SeqSum, f

\* The order in which SumOverProcs adds the callers up.
ProcOrder ==
    CHOOSE o \in [1..Cardinality(Procs) -> Procs] :
        \A i, j \in 1..Cardinality(Procs) : i # j => o[i] # o[j]

LEMMA ProcOrderCounts ==
    /\ Cardinality(Procs) \in Nat
    /\ ProcOrder \in [1..Cardinality(Procs) -> Procs]
    /\ \A i, j \in 1..Cardinality(Procs) : i # j => ProcOrder[i] # ProcOrder[j]
    /\ \A p \in Procs : \E i \in 1..Cardinality(Procs) : ProcOrder[i] = p
<1> DEFINE n == Cardinality(Procs)
<1>1. IsFiniteSet(Procs)
  BY StoreAssumption
<1>2. n \in Nat /\ ExistsBijection(1..n, Procs)
  BY <1>1, FS_CardinalityType
<1>3. PICK e \in Bijection(1..n, Procs) : TRUE
  BY <1>2 DEF ExistsBijection
<1>4. e \in [1..n -> Procs] /\ \A i, j \in 1..n : i # j => e[i] # e[j]
  BY <1>3 DEF Bijection, Injection, IsInjective
<1>5. ProcOrder \in [1..n -> Procs] /\ \A i, j \in 1..n : i # j => ProcOrder[i] # ProcOrder[j]
  BY <1>4 DEF ProcOrder
<1>6. ProcOrder \in Injection(1..n, Procs)
  BY <1>5 DEF Injection, IsInjective
<1>7. IsFiniteSet(1..n) /\ Cardinality(1..n) = n
  BY <1>2, FS_Interval
<1>8. ProcOrder \in Surjection(1..n, Procs)
  BY <1>1, <1>6, <1>7, FS_Injection
<1> QED
  BY <1>2, <1>5, <1>8 DEF Surjection

LEMMA SumOverProcsIs ==
    ASSUME NEW f \in [Procs -> Int], Procs # {}
    PROVE  SumOverProcs(f) = SumTo([i \in 1..Cardinality(Procs) |-> f[ProcOrder[i]]])[Cardinality(Procs)]
<1> DEFINE n == Cardinality(Procs)
           g == [i \in 1..n |-> f[ProcOrder[i]]]
<1>1. n \in Nat /\ ProcOrder \in [1..n -> Procs]
  BY ProcOrderCounts
<1>2. Len(g) = n
  BY <1>1
<1>3. SumOverProcs(f) = SeqSum(g)
  BY DEF SumOverProcs, ProcOrder
<1> QED
  BY <1>2, <1>3 DEF SeqSum

LEMMA ProcsReplace ==
    ASSUME NEW f \in [Procs -> Int], NEW g \in [Procs -> Int], NEW p \in Procs,
           \A q \in Procs : q # p => f[q] = g[q]
    PROVE  SumOverProcs(g) = SumOverProcs(f) + (g[p] - f[p])
<1> DEFINE n == Cardinality(Procs)
           ff == [i \in 1..n |-> f[ProcOrder[i]]]
           gg == [i \in 1..n |-> g[ProcOrder[i]]]
<1>1. n \in Nat /\ ProcOrder \in [1..n -> Procs]
  BY ProcOrderCounts
<1>2. PICK i \in 1..n : ProcOrder[i] = p
  BY ProcOrderCounts
<1>3. \A j \in 1..n : j # i => ff[j] = gg[j]
  BY <1>1, <1>2, ProcOrderCounts
<1>4. \A j \in 1..n : ff[j] \in Int /\ gg[j] \in Int
  BY <1>1
<1>5. ff[i] = f[p] /\ gg[i] = g[p]
  BY <1>2
<1>6. SumOverProcs(f) = SumTo(ff)[n] /\ SumOverProcs(g) = SumTo(gg)[n]
  BY SumOverProcsIs
<1> HIDE DEF n, ff, gg
<1>7. SumTo(gg)[n] = SumTo(ff)[n] + (gg[i] - ff[i])
  BY <1>1, <1>3, <1>4, SumReplace
<1> QED
  BY <1>5, <1>6, <1>7

LEMMA ProcsInt ==
    ASSUME NEW f \in [Procs -> Int]
    PROVE  SumOverProcs(f) \in Int
<1> DEFINE n == Cardinality(Procs)
           ff == [i \in 1..n |-> f[ProcOrder[i]]]
<1>1. CASE Procs = {}
  BY <1>1 DEF SumOverProcs
<1>2. CASE Procs # {}
  <2>1. n \in Nat /\ ProcOrder \in [1..n -> Procs]
    BY ProcOrderCounts
  <2>2. \A j \in 1..n : ff[j] \in Int
    BY <2>1
  <2>3. n \in 0..n
    BY <2>1
  <2>4. SumOverProcs(f) = SumTo(ff)[n]
    BY <1>2, SumOverProcsIs
  <2> HIDE DEF n, ff
  <2>5. SumTo(ff)[n] \in Int
    BY <2>1, <2>2, <2>3, SumToInt
  <2> QED
    BY <2>4, <2>5
<1> QED
  BY <1>1, <1>2

LEMMA ProcsZero ==
    SumOverProcs([p \in Procs |-> 0]) = 0
<1> DEFINE n == Cardinality(Procs)
           f == [p \in Procs |-> 0]
           ff == [i \in 1..n |-> f[ProcOrder[i]]]
           z == [k \in 0..n |-> 0]
<1>1. CASE Procs = {}
  BY <1>1 DEF SumOverProcs
<1>2. CASE Procs # {}
  <2>1. n \in Nat /\ ProcOrder \in [1..n -> Procs]
    BY ProcOrderCounts
  <2>2. \A j \in 1..n : ff[j] = 0
    BY <2>1
  <2>3. SumOverProcs(f) = SumTo(ff)[n]
    BY <1>2, SumOverProcsIs
  <2> HIDE DEF n, ff, f
  <2>4. z[0] = 0 /\ \A i \in 1..n : z[i] = z[i - 1] + ff[i]
    BY <2>1, <2>2
  <2> HIDE DEF z
  <2>5. \A k \in 0..n : SumTo(ff)[k] = z[k]
    BY <2>1, <2>4, SumToUnique
  <2>6. SumTo(ff)[n] = 0
    BY <2>1, <2>5 DEF z
  <2> QED
    BY <2>3, <2>6 DEF f
<1> QED
  BY <1>1, <1>2

-----------------------------------------------------------------------------
(* The invariant. *)

\* What each scope adds to the counters, and each caller.
ScopeBytes ==
    [s \in Scopes |-> IF scopes[s] = NoBuf THEN 0
                      ELSE bufs[scopes[s]].bytes + ScopeBufferOverhead]
ScopeItems ==
    [s \in Scopes |-> IF scopes[s] = NoBuf THEN 0 ELSE Len(bufs[scopes[s]].items)]
Pending == [p \in Procs |-> pendingBytes(p)]

\* No buffer is mapped under two names, every buffer is sound, and a /warm has
\* created scopes only while it commits.
Shape ==
    /\ Inv
    /\ \A s, t \in Scopes : scopes[s] # NoBuf /\ scopes[s] = scopes[t] => s = t
    /\ \A k \in BufIds : Sound(bufs[k])
    /\ old \in [Procs -> [Scopes -> Int]] /\ newScopes \in [Procs -> Int]
    /\ \A p \in Procs : at[p] # "commit" => newScopes[p] = 0
    /\ totalBytes \in Int /\ totalItems \in Int /\ scopeCount \in Int

CountInv == Shape /\ CountersAccounted

LEMMA BatchBytesInt ==
    ASSUME NEW c \in Calls, c.op \in {"warm", "rebuild"}, NEW s \in DOMAIN c.batch
    PROVE  batchBytes(c.batch, s) \in Int
<1>1. c.batch[s] \in Seq(Input) /\ ~DuplicateIds(c.batch[s])
  BY CallsAssumption
<1>2. replacementItems(c.batch[s], 0) \in Seq(Item)
  BY <1>1, ReplacementItems
<1> QED
  BY <1>2, SumsOfItems DEF batchBytes

LEMMA PendingInt ==
    ASSUME Shape, NEW p \in Procs
    PROVE  pendingBytes(p) \in Int
<1> DEFINE f == [s \in Scopes |-> IF s \in todo[p] THEN planDelta(p, s) ELSE 0]
<1>1. CASE at[p] = "commit"
  <2>1. call[p] \in Calls /\ call[p].op = "warm" /\ todo[p] \subseteq DOMAIN call[p].batch
    BY <1>1 DEF Shape, Inv, InPlace
  <2>2. ASSUME NEW s \in Scopes, s \in todo[p] PROVE planDelta(p, s) \in Int
    <3>1. batchBytes(call[p].batch, s) \in Int
      BY <2>1, <2>2, BatchBytesInt
    <3>2. old[p][s] \in Int
      BY DEF Shape
    <3> QED
      BY <3>1, <3>2, StoreAssumption DEF planDelta
  <2>3. f \in [Scopes -> Int]
    BY <2>2
  <2>4. Over(f) \in Int
    BY <2>3, OverInt
  <2> QED
    BY <1>1, <2>4 DEF pendingBytes
<1> QED
  BY <1>1 DEF pendingBytes

LEMMA Tallies ==
    Shape => /\ ScopeBytes \in [Scopes -> Int] /\ ScopeItems \in [Scopes -> Int]
             /\ Pending \in [Procs -> Int] /\ newScopes \in [Procs -> Int]
             /\ totalBytes \in Int /\ totalItems \in Int /\ scopeCount \in Int
             /\ Mapped \in SUBSET Scopes
<1> SUFFICES ASSUME Shape
             PROVE  /\ ScopeBytes \in [Scopes -> Int] /\ ScopeItems \in [Scopes -> Int]
                    /\ Pending \in [Procs -> Int] /\ Mapped \in SUBSET Scopes
  BY DEF Shape
<1>1. \A s \in Scopes : scopes[s] # NoBuf => Sound(bufs[scopes[s]])
  BY DEF Shape, Inv, Typed
<1>2. \A s \in Scopes : scopes[s] # NoBuf =>
        bufs[scopes[s]].bytes \in Nat /\ Len(bufs[scopes[s]].items) \in Nat
  BY <1>1, SoundTallies
<1>3. ScopeBufferOverhead \in Nat
  BY StoreAssumption
<1>4. ScopeBytes \in [Scopes -> Int] /\ ScopeItems \in [Scopes -> Int]
  BY <1>2, <1>3 DEF ScopeBytes, ScopeItems
<1>5. Pending \in [Procs -> Int]
  BY PendingInt DEF Pending
<1> QED
  BY <1>4, <1>5 DEF Mapped

LEMMA Accounted ==
    Shape =>
      (CountersAccounted <=>
         /\ totalBytes = Over(ScopeBytes) + SumOverProcs(Pending)
         /\ totalItems = Over(ScopeItems)
         /\ scopeCount + SumOverProcs(newScopes) = Cardinality(Mapped))
<1> SUFFICES ASSUME Shape
             PROVE  CountersAccounted <=>
                      /\ totalBytes = Over(ScopeBytes) + SumOverProcs(Pending)
                      /\ totalItems = Over(ScopeItems)
                      /\ scopeCount + SumOverProcs(newScopes) = Cardinality(Mapped)
  OBVIOUS
<1>1. newScopes = [p \in Procs |-> newScopes[p]]
  BY DEF Shape
<1> QED
  BY <1>1 DEF CountersAccounted, ScopeBytes, ScopeItems, Pending

\* A step that may change one scope's share of the counters and one caller's.
LEMMA OneScopeAccounted ==
    ASSUME CountInv, Shape', NEW p \in Procs, NEW s \in Scopes,
           \A t \in Scopes : t # s =>
              /\ ScopeBytes'[t] = ScopeBytes[t] /\ ScopeItems'[t] = ScopeItems[t]
              /\ (scopes'[t] = NoBuf) = (scopes[t] = NoBuf),
           \A q \in Procs : q # p => Pending'[q] = Pending[q] /\ newScopes'[q] = newScopes[q],
           totalBytes' = totalBytes + (ScopeBytes'[s] - ScopeBytes[s]) + (Pending'[p] - Pending[p]),
           totalItems' = totalItems + (ScopeItems'[s] - ScopeItems[s]),
           scopeCount' + newScopes'[p] =
              scopeCount + newScopes[p] + (IF scopes'[s] = NoBuf THEN 0 ELSE 1)
                                        - (IF scopes[s] = NoBuf THEN 0 ELSE 1)
    PROVE  CountInv'
<1>1. /\ ScopeBytes \in [Scopes -> Int] /\ ScopeItems \in [Scopes -> Int]
      /\ Pending \in [Procs -> Int] /\ newScopes \in [Procs -> Int]
      /\ totalBytes \in Int /\ totalItems \in Int /\ scopeCount \in Int
      /\ Mapped \in SUBSET Scopes
  BY Tallies DEF CountInv
<1>2. (Shape => /\ ScopeBytes \in [Scopes -> Int] /\ ScopeItems \in [Scopes -> Int]
                /\ Pending \in [Procs -> Int] /\ newScopes \in [Procs -> Int]
                /\ totalBytes \in Int /\ totalItems \in Int /\ scopeCount \in Int
                /\ Mapped \in SUBSET Scopes)'
  BY Tallies, PTL
<1>3. /\ ScopeBytes' \in [Scopes -> Int] /\ ScopeItems' \in [Scopes -> Int]
      /\ Pending' \in [Procs -> Int] /\ newScopes' \in [Procs -> Int]
      /\ totalBytes' \in Int /\ totalItems' \in Int /\ scopeCount' \in Int
  BY <1>2
<1>4. /\ totalBytes = Over(ScopeBytes) + SumOverProcs(Pending)
      /\ totalItems = Over(ScopeItems)
      /\ scopeCount + SumOverProcs(newScopes) = Cardinality(Mapped)
  BY Accounted DEF CountInv
<1>5. (Shape =>
        (CountersAccounted <=>
           /\ totalBytes = Over(ScopeBytes) + SumOverProcs(Pending)
           /\ totalItems = Over(ScopeItems)
           /\ scopeCount + SumOverProcs(newScopes) = Cardinality(Mapped)))'
  BY Accounted, PTL
<1>6. /\ Over(ScopeBytes)' = Over(ScopeBytes) + (ScopeBytes'[s] - ScopeBytes[s])
      /\ Over(ScopeItems)' = Over(ScopeItems) + (ScopeItems'[s] - ScopeItems[s])
  BY <1>1, <1>3, OverReplace
<1>7. /\ SumOverProcs(Pending)' = SumOverProcs(Pending) + (Pending'[p] - Pending[p])
      /\ SumOverProcs(newScopes)' = SumOverProcs(newScopes) + (newScopes'[p] - newScopes[p])
  BY <1>1, <1>3, ProcsReplace
<1>8. /\ Over(ScopeBytes) \in Int /\ Over(ScopeItems) \in Int
      /\ SumOverProcs(Pending) \in Int /\ SumOverProcs(newScopes) \in Int
  BY <1>1, OverInt, ProcsInt
<1>9. IsFiniteSet(Mapped) /\ Cardinality(Mapped) \in Nat
  BY <1>1, SetSizes, FS_Subset, FS_CardinalityType
<1>10. Cardinality(Mapped)' = Cardinality(Mapped) + (IF scopes'[s] = NoBuf THEN 0 ELSE 1)
                                                  - (IF scopes[s] = NoBuf THEN 0 ELSE 1)
  <2>1. CASE scopes'[s] # NoBuf
    <3>1. Mapped' = Mapped \cup {s}
      BY <2>1 DEF Mapped
    <3>2. s \in Mapped <=> scopes[s] # NoBuf
      BY DEF Mapped
    <3>3. Cardinality(Mapped \cup {s}) = IF s \in Mapped THEN Cardinality(Mapped) ELSE Cardinality(Mapped) + 1
      BY <1>9, FS_AddElement
    <3>4. Cardinality(Mapped)' = Cardinality(Mapped \cup {s})
      BY <3>1
    <3> QED
      BY <2>1, <1>9, <3>2, <3>3, <3>4
  <2>2. CASE scopes'[s] = NoBuf
    <3>1. Mapped' = Mapped \ {s}
      BY <2>2 DEF Mapped
    <3>2. s \in Mapped <=> scopes[s] # NoBuf
      BY DEF Mapped
    <3>3. Cardinality(Mapped \ {s}) = IF s \in Mapped THEN Cardinality(Mapped) - 1 ELSE Cardinality(Mapped)
      BY <1>9, FS_RemoveElement
    <3>4. Cardinality(Mapped)' = Cardinality(Mapped \ {s})
      BY <3>1
    <3> QED
      BY <2>2, <1>9, <3>2, <3>3, <3>4
  <2> QED
    BY <2>1, <2>2
<1> DEFINE up == IF scopes'[s] = NoBuf THEN 0 ELSE 1
           down == IF scopes[s] = NoBuf THEN 0 ELSE 1
<1>11. up \in Int /\ down \in Int /\ newScopes[p] \in Int /\ newScopes'[p] \in Int
       /\ Pending[p] \in Int /\ Pending'[p] \in Int
       /\ ScopeBytes[s] \in Int /\ ScopeBytes'[s] \in Int
       /\ ScopeItems[s] \in Int /\ ScopeItems'[s] \in Int
  BY <1>1, <1>3
<1>12. /\ scopeCount' + newScopes'[p] = scopeCount + newScopes[p] + up - down
       /\ Cardinality(Mapped)' = Cardinality(Mapped) + up - down
  BY <1>10
<1> HIDE DEF up, down
<1>13. scopeCount' + SumOverProcs(newScopes)' = Cardinality(Mapped)'
  BY <1>1, <1>3, <1>4, <1>7, <1>8, <1>9, <1>11, <1>12
<1>14. totalBytes' = Over(ScopeBytes)' + SumOverProcs(Pending)'
  BY <1>1, <1>4, <1>6, <1>7, <1>8, <1>11
<1>15. totalItems' = Over(ScopeItems)'
  BY <1>1, <1>4, <1>6, <1>8, <1>11
<1> QED
  BY <1>5, <1>13, <1>14, <1>15 DEF CountInv

-----------------------------------------------------------------------------
(* What the local variables of the callers do to the sums. *)

\* Nobody's locals but p's change.
OnlyMoves(p) ==
    /\ old' \in [Procs -> [Scopes -> Int]] /\ newScopes' \in [Procs -> Int]
    /\ \A q \in Procs : q # p =>
          /\ at'[q] = at[q] /\ call'[q] = call[q] /\ todo'[q] = todo[q]
          /\ old'[q] = old[q] /\ newScopes'[q] = newScopes[q]

LEMMA ReturnMoves ==
    ASSUME Shape, NEW p \in Procs, Return(p)
    PROVE  OnlyMoves(p) /\ at'[p] = "idle" /\ newScopes'[p] = 0
<1>1. NoSnapshot \in [Scopes -> Int]
  BY DEF NoSnapshot
<1> QED
  BY <1>1 DEF Shape, Inv, Typed, Return, OnlyMoves

LEMMA GotoMoves ==
    ASSUME Shape, NEW p \in Procs, NEW label, NEW set,
           Goto(p, label) \/ GotoWith(p, label, set)
    PROVE  OnlyMoves(p) /\ at'[p] = label /\ newScopes' = newScopes
  BY DEF Shape, Inv, Typed, Goto, GotoWith, OnlyMoves

\* Only a /warm in its commit phase has anything reserved.
CommitPends == \A q \in Procs : at[q] # "commit" => Pending[q] = 0

LEMMA NoPending == CommitPends
  BY DEF CommitPends, Pending, pendingBytes

\* A /warm has reserved for the scopes its locks keep as they are.
LEMMA PendingStays ==
    ASSUME NEW q \in Procs,
           at'[q] = at[q], call'[q] = call[q], todo'[q] = todo[q], old'[q] = old[q],
           at[q] = "commit" =>
              \A t \in Scopes : t \in todo[q] => ((scopes'[t] = NoBuf) <=> (scopes[t] = NoBuf))
    PROVE  Pending'[q] = Pending[q]
<1>1. Pending[q] = pendingBytes(q) /\ Pending'[q] = pendingBytes(q)'
  BY DEF Pending
<1>2. CASE at[q] # "commit"
  BY <1>1, <1>2 DEF pendingBytes
<1>3. CASE at[q] = "commit"
  <2>1. \A t \in Scopes : t \in todo[q] => planDelta(q, t)' = planDelta(q, t)
    BY <1>3 DEF planDelta
  <2>2. [s \in Scopes |-> IF s \in todo'[q] THEN planDelta(q, s)' ELSE 0]
          = [s \in Scopes |-> IF s \in todo[q] THEN planDelta(q, s) ELSE 0]
    BY <2>1
  <2> QED
    BY <1>1, <1>3, <2>2 DEF pendingBytes
<1> QED
  BY <1>2, <1>3

LEMMA OthersPending ==
    ASSUME Shape, NEW p \in Procs, OnlyMoves(p),
           \A q \in Procs, t \in Scopes :
              q # p /\ at[q] = "commit" /\ t \in todo[q]
              => ((scopes'[t] = NoBuf) <=> (scopes[t] = NoBuf))
    PROVE  \A q \in Procs : q # p => Pending'[q] = Pending[q] /\ newScopes'[q] = newScopes[q]
  BY PendingStays DEF OnlyMoves

\* A scope whose shard is free, or whose lock somebody else holds, is not among
\* those a /warm is about to commit.
LEMMA CommitHolds ==
    ASSUME Shape, NEW q \in Procs, at[q] = "commit", NEW t \in Scopes, t \in todo[q]
    PROVE  lock[ShardOf[t]] = q /\ ~ShardFree(t)
  BY StoreAssumption DEF Shape, Inv, InPlace, HoldsLocks, ShardFree

\* A step that leaves the maps, the counters and what they count alone.
LEMMA QuietStep ==
    ASSUME CountInv, Inv', NEW p \in Procs, OnlyMoves(p),
           at[p] # "commit", at'[p] # "commit", newScopes'[p] = 0,
           UNCHANGED <<scopes, counters>>,
           \A k \in BufIds : /\ Sound(bufs'[k]) /\ bufs'[k].bytes = bufs[k].bytes
                             /\ bufs'[k].items = bufs[k].items
    PROVE  CountInv'
<1> USE DEF CountInv
<1>1. UNCHANGED <<scopes, totalBytes, totalItems, scopeCount>>
  BY DEF counters
<1>2. Shape'
  <2>1. \A q \in Procs : at'[q] # "commit" => newScopes'[q] = 0
    BY DEF Shape, OnlyMoves
  <2>2. \A s, t \in Scopes : scopes'[s] # NoBuf /\ scopes'[s] = scopes'[t] => s = t
    BY <1>1 DEF Shape
  <2>3. totalBytes' \in Int /\ totalItems' \in Int /\ scopeCount' \in Int
    BY <1>1 DEF Shape
  <2> QED
    BY <2>1, <2>2, <2>3 DEF Shape, OnlyMoves
<1>3. \A s \in Scopes : scopes[s] # NoBuf => scopes[s] \in BufIds
  BY DEF Shape, Inv, Typed
<1>4. ScopeBytes' = ScopeBytes /\ ScopeItems' = ScopeItems /\ Mapped' = Mapped
  BY <1>1, <1>3 DEF ScopeBytes, ScopeItems, Mapped
<1>5. Pending[p] = 0 /\ newScopes[p] = 0
  BY NoPending DEF Shape, CommitPends
<1>6. CommitPends'
  BY NoPending, PTL
<1>7. \A q \in Procs : Pending'[q] = Pending[q] /\ newScopes'[q] = newScopes[q]
  BY <1>1, <1>5, <1>6, OthersPending DEF CommitPends
<1>8. Pending' = Pending /\ newScopes' = newScopes
  <2>1. Pending' = [q \in Procs |-> Pending'[q]] /\ Pending = [q \in Procs |-> Pending[q]]
    BY DEF Pending
  <2>2. newScopes' = [q \in Procs |-> newScopes'[q]] /\ newScopes = [q \in Procs |-> newScopes[q]]
    BY DEF Shape, OnlyMoves
  <2> QED
    BY <1>7, <2>1, <2>2
<1>9. (Shape =>
        (CountersAccounted <=>
           /\ totalBytes = Over(ScopeBytes) + SumOverProcs(Pending)
           /\ totalItems = Over(ScopeItems)
           /\ scopeCount + SumOverProcs(newScopes) = Cardinality(Mapped)))'
  BY Accounted, PTL
<1>10. /\ totalBytes = Over(ScopeBytes) + SumOverProcs(Pending)
       /\ totalItems = Over(ScopeItems)
       /\ scopeCount + SumOverProcs(newScopes) = Cardinality(Mapped)
  BY Accounted
<1>11. /\ totalBytes' = Over(ScopeBytes)' + SumOverProcs(Pending)'
       /\ totalItems' = Over(ScopeItems)'
       /\ scopeCount' + SumOverProcs(newScopes)' = Cardinality(Mapped)'
  BY <1>1, <1>4, <1>8, <1>10
<1> QED
  BY <1>2, <1>9, <1>11

\* A step of a caller that is not committing a /warm, on one scope that no
\* /warm is about to commit or whose presence does not change.
LEMMA OneScopeStep ==
    ASSUME CountInv, Shape', NEW p \in Procs, NEW s \in Scopes, OnlyMoves(p),
           at[p] # "commit", at'[p] # "commit", newScopes'[p] = 0,
           \A t \in Scopes : t # s =>
              /\ scopes'[t] = scopes[t]
              /\ scopes[t] # NoBuf => /\ bufs'[scopes[t]].bytes = bufs[scopes[t]].bytes
                                      /\ bufs'[scopes[t]].items = bufs[scopes[t]].items,
           ShardFree(s) \/ scopes'[s] = scopes[s],
           totalBytes' = totalBytes + (ScopeBytes'[s] - ScopeBytes[s]),
           totalItems' = totalItems + (ScopeItems'[s] - ScopeItems[s]),
           scopeCount' = scopeCount + (IF scopes'[s] = NoBuf THEN 0 ELSE 1)
                                    - (IF scopes[s] = NoBuf THEN 0 ELSE 1)
    PROVE  CountInv'
<1>1. Shape
  BY DEF CountInv
<1>2. \A t \in Scopes : t # s =>
        /\ ScopeBytes'[t] = ScopeBytes[t] /\ ScopeItems'[t] = ScopeItems[t]
        /\ (scopes'[t] = NoBuf) = (scopes[t] = NoBuf)
  BY DEF ScopeBytes, ScopeItems
<1>3. \A q \in Procs, t \in Scopes :
        q # p /\ at[q] = "commit" /\ t \in todo[q]
        => ((scopes'[t] = NoBuf) <=> (scopes[t] = NoBuf))
  BY <1>1, CommitHolds
<1>4. \A q \in Procs : q # p => Pending'[q] = Pending[q] /\ newScopes'[q] = newScopes[q]
  BY <1>1, <1>3, OthersPending
<1>5. CommitPends /\ CommitPends'
  BY NoPending, PTL
<1>6. Pending[p] = 0 /\ Pending'[p] = 0
  BY <1>5 DEF CommitPends
<1>7. newScopes[p] = 0
  BY <1>1 DEF Shape
<1>8. /\ totalBytes \in Int /\ ScopeBytes[s] \in Int /\ ScopeBytes \in [Scopes -> Int]
      /\ scopeCount \in Int
  BY <1>1, Tallies
<1>9. (Shape => /\ ScopeBytes \in [Scopes -> Int] /\ ScopeItems \in [Scopes -> Int]
                /\ Pending \in [Procs -> Int] /\ newScopes \in [Procs -> Int]
                /\ totalBytes \in Int /\ totalItems \in Int /\ scopeCount \in Int
                /\ Mapped \in SUBSET Scopes)'
  BY Tallies, PTL
<1>10. ScopeBytes'[s] \in Int /\ scopeCount' \in Int
  BY <1>9
<1>11. totalBytes' = totalBytes + (ScopeBytes'[s] - ScopeBytes[s]) + (Pending'[p] - Pending[p])
  BY <1>6, <1>8, <1>10
<1>12. scopeCount' + newScopes'[p] =
         scopeCount + newScopes[p] + (IF scopes'[s] = NoBuf THEN 0 ELSE 1)
                                   - (IF scopes[s] = NoBuf THEN 0 ELSE 1)
  BY <1>7, <1>8, <1>10
<1> QED
  BY <1>2, <1>4, <1>11, <1>12, OneScopeAccounted

-----------------------------------------------------------------------------
(* Each step. *)

LEMMA AllSound ==
    ASSUME Shape
    PROVE  \A k \in BufIds : /\ Sound(bufs[k]) /\ bufs[k].bytes \in Nat
                             /\ Len(bufs[k].items) \in Nat
                             /\ bufs[k].items = <<>> => bufs[k].bytes = 0 /\ Len(bufs[k].items) = 0
  BY SoundTallies DEF Shape

LEMMA StartCount ==
    ASSUME CountInv, Inv', NEW p \in Procs, NEW c \in Calls, Start(p, c)
    PROVE  CountInv'
<1>1. Shape
  BY DEF CountInv
<1>2. OnlyMoves(p)
  BY <1>1 DEF Shape, Inv, Typed, Start, OnlyMoves
<1>3. at[p] # "commit" /\ at'[p] # "commit" /\ newScopes'[p] = 0
  BY <1>1 DEF Shape, Inv, Typed, Start, firstStep
<1>4. UNCHANGED <<scopes, counters>> /\ bufs' = bufs
  BY DEF Start
<1> QED
  BY <1>1, <1>2, <1>3, <1>4, AllSound, QuietStep

\* A call that ends or moves on without touching maps, buffers and counters.
LEMMA MoveOn ==
    ASSUME CountInv, Inv', NEW p \in Procs, UNCHANGED <<scopes, bufs, counters>>,
           at[p] # "commit",
           \/ Return(p)
           \/ \E label, set : label # "commit" /\ (Goto(p, label) \/ GotoWith(p, label, set))
    PROVE  CountInv'
<1>1. Shape
  BY DEF CountInv
<1>2. OnlyMoves(p) /\ at'[p] # "commit" /\ newScopes'[p] = 0
  <2>1. CASE Return(p)
    BY <1>1, <2>1, ReturnMoves
  <2>2. CASE \E label, set : label # "commit" /\ (Goto(p, label) \/ GotoWith(p, label, set))
    <3>1. newScopes[p] = 0
      BY <1>1 DEF Shape
    <3> QED
      BY <1>1, <2>2, <3>1, GotoMoves
  <2> QED
    BY <2>1, <2>2
<1>3. UNCHANGED <<scopes, counters>> /\ bufs' = bufs
  OBVIOUS
<1> QED
  BY <1>1, <1>2, <1>3, AllSound, QuietStep

LEMMA LookupCount ==
    ASSUME CountInv, Inv', NEW p \in Procs, lookup(p)
    PROVE  CountInv'
<1>1. Shape
  BY DEF CountInv
<1>2. at[p] = "lookup" /\ UNCHANGED <<scopes, bufs, counters>>
  BY DEF lookup
<1>3. CASE at' = [at EXCEPT ![p] = "operate"] /\ UNCHANGED <<call, todo, old, newScopes>>
  <2>1. OnlyMoves(p) /\ at'[p] # "commit" /\ newScopes'[p] = 0
    BY <1>1, <1>2, <1>3 DEF Shape, Inv, Typed, OnlyMoves
  <2>2. UNCHANGED <<scopes, counters>> /\ bufs' = bufs
    BY <1>2
  <2> QED
    BY <1>1, <1>2, <2>1, <2>2, AllSound, QuietStep
<1>4. CASE Goto(p, "create")
  BY <1>2, <1>4, MoveOn
<1>5. CASE Return(p)
  BY <1>2, <1>5, MoveOn
<1> QED
  BY <1>3, <1>4, <1>5 DEF lookup

LEMMA GetOrCreateCount ==
    ASSUME CountInv, Inv', NEW p \in Procs, getOrCreateScope(p)
    PROVE  CountInv'
<1> DEFINE s == call[p].scope
           k == FreshBuf({scopes[t] : t \in Scopes})
<1>1. Shape /\ Inv /\ Typed
  BY DEF CountInv, Shape, Inv
<1>2. at[p] = "create" /\ ShardFree(s) /\ UNCHANGED lock
  BY DEF getOrCreateScope
<1>3. s \in Scopes /\ ptr[p] = NoBuf
  BY <1>1, <1>2, CallScopes DEF Inv, InPlace
<1>4. CASE UNCHANGED <<scopes, bufs, counters>> /\ Return(p)
  BY <1>2, <1>4, MoveOn
<1>5. CASE at' = [at EXCEPT ![p] = "operate"] /\ UNCHANGED <<call, todo, old, newScopes>>
  <2>1. OnlyMoves(p) /\ at'[p] # "commit" /\ newScopes'[p] = 0
    BY <1>1, <1>2, <1>5 DEF Shape, Typed, OnlyMoves
  <2>2. CASE UNCHANGED <<scopes, bufs, counters>>
    <3>1. UNCHANGED <<scopes, counters>> /\ bufs' = bufs
      BY <2>2
    <3> QED
      BY <1>1, <1>2, <2>1, <3>1, AllSound, QuietStep
  <2>3. CASE /\ scopes[s] = NoBuf
             /\ bufs' = [bufs EXCEPT ![k] = newscopeBuffer(DefaultMaxItems, 0)]
             /\ scopes' = [scopes EXCEPT ![s] = k]
             /\ totalBytes' = totalBytes + ScopeBufferOverhead
             /\ scopeCount' = scopeCount + 1
             /\ UNCHANGED totalItems
    <3>1. k \in BufIds /\ \A t \in Scopes : scopes[t] # k
      BY <1>1, <1>3, <2>3, FreshAddress
    <3> DEFINE new == newscopeBuffer(DefaultMaxItems, 0)
    <3>2. Sound(new) /\ new.bytes = 0 /\ new.items = <<>>
      BY SoundNew, StoreAssumption DEF newscopeBuffer
    <3> HIDE DEF k, new
    <3>3. scopes'[s] = k /\ bufs'[k] = new /\ \A t \in Scopes : t # s => scopes'[t] = scopes[t]
      BY <1>1, <1>3, <2>3, <3>1 DEF Typed, new
    <3>4. \A j \in BufIds : j # k => bufs'[j] = bufs[j]
      BY <1>1, <2>3 DEF Typed
    <3>5. \A t, u \in Scopes : scopes'[t] # NoBuf /\ scopes'[t] = scopes'[u] => t = u
      BY <1>1, <3>1, <3>3 DEF Shape
    <3>6. \A j \in BufIds : Sound(bufs'[j])
      BY <1>1, <3>2, <3>3, <3>4 DEF Shape
    <3>7. totalBytes \in Int /\ totalItems \in Int /\ scopeCount \in Int /\ ScopeBufferOverhead \in Nat
      BY <1>1, StoreAssumption DEF Shape
    <3>8. totalBytes' \in Int /\ totalItems' \in Int /\ scopeCount' \in Int
      BY <2>3, <3>7
    <3>9. \A q \in Procs : at'[q] # "commit" => newScopes'[q] = 0
      BY <1>1, <2>1 DEF Shape, OnlyMoves
    <3>10. Shape'
      BY <2>1, <3>5, <3>6, <3>8, <3>9 DEF Shape, OnlyMoves
    <3>11. scopes'[s] # NoBuf
      BY <3>1, <3>3, SetsAreDistinct
    <3>12. Len(new.items) = 0
      BY <3>2
    <3>13. /\ ScopeBytes'[s] = ScopeBufferOverhead /\ ScopeBytes[s] = 0
           /\ ScopeItems'[s] = 0 /\ ScopeItems[s] = 0
      BY <1>3, <2>3, <3>2, <3>3, <3>7, <3>11, <3>12 DEF ScopeBytes, ScopeItems
    <3>14. \A t \in Scopes : t # s =>
             /\ scopes'[t] = scopes[t]
             /\ scopes[t] # NoBuf => /\ bufs'[scopes[t]].bytes = bufs[scopes[t]].bytes
                                     /\ bufs'[scopes[t]].items = bufs[scopes[t]].items
      BY <1>1, <3>1, <3>3, <3>4 DEF Typed
    <3>15. /\ totalBytes' = totalBytes + (ScopeBytes'[s] - ScopeBytes[s])
           /\ totalItems' = totalItems + (ScopeItems'[s] - ScopeItems[s])
           /\ scopeCount' = scopeCount + (IF scopes'[s] = NoBuf THEN 0 ELSE 1)
                                       - (IF scopes[s] = NoBuf THEN 0 ELSE 1)
      BY <2>3, <3>7, <3>11, <3>13
    <3> QED
      BY <1>2, <1>3, <2>1, <3>10, <3>14, <3>15, OneScopeStep
  <2> QED
    BY <1>5, <2>2, <2>3, <1>4 DEF getOrCreateScope, counters, Return
<1> QED
  BY <1>4, <1>5 DEF getOrCreateScope

LEMMA OperateCount ==
    ASSUME CountInv, Inv', NEW p \in Procs, operate(p)
    PROVE  CountInv'
<1> DEFINE k == ptr[p]
           b == bufs[k]
           c == call[p]
           after == afterCall(b, c)
<1>1. Shape /\ Inv /\ Typed
  BY DEF CountInv, Shape, Inv
<1>2. at[p] = "operate" /\ UNCHANGED scopes
  BY DEF operate
<1>3. k \in BufIds /\ c \in Calls /\ c.op \in ItemOps /\ c.scope \in Scopes
  BY <1>1, <1>2, CallScopes DEF Inv, InPlace, Typed
<1>4. CASE UNCHANGED <<bufs, counters>> /\ (Goto(p, "cleanup") \/ Return(p))
  BY <1>2, <1>4, MoveOn
<1>5. CASE /\ ~Refused(b, c) /\ bufs' = [bufs EXCEPT ![k] = after]
           /\ totalBytes' = totalBytes + (after.bytes - b.bytes)
           /\ totalItems' = totalItems + (Len(after.items) - Len(b.items))
           /\ UNCHANGED scopeCount /\ Return(p)
  <2> DEFINE s == c.scope
  <2>1. scopes[s] = k /\ k # NoBuf
    BY <1>1, <1>3, <1>5, SetsAreDistinct DEF Inv, NoOrphanWrites, Refused
  <2>2. OnlyMoves(p) /\ at'[p] = "idle" /\ newScopes'[p] = 0
    BY <1>1, <1>5, ReturnMoves
  <2>3. Sound(b)
    BY <1>1, <1>3 DEF Shape
  <2>4. Sound(after)
    BY <1>3, <1>5, <2>3, AfterCallSound
  <2>5. /\ b.bytes \in Nat /\ Len(b.items) \in Nat
        /\ after.bytes \in Nat /\ Len(after.items) \in Nat
    BY <2>3, <2>4, SoundTallies
  <2> HIDE DEF after
  <2>6. bufs'[k] = after /\ \A j \in BufIds : j # k => bufs'[j] = bufs[j]
    BY <1>1, <1>3, <1>5 DEF Typed
  <2>7. /\ totalBytes \in Int /\ totalItems \in Int /\ scopeCount \in Int
        /\ ScopeBufferOverhead \in Nat
    BY <1>1, StoreAssumption DEF Shape
  <2>8. totalBytes' \in Int /\ totalItems' \in Int /\ scopeCount' \in Int
    BY <1>5, <2>5, <2>7
  <2>9. \A q \in Procs : at'[q] # "commit" => newScopes'[q] = 0
    BY <1>1, <2>2 DEF Shape, OnlyMoves
  <2>10. \A j \in BufIds : Sound(bufs'[j])
    BY <1>1, <2>4, <2>6 DEF Shape
  <2>11. Shape'
    BY <1>1, <1>2, <2>2, <2>8, <2>9, <2>10 DEF Shape, OnlyMoves
  <2>12. \A t \in Scopes : t # s =>
           /\ scopes'[t] = scopes[t]
           /\ scopes[t] # NoBuf => /\ bufs'[scopes[t]].bytes = bufs[scopes[t]].bytes
                                   /\ bufs'[scopes[t]].items = bufs[scopes[t]].items
    <3>1. \A t \in Scopes : t # s /\ scopes[t] # NoBuf => scopes[t] \in BufIds /\ scopes[t] # k
      BY <1>1, <1>3, <2>1 DEF Shape, Typed
    <3> QED
      BY <1>2, <2>6, <3>1
  <2>13. /\ ScopeBytes[s] = b.bytes + ScopeBufferOverhead
         /\ ScopeBytes'[s] = after.bytes + ScopeBufferOverhead
         /\ ScopeItems[s] = Len(b.items) /\ ScopeItems'[s] = Len(after.items)
    BY <1>2, <1>3, <2>1, <2>6 DEF ScopeBytes, ScopeItems
  <2>14. /\ totalBytes' = totalBytes + (ScopeBytes'[s] - ScopeBytes[s])
         /\ totalItems' = totalItems + (ScopeItems'[s] - ScopeItems[s])
         /\ scopeCount' = scopeCount + (IF scopes'[s] = NoBuf THEN 0 ELSE 1)
                                     - (IF scopes[s] = NoBuf THEN 0 ELSE 1)
    BY <1>2, <1>5, <2>5, <2>7, <2>13
  <2>15. at[p] # "commit" /\ at'[p] # "commit" /\ scopes'[s] = scopes[s]
    BY <1>2, <2>2
  <2> HIDE DEF s
  <2>16. s \in Scopes
    BY <1>3 DEF s
  <2> QED
    BY <2>2, <2>11, <2>12, <2>14, <2>15, <2>16, OneScopeStep
<1> QED
  BY <1>4, <1>5 DEF operate

\* A mapped scope and all it holds are gone.
Unmaps(s) ==
    /\ scopes' = [scopes EXCEPT ![s] = NoBuf]
    /\ bufs' = [bufs EXCEPT ![scopes[s]].detached = TRUE]
    /\ totalBytes' = totalBytes - (bufs[scopes[s]].bytes + ScopeBufferOverhead)
    /\ totalItems' = totalItems - Len(bufs[scopes[s]].items)
    /\ scopeCount' = scopeCount - 1

LEMMA UnmapCount ==
    ASSUME CountInv, Inv', NEW p \in Procs, Return(p), at[p] # "commit",
           NEW s \in Scopes, ShardFree(s), scopes[s] # NoBuf, Unmaps(s)
    PROVE  CountInv'
<1> DEFINE k == scopes[s]
           gone == bufs[k].bytes
           lost == Len(bufs[k].items)
<1>0. /\ totalBytes' = totalBytes - (gone + ScopeBufferOverhead)
      /\ totalItems' = totalItems - lost /\ scopeCount' = scopeCount - 1
  BY DEF Unmaps
<1>1. Shape /\ Inv /\ Typed
  BY DEF CountInv, Shape, Inv
<1>2. k \in BufIds
  BY <1>1 DEF Typed
<1>3. OnlyMoves(p) /\ at'[p] = "idle" /\ newScopes'[p] = 0
  BY <1>1, ReturnMoves
<1>4. \A j \in BufIds : Sound(bufs[j])
  BY <1>1 DEF Shape
<1>5. bufs'[k] = [bufs[k] EXCEPT !.detached = TRUE] /\ \A j \in BufIds : j # k => bufs'[j] = bufs[j]
  BY <1>1, <1>2 DEF Typed, Unmaps
<1>6. \A j \in BufIds : Sound(bufs'[j])
  BY <1>2, <1>4, <1>5, SoundDetached
<1>7. gone \in Nat /\ lost \in Nat
  BY <1>2, <1>4, SoundTallies
<1> HIDE DEF gone, lost
<1>8. /\ totalBytes \in Int /\ totalItems \in Int /\ scopeCount \in Int
      /\ ScopeBufferOverhead \in Nat
  BY <1>1, StoreAssumption DEF Shape
<1>9. totalBytes' \in Int /\ totalItems' \in Int /\ scopeCount' \in Int
  BY <1>0, <1>7, <1>8
<1>10. scopes'[s] = NoBuf /\ \A t \in Scopes : t # s => scopes'[t] = scopes[t]
  BY <1>1 DEF Typed, Unmaps
<1>11. \A t, u \in Scopes : scopes'[t] # NoBuf /\ scopes'[t] = scopes'[u] => t = u
  BY <1>1, <1>10 DEF Shape
<1>12. \A q \in Procs : at'[q] # "commit" => newScopes'[q] = 0
  BY <1>1, <1>3 DEF Shape, OnlyMoves
<1>13. Shape'
  BY <1>3, <1>6, <1>9, <1>11, <1>12 DEF Shape, OnlyMoves
<1>14. \A t \in Scopes : t # s =>
         /\ scopes'[t] = scopes[t]
         /\ scopes[t] # NoBuf => /\ bufs'[scopes[t]].bytes = bufs[scopes[t]].bytes
                                 /\ bufs'[scopes[t]].items = bufs[scopes[t]].items
  <2>1. \A t \in Scopes : t # s /\ scopes[t] # NoBuf => scopes[t] \in BufIds /\ scopes[t] # k
    BY <1>1 DEF Shape, Typed
  <2> QED
    BY <1>5, <1>10, <2>1
<1>15. /\ ScopeBytes[s] = gone + ScopeBufferOverhead /\ ScopeBytes'[s] = 0
       /\ ScopeItems[s] = lost /\ ScopeItems'[s] = 0
  BY <1>10 DEF ScopeBytes, ScopeItems, gone, lost
<1>16. /\ totalBytes' = totalBytes + (ScopeBytes'[s] - ScopeBytes[s])
       /\ totalItems' = totalItems + (ScopeItems'[s] - ScopeItems[s])
       /\ scopeCount' = scopeCount + (IF scopes'[s] = NoBuf THEN 0 ELSE 1)
                                   - (IF scopes[s] = NoBuf THEN 0 ELSE 1)
  BY <1>0, <1>7, <1>8, <1>10, <1>15
<1>17. at'[p] # "commit"
  BY <1>3
<1> QED
  BY <1>3, <1>13, <1>14, <1>16, <1>17, OneScopeStep

LEMMA CleanupCount ==
    ASSUME CountInv, Inv', NEW p \in Procs, cleanupIfEmptyAndUnused(p)
    PROVE  CountInv'
<1>1. Shape /\ Inv /\ Typed
  BY DEF CountInv, Shape, Inv
<1>2. at[p] = "cleanup" /\ ShardFree(call[p].scope) /\ Return(p)
  BY DEF cleanupIfEmptyAndUnused
<1>3. call[p].scope \in Scopes /\ ptr[p] # NoBuf /\ ptr[p] \in BufIds
  BY <1>1, <1>2, CallScopes DEF Inv, InPlace, Typed
<1>4. CASE UNCHANGED <<scopes, bufs, counters>>
  BY <1>2, <1>4, MoveOn
<1>5. CASE scopes[call[p].scope] = ptr[p] /\ bufs[ptr[p]].items = <<>>
           /\ RollBack(call[p].scope, ptr[p])
  <2>1. bufs[ptr[p]].bytes = 0 /\ Len(bufs[ptr[p]].items) = 0
    BY <1>1, <1>3, <1>5, AllSound
  <2>2. totalItems \in Int /\ ScopeBufferOverhead \in Nat
    BY <1>1, StoreAssumption DEF Shape
  <2>3. totalBytes' = totalBytes - (bufs[ptr[p]].bytes + ScopeBufferOverhead)
        /\ totalItems' = totalItems - Len(bufs[ptr[p]].items)
    BY <1>5, <2>1, <2>2 DEF RollBack
  <2> QED
    BY <1>2, <1>3, <1>5, <2>3, UnmapCount DEF RollBack, Unmaps
<1> QED
  BY <1>4, <1>5 DEF cleanupIfEmptyAndUnused

LEMMA DeleteScopeCount ==
    ASSUME CountInv, Inv', NEW p \in Procs, deleteScope(p)
    PROVE  CountInv'
<1>1. at[p] = "unlink" /\ ShardFree(call[p].scope) /\ Return(p)
  BY DEF deleteScope
<1>2. call[p].scope \in Scopes
  BY <1>1, CallScopes DEF CountInv, Shape, Inv, InPlace
<1>3. CASE scopes[call[p].scope] = NoBuf
  BY <1>1, <1>3, MoveOn DEF deleteScope
<1>4. CASE scopes[call[p].scope] # NoBuf
  BY <1>1, <1>2, <1>4, UnmapCount DEF deleteScope, Unmaps
<1> QED
  BY <1>3, <1>4

LEMMA LockShardsCount ==
    ASSUME CountInv, Inv', NEW p \in Procs, lockShards(p)
    PROVE  CountInv'
<1>1. /\ at[p] = "lock" /\ UNCHANGED <<scopes, bufs, counters>>
      /\ \E label, set : label # "commit" /\ GotoWith(p, label, set)
  BY DEF lockShards
<1> QED
  BY <1>1, MoveOn

LEMMA DetachCount ==
    ASSUME CountInv, Inv', NEW p \in Procs, detach(p)
    PROVE  CountInv'
<1>1. Shape /\ Inv /\ Typed
  BY DEF CountInv, Shape, Inv
<1>2. at[p] = "detach" /\ UNCHANGED <<scopes, counters>>
  BY DEF detach
<1>3. PICK s \in todo[p] : /\ bufs' = [bufs EXCEPT ![scopes[s]].detached = TRUE]
                           /\ GotoWith(p, "detach", todo[p] \ {s})
  BY DEF detach
<1>4. newScopes[p] = 0
  BY <1>1, <1>2 DEF Shape
<1>5. OnlyMoves(p) /\ at'[p] # "commit" /\ newScopes'[p] = 0
  BY <1>1, <1>3, <1>4, GotoMoves
<1>6. \A k \in BufIds : bufs'[k] = bufs[k] \/ bufs'[k] = [bufs[k] EXCEPT !.detached = TRUE]
  BY <1>1, <1>3 DEF Typed
<1>7. \A k \in BufIds : /\ Sound(bufs'[k]) /\ bufs'[k].bytes = bufs[k].bytes
                        /\ bufs'[k].items = bufs[k].items
  BY <1>1, <1>6, AllSound, SoundDetached
<1> QED
  BY <1>2, <1>5, <1>7, QuietStep

LEMMA SnapshotCount ==
    ASSUME CountInv, Inv', NEW p \in Procs, snapshot(p)
    PROVE  CountInv'
<1>1. Shape /\ Inv /\ Typed
  BY DEF CountInv, Shape, Inv
<1>2. /\ at[p] = "snapshot" /\ UNCHANGED <<scopes, counters>> /\ bufs' = bufs
      /\ UNCHANGED <<at, call, newScopes>>
  BY DEF snapshot
<1>3. PICK s \in todo[p] :
         /\ old' = [old EXCEPT ![p][s] =
                       IF scopes[s] = NoBuf THEN 0 ELSE bufs[scopes[s]].bytes]
         /\ todo' = [todo EXCEPT ![p] = @ \ {s}]
  BY DEF snapshot
<1>4. s \in Scopes
  <2>1. call[p] \in Calls /\ call[p].op = "warm" /\ s \in DOMAIN call[p].batch
    BY <1>1, <1>2 DEF Inv, InPlace
  <2> QED
    BY <2>1, CallScopes
<1> DEFINE n == IF scopes[s] = NoBuf THEN 0 ELSE bufs[scopes[s]].bytes
<1>5. n \in Int
  BY <1>1, <1>4, AllSound DEF Typed
<1> HIDE DEF n
<1>6. old' \in [Procs -> [Scopes -> Int]] /\ \A q \in Procs : q # p => old'[q] = old[q]
  BY <1>1, <1>3, <1>4, <1>5 DEF Shape, n
<1>7. OnlyMoves(p)
  BY <1>1, <1>2, <1>3, <1>6 DEF Shape, Typed, OnlyMoves
<1>8. at'[p] # "commit" /\ newScopes'[p] = 0
  BY <1>1, <1>2 DEF Shape
<1> QED
  BY <1>1, <1>2, <1>7, <1>8, AllSound, QuietStep

\* A step of /warm that leaves maps and buffers alone.
LEMMA WarmStep ==
    ASSUME CountInv, Inv', NEW p \in Procs, OnlyMoves(p), NEW delta \in Int, NEW n \in Int,
           at[p] \in {"snapshot", "commit"}, at'[p] # "commit" => newScopes'[p] = 0,
           UNCHANGED <<scopes, bufs, totalItems>>,
           Pending'[p] = Pending[p] + delta, newScopes'[p] = newScopes[p] - n,
           totalBytes' = totalBytes + delta, scopeCount' = scopeCount + n
    PROVE  CountInv'
<1>1. Shape /\ Inv
  BY DEF CountInv, Shape
<1>2. PICK s \in Scopes : s \in DOMAIN call[p].batch
  <2>1. call[p] \in Calls /\ call[p].op = "warm"
    BY <1>1 DEF Inv, InPlace
  <2> QED
    BY <2>1, CallsAssumption, SetsAreDistinct
<1>3. \A q \in Procs : at'[q] # "commit" => newScopes'[q] = 0
  BY <1>1 DEF Shape, OnlyMoves
<1>4. /\ totalBytes \in Int /\ totalItems \in Int /\ scopeCount \in Int
      /\ newScopes[p] \in Int /\ Pending[p] \in Int
      /\ ScopeBytes \in [Scopes -> Int] /\ ScopeItems \in [Scopes -> Int]
  BY <1>1, Tallies
<1>5. totalBytes' \in Int /\ totalItems' \in Int /\ scopeCount' \in Int
  BY <1>4
<1>6. Shape'
  <2>1. \A s1, t \in Scopes : scopes'[s1] # NoBuf /\ scopes'[s1] = scopes'[t] => s1 = t
    BY <1>1 DEF Shape
  <2>2. \A k \in BufIds : Sound(bufs'[k])
    BY <1>1 DEF Shape
  <2> QED
    BY <1>3, <1>5, <2>1, <2>2 DEF Shape, OnlyMoves
<1>7. \A t \in Scopes : /\ ScopeBytes'[t] = ScopeBytes[t] /\ ScopeItems'[t] = ScopeItems[t]
                        /\ (scopes'[t] = NoBuf) = (scopes[t] = NoBuf)
  BY DEF ScopeBytes, ScopeItems
<1>8. \A q \in Procs : q # p => Pending'[q] = Pending[q] /\ newScopes'[q] = newScopes[q]
  BY <1>1, OthersPending
<1>9. ScopeBytes[s] \in Int /\ ScopeItems[s] \in Int
  BY <1>4
<1>10. totalBytes' = totalBytes + (ScopeBytes'[s] - ScopeBytes[s]) + (Pending'[p] - Pending[p])
  BY <1>4, <1>7, <1>9
<1>11. totalItems' = totalItems + (ScopeItems'[s] - ScopeItems[s])
  BY <1>4, <1>7, <1>9
<1>12. scopeCount' + newScopes'[p] =
         scopeCount + newScopes[p] + (IF scopes'[s] = NoBuf THEN 0 ELSE 1)
                                   - (IF scopes[s] = NoBuf THEN 0 ELSE 1)
  BY <1>4
<1> QED
  BY <1>6, <1>7, <1>8, <1>10, <1>11, <1>12, OneScopeAccounted

LEMMA ReserveCount ==
    ASSUME CountInv, Inv', NEW p \in Procs, reserve(p)
    PROVE  CountInv'
<1> DEFINE f == [s \in Scopes |-> IF s \in DOMAIN call[p].batch THEN planDelta(p, s) ELSE 0]
           delta == Over(f)
<1>1. Shape /\ Inv /\ Typed
  BY DEF CountInv, Shape, Inv
<1>2. at[p] = "snapshot" /\ UNCHANGED <<scopes, bufs, totalItems, scopeCount>>
  BY DEF reserve
<1>3. CASE Return(p) /\ UNCHANGED totalBytes
  BY <1>2, <1>3, MoveOn DEF counters
<1>4. CASE totalBytes' = totalBytes + delta /\ GotoWith(p, "commit", DOMAIN call[p].batch)
  <2>1. OnlyMoves(p) /\ at'[p] = "commit" /\ newScopes' = newScopes
    BY <1>1, <1>4, GotoMoves
  <2>2. todo'[p] = DOMAIN call[p].batch /\ call' = call /\ old' = old
    BY <1>1, <1>4 DEF Typed, GotoWith
  <2>3. f \in [Scopes -> Int]
    <3>1. call[p] \in Calls /\ call[p].op = "warm"
      BY <1>1, <1>2 DEF Inv, InPlace
    <3>2. \A s \in Scopes : s \in DOMAIN call[p].batch => planDelta(p, s) \in Int
      BY <1>1, <3>1, BatchBytesInt, StoreAssumption DEF planDelta, Shape
    <3> QED
      BY <3>2
  <2>4. delta \in Int
    BY <2>3, OverInt
  <2>5. \A s \in Scopes : planDelta(p, s)' = planDelta(p, s)
    BY <1>2, <2>2 DEF planDelta
  <2>6. Pending'[p] = delta
    <3>1. [s \in Scopes |-> IF s \in todo'[p] THEN planDelta(p, s)' ELSE 0] = f
      BY <2>2, <2>5
    <3>2. Pending'[p] = Over([s \in Scopes |-> IF s \in todo'[p] THEN planDelta(p, s)' ELSE 0])
      BY <2>1 DEF Pending, pendingBytes
    <3> QED
      BY <3>1, <3>2
  <2>7. Pending[p] = 0 /\ newScopes[p] = 0
    BY <1>1, <1>2, NoPending DEF CommitPends, Shape
  <2> HIDE DEF delta
  <2>8. Pending'[p] = Pending[p] + delta /\ newScopes'[p] = newScopes[p] - 0
        /\ scopeCount' = scopeCount + 0
    BY <1>1, <1>2, <2>1, <2>4, <2>6, <2>7 DEF Shape
  <2>9. /\ at[p] \in {"snapshot", "commit"} /\ (at'[p] # "commit" => newScopes'[p] = 0)
        /\ UNCHANGED <<scopes, bufs, totalItems>> /\ totalBytes' = totalBytes + delta
    BY <1>2, <1>4, <2>1
  <2>10. 0 \in Int
    OBVIOUS
  <2> HIDE <1>4
  <2> QED
    BY <2>1, <2>4, <2>8, <2>9, <2>10, WarmStep
<1> QED
  BY <1>3, <1>4 DEF reserve

LEMMA ReplaceScopesDoneCount ==
    ASSUME CountInv, Inv', NEW p \in Procs, replaceScopesDone(p)
    PROVE  CountInv'
<1>1. Shape
  BY DEF CountInv
<1>2. /\ at[p] = "commit" /\ todo[p] = {} /\ Return(p)
      /\ scopeCount' = scopeCount + newScopes[p]
      /\ UNCHANGED <<scopes, bufs, totalBytes, totalItems>>
  BY DEF replaceScopesDone
<1>3. OnlyMoves(p) /\ at'[p] = "idle" /\ newScopes'[p] = 0
  BY <1>1, <1>2, ReturnMoves
<1>4. newScopes[p] \in Int /\ totalBytes \in Int
  BY <1>1 DEF Shape
<1>5. Pending[p] = 0
  <2>1. Pending[p] = Over([s \in Scopes |-> IF s \in todo[p] THEN planDelta(p, s) ELSE 0])
    BY <1>2 DEF Pending, pendingBytes
  <2>2. [s \in Scopes |-> IF s \in todo[p] THEN planDelta(p, s) ELSE 0] = [s \in Scopes |-> 0]
    BY <1>2
  <2> QED
    BY <2>1, <2>2, OverZero
<1>6. CommitPends'
  BY NoPending, PTL
<1>7. Pending'[p] = Pending[p] + 0 /\ newScopes'[p] = newScopes[p] - newScopes[p]
      /\ totalBytes' = totalBytes + 0
  BY <1>2, <1>3, <1>4, <1>5, <1>6 DEF CommitPends
<1> QED
  BY <1>2, <1>3, <1>4, <1>7, WarmStep

LEMMA CommitScopeCount ==
    ASSUME CountInv, Inv', NEW p \in Procs, commitScope(p)
    PROVE  CountInv'
<1>1. Shape /\ Inv /\ Typed
  BY DEF CountInv, Shape, Inv
<1>2. at[p] = "commit" /\ UNCHANGED <<scopeCount, at, call, old>>
  BY DEF commitScope
<1> DEFINE isNew(s) == scopes[s] = NoBuf
           addr(s) == IF isNew(s) THEN FreshBuf({scopes[t] : t \in Scopes}) ELSE scopes[s]
           before(s) == IF isNew(s) THEN newscopeBuffer(DefaultMaxItems, 0) ELSE bufs[addr(s)]
           content(s) == replacementItems(call[p].batch[s], 0)
           after(s) == commitItems(before(s), content(s), batchBytes(call[p].batch, s), 0)
<1>3. PICK s \in todo[p] :
         /\ bufs' = [bufs EXCEPT ![addr(s)] = after(s)]
         /\ scopes' = [scopes EXCEPT ![s] = addr(s)]
         /\ totalBytes' = totalBytes - drift(p, s, before(s))
         /\ totalItems' = totalItems + Len(content(s)) - Len(before(s).items)
         /\ newScopes' = [newScopes EXCEPT ![p] = @ + (IF isNew(s) THEN 1 ELSE 0)]
         /\ todo' = [todo EXCEPT ![p] = @ \ {s}]
  BY DEF commitScope
<1>4. call[p] \in Calls /\ call[p].op = "warm" /\ todo[p] \subseteq DOMAIN call[p].batch
  BY <1>1, <1>2 DEF Inv, InPlace
<1>5. s \in Scopes /\ todo[p] \subseteq Scopes /\ s \in DOMAIN call[p].batch
  BY <1>4, CallScopes
<1>6. call[p].batch[s] \in Seq(Input) /\ ~DuplicateIds(call[p].batch[s])
  BY <1>4, <1>5, CallsAssumption
<1> DEFINE k == addr(s)
           b == before(s)
           items == content(s)
           size == sumItemBytes(items)
<1>7. k \in BufIds /\ \A t \in Scopes : t # s => scopes[t] # k
  <2>1. CASE isNew(s)
    <3>1. ptr[p] = NoBuf
      BY <1>1, <1>2 DEF Inv, InPlace
    <3> QED
      BY <1>1, <1>5, <2>1, <3>1, FreshAddress
  <2>2. CASE ~isNew(s)
    BY <1>1, <1>5, <2>2 DEF Shape, Typed
  <2> QED
    BY <2>1, <2>2
<1>8. Sound(b)
  <2>1. CASE isNew(s)
    BY <2>1, SoundNew, StoreAssumption
  <2>2. CASE ~isNew(s)
    BY <1>1, <1>7, <2>2 DEF Shape
  <2> QED
    BY <2>1, <2>2
<1>9. isNew(s) => b.bytes = 0 /\ Len(b.items) = 0
  <2> SUFFICES ASSUME isNew(s) PROVE b.bytes = 0 /\ Len(b.items) = 0
    OBVIOUS
  <2>1. b = newscopeBuffer(DefaultMaxItems, 0)
    OBVIOUS
  <2> QED
    BY <2>1 DEF newscopeBuffer
<1>10. b.bytes \in Nat /\ Len(b.items) \in Nat
  <2> HIDE DEF before
  <2> QED
    BY <1>8, SoundTallies
<1>11. ~isNew(s) => b = bufs[scopes[s]]
  OBVIOUS
<1> HIDE DEF before, addr
<1>12. batchBytes(call[p].batch, s) = size
  BY DEF batchBytes
<1>13. /\ Sound(after(s)) /\ after(s).bytes = size /\ after(s).items = items
       /\ size \in Int
  BY <1>6, <1>8, <1>12, SoundCommit
<1>14. Len(items) \in Nat
  BY <1>6, SoundCommit, <1>8
<1> HIDE DEF after, content
<1>15. old[p][s] \in Int /\ newScopes[p] \in Int
  BY <1>1, <1>5 DEF Shape
<1> DEFINE had == b.bytes
           snap == old[p][s]
           count == Len(items)
           number == Len(b.items)
           up == IF isNew(s) THEN 1 ELSE 0
           charge == IF isNew(s) THEN ScopeBufferOverhead ELSE 0
           oh == ScopeBufferOverhead
<1>16. /\ had \in Int /\ snap \in Int /\ count \in Int /\ number \in Int
       /\ up \in Int /\ charge \in Int /\ oh \in Int /\ size \in Int
  BY <1>10, <1>13, <1>14, <1>15, StoreAssumption
<1>17. /\ totalBytes' = totalBytes - (had - snap) /\ totalItems' = totalItems + count - number
       /\ newScopes'[p] = newScopes[p] + up
  BY <1>1, <1>3 DEF drift, Shape
<1>18. scopes'[s] = k /\ k # NoBuf /\ \A t \in Scopes : t # s => scopes'[t] = scopes[t]
  BY <1>1, <1>3, <1>5, <1>7, SetsAreDistinct DEF Typed
<1>19. bufs'[k] = after(s) /\ \A j \in BufIds : j # k => bufs'[j] = bufs[j]
  BY <1>1, <1>3, <1>7 DEF Typed
<1>20. /\ ScopeBytes[s] = (had + oh) - charge /\ ScopeItems[s] = number
  <2>1. CASE isNew(s)
    <3>1. ScopeBytes[s] = 0 /\ ScopeItems[s] = 0 /\ had = 0 /\ number = 0 /\ charge = oh
      BY <1>5, <1>9, <2>1 DEF ScopeBytes, ScopeItems
    <3> HIDE DEF had, number, charge, oh
    <3> QED
      BY <1>16, <3>1
  <2>2. CASE ~isNew(s)
    <3>1. ScopeBytes[s] = had + oh /\ ScopeItems[s] = number /\ charge = 0
      BY <1>5, <1>11, <2>2 DEF ScopeBytes, ScopeItems
    <3> HIDE DEF had, number, charge, oh
    <3> QED
      BY <1>16, <3>1
  <2> QED
    BY <2>1, <2>2
<1>21. ScopeBytes'[s] = size + oh /\ ScopeItems'[s] = count
  BY <1>5, <1>13, <1>18, <1>19 DEF ScopeBytes, ScopeItems
<1>22. \A t \in Scopes : t # s /\ scopes[t] # NoBuf => scopes[t] \in BufIds /\ scopes[t] # k
  BY <1>1, <1>7 DEF Typed
<1>23. \A t \in Scopes : t # s =>
         /\ ScopeBytes'[t] = ScopeBytes[t] /\ ScopeItems'[t] = ScopeItems[t]
         /\ (scopes'[t] = NoBuf) = (scopes[t] = NoBuf)
  BY <1>18, <1>19, <1>22 DEF ScopeBytes, ScopeItems

<1>24. Pending'[p] = Pending[p] - ((size - snap) + charge)
  <2> DEFINE f == [t \in Scopes |-> IF t \in todo[p] THEN planDelta(p, t) ELSE 0]
             g == [t \in Scopes |-> IF t \in todo'[p] THEN planDelta(p, t)' ELSE 0]
  <2>1. \A t \in Scopes : t # s => planDelta(p, t)' = planDelta(p, t)
    BY <1>2, <1>18 DEF planDelta
  <2>2. todo'[p] = todo[p] \ {s}
    BY <1>1, <1>3 DEF Typed
  <2>3. \A t \in Scopes : t # s => f[t] = g[t]
    BY <2>1, <2>2
  <2>4. f[s] = (size - snap) + charge /\ g[s] = 0
    BY <1>3, <1>5, <1>12, <2>2 DEF planDelta
  <2>5. f \in [Scopes -> Int]
    <3>1. \A t \in Scopes : t \in todo[p] => planDelta(p, t) \in Int
      BY <1>1, <1>4, BatchBytesInt, StoreAssumption DEF planDelta, Shape
    <3> QED
      BY <3>1
  <2>6. g \in [Scopes -> Int]
    BY <2>3, <2>4, <2>5
  <2>7. Pending[p] = Over(f) /\ Pending'[p] = Over(g)
    BY <1>2 DEF Pending, pendingBytes
  <2> HIDE DEF f, g, charge, size, snap
  <2>8. Over(g) = Over(f) + (g[s] - f[s]) /\ Over(f) \in Int
    BY <1>5, <2>3, <2>5, <2>6, OverReplace, OverInt
  <2> QED
    BY <1>16, <2>4, <2>7, <2>8
<1> HIDE DEF had, snap, count, number, up, charge, oh, size, items, b, k
<1>25. \A q \in Procs : q # p => newScopes'[q] = newScopes[q] /\ todo'[q] = todo[q]
  BY <1>1, <1>3 DEF Shape, Typed
<1>26. old' \in [Procs -> [Scopes -> Int]] /\ newScopes' \in [Procs -> Int]
  BY <1>1, <1>2, <1>3, <1>15, <1>16 DEF Shape, up
<1>27. OnlyMoves(p)
  BY <1>2, <1>25, <1>26 DEF OnlyMoves
<1>28. \A q \in Procs, t \in Scopes :
         q # p /\ at[q] = "commit" /\ t \in todo[q] => ((scopes'[t] = NoBuf) <=> (scopes[t] = NoBuf))
  <2> SUFFICES ASSUME NEW q \in Procs, NEW t \in Scopes, q # p, at[q] = "commit", t \in todo[q]
               PROVE  t # s
    BY <1>18
  <2>1. lock[ShardOf[s]] = p /\ lock[ShardOf[t]] = q
    BY <1>1, <1>2, <1>3, <1>5, CommitHolds
  <2> QED
    BY <2>1
<1>29. \A q \in Procs : q # p => Pending'[q] = Pending[q] /\ newScopes'[q] = newScopes[q]
  BY <1>1, <1>27, <1>28, OthersPending
<1>30. /\ totalBytes \in Int /\ totalItems \in Int /\ scopeCount \in Int
       /\ Pending[p] \in Int /\ Pending'[p] \in Int
  <2>1. totalBytes \in Int /\ totalItems \in Int /\ scopeCount \in Int /\ Pending[p] \in Int
    BY <1>1, Tallies
  <2> QED
    BY <1>16, <1>24, <2>1
<1>31. totalBytes' \in Int /\ totalItems' \in Int /\ scopeCount' \in Int
  BY <1>2, <1>16, <1>17, <1>30
<1>32. Shape'
  <2>1. \A t, u \in Scopes : scopes'[t] # NoBuf /\ scopes'[t] = scopes'[u] => t = u
    BY <1>1, <1>7, <1>18 DEF Shape
  <2>2. \A j \in BufIds : Sound(bufs'[j])
    BY <1>1, <1>13, <1>19 DEF Shape
  <2>3. \A q \in Procs : at'[q] # "commit" => newScopes'[q] = 0
    BY <1>1, <1>2, <1>25 DEF Shape
  <2> QED
    BY <1>26, <1>31, <2>1, <2>2, <2>3 DEF Shape
<1>33. totalBytes' = totalBytes + (ScopeBytes'[s] - ScopeBytes[s]) + (Pending'[p] - Pending[p])
  BY <1>16, <1>17, <1>20, <1>21, <1>24, <1>30
<1>34. totalItems' = totalItems + (ScopeItems'[s] - ScopeItems[s])
  BY <1>16, <1>17, <1>20, <1>21, <1>30
<1>35. scopeCount' + newScopes'[p] =
         scopeCount + newScopes[p] + (IF scopes'[s] = NoBuf THEN 0 ELSE 1)
                                   - (IF scopes[s] = NoBuf THEN 0 ELSE 1)
  BY <1>2, <1>15, <1>17, <1>18, <1>30 DEF up
<1> QED
  BY <1>5, <1>23, <1>29, <1>32, <1>33, <1>34, <1>35, OneScopeAccounted

LEMMA SwapMapsCount ==
    ASSUME CountInv, Inv', NEW p \in Procs, NEW batch, DOMAIN batch \subseteq UserScopes,
           \A s \in DOMAIN batch : batch[s] \in Seq(Input) /\ ~DuplicateIds(batch[s]),
           swapMaps(p, batch)
    PROVE  CountInv'
<1> DEFINE names == mapAfterSwap(batch)
           addr == newAddress(names)
           fresh(s) == IF s \in Reserved THEN newscopeBuffer(maxItemsFor(s), 0)
                       ELSE rebuiltBuffer(replacementItems(batch[s], 0))
           bytes(s) == IF s \in DOMAIN batch THEN batchBytes(batch, s) ELSE 0
           number(s) == IF s \in DOMAIN batch THEN Len(batch[s]) ELSE 0
<1>1. Shape /\ Inv /\ Typed
  BY DEF CountInv, Shape, Inv
<1>2. /\ at[p] = "detach"
      /\ scopes' = [s \in Scopes |-> IF s \in names THEN addr[s] ELSE NoBuf]
      /\ bufs' = [k \in BufIds |->
            IF \E s \in names : addr[s] = k
            THEN fresh(CHOOSE s \in names : addr[s] = k) ELSE bufs[k]]
      /\ totalBytes' = Over([s \in Scopes |->
            (IF s \in names THEN ScopeBufferOverhead ELSE 0) + bytes(s)])
      /\ totalItems' = Over([s \in Scopes |-> number(s)])
      /\ scopeCount' = Cardinality(names)
      /\ Return(p)
  BY DEF swapMaps
<1>3. names \in SUBSET Scopes /\ names = DOMAIN batch \cup Reserved
  BY SetsAreDistinct DEF mapAfterSwap
<1>4. /\ addr \in [names -> {k \in BufIds : \A q \in Procs : ptr[q] # k}]
      /\ \A s, t \in names : s # t => addr[s] # addr[t]
  BY <1>1, <1>3, NewAddresses
<1>5. ASSUME NEW s \in names
      PROVE  /\ Sound(fresh(s)) /\ fresh(s).bytes = bytes(s) /\ Len(fresh(s).items) = number(s)
             /\ bytes(s) \in Int /\ number(s) \in Int
  <2>1. CASE s \in Reserved
    <3>1. s \notin DOMAIN batch
      BY <2>1, SetsAreDistinct
    <3>2. fresh(s) = newscopeBuffer(0, 0)
      BY <2>1 DEF maxItemsFor
    <3>3. Sound(fresh(s))
      BY <3>2, SoundNew
    <3>4. fresh(s).bytes = 0 /\ Len(fresh(s).items) = 0
      BY <3>2 DEF newscopeBuffer
    <3> QED
      BY <3>1, <3>3, <3>4
  <2>2. CASE s \in DOMAIN batch /\ s \notin Reserved
    <3> DEFINE items == replacementItems(batch[s], 0)
    <3>1. batch[s] \in Seq(Input) /\ ~DuplicateIds(batch[s])
      BY <2>2
    <3>2. /\ Sound(rebuiltBuffer(items)) /\ rebuiltBuffer(items).bytes = sumItemBytes(items)
          /\ rebuiltBuffer(items).items = items
      BY <3>1, SoundRebuilt
    <3>3. items \in Seq(Item) /\ Len(items) = Len(batch[s])
      BY <3>1, ReplacementItems
    <3>4. sumItemBytes(items) \in Int
      BY <3>3, SumsOfItems
    <3>5. fresh(s) = rebuiltBuffer(items) /\ bytes(s) = sumItemBytes(items)
          /\ number(s) = Len(batch[s]) /\ Len(items) \in Int
      BY <2>2, <3>3 DEF batchBytes
    <3> QED
      BY <3>2, <3>3, <3>4, <3>5
  <2> QED
    BY <1>3, <2>1, <2>2
<1>6. \A s \in Scopes : s \notin names => bytes(s) = 0 /\ number(s) = 0
  BY <1>3
<1> HIDE DEF names, addr, fresh, bytes, number
<1>7. OnlyMoves(p) /\ at'[p] = "idle" /\ newScopes'[p] = 0
  BY <1>1, <1>2, ReturnMoves
<1>8. \A q \in Procs : at'[q] # "commit" /\ newScopes'[q] = 0
  <2>1. \A q \in Procs : at[q] # "commit"
    BY <1>1, <1>2, DetachExcludes
  <2> QED
    BY <1>1, <1>7, <2>1 DEF OnlyMoves, Shape
<1>9. SumOverProcs(Pending') = 0 /\ SumOverProcs(newScopes') = 0
  <2>1. CommitPends'
    BY NoPending, PTL
  <2>2. Pending' = [q \in Procs |-> Pending'[q]]
    BY DEF Pending
  <2>3. Pending' = [q \in Procs |-> 0]
    BY <1>8, <2>1, <2>2 DEF CommitPends
  <2>4. newScopes' = [q \in Procs |-> 0]
    BY <1>7, <1>8 DEF OnlyMoves
  <2> QED
    BY <2>3, <2>4, ProcsZero
<1>10. \A s \in names : bufs'[addr[s]] = fresh(s)
  <2> SUFFICES ASSUME NEW s \in names PROVE bufs'[addr[s]] = fresh(s)
    OBVIOUS
  <2>1. addr[s] \in BufIds /\ (CHOOSE t \in names : addr[t] = addr[s]) = s
    BY <1>4
  <2> QED
    BY <1>2, <2>1
<1>11. \A s \in names : scopes'[s] = addr[s] /\ scopes'[s] # NoBuf /\ addr[s] \in BufIds
  BY <1>2, <1>3, <1>4, SetsAreDistinct
<1>12. \A s \in Scopes : s \notin names => scopes'[s] = NoBuf
  BY <1>2
<1>13. \A k \in BufIds : Sound(bufs'[k])
  <2> SUFFICES ASSUME NEW k \in BufIds PROVE Sound(bufs'[k])
    OBVIOUS
  <2>1. CASE \E s \in names : addr[s] = k
    BY <1>5, <1>10, <2>1
  <2>2. CASE ~\E s \in names : addr[s] = k
    BY <1>1, <1>2, <2>2 DEF Shape
  <2> QED
    BY <2>1, <2>2
<1>14. \A s, t \in Scopes : scopes'[s] # NoBuf /\ scopes'[s] = scopes'[t] => s = t
  <2> SUFFICES ASSUME NEW s \in Scopes, NEW t \in Scopes,
                      scopes'[s] # NoBuf, scopes'[s] = scopes'[t]
               PROVE  s = t
    OBVIOUS
  <2>1. s \in names /\ t \in names
    BY <1>12
  <2> QED
    BY <1>4, <1>11, <2>1
<1>15. ScopeBufferOverhead \in Nat
  BY StoreAssumption
<1>16. \A s \in Scopes :
         /\ ScopeBytes'[s] = (IF s \in names THEN ScopeBufferOverhead ELSE 0) + bytes(s)
         /\ ScopeItems'[s] = number(s)
  <2> SUFFICES ASSUME NEW s \in Scopes
               PROVE  /\ ScopeBytes'[s] = (IF s \in names THEN ScopeBufferOverhead ELSE 0) + bytes(s)
                      /\ ScopeItems'[s] = number(s)
    OBVIOUS
  <2>1. CASE s \in names
    <3>1. /\ ScopeBytes'[s] = fresh(s).bytes + ScopeBufferOverhead
          /\ ScopeItems'[s] = Len(fresh(s).items)
      BY <1>10, <1>11, <2>1 DEF ScopeBytes, ScopeItems
    <3>2. fresh(s).bytes = bytes(s) /\ Len(fresh(s).items) = number(s) /\ bytes(s) \in Int
      BY <1>5, <2>1
    <3> QED
      BY <1>15, <2>1, <3>1, <3>2
  <2>2. CASE s \notin names
    BY <1>6, <1>12, <2>2 DEF ScopeBytes, ScopeItems
  <2> QED
    BY <2>1, <2>2
<1>17. /\ ScopeBytes' = [s \in Scopes |-> (IF s \in names THEN ScopeBufferOverhead ELSE 0) + bytes(s)]
       /\ ScopeItems' = [s \in Scopes |-> number(s)]
  BY <1>16 DEF ScopeBytes, ScopeItems
<1>18. Mapped' = names
  BY <1>3, <1>11, <1>12 DEF Mapped
<1>19. totalBytes' = Over(ScopeBytes') /\ totalItems' = Over(ScopeItems')
       /\ scopeCount' = Cardinality(Mapped')
  BY <1>2, <1>17, <1>18
<1>20. ScopeBytes' \in [Scopes -> Int] /\ ScopeItems' \in [Scopes -> Int]
  <2>1. \A s \in Scopes : bytes(s) \in Int /\ number(s) \in Int
    BY <1>5, <1>6
  <2> QED
    BY <1>15, <1>17, <2>1
<1>21. totalBytes' \in Int /\ totalItems' \in Int /\ scopeCount' \in Nat
  <2>1. totalBytes' \in Int /\ totalItems' \in Int
    BY <1>19, <1>20, OverInt
  <2>2. IsFiniteSet(names)
    BY <1>3, SetSizes, FS_Subset
  <2> QED
    BY <1>2, <2>1, <2>2, FS_CardinalityType
<1>22. Shape'
  BY <1>7, <1>8, <1>13, <1>14, <1>21 DEF Shape, OnlyMoves
<1>23. (Shape =>
        (CountersAccounted <=>
           /\ totalBytes = Over(ScopeBytes) + SumOverProcs(Pending)
           /\ totalItems = Over(ScopeItems)
           /\ scopeCount + SumOverProcs(newScopes) = Cardinality(Mapped)))'
  BY Accounted, PTL
<1>24. /\ totalBytes' = Over(ScopeBytes)' + SumOverProcs(Pending)'
       /\ totalItems' = Over(ScopeItems)'
       /\ scopeCount' + SumOverProcs(newScopes)' = Cardinality(Mapped)'
  BY <1>9, <1>19, <1>21
<1> QED
  BY <1>22, <1>23, <1>24 DEF CountInv

\* What the reserved scopes cost at the start.
LEMMA ReservedCost ==
    Over([s \in Scopes |-> IF s \in Reserved THEN ScopeBufferOverhead ELSE 0])
      = ScopeBufferOverhead * NumReserved
<1> DEFINE oh == ScopeBufferOverhead
           f == [s \in Scopes |-> IF s \in Reserved THEN oh ELSE 0]
           g == [k \in 0..NumScopes |-> IF k <= NumReserved THEN oh * k ELSE oh * NumReserved]
<1>1. /\ NumScopes \in Nat /\ NumReserved \in Nat /\ NumReserved <= NumScopes /\ oh \in Nat
      /\ Scopes = 1..NumScopes /\ Reserved = 1..NumReserved
  BY StoreAssumption DEF Scopes, Reserved
<1>2. Len(f) = NumScopes
  BY <1>1
<1> HIDE DEF oh
<1>3. \A k \in Nat \ {0} : oh * k = oh * (k - 1) + oh
  BY <1>1
<1>4. g[0] = 0
  BY <1>1
<1>5. \A i \in 1..NumScopes : g[i] = g[i - 1] + f[i]
  <2> SUFFICES ASSUME NEW i \in 1..NumScopes PROVE g[i] = g[i - 1] + f[i]
    OBVIOUS
  <2> DEFINE a == oh * i
             z == oh * (i - 1)
             all == oh * NumReserved
  <2>1. a = z + oh /\ a \in Nat /\ z \in Nat /\ all \in Nat
    BY <1>1, <1>3
  <2>2. CASE i <= NumReserved
    <3>1. g[i] = a /\ g[i - 1] = z /\ f[i] = oh
      BY <1>1, <2>2
    <3> HIDE DEF a, z, g, f
    <3> QED
      BY <2>1, <3>1
  <2>3. CASE i = NumReserved + 1
    <3>1. i - 1 = NumReserved
      BY <1>1, <2>3
    <3>2. g[i] = all /\ g[i - 1] = all /\ f[i] = 0
      BY <1>1, <2>3, <3>1
    <3> HIDE DEF all, g, f
    <3> QED
      BY <2>1, <3>2
  <2>4. CASE i > NumReserved + 1
    <3>1. g[i] = all /\ g[i - 1] = all /\ f[i] = 0
      BY <1>1, <2>4
    <3> HIDE DEF all, g, f
    <3> QED
      BY <2>1, <3>1
  <2> QED
    BY <1>1, <2>2, <2>3, <2>4
<1> HIDE DEF f, g
<1>6. \A k \in 0..NumScopes : SumTo(f)[k] = g[k]
  BY <1>1, <1>4, <1>5, SumToUnique
<1>7. SumTo(f)[NumScopes] = g[NumScopes]
  BY <1>1, <1>6
<1>8. g[NumScopes] = oh * NumReserved
  BY <1>1 DEF g
<1> QED
  BY <1>2, <1>7, <1>8 DEF Over, SeqSum, f, oh

LEMMA InitCount == Init => CountInv
<1> SUFFICES ASSUME Init PROVE CountInv
  OBVIOUS
<1>1. Inv
  BY InitInv
<1>2. /\ NumScopes \in Nat /\ NumReserved \in Nat /\ NumReserved <= NumScopes
      /\ ScopeBufferOverhead \in Nat /\ NoBuf \notin Nat
  BY StoreAssumption
<1>3. \A s \in Scopes : scopes[s] = IF s \in Reserved THEN s ELSE NoBuf
  BY DEF Init
<1>4. \A s \in Reserved : s \in Scopes /\ s \in BufIds /\ s \in Nat
  BY <1>1, <1>2, <1>3, SetsAreDistinct DEF Inv, Typed, Reserved
<1>5. \A k \in BufIds : bufs[k] = newscopeBuffer(0, 0)
  BY DEF Init
<1>6. \A k \in BufIds : Sound(bufs[k]) /\ bufs[k].bytes = 0 /\ Len(bufs[k].items) = 0
  BY <1>5, SoundNew DEF newscopeBuffer
<1>7. \A s, t \in Scopes : scopes[s] # NoBuf /\ scopes[s] = scopes[t] => s = t
  BY <1>3
<1>8. old \in [Procs -> [Scopes -> Int]] /\ newScopes = [q \in Procs |-> 0]
  BY DEF Init, NoSnapshot
<1>9. totalBytes = ScopeBufferOverhead * NumReserved /\ totalItems = 0 /\ scopeCount = NumReserved
  BY DEF Init
<1>10. totalBytes \in Int /\ totalItems \in Int /\ scopeCount \in Int
  BY <1>2, <1>9
<1>11. Shape
  BY <1>1, <1>6, <1>7, <1>8, <1>10 DEF Shape
<1>12. ScopeBytes = [s \in Scopes |-> IF s \in Reserved THEN ScopeBufferOverhead ELSE 0]
  <2>1. \A s \in Scopes : ScopeBytes[s] = IF s \in Reserved THEN ScopeBufferOverhead ELSE 0
    BY <1>2, <1>3, <1>4, <1>6 DEF ScopeBytes
  <2> QED
    BY <2>1 DEF ScopeBytes
<1>13. ScopeItems = [s \in Scopes |-> 0]
  <2>1. \A s \in Scopes : ScopeItems[s] = 0
    BY <1>3, <1>4, <1>6 DEF ScopeItems
  <2> QED
    BY <2>1 DEF ScopeItems
<1>14. Pending = [q \in Procs |-> 0]
  <2>1. \A q \in Procs : Pending[q] = 0
    BY NoPending DEF CommitPends, Init
  <2> QED
    BY <2>1 DEF Pending
<1>15. Mapped = 1..NumReserved
  BY <1>2, <1>3, <1>4 DEF Mapped, Reserved
<1>16. Cardinality(Mapped) = NumReserved
  BY <1>2, <1>15, FS_Interval
<1>17. /\ totalBytes = Over(ScopeBytes) + SumOverProcs(Pending)
       /\ totalItems = Over(ScopeItems)
       /\ scopeCount + SumOverProcs(newScopes) = Cardinality(Mapped)
  BY <1>2, <1>8, <1>9, <1>10, <1>12, <1>13, <1>14, <1>16, ReservedCost, OverZero, ProcsZero
<1> QED
  BY <1>11, <1>17, Accounted DEF CountInv

LEMMA NextCount == CountInv /\ [Next]_vars => CountInv'
<1> SUFFICES ASSUME CountInv, [Next]_vars PROVE CountInv'
  OBVIOUS
<1>1. Inv /\ Inv'
  BY NextInv DEF CountInv, Shape
<1>2. ASSUME NEW p \in Procs, NEW c \in Calls, Start(p, c) PROVE CountInv'
  BY <1>1, <1>2, StartCount
<1>3. ASSUME NEW p \in Procs, Step(p) PROVE CountInv'
  <2>1. CASE lookup(p)
    BY <1>1, <2>1, LookupCount
  <2>2. CASE getOrCreateScope(p)
    BY <1>1, <2>2, GetOrCreateCount
  <2>3. CASE operate(p)
    BY <1>1, <2>3, OperateCount
  <2>4. CASE cleanupIfEmptyAndUnused(p)
    BY <1>1, <2>4, CleanupCount
  <2>5. CASE deleteScope(p)
    BY <1>1, <2>5, DeleteScopeCount
  <2>6. CASE lockShards(p)
    BY <1>1, <2>6, LockShardsCount
  <2>7. CASE detach(p)
    BY <1>1, <2>7, DetachCount
  <2>8. CASE wipe(p)
    <3> DEFINE none == [s \in {} |-> s]
    <3>1. /\ DOMAIN none \subseteq UserScopes /\ swapMaps(p, none)
          /\ \A s \in DOMAIN none : none[s] \in Seq(Input) /\ ~DuplicateIds(none[s])
      BY <2>8 DEF wipe
    <3> HIDE DEF none
    <3> QED
      BY <1>1, <3>1, SwapMapsCount
  <2>9. CASE rebuildAll(p)
    <3>1. call[p].op = "rebuild" /\ swapMaps(p, call[p].batch)
      BY <2>9 DEF rebuildAll
    <3>2. at[p] = "detach"
      BY <3>1 DEF swapMaps
    <3>3. call[p] \in Calls
      BY <1>1, <3>2 DEF Inv, InPlace
    <3>4. /\ DOMAIN call[p].batch \subseteq UserScopes
          /\ \A s \in DOMAIN call[p].batch :
               call[p].batch[s] \in Seq(Input) /\ ~DuplicateIds(call[p].batch[s])
      BY <3>1, <3>3, CallsAssumption
    <3> QED
      BY <1>1, <3>1, <3>4, SwapMapsCount
  <2>10. CASE snapshot(p)
    BY <1>1, <2>10, SnapshotCount
  <2>11. CASE reserve(p)
    BY <1>1, <2>11, ReserveCount
  <2>12. CASE commitScope(p)
    BY <1>1, <2>12, CommitScopeCount
  <2>13. CASE replaceScopesDone(p)
    BY <1>1, <2>13, ReplaceScopesDoneCount
  <2> QED
    BY <1>3, <2>1, <2>2, <2>3, <2>4, <2>5, <2>6, <2>7, <2>8, <2>9, <2>10, <2>11, <2>12, <2>13
    DEF Step
<1>4. CASE UNCHANGED vars
  <2>1. /\ UNCHANGED <<scopes, bufs, lock, at, call, ptr, created, todo, old, newScopes>>
        /\ UNCHANGED <<totalBytes, totalItems, scopeCount>>
    BY <1>4 DEF vars, local, counters
  <2>2. Shape'
    BY <1>1, <2>1 DEF CountInv, Shape
  <2>3. CountersAccounted'
    BY <2>1 DEF CountInv, CountersAccounted, pendingBytes, planDelta, Mapped
  <2> QED
    BY <2>2, <2>3 DEF CountInv
<1> QED
  BY <1>2, <1>3, <1>4 DEF Next, Finished

\* CountersAccounted holds of every interleaving of getOrCreateScope, the item
\* calls, the roll-back, deleteScope, wipe, rebuildAll and replaceScopes: no
\* update of the counters is lost, doubled or charged to a scope that is gone.
THEOREM CountersStayAccounted == Spec => []CountersAccounted
<1>1. CountInv => CountersAccounted
  BY DEF CountInv
<1> QED
  BY <1>1, InitCount, NextCount, PTL DEF Spec

-----------------------------------------------------------------------------
(* The byte cap. *)

\* Until the first /warm nobody is in one, and every /rebuild under way has
\* passed the cap check it began with.
Fits ==
    /\ warms \in Nat
    /\ warms = 0 => /\ totalBytes <= MaxStoreBytes
                    /\ \A p \in Procs : at[p] # "idle" => call[p].op # "warm"
    /\ \A p \in Procs : at[p] # "idle" /\ call[p].op = "rebuild" => rebuildFits(call[p].batch)

CapInv == CountInv /\ Fits

\* No call begins.
NoneBegins ==
    /\ warms' = warms
    /\ \A q \in Procs : at'[q] # "idle" => at[q] # "idle" /\ call'[q] = call[q]

LEMMA FitsKept ==
    ASSUME Fits, NoneBegins, warms = 0 => totalBytes' <= MaxStoreBytes
    PROVE  Fits'
  BY DEF Fits, NoneBegins

LEMMA StepBeginsNone ==
    ASSUME Inv, NEW p \in Procs, Step(p)
    PROVE  NoneBegins
<1>1. CASE Return(p)
  BY <1>1 DEF Inv, Typed, Return, NoneBegins
<1>2. CASE at[p] # "idle" /\ \E label : at' = [at EXCEPT ![p] = label] /\ UNCHANGED <<call, warms>>
  BY <1>2 DEF Inv, Typed, NoneBegins
<1>3. CASE UNCHANGED <<at, call, warms>>
  BY <1>3 DEF NoneBegins
<1>4. CASE at[p] # "idle" /\ ((\E label : Goto(p, label)) \/ \E label, set : GotoWith(p, label, set))
  BY <1>2, <1>4 DEF Goto, GotoWith
<1>5. CASE lookup(p)
  BY <1>1, <1>2, <1>4, <1>5 DEF lookup
<1>6. CASE getOrCreateScope(p)
  BY <1>1, <1>2, <1>6 DEF getOrCreateScope
<1>7. CASE operate(p)
  BY <1>1, <1>4, <1>7 DEF operate
<1>8. CASE cleanupIfEmptyAndUnused(p) \/ deleteScope(p) \/ replaceScopesDone(p)
  BY <1>1, <1>8 DEF cleanupIfEmptyAndUnused, deleteScope, replaceScopesDone
<1>9. CASE lockShards(p)
  BY <1>4, <1>9 DEF lockShards
<1>10. CASE detach(p)
  BY <1>4, <1>10 DEF detach
<1>11. CASE wipe(p) \/ rebuildAll(p)
  BY <1>1, <1>11 DEF wipe, rebuildAll, swapMaps
<1>12. CASE snapshot(p) \/ commitScope(p)
  BY <1>3, <1>12 DEF snapshot, commitScope
<1>13. CASE reserve(p)
  BY <1>1, <1>4, <1>13 DEF reserve
<1> QED
  BY <1>5, <1>6, <1>7, <1>8, <1>9, <1>10, <1>11, <1>12, <1>13 DEF Step

LEMMA OverAdd ==
    ASSUME NEW f \in [Scopes -> Int], NEW g \in [Scopes -> Int], NEW h \in [Scopes -> Int],
           \A s \in Scopes : h[s] = f[s] + g[s]
    PROVE  Over(h) = Over(f) + Over(g)
<1> DEFINE p == [k \in 0..NumScopes |-> SumTo(f)[k] + SumTo(g)[k]]
<1>1. NumScopes \in Nat /\ Scopes = 1..NumScopes
  BY StoreAssumption DEF Scopes
<1>2. Len(f) = NumScopes /\ Len(g) = NumScopes /\ Len(h) = NumScopes
  BY <1>1
<1>3. /\ SumTo(f)[0] = 0
      /\ \A k \in 0..NumScopes : SumTo(f)[k] \in Int
      /\ \A k \in 1..NumScopes : SumTo(f)[k] = SumTo(f)[k - 1] + f[k]
  BY <1>1, SumToInt
<1>4. /\ SumTo(g)[0] = 0
      /\ \A k \in 0..NumScopes : SumTo(g)[k] \in Int
      /\ \A k \in 1..NumScopes : SumTo(g)[k] = SumTo(g)[k - 1] + g[k]
  BY <1>1, SumToInt
<1>5. p[0] = 0
  BY <1>1, <1>3, <1>4
<1>6. \A i \in 1..NumScopes : p[i] = p[i - 1] + h[i]
  <2> SUFFICES ASSUME NEW i \in 1..NumScopes PROVE p[i] = p[i - 1] + h[i]
    OBVIOUS
  <2>1. i \in 0..NumScopes /\ i - 1 \in 0..NumScopes /\ i \in Scopes
    BY <1>1
  <2>2. p[i] = SumTo(f)[i] + SumTo(g)[i] /\ p[i - 1] = SumTo(f)[i - 1] + SumTo(g)[i - 1]
    BY <2>1
  <2>3. SumTo(f)[i] = SumTo(f)[i - 1] + f[i] /\ SumTo(g)[i] = SumTo(g)[i - 1] + g[i]
        /\ SumTo(f)[i - 1] \in Int /\ SumTo(g)[i - 1] \in Int
    BY <1>3, <1>4, <2>1
  <2>4. f[i] \in Int /\ g[i] \in Int /\ h[i] = f[i] + g[i]
    BY <2>1
  <2> HIDE DEF p
  <2> QED
    BY <2>2, <2>3, <2>4
<1> HIDE DEF p
<1>7. \A k \in 0..NumScopes : SumTo(h)[k] = p[k]
  BY <1>1, <1>5, <1>6, SumToUnique
<1>8. SumTo(h)[NumScopes] = SumTo(f)[NumScopes] + SumTo(g)[NumScopes]
  BY <1>1, <1>7 DEF p
<1> QED
  BY <1>2, <1>8 DEF Over, SeqSum

\* What the swap of a /rebuild stores in totalBytes is what it checked.
LEMMA SwapFits ==
    ASSUME NEW batch, DOMAIN batch \subseteq UserScopes,
           \A s \in DOMAIN batch : batchBytes(batch, s) \in Int, rebuildFits(batch)
    PROVE  Over([s \in Scopes |->
              (IF s \in mapAfterSwap(batch) THEN ScopeBufferOverhead ELSE 0)
                + (IF s \in DOMAIN batch THEN batchBytes(batch, s) ELSE 0)]) <= MaxStoreBytes
<1> DEFINE f == [s \in Scopes |-> IF s \in DOMAIN batch
                                  THEN batchBytes(batch, s) + ScopeBufferOverhead ELSE 0]
           g == [s \in Scopes |-> IF s \in Reserved THEN ScopeBufferOverhead ELSE 0]
           h == [s \in Scopes |->
                   (IF s \in mapAfterSwap(batch) THEN ScopeBufferOverhead ELSE 0)
                     + (IF s \in DOMAIN batch THEN batchBytes(batch, s) ELSE 0)]
<1>1. ScopeBufferOverhead \in Nat /\ Reserved \cap UserScopes = {}
  BY StoreAssumption, SetsAreDistinct
<1>2. f \in [Scopes -> Int] /\ g \in [Scopes -> Int] /\ h \in [Scopes -> Int]
  BY <1>1
<1>3. \A s \in Scopes : h[s] = f[s] + g[s]
  <2> SUFFICES ASSUME NEW s \in Scopes PROVE h[s] = f[s] + g[s]
    OBVIOUS
  <2>1. CASE s \in DOMAIN batch
    BY <1>1, <2>1 DEF mapAfterSwap
  <2>2. CASE s \notin DOMAIN batch
    BY <1>1, <2>2 DEF mapAfterSwap
  <2> QED
    BY <2>1, <2>2
<1>4. Over(f) + ScopeBufferOverhead * NumReserved <= MaxStoreBytes
  BY DEF rebuildFits
<1>5. Over(g) = ScopeBufferOverhead * NumReserved
  BY ReservedCost
<1> HIDE DEF f, g
<1>6. Over(h) = Over(f) + Over(g)
  <2> HIDE DEF h
  <2> QED
    BY <1>2, <1>3, OverAdd
<1> QED
  BY <1>4, <1>5, <1>6

\* A refused reservation aside, bytes are only added where they fit.
LEMMA CapStep ==
    ASSUME CapInv, NEW p \in Procs, Step(p), warms = 0
    PROVE  totalBytes' <= MaxStoreBytes
<1>1. Shape /\ Inv /\ Typed /\ Fits
  BY DEF CapInv, CountInv, Shape, Inv
<1>2. /\ totalBytes \in Int /\ ScopeBufferOverhead \in Nat /\ MaxStoreBytes \in Nat
      /\ totalBytes <= MaxStoreBytes
  BY <1>1, StoreAssumption DEF Shape, Fits
<1>3. at[p] # "idle" => call[p].op # "warm"
  BY <1>1 DEF Fits
<1>4. CASE UNCHANGED totalBytes
  BY <1>2, <1>4
<1>5. ASSUME NEW d \in Int, canReserve(d), totalBytes' = totalBytes + d
      PROVE  totalBytes' <= MaxStoreBytes
  BY <1>2, <1>5 DEF canReserve
<1>6. ASSUME NEW d \in Nat, totalBytes' = totalBytes - d
      PROVE  totalBytes' <= MaxStoreBytes
  BY <1>2, <1>6
<1>7. CASE lookup(p) \/ lockShards(p) \/ detach(p) \/ snapshot(p) \/ replaceScopesDone(p)
  BY <1>4, <1>7 DEF lookup, lockShards, detach, snapshot, replaceScopesDone, counters
<1>8. CASE getOrCreateScope(p)
  <2>1. \/ UNCHANGED totalBytes
        \/ canReserve(ScopeBufferOverhead) /\ totalBytes' = totalBytes + ScopeBufferOverhead
    BY <1>8 DEF getOrCreateScope, counters
  <2> QED
    BY <1>2, <1>4, <1>5, <2>1
<1>9. CASE operate(p)
  <2> DEFINE b == bufs[ptr[p]]
             after == afterCall(b, call[p])
             d == after.bytes - b.bytes
  <2>1. CASE UNCHANGED counters
    BY <1>4, <2>1 DEF counters
  <2>2. CASE ~Refused(b, call[p]) /\ totalBytes' = totalBytes + d
    <3>1. at[p] = "operate"
      BY <1>9 DEF operate
    <3>2. ptr[p] \in BufIds /\ call[p] \in Calls /\ call[p].op \in ItemOps
      BY <1>1, <3>1 DEF Inv, InPlace, Typed
    <3>3. Sound(b)
      BY <1>1, <3>2 DEF Shape
    <3>4. Sound(after)
      BY <2>2, <3>2, <3>3, AfterCallSound
    <3>5. b.bytes \in Nat /\ after.bytes \in Nat
      BY <3>3, <3>4, SoundTallies
    <3>6. canReserve(d)
      BY <2>2 DEF Refused
    <3>7. d \in Int
      BY <3>5
    <3> HIDE DEF d
    <3> QED
      BY <1>5, <2>2, <3>6, <3>7
  <2> QED
    BY <1>9, <2>1, <2>2 DEF operate
<1>10. CASE cleanupIfEmptyAndUnused(p)
  <2>1. UNCHANGED totalBytes \/ totalBytes' = totalBytes - ScopeBufferOverhead
    BY <1>10 DEF cleanupIfEmptyAndUnused, RollBack, counters
  <2> QED
    BY <1>2, <1>4, <1>6, <2>1
<1>11. CASE deleteScope(p)
  <2> DEFINE k == scopes[call[p].scope]
             d == bufs[k].bytes + ScopeBufferOverhead
  <2>1. UNCHANGED totalBytes \/ (k # NoBuf /\ totalBytes' = totalBytes - d)
    BY <1>11 DEF deleteScope, counters
  <2>2. CASE k # NoBuf /\ totalBytes' = totalBytes - d
    <3>1. at[p] = "unlink"
      BY <1>11 DEF deleteScope
    <3>2. call[p].scope \in Scopes
      BY <1>1, <3>1, CallScopes DEF Inv, InPlace
    <3>3. k \in BufIds
      BY <1>1, <2>2, <3>2 DEF Typed
    <3>4. bufs[k].bytes \in Nat
      BY <1>1, <3>3, AllSound
    <3>5. d \in Nat
      BY <1>2, <3>4
    <3> HIDE DEF d
    <3> QED
      BY <1>6, <2>2, <3>5
  <2> QED
    BY <1>4, <2>1, <2>2
<1>12. CASE wipe(p)
  <2> DEFINE none == [s \in {} |-> s]
             h == [s \in Scopes |->
                    (IF s \in mapAfterSwap(none) THEN ScopeBufferOverhead ELSE 0)
                      + (IF s \in DOMAIN none THEN batchBytes(none, s) ELSE 0)]
  <2>1. totalBytes' = Over(h)
    BY <1>12 DEF wipe, swapMaps
  <2>2. h = [s \in Scopes |-> IF s \in Reserved THEN ScopeBufferOverhead ELSE 0]
    BY <1>2 DEF mapAfterSwap
  <2>3. MaxStoreBytes >= ScopeBufferOverhead * NumReserved
    BY StoreAssumption
  <2> QED
    BY <2>1, <2>2, <2>3, ReservedCost
<1>13. CASE rebuildAll(p)
  <2> DEFINE batch == call[p].batch
  <2>1. call[p].op = "rebuild" /\ swapMaps(p, batch)
    BY <1>13 DEF rebuildAll
  <2>2. at[p] = "detach"
    BY <2>1 DEF swapMaps
  <2>3. call[p] \in Calls /\ rebuildFits(batch)
    BY <1>1, <2>1, <2>2 DEF Inv, InPlace, Fits
  <2>4. DOMAIN batch \subseteq UserScopes /\ \A s \in DOMAIN batch : batchBytes(batch, s) \in Int
    BY <2>1, <2>3, CallsAssumption, BatchBytesInt
  <2>5. totalBytes' = Over([s \in Scopes |->
              (IF s \in mapAfterSwap(batch) THEN ScopeBufferOverhead ELSE 0)
                + (IF s \in DOMAIN batch THEN batchBytes(batch, s) ELSE 0)])
    BY <2>1 DEF swapMaps
  <2> HIDE DEF batch
  <2> QED
    BY <2>3, <2>4, <2>5, SwapFits
<1>14. CASE reserve(p) \/ commitScope(p)
  <2>1. at[p] \in {"snapshot", "commit"}
    BY <1>14 DEF reserve, commitScope
  <2> QED
    BY <1>1, <1>3, <2>1 DEF Inv, InPlace
<1> QED
  BY <1>7, <1>8, <1>9, <1>10, <1>11, <1>12, <1>13, <1>14 DEF Step

LEMMA NextCap == CapInv /\ [Next]_vars => CapInv'
<1> SUFFICES ASSUME CapInv, [Next]_vars PROVE CapInv'
  OBVIOUS
<1>1. CountInv' /\ Inv /\ Typed /\ Fits
  BY NextCount DEF CapInv, CountInv, Shape, Inv
<1>2. ASSUME NEW p \in Procs, NEW c \in Calls, Start(p, c) PROVE Fits'
  <2>1. /\ at' = [at EXCEPT ![p] = firstStep(c)] /\ call' = [call EXCEPT ![p] = c]
        /\ warms' = warms + (IF c.op = "warm" THEN 1 ELSE 0) /\ totalBytes' = totalBytes
        /\ c.op = "rebuild" => rebuildFits(c.batch)
    BY <1>2 DEF Start, counters
  <2>2. \A q \in Procs : /\ q # p => at'[q] = at[q] /\ call'[q] = call[q]
                         /\ q = p => call'[q] = c
    BY <1>1, <2>1 DEF Typed
  <2>3. warms' \in Nat /\ (warms' = 0 => warms = 0 /\ c.op # "warm")
    BY <1>1, <2>1 DEF Fits
  <2> QED
    BY <1>1, <2>1, <2>2, <2>3 DEF Fits
<1>3. ASSUME NEW p \in Procs, Step(p) PROVE Fits'
  <2>1. NoneBegins
    BY <1>1, <1>3, StepBeginsNone
  <2>2. warms = 0 => totalBytes' <= MaxStoreBytes
    BY <1>3, CapStep
  <2> QED
    BY <1>1, <2>1, <2>2, FitsKept
<1>4. ASSUME UNCHANGED vars PROVE Fits'
  BY <1>1, <1>4 DEF Fits, vars, local, counters
<1> QED
  BY <1>1, <1>2, <1>3, <1>4 DEF CapInv, Next, Finished

LEMMA InitCap == Init => CapInv
<1> SUFFICES ASSUME Init PROVE CapInv
  OBVIOUS
<1>1. warms = 0 /\ totalBytes = ScopeBufferOverhead * NumReserved
      /\ \A p \in Procs : at[p] = "idle"
  BY DEF Init
<1>2. ScopeBufferOverhead * NumReserved <= MaxStoreBytes
  BY StoreAssumption
<1> QED
  BY <1>1, <1>2, InitCount DEF CapInv, Fits

\* WithinCapWithoutWarm: the checks of getOrCreateScope, of the item calls and
\* of rebuildAll each see the counter they change, so together they never
\* exceed the cap.
THEOREM CapHoldsWithoutWarm == Spec => []WithinCapWithoutWarm
<1>1. CapInv => WithinCapWithoutWarm
  BY DEF CapInv, Fits, WithinCapWithoutWarm
<1> QED
  BY <1>1, InitCap, NextCap, PTL DEF Spec
=============================================================================
