------------------------------- MODULE Store -------------------------------
(***************************************************************************)
(* The store: the map from scope names to buffers, split over shards, its  *)
(* three counters, and concurrent callers of every operation that changes  *)
(* them (events_mode = off).                                               *)
(*                                                                         *)
(* A caller looks a buffer up under the shard lock, lets the lock go, and  *)
(* uses the pointer later: in between, the scope may be deleted, wiped,    *)
(* rebuilt, rolled back or re-created under the same name.  An action is   *)
(* one critical section; a buffer operation is one critical section of     *)
(* b.mu.  The bulk operations hold shard locks over several actions.       *)
(*                                                                         *)
(* What an operation does to a buffer is BufferOps' business; counter      *)
(* values and time stand still here (ScopeBuffer has them).                *)
(***************************************************************************)
EXTENDS BufferOps, FiniteSets

CONSTANTS
    Procs,                \* concurrent callers
    NumScopes,            \* scope names are 1..NumScopes
    NumReserved,          \* the first of them are reserved (_events, _inbox)
    NumShards, ShardOf,   \* shards are 1..NumShards, each scope hashes to one
    NumBufs,              \* addresses of scopeBuffer objects are 1..NumBufs
    NoBuf,                \* the nil pointer
    Free,                 \* no caller holds the shard's write lock
    ScopeBufferOverhead,  \* bytes charged per scope
    DefaultMaxItems,      \* item cap of a user scope
    MaxStoreBytes,        \* store-wide byte cap
    Calls,                \* the calls a caller may make
    MaxCalls              \* bound: calls of all callers together

Scopes == 1..NumScopes
Reserved == 1..NumReserved
UserScopes == (NumReserved + 1)..NumScopes
Shards == 1..NumShards
BufIds == 1..NumBufs

CreatingOps == {"append", "upsert", "counter_add"}
ItemOps == CreatingOps \cup {"update", "delete", "delete_up_to"}

\* The last conjunct is Config.WithDefaults: the reserved scopes always fit.
ASSUME StoreAssumption ==
    /\ NumScopes \in Nat /\ NumReserved \in Nat /\ NumShards \in Nat \ {0} /\ NumBufs \in Nat
    /\ NumReserved <= NumScopes
    /\ IsFiniteSet(Procs) /\ NumBufs >= NumScopes + Cardinality(Procs)
    /\ ShardOf \in [Scopes -> Shards]
    /\ NoBuf \notin Nat /\ Free \notin Procs
    /\ ScopeBufferOverhead \in Nat /\ DefaultMaxItems \in Nat
    /\ MaxCalls \in Nat /\ MaxStoreBytes \in Nat
    /\ MaxStoreBytes >= ScopeBufferOverhead * NumReserved

\* What validation lets through: reserved scopes take /append and deletes of
\* items only, /upsert, /update and /counter_add name an id, a batch has no
\* duplicate ids.  A /warm of no scope changes nothing and is left out.
ASSUME CallsAssumption ==
    /\ Cells # {}
    /\ \A c \in Calls :
        \/ c.op = "append" /\ c.scope \in Scopes /\ c.in \in Input
        \/ c.op \in {"delete", "delete_up_to"} /\ c.scope \in Scopes /\ c.seq \in Nat
        \/ /\ c.op \in {"upsert", "update", "counter_add"} /\ c.scope \in UserScopes
           /\ c.in \in Input /\ c.in.id # NoId
        \/ c.op = "delete_scope" /\ c.scope \in UserScopes
        \/ /\ c.op \in {"warm", "rebuild"} /\ DOMAIN c.batch \subseteq UserScopes
           /\ c.op = "warm" => DOMAIN c.batch # {}
           /\ \A s \in DOMAIN c.batch :
                c.batch[s] \in Seq(Input) /\ ~DuplicateIds(c.batch[s])
        \/ c.op = "wipe"

VARIABLES
    scopes,      \* the shards' maps together: scope -> buffer or NoBuf
    bufs,        \* the scopeBuffer objects
    lock,        \* shard -> the caller that holds its write lock, or Free
    totalBytes, totalItems, scopeCount,   \* the store's atomic counters
    at,          \* where each caller is
    call,        \* the call it is making
    calls, warms,\* calls started so far, and how many of them were /warm
    ptr,         \* the buffer pointer it holds
    created,     \* its getOrCreate allocated that buffer
    todo,        \* shards or scopes its current bulk phase has left
    old,         \* /warm: scope -> its snapshot of b.bytes
    newScopes    \* /warm: scopes it has created, not yet in scopeCount

counters == <<totalBytes, totalItems, scopeCount>>
local == <<at, call, calls, warms, ptr, created, todo, old, newScopes>>
vars == <<scopes, bufs, lock, counters, local>>

NoCall == [op |-> "none"]
NoSnapshot == [s \in Scopes |-> 0]
\* _events is unbounded, user scopes have the default cap.
maxItemsFor(s) == IF s \in Reserved THEN 0 ELSE DefaultMaxItems

\* newStore: the reserved scopes exist before the first call.
Init ==
    /\ scopes = [s \in Scopes |-> IF s \in Reserved THEN s ELSE NoBuf]
    /\ bufs = [k \in BufIds |-> newscopeBuffer(0, 0)]
    /\ lock = [h \in Shards |-> Free]
    /\ totalBytes = ScopeBufferOverhead * NumReserved
    /\ totalItems = 0 /\ scopeCount = NumReserved
    /\ at = [p \in Procs |-> "idle"] /\ call = [p \in Procs |-> NoCall]
    /\ calls = 0 /\ warms = 0 /\ ptr = [p \in Procs |-> NoBuf]
    /\ created = [p \in Procs |-> FALSE] /\ todo = [p \in Procs |-> {}]
    /\ old = [p \in Procs |-> NoSnapshot] /\ newScopes = [p \in Procs |-> 0]

-----------------------------------------------------------------------------
(* Shared parts. *)

\* Slip: compares the counter before the delta is added.
Slip_canReserve(delta) == delta <= 0 \/ totalBytes < MaxStoreBytes

\* store.reserveBytes.
canReserve(delta) == delta <= 0 \/ delta <= MaxStoreBytes - totalBytes

Mapped == {s \in Scopes : scopes[s] # NoBuf}
ShardFree(s) == lock[ShardOf[s]] = Free
Unlocked(p) == [h \in Shards |-> IF lock[h] = p THEN Free ELSE lock[h]]

\* An address that no caller holds, nor one of those given.
FreshBuf(taken) == CHOOSE k \in BufIds : k \notin taken /\ \A q \in Procs : ptr[q] # k

Goto(p, label) ==
    /\ at' = [at EXCEPT ![p] = label]
    /\ UNCHANGED <<call, calls, warms, ptr, created, todo, old, newScopes>>

\* Enter a phase that works through a set of shards or scopes.
GotoWith(p, label, set) ==
    /\ at' = [at EXCEPT ![p] = label]
    /\ todo' = [todo EXCEPT ![p] = set]
    /\ UNCHANGED <<call, calls, warms, ptr, created, old, newScopes>>

\* The call returns and its locals are gone.
Return(p) ==
    /\ at' = [at EXCEPT ![p] = "idle"]
    /\ call' = [call EXCEPT ![p] = NoCall]
    /\ ptr' = [ptr EXCEPT ![p] = NoBuf]
    /\ created' = [created EXCEPT ![p] = FALSE]
    /\ todo' = [todo EXCEPT ![p] = {}]
    /\ old' = [old EXCEPT ![p] = NoSnapshot]
    /\ newScopes' = [newScopes EXCEPT ![p] = 0]
    /\ UNCHANGED <<calls, warms>>

\* Sums over all scopes; scope names are 1..NumScopes.
Over(f) == SeqSum(f)

-----------------------------------------------------------------------------
(* Calls begin. *)

batchBytes(batch, s) == sumItemBytes(replacementItems(batch[s], 0))

\* rebuildAll's cap check, on the new total and the reserved scopes.
rebuildFits(batch) ==
    Over([s \in Scopes |-> IF s \in DOMAIN batch
                           THEN batchBytes(batch, s) + ScopeBufferOverhead ELSE 0])
      + ScopeBufferOverhead * NumReserved <= MaxStoreBytes

firstStep(c) ==
    IF c.op \in ItemOps THEN "lookup"
    ELSE IF c.op = "delete_scope" THEN "unlink" ELSE "lock"

shardsForScopes(S) == {ShardOf[s] : s \in S}

\* The shards a call locks for writing over several steps.
shardsToLock(c) ==
    IF c.op \in {"wipe", "rebuild"} THEN Shards
    ELSE IF c.op = "warm" THEN shardsForScopes(DOMAIN c.batch) ELSE {}

Start(p, c) ==
    /\ at[p] = "idle" /\ calls < MaxCalls
    /\ c.op = "rebuild" => rebuildFits(c.batch)
    /\ calls' = calls + 1
    /\ warms' = warms + (IF c.op = "warm" THEN 1 ELSE 0)
    /\ call' = [call EXCEPT ![p] = c]
    /\ at' = [at EXCEPT ![p] = firstStep(c)]
    /\ todo' = [todo EXCEPT ![p] = shardsToLock(c)]
    /\ UNCHANGED <<scopes, bufs, lock, counters, ptr, created, old, newScopes>>

-----------------------------------------------------------------------------
(* Single-scope calls. *)

\* The brief shared lock of getScope and of getOrCreateScope's fast path.
lookup(p) ==
    LET s == call[p].scope IN
    /\ at[p] = "lookup" /\ ShardFree(s)
    /\ \/ /\ scopes[s] # NoBuf
          /\ at' = [at EXCEPT ![p] = "operate"]
          /\ ptr' = [ptr EXCEPT ![p] = scopes[s]]
          /\ UNCHANGED <<call, calls, warms, created, todo, old, newScopes>>
       \/ scopes[s] = NoBuf /\ call[p].op \in CreatingOps /\ Goto(p, "create")
       \/ scopes[s] = NoBuf /\ call[p].op \notin CreatingOps /\ Return(p)
    /\ UNCHANGED <<scopes, bufs, lock, counters>>

\* getOrCreateScopeTrackingCreated under the exclusive lock: look again,
\* reserve the overhead, insert.
getOrCreateScope(p) ==
    LET s == call[p].scope
        k == FreshBuf({scopes[t] : t \in Scopes})
        found == scopes[s] # NoBuf
    IN  /\ at[p] = "create" /\ ShardFree(s)
        /\ \/ /\ ~found /\ ~canReserve(ScopeBufferOverhead) /\ Return(p)
              /\ UNCHANGED <<scopes, bufs, counters>>
           \/ /\ found \/ canReserve(ScopeBufferOverhead)
              /\ at' = [at EXCEPT ![p] = "operate"]
              /\ ptr' = [ptr EXCEPT ![p] = IF found THEN scopes[s] ELSE k]
              /\ created' = [created EXCEPT ![p] = ~found]
              /\ IF found THEN UNCHANGED <<scopes, bufs, counters>>
                 ELSE /\ bufs' = [bufs EXCEPT ![k] = newscopeBuffer(DefaultMaxItems, 0)]
                      /\ scopes' = [scopes EXCEPT ![s] = k]
                      /\ totalBytes' = totalBytes + ScopeBufferOverhead
                      /\ scopeCount' = scopeCount + 1
                      /\ UNCHANGED totalItems
              /\ UNCHANGED <<call, calls, warms, todo, old, newScopes>>
        /\ UNCHANGED lock

HasId(b, c) == c.in.id \in DOMAIN b.byID
IndexOf(b, item) == SearchAtLeast(b.items, item.seq)
sizeDelta(old1, new1) == approxItemSize(new1) - approxItemSize(old1)

Inserts(b, c) ==
    c.op = "append" \/ (c.op \in {"upsert", "counter_add"} /\ ~HasId(b, c))

\* The buffer after the call, when it is not refused.
afterCall(b, c) ==
    IF Inserts(b, c) THEN
        IF c.op = "counter_add"
        THEN insertItem(b, counterItem(b, c.in.id, CHOOSE k \in Cells : TRUE, 0))
        ELSE insertNewItemLocked(b, c.in, 0)
    ELSE IF c.op \in {"upsert", "update"} /\ HasId(b, c) THEN
        LET x == b.byID[c.in.id] IN
        replaceItemAtIndexLocked(b, IndexOf(b, x), c.in.payload, 0,
                                 sizeDelta(x, replacedItem(x, c.in.payload, 0)))
    ELSE IF c.op = "counter_add" /\ b.byID[c.in.id].counter = NoCell THEN
        LET x == b.byID[c.in.id]
            cell == CHOOSE k \in Cells : TRUE IN
        promoteAt(b, IndexOf(b, x), x, cell, sizeDelta(x, promotedItem(x, cell)))
    ELSE IF c.op = "delete" /\ c.seq \in DOMAIN b.bySeq THEN
        deleteIndexLocked(b, IndexOf(b, b.bySeq[c.seq]), 0)
    ELSE IF c.op = "delete_up_to" THEN deletePrefix(b, SearchAbove(b.items, c.seq) - 1, 0)
    ELSE b

Refused(b, c) ==
    \/ b.detached
    \/ Inserts(b, c) /\ itemCapExceeded(b, Len(b.items) + 1)
    \/ c.op = "append" /\ c.in.id # NoId /\ HasId(b, c)
    \/ c.op = "counter_add" /\ HasId(b, c) /\ b.byID[c.in.id].counter = NoCell
         /\ PayloadInt[b.byID[c.in.id].payload] = NotInt
    \/ ~canReserve(afterCall(b, c).bytes - b.bytes)

\* The call's critical section of b.mu, on the pointer it looked up.
operate(p) ==
    LET k == ptr[p]
        b == bufs[k]
        c == call[p]
        after == afterCall(b, c)
    IN  /\ at[p] = "operate"
        /\ \/ /\ Refused(b, c)
              /\ \/ created[p] /\ Goto(p, "cleanup")
                 \/ ~created[p] /\ Return(p)
              /\ UNCHANGED <<bufs, counters>>
           \/ /\ ~Refused(b, c)
              /\ bufs' = [bufs EXCEPT ![k] = after]
              /\ totalBytes' = totalBytes + (after.bytes - b.bytes)
              /\ totalItems' = totalItems + (Len(after.items) - Len(b.items))
              /\ UNCHANGED scopeCount
              /\ Return(p)
        /\ UNCHANGED <<scopes, lock>>

RollBack(s, k) ==
    /\ scopes' = [scopes EXCEPT ![s] = NoBuf]
    /\ bufs' = [bufs EXCEPT ![k].detached = TRUE]
    /\ totalBytes' = totalBytes - ScopeBufferOverhead
    /\ scopeCount' = scopeCount - 1
    /\ UNCHANGED totalItems

\* Slip: rolls back whatever is mapped under the name.
Slip_cleanupOther(p) ==
    LET s == call[p].scope
        k == ptr[p]
    IN  /\ at[p] = "cleanup" /\ ShardFree(s)
        /\ IF bufs[k].items = <<>> THEN RollBack(s, k) ELSE UNCHANGED <<scopes, bufs, counters>>
        /\ Return(p)
        /\ UNCHANGED lock

\* Roll back the scope this call created for a write that was then refused:
\* only if it is still the mapped one and nobody else has filled it.
cleanupIfEmptyAndUnused(p) ==
    LET s == call[p].scope
        k == ptr[p]
    IN  /\ at[p] = "cleanup" /\ ShardFree(s)
        /\ IF scopes[s] = k /\ bufs[k].items = <<>>
           THEN RollBack(s, k)
           ELSE UNCHANGED <<scopes, bufs, counters>>
        /\ Return(p)
        /\ UNCHANGED lock

deleteScope(p) ==
    LET s == call[p].scope
        k == scopes[s]
    IN  /\ at[p] = "unlink" /\ ShardFree(s)
        /\ IF k = NoBuf THEN UNCHANGED <<scopes, bufs, counters>>
           ELSE /\ scopes' = [scopes EXCEPT ![s] = NoBuf]
                /\ bufs' = [bufs EXCEPT ![k].detached = TRUE]
                /\ totalBytes' = totalBytes - (bufs[k].bytes + ScopeBufferOverhead)
                /\ totalItems' = totalItems - Len(bufs[k].items)
                /\ scopeCount' = scopeCount - 1
        /\ Return(p)
        /\ UNCHANGED lock

-----------------------------------------------------------------------------
(* Bulk calls: /wipe, /rebuild and /warm. *)

\* Slip: /warm does not sort its shards.
Slip_nextShard(c, S) ==
    IF c.op = "warm" THEN CHOOSE h \in S : \A g \in S : g <= h
                     ELSE CHOOSE h \in S : \A g \in S : h <= g

\* lockAllShards and lockShards take the shards in ascending order.
nextShard(c, S) == CHOOSE h \in S : \A g \in S : h <= g

lockShards(p) ==
    LET h == nextShard(call[p], todo[p])
        rest == todo[p] \ {h}
    IN  /\ at[p] = "lock" /\ lock[h] = Free
        /\ lock' = [lock EXCEPT ![h] = p]
        /\ \/ rest # {} /\ GotoWith(p, "lock", rest)
           \/ /\ rest = {} /\ call[p].op = "warm"
              /\ GotoWith(p, "snapshot", DOMAIN call[p].batch)
           \/ /\ rest = {} /\ call[p].op # "warm"
              /\ GotoWith(p, "detach", Mapped)
        /\ UNCHANGED <<scopes, bufs, counters>>

\* Slip: the old buffers stay writable through old pointers.
Slip_detach(p) ==
    /\ at[p] = "detach"
    /\ \E s \in todo[p] : GotoWith(p, "detach", todo[p] \ {s})
    /\ UNCHANGED <<bufs, scopes, lock, counters>>

\* wipe and rebuildAll detach the old buffers one by one, each under its b.mu.
detach(p) ==
    /\ at[p] = "detach"
    /\ \E s \in todo[p] :
         /\ bufs' = [bufs EXCEPT ![scopes[s]].detached = TRUE]
         /\ GotoWith(p, "detach", todo[p] \ {s})
    /\ UNCHANGED <<scopes, lock, counters>>

\* The buffers of a batch, built off-side: rebuildAll does not set idKeyBytes.
rebuiltBuffer(items) ==
    [newscopeBuffer(DefaultMaxItems, 0) EXCEPT
        !.items = items, !.byID = MapByID(items), !.bySeq = MapBySeq(items),
        !.lastSeq = Len(items), !.bytes = sumItemBytes(items)]

\* Distinct addresses no caller holds, for the scopes of a new map.
newAddress(S) ==
    CHOOSE f \in [S -> {k \in BufIds : \A q \in Procs : ptr[q] # k}] :
        \A s, t \in S : s # t => f[s] # f[t]

\* Slip: the reserved scopes are gone until somebody re-creates them.
Slip_mapAfterSwap(batch) == DOMAIN batch

\* The scopes of the new map: initReservedScopesLocked adds the reserved ones.
mapAfterSwap(batch) == DOMAIN batch \cup Reserved

\* The last step of wipe (batch empty) and rebuildAll: new maps, counters
\* stored afresh, reserved scopes re-created, every shard released.
swapMaps(p, batch) ==
    LET names == mapAfterSwap(batch)
        addr == newAddress(names)
        fresh(s) == IF s \in Reserved THEN newscopeBuffer(maxItemsFor(s), 0)
                    ELSE rebuiltBuffer(replacementItems(batch[s], 0))
    IN  /\ at[p] = "detach" /\ todo[p] = {}
        /\ scopes' = [s \in Scopes |-> IF s \in names THEN addr[s] ELSE NoBuf]
        /\ bufs' = [k \in BufIds |->
              IF \E s \in names : addr[s] = k
              THEN fresh(CHOOSE s \in names : addr[s] = k) ELSE bufs[k]]
        /\ totalBytes' = Over([s \in Scopes |->
              (IF s \in names THEN ScopeBufferOverhead ELSE 0)
                + (IF s \in DOMAIN batch THEN batchBytes(batch, s) ELSE 0)])
        /\ totalItems' = Over([s \in Scopes |->
              IF s \in DOMAIN batch THEN Len(batch[s]) ELSE 0])
        /\ scopeCount' = Cardinality(names)
        /\ lock' = Unlocked(p)
        /\ Return(p)

wipe(p) == call[p].op = "wipe" /\ swapMaps(p, [s \in {} |-> s])
rebuildAll(p) == call[p].op = "rebuild" /\ swapMaps(p, call[p].batch)

\* replaceScopes, phase 1.5: snapshot each scope's bytes under its b.mu.
snapshot(p) ==
    /\ at[p] = "snapshot"
    /\ \E s \in todo[p] :
         /\ old' = [old EXCEPT ![p][s] =
                       IF scopes[s] = NoBuf THEN 0 ELSE bufs[scopes[s]].bytes]
         /\ todo' = [todo EXCEPT ![p] = @ \ {s}]
    /\ UNCHANGED <<scopes, bufs, lock, counters, at, call, calls, warms, ptr,
                   created, newScopes>>

\* What /warm must reserve for one scope of its batch.
planDelta(p, s) ==
    batchBytes(call[p].batch, s) - old[p][s]
      + (IF scopes[s] = NoBuf THEN ScopeBufferOverhead ELSE 0)

reserve(p) ==
    LET delta == Over([s \in Scopes |->
                         IF s \in DOMAIN call[p].batch THEN planDelta(p, s) ELSE 0])
    IN  /\ at[p] = "snapshot" /\ todo[p] = {}
        /\ \/ /\ canReserve(delta)
              /\ totalBytes' = totalBytes + delta
              /\ GotoWith(p, "commit", DOMAIN call[p].batch)
              /\ UNCHANGED lock
           \/ /\ ~canReserve(delta)
              /\ lock' = Unlocked(p)
              /\ Return(p)
              /\ UNCHANGED totalBytes
        /\ UNCHANGED <<scopes, bufs, totalItems, scopeCount>>

\* Slip: what old pointers wrote since the snapshot is never given back.
Slip_drift(p, s, b) == 0

\* What callers with an old pointer reserved (or released) since the snapshot.
drift(p, s, b) == b.bytes - old[p][s]

\* Phase 2, one scope: create it on demand, swap the content, give back the
\* drift since the snapshot.
commitScope(p) ==
    /\ at[p] = "commit"
    /\ \E s \in todo[p] :
         LET isNew == scopes[s] = NoBuf
             k == IF isNew THEN FreshBuf({scopes[t] : t \in Scopes}) ELSE scopes[s]
             b == IF isNew THEN newscopeBuffer(DefaultMaxItems, 0) ELSE bufs[k]
             items == replacementItems(call[p].batch[s], 0)
         IN  /\ bufs' = [bufs EXCEPT ![k] =
                            commitItems(b, items, batchBytes(call[p].batch, s), 0)]
             /\ scopes' = [scopes EXCEPT ![s] = k]
             /\ totalBytes' = totalBytes - drift(p, s, b)
             /\ totalItems' = totalItems + Len(items) - Len(b.items)
             /\ newScopes' = [newScopes EXCEPT ![p] = @ + (IF isNew THEN 1 ELSE 0)]
             /\ todo' = [todo EXCEPT ![p] = @ \ {s}]
    /\ UNCHANGED <<lock, scopeCount, at, call, calls, warms, ptr, created, old>>

replaceScopesDone(p) ==
    /\ at[p] = "commit" /\ todo[p] = {}
    /\ scopeCount' = scopeCount + newScopes[p]
    /\ lock' = Unlocked(p)
    /\ Return(p)
    /\ UNCHANGED <<scopes, bufs, totalBytes, totalItems>>

-----------------------------------------------------------------------------
Step(p) ==
    \/ lookup(p) \/ getOrCreateScope(p) \/ operate(p) \/ cleanupIfEmptyAndUnused(p)
    \/ deleteScope(p)
    \/ lockShards(p) \/ detach(p) \/ wipe(p) \/ rebuildAll(p)
    \/ snapshot(p) \/ reserve(p) \/ commitScope(p) \/ replaceScopesDone(p)

\* All callers have made their calls (so that a stop anywhere else shows up as
\* a deadlock).
Finished ==
    /\ calls = MaxCalls /\ \A p \in Procs : at[p] = "idle"
    /\ UNCHANGED vars

Next ==
    \/ \E p \in Procs, c \in Calls : Start(p, c)
    \/ \E p \in Procs : Step(p)
    \/ Finished

Spec == Init /\ [][Next]_vars

\* A started call keeps running; starting one is the client's choice.
FairSpec == Spec /\ \A p \in Procs : WF_vars(Step(p))

-----------------------------------------------------------------------------
(* Properties. *)

\* A pointer a caller still holds is either detached, so that a write through it
\* is refused, or it is the buffer mapped under its name: an acknowledged write
\* never lands in a buffer no reader can reach.
NoOrphanWrites ==
    \A p \in Procs : ptr[p] # NoBuf =>
        bufs[ptr[p]].detached \/ scopes[call[p].scope] = ptr[p]

\* Bytes /warm has reserved for the scopes it has not committed yet.
pendingBytes(p) ==
    IF at[p] # "commit" THEN 0
    ELSE Over([s \in Scopes |-> IF s \in todo[p] THEN planDelta(p, s) ELSE 0])

SumOverProcs(f) == IF Procs = {} THEN 0 ELSE
    LET n == Cardinality(Procs)
        order == CHOOSE o \in [1..n -> Procs] : \A i, j \in 1..n : i # j => o[i] # o[j]
    IN  SeqSum([i \in 1..n |-> f[order[i]]])

\* totalBytes is the sum of every mapped scope's bytes and overhead plus what a
\* /warm holds in reserve; totalItems and scopeCount agree with the maps (a
\* /warm adds its new scopes to scopeCount at its end): through every race of
\* writers with old pointers, roll-backs, deletes, wipes and rebuilds.
CountersAccounted ==
    /\ totalBytes =
          Over([s \in Scopes |-> IF scopes[s] = NoBuf THEN 0
                                 ELSE bufs[scopes[s]].bytes + ScopeBufferOverhead])
            + SumOverProcs([p \in Procs |-> pendingBytes(p)])
    /\ totalItems = Over([s \in Scopes |-> IF scopes[s] = NoBuf THEN 0
                                           ELSE Len(bufs[scopes[s]].items)])
    /\ scopeCount + SumOverProcs([p \in Procs |-> newScopes[p]]) = Cardinality(Mapped)

\* The reserved scopes exist in every state a lookup can see.
ReservedPresent == \A s \in Reserved : ShardFree(s) => scopes[s] # NoBuf

\* Until a /warm is among the calls the byte cap is never exceeded, whatever is
\* created, rolled back, wiped or rebuilt at the same time.
WithinCapWithoutWarm == warms = 0 => totalBytes <= MaxStoreBytes

\* b.idKeyBytes is the sum of the id lengths of the buffer's items.
IdKeyBytesExact ==
    \A s \in Mapped : bufs[scopes[s]].idKeyBytes = sumIdBytes(bufs[scopes[s]].items)

\* Every call returns: no deadlock over shard locks and no endless wait.
CallsReturn == \A p \in Procs : at[p] # "idle" ~> at[p] = "idle"
=============================================================================
