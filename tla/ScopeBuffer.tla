---------------------------- MODULE ScopeBuffer ----------------------------
(***************************************************************************)
(* One scopeBuffer of the cache, used by any number of callers that hold a *)
(* pointer to it, and the store-wide counters it keeps in step.            *)
(*                                                                         *)
(* Each operation runs under the buffer's mutex, so it is one action.  Two *)
(* things are not one critical section and are split: a /warm of this      *)
(* scope snapshots b.bytes and reserves, and commits later (the shard lock *)
(* keeps new callers out, not the ones that already hold the pointer); and *)
(* other scopes move the shared byte counter at any time (otherScopes).    *)
(* The per-scope overhead is charged to `others'.  A client may read the   *)
(* scope's row of /scopelist (Poll) and keep what it saw.                  *)
(***************************************************************************)
EXTENDS BufferOps, FiniteSets

CONSTANTS
    MaxItems,         \* per-scope item cap, 0 = unbounded
    MaxStoreBytes,    \* store-wide byte cap
    MaxItemBytes,     \* per-item byte cap
    MaxCounterValue,  \* counters stay within +-MaxCounterValue
    Increments,       \* `by' values a client may send, never 0
    WarmInputs,       \* item lists a /warm may carry for this scope
    OtherDeltas,      \* byte deltas of writes to other scopes
    MaxSeq,           \* bound: no more items once lastSeq reaches it
    MaxNow,           \* bound: the readings of the clock are 1..MaxNow
    MaxWarms          \* bound: number of /warm batches

InRange(n) == -MaxCounterValue <= n /\ n <= MaxCounterValue

\* validateWriteItem's size check, on the item as the client sent it.
checkItemSize(in) ==
    ItemOverhead + IdLen[in.id] + PayloadBytes[in.payload] <= MaxItemBytes

ASSUME BufferAssumption ==
    /\ MaxItems \in Nat /\ MaxStoreBytes \in Nat /\ MaxItemBytes \in Nat
    /\ MaxCounterValue \in Nat
    /\ Increments \subseteq {n \in Int : n # 0 /\ InRange(n)}
    /\ \A p \in Payloads : PayloadInt[p] # NotInt => InRange(PayloadInt[p])
    /\ OtherDeltas \subseteq Int
    /\ MaxSeq \in Nat /\ MaxNow \in Nat \ {0} /\ MaxWarms \in Nat
    /\ \A w \in WarmInputs :
         /\ w \in Seq(Input) /\ ~DuplicateIds(w)
         /\ \A i \in 1..Len(w) : checkItemSize(w[i])
         /\ MaxItems > 0 => Len(w) <= MaxItems

VARIABLES
    b,           \* the scopeBuffer
    cells,       \* the heap of counter cells: Cells -> [value, ts]
    totalBytes,  \* store.totalBytes
    totalItems,  \* store.totalItems (this scope's part)
    storeTS,     \* store.lastWriteTS
    others,      \* bytes the rest of the store has reserved
    plan,        \* the /warm batch between its reservation and its commit
    warms,       \* number of /warm batches so far
    now,         \* the wall clock; it may be set back
    polled,      \* history: the scope's stamp and regular items at the last Poll
    res          \* reply of the last call

vars == <<b, cells, totalBytes, totalItems, storeTS, others, plan, warms, now,
          polled, res>>

EmptyCell == [value |-> 0, ts |-> 0]
NoPlan == [items |-> <<>>, newBytes |-> 0, oldBytes |-> 0, pending |-> FALSE]
NoPoll == [held |-> FALSE, ts |-> 0, items |-> {}]

Init ==
    /\ b = newscopeBuffer(MaxItems, 1)
    /\ cells = [c \in Cells |-> EmptyCell]
    /\ totalBytes = 0 /\ totalItems = 0 /\ storeTS = 0 /\ others = 0
    /\ plan = NoPlan /\ warms = 0
    /\ now = 1 /\ polled = NoPoll
    /\ res = [op |-> "none", err |-> "none", n |-> 0, created |-> FALSE]

-----------------------------------------------------------------------------
(* Shared parts of the operations. *)

\* Slip: compares the counter before the delta is added.
Slip_canReserve(delta) == delta <= 0 \/ totalBytes < MaxStoreBytes

\* store.reserveBytes: a release always succeeds, a reservation only within
\* the cap.
canReserve(delta) == delta <= 0 \/ delta <= MaxStoreBytes - totalBytes

bumpLastWriteTS(ts) == storeTS' = IF ts > storeTS THEN ts ELSE storeTS

Reply(op, n, created) ==
    res' = [op |-> op, err |-> "none", n |-> n, created |-> created]

Refuse(op, err) ==
    /\ res' = [op |-> op, err |-> err, n |-> 0, created |-> FALSE]
    /\ UNCHANGED <<b, cells, totalBytes, totalItems, storeTS>>

Miss(op) ==
    /\ Reply(op, 0, FALSE)
    /\ UNCHANGED <<b, cells, totalBytes, totalItems, storeTS>>

\* Cells some copy of an item still points to.
UsedCells(buf) ==
    {buf.items[i].counter : i \in DOMAIN buf.items}
        \cup {buf.byID[k].counter : k \in DOMAIN buf.byID}
        \cup {buf.bySeq[s].counter : s \in DOMAIN buf.bySeq}

\* The heap after buf became the buffer: unreachable cells are collected.
Collected(heap, buf) ==
    [c \in Cells |-> IF c \in UsedCells(buf) THEN heap[c] ELSE EmptyCell]

Commit(buf, heap, deltaBytes, deltaItems) ==
    /\ b' = buf
    /\ cells' = Collected(heap, buf)
    /\ totalBytes' = totalBytes + deltaBytes
    /\ totalItems' = totalItems + deltaItems

BufferCall == UNCHANGED <<others, plan, warms, now, polled>>

-----------------------------------------------------------------------------
(* Appends, upserts, updates. *)

appendRefusal(in) ==
    IF b.detached THEN "detached"
    ELSE IF itemCapExceeded(b, Len(b.items) + 1) THEN "scope_full"
    ELSE IF in.id # NoId /\ in.id \in DOMAIN b.byID THEN "duplicate"
    ELSE IF ~canReserve(approxItemSize(newItem(b, in, now))) THEN "store_full"
    ELSE "none"

InsertNew(in) ==
    /\ b.lastSeq < MaxSeq
    /\ Commit(insertNewItemLocked(b, in, now), cells,
              approxItemSize(newItem(b, in, now)), 1)
    /\ bumpLastWriteTS(now)

appendItem(in) ==
    /\ checkItemSize(in)
    /\ \/ appendRefusal(in) # "none" /\ Refuse("append", appendRefusal(in))
       \/ /\ appendRefusal(in) = "none"
          /\ InsertNew(in)
          /\ Reply("append", b.lastSeq + 1, TRUE)
    /\ BufferCall

\* Slip: takes a counter-shaped item for one with an empty payload.
Slip_payloadDelta(existing, payload) ==
    PayloadBytes[payload] - PayloadBytes[existing.payload]

\* The size change of giving `existing' a payload.
payloadDelta(existing, payload) ==
    PayloadBytes[payload] - payloadAndRenderBytes(existing)

ReplacePayload(existing, payload) ==
    LET i == SearchAtLeast(b.items, existing.seq)
        delta == payloadDelta(existing, payload)
    IN  /\ Commit(replaceItemAtIndexLocked(b, i, payload, now, delta), cells, delta, 0)
        /\ bumpLastWriteTS(now)

upsertByID(in) ==
    /\ in.id # NoId /\ checkItemSize(in)
    /\ \/ b.detached /\ Refuse("upsert", "detached")
       \/ /\ ~b.detached /\ in.id \in DOMAIN b.byID
          /\ LET existing == b.byID[in.id] IN
             \/ ~canReserve(payloadDelta(existing, in.payload)) /\ Refuse("upsert", "store_full")
             \/ /\ canReserve(payloadDelta(existing, in.payload))
                /\ ReplacePayload(existing, in.payload)
                /\ Reply("upsert", existing.seq, FALSE)
       \/ /\ ~b.detached /\ in.id \notin DOMAIN b.byID
          /\ \/ appendRefusal(in) # "none" /\ Refuse("upsert", appendRefusal(in))
             \/ /\ appendRefusal(in) = "none"
                /\ InsertNew(in)
                /\ Reply("upsert", b.lastSeq + 1, TRUE)
    /\ BufferCall

\* The common tail of updateByID and updateBySeq.
UpdateExisting(existing, payload) ==
    \/ ~canReserve(payloadDelta(existing, payload)) /\ Refuse("update", "store_full")
    \/ /\ canReserve(payloadDelta(existing, payload))
       /\ ReplacePayload(existing, payload)
       /\ Reply("update", 1, FALSE)

updateByID(id, payload) ==
    /\ checkItemSize([id |-> id, payload |-> payload])
    /\ \/ b.detached /\ Refuse("update", "detached")
       \/ ~b.detached /\ id \notin DOMAIN b.byID /\ Miss("update")
       \/ ~b.detached /\ id \in DOMAIN b.byID /\ UpdateExisting(b.byID[id], payload)
    /\ BufferCall

\* Slip: no second check, the request's own size was within the cap.
Slip_exceedsItemCap(existing, payload) ==
    ~checkItemSize([id |-> NoId, payload |-> payload])

\* The body carries no id, so the size is checked again on the stored item.
exceedsItemCap(existing, payload) ==
    approxItemSize(replacedItem(existing, payload, now)) > MaxItemBytes

updateBySeq(seq, payload) ==
    /\ checkItemSize([id |-> NoId, payload |-> payload])
    /\ \/ b.detached /\ Refuse("update", "detached")
       \/ ~b.detached /\ seq \notin DOMAIN b.bySeq /\ Miss("update")
       \/ /\ ~b.detached /\ seq \in DOMAIN b.bySeq
          /\ \/ exceedsItemCap(b.bySeq[seq], payload) /\ Refuse("update", "too_large")
             \/ /\ ~exceedsItemCap(b.bySeq[seq], payload)
                /\ UpdateExisting(b.bySeq[seq], payload)
    /\ BufferCall

-----------------------------------------------------------------------------
(* Counters. *)

\* atomicCounterAdd: the CAS loop as one step (value, then ts by CAS-max).
atomicCounterAdd(cell, by) ==
    LET next == cells[cell].value + by IN
    \/ ~InRange(next) /\ Refuse("counter_add", "overflow")
    \/ /\ InRange(next)
       /\ cells' = [cells EXCEPT
             ![cell] = [value |-> next, ts |-> IF now > @.ts THEN now ELSE @.ts]]
       /\ Reply("counter_add", next, FALSE)
       /\ UNCHANGED <<b, totalBytes, totalItems, storeTS>>

\* Bound: a cell is allocated only while Cells has an unused address.
HeapHasRoom == ~(Cells \subseteq UsedCells(b))

\* A new cell object, loaded with a value at the current time.
FreshCell == CHOOSE c \in Cells : c \notin UsedCells(b)
WithCell(cell, value) == [cells EXCEPT ![cell] = [value |-> value, ts |-> now]]

promote(existing, by) ==
    LET current == PayloadInt[existing.payload]
        newSize == approxItemSize(promotedItem(existing, FreshCell))
        delta == newSize - approxItemSize(existing)
        i == SearchAtLeast(b.items, existing.seq)
    IN  \/ current = NotInt /\ Refuse("counter_add", "not_a_counter")
        \/ current # NotInt /\ ~InRange(current + by) /\ Refuse("counter_add", "overflow")
        \/ /\ current # NotInt /\ InRange(current + by)
           /\ \/ ~canReserve(delta) /\ Refuse("counter_add", "store_full")
              \/ /\ canReserve(delta)
                 /\ Commit(promoteAt(b, i, existing, FreshCell, delta),
                           WithCell(FreshCell, current + by), delta, 0)
                 /\ Reply("counter_add", current + by, FALSE)
                 /\ UNCHANGED storeTS

createCounter(id, by) ==
    LET item == counterItem(b, id, FreshCell, now)
        size == approxItemSize(item)
    IN  \/ itemCapExceeded(b, Len(b.items) + 1) /\ Refuse("counter_add", "scope_full")
        \/ /\ ~itemCapExceeded(b, Len(b.items) + 1)
           /\ \/ ~canReserve(size) /\ Refuse("counter_add", "store_full")
              \/ /\ canReserve(size) /\ b.lastSeq < MaxSeq
                 /\ Commit(insertItem(b, item), WithCell(FreshCell, by), size, 1)
                 /\ Reply("counter_add", by, TRUE)
                 /\ UNCHANGED storeTS

\* The path under the exclusive lock.  A caller reaches it after it saw no
\* cell under the shared lock; anything may have happened in between.
counterAddSlow(id, by) ==
    \/ b.detached /\ Refuse("counter_add", "detached")
    \/ /\ ~b.detached /\ id \in DOMAIN b.byID
       /\ LET existing == b.byID[id] IN
          \/ existing.counter # NoCell /\ atomicCounterAdd(existing.counter, by)
          \/ existing.counter = NoCell /\ HeapHasRoom /\ promote(existing, by)
    \/ /\ ~b.detached /\ id \notin DOMAIN b.byID
       /\ HeapHasRoom
       /\ createCounter(id, by)

\* The shared-lock path hits a cell, or falls through to the slow path.
counterAdd(id, by) ==
    /\ ItemOverhead + IdLen[id] + CounterCellOverhead <= MaxItemBytes
    /\ \/ /\ ~b.detached /\ id \in DOMAIN b.byID
          /\ b.byID[id].counter # NoCell
          /\ atomicCounterAdd(b.byID[id].counter, by)
       \/ counterAddSlow(id, by)
    /\ BufferCall

-----------------------------------------------------------------------------
(* Deletes. *)

DeleteItem(seq) ==
    LET i == SearchAtLeast(b.items, seq) IN
    /\ Commit(deleteIndexLocked(b, i, now), cells, -approxItemSize(b.items[i]), -1)
    /\ bumpLastWriteTS(now)
    /\ Reply("delete", 1, FALSE)

deleteByID(id) ==
    /\ \/ b.detached /\ Refuse("delete", "detached")
       \/ ~b.detached /\ id \notin DOMAIN b.byID /\ Miss("delete")
       \/ ~b.detached /\ id \in DOMAIN b.byID /\ DeleteItem(b.byID[id].seq)
    /\ BufferCall

deleteBySeq(seq) ==
    /\ \/ b.detached /\ Refuse("delete", "detached")
       \/ ~b.detached /\ seq \notin DOMAIN b.bySeq /\ Miss("delete")
       \/ ~b.detached /\ seq \in DOMAIN b.bySeq /\ DeleteItem(seq)
    /\ BufferCall

deleteUpToSeq(maxSeq) ==
    LET n == SearchAbove(b.items, maxSeq) - 1 IN
    /\ \/ b.detached /\ Refuse("delete_up_to", "detached")
       \/ ~b.detached /\ n = 0 /\ Miss("delete_up_to")
       \/ /\ ~b.detached /\ n > 0
          /\ Commit(deletePrefix(b, n, now), cells,
                    -sumItemBytes(SubSeq(b.items, 1, n)), -n)
          /\ bumpLastWriteTS(now)
          /\ Reply("delete_up_to", n, FALSE)
    /\ BufferCall

-----------------------------------------------------------------------------
(* Whole-scope operations of the store, as this scope sees them. *)

\* replaceScopes, phases 1 and 1.5: build the items, snapshot b.bytes,
\* reserve the difference.
warmReserve(inputs) ==
    LET items == replacementItems(inputs, now)
        newBytes == sumItemBytes(items)
    IN  /\ ~b.detached /\ ~plan.pending /\ warms < MaxWarms
        /\ warms' = warms + 1
        /\ \/ /\ ~canReserve(newBytes - b.bytes)
              /\ Refuse("warm", "store_full")
              /\ UNCHANGED plan
           \/ /\ canReserve(newBytes - b.bytes)
              /\ totalBytes' = totalBytes + (newBytes - b.bytes)
              /\ plan' = [items |-> items, newBytes |-> newBytes,
                          oldBytes |-> b.bytes, pending |-> TRUE]
              /\ UNCHANGED <<b, cells, totalItems, storeTS, res>>
        /\ UNCHANGED <<others, now, polled>>

\* Slip: keeps what concurrent writers reserved since the snapshot.
Slip_commitReplacementPreReserved ==
    /\ plan.pending
    /\ Commit(commitItems(b, plan.items, plan.newBytes, now), cells,
              0, Len(plan.items) - Len(b.items))
    /\ bumpLastWriteTS(now)
    /\ Reply("warm", Len(plan.items), FALSE)
    /\ plan' = NoPlan
    /\ UNCHANGED <<others, warms, now, polled>>

\* replaceScopes, phase 2: swap the content, give back the drift.
commitReplacementPreReserved ==
    /\ plan.pending
    /\ Commit(commitItems(b, plan.items, plan.newBytes, now), cells,
              -(b.bytes - plan.oldBytes), Len(plan.items) - Len(b.items))
    /\ bumpLastWriteTS(now)
    /\ Reply("warm", Len(plan.items), FALSE)
    /\ plan' = NoPlan
    /\ UNCHANGED <<others, warms, now, polled>>

\* deleteScope, on this buffer: the shard lock excludes a /warm.
deleteScope ==
    /\ ~b.detached /\ ~plan.pending
    /\ b' = [b EXCEPT !.detached = TRUE]
    /\ totalBytes' = totalBytes - b.bytes
    /\ totalItems' = totalItems - Len(b.items)
    /\ bumpLastWriteTS(now)
    /\ Reply("delete_scope", Len(b.items), FALSE)
    /\ UNCHANGED <<cells, others, plan, warms, now, polled>>

\* Writes and deletes on other scopes share the byte counter.
otherScopes(delta) ==
    /\ canReserve(delta) /\ others + delta >= 0
    /\ others' = others + delta
    /\ totalBytes' = totalBytes + delta
    /\ UNCHANGED <<b, cells, totalItems, storeTS, plan, warms, now, polled, res>>

\* Time passes, or the clock is set back.  A poll means something as long as the
\* clock stays past the stamp it saw.
Tick ==
    /\ \E t \in 1..MaxNow \ {now} : now' = t
    /\ polled' = IF now' > polled.ts THEN polled ELSE NoPoll
    /\ UNCHANGED <<b, cells, totalBytes, totalItems, storeTS, others, plan, warms, res>>

\* The content last_write_ts speaks for: counters are silent by design.
Content(item) == [seq |-> item.seq, id |-> item.id, payload |-> item.payload]
RegularContent(items) ==
    {Content(items[i]) : i \in {j \in 1..Len(items) : items[j].counter = NoCell}}

\* A client reads the scope's row, later than the stamp in it, and has the
\* regular items as they are at that time.
Poll ==
    /\ now > b.lastWriteTS
    /\ polled' = [held |-> TRUE, ts |-> b.lastWriteTS, items |-> RegularContent(b.items)]
    /\ UNCHANGED <<b, cells, totalBytes, totalItems, storeTS, others, plan, warms, now, res>>

-----------------------------------------------------------------------------
Seqs == 1..MaxSeq

Next ==
    \/ \E in \in Input : appendItem(in) \/ upsertByID(in)
    \/ \E id \in Ids, p \in Payloads : updateByID(id, p)
    \/ \E s \in Seqs, p \in Payloads : updateBySeq(s, p)
    \/ \E id \in Ids, by \in Increments : counterAdd(id, by)
    \/ \E id \in Ids : deleteByID(id)
    \/ \E s \in Seqs : deleteBySeq(s) \/ deleteUpToSeq(s)
    \/ \E w \in WarmInputs : warmReserve(w)
    \/ commitReplacementPreReserved
    \/ deleteScope
    \/ \E d \in OtherDeltas : otherScopes(d)
    \/ Tick \/ Poll

Spec == Init /\ [][Next]_vars
-----------------------------------------------------------------------------
(* Properties. *)

\* Types of the variables; b.items is a sequence of well-formed items and the
\* maps hold items under ids and seqs.
TypeOK ==
    /\ b.items \in Seq(Item)
    /\ DOMAIN b.byID \subseteq Ids /\ \A k \in DOMAIN b.byID : b.byID[k] \in Item
    /\ DOMAIN b.bySeq \subseteq Nat /\ \A s \in DOMAIN b.bySeq : b.bySeq[s] \in Item
    /\ b.lastSeq \in Nat /\ b.maxItems = MaxItems /\ b.bytes \in Int
    /\ b.idKeyBytes \in Int /\ b.detached \in BOOLEAN /\ b.lastWriteTS \in Nat
    /\ cells \in [Cells -> [value : Int, ts : Nat]]
    /\ totalBytes \in Int /\ totalItems \in Int /\ storeTS \in Nat
    /\ others \in Nat /\ now \in Nat /\ warms \in Nat
    /\ plan.items \in Seq(Item) /\ plan.newBytes \in Int
    /\ plan.oldBytes \in Int /\ plan.pending \in BOOLEAN
    /\ polled.held \in BOOLEAN /\ polled.ts \in Nat

LiveSeqs == {b.items[i].seq : i \in 1..Len(b.items)}

\* The items are in strictly ascending seq order and none is above lastSeq:
\* what every binary search of the buffer (sort.Search) takes for granted.
SeqsAscending ==
    /\ \A i, j \in 1..Len(b.items) : i < j => b.items[i].seq < b.items[j].seq
    /\ \A i \in 1..Len(b.items) : b.items[i].seq \in 1..b.lastSeq

\* The slice and the two maps hold the same items, counter cell included: an
\* index that missed an update, a delete or a promote would serve a stale copy.
IndexCoherent ==
    /\ DOMAIN b.bySeq = LiveSeqs
    /\ DOMAIN b.byID = {b.items[i].id : i \in 1..Len(b.items)} \ {NoId}
    /\ \A i \in 1..Len(b.items) :
         /\ b.bySeq[b.items[i].seq] = b.items[i]
         /\ b.items[i].id # NoId => b.byID[b.items[i].id] = b.items[i]

\* b.bytes, kept by deltas over promote, replace and drain, is the sum of
\* approxItemSize over the items.
BytesExact == b.bytes = sumItemBytes(b.items)

\* b.idKeyBytes is the sum of the id lengths.
IdKeyBytesExact == b.idKeyBytes = sumIdBytes(b.items)

\* The bytes a /warm has reserved ahead of its commit.
Reserved == IF plan.pending THEN plan.newBytes - plan.oldBytes ELSE 0

\* The store's counters are the sum over its scopes, whatever callers with an
\* old pointer did between a /warm's snapshot and its commit, and a deleted
\* scope leaves nothing behind.
StoreLockstep ==
    /\ totalBytes = others + Reserved + (IF b.detached THEN 0 ELSE b.bytes)
    /\ totalItems = IF b.detached THEN 0 ELSE Len(b.items)

\* No item, however it was addressed and resized, is above the per-item cap.
ItemsWithinCap ==
    \A i \in 1..Len(b.items) : approxItemSize(b.items[i]) <= MaxItemBytes

\* A poller may skip the refetch: when it finds the last_write_ts of the scope's
\* row unchanged since a reading taken in a later microsecond than that stamp,
\* and the clock was not set back to it, then every regular item it knew is there
\* unchanged or has been promoted, under its seq and id, and there is no other.
\* That covers a /warm reserved before and committed after the poll.
UnchangedStampUnchangedItems ==
    polled.held /\ b.lastWriteTS = polled.ts =>
        /\ RegularContent(b.items) \subseteq polled.items
        /\ \A known \in polled.items :
             \/ known \in RegularContent(b.items)
             \/ \E i \in 1..Len(b.items) :
                   /\ b.items[i].counter # NoCell
                   /\ b.items[i].seq = known.seq /\ b.items[i].id = known.id

\* The store-wide byte cap holds as long as no /warm has run: every other
\* operation reserves with reserveBytes before it grows anything.
WithinCapWithoutWarm == warms = 0 => totalBytes <= MaxStoreBytes

\* The cap as commitReplacementPreReserved's comment claims it: "strict across
\* batch replacements", also when a caller with an old pointer deletes between
\* the snapshot and the commit.
WithinCap == totalBytes <= MaxStoreBytes

\* /head pages: the lowest `limit' seqs above the cursor, ascending, and
\* `more' exactly when items above them remain.
HeadIsLowest(after, limit) ==
    LET page == sinceSeq(b, after, limit)
        above == {s \in LiveSeqs : s > after}
        wanted == {s \in above : Cardinality({t \in above : t <= s}) <= limit}
    IN  /\ {page.items[i].seq : i \in DOMAIN page.items} = wanted
        /\ Len(page.items) = Cardinality(wanted)
        /\ page.more <=> wanted # above

\* ... for the cursors and limits TLC tries.
HeadIsLowestAbove == \A after \in 0..MaxSeq, limit \in 1..2 : HeadIsLowest(after, limit)

\* /tail pages: the newest `limit' items below the `offset' newest, and `more'
\* exactly when a non-empty page leaves older items out.
TailIsNewest(offset, limit) ==
    LET page == tailOffset(b, limit, offset)
        rank(s) == Cardinality({t \in LiveSeqs : t >= s})
        wanted == {s \in LiveSeqs : offset < rank(s) /\ rank(s) <= offset + limit}
    IN  /\ {page.items[i].seq : i \in DOMAIN page.items} = wanted
        /\ page.more <=> (wanted # {} /\ \E s \in LiveSeqs : rank(s) > offset + limit)

\* ... for the offsets and limits TLC tries.
TailIsNewestBelow == \A offset \in 0..2, limit \in 1..2 : TailIsNewest(offset, limit)

\* Outside /warm, the cursor never moves back, an item that stays keeps its id
\* under its seq, and an item that appears has a seq no item had before: deletes
\* and drains do not free seqs, upserts and promotes do not move them.
SeqsNeverReused ==
    [][ \/ commitReplacementPreReserved
        \/ /\ b'.lastSeq >= b.lastSeq
           /\ \A i \in 1..Len(b'.items) :
                \/ b'.items[i].seq > b.lastSeq
                \/ \E j \in 1..Len(b.items) :
                     /\ b.items[j].seq = b'.items[i].seq
                     /\ b.items[j].id = b'.items[i].id ]_vars

-----------------------------------------------------------------------------
(* The buffer implements ScopeLog. *)

\* An item as a reader gets it: counters are materialised from their cell.
materialiseCounter(item) ==
    [id |-> item.id,
     val |-> IF item.counter # NoCell THEN <<"counter", cells[item.counter].value>>
                                      ELSE <<"payload", item.payload>>]

LogView ==
    [s \in LiveSeqs |->
        materialiseCounter(b.items[CHOOSE i \in 1..Len(b.items) : b.items[i].seq = s])]

Log == INSTANCE ScopeLog WITH log <- LogView, cursor <- b.lastSeq, closed <- b.detached

\* Every call has the effect and the reply ScopeLog gives it.
ImplementsScopeLog == Log!Spec
=============================================================================
