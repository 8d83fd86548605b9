----------------------------- MODULE BufferOps -----------------------------
(***************************************************************************)
(* What the operations of one scopeBuffer do to its fields, as operators   *)
(* on a buffer record.  Every operation runs under the buffer's mutex      *)
(* b.mu; the state machines that call these operators are ScopeBuffer (one *)
(* buffer and the store's counters) and Store (many buffers, many callers).*)
(*                                                                         *)
(* Data abstraction: an id, a payload and a counter cell are opaque; what  *)
(* the code reads of them is their length (IdLen, PayloadBytes: payload    *)
(* plus render bytes) and the integer a payload parses to (PayloadInt).    *)
(***************************************************************************)
EXTENDS Integers, Sequences, SeqSums

CONSTANTS
    Ids,                 \* ids a client may give an item
    NoId,                \* the empty id
    Payloads,            \* payloads a client may write
    NoPayload,           \* the nil payload of a counter-shaped item
    Cells,               \* addresses of counterCell objects
    NoCell,              \* the nil *counterCell
    IdLen,               \* len(item.ID), 0 for NoId
    PayloadBytes,        \* len(Payload) + len(renderBytes), 0 for NoPayload
    PayloadInt,          \* the integer a payload parses to, or NotInt
    NotInt,              \* "not a JSON integer within +-MaxCounterValue"
    ItemOverhead,        \* fixed charge per item (struct and scope name)
    CounterCellOverhead  \* charge for a counter's cell instead of a payload

ASSUME DataAssumption ==
    /\ NoId \notin Ids
    /\ NoPayload \notin Payloads
    /\ NoCell \notin Cells
    /\ NotInt \notin Int
    /\ IdLen \in [Ids \cup {NoId} -> Nat]
    /\ IdLen[NoId] = 0
    /\ PayloadBytes \in [Payloads \cup {NoPayload} -> Nat]
    /\ PayloadBytes[NoPayload] = 0
    /\ PayloadInt \in [Payloads -> Int \cup {NotInt}]
    /\ ItemOverhead \in Nat
    /\ CounterCellOverhead \in Nat

\* The Item struct.  An item is regular (a payload, no cell) or counter-shaped
\* (a cell, no payload), never both and never neither.
Item ==
    {item \in [id : Ids \cup {NoId}, seq : Nat, ts : Nat,
               payload : Payloads \cup {NoPayload}, counter : Cells \cup {NoCell}] :
        item.counter = NoCell <=> item.payload # NoPayload}

\* What a client sends in a write.
Input == [id : Ids \cup {NoId}, payload : Payloads]

IdMaps == UNION {[I -> Item] : I \in SUBSET Ids}
SeqMaps == UNION {[S -> Item] : S \in SUBSET Nat}

\* The scopeBuffer struct.  A nil map and an empty one behave alike.
Buffer == [items : Seq(Item),
           byID : IdMaps, bySeq : SeqMaps,
           lastSeq : Nat, maxItems : Nat, bytes : Int, idKeyBytes : Int,
           detached : BOOLEAN, lastWriteTS : Nat]

EmptyMap == [k \in {} |-> k]

newscopeBuffer(maxItems, now) ==
    [items |-> <<>>, byID |-> EmptyMap, bySeq |-> EmptyMap, lastSeq |-> 0,
     maxItems |-> maxItems, bytes |-> 0, idKeyBytes |-> 0,
     detached |-> FALSE, lastWriteTS |-> now]

-----------------------------------------------------------------------------
(* Sizes. *)

payloadAndRenderBytes(item) ==
    IF item.counter # NoCell THEN CounterCellOverhead
                             ELSE PayloadBytes[item.payload]

approxItemSize(item) ==
    ItemOverhead + IdLen[item.id] + payloadAndRenderBytes(item)

sumItemBytes(items) ==
    SeqSum([i \in 1..Len(items) |-> approxItemSize(items[i])])

sumIdBytes(items) ==
    SeqSum([i \in 1..Len(items) |-> IdLen[items[i].id]])

\* maxItems = 0 is the "unbounded" sentinel of the _events scope.
itemCapExceeded(b, proposed) == b.maxItems > 0 /\ proposed > b.maxItems

-----------------------------------------------------------------------------
(* Maps and searches. *)

Put(f, k, v) == [x \in DOMAIN f \cup {k} |-> IF x = k THEN v ELSE f[x]]

Without(f, K) == [x \in DOMAIN f \ K |-> f[x]]

\* sort.Search over the ascending items: the first index whose seq is at
\* least (greater than) the given one, Len + 1 when there is none.
SearchAtLeast(items, seq) ==
    CHOOSE i \in 1..(Len(items) + 1) :
        /\ \A j \in 1..(i - 1) : items[j].seq < seq
        /\ i <= Len(items) => items[i].seq >= seq

SearchAbove(items, seq) == SearchAtLeast(items, seq + 1)

-----------------------------------------------------------------------------
(* Writes.  Each returns the buffer after the operation's commit; guards,  *)
(* the byte reservation and the store's counters are the caller's.         *)

\* Slip: registers items without an id under the empty id.
Slip_insertItem(b, item) ==
    [b EXCEPT !.lastSeq = item.seq, !.items = Append(@, item),
              !.bySeq = Put(@, item.seq, item), !.byID = Put(@, item.id, item),
              !.idKeyBytes = @ + IdLen[item.id],
              !.bytes = @ + approxItemSize(item)]

\* The part that insertNewItemLocked and counterAddSlow's create share.
insertItem(b, item) ==
    [b EXCEPT !.lastSeq = item.seq,
              !.items = Append(@, item),
              !.bySeq = Put(@, item.seq, item),
              !.byID = IF item.id = NoId THEN @ ELSE Put(@, item.id, item),
              !.idKeyBytes = @ + IdLen[item.id],
              !.bytes = @ + approxItemSize(item)]

newItem(b, in, now) ==
    [id |-> in.id, seq |-> b.lastSeq + 1, ts |-> now,
     payload |-> in.payload, counter |-> NoCell]

insertNewItemLocked(b, in, now) ==
    [insertItem(b, newItem(b, in, now)) EXCEPT !.lastWriteTS = now]

\* Slip: leaves the stale copy in byID.
Slip_setItemAt(b, i, item, delta) ==
    [b EXCEPT !.items[i] = item, !.bySeq[item.seq] = item, !.bytes = @ + delta]

\* Overwrite slot i in the slice and in both maps.  delta is the size change
\* the caller reserved with the store.
setItemAt(b, i, item, delta) ==
    [b EXCEPT !.items[i] = item,
              !.bySeq[item.seq] = item,
              !.byID = IF item.id = NoId THEN @
                       ELSE [@ EXCEPT ![item.id] = item],
              !.bytes = @ + delta]

\* Slip: the orphaned counter cell stays canonical.
Slip_replacedItem(item, payload, now) ==
    [item EXCEPT !.payload = payload, !.ts = now]

\* /update and the hit branch of /upsert: whole-item replacement.
replacedItem(item, payload, now) ==
    [item EXCEPT !.payload = payload, !.ts = now, !.counter = NoCell]

\* Slip: forgets the scope's freshness stamp.
Slip_replaceItemAtIndexLocked(b, i, payload, now, delta) ==
    setItemAt(b, i, replacedItem(b.items[i], payload, now), delta)

replaceItemAtIndexLocked(b, i, payload, now, delta) ==
    [setItemAt(b, i, replacedItem(b.items[i], payload, now), delta)
        EXCEPT !.lastWriteTS = now]

\* counterAddSlow's promote: a regular item becomes counter-shaped.  Its ts
\* and the buffer's lastWriteTS stay as they are.
promotedItem(item, cell) ==
    [item EXCEPT !.payload = NoPayload, !.counter = cell]

promoteAt(b, i, existing, cell, delta) ==
    setItemAt(b, i, promotedItem(existing, cell), delta)

\* counterAddSlow's create: silent on lastWriteTS.
counterItem(b, id, cell, now) ==
    [id |-> id, seq |-> b.lastSeq + 1, ts |-> now,
     payload |-> NoPayload, counter |-> cell]

-----------------------------------------------------------------------------
(* Deletes.  lastSeq survives the reset of an emptied buffer. *)

\* Slip: the drained scope starts numbering from 1 again.
Slip_resetIfEmptyLocked(b) ==
    IF b.items # <<>> THEN b
    ELSE [b EXCEPT !.bySeq = EmptyMap, !.byID = EmptyMap, !.idKeyBytes = 0,
                   !.lastSeq = 0]

resetIfEmptyLocked(b) ==
    IF b.items # <<>> THEN b
    ELSE [b EXCEPT !.bySeq = EmptyMap, !.byID = EmptyMap, !.idKeyBytes = 0]

\* The items that stay when slot i is cut out.
CutAt(items, i) ==
    [j \in 1..(Len(items) - 1) |-> IF j < i THEN items[j] ELSE items[j + 1]]

deleteIndexLocked(b, i, now) ==
    LET removed == b.items[i]
    IN  resetIfEmptyLocked(
            [b EXCEPT !.items = CutAt(@, i),
                      !.bySeq = Without(@, {removed.seq}),
                      !.byID = Without(@, {removed.id}),
                      !.idKeyBytes = @ - IdLen[removed.id],
                      !.bytes = @ - approxItemSize(removed),
                      !.lastWriteTS = now])

\* Slip: a drain that leaves items behind keeps the drained ids' bytes.
Slip_deletePrefix(b, n, now) ==
    LET removed == SubSeq(b.items, 1, n)
    IN  resetIfEmptyLocked(
            [b EXCEPT !.items = SubSeq(@, n + 1, Len(@)),
                      !.bySeq = Without(@, {removed[i].seq : i \in 1..n}),
                      !.byID = Without(@, {removed[i].id : i \in 1..n}),
                      !.bytes = @ - sumItemBytes(removed),
                      !.lastWriteTS = now])

\* deleteUpToSeq's cut of the first n items.
deletePrefix(b, n, now) ==
    LET removed == SubSeq(b.items, 1, n)
    IN  resetIfEmptyLocked(
            [b EXCEPT !.items = SubSeq(@, n + 1, Len(@)),
                      !.bySeq = Without(@, {removed[i].seq : i \in 1..n}),
                      !.byID = Without(@, {removed[i].id : i \in 1..n}),
                      !.idKeyBytes = @ - sumIdBytes(removed),
                      !.bytes = @ - sumItemBytes(removed),
                      !.lastWriteTS = now])

-----------------------------------------------------------------------------
(* Whole-scope replacement (/warm, /rebuild). *)

DuplicateIds(inputs) ==
    \E i, j \in DOMAIN inputs :
        i # j /\ inputs[i].id = inputs[j].id /\ inputs[i].id # NoId

\* seq restarts at 1; every item of the batch carries the same ts.
replacementItems(inputs, now) ==
    [i \in 1..Len(inputs) |->
        [id |-> inputs[i].id, seq |-> i, ts |-> now,
         payload |-> inputs[i].payload, counter |-> NoCell]]

\* The seq and id maps of a freshly built item list.
MapBySeq(items) == [s \in 1..Len(items) |-> items[s]]

MapByID(items) ==
    [k \in {items[i].id : i \in 1..Len(items)} \ {NoId} |->
        items[CHOOSE i \in 1..Len(items) : items[i].id = k]]

\* Slip: keeps the old cursor.
Slip_commitItems(b, items, newBytes, now) ==
    [b EXCEPT !.items = items, !.byID = MapByID(items), !.bySeq = MapBySeq(items),
              !.bytes = newBytes, !.idKeyBytes = sumIdBytes(items), !.lastWriteTS = now]

\* commitReplacement*: newBytes was summed when the batch was built; the
\* store's counters are the caller's.
commitItems(b, items, newBytes, now) ==
    [b EXCEPT !.items = items,
              !.byID = MapByID(items),
              !.bySeq = MapBySeq(items),
              !.lastSeq = Len(items),
              !.bytes = newBytes,
              !.idKeyBytes = sumIdBytes(items),
              !.lastWriteTS = now]

-----------------------------------------------------------------------------
(* Reads. *)

\* Slip: the item at the cursor is served again.
Slip_sinceSeq(b, afterSeq, limit) ==
    LET idx == SearchAtLeast(b.items, afterSeq)
        available == Len(b.items) - idx + 1
        take == IF available > limit THEN limit ELSE available
    IN  IF limit <= 0 \/ available <= 0
        THEN [items |-> <<>>, more |-> FALSE]
        ELSE [items |-> SubSeq(b.items, idx, idx + take - 1), more |-> available > limit]

\* sinceSeq: the items above a cursor, oldest first, and whether more follow.
sinceSeq(b, afterSeq, limit) ==
    LET idx == SearchAbove(b.items, afterSeq)
        available == Len(b.items) - idx + 1
        take == IF available > limit THEN limit ELSE available
    IN  IF limit <= 0 \/ available <= 0
        THEN [items |-> <<>>, more |-> FALSE]
        ELSE [items |-> SubSeq(b.items, idx, idx + take - 1),
              more |-> available > limit]

\* Slip: reports more items although the window reaches the oldest one.
Slip_tailOffset(b, limit, offset) ==
    LET end == Len(b.items) - offset
        start == IF end - limit < 0 THEN 0 ELSE end - limit
    IN  IF limit <= 0 \/ offset < 0 \/ offset >= Len(b.items)
        THEN [items |-> <<>>, more |-> FALSE]
        ELSE [items |-> SubSeq(b.items, start + 1, end), more |-> end - limit >= 0]

\* tailOffset: the newest items after skipping offset of them.
tailOffset(b, limit, offset) ==
    LET end == Len(b.items) - offset
        start == IF end - limit < 0 THEN 0 ELSE end - limit
    IN  IF limit <= 0 \/ offset < 0 \/ offset >= Len(b.items)
        THEN [items |-> <<>>, more |-> FALSE]
        ELSE [items |-> SubSeq(b.items, start + 1, end),
              more |-> end - limit > 0]
=============================================================================
