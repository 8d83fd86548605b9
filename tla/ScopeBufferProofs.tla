------------------------- MODULE ScopeBufferProofs -------------------------
(***************************************************************************)
(* The safety invariants of ScopeBuffer, for every value of its constants. *)
(* Inv is their conjunction, strengthened by what a /warm batch between    *)
(* its reservation and its commit looks like, and inductive.               *)
(*                                                                         *)
(* From Inv follow what a single step may do to the items of a buffer, the *)
(* caps, what an unchanged stamp tells a poller, the fate of seqs; then    *)
(* that ScopeBuffer implements ScopeLog, and that its two ranges (/head,   *)
(* /tail) are the ones a reader of that log asks for.                      *)
(***************************************************************************)
EXTENDS ScopeBuffer, BufferProofs, FiniteSetTheorems

Heaps == [Cells -> [value : Int, ts : Nat]]

\* A reserved batch is what replacementItems builds, with its bytes.
PlanOK ==
    /\ plan.items \in Seq(Item)
    /\ \A i \in 1..Len(plan.items) : plan.items[i].seq = i
    /\ \A i, j \in 1..Len(plan.items) :
         i # j /\ plan.items[i].id # NoId => plan.items[i].id # plan.items[j].id
    /\ plan.newBytes = sumItemBytes(plan.items)
    /\ plan.oldBytes \in Int /\ plan.pending \in BOOLEAN

Inv ==
    /\ WellFormed(b) /\ b.maxItems = MaxItems
    /\ cells \in Heaps
    /\ totalBytes \in Int /\ totalItems \in Int
    /\ storeTS \in Nat /\ others \in Nat /\ now \in Nat /\ warms \in Nat
    /\ PlanOK /\ (plan.pending => ~b.detached)
    /\ polled.held \in BOOLEAN /\ polled.ts \in Nat
    /\ StoreLockstep

-----------------------------------------------------------------------------
(* The two ways a buffer operation can end. *)

(***************************************************************************)
(* A call that is refused or finds nothing changes nothing Inv reads.      *)
(***************************************************************************)
LEMMA IdleKeepsInv ==
    ASSUME Inv, UNCHANGED <<b, cells, totalBytes, totalItems, storeTS>>, BufferCall
    PROVE  Inv'
BY DEF Inv, PlanOK, StoreLockstep, Reserved, BufferCall

(***************************************************************************)
(* The collected heap is a heap.                                           *)
(***************************************************************************)
LEMMA CollectedType ==
    ASSUME NEW heap \in Heaps, NEW buf PROVE Collected(heap, buf) \in Heaps
BY DEF Collected, Heaps, EmptyCell

(***************************************************************************)
(* Reserved is an integer.                                                 *)
(***************************************************************************)
LEMMA ReservedType == ASSUME PlanOK PROVE Reserved \in Int
BY SumsOfItems DEF PlanOK, Reserved

(***************************************************************************)
(* A commit on a live buffer that moves the store's counters by what the   *)
(* buffer's own content changed.                                           *)
(***************************************************************************)
LEMMA CommitKeepsInv ==
    ASSUME Inv, ~b.detached, NEW new, NEW heap \in Heaps, NEW dB, NEW dI,
           Follows(new, b, dB, dI), Commit(new, heap, dB, dI),
           storeTS' \in Nat, BufferCall
    PROVE  Inv'
<1>1. b' = new /\ totalBytes' = totalBytes + dB /\ totalItems' = totalItems + dI
  BY DEF Commit
<1>2. cells' \in Heaps BY CollectedType DEF Commit
<1>3. WellFormed(b') /\ b'.maxItems = MaxItems /\ ~b'.detached
  BY <1>1 DEF Follows, Inv
<1>4. UNCHANGED <<others, plan, warms, now, polled>> BY DEF BufferCall
<1>5. totalBytes' \in Int /\ totalItems' \in Int BY <1>1 DEF Follows, Inv
<1>6. StoreLockstep'
  <2>1. totalBytes = others + Reserved + b.bytes /\ totalItems = Len(b.items)
    BY DEF Inv, StoreLockstep
  <2>2. Reserved' = Reserved /\ others' = others BY <1>4 DEF Reserved
  <2>3. Reserved \in Int /\ others \in Int BY ReservedType DEF Inv
  <2>4. b.bytes \in Int BY BufferFields DEF Inv, WellFormed
  <2>5. dB \in Int /\ b'.bytes = b.bytes + dB BY <1>1 DEF Follows
  <2>6. totalBytes' = others + Reserved + b'.bytes BY <1>1, <2>1, <2>3, <2>4, <2>5
  <2>7. totalItems' = Len(b'.items) BY <1>1, <2>1 DEF Follows
  <2> QED BY <1>3, <2>2, <2>6, <2>7 DEF StoreLockstep
<1>7. PlanOK' BY <1>4 DEF PlanOK, Inv
<1> QED BY <1>2, <1>3, <1>4, <1>5, <1>6, <1>7 DEF Inv

(***************************************************************************)
(* The store's freshness stamp stays a natural number.                     *)
(***************************************************************************)
LEMMA BumpType == ASSUME Inv, bumpLastWriteTS(now) PROVE storeTS' \in Nat
BY DEF Inv, bumpLastWriteTS

-----------------------------------------------------------------------------
(* The operations on one item. *)

(***************************************************************************)
(* insertNewItemLocked.                                                    *)
(***************************************************************************)
LEMMA InsertNewKeepsInv ==
    ASSUME Inv, NEW in \in Input, ~b.detached,
           in.id = NoId \/ in.id \notin DOMAIN b.byID, InsertNew(in), BufferCall
    PROVE  Inv'
<1> DEFINE item == newItem(b, in, now)
<1>1. WellFormed(b) /\ b \in Buffer /\ now \in Nat BY DEF Inv, WellFormed
<1>2. b.lastSeq \in Nat BY <1>1, BufferFields
<1>3. item \in Item /\ item.seq = b.lastSeq + 1 /\ item.id = in.id
  BY <1>1, <1>2, DataAssumption DEF newItem, Item, Input
<1> HIDE DEF item
<1>4. Follows(insertItem(b, item), b, approxItemSize(item), 1)
  BY <1>1, <1>3, InsertFollows
<1>5. Follows(insertNewItemLocked(b, in, now), b, approxItemSize(item), 1)
  BY <1>1, <1>4, StampFollows DEF insertNewItemLocked, item
<1>6. Commit(insertNewItemLocked(b, in, now), cells, approxItemSize(item), 1)
  BY DEF InsertNew, item
<1>7. storeTS' \in Nat BY BumpType DEF InsertNew
<1>8. cells \in Heaps BY DEF Inv
<1> QED BY <1>5, <1>6, <1>7, <1>8, CommitKeepsInv

(***************************************************************************)
(* replaceItemAtIndexLocked, on an item one of the maps returned.          *)
(***************************************************************************)
LEMMA ReplacePayloadKeepsInv ==
    ASSUME Inv, ~b.detached, NEW payload \in Payloads, NEW existing,
           \/ \E k \in DOMAIN b.byID : existing = b.byID[k]
           \/ \E s \in DOMAIN b.bySeq : existing = b.bySeq[s],
           ReplacePayload(existing, payload), BufferCall
    PROVE  Inv'
<1> DEFINE i == SearchAtLeast(b.items, existing.seq)
           delta == payloadDelta(existing, payload)
           item == replacedItem(existing, payload, now)
<1>1. WellFormed(b) /\ b \in Buffer /\ now \in Nat BY DEF Inv, WellFormed
<1>2. i \in 1..Len(b.items) /\ b.items[i] = existing BY <1>1, LookupFinds
<1>3. existing \in Item BY <1>1, <1>2, BufferFields
<1>4. item \in Item /\ item.seq = existing.seq /\ item.id = existing.id
  BY <1>1, <1>3, DataAssumption DEF replacedItem, Item
<1>5. delta = approxItemSize(item) - approxItemSize(existing)
  <2>1. item.counter = NoCell /\ item.payload = payload BY <1>3 DEF replacedItem, Item
  <2>2. payloadAndRenderBytes(item) = PayloadBytes[payload]
    BY <2>1 DEF payloadAndRenderBytes
  <2>3. PayloadBytes[payload] \in Nat /\ ItemOverhead \in Nat BY DataAssumption
  <2>4. IdLen[existing.id] \in Nat BY <1>3, SizeType
  <2>5. payloadAndRenderBytes(existing) \in Nat
    BY <1>3, DataAssumption DEF payloadAndRenderBytes, Item
  <2>6. approxItemSize(item) = ItemOverhead + IdLen[existing.id] + PayloadBytes[payload]
    BY <1>4, <2>2 DEF approxItemSize
  <2>7. approxItemSize(existing)
          = ItemOverhead + IdLen[existing.id] + payloadAndRenderBytes(existing)
    BY DEF approxItemSize
  <2>8. delta = PayloadBytes[payload] - payloadAndRenderBytes(existing) BY DEF payloadDelta
  <2> HIDE DEF delta, item
  <2> QED BY <2>3, <2>4, <2>5, <2>6, <2>7, <2>8
<1> HIDE DEF i, delta, item
<1>6. Follows(setItemAt(b, i, item, delta), b, delta, 0)
  BY <1>1, <1>2, <1>4, <1>5, SetItemFollows
<1>7. replaceItemAtIndexLocked(b, i, payload, now, delta)
        = [setItemAt(b, i, item, delta) EXCEPT !.lastWriteTS = now]
  BY <1>2 DEF replaceItemAtIndexLocked, item
<1>8. Follows(replaceItemAtIndexLocked(b, i, payload, now, delta), b, delta, 0)
  BY <1>1, <1>6, <1>7, StampFollows
<1>9. Commit(replaceItemAtIndexLocked(b, i, payload, now, delta), cells, delta, 0)
  BY DEF ReplacePayload, i, delta
<1>10. storeTS' \in Nat BY BumpType DEF ReplacePayload
<1>11. cells \in Heaps BY DEF Inv
<1> QED BY <1>8, <1>9, <1>10, <1>11, CommitKeepsInv

(***************************************************************************)
(* The CAS loop on the cell of an item.                                    *)
(***************************************************************************)
LEMMA AtomicAddKeepsInv ==
    ASSUME Inv, NEW cell \in Cells, NEW by \in Int, atomicCounterAdd(cell, by), BufferCall
    PROVE  Inv'
<1>1. CASE UNCHANGED <<b, cells, totalBytes, totalItems, storeTS>> BY <1>1, IdleKeepsInv
<1>2. CASE /\ cells' = [cells EXCEPT ![cell] =
                 [value |-> cells[cell].value + by, ts |-> IF now > @.ts THEN now ELSE @.ts]]
           /\ UNCHANGED <<b, totalBytes, totalItems, storeTS>>
  <2>1. cells \in Heaps /\ now \in Nat BY DEF Inv
  <2>2. cells[cell].value + by \in Int /\ cells[cell].ts \in Nat BY <2>1 DEF Heaps
  <2>3. cells' \in Heaps BY <1>2, <2>1, <2>2 DEF Heaps
  <2> QED BY <1>2, <2>3 DEF Inv, PlanOK, StoreLockstep, Reserved, BufferCall
<1> QED BY <1>1, <1>2 DEF atomicCounterAdd, Refuse

(***************************************************************************)
(* A fresh cell is one of Cells, and loading it gives a heap.              *)
(***************************************************************************)
LEMMA FreshCellType ==
    ASSUME Inv, HeapHasRoom, NEW value \in Int
    PROVE  FreshCell \in Cells /\ WithCell(FreshCell, value) \in Heaps
<1>1. FreshCell \in Cells BY DEF HeapHasRoom, FreshCell
<1>2. cells \in Heaps /\ now \in Nat BY DEF Inv
<1> HIDE DEF FreshCell
<1> QED BY <1>1, <1>2 DEF WithCell, Heaps

(***************************************************************************)
(* counterAddSlow's promote.                                               *)
(***************************************************************************)
LEMMA PromoteKeepsInv ==
    ASSUME Inv, ~b.detached, HeapHasRoom, NEW id \in DOMAIN b.byID, NEW by \in Int,
           b.byID[id].counter = NoCell, promote(b.byID[id], by), BufferCall
    PROVE  Inv'
<1> DEFINE existing == b.byID[id]
           current == PayloadInt[existing.payload]
           item == promotedItem(existing, FreshCell)
           delta == approxItemSize(item) - approxItemSize(existing)
           i == SearchAtLeast(b.items, existing.seq)
<1>1. WellFormed(b) /\ b \in Buffer BY DEF Inv, WellFormed
<1>2. i \in 1..Len(b.items) /\ b.items[i] = existing BY <1>1, LookupFinds
<1>3. existing \in Item BY <1>1, <1>2, BufferFields
<1>4. CASE UNCHANGED <<b, cells, totalBytes, totalItems, storeTS>> BY <1>4, IdleKeepsInv
<1>5. CASE /\ current # NotInt /\ InRange(current + by)
           /\ Commit(promoteAt(b, i, existing, FreshCell, delta),
                     WithCell(FreshCell, current + by), delta, 0)
           /\ UNCHANGED storeTS
  <2>1. current + by \in Int
    <3>1. existing.payload \in Payloads BY <1>3 DEF Item
    <3>2. current \in Int BY <1>5, <3>1, DataAssumption
    <3> QED BY <3>2
  <2>2. FreshCell \in Cells /\ WithCell(FreshCell, current + by) \in Heaps
    BY <2>1, FreshCellType
  <2>3. item \in Item /\ item.seq = existing.seq /\ item.id = existing.id
    BY <1>3, <2>2, DataAssumption DEF promotedItem, Item
  <2> HIDE DEF item, i, existing
  <2>4. Follows(setItemAt(b, i, item, delta), b, delta, 0)
    BY <1>1, <1>2, <2>3, SetItemFollows
  <2>5. Follows(promoteAt(b, i, existing, FreshCell, delta), b, delta, 0)
    BY <2>4 DEF promoteAt, item
  <2>6. storeTS' \in Nat BY <1>5 DEF Inv
  <2> QED BY <1>5, <2>2, <2>5, <2>6, CommitKeepsInv
<1> QED BY <1>4, <1>5 DEF promote, Refuse

(***************************************************************************)
(* counterAddSlow's create.                                                *)
(***************************************************************************)
LEMMA CreateCounterKeepsInv ==
    ASSUME Inv, ~b.detached, HeapHasRoom, NEW id \in Ids, id \notin DOMAIN b.byID,
           NEW by \in Int, createCounter(id, by), BufferCall
    PROVE  Inv'
<1> DEFINE item == counterItem(b, id, FreshCell, now)
           size == approxItemSize(item)
<1>1. WellFormed(b) /\ b \in Buffer /\ now \in Nat BY DEF Inv, WellFormed
<1>2. FreshCell \in Cells /\ WithCell(FreshCell, by) \in Heaps BY FreshCellType
<1>3. CASE UNCHANGED <<b, cells, totalBytes, totalItems, storeTS>> BY <1>3, IdleKeepsInv
<1>4. CASE /\ Commit(insertItem(b, item), WithCell(FreshCell, by), size, 1)
           /\ UNCHANGED storeTS
  <2>1. b.lastSeq \in Nat BY <1>1, BufferFields
  <2>2. item \in Item /\ item.seq = b.lastSeq + 1 /\ item.id = id
    BY <1>1, <1>2, <2>1, DataAssumption DEF counterItem, Item
  <2> HIDE DEF item
  <2>3. Follows(insertItem(b, item), b, size, 1) BY <1>1, <2>2, InsertFollows
  <2>4. storeTS' \in Nat BY <1>4 DEF Inv
  <2> QED BY <1>2, <1>4, <2>3, <2>4, CommitKeepsInv
<1> QED BY <1>3, <1>4 DEF createCounter, Refuse

(***************************************************************************)
(* Deleting one live item.                                                 *)
(***************************************************************************)
LEMMA DeleteItemKeepsInv ==
    ASSUME Inv, ~b.detached, NEW seq, NEW existing, existing.seq = seq,
           \/ \E k \in DOMAIN b.byID : existing = b.byID[k]
           \/ \E s \in DOMAIN b.bySeq : existing = b.bySeq[s],
           DeleteItem(seq), BufferCall
    PROVE  Inv'
<1> DEFINE i == SearchAtLeast(b.items, seq)
<1>1. WellFormed(b) /\ now \in Nat BY DEF Inv
<1>2. i \in 1..Len(b.items) BY <1>1, LookupFinds
<1> HIDE DEF i
<1>3. Follows(deleteIndexLocked(b, i, now), b, -approxItemSize(b.items[i]), -1)
  BY <1>1, <1>2, DeleteIndexFollows
<1>4. Commit(deleteIndexLocked(b, i, now), cells, -approxItemSize(b.items[i]), -1)
  BY DEF DeleteItem, i
<1>5. storeTS' \in Nat BY BumpType DEF DeleteItem
<1>6. cells \in Heaps BY DEF Inv
<1> QED BY <1>3, <1>4, <1>5, <1>6, CommitKeepsInv

(***************************************************************************)
(* Draining a prefix.                                                      *)
(***************************************************************************)
LEMMA DrainKeepsInv ==
    ASSUME Inv, NEW maxSeq \in Nat, deleteUpToSeq(maxSeq)
    PROVE  Inv'
<1> DEFINE n == SearchAbove(b.items, maxSeq) - 1
<1>1. WellFormed(b) /\ b \in Buffer /\ now \in Nat BY DEF Inv, WellFormed
<1>2. n \in 0..Len(b.items)
  <2>1. b.items \in Seq(Item) /\ maxSeq + 1 \in Int BY <1>1, BufferFields
  <2>2. SearchAbove(b.items, maxSeq) \in 1..(Len(b.items) + 1)
    BY <2>1, SearchAnswer DEF SearchAbove
  <2> HIDE DEF SearchAbove
  <2> QED BY <2>1, <2>2
<1> HIDE DEF n
<1>3. BufferCall BY DEF deleteUpToSeq
<1>4. CASE UNCHANGED <<b, cells, totalBytes, totalItems, storeTS>>
  BY <1>3, <1>4, IdleKeepsInv
<1>5. CASE /\ ~b.detached
           /\ Commit(deletePrefix(b, n, now), cells,
                     -sumItemBytes(SubSeq(b.items, 1, n)), -n)
           /\ bumpLastWriteTS(now)
  <2>1. Follows(deletePrefix(b, n, now), b, -sumItemBytes(SubSeq(b.items, 1, n)), -n)
    BY <1>1, <1>2, DeletePrefixFollows
  <2>2. storeTS' \in Nat BY <1>5, BumpType
  <2>3. cells \in Heaps BY DEF Inv
  <2> QED BY <1>3, <1>5, <2>1, <2>2, <2>3, CommitKeepsInv
<1> QED BY <1>4, <1>5 DEF deleteUpToSeq, Refuse, Miss, n

-----------------------------------------------------------------------------
(* The store's operations on this scope. *)

(***************************************************************************)
(* The reservation of a /warm.                                             *)
(***************************************************************************)
LEMMA WarmReserveKeepsInv ==
    ASSUME Inv, NEW w \in WarmInputs, warmReserve(w)
    PROVE  Inv'
<1> DEFINE items == replacementItems(w, now)
           newBytes == sumItemBytes(items)
<1>1. UNCHANGED <<b, cells, totalItems, storeTS, others, now, polled>> /\ warms' \in Nat
  BY DEF warmReserve, Refuse, Inv
<1>2. CASE UNCHANGED <<totalBytes, plan>>
  BY <1>1, <1>2 DEF Inv, PlanOK, StoreLockstep, Reserved
<1>3. CASE /\ ~b.detached /\ ~plan.pending
           /\ totalBytes' = totalBytes + (newBytes - b.bytes)
           /\ plan' = [items |-> items, newBytes |-> newBytes,
                       oldBytes |-> b.bytes, pending |-> TRUE]
  <2>1. b.bytes \in Int BY BufferFields DEF Inv, WellFormed
  <2>2. /\ items \in Seq(Item)
        /\ \A i \in 1..Len(items) : items[i].seq = i
        /\ \A i, j \in 1..Len(items) :
             i # j /\ items[i].id # NoId => items[i].id # items[j].id
    <3>1. w \in Seq(Input) /\ ~DuplicateIds(w) BY BufferAssumption
    <3>2. now \in Nat BY DEF Inv
    <3> QED BY <3>1, <3>2, ReplacementItems
  <2>3. newBytes \in Int BY <2>2, SumsOfItems
  <2>4. newBytes = sumItemBytes(items) OBVIOUS
  <2> HIDE DEF items, newBytes
  <2>5. PlanOK' BY <1>3, <2>1, <2>2, <2>4 DEF PlanOK
  <2>6. Reserved = 0 /\ Reserved' = newBytes - b.bytes BY <1>3 DEF Reserved
  <2>7. StoreLockstep'
    <3>1. totalBytes = others + b.bytes /\ totalItems = Len(b.items)
      BY <1>3, <2>1, <2>6 DEF Inv, StoreLockstep
    <3>2. others \in Int BY DEF Inv
    <3>3. totalBytes' = others + (newBytes - b.bytes) + b.bytes
      BY <1>3, <2>1, <2>3, <3>1, <3>2
    <3> QED BY <1>1, <1>3, <2>6, <3>1, <3>3 DEF StoreLockstep
  <2>8. totalBytes' \in Int BY <1>3, <2>1, <2>3 DEF Inv
  <2> QED BY <1>1, <1>3, <2>5, <2>7, <2>8 DEF Inv
<1> QED BY <1>2, <1>3 DEF warmReserve, Refuse

(***************************************************************************)
(* The commit of a /warm, after whatever the scope's callers did since the *)
(* reservation.                                                            *)
(***************************************************************************)
LEMMA WarmCommitKeepsInv ==
    ASSUME Inv, commitReplacementPreReserved
    PROVE  Inv'
<1> DEFINE new == commitItems(b, plan.items, plan.newBytes, now)
<1>1. /\ b \in Buffer /\ now \in Nat /\ PlanOK /\ plan.pending /\ ~b.detached
      /\ b.maxItems = MaxItems
  BY DEF Inv, WellFormed, commitReplacementPreReserved
<1>2. WellFormed(new)
  BY <1>1, CommitKeepsWellFormed DEF PlanOK
<1>3. /\ new.bytes = plan.newBytes /\ new.items = plan.items
      /\ new.maxItems = b.maxItems /\ new.detached = b.detached
  BY <1>1 DEF commitItems, Buffer
<1> HIDE DEF new
<1>4. /\ b' = new /\ totalBytes' = totalBytes + -(b.bytes - plan.oldBytes)
      /\ totalItems' = totalItems + (Len(plan.items) - Len(b.items))
      /\ plan' = NoPlan /\ UNCHANGED <<others, warms, now, polled>>
  BY DEF commitReplacementPreReserved, Commit, new
<1>5. cells' \in Heaps BY CollectedType DEF commitReplacementPreReserved, Commit, Inv
<1>6. storeTS' \in Nat BY BumpType DEF commitReplacementPreReserved
<1>7. /\ b.bytes \in Int /\ plan.oldBytes \in Int /\ plan.newBytes \in Int
      /\ others \in Int /\ Len(b.items) \in Int /\ Len(plan.items) \in Int
  <2>1. b.bytes \in Int /\ b.items \in Seq(Item) BY <1>1, BufferFields
  <2>2. plan.oldBytes \in Int /\ plan.items \in Seq(Item) BY <1>1 DEF PlanOK
  <2>3. plan.newBytes \in Int BY <1>1, <2>2, SumsOfItems DEF PlanOK
  <2> QED BY <2>1, <2>2, <2>3 DEF Inv
<1>8. /\ totalBytes = others + (plan.newBytes - plan.oldBytes) + b.bytes
      /\ totalItems = Len(b.items)
  BY <1>1 DEF Inv, StoreLockstep, Reserved
<1>9. totalBytes' = others + plan.newBytes /\ totalItems' = Len(plan.items)
  BY <1>4, <1>7, <1>8
<1>10. PlanOK' /\ ~plan'.pending
  <2>1. <<>> \in Seq(Item) /\ Len(<<>>) = 0 OBVIOUS
  <2>2. sumItemBytes(<<>>) = SumTo(Sizes(<<>>))[0] BY <2>1, SumsOfItems
  <2>3. sumItemBytes(<<>>) = 0 BY <2>2, SumToEquation
  <2> QED BY <1>4, <2>1, <2>3 DEF NoPlan, PlanOK
<1>11. StoreLockstep'
  <2>1. Reserved' = 0 BY <1>10 DEF Reserved
  <2>2. totalBytes' = others' + 0 + b'.bytes BY <1>3, <1>4, <1>7, <1>9
  <2>3. ~b'.detached BY <1>1, <1>3, <1>4
  <2>4. totalItems' = Len(b'.items) BY <1>3, <1>4, <1>9
  <2> QED BY <2>1, <2>2, <2>3, <2>4 DEF StoreLockstep
<1>12. totalBytes' \in Int /\ totalItems' \in Int BY <1>7, <1>9
<1> QED BY <1>1, <1>2, <1>3, <1>4, <1>5, <1>6, <1>10, <1>11, <1>12 DEF Inv

(***************************************************************************)
(* deleteScope: the buffer is cut off and its bytes are released.          *)
(***************************************************************************)
LEMMA DeleteScopeKeepsInv ==
    ASSUME Inv, deleteScope
    PROVE  Inv'
<1>1. /\ ~b.detached /\ ~plan.pending
      /\ b' = [b EXCEPT !.detached = TRUE]
      /\ totalBytes' = totalBytes - b.bytes /\ totalItems' = totalItems - Len(b.items)
      /\ UNCHANGED <<cells, others, plan, warms, now, polled>>
  BY DEF deleteScope
<1>2. WellFormed(b) /\ b \in Buffer BY DEF Inv, WellFormed
<1>3. WellFormed(b') /\ b'.detached /\ b'.maxItems = MaxItems
  <2>1. WellFormed(b') BY <1>1, <1>2, StampKeepsWellFormed
  <2>2. b'.detached /\ b'.maxItems = b.maxItems BY <1>1, <1>2 DEF Buffer
  <2> QED BY <2>1, <2>2 DEF Inv
<1>4. b.bytes \in Int /\ Len(b.items) \in Int /\ others \in Int
  BY <1>2, BufferFields DEF Inv
<1>5. Reserved = 0 /\ Reserved' = 0 BY <1>1 DEF Reserved
<1>6. totalBytes = others + 0 + b.bytes /\ totalItems = Len(b.items)
  BY <1>1, <1>5 DEF Inv, StoreLockstep
<1>7. totalBytes' = others + 0 /\ totalItems' = 0 BY <1>1, <1>4, <1>6
<1>8. StoreLockstep' BY <1>1, <1>3, <1>4, <1>5, <1>7 DEF StoreLockstep
<1>9. storeTS' \in Nat BY BumpType DEF deleteScope
<1>10. PlanOK' BY <1>1 DEF Inv, PlanOK
<1>11. totalBytes' \in Int /\ totalItems' \in Int BY <1>4, <1>7
<1> QED BY <1>1, <1>3, <1>8, <1>9, <1>10, <1>11 DEF Inv

(***************************************************************************)
(* Writes elsewhere in the store.                                          *)
(***************************************************************************)
LEMMA OtherScopesKeepsInv ==
    ASSUME Inv, NEW d \in OtherDeltas, otherScopes(d)
    PROVE  Inv'
<1>1. /\ others' = others + d /\ others' >= 0 /\ totalBytes' = totalBytes + d
      /\ UNCHANGED <<b, cells, totalItems, storeTS, plan, warms, now, polled>>
  BY DEF otherScopes
<1>2. d \in Int /\ others \in Int /\ totalBytes \in Int /\ b.bytes \in Int
  BY BufferAssumption, BufferFields DEF Inv, WellFormed
<1>3. others' \in Nat /\ totalBytes' \in Int BY <1>1, <1>2
<1>4. Reserved' = Reserved /\ Reserved \in Int /\ PlanOK'
  BY <1>1, ReservedType DEF Reserved, Inv, PlanOK
<1>5. StoreLockstep' BY <1>1, <1>2, <1>4 DEF Inv, StoreLockstep
<1> QED BY <1>1, <1>3, <1>4, <1>5 DEF Inv

-----------------------------------------------------------------------------
(* The invariant. *)

(***************************************************************************)
(* Each call of a client keeps Inv.                                        *)
(***************************************************************************)
LEMMA CallsKeepInv ==
    ASSUME Inv
    PROVE  /\ \A in \in Input : appendItem(in) \/ upsertByID(in) => Inv'
           /\ \A id \in Ids, p \in Payloads : updateByID(id, p) => Inv'
           /\ \A s \in Seqs, p \in Payloads : updateBySeq(s, p) => Inv'
           /\ \A id \in Ids, by \in Increments : counterAdd(id, by) => Inv'
           /\ \A id \in Ids : deleteByID(id) => Inv'
           /\ \A s \in Seqs : deleteBySeq(s) \/ deleteUpToSeq(s) => Inv'
<1>1. ASSUME NEW in \in Input, appendItem(in) PROVE Inv'
  <2>1. BufferCall BY <1>1 DEF appendItem
  <2>2. CASE appendRefusal(in) # "none" /\ Refuse("append", appendRefusal(in))
    BY <2>1, <2>2, IdleKeepsInv DEF Refuse
  <2>3. CASE appendRefusal(in) = "none" /\ InsertNew(in)
    BY <2>1, <2>3, InsertNewKeepsInv DEF appendRefusal
  <2> QED BY <1>1, <2>2, <2>3 DEF appendItem
<1>2. ASSUME NEW in \in Input, upsertByID(in) PROVE Inv'
  <2>1. BufferCall BY <1>2 DEF upsertByID
  <2>2. CASE UNCHANGED <<b, cells, totalBytes, totalItems, storeTS>>
    BY <2>1, <2>2, IdleKeepsInv
  <2>3. CASE /\ ~b.detached /\ in.id \in DOMAIN b.byID
             /\ ReplacePayload(b.byID[in.id], in.payload)
    <3>1. in.payload \in Payloads BY DEF Input
    <3> QED BY <2>1, <2>3, <3>1, ReplacePayloadKeepsInv
  <2>4. CASE ~b.detached /\ in.id \notin DOMAIN b.byID /\ InsertNew(in)
    BY <2>1, <2>4, InsertNewKeepsInv
  <2> QED BY <1>2, <2>2, <2>3, <2>4 DEF upsertByID, Refuse
<1>3. ASSUME NEW id \in Ids, NEW p \in Payloads, updateByID(id, p) PROVE Inv'
  <2>1. BufferCall BY <1>3 DEF updateByID
  <2>2. CASE UNCHANGED <<b, cells, totalBytes, totalItems, storeTS>>
    BY <2>1, <2>2, IdleKeepsInv
  <2>3. CASE /\ ~b.detached /\ id \in DOMAIN b.byID /\ ReplacePayload(b.byID[id], p)
    BY <2>1, <2>3, ReplacePayloadKeepsInv
  <2> QED BY <1>3, <2>2, <2>3 DEF updateByID, UpdateExisting, Refuse, Miss
<1>4. ASSUME NEW s \in Seqs, NEW p \in Payloads, updateBySeq(s, p) PROVE Inv'
  <2>1. BufferCall BY <1>4 DEF updateBySeq
  <2>2. CASE UNCHANGED <<b, cells, totalBytes, totalItems, storeTS>>
    BY <2>1, <2>2, IdleKeepsInv
  <2>3. CASE /\ ~b.detached /\ s \in DOMAIN b.bySeq /\ ReplacePayload(b.bySeq[s], p)
    BY <2>1, <2>3, ReplacePayloadKeepsInv
  <2> QED BY <1>4, <2>2, <2>3 DEF updateBySeq, UpdateExisting, Refuse, Miss
<1>5. ASSUME NEW id \in Ids, NEW by \in Increments, counterAdd(id, by) PROVE Inv'
  <2>1. BufferCall /\ by \in Int BY <1>5, BufferAssumption DEF counterAdd
  <2>2. CASE UNCHANGED <<b, cells, totalBytes, totalItems, storeTS>>
    BY <2>1, <2>2, IdleKeepsInv
  <2>3. CASE /\ ~b.detached /\ id \in DOMAIN b.byID /\ b.byID[id].counter # NoCell
             /\ atomicCounterAdd(b.byID[id].counter, by)
    <3>1. WellFormed(b) /\ b \in Buffer BY DEF Inv, WellFormed
    <3>2. b.byID[id] \in Item BY <2>3, <3>1, BufferFields, LookupFinds
    <3>3. b.byID[id].counter \in Cells BY <2>3, <3>2 DEF Item
    <3> QED BY <2>1, <2>3, <3>3, AtomicAddKeepsInv
  <2>4. CASE /\ ~b.detached /\ id \in DOMAIN b.byID /\ b.byID[id].counter = NoCell
             /\ HeapHasRoom /\ promote(b.byID[id], by)
    BY <2>1, <2>4, PromoteKeepsInv
  <2>5. CASE ~b.detached /\ id \notin DOMAIN b.byID /\ HeapHasRoom /\ createCounter(id, by)
    BY <2>1, <2>5, CreateCounterKeepsInv
  <2> QED BY <1>5, <2>2, <2>3, <2>4, <2>5 DEF counterAdd, counterAddSlow, Refuse
<1>6. ASSUME NEW id \in Ids, deleteByID(id) PROVE Inv'
  <2>1. BufferCall BY <1>6 DEF deleteByID
  <2>2. CASE UNCHANGED <<b, cells, totalBytes, totalItems, storeTS>>
    BY <2>1, <2>2, IdleKeepsInv
  <2>3. CASE ~b.detached /\ id \in DOMAIN b.byID /\ DeleteItem(b.byID[id].seq)
    BY <2>1, <2>3, DeleteItemKeepsInv
  <2> QED BY <1>6, <2>2, <2>3 DEF deleteByID, Refuse, Miss
<1>7. ASSUME NEW s \in Seqs, deleteBySeq(s) PROVE Inv'
  <2>1. BufferCall BY <1>7 DEF deleteBySeq
  <2>2. CASE UNCHANGED <<b, cells, totalBytes, totalItems, storeTS>>
    BY <2>1, <2>2, IdleKeepsInv
  <2>3. CASE ~b.detached /\ s \in DOMAIN b.bySeq /\ DeleteItem(s)
    <3>1. b.bySeq[s].seq = s BY <2>3 DEF Inv, WellFormed, Coherent
    <3> QED BY <2>1, <2>3, <3>1, DeleteItemKeepsInv
  <2> QED BY <1>7, <2>2, <2>3 DEF deleteBySeq, Refuse, Miss
<1>8. ASSUME NEW s \in Seqs, deleteUpToSeq(s) PROVE Inv'
  BY <1>8, DrainKeepsInv, BufferAssumption DEF Seqs
<1> QED BY <1>1, <1>2, <1>3, <1>4, <1>5, <1>6, <1>7, <1>8

(***************************************************************************)
(* A fresh scope satisfies Inv.                                            *)
(***************************************************************************)
LEMMA InitInv == Init => Inv
<1> SUFFICES ASSUME Init PROVE Inv OBVIOUS
<1>1. WellFormed(b) BY BufferAssumption, NewBufferWellFormed DEF Init
<1>2. /\ b.maxItems = MaxItems /\ ~b.detached /\ b.bytes = 0 /\ b.items = <<>>
  BY DEF Init, newscopeBuffer
<1>3. cells \in Heaps BY DEF Init, EmptyCell, Heaps
<1>4. PlanOK /\ ~plan.pending
  <2>1. <<>> \in Seq(Item) /\ Len(<<>>) = 0 OBVIOUS
  <2>2. sumItemBytes(<<>>) = SumTo(Sizes(<<>>))[0] BY <2>1, SumsOfItems
  <2>3. sumItemBytes(<<>>) = 0 BY <2>2, SumToEquation
  <2> QED BY <2>1, <2>3 DEF Init, NoPlan, PlanOK
<1>5. StoreLockstep BY <1>2, <1>4 DEF Init, StoreLockstep, Reserved
<1>6. polled.held \in BOOLEAN /\ polled.ts \in Nat BY DEF Init, NoPoll
<1> QED BY <1>1, <1>2, <1>3, <1>4, <1>5, <1>6 DEF Init, Inv

(***************************************************************************)
(* Every step keeps Inv.                                                   *)
(***************************************************************************)
LEMMA NextInv == Inv /\ [Next]_vars => Inv'
<1> SUFFICES ASSUME Inv, [Next]_vars PROVE Inv' OBVIOUS
<1>1. ASSUME NEW w \in WarmInputs, warmReserve(w) PROVE Inv' BY <1>1, WarmReserveKeepsInv
<1>2. ASSUME commitReplacementPreReserved PROVE Inv' BY <1>2, WarmCommitKeepsInv
<1>3. ASSUME deleteScope PROVE Inv' BY <1>3, DeleteScopeKeepsInv
<1>4. ASSUME NEW d \in OtherDeltas, otherScopes(d) PROVE Inv' BY <1>4, OtherScopesKeepsInv
<1>5. CASE Tick \/ Poll
  <2>1. UNCHANGED <<b, cells, totalBytes, totalItems, storeTS, others, plan, warms>>
    BY <1>5 DEF Tick, Poll
  <2>2. now' \in Nat
    <3>1. MaxNow \in Nat /\ now \in Nat BY BufferAssumption DEF Inv
    <3>2. CASE Tick BY <3>1, <3>2 DEF Tick
    <3>3. CASE Poll BY <3>1, <3>3 DEF Poll
    <3> QED BY <1>5, <3>2, <3>3
  <2>3. polled'.held \in BOOLEAN /\ polled'.ts \in Nat
    <3>1. b.lastWriteTS \in Nat BY BufferFields DEF Inv, WellFormed
    <3>2. polled.held \in BOOLEAN /\ polled.ts \in Nat BY DEF Inv
    <3>3. CASE Tick
      <4>1. polled' = polled \/ polled' = NoPoll BY <3>3 DEF Tick
      <4>2. CASE polled' = NoPoll BY <4>2 DEF NoPoll
      <4>3. CASE polled' = polled
        <5>1. polled'.held = polled.held /\ polled'.ts = polled.ts BY <4>3
        <5> QED BY <3>2, <5>1
      <4> QED BY <4>1, <4>2, <4>3
    <3>4. CASE Poll
      <4>1. polled' = [held |-> TRUE, ts |-> b.lastWriteTS,
                       items |-> RegularContent(b.items)]
        BY <3>4 DEF Poll
      <4>2. polled'.held = TRUE /\ polled'.ts = b.lastWriteTS BY <4>1
      <4> QED BY <3>1, <4>2
    <3> QED BY <1>5, <3>3, <3>4
  <2> QED BY <2>1, <2>2, <2>3 DEF Inv, PlanOK, StoreLockstep, Reserved
<1>6. CASE UNCHANGED vars BY <1>6 DEF vars, Inv, PlanOK, StoreLockstep, Reserved
<1> QED BY <1>1, <1>2, <1>3, <1>4, <1>5, <1>6, CallsKeepInv DEF Next

(***************************************************************************)
(* Inv holds in every reachable state.                                     *)
(***************************************************************************)
THEOREM Invariance == Spec => []Inv
BY InitInv, NextInv, PTL DEF Spec

-----------------------------------------------------------------------------
(* What it means for the buffer and the store. *)

(***************************************************************************)
(* Type correctness: whatever a scope's callers do, the slice and the maps *)
(* hold items that are regular or counter-shaped, never half of each.      *)
(***************************************************************************)
THEOREM TypeCorrect == Spec => []TypeOK
<1>1. Inv => TypeOK
  <2> SUFFICES ASSUME Inv PROVE TypeOK OBVIOUS
  <2>1. b \in Buffer BY DEF Inv, WellFormed
  <2>2. DOMAIN b.byID \subseteq Ids /\ \A k \in DOMAIN b.byID : b.byID[k] \in Item
    <3>1. b.byID \in IdMaps BY <2>1, BufferFields
    <3> QED BY <3>1 DEF IdMaps
  <2>3. DOMAIN b.bySeq \subseteq Nat /\ \A s \in DOMAIN b.bySeq : b.bySeq[s] \in Item
    <3>1. b.bySeq \in SeqMaps BY <2>1, BufferFields
    <3> QED BY <3>1 DEF SeqMaps
  <2>4. plan.newBytes \in Int BY SumsOfItems DEF Inv, PlanOK
  <2> QED BY <2>1, <2>2, <2>3, <2>4, BufferFields DEF Inv, PlanOK, Heaps, TypeOK
<1> QED BY <1>1, Invariance, PTL

(***************************************************************************)
(* The precondition of every binary search of the buffer: seqs ascend and  *)
(* stay at or below lastSeq, through drains, promotes and replacements.    *)
(***************************************************************************)
THEOREM SeqsAlwaysAscend == Spec => []SeqsAscending
<1>1. Inv => SeqsAscending BY DEF Inv, WellFormed, Ascending, SeqsAscending
<1> QED BY <1>1, Invariance, PTL

(***************************************************************************)
(* No read through byID or bySeq returns a copy the slice no longer has.   *)
(***************************************************************************)
THEOREM IndexesAlwaysCoherent == Spec => []IndexCoherent
<1>1. Inv => IndexCoherent BY DEF Inv, WellFormed, Coherent, IndexCoherent, LiveSeqs
<1> QED BY <1>1, Invariance, PTL

(***************************************************************************)
(* b.bytes, kept by deltas, never drifts from the sum over the items.      *)
(***************************************************************************)
THEOREM BytesAlwaysExact == Spec => []BytesExact
<1>1. Inv => BytesExact BY DEF Inv, WellFormed, BytesExact
<1> QED BY <1>1, Invariance, PTL

(***************************************************************************)
(* Nor does b.idKeyBytes, on the paths that do not go through /rebuild.    *)
(***************************************************************************)
THEOREM IdKeyBytesAlwaysExact == Spec => []IdKeyBytesExact
<1>1. Inv => IdKeyBytesExact BY DEF Inv, WellFormed, IdKeyBytesExact
<1> QED BY <1>1, Invariance, PTL

(***************************************************************************)
(* The store's counters follow the scope for any number of callers between *)
(* a /warm's reservation and its commit, and drop to nothing with it.      *)
(***************************************************************************)
THEOREM StoreAlwaysInStep == Spec => []StoreLockstep
<1>1. Inv => StoreLockstep BY DEF Inv
<1> QED BY <1>1, Invariance, PTL

-----------------------------------------------------------------------------
(* What a step may do to the items: it leaves them alone (Quiet), writes *)
(* one (Writes), removes some (Removes) or swaps in a /warm batch (Swaps). *)

Among(item, items) == \E i \in 1..Len(items) : items[i] = item

\* x takes a seq above the cursor, or the seq and id of an item that is there.
Placed(x) ==
    \/ x.seq > b.lastSeq
    \/ \E i \in 1..Len(b.items) : b.items[i].seq = x.seq /\ b.items[i].id = x.id

Quiet == UNCHANGED <<b.items, b.lastSeq, b.lastWriteTS>>

\* Every item stays, or x took its place under the same seq and id.
Keeps(x) ==
    \A i \in 1..Len(b.items) :
        \/ Among(b.items[i], b'.items)
        \/ Among(x, b'.items) /\ x.seq = b.items[i].seq /\ x.id = b.items[i].id

Writes(x) ==
    /\ \A j \in 1..Len(b'.items) : b'.items[j] = x \/ Among(b'.items[j], b.items)
    /\ Placed(x) /\ Keeps(x) /\ b'.lastSeq >= b.lastSeq
    /\ approxItemSize(x) <= MaxItemBytes
    /\ b'.lastWriteTS = IF x.counter = NoCell THEN now ELSE b.lastWriteTS

Removes ==
    /\ \A j \in 1..Len(b'.items) : Among(b'.items[j], b.items)
    /\ b'.lastSeq = b.lastSeq /\ b'.lastWriteTS = now

Swaps ==
    /\ commitReplacementPreReserved
    /\ b'.items = plan.items /\ b'.lastWriteTS = now

\* The bytes do not grow, or stay within the cap, or a /warm has run.
Capped == totalBytes' <= totalBytes \/ totalBytes' <= MaxStoreBytes \/ warms' > 0

Effect ==
    /\ Quiet \/ Removes \/ Swaps \/ \E x \in Item : Writes(x)
    /\ Capped

-----------------------------------------------------------------------------
(* Arithmetic. *)

(***************************************************************************)
(* A sum of item sizes is not negative.                                    *)
(***************************************************************************)
LEMMA SumOfSizesNat ==
    ASSUME NEW items \in Seq(Item)
    PROVE  sumItemBytes(items) \in Nat
<1> DEFINE f == Sizes(items)
           n == Len(items)
           S == {k \in Nat : k <= n => SumTo(f)[k] \in Nat}
<1>1. n \in Nat /\ \A i \in 1..n : f[i] \in Nat BY SumsOfItems
<1>2. sumItemBytes(items) = SumTo(f)[n] BY SumsOfItems
<1> HIDE DEF f, n
<1>3. 0 \in S BY SumToEquation
<1>4. ASSUME NEW k \in Nat, k \in S PROVE k + 1 \in S
  <2> SUFFICES ASSUME k + 1 <= n PROVE SumTo(f)[k + 1] \in Nat OBVIOUS
  <2>1. SumTo(f)[k + 1] = SumTo(f)[k] + f[k + 1] BY SumToEquation
  <2>2. SumTo(f)[k] \in Nat /\ f[k + 1] \in Nat BY <1>1, <1>4
  <2> QED BY <2>1, <2>2
<1> HIDE DEF S
<1>5. Nat \subseteq S BY <1>3, <1>4, NatSetInduction
<1> QED BY <1>1, <1>2, <1>5 DEF S

(***************************************************************************)
(* A reservation stays within the cap, a release does not grow the store.  *)
(***************************************************************************)
LEMMA ReserveIsCapped ==
    ASSUME NEW d \in Int, totalBytes \in Int, canReserve(d), totalBytes' = totalBytes + d
    PROVE  Capped
BY BufferAssumption DEF canReserve, Capped

(***************************************************************************)
(* A call that changes nothing.                                            *)
(***************************************************************************)
LEMMA IdleEffect ==
    ASSUME Inv, UNCHANGED <<b, totalBytes>> PROVE Effect
BY DEF Inv, Effect, Quiet, Capped

-----------------------------------------------------------------------------
(* Writes. *)

(***************************************************************************)
(* An append leaves every item where it was.                               *)
(***************************************************************************)
LEMMA AppendKeeps ==
    ASSUME b.items \in Seq(Item), NEW x \in Item, b'.items = Append(b.items, x)
    PROVE  Keeps(x)
<1>1. Len(b'.items) = Len(b.items) + 1 OBVIOUS
<1>2. \A i \in 1..Len(b.items) : b'.items[i] = b.items[i] OBVIOUS
<1>3. Len(b.items) \in Nat OBVIOUS
<1> QED BY <1>1, <1>2, <1>3 DEF Keeps, Among

(***************************************************************************)
(* insertNewItemLocked writes the item the client sent.                    *)
(***************************************************************************)
LEMMA InsertEffect ==
    ASSUME Inv, NEW in \in Input, checkItemSize(in), InsertNew(in),
           canReserve(approxItemSize(newItem(b, in, now)))
    PROVE  Effect
<1> DEFINE x == newItem(b, in, now)
<1>1. b \in Buffer /\ now \in Nat /\ b.lastSeq \in Nat /\ b.items \in Seq(Item)
  BY BufferFields DEF Inv, WellFormed
<1>2. /\ x \in Item /\ x.seq = b.lastSeq + 1 /\ x.counter = NoCell /\ x.ts = now
      /\ x.id = in.id /\ x.payload = in.payload
  BY <1>1, DataAssumption DEF newItem, Item, Input
<1>3. approxItemSize(x) <= MaxItemBytes
  BY <1>2 DEF checkItemSize, approxItemSize, payloadAndRenderBytes
<1>4. b' = insertNewItemLocked(b, in, now) /\ totalBytes' = totalBytes + approxItemSize(x)
  BY DEF InsertNew, Commit
<1>5. b' = [insertItem(b, x) EXCEPT !.lastWriteTS = now] BY <1>4 DEF insertNewItemLocked
<1>6. canReserve(approxItemSize(x)) OBVIOUS
<1> HIDE DEF x
<1>7. /\ b'.items = Append(b.items, x) /\ b'.lastSeq = b.lastSeq + 1
      /\ b'.lastWriteTS = now
  BY <1>1, <1>2, <1>5 DEF insertItem, Buffer
<1>8. Keeps(x) BY <1>1, <1>2, <1>7, AppendKeeps
<1>9. \A j \in 1..Len(b'.items) : b'.items[j] = x \/ Among(b'.items[j], b.items)
  BY <1>1, <1>2, <1>7 DEF Among
<1>10. Placed(x) /\ b'.lastSeq >= b.lastSeq BY <1>1, <1>2, <1>7 DEF Placed
<1>11. Writes(x) BY <1>2, <1>3, <1>7, <1>8, <1>9, <1>10 DEF Writes
<1>12. Capped
  <2>1. approxItemSize(x) \in Int BY <1>2, SizeType
  <2> QED BY <1>4, <1>6, <2>1, ReserveIsCapped DEF Inv
<1> QED BY <1>2, <1>11, <1>12 DEF Effect

(***************************************************************************)
(* Overwriting the slot of a live item: the seq and id stay, the other     *)
(* items too.                                                              *)
(***************************************************************************)
LEMMA OverwritePlaces ==
    ASSUME NEW i \in 1..Len(b.items), b.items \in Seq(Item), NEW x \in Item,
           x.seq = b.items[i].seq, x.id = b.items[i].id,
           b'.items = [b.items EXCEPT ![i] = x]
    PROVE  /\ \A j \in 1..Len(b'.items) : b'.items[j] = x \/ Among(b'.items[j], b.items)
           /\ Placed(x) /\ Keeps(x)
<1>1. Len(b'.items) = Len(b.items) OBVIOUS
<1>2. \A j \in 1..Len(b.items) : b'.items[j] = IF j = i THEN x ELSE b.items[j] OBVIOUS
<1>3. Keeps(x) BY <1>1, <1>2 DEF Keeps, Among
<1> QED BY <1>1, <1>2, <1>3 DEF Among, Placed

(***************************************************************************)
(* replaceItemAtIndexLocked rewrites an item a map returned, as a regular  *)
(* item of the size the caller has checked.                                *)
(***************************************************************************)
LEMMA ReplaceEffect ==
    ASSUME Inv, NEW payload \in Payloads, NEW existing,
           \/ \E k \in DOMAIN b.byID : existing = b.byID[k]
           \/ \E s \in DOMAIN b.bySeq : existing = b.bySeq[s],
           approxItemSize(replacedItem(existing, payload, now)) <= MaxItemBytes,
           canReserve(payloadDelta(existing, payload)),
           ReplacePayload(existing, payload)
    PROVE  Effect
<1> DEFINE i == SearchAtLeast(b.items, existing.seq)
           d == payloadDelta(existing, payload)
           x == replacedItem(existing, payload, now)
<1>1. /\ WellFormed(b) /\ b \in Buffer /\ now \in Nat /\ b.lastSeq \in Nat
      /\ b.items \in Seq(Item)
  BY BufferFields DEF Inv, WellFormed
<1>2. i \in 1..Len(b.items) /\ b.items[i] = existing BY <1>1, LookupFinds
<1>3. existing \in Item BY <1>1, <1>2
<1>4. /\ x \in Item /\ x.seq = existing.seq /\ x.id = existing.id
      /\ x.counter = NoCell /\ x.ts = now
  BY <1>1, <1>3, DataAssumption DEF replacedItem, Item
<1>5. d \in Int
  <2>1. PayloadBytes[payload] \in Int BY DataAssumption
  <2>2. payloadAndRenderBytes(existing) \in Int
    BY <1>3, DataAssumption DEF payloadAndRenderBytes, Item
  <2> QED BY <2>1, <2>2 DEF payloadDelta
<1>6. b' = replaceItemAtIndexLocked(b, i, payload, now, d) /\ totalBytes' = totalBytes + d
  BY DEF ReplacePayload, Commit
<1>7. b' = [setItemAt(b, i, x, d) EXCEPT !.lastWriteTS = now]
  BY <1>2, <1>6 DEF replaceItemAtIndexLocked
<1>8. approxItemSize(x) <= MaxItemBytes /\ canReserve(d) OBVIOUS
<1> HIDE DEF i, d, x
<1>9. /\ b'.items = [b.items EXCEPT ![i] = x] /\ b'.lastSeq = b.lastSeq
      /\ b'.lastWriteTS = now
  BY <1>1, <1>7 DEF setItemAt, Buffer
<1>10. Writes(x) BY <1>1, <1>2, <1>4, <1>8, <1>9, OverwritePlaces DEF Writes
<1>11. Capped BY <1>5, <1>6, <1>8, ReserveIsCapped DEF Inv
<1> QED BY <1>4, <1>10, <1>11 DEF Effect

(***************************************************************************)
(* A promote turns a live item into a counter under the same seq and id.   *)
(***************************************************************************)
LEMMA PromoteEffect ==
    ASSUME Inv, HeapHasRoom, NEW id \in Ids, id \in DOMAIN b.byID, NEW by \in Int,
           ItemOverhead + IdLen[id] + CounterCellOverhead <= MaxItemBytes,
           promote(b.byID[id], by)
    PROVE  Effect
<1> DEFINE existing == b.byID[id]
           x == promotedItem(existing, FreshCell)
           d == approxItemSize(x) - approxItemSize(existing)
           i == SearchAtLeast(b.items, existing.seq)
           value == PayloadInt[existing.payload] + by
<1>1. /\ WellFormed(b) /\ b \in Buffer /\ now \in Nat /\ b.lastSeq \in Nat
      /\ b.items \in Seq(Item)
  BY BufferFields DEF Inv, WellFormed
<1>2. i \in 1..Len(b.items) /\ b.items[i] = existing BY <1>1, LookupFinds
<1>3. existing \in Item /\ existing.id = id
  BY <1>1, <1>2 DEF WellFormed, Coherent
<1>4. CASE UNCHANGED <<b, totalBytes>> BY <1>4, IdleEffect
<1>5. CASE /\ canReserve(d)
           /\ Commit(promoteAt(b, i, existing, FreshCell, d),
                     WithCell(FreshCell, value), d, 0)
           /\ UNCHANGED storeTS
  <2>1. FreshCell \in Cells BY FreshCellType
  <2>2. /\ x \in Item /\ x.seq = existing.seq /\ x.id = id
        /\ x.counter = FreshCell /\ x.counter # NoCell
    BY <1>3, <2>1, DataAssumption DEF promotedItem, Item
  <2>3. approxItemSize(x) <= MaxItemBytes
    BY <2>2 DEF approxItemSize, payloadAndRenderBytes
  <2>4. d \in Int
    <3>1. approxItemSize(x) \in Int /\ approxItemSize(existing) \in Int
      BY <1>3, <2>2, SizeType
    <3> QED BY <3>1
  <2>5. b' = setItemAt(b, i, x, d) /\ totalBytes' = totalBytes + d
    BY <1>5 DEF Commit, promoteAt
  <2> HIDE DEF i, d, x, existing, value
  <2>6. /\ b'.items = [b.items EXCEPT ![i] = x] /\ b'.lastSeq = b.lastSeq
        /\ b'.lastWriteTS = b.lastWriteTS
    BY <1>1, <2>5 DEF setItemAt, Buffer
  <2>7. Writes(x)
    <3>1. x.seq = b.items[i].seq /\ x.id = b.items[i].id BY <1>2, <1>3, <2>2
    <3>2. /\ \A j \in 1..Len(b'.items) : b'.items[j] = x \/ Among(b'.items[j], b.items)
          /\ Placed(x) /\ Keeps(x)
      BY <1>1, <1>2, <2>2, <2>6, <3>1, OverwritePlaces
    <3>3. b'.lastSeq >= b.lastSeq BY <1>1, <2>6
    <3> QED BY <2>2, <2>3, <2>6, <3>2, <3>3 DEF Writes
  <2>8. Capped BY <1>5, <2>4, <2>5, ReserveIsCapped DEF Inv
  <2> QED BY <2>2, <2>7, <2>8 DEF Effect
<1> QED BY <1>4, <1>5 DEF promote, Refuse

(***************************************************************************)
(* A new counter goes to the end, and leaves the scope's stamp alone.      *)
(***************************************************************************)
LEMMA CreateCounterEffect ==
    ASSUME Inv, HeapHasRoom, NEW id \in Ids, NEW by \in Int,
           ItemOverhead + IdLen[id] + CounterCellOverhead <= MaxItemBytes,
           createCounter(id, by)
    PROVE  Effect
<1> DEFINE x == counterItem(b, id, FreshCell, now)
           d == approxItemSize(x)
<1>1. b \in Buffer /\ now \in Nat /\ b.lastSeq \in Nat /\ b.items \in Seq(Item)
  BY BufferFields DEF Inv, WellFormed
<1>2. CASE UNCHANGED <<b, totalBytes>> BY <1>2, IdleEffect
<1>3. CASE /\ canReserve(d)
           /\ Commit(insertItem(b, x), WithCell(FreshCell, by), d, 1)
           /\ UNCHANGED storeTS
  <2>1. FreshCell \in Cells BY FreshCellType
  <2>2. /\ x \in Item /\ x.seq = b.lastSeq + 1 /\ x.id = id
        /\ x.counter = FreshCell /\ x.counter # NoCell
    BY <1>1, <2>1, DataAssumption DEF counterItem, Item
  <2>3. approxItemSize(x) <= MaxItemBytes
    BY <2>2 DEF approxItemSize, payloadAndRenderBytes
  <2>4. d \in Int BY <2>2, SizeType
  <2>5. b' = insertItem(b, x) /\ totalBytes' = totalBytes + d BY <1>3 DEF Commit
  <2> HIDE DEF x, d
  <2>6. /\ b'.items = Append(b.items, x) /\ b'.lastSeq = b.lastSeq + 1
        /\ b'.lastWriteTS = b.lastWriteTS
    BY <1>1, <2>2, <2>5 DEF insertItem, Buffer
  <2>7. \A j \in 1..Len(b'.items) : b'.items[j] = x \/ Among(b'.items[j], b.items)
    BY <1>1, <2>2, <2>6 DEF Among
  <2>8. /\ Placed(x) /\ b'.lastSeq >= b.lastSeq
        /\ Keeps(x)
    BY <1>1, <2>2, <2>6, AppendKeeps DEF Placed
  <2>9. Writes(x) BY <2>2, <2>3, <2>6, <2>7, <2>8 DEF Writes
  <2>10. Capped BY <1>3, <2>4, <2>5, ReserveIsCapped DEF Inv
  <2> QED BY <2>2, <2>9, <2>10 DEF Effect
<1> QED BY <1>2, <1>3 DEF createCounter, Refuse

-----------------------------------------------------------------------------
(* Removals. *)

(***************************************************************************)
(* Deleting one live item.                                                 *)
(***************************************************************************)
LEMMA DeleteEffect ==
    ASSUME Inv, NEW existing,
           \/ \E k \in DOMAIN b.byID : existing = b.byID[k]
           \/ \E s \in DOMAIN b.bySeq : existing = b.bySeq[s],
           DeleteItem(existing.seq)
    PROVE  Effect
<1> DEFINE i == SearchAtLeast(b.items, existing.seq)
           d == -approxItemSize(b.items[i])
<1>1. /\ WellFormed(b) /\ b \in Buffer /\ now \in Nat /\ b.lastSeq \in Nat
      /\ b.items \in Seq(Item)
  BY BufferFields DEF Inv, WellFormed
<1>2. i \in 1..Len(b.items) BY <1>1, LookupFinds
<1>3. b' = deleteIndexLocked(b, i, now) /\ totalBytes' = totalBytes + d
  BY DEF DeleteItem, Commit
<1> HIDE DEF i
<1>5. d \in Int /\ d <= 0
  <2>1. b.items[i] \in Item BY <1>1, <1>2
  <2>2. approxItemSize(b.items[i]) \in Nat BY <2>1, SizeType
  <2> QED BY <2>2
<1>6. /\ b'.items = CutAt(b.items, i) /\ b'.lastSeq = b.lastSeq /\ b'.lastWriteTS = now
  BY <1>1, <1>3 DEF deleteIndexLocked, resetIfEmptyLocked, Buffer
<1>7. \A j \in 1..Len(b'.items) : Among(b'.items[j], b.items)
  <2>1. /\ Len(CutAt(b.items, i)) = Len(b.items) - 1
        /\ \A j \in 1..(Len(b.items) - 1) :
             CutAt(b.items, i)[j] = IF j < i THEN b.items[j] ELSE b.items[j + 1]
    BY <1>1, <1>2 DEF CutAt
  <2> QED BY <1>1, <1>2, <1>6, <2>1 DEF Among
<1>8. Removes BY <1>6, <1>7 DEF Removes
<1>9. Capped
  <2>1. totalBytes \in Int BY DEF Inv
  <2> HIDE DEF d
  <2> QED BY <1>3, <1>5, <2>1 DEF Capped
<1> QED BY <1>8, <1>9 DEF Effect

(***************************************************************************)
(* Draining a prefix.                                                      *)
(***************************************************************************)
LEMMA DrainEffect ==
    ASSUME Inv, NEW maxSeq \in Nat, deleteUpToSeq(maxSeq)
    PROVE  Effect
<1> DEFINE n == SearchAbove(b.items, maxSeq) - 1
           gone == SubSeq(b.items, 1, n)
<1>1. /\ b \in Buffer /\ now \in Nat /\ b.lastSeq \in Nat /\ b.items \in Seq(Item)
  BY BufferFields DEF Inv, WellFormed
<1>2. n \in 0..Len(b.items)
  <2>1. maxSeq + 1 \in Int OBVIOUS
  <2>2. SearchAbove(b.items, maxSeq) \in 1..(Len(b.items) + 1)
    BY <1>1, <2>1, SearchAnswer DEF SearchAbove
  <2> HIDE DEF SearchAbove
  <2> QED BY <1>1, <2>2
<1> HIDE DEF n
<1>3. CASE UNCHANGED <<b, totalBytes>> BY <1>3, IdleEffect
<1>4. CASE Commit(deletePrefix(b, n, now), cells, -sumItemBytes(gone), -n)
           /\ bumpLastWriteTS(now)
  <2>1. b' = deletePrefix(b, n, now) /\ totalBytes' = totalBytes + -sumItemBytes(gone)
    BY <1>4 DEF Commit
  <2>2. gone \in Seq(Item) BY <1>1, <1>2
  <2>3. sumItemBytes(gone) \in Nat BY <2>2, SumOfSizesNat
  <2>4. /\ b'.items = SubSeq(b.items, n + 1, Len(b.items)) /\ b'.lastSeq = b.lastSeq
        /\ b'.lastWriteTS = now
    BY <1>1, <2>1 DEF deletePrefix, resetIfEmptyLocked, Buffer
  <2>5. \A j \in 1..Len(b'.items) : Among(b'.items[j], b.items)
    <3>1. /\ Len(b'.items) = Len(b.items) - n
          /\ \A j \in 1..(Len(b.items) - n) : b'.items[j] = b.items[n + j]
      BY <1>1, <1>2, <2>4
    <3>2. \A j \in 1..(Len(b.items) - n) : n + j \in 1..Len(b.items) BY <1>1, <1>2
    <3> QED BY <3>1, <3>2 DEF Among
  <2>6. Removes BY <2>4, <2>5 DEF Removes
  <2> HIDE DEF gone
  <2>7. Capped
    <3>1. totalBytes \in Int BY DEF Inv
    <3> QED BY <2>1, <2>3, <3>1 DEF Capped
  <2> QED BY <2>6, <2>7 DEF Effect
<1> QED BY <1>3, <1>4 DEF deleteUpToSeq, Refuse, Miss, n

-----------------------------------------------------------------------------
(* Every step. *)

(***************************************************************************)
(* What byID returns for an id is an item with that id.                    *)
(***************************************************************************)
LEMMA MappedItem ==
    ASSUME Inv, NEW id, id \in DOMAIN b.byID
    PROVE  b.byID[id] \in Item /\ b.byID[id].id = id
<1>1. WellFormed(b) /\ b.items \in Seq(Item) BY BufferFields DEF Inv, WellFormed
<1>2. PICK i \in 1..Len(b.items) : b.items[i].id = id /\ id # NoId
  BY <1>1 DEF WellFormed, Coherent
<1>3. b.byID[id] = b.items[i] BY <1>1, <1>2 DEF WellFormed, Coherent
<1>4. b.items[i] \in Item BY <1>1
<1> QED BY <1>2, <1>3, <1>4

(***************************************************************************)
(* validateWriteItem's size check, made on the item's own id, is a check of*)
(* the rewritten item.                                                     *)
(***************************************************************************)
LEMMA CheckedSize ==
    ASSUME NEW existing \in Item, NEW payload \in Payloads, NEW in,
           in.id = existing.id, in.payload = payload, checkItemSize(in)
    PROVE  approxItemSize(replacedItem(existing, payload, now)) <= MaxItemBytes
<1> DEFINE x == replacedItem(existing, payload, now)
<1>1. x.id = existing.id /\ x.counter = NoCell /\ x.payload = payload
  BY DEF replacedItem, Item
<1> HIDE DEF x
<1>2. approxItemSize(x) <= MaxItemBytes
  BY <1>1 DEF approxItemSize, payloadAndRenderBytes, checkItemSize
<1> QED BY <1>2 DEF x

(***************************************************************************)
(* Each call of a client has one of the four effects.                      *)
(***************************************************************************)
LEMMA CallsEffect ==
    ASSUME Inv
    PROVE  /\ \A in \in Input : appendItem(in) \/ upsertByID(in) => Effect
           /\ \A id \in Ids, p \in Payloads : updateByID(id, p) => Effect
           /\ \A s \in Seqs, p \in Payloads : updateBySeq(s, p) => Effect
           /\ \A id \in Ids, by \in Increments : counterAdd(id, by) => Effect
           /\ \A id \in Ids : deleteByID(id) => Effect
           /\ \A s \in Seqs : deleteBySeq(s) \/ deleteUpToSeq(s) => Effect
<1>1. ASSUME NEW in \in Input, appendItem(in) PROVE Effect
  <2>1. CASE appendRefusal(in) # "none" /\ Refuse("append", appendRefusal(in))
    BY <2>1, IdleEffect DEF Refuse
  <2>2. CASE appendRefusal(in) = "none" /\ InsertNew(in) /\ checkItemSize(in)
    <3>1. canReserve(approxItemSize(newItem(b, in, now))) BY <2>2 DEF appendRefusal
    <3> QED BY <2>2, <3>1, InsertEffect
  <2> QED BY <1>1, <2>1, <2>2 DEF appendItem
<1>2. ASSUME NEW in \in Input, upsertByID(in) PROVE Effect
  <2>1. CASE UNCHANGED <<b, totalBytes>> BY <2>1, IdleEffect
  <2>2. CASE /\ in.id \in DOMAIN b.byID /\ checkItemSize(in)
             /\ canReserve(payloadDelta(b.byID[in.id], in.payload))
             /\ ReplacePayload(b.byID[in.id], in.payload)
    <3>1. in.payload \in Payloads BY DEF Input
    <3>2. approxItemSize(replacedItem(b.byID[in.id], in.payload, now)) <= MaxItemBytes
      BY <2>2, <3>1, MappedItem, CheckedSize
    <3> QED BY <2>2, <3>1, <3>2, ReplaceEffect
  <2>3. CASE appendRefusal(in) = "none" /\ InsertNew(in) /\ checkItemSize(in)
    <3>1. canReserve(approxItemSize(newItem(b, in, now))) BY <2>3 DEF appendRefusal
    <3> QED BY <2>3, <3>1, InsertEffect
  <2> QED BY <1>2, <2>1, <2>2, <2>3 DEF upsertByID, Refuse
<1>3. ASSUME NEW id \in Ids, NEW p \in Payloads, updateByID(id, p) PROVE Effect
  <2>1. CASE UNCHANGED <<b, totalBytes>> BY <2>1, IdleEffect
  <2>2. CASE /\ id \in DOMAIN b.byID /\ checkItemSize([id |-> id, payload |-> p])
             /\ canReserve(payloadDelta(b.byID[id], p)) /\ ReplacePayload(b.byID[id], p)
    <3>1. approxItemSize(replacedItem(b.byID[id], p, now)) <= MaxItemBytes
      BY <2>2, MappedItem, CheckedSize
    <3> QED BY <2>2, <3>1, ReplaceEffect
  <2> QED BY <1>3, <2>1, <2>2 DEF updateByID, UpdateExisting, Refuse, Miss
<1>4. ASSUME NEW s \in Seqs, NEW p \in Payloads, updateBySeq(s, p) PROVE Effect
  <2>1. CASE UNCHANGED <<b, totalBytes>> BY <2>1, IdleEffect
  <2>2. CASE /\ s \in DOMAIN b.bySeq /\ ~exceedsItemCap(b.bySeq[s], p)
             /\ canReserve(payloadDelta(b.bySeq[s], p)) /\ ReplacePayload(b.bySeq[s], p)
    <3>1. b.bySeq[s] \in Item
      <4>1. WellFormed(b) /\ b.items \in Seq(Item) BY BufferFields DEF Inv, WellFormed
      <4>2. \E i \in 1..Len(b.items) : b.items[i] = b.bySeq[s]
        BY <2>2, <4>1 DEF WellFormed, Coherent
      <4> QED BY <4>1, <4>2
    <3>2. replacedItem(b.bySeq[s], p, now) \in Item
      BY <3>1, DataAssumption DEF replacedItem, Item, Inv
    <3>3. approxItemSize(replacedItem(b.bySeq[s], p, now)) <= MaxItemBytes
      <4>1. approxItemSize(replacedItem(b.bySeq[s], p, now)) \in Nat BY <3>2, SizeType
      <4>2. MaxItemBytes \in Nat BY BufferAssumption
      <4> QED BY <2>2, <4>1, <4>2 DEF exceedsItemCap
    <3> QED BY <2>2, <3>3, ReplaceEffect
  <2> QED BY <1>4, <2>1, <2>2 DEF updateBySeq, UpdateExisting, Refuse, Miss
<1>5. ASSUME NEW id \in Ids, NEW by \in Increments, counterAdd(id, by) PROVE Effect
  <2>1. by \in Int /\ ItemOverhead + IdLen[id] + CounterCellOverhead <= MaxItemBytes
    BY <1>5, BufferAssumption DEF counterAdd
  <2>2. CASE UNCHANGED <<b, totalBytes>> BY <2>2, IdleEffect
  <2>3. CASE id \in DOMAIN b.byID /\ HeapHasRoom /\ promote(b.byID[id], by)
    BY <2>1, <2>3, PromoteEffect
  <2>4. CASE HeapHasRoom /\ createCounter(id, by) BY <2>1, <2>4, CreateCounterEffect
  <2> QED BY <1>5, <2>2, <2>3, <2>4 DEF counterAdd, counterAddSlow, atomicCounterAdd, Refuse
<1>6. ASSUME NEW id \in Ids, deleteByID(id) PROVE Effect
  <2>1. CASE UNCHANGED <<b, totalBytes>> BY <2>1, IdleEffect
  <2>2. CASE id \in DOMAIN b.byID /\ DeleteItem(b.byID[id].seq) BY <2>2, DeleteEffect
  <2> QED BY <1>6, <2>1, <2>2 DEF deleteByID, Refuse, Miss
<1>7. ASSUME NEW s \in Seqs, deleteBySeq(s) PROVE Effect
  <2>1. CASE UNCHANGED <<b, totalBytes>> BY <2>1, IdleEffect
  <2>2. CASE s \in DOMAIN b.bySeq /\ DeleteItem(s)
    <3>1. b.bySeq[s].seq = s BY <2>2 DEF Inv, WellFormed, Coherent
    <3> QED BY <2>2, <3>1, DeleteEffect
  <2> QED BY <1>7, <2>1, <2>2 DEF deleteBySeq, Refuse, Miss
<1>8. ASSUME NEW s \in Seqs, deleteUpToSeq(s) PROVE Effect
  BY <1>8, DrainEffect, BufferAssumption DEF Seqs
<1> QED BY <1>1, <1>2, <1>3, <1>4, <1>5, <1>6, <1>7, <1>8

WarmCounted == plan.pending => warms > 0

(***************************************************************************)
(* Every step has one of the four effects.                                 *)
(***************************************************************************)
LEMMA NextEffect ==
    ASSUME Inv, WarmCounted, [Next]_vars
    PROVE  Effect
<1>1. ASSUME NEW w \in WarmInputs, warmReserve(w) PROVE Effect
  <2>1. UNCHANGED b /\ warms' = warms + 1 /\ warms \in Nat
    BY <1>1 DEF warmReserve, Refuse, Inv
  <2> QED BY <2>1 DEF Effect, Quiet, Capped
<1>2. ASSUME commitReplacementPreReserved PROVE Effect
  <2>1. b \in Buffer BY DEF Inv, WellFormed
  <2>2. b' = commitItems(b, plan.items, plan.newBytes, now) /\ warms' > 0
    BY <1>2 DEF commitReplacementPreReserved, Commit, WarmCounted
  <2>3. b'.items = plan.items /\ b'.lastWriteTS = now BY <2>1, <2>2 DEF commitItems, Buffer
  <2> QED BY <1>2, <2>2, <2>3 DEF Effect, Swaps, Capped
<1>3. ASSUME deleteScope PROVE Effect
  <2>1. b \in Buffer /\ WellFormed(b) /\ b.items \in Seq(Item)
    BY BufferFields DEF Inv, WellFormed
  <2>2. b' = [b EXCEPT !.detached = TRUE] /\ totalBytes' = totalBytes - b.bytes
    BY <1>3 DEF deleteScope
  <2>3. Quiet BY <2>1, <2>2 DEF Quiet, Buffer
  <2>4. b.bytes \in Nat BY <2>1, SumOfSizesNat DEF WellFormed
  <2>5. totalBytes \in Int BY DEF Inv
  <2>6. Capped BY <2>2, <2>4, <2>5 DEF Capped
  <2> QED BY <2>3, <2>6 DEF Effect
<1>4. ASSUME NEW d \in OtherDeltas, otherScopes(d) PROVE Effect
  <2>1. d \in Int /\ canReserve(d) /\ totalBytes' = totalBytes + d /\ UNCHANGED b
    BY <1>4, BufferAssumption DEF otherScopes
  <2>2. Capped BY <2>1, ReserveIsCapped DEF Inv
  <2> QED BY <2>1, <2>2 DEF Effect, Quiet, Inv
<1>5. CASE Tick \/ Poll BY <1>5, IdleEffect DEF Tick, Poll
<1>6. CASE UNCHANGED vars BY <1>6, IdleEffect DEF vars
<1> QED BY <1>1, <1>2, <1>3, <1>4, <1>5, <1>6, CallsEffect DEF Next

-----------------------------------------------------------------------------
(* The properties. *)

\* A waiting batch has items within the cap.
PlanChecked == \A i \in 1..Len(plan.items) : approxItemSize(plan.items[i]) <= MaxItemBytes

\* The clock is past the stamp of the poll that is held: no write repeats it.
PollBehind == polled.held => polled.ts < now

StepInv ==
    /\ Inv /\ WarmCounted /\ PlanChecked /\ PollBehind
    /\ ItemsWithinCap /\ UnchangedStampUnchangedItems /\ WithinCapWithoutWarm

(***************************************************************************)
(* The steps that leave a waiting /warm, the clock or the poll alone.      *)
(***************************************************************************)
LEMMA CallsKeepTheRest ==
    ASSUME \/ \E in \in Input : appendItem(in) \/ upsertByID(in)
           \/ \E id \in Ids, p \in Payloads : updateByID(id, p)
           \/ \E s \in Seqs, p \in Payloads : updateBySeq(s, p)
           \/ \E id \in Ids, by \in Increments : counterAdd(id, by)
           \/ \E id \in Ids : deleteByID(id)
           \/ \E s \in Seqs : deleteBySeq(s) \/ deleteUpToSeq(s)
    PROVE  BufferCall
BY DEF appendItem, upsertByID, updateByID, updateBySeq, counterAdd, deleteByID,
       deleteBySeq, deleteUpToSeq

(***************************************************************************)
(* A /warm keeps its batch, drops it, or takes a validated one; the number *)
(* of batches does not run backwards.                                      *)
(***************************************************************************)
LEMMA PlanStep ==
    ASSUME Inv, WarmCounted, PlanChecked, [Next]_vars
    PROVE  WarmCounted' /\ PlanChecked' /\ (warms' = 0 => warms = 0)
<1>1. now \in Nat /\ warms \in Nat BY DEF Inv
<1>2. ASSUME NEW w \in WarmInputs, warmReserve(w)
      PROVE  WarmCounted' /\ PlanChecked' /\ warms' = warms + 1
  <2>1. warms' = warms + 1 BY <1>2 DEF warmReserve
  <2>2. CASE UNCHANGED plan BY <1>1, <2>1, <2>2 DEF WarmCounted, PlanChecked
  <2>3. CASE plan'.items = replacementItems(w, now)
    <3>1. \A i \in 1..Len(w) : checkItemSize(w[i]) BY BufferAssumption
    <3>2. w \in Seq(Input) /\ ~DuplicateIds(w) BY BufferAssumption
    <3>3. Len(replacementItems(w, now)) = Len(w) BY <1>1, <3>2, ReplacementItems
    <3>4. ASSUME NEW i \in 1..Len(w)
          PROVE  approxItemSize(replacementItems(w, now)[i]) <= MaxItemBytes
      <4> DEFINE x == replacementItems(w, now)[i]
      <4>1. x.id = w[i].id /\ x.payload = w[i].payload /\ x.counter = NoCell
        BY DEF replacementItems
      <4> HIDE DEF x
      <4>2. approxItemSize(x) <= MaxItemBytes
        BY <3>1, <4>1 DEF checkItemSize, approxItemSize, payloadAndRenderBytes
      <4> QED BY <4>2 DEF x
    <3>5. PlanChecked' BY <2>3, <3>3, <3>4 DEF PlanChecked
    <3> QED BY <1>1, <2>1, <3>5 DEF WarmCounted
  <2> QED BY <1>2, <2>1, <2>2, <2>3 DEF warmReserve
<1>3. ASSUME commitReplacementPreReserved
      PROVE  WarmCounted' /\ PlanChecked' /\ UNCHANGED warms
  <2>1. plan' = NoPlan /\ UNCHANGED warms BY <1>3 DEF commitReplacementPreReserved
  <2>2. Len(plan'.items) = 0 /\ ~plan'.pending BY <2>1 DEF NoPlan
  <2> QED BY <2>1, <2>2 DEF WarmCounted, PlanChecked
<1>4. CASE UNCHANGED <<plan, warms>> BY <1>4 DEF WarmCounted, PlanChecked
<1>5. ASSUME \/ BufferCall \/ deleteScope \/ Tick \/ Poll \/ UNCHANGED vars
             \/ \E d \in OtherDeltas : otherScopes(d)
      PROVE  UNCHANGED <<plan, warms>>
  BY <1>5 DEF BufferCall, deleteScope, Tick, Poll, vars, otherScopes
<1> QED BY <1>1, <1>2, <1>3, <1>4, <1>5, CallsKeepTheRest DEF Next

(***************************************************************************)
(* The clock and the held poll change only by Tick and Poll.               *)
(***************************************************************************)
LEMMA ClockStep ==
    ASSUME [Next]_vars
    PROVE  UNCHANGED <<now, polled>> \/ Tick \/ Poll
<1>1. ASSUME \/ BufferCall \/ deleteScope \/ UNCHANGED vars
             \/ commitReplacementPreReserved
             \/ \E w \in WarmInputs : warmReserve(w)
             \/ \E d \in OtherDeltas : otherScopes(d)
      PROVE  UNCHANGED <<now, polled>>
  BY <1>1 DEF BufferCall, deleteScope, vars, otherScopes, commitReplacementPreReserved,
              warmReserve
<1> QED BY <1>1, CallsKeepTheRest DEF Next

(***************************************************************************)
(* The members of RegularContent.                                          *)
(***************************************************************************)
LEMMA RegularMembers ==
    ASSUME NEW items, NEW c
    PROVE  c \in RegularContent(items) <=>
             \E i \in 1..Len(items) : items[i].counter = NoCell /\ c = Content(items[i])
BY DEF RegularContent

(***************************************************************************)
(* A counter that is created or takes an item's place leaves the other     *)
(* items, and the seq and id of that one, as a poller knows them.          *)
(***************************************************************************)
LEMMA CounterKeepsKnown ==
    ASSUME NEW x \in Item, Writes(x), x.counter # NoCell,
           UnchangedStampUnchangedItems, UNCHANGED polled
    PROVE  UnchangedStampUnchangedItems'
<1> SUFFICES ASSUME polled.held, b'.lastWriteTS = polled.ts
             PROVE  /\ RegularContent(b'.items) \subseteq polled.items
                    /\ \A known \in polled.items :
                         \/ known \in RegularContent(b'.items)
                         \/ \E i \in 1..Len(b'.items) :
                              /\ b'.items[i].counter # NoCell
                              /\ b'.items[i].seq = known.seq /\ b'.items[i].id = known.id
  BY DEF UnchangedStampUnchangedItems
<1>1. b.lastWriteTS = polled.ts /\ Keeps(x) BY DEF Writes
<1>2. /\ RegularContent(b.items) \subseteq polled.items
      /\ \A known \in polled.items :
           \/ known \in RegularContent(b.items)
           \/ \E i \in 1..Len(b.items) :
                /\ b.items[i].counter # NoCell
                /\ b.items[i].seq = known.seq /\ b.items[i].id = known.id
  BY <1>1 DEF UnchangedStampUnchangedItems
<1>3. ASSUME NEW c \in RegularContent(b'.items) PROVE c \in polled.items
  <2>1. PICK j \in 1..Len(b'.items) : b'.items[j].counter = NoCell /\ c = Content(b'.items[j])
    BY RegularMembers
  <2>2. PICK i \in 1..Len(b.items) : b.items[i] = b'.items[j]
    BY <2>1 DEF Writes, Among
  <2>3. c \in RegularContent(b.items) BY <2>1, <2>2, RegularMembers
  <2> QED BY <1>2, <2>3
<1>4. ASSUME NEW known \in polled.items
      PROVE  \/ known \in RegularContent(b'.items)
             \/ \E i \in 1..Len(b'.items) :
                  /\ b'.items[i].counter # NoCell
                  /\ b'.items[i].seq = known.seq /\ b'.items[i].id = known.id
  <2>1. CASE known \in RegularContent(b.items)
    <3>1. PICK i \in 1..Len(b.items) :
            b.items[i].counter = NoCell /\ known = Content(b.items[i])
      BY <2>1, RegularMembers
    <3>2. known.seq = b.items[i].seq /\ known.id = b.items[i].id BY <3>1 DEF Content
    <3>3. CASE Among(b.items[i], b'.items)
      <4>1. PICK j \in 1..Len(b'.items) : b'.items[j] = b.items[i] BY <3>3 DEF Among
      <4> QED BY <3>1, <4>1, RegularMembers
    <3>4. CASE Among(x, b'.items) /\ x.seq = b.items[i].seq /\ x.id = b.items[i].id
      <4>1. PICK j \in 1..Len(b'.items) : b'.items[j] = x BY <3>4 DEF Among
      <4> QED BY <3>2, <3>4, <4>1
    <3> QED BY <1>1, <3>3, <3>4 DEF Keeps
  <2>2. ASSUME NEW i \in 1..Len(b.items), b.items[i].counter # NoCell,
               b.items[i].seq = known.seq, b.items[i].id = known.id
        PROVE  \E j \in 1..Len(b'.items) :
                 /\ b'.items[j].counter # NoCell
                 /\ b'.items[j].seq = known.seq /\ b'.items[j].id = known.id
    <3>1. CASE Among(b.items[i], b'.items)
      <4>1. PICK j \in 1..Len(b'.items) : b'.items[j] = b.items[i] BY <3>1 DEF Among
      <4> QED BY <2>2, <4>1
    <3>2. CASE Among(x, b'.items) /\ x.seq = b.items[i].seq /\ x.id = b.items[i].id
      <4>1. PICK j \in 1..Len(b'.items) : b'.items[j] = x BY <3>2 DEF Among
      <4> QED BY <2>2, <3>2, <4>1
    <3> QED BY <1>1, <3>1, <3>2 DEF Keeps
  <2> QED BY <1>2, <2>1, <2>2
<1> QED BY <1>3, <1>4

(***************************************************************************)
(* The held poll stays true: a step that changes a regular item stores a   *)
(* clock reading above the poll's stamp.                                   *)
(***************************************************************************)
LEMMA PollStep ==
    ASSUME StepInv, [Next]_vars, Inv', Effect
    PROVE  PollBehind' /\ UnchangedStampUnchangedItems'
<1>1. /\ polled.ts \in Nat /\ now \in Nat /\ b.lastWriteTS \in Nat
      /\ PollBehind /\ UnchangedStampUnchangedItems
  BY BufferFields DEF StepInv, Inv, WellFormed
<1>2. CASE UNCHANGED <<now, polled>>
  <2>1. PollBehind' BY <1>1, <1>2 DEF PollBehind
  <2>2. CASE Quiet
    <3>1. UNCHANGED <<b.items, b.lastWriteTS, polled>> BY <1>2, <2>2 DEF Quiet
    <3> QED BY <1>1, <2>1, <3>1 DEF UnchangedStampUnchangedItems
  <2>3. CASE b'.lastWriteTS = now
    <3>1. ~(polled'.held /\ b'.lastWriteTS = polled'.ts)
      BY <1>1, <1>2, <2>3 DEF PollBehind
    <3> QED BY <2>1, <3>1 DEF UnchangedStampUnchangedItems
  <2>4. ASSUME NEW x \in Item, Writes(x), x.counter # NoCell
        PROVE  UnchangedStampUnchangedItems'
    BY <1>1, <1>2, <2>4, CounterKeepsKnown
  <2> QED BY <2>1, <2>2, <2>3, <2>4 DEF Effect, Removes, Swaps, Writes
<1>3. CASE Tick
  <2>1. UNCHANGED b /\ (~polled'.held \/ (polled' = polled /\ now' > polled.ts))
    BY <1>3 DEF Tick, NoPoll
  <2>2. now' \in Nat BY DEF Inv
  <2>3. PollBehind' BY <1>1, <2>1, <2>2 DEF PollBehind
  <2>4. CASE ~polled'.held BY <2>3, <2>4 DEF UnchangedStampUnchangedItems
  <2>5. CASE polled' = polled
    BY <1>1, <2>1, <2>3, <2>5 DEF UnchangedStampUnchangedItems
  <2> QED BY <2>1, <2>4, <2>5
<1>4. CASE Poll
  <2>1. /\ UNCHANGED <<b, now>> /\ polled'.ts = b.lastWriteTS
        /\ polled'.items = RegularContent(b.items) /\ now > b.lastWriteTS
    BY <1>4 DEF Poll
  <2>2. PollBehind' BY <1>1, <2>1 DEF PollBehind
  <2>3. b'.items = b.items BY <2>1
  <2> QED BY <2>1, <2>2, <2>3 DEF UnchangedStampUnchangedItems
<1> QED BY <1>2, <1>3, <1>4, ClockStep

(***************************************************************************)
(* A step with one of the four effects keeps the caps.                     *)
(***************************************************************************)
LEMMA EffectKeepsStepInv ==
    ASSUME StepInv, Inv', WarmCounted', PlanChecked', PollBehind',
           UnchangedStampUnchangedItems', warms' = 0 => warms = 0, Effect
    PROVE  StepInv'
<1>1. ItemsWithinCap'
  <2>1. CASE Quiet BY <2>1 DEF Quiet, StepInv, ItemsWithinCap
  <2>2. CASE Removes BY <2>2 DEF Removes, Among, StepInv, ItemsWithinCap
  <2>3. CASE Swaps BY <2>3 DEF Swaps, StepInv, PlanChecked, ItemsWithinCap
  <2>4. ASSUME NEW x \in Item, Writes(x) PROVE ItemsWithinCap'
    BY <2>4 DEF Writes, Among, StepInv, ItemsWithinCap
  <2> QED BY <2>1, <2>2, <2>3, <2>4 DEF Effect
<1>2. WithinCapWithoutWarm'
  <2>1. totalBytes \in Int /\ totalBytes' \in Int /\ warms' \in Nat /\ MaxStoreBytes \in Nat
    BY BufferAssumption DEF StepInv, Inv
  <2> QED BY <2>1 DEF Effect, Capped, StepInv, WithinCapWithoutWarm
<1> QED BY <1>1, <1>2 DEF StepInv

(***************************************************************************)
(* A fresh scope satisfies StepInv.                                        *)
(***************************************************************************)
LEMMA InitStepInv == Init => StepInv
<1> SUFFICES ASSUME Init PROVE StepInv OBVIOUS
<1>1. Len(b.items) = 0 BY DEF Init, newscopeBuffer
<1>2. Len(plan.items) = 0 /\ ~plan.pending BY DEF Init, NoPlan
<1>3. totalBytes = 0 /\ ~polled.held BY DEF Init, NoPoll
<1> QED BY <1>1, <1>2, <1>3, InitInv, BufferAssumption
    DEF StepInv, WarmCounted, PlanChecked, PollBehind, ItemsWithinCap,
        UnchangedStampUnchangedItems, WithinCapWithoutWarm

(***************************************************************************)
(* StepInv holds in every reachable state.                                 *)
(***************************************************************************)
LEMMA StepInvariance == Spec => []StepInv
<1>1. StepInv /\ [Next]_vars => StepInv'
  <2> SUFFICES ASSUME StepInv, [Next]_vars PROVE StepInv' OBVIOUS
  <2>1. Inv /\ WarmCounted /\ PlanChecked BY DEF StepInv
  <2>2. Inv' BY <2>1, NextInv
  <2>3. Effect BY <2>1, NextEffect
  <2>4. WarmCounted' /\ PlanChecked' /\ (warms' = 0 => warms = 0)
    BY <2>1, PlanStep
  <2>5. PollBehind' /\ UnchangedStampUnchangedItems' BY <2>2, <2>3, PollStep
  <2> QED BY <2>2, <2>3, <2>4, <2>5, EffectKeepsStepInv
<1> QED BY <1>1, InitStepInv, PTL DEF Spec

(***************************************************************************)
(* The per-item cap holds for every item, however it was addressed and     *)
(* resized: the second check of updateBySeq closes the one gap of the      *)
(* request's own check.                                                    *)
(***************************************************************************)
THEOREM ItemsAlwaysWithinCap == Spec => []ItemsWithinCap
<1>1. StepInv => ItemsWithinCap BY DEF StepInv
<1> QED BY <1>1, StepInvariance, PTL

(***************************************************************************)
(* A poller that finds last_write_ts unchanged may skip the refetch: every *)
(* write, delete and /warm commit that changes a regular item stores its   *)
(* clock reading in the buffer, and a promote keeps seq and id.  It needs  *)
(* a poll after the microsecond of the stamp, and a clock not set back to  *)
(* it; nothing is asked of a /warm's two steps.                            *)
(***************************************************************************)
THEOREM UnchangedStampAlwaysUnchangedItems == Spec => []UnchangedStampUnchangedItems
<1>1. StepInv => UnchangedStampUnchangedItems BY DEF StepInv
<1> QED BY <1>1, StepInvariance, PTL

(***************************************************************************)
(* Without a /warm, reserveBytes keeps the store within its byte cap.      *)
(***************************************************************************)
THEOREM AlwaysWithinCapWithoutWarm == Spec => []WithinCapWithoutWarm
<1>1. StepInv => WithinCapWithoutWarm BY DEF StepInv
<1> QED BY <1>1, StepInvariance, PTL

(***************************************************************************)
(* Outside /warm the cursor never moves back, and a seq stays with the id  *)
(* it was given to: resetIfEmptyLocked keeps lastSeq, upserts and promotes *)
(* keep the item's seq.                                                    *)
(***************************************************************************)
THEOREM SeqsAreNeverReused == Spec => SeqsNeverReused
<1> DEFINE Kept == /\ b'.lastSeq >= b.lastSeq
                   /\ \A i \in 1..Len(b'.items) :
                        \/ b'.items[i].seq > b.lastSeq
                        \/ \E j \in 1..Len(b.items) :
                             /\ b.items[j].seq = b'.items[i].seq
                             /\ b.items[j].id = b'.items[i].id
<1>1. StepInv /\ [Next]_vars => [commitReplacementPreReserved \/ Kept]_vars
  <2> SUFFICES ASSUME StepInv, [Next]_vars
               PROVE  commitReplacementPreReserved \/ Kept
    OBVIOUS
  <2>1. Effect BY NextEffect DEF StepInv
  <2>2. b.lastSeq \in Nat BY BufferFields DEF StepInv, Inv, WellFormed
  <2>3. CASE Quiet BY <2>2, <2>3 DEF Quiet
  <2>4. CASE Removes
    <3>1. b'.lastSeq >= b.lastSeq BY <2>2, <2>4 DEF Removes
    <3>2. ASSUME NEW i \in 1..Len(b'.items)
          PROVE  \E j \in 1..Len(b.items) :
                   b.items[j].seq = b'.items[i].seq /\ b.items[j].id = b'.items[i].id
      <4>1. PICK j \in 1..Len(b.items) : b.items[j] = b'.items[i]
        BY <2>4 DEF Removes, Among
      <4> QED BY <4>1
    <3>3. Kept BY <3>1, <3>2
    <3> QED BY <3>3
  <2>5. CASE Swaps BY <2>5 DEF Swaps
  <2>6. ASSUME NEW x \in Item, Writes(x) PROVE Kept BY <2>6 DEF Writes, Among, Placed
  <2> QED BY <2>1, <2>3, <2>4, <2>5, <2>6 DEF Effect
<1> QED BY <1>1, StepInvariance, PTL DEF Spec, SeqsNeverReused

-----------------------------------------------------------------------------
(* The buffer as a ScopeLog. *)

(***************************************************************************)
(* No two items share a counter cell: an increment reaches one item.       *)
(***************************************************************************)
CellsOwned ==
    \A s, t \in DOMAIN b.bySeq :
        s # t /\ b.bySeq[s].counter # NoCell => b.bySeq[s].counter # b.bySeq[t].counter

(***************************************************************************)
(* What a /warm holds between its two steps is a batch some client sent.   *)
(***************************************************************************)
PlanIsBatch ==
    plan.pending =>
        \E w \in WarmInputs, ts \in Nat : plan.items = replacementItems(w, ts)

LogInv == Inv /\ CellsOwned /\ PlanIsBatch

-----------------------------------------------------------------------------
(* The log as a function of bySeq and the heap. *)

\* What materialiseCounter makes of an item with this heap.
Entry(item, heap) ==
    [id |-> item.id,
     val |-> IF item.counter # NoCell THEN <<"counter", heap[item.counter].value>>
                                      ELSE <<"payload", item.payload>>]

View(bySeq, heap) == [s \in DOMAIN bySeq |-> Entry(bySeq[s], heap)]

\* What ScopeLog's Add, SetVal and Drop make of a log.
Added(log, k, entry) == [s \in DOMAIN log \cup {k} |-> IF s = k THEN entry ELSE log[s]]
Revalued(log, k, val) == [log EXCEPT ![k].val = val]
Dropped(log, K) == [s \in DOMAIN log \ K |-> log[s]]

\* Both heaps give the item the same value.
SameCell(item, h1, h2) == item.counter # NoCell => h1[item.counter] = h2[item.counter]

\* The index of a live seq.
IndexOf(items, s) == CHOOSE i \in 1..Len(items) : items[i].seq = s

SearchAgrees(items, bySeq) ==
    /\ DOMAIN bySeq = {items[i].seq : i \in 1..Len(items)}
    /\ \A s \in DOMAIN bySeq : items[IndexOf(items, s)] = bySeq[s]

(***************************************************************************)
(* A search of the slice for a seq finds what bySeq has under it.          *)
(***************************************************************************)
LEMMA SearchBySeq ==
    ASSUME NEW items \in Seq(Item), NEW last, NEW bySeq, NEW byID,
           Ascending(items, last), Coherent(items, bySeq, byID)
    PROVE  SearchAgrees(items, bySeq)
<1>1. DOMAIN bySeq = {items[i].seq : i \in 1..Len(items)} BY DEF Coherent
<1>2. ASSUME NEW s \in DOMAIN bySeq
      PROVE  bySeq[s] = items[IndexOf(items, s)]
  <2>1. IndexOf(items, s) \in 1..Len(items) /\ items[IndexOf(items, s)].seq = s
    BY <1>1 DEF IndexOf
  <2> QED BY <2>1 DEF Coherent
<1> QED BY <1>1, <1>2 DEF SearchAgrees

(***************************************************************************)
(* The refinement mapping, before and after a step.                        *)
(***************************************************************************)
LEMMA LogViewIsView ==
    ASSUME Inv PROVE LogView = View(b.bySeq, cells)
<1>1. /\ b.items \in Seq(Item) /\ Ascending(b.items, b.lastSeq)
      /\ Coherent(b.items, b.bySeq, b.byID)
  BY BufferFields DEF Inv, WellFormed
<1>2. SearchAgrees(b.items, b.bySeq) BY <1>1, SearchBySeq
<1>3. LogView = [s \in LiveSeqs |-> Entry(b.items[IndexOf(b.items, s)], cells)]
  BY DEF LogView, materialiseCounter, Entry, IndexOf
<1>4. LiveSeqs = DOMAIN b.bySeq BY <1>2 DEF LiveSeqs, SearchAgrees
<1> QED BY <1>2, <1>3, <1>4 DEF View, SearchAgrees

LEMMA NextLogViewIsView ==
    ASSUME Inv' PROVE LogView' = View(b'.bySeq, cells')
<1>1. /\ b'.items \in Seq(Item) /\ Ascending(b'.items, b'.lastSeq)
      /\ Coherent(b'.items, b'.bySeq, b'.byID)
  BY BufferFields DEF Inv, WellFormed
<1>2. SearchAgrees(b'.items, b'.bySeq) BY <1>1, SearchBySeq
<1>3. LogView' = [s \in LiveSeqs' |-> Entry(b'.items[IndexOf(b'.items, s)], cells')]
  BY DEF LogView, materialiseCounter, Entry, IndexOf
<1>4. LiveSeqs' = DOMAIN b'.bySeq BY <1>2 DEF LiveSeqs, SearchAgrees
<1> QED BY <1>2, <1>3, <1>4 DEF View, SearchAgrees

(***************************************************************************)
(* The view after a map operation, if the heap keeps the other items'      *)
(* cells.                                                                  *)
(***************************************************************************)
LEMMA ViewPut ==
    ASSUME NEW bySeq, NEW k, k \notin DOMAIN bySeq, NEW item, NEW h1, NEW h2,
           \A s \in DOMAIN bySeq : SameCell(bySeq[s], h1, h2)
    PROVE  View(Put(bySeq, k, item), h2) = Added(View(bySeq, h1), k, Entry(item, h2))
BY DEF View, Put, Entry, SameCell, Added

LEMMA ViewSet ==
    ASSUME NEW bySeq, NEW k \in DOMAIN bySeq, NEW item, NEW h1, NEW h2,
           bySeq = [s \in DOMAIN bySeq |-> bySeq[s]], item.id = bySeq[k].id,
           \A s \in DOMAIN bySeq : s # k => SameCell(bySeq[s], h1, h2)
    PROVE  View([bySeq EXCEPT ![k] = item], h2)
             = Revalued(View(bySeq, h1), k, Entry(item, h2).val)
BY DEF View, Entry, SameCell, Revalued

LEMMA ViewWithout ==
    ASSUME NEW bySeq, NEW K, NEW h1, NEW h2,
           \A s \in DOMAIN bySeq \ K : SameCell(bySeq[s], h1, h2)
    PROVE  View(Without(bySeq, K), h2) = Dropped(View(bySeq, h1), K)
BY DEF View, Without, Entry, SameCell, Dropped

(***************************************************************************)
(* The number of live seqs, and of those up to a bound, counts items.      *)
(***************************************************************************)
LEMMA LogCardinality == \A S : Log!Cardinality(S) = Cardinality(S)
BY DEF Log!Cardinality, Cardinality

LEMMA SeqCount ==
    ASSUME NEW items \in Seq(Item), NEW last, Ascending(items, last), NEW n \in 0..Len(items)
    PROVE  /\ IsFiniteSet({items[i].seq : i \in 1..n})
           /\ Cardinality({items[i].seq : i \in 1..n}) = n
<1> DEFINE S == {items[i].seq : i \in 1..n}
           f == [i \in 1..n |-> items[i].seq]
<1>1. f \in [1..n -> S] OBVIOUS
<1>2. ASSUME NEW i \in 1..n, NEW j \in 1..n, f[i] = f[j] PROVE i = j
  <2>1. i \in 1..Len(items) /\ j \in 1..Len(items) OBVIOUS
  <2>2. items[i].seq \in Nat /\ items[j].seq \in Nat
    <3>1. items[i] \in Item /\ items[j] \in Item BY <2>1
    <3> QED BY <3>1 DEF Item
  <2> QED BY <1>2, <2>1, <2>2 DEF Ascending
<1>3. \A s \in S : \E i \in 1..n : f[i] = s OBVIOUS
<1> HIDE DEF f, S
<1>4. f \in Bijection(1..n, S) BY <1>1, <1>2, <1>3 DEF Bijection, Injection, Surjection, IsInjective
<1>5. ExistsBijection(1..n, S) BY <1>4 DEF ExistsBijection
<1>6. IsFiniteSet(1..n) /\ Cardinality(1..n) = n BY FS_Interval
<1> QED BY <1>5, <1>6, FS_Bijection DEF S

-----------------------------------------------------------------------------
(* Guards: what the callers' checks mean for the log. *)

(***************************************************************************)
(* The live seqs and their ids.                                            *)
(***************************************************************************)
LEMMA LogFacts ==
    ASSUME Inv
    PROVE  /\ DOMAIN LogView = DOMAIN b.bySeq
           /\ DOMAIN b.bySeq = {b.items[i].seq : i \in 1..Len(b.items)}
           /\ \A s \in DOMAIN b.bySeq :
                /\ LogView[s] = Entry(b.bySeq[s], cells)
                /\ b.bySeq[s] \in Item /\ b.bySeq[s].seq = s /\ s \in Nat
                /\ s <= b.lastSeq
<1>1. LogView = View(b.bySeq, cells) BY LogViewIsView
<1>2. WellFormed(b) /\ b \in Buffer BY DEF Inv, WellFormed
<1>3. b.items \in Seq(Item) /\ b.bySeq \in SeqMaps /\ b.lastSeq \in Nat BY <1>2, BufferFields
<1>4. DOMAIN b.bySeq = {b.items[i].seq : i \in 1..Len(b.items)}
  BY <1>2 DEF WellFormed, Coherent
<1>5. ASSUME NEW s \in DOMAIN b.bySeq
      PROVE  b.bySeq[s] \in Item /\ b.bySeq[s].seq = s /\ s \in Nat /\ s <= b.lastSeq
  <2>1. PICK i \in 1..Len(b.items) : b.items[i].seq = s BY <1>4
  <2>2. b.bySeq[s] = b.items[i] BY <1>2, <2>1 DEF WellFormed, Coherent
  <2>3. b.items[i] \in Item BY <1>3
  <2>4. b.items[i].seq \in 1..b.lastSeq BY <1>2 DEF WellFormed, Ascending
  <2> QED BY <1>3, <2>1, <2>2, <2>3, <2>4
<1> QED BY <1>1, <1>4, <1>5 DEF View

(***************************************************************************)
(* byID has an id exactly when the log has a seq for it, and one only.     *)
(***************************************************************************)
LEMMA SeqsOfId ==
    ASSUME Inv, NEW id \in Ids
    PROVE  /\ id \notin DOMAIN b.byID => Log!SeqsOf(id) = {}
           /\ id \in DOMAIN b.byID =>
                /\ b.byID[id].seq \in DOMAIN b.bySeq
                /\ b.bySeq[b.byID[id].seq] = b.byID[id] /\ b.byID[id].id = id
                /\ b.byID[id] \in Item
                /\ Log!SeqsOf(id) = {b.byID[id].seq}
<1>1. WellFormed(b) /\ b.items \in Seq(Item) BY BufferFields DEF Inv, WellFormed
<1>2. Coherent(b.items, b.bySeq, b.byID) BY <1>1 DEF WellFormed
<1>3. id # NoId BY DataAssumption
<1>4. Log!SeqsOf(id) = {s \in DOMAIN b.bySeq : b.bySeq[s].id = id}
  <2>1. DOMAIN LogView = DOMAIN b.bySeq BY LogFacts
  <2>2. \A s \in DOMAIN b.bySeq : LogView[s].id = b.bySeq[s].id
    <3>1. \A s \in DOMAIN b.bySeq : LogView[s] = Entry(b.bySeq[s], cells) BY LogFacts
    <3>2. \A s \in DOMAIN b.bySeq : Entry(b.bySeq[s], cells).id = b.bySeq[s].id
      BY DEF Entry
    <3> HIDE DEF LogView
    <3> QED BY <3>1, <3>2
  <2> QED BY <2>1, <2>2 DEF Log!SeqsOf
<1>5. ASSUME NEW s \in DOMAIN b.bySeq, b.bySeq[s].id = id
      PROVE  id \in DOMAIN b.byID /\ b.byID[id] = b.bySeq[s] /\ b.byID[id].seq = s
  <2>1. PICK i \in 1..Len(b.items) : b.items[i].seq = s BY LogFacts
  <2>2. b.bySeq[s] = b.items[i] BY <1>2, <2>1 DEF Coherent
  <2> QED BY <1>2, <1>3, <1>5, <2>1, <2>2 DEF Coherent
<1>6. ASSUME id \in DOMAIN b.byID
      PROVE  /\ b.byID[id].seq \in DOMAIN b.bySeq
             /\ b.bySeq[b.byID[id].seq] = b.byID[id] /\ b.byID[id].id = id
  <2>1. PICK i \in 1..Len(b.items) : b.items[i].id = id BY <1>2, <1>6 DEF Coherent
  <2>2. b.byID[id] = b.items[i] BY <1>2, <1>3, <2>1 DEF Coherent
  <2> QED BY <1>2, <2>1, <2>2 DEF Coherent
<1> QED BY <1>4, <1>5, <1>6, LogFacts

(***************************************************************************)
(* The scope is full for the code when it is full for the log.             *)
(***************************************************************************)
LEMMA CountOfLog ==
    ASSUME Inv
    PROVE  /\ Log!Cardinality(DOMAIN LogView) = Len(b.items)
           /\ Log!Full <=> itemCapExceeded(b, Len(b.items) + 1)
<1>1. WellFormed(b) /\ b.items \in Seq(Item) /\ b.maxItems = MaxItems
  BY BufferFields DEF Inv, WellFormed
<1>2. DOMAIN LogView = {b.items[i].seq : i \in 1..Len(b.items)} BY LogFacts
<1>3. Cardinality(DOMAIN LogView) = Len(b.items)
  <2>1. Ascending(b.items, b.lastSeq) /\ Len(b.items) \in 0..Len(b.items)
    BY <1>1 DEF WellFormed
  <2> QED BY <1>1, <1>2, <2>1, SeqCount
<1>4. Log!Cardinality(DOMAIN LogView) = Len(b.items) BY <1>3, LogCardinality
<1>5. Len(b.items) \in Nat /\ MaxItems \in Nat BY <1>1, BufferAssumption
<1> QED BY <1>1, <1>4, <1>5 DEF Log!Full, itemCapExceeded

-----------------------------------------------------------------------------
(* Effects: what a change of bySeq and the heap means for the log. *)

(***************************************************************************)
(* The collection of unused cells keeps those the new buffer points to.    *)
(***************************************************************************)
LEMMA CommitKeepsCells ==
    ASSUME NEW buf, NEW heap, NEW dB, NEW dI, Commit(buf, heap, dB, dI), Inv'
    PROVE  \A s \in DOMAIN b'.bySeq : SameCell(b'.bySeq[s], heap, cells')
<1>1. b' \in Buffer BY DEF Inv, WellFormed
<1>2. b'.bySeq \in SeqMaps BY <1>1, BufferFields
<1>3. \A s \in DOMAIN b'.bySeq : b'.bySeq[s] \in Item BY <1>2 DEF SeqMaps
<1> SUFFICES ASSUME NEW s \in DOMAIN b'.bySeq, b'.bySeq[s].counter # NoCell
             PROVE  heap[b'.bySeq[s].counter] = cells'[b'.bySeq[s].counter]
  BY DEF SameCell
<1>4. b'.bySeq[s].counter \in Cells BY <1>3 DEF Item
<1>5. b'.bySeq[s].counter \in UsedCells(b') BY DEF UsedCells
<1>6. cells' = Collected(heap, b') BY DEF Commit
<1> QED BY <1>4, <1>5, <1>6 DEF Collected

(***************************************************************************)
(* A new item.                                                             *)
(***************************************************************************)
LEMMA AddsEntry ==
    ASSUME Inv, Inv', CellsOwned, NEW item \in Item, NEW heap,
           item.seq = b.lastSeq + 1, b.lastSeq < MaxSeq,
           b'.bySeq = Put(b.bySeq, item.seq, item),
           b'.lastSeq = b.lastSeq + 1, b'.detached = b.detached,
           \A s \in DOMAIN b.bySeq :
              /\ SameCell(b.bySeq[s], cells, heap)
              /\ item.counter # NoCell => b.bySeq[s].counter # item.counter,
           \A s \in DOMAIN b'.bySeq : SameCell(b'.bySeq[s], heap, cells')
    PROVE  CellsOwned' /\ Log!Add(item.id, Entry(item, heap).val)
<1> DEFINE k == item.seq
<1>1. b.bySeq \in SeqMaps /\ b.lastSeq \in Nat /\ b.detached \in BOOLEAN
  BY BufferFields DEF Inv, WellFormed
<1>2. k \notin DOMAIN b.bySeq BY <1>1, LogFacts
<1>3. /\ DOMAIN b'.bySeq = DOMAIN b.bySeq \cup {k} /\ b'.bySeq[k] = item
      /\ \A s \in DOMAIN b.bySeq : b'.bySeq[s] = b.bySeq[s]
  BY <1>2 DEF Put
<1>4. \A s \in DOMAIN b.bySeq : SameCell(b.bySeq[s], cells, cells')
  BY <1>3 DEF SameCell
<1>5. Entry(item, cells') = Entry(item, heap) BY <1>3 DEF SameCell, Entry
<1>6. LogView' = Added(LogView, k, Entry(item, heap))
  <2>1. View(Put(b.bySeq, k, item), cells') = Added(View(b.bySeq, cells), k, Entry(item, cells'))
    BY <1>2, <1>4, ViewPut
  <2> QED BY <1>5, <2>1, LogViewIsView, NextLogViewIsView
<1>7. Entry(item, heap) = [id |-> item.id, val |-> Entry(item, heap).val] BY DEF Entry
<1>8. CellsOwned' BY <1>3 DEF CellsOwned
<1> QED BY <1>1, <1>6, <1>7, <1>8 DEF Log!Add, Added

(***************************************************************************)
(* Another item under the same seq and id, or another value in its cell.   *)
(***************************************************************************)
LEMMA SetsEntry ==
    ASSUME Inv, Inv', CellsOwned, NEW item, NEW heap,
           NEW k \in DOMAIN b.bySeq, item.id = b.bySeq[k].id,
           b'.bySeq = [b.bySeq EXCEPT ![k] = item],
           b'.lastSeq = b.lastSeq, b'.detached = b.detached,
           \A s \in DOMAIN b.bySeq : s # k =>
              /\ SameCell(b.bySeq[s], cells, heap)
              /\ item.counter # NoCell => b.bySeq[s].counter # item.counter,
           \A s \in DOMAIN b'.bySeq : SameCell(b'.bySeq[s], heap, cells')
    PROVE  CellsOwned' /\ Log!SetVal(k, Entry(item, heap).val)
<1>1. b.bySeq \in SeqMaps BY BufferFields DEF Inv, WellFormed
<1>2. b.bySeq = [s \in DOMAIN b.bySeq |-> b.bySeq[s]] BY <1>1 DEF SeqMaps
<1>3. /\ DOMAIN b'.bySeq = DOMAIN b.bySeq /\ b'.bySeq[k] = item
      /\ \A s \in DOMAIN b.bySeq : s # k => b'.bySeq[s] = b.bySeq[s]
  BY <1>2
<1>4. \A s \in DOMAIN b.bySeq : s # k => SameCell(b.bySeq[s], cells, cells')
  BY <1>3 DEF SameCell
<1>5. Entry(item, cells').val = Entry(item, heap).val BY <1>3 DEF SameCell, Entry
<1>6. LogView' = Revalued(LogView, k, Entry(item, heap).val)
  <2>1. View([b.bySeq EXCEPT ![k] = item], cells')
          = Revalued(View(b.bySeq, cells), k, Entry(item, cells').val)
    BY <1>2, <1>4, ViewSet
  <2> QED BY <1>5, <2>1, LogViewIsView, NextLogViewIsView
<1>7. CellsOwned' BY <1>3 DEF CellsOwned
<1> QED BY <1>6, <1>7 DEF Log!SetVal, Revalued

(***************************************************************************)
(* Items leave.                                                            *)
(***************************************************************************)
LEMMA DropsEntries ==
    ASSUME Inv, Inv', CellsOwned, NEW K, b'.bySeq = Without(b.bySeq, K),
           b'.lastSeq = b.lastSeq, b'.detached = b.detached,
           \A s \in DOMAIN b'.bySeq : SameCell(b'.bySeq[s], cells, cells')
    PROVE  CellsOwned' /\ Log!Drop(K)
<1>1. b.bySeq \in SeqMaps BY BufferFields DEF Inv, WellFormed
<1>2. /\ DOMAIN b'.bySeq = DOMAIN b.bySeq \ K
      /\ \A s \in DOMAIN b.bySeq \ K : b'.bySeq[s] = b.bySeq[s]
  <2>1. /\ DOMAIN Without(b.bySeq, K) = DOMAIN b.bySeq \ K
        /\ \A s \in DOMAIN b.bySeq \ K : Without(b.bySeq, K)[s] = b.bySeq[s]
    BY <1>1, WithoutSeq
  <2> QED BY <2>1
<1>3. \A s \in DOMAIN b.bySeq \ K : SameCell(b.bySeq[s], cells, cells') BY <1>2
<1>4. LogView' = Dropped(LogView, K)
  <2>1. View(Without(b.bySeq, K), cells') = Dropped(View(b.bySeq, cells), K)
    BY <1>3, ViewWithout
  <2> QED BY <2>1, LogViewIsView, NextLogViewIsView
<1>5. CellsOwned' BY <1>2 DEF CellsOwned
<1> QED BY <1>4, <1>5 DEF Log!Drop, Dropped

(***************************************************************************)
(* A call without effect on the scope.                                     *)
(***************************************************************************)
LEMMA KeepsLog ==
    ASSUME UNCHANGED <<b, cells>>
    PROVE  UNCHANGED <<LogView, b.lastSeq, b.detached>> /\ (CellsOwned => CellsOwned')
BY DEF LogView, LiveSeqs, materialiseCounter, CellsOwned

-----------------------------------------------------------------------------
(* Each operation, on the log. *)

(***************************************************************************)
(* A refused call has the same reply and no effect on the log either.      *)
(***************************************************************************)
LEMMA RefuseOnLog ==
    ASSUME NEW op, NEW err, Refuse(op, err), CellsOwned
    PROVE  CellsOwned' /\ Log!Refuse(op, err)
<1>1. UNCHANGED <<LogView, b.lastSeq, b.detached>> /\ CellsOwned'
  BY KeepsLog DEF Refuse
<1> QED BY <1>1 DEF Refuse, Log!Refuse

(***************************************************************************)
(* Nor has a call that finds nothing, which is a delete of no seq.         *)
(***************************************************************************)
LEMMA MissOnLog ==
    ASSUME NEW op, Miss(op), CellsOwned, Inv
    PROVE  CellsOwned' /\ Log!Miss(op) /\ (~b.detached => Log!LogDelete(op, {}))
<1>1. UNCHANGED <<LogView, b.lastSeq, b.detached>> /\ CellsOwned'
  BY KeepsLog DEF Miss
<1>2. Log!Cardinality({}) = 0 BY LogCardinality, FS_EmptySet
<1>3. LogView = [s \in DOMAIN LogView \ {} |-> LogView[s]]
  <2>1. LogView = View(b.bySeq, cells) BY LogViewIsView
  <2> QED BY <2>1 DEF View
<1>4. Log!Drop({}) BY <1>1, <1>3 DEF Log!Drop
<1>5. Reply(op, 0, FALSE) BY DEF Miss
<1> QED BY <1>1, <1>2, <1>4, <1>5 DEF Reply, Log!Reply, Log!Miss, Log!LogDelete

(***************************************************************************)
(* What a lookup in one of the maps returns is in bySeq under its seq.     *)
(***************************************************************************)
LEMMA LiveItem ==
    ASSUME Inv, NEW existing,
           \/ \E k \in DOMAIN b.byID : existing = b.byID[k]
           \/ \E s \in DOMAIN b.bySeq : existing = b.bySeq[s]
    PROVE  /\ existing \in Item /\ existing.seq \in DOMAIN b.bySeq
           /\ b.bySeq[existing.seq] = existing
           /\ SearchAtLeast(b.items, existing.seq) \in 1..Len(b.items)
           /\ b.items[SearchAtLeast(b.items, existing.seq)] = existing
<1> DEFINE i == SearchAtLeast(b.items, existing.seq)
<1>1. WellFormed(b) /\ b.items \in Seq(Item) BY BufferFields DEF Inv, WellFormed
<1>2. i \in 1..Len(b.items) /\ b.items[i] = existing BY <1>1, LookupFinds
<1> HIDE DEF i
<1>3. existing \in Item BY <1>1, <1>2
<1>4. existing.seq \in DOMAIN b.bySeq /\ b.bySeq[existing.seq] = existing
  BY <1>1, <1>2 DEF WellFormed, Coherent
<1> QED BY <1>2, <1>3, <1>4 DEF i

(***************************************************************************)
(* insertNewItemLocked adds an entry.                                      *)
(***************************************************************************)
LEMMA InsertOnLog ==
    ASSUME Inv, Inv', CellsOwned, NEW in \in Input, InsertNew(in)
    PROVE  CellsOwned' /\ Log!Add(in.id, <<"payload", in.payload>>)
<1> DEFINE item == newItem(b, in, now)
<1>1. b \in Buffer /\ now \in Nat /\ b.lastSeq \in Nat
  BY BufferFields DEF Inv, WellFormed
<1>2. /\ item \in Item /\ item.seq = b.lastSeq + 1 /\ item.id = in.id
      /\ item.counter = NoCell /\ item.payload = in.payload
  BY <1>1, DataAssumption DEF newItem, Item, Input
<1>3. b' = insertNewItemLocked(b, in, now) /\ b.lastSeq < MaxSeq BY DEF InsertNew, Commit
<1>4. b' = [insertItem(b, item) EXCEPT !.lastWriteTS = now]
  BY <1>3 DEF insertNewItemLocked
<1> HIDE DEF item
<1>5. /\ b'.bySeq = Put(b.bySeq, item.seq, item) /\ b'.lastSeq = b.lastSeq + 1
      /\ b'.detached = b.detached
  BY <1>1, <1>2, <1>4 DEF insertItem, Buffer
<1>6. \A s \in DOMAIN b'.bySeq : SameCell(b'.bySeq[s], cells, cells')
  BY CommitKeepsCells DEF InsertNew
<1>7. \A s \in DOMAIN b.bySeq :
         /\ SameCell(b.bySeq[s], cells, cells)
         /\ item.counter # NoCell => b.bySeq[s].counter # item.counter
  BY <1>2 DEF SameCell
<1>8. CellsOwned' /\ Log!Add(item.id, Entry(item, cells).val)
  BY <1>2, <1>3, <1>5, <1>6, <1>7, AddsEntry
<1>9. Entry(item, cells).val = <<"payload", in.payload>> BY <1>2 DEF Entry
<1> QED BY <1>2, <1>8, <1>9

(***************************************************************************)
(* replaceItemAtIndexLocked gives a live seq a payload.                    *)
(***************************************************************************)
LEMMA ReplaceOnLog ==
    ASSUME Inv, Inv', CellsOwned, NEW payload \in Payloads, NEW existing,
           \/ \E k \in DOMAIN b.byID : existing = b.byID[k]
           \/ \E s \in DOMAIN b.bySeq : existing = b.bySeq[s],
           ReplacePayload(existing, payload)
    PROVE  CellsOwned' /\ Log!SetVal(existing.seq, <<"payload", payload>>)
<1> DEFINE i == SearchAtLeast(b.items, existing.seq)
           d == payloadDelta(existing, payload)
           item == replacedItem(existing, payload, now)
<1>1. b \in Buffer /\ now \in Nat BY DEF Inv, WellFormed
<1>2. /\ existing \in Item /\ existing.seq \in DOMAIN b.bySeq
      /\ b.bySeq[existing.seq] = existing /\ b.items[i] = existing
  BY LiveItem
<1>3. /\ item.seq = existing.seq /\ item.id = existing.id
      /\ item.counter = NoCell /\ item.payload = payload
  BY <1>1, <1>2 DEF replacedItem, Item
<1>4. b' = replaceItemAtIndexLocked(b, i, payload, now, d) BY DEF ReplacePayload, Commit
<1>5. b' = [setItemAt(b, i, item, d) EXCEPT !.lastWriteTS = now]
  BY <1>2, <1>4 DEF replaceItemAtIndexLocked
<1> HIDE DEF i, d, item
<1>6. /\ b'.bySeq = [b.bySeq EXCEPT ![existing.seq] = item] /\ b'.lastSeq = b.lastSeq
      /\ b'.detached = b.detached
  BY <1>1, <1>3, <1>5 DEF setItemAt, Buffer
<1>7. \A s \in DOMAIN b'.bySeq : SameCell(b'.bySeq[s], cells, cells')
  BY CommitKeepsCells DEF ReplacePayload
<1>8. \A s \in DOMAIN b.bySeq : s # existing.seq =>
         /\ SameCell(b.bySeq[s], cells, cells)
         /\ item.counter # NoCell => b.bySeq[s].counter # item.counter
  BY <1>3 DEF SameCell
<1>9. item.id = b.bySeq[existing.seq].id BY <1>2, <1>3
<1>10. CellsOwned' /\ Log!SetVal(existing.seq, Entry(item, cells).val)
  BY <1>2, <1>6, <1>7, <1>8, <1>9, SetsEntry
<1>11. Entry(item, cells).val = <<"payload", payload>> BY <1>3 DEF Entry
<1> QED BY <1>10, <1>11

(***************************************************************************)
(* The value of an item, as the log's counter_add reads it.                *)
(***************************************************************************)
LEMMA IntOfEntry ==
    ASSUME Inv, NEW item \in Item
    PROVE  /\ item.counter # NoCell =>
                /\ Log!IntOf(Entry(item, cells).val) = cells[item.counter].value
                /\ cells[item.counter].value # NotInt
           /\ item.counter = NoCell =>
                Log!IntOf(Entry(item, cells).val) = PayloadInt[item.payload]
<1>1. CASE item.counter # NoCell
  <2>1. item.counter \in Cells BY <1>1 DEF Item
  <2>2. cells[item.counter].value \in Int BY <2>1 DEF Inv, Heaps
  <2>3. cells[item.counter].value # NotInt BY <2>2, DataAssumption
  <2>4. Entry(item, cells).val = <<"counter", cells[item.counter].value>>
    BY <1>1 DEF Entry
  <2> QED BY <1>1, <2>3, <2>4 DEF Log!IntOf
<1>2. CASE item.counter = NoCell
  <2>1. Entry(item, cells).val = <<"payload", item.payload>> BY <1>2 DEF Entry
  <2> QED BY <1>2, <2>1 DEF Log!IntOf
<1> QED BY <1>1, <1>2

(***************************************************************************)
(* The CAS loop gives one live seq the next value: no other item points to *)
(* the cell it moves.                                                      *)
(***************************************************************************)
LEMMA AtomicAddOnLog ==
    ASSUME Inv, Inv', CellsOwned, NEW id \in Ids, id \in DOMAIN b.byID, ~b.detached,
           b.byID[id].counter # NoCell, NEW by \in Int,
           atomicCounterAdd(b.byID[id].counter, by)
    PROVE  CellsOwned' /\ Log!LogCounterAdd(id, by)
<1> DEFINE item == b.byID[id]
           k == item.seq
           next == cells[item.counter].value + by
<1>1. /\ item \in Item /\ k \in DOMAIN b.bySeq /\ b.bySeq[k] = item
      /\ Log!SeqsOf(id) = {k}
  <2>1. item \in Item /\ k \in DOMAIN b.bySeq /\ b.bySeq[k] = item BY LiveItem
  <2>2. Log!SeqsOf(id) = {k} BY SeqsOfId
  <2> QED BY <2>1, <2>2
<1>2. Log!IntOf(LogView[k].val) = cells[item.counter].value
      /\ cells[item.counter].value # NotInt
  <2>1. LogView[k] = Entry(item, cells) BY <1>1, LogFacts
  <2> HIDE DEF LogView
  <2> QED BY <1>1, <2>1, IntOfEntry
<1>3. k \in Log!SeqsOf(id) BY <1>1
<1>4. CASE ~InRange(next) /\ Refuse("counter_add", "overflow")
  <2>1. CellsOwned' /\ Log!Refuse("counter_add", "overflow") BY <1>4, RefuseOnLog
  <2> HIDE DEF k, item
  <2>2. ~Log!InRange(Log!IntOf(LogView[k].val) + by)
    BY <1>2, <1>4 DEF Log!InRange, InRange, next
  <2> HIDE DEF LogView
  <2> QED BY <1>2, <1>3, <2>1, <2>2 DEF Log!LogCounterAdd
<1>5. CASE /\ InRange(next)
           /\ cells' = [cells EXCEPT ![item.counter] =
                 [value |-> next, ts |-> IF now > @.ts THEN now ELSE @.ts]]
           /\ Reply("counter_add", next, FALSE)
           /\ UNCHANGED b
  <2>1. item.counter \in Cells /\ cells \in Heaps BY <1>1 DEF Item, Inv
  <2>2. /\ cells'[item.counter].value = next
        /\ \A c \in Cells : c # item.counter => cells'[c] = cells[c]
    BY <1>5, <2>1 DEF Heaps
  <2> HIDE DEF item, next
  <2>3. \A s \in DOMAIN b.bySeq : s # k =>
           /\ SameCell(b.bySeq[s], cells, cells')
           /\ item.counter # NoCell => b.bySeq[s].counter # item.counter
    <3> SUFFICES ASSUME NEW s \in DOMAIN b.bySeq, s # k
                 PROVE  /\ SameCell(b.bySeq[s], cells, cells')
                        /\ item.counter # NoCell => b.bySeq[s].counter # item.counter
      OBVIOUS
    <3>1. b.bySeq[s].counter \in Cells \cup {NoCell} BY LogFacts DEF Item
    <3>2. item.counter # NoCell BY DEF item
    <3>3. b.bySeq[s].counter # item.counter BY <1>1, <3>2 DEF CellsOwned
    <3> QED BY <2>2, <3>1, <3>3 DEF SameCell
  <2>4. b'.bySeq = [b.bySeq EXCEPT ![k] = item]
    <3>1. b.bySeq \in SeqMaps BY BufferFields DEF Inv, WellFormed
    <3> QED BY <1>1, <1>5, <3>1 DEF SeqMaps
  <2>5. \A s \in DOMAIN b'.bySeq : SameCell(b'.bySeq[s], cells', cells')
    BY DEF SameCell
  <2>6. CellsOwned' /\ Log!SetVal(k, Entry(item, cells').val)
    <3>1. item.id = b.bySeq[k].id /\ b'.lastSeq = b.lastSeq /\ b'.detached = b.detached
      BY <1>1, <1>5
    <3> QED BY <1>1, <2>3, <2>4, <2>5, <3>1, SetsEntry
  <2>7. Entry(item, cells').val = <<"counter", next>>
    BY <2>2 DEF Entry, item
  <2>8. Log!InRange(next) BY <1>5 DEF Log!InRange, InRange
  <2>9. next = Log!IntOf(LogView[k].val) + by BY <1>2 DEF next, item
  <2>10. Log!Reply("counter_add", next, FALSE) BY <1>5 DEF Reply, Log!Reply
  <2>11. Log!IntOf(LogView[k].val) # NotInt BY <1>2
  <2> HIDE DEF k, LogView
  <2> QED BY <1>3, <2>6, <2>7, <2>8, <2>9, <2>10, <2>11 DEF Log!LogCounterAdd
<1> QED BY <1>4, <1>5 DEF atomicCounterAdd

(***************************************************************************)
(* A fresh cell belongs to no item, and loading it disturbs none.          *)
(***************************************************************************)
LEMMA FreshCellIsFree ==
    ASSUME Inv, HeapHasRoom, NEW value \in Int
    PROVE  /\ FreshCell \in Cells /\ FreshCell # NoCell
           /\ WithCell(FreshCell, value)[FreshCell].value = value
           /\ \A s \in DOMAIN b.bySeq :
                /\ SameCell(b.bySeq[s], cells, WithCell(FreshCell, value))
                /\ b.bySeq[s].counter # FreshCell
<1>1. FreshCell \in Cells /\ FreshCell \notin UsedCells(b) BY DEF HeapHasRoom, FreshCell
<1>2. FreshCell # NoCell BY <1>1, DataAssumption
<1>3. cells \in Heaps BY DEF Inv
<1> HIDE DEF FreshCell
<1>4. /\ WithCell(FreshCell, value)[FreshCell].value = value
      /\ \A c \in Cells : c # FreshCell => WithCell(FreshCell, value)[c] = cells[c]
  BY <1>1, <1>3 DEF WithCell, Heaps
<1>5. ASSUME NEW s \in DOMAIN b.bySeq
      PROVE  /\ SameCell(b.bySeq[s], cells, WithCell(FreshCell, value))
             /\ b.bySeq[s].counter # FreshCell
  <2>1. b.bySeq[s].counter \in UsedCells(b) BY DEF UsedCells
  <2>2. b.bySeq[s].counter \in Cells \cup {NoCell} BY LogFacts DEF Item
  <2> QED BY <1>1, <1>4, <2>1, <2>2 DEF SameCell
<1> QED BY <1>1, <1>2, <1>4, <1>5

(***************************************************************************)
(* A promote reads the integer of the payload and leaves the sum.          *)
(***************************************************************************)
LEMMA PromoteOnLog ==
    ASSUME Inv, Inv', CellsOwned, HeapHasRoom, NEW id \in Ids, id \in DOMAIN b.byID,
           ~b.detached, b.byID[id].counter = NoCell, NEW by \in Int,
           promote(b.byID[id], by)
    PROVE  CellsOwned' /\ Log!LogCounterAdd(id, by)
<1> DEFINE existing == b.byID[id]
           k == existing.seq
           current == PayloadInt[existing.payload]
           item == promotedItem(existing, FreshCell)
           d == approxItemSize(item) - approxItemSize(existing)
           i == SearchAtLeast(b.items, existing.seq)
           heap == WithCell(FreshCell, current + by)
<1>1. /\ existing \in Item /\ k \in DOMAIN b.bySeq /\ b.bySeq[k] = existing
      /\ Log!SeqsOf(id) = {k} /\ k \in Log!SeqsOf(id)
  <2>1. existing \in Item /\ k \in DOMAIN b.bySeq /\ b.bySeq[k] = existing BY LiveItem
  <2>2. Log!SeqsOf(id) = {k} BY SeqsOfId
  <2> QED BY <2>1, <2>2
<1>2. Log!IntOf(LogView[k].val) = current
  <2>1. LogView[k] = Entry(existing, cells) BY <1>1, LogFacts
  <2> HIDE DEF LogView
  <2> QED BY <1>1, <2>1, IntOfEntry
<1>3. CASE current = NotInt /\ Refuse("counter_add", "not_a_counter")
  <2>1. CellsOwned' /\ Log!Refuse("counter_add", "not_a_counter") BY <1>3, RefuseOnLog
  <2> HIDE DEF k, current, LogView
  <2> QED BY <1>1, <1>2, <1>3, <2>1 DEF Log!LogCounterAdd
<1>4. CASE /\ current # NotInt /\ ~InRange(current + by)
           /\ Refuse("counter_add", "overflow")
  <2>1. CellsOwned' /\ Log!Refuse("counter_add", "overflow") BY <1>4, RefuseOnLog
  <2> HIDE DEF k, current, LogView
  <2>2. ~Log!InRange(current + by) BY <1>4 DEF Log!InRange, InRange
  <2> QED BY <1>1, <1>2, <1>4, <2>1, <2>2 DEF Log!LogCounterAdd
<1>5. CASE Refuse("counter_add", "store_full")
  <2>1. CellsOwned' /\ Log!Refuse("counter_add", "store_full") BY <1>5, RefuseOnLog
  <2> QED BY <2>1 DEF Log!LogCounterAdd
<1>6. CASE /\ current # NotInt /\ InRange(current + by)
           /\ Commit(promoteAt(b, i, existing, FreshCell, d), heap, d, 0)
           /\ Reply("counter_add", current + by, FALSE)
  <2>1. current + by \in Int
    <3>1. existing.payload \in Payloads BY <1>1 DEF Item
    <3>2. current \in Int BY <1>6, <3>1, DataAssumption
    <3> QED BY <3>2
  <2>2. /\ FreshCell # NoCell /\ heap[FreshCell].value = current + by
        /\ \A s \in DOMAIN b.bySeq :
             SameCell(b.bySeq[s], cells, heap) /\ b.bySeq[s].counter # FreshCell
    BY <2>1, FreshCellIsFree
  <2>3. item.seq = k /\ item.id = existing.id /\ item.counter = FreshCell
    BY <1>1 DEF promotedItem, Item
  <2>4. b' = setItemAt(b, i, item, d) BY <1>6 DEF Commit, promoteAt
  <2>5. \A s \in DOMAIN b'.bySeq : SameCell(b'.bySeq[s], heap, cells')
    BY <1>6, CommitKeepsCells
  <2> HIDE DEF item, d, i, heap, k
  <2>6. /\ b'.bySeq = [b.bySeq EXCEPT ![k] = item] /\ b'.lastSeq = b.lastSeq
        /\ b'.detached = b.detached
    <3>1. b \in Buffer BY DEF Inv, WellFormed
    <3> QED BY <2>3, <2>4, <3>1 DEF setItemAt, Buffer
  <2>7. CellsOwned' /\ Log!SetVal(k, Entry(item, heap).val)
    <3>1. \A s \in DOMAIN b.bySeq : s # k =>
             /\ SameCell(b.bySeq[s], cells, heap)
             /\ item.counter # NoCell => b.bySeq[s].counter # item.counter
      BY <2>2, <2>3
    <3>2. item.id = b.bySeq[k].id BY <1>1, <2>3
    <3> QED BY <1>1, <2>5, <2>6, <3>1, <3>2, SetsEntry
  <2>8. Entry(item, heap).val = <<"counter", current + by>> BY <2>2, <2>3 DEF Entry
  <2>9. Log!InRange(current + by) BY <1>6 DEF Log!InRange, InRange
  <2>10. Log!Reply("counter_add", current + by, FALSE) BY <1>6 DEF Reply, Log!Reply
  <2> HIDE DEF current, LogView
  <2> QED BY <1>1, <1>2, <1>6, <2>7, <2>8, <2>9, <2>10 DEF Log!LogCounterAdd
<1> QED BY <1>3, <1>4, <1>5, <1>6 DEF promote

(***************************************************************************)
(* The first counter_add of an id adds an entry that holds the increment.  *)
(***************************************************************************)
LEMMA CreateCounterOnLog ==
    ASSUME Inv, Inv', CellsOwned, HeapHasRoom, NEW id \in Ids, id \notin DOMAIN b.byID,
           ~b.detached, NEW by \in Int, createCounter(id, by)
    PROVE  CellsOwned' /\ Log!LogCounterAdd(id, by)
<1> DEFINE item == counterItem(b, id, FreshCell, now)
           size == approxItemSize(item)
           heap == WithCell(FreshCell, by)
<1>1. Log!SeqsOf(id) = {} BY SeqsOfId
<1>2. CASE itemCapExceeded(b, Len(b.items) + 1) /\ Refuse("counter_add", "scope_full")
  <2>1. CellsOwned' /\ Log!Refuse("counter_add", "scope_full") BY <1>2, RefuseOnLog
  <2>2. Log!Full BY <1>2, CountOfLog
  <2> QED BY <1>1, <2>1, <2>2 DEF Log!LogCounterAdd
<1>3. CASE Refuse("counter_add", "store_full")
  <2>1. CellsOwned' /\ Log!Refuse("counter_add", "store_full") BY <1>3, RefuseOnLog
  <2> QED BY <2>1 DEF Log!LogCounterAdd
<1>4. CASE /\ ~itemCapExceeded(b, Len(b.items) + 1) /\ b.lastSeq < MaxSeq
           /\ Commit(insertItem(b, item), heap, size, 1)
           /\ Reply("counter_add", by, TRUE)
  <2>1. b \in Buffer /\ now \in Nat /\ b.lastSeq \in Nat
    BY BufferFields DEF Inv, WellFormed
  <2>2. /\ FreshCell \in Cells /\ FreshCell # NoCell /\ heap[FreshCell].value = by
        /\ \A s \in DOMAIN b.bySeq :
             SameCell(b.bySeq[s], cells, heap) /\ b.bySeq[s].counter # FreshCell
    BY FreshCellIsFree
  <2>3. /\ item \in Item /\ item.seq = b.lastSeq + 1 /\ item.id = id
        /\ item.counter = FreshCell
    BY <2>1, <2>2, DataAssumption DEF counterItem, Item
  <2>4. b' = insertItem(b, item) BY <1>4 DEF Commit
  <2>5. \A s \in DOMAIN b'.bySeq : SameCell(b'.bySeq[s], heap, cells')
    BY <1>4, CommitKeepsCells
  <2> HIDE DEF item, size, heap
  <2>6. /\ b'.bySeq = Put(b.bySeq, item.seq, item) /\ b'.lastSeq = b.lastSeq + 1
        /\ b'.detached = b.detached
    BY <2>1, <2>3, <2>4 DEF insertItem, Buffer
  <2>7. CellsOwned' /\ Log!Add(item.id, Entry(item, heap).val)
    <3>1. \A s \in DOMAIN b.bySeq :
             /\ SameCell(b.bySeq[s], cells, heap)
             /\ item.counter # NoCell => b.bySeq[s].counter # item.counter
      BY <2>2, <2>3
    <3> QED BY <1>4, <2>3, <2>5, <2>6, <3>1, AddsEntry
  <2>8. Entry(item, heap).val = <<"counter", by>> BY <2>2, <2>3 DEF Entry
  <2>9. ~Log!Full BY <1>4, CountOfLog
  <2>10. Log!Reply("counter_add", by, TRUE) BY <1>4 DEF Reply, Log!Reply
  <2> QED BY <1>1, <2>3, <2>7, <2>8, <2>9, <2>10 DEF Log!LogCounterAdd
<1> QED BY <1>2, <1>3, <1>4 DEF createCounter

(***************************************************************************)
(* counterAdd, on either path.                                             *)
(***************************************************************************)
LEMMA CounterAddOnLog ==
    ASSUME Inv, Inv', CellsOwned, NEW id \in Ids, NEW by \in Increments, counterAdd(id, by)
    PROVE  CellsOwned' /\ Log!LogCounterAdd(id, by)
<1>1. by \in Int BY BufferAssumption
<1>2. CASE b.detached /\ Refuse("counter_add", "detached")
  <2>1. CellsOwned' /\ Log!Refuse("counter_add", "detached") BY <1>2, RefuseOnLog
  <2> QED BY <1>2, <2>1 DEF Log!LogCounterAdd
<1>3. CASE /\ ~b.detached /\ id \in DOMAIN b.byID /\ b.byID[id].counter # NoCell
           /\ atomicCounterAdd(b.byID[id].counter, by)
  BY <1>1, <1>3, AtomicAddOnLog
<1>4. CASE /\ ~b.detached /\ id \in DOMAIN b.byID /\ b.byID[id].counter = NoCell
           /\ HeapHasRoom /\ promote(b.byID[id], by)
  BY <1>1, <1>4, PromoteOnLog
<1>5. CASE ~b.detached /\ id \notin DOMAIN b.byID /\ HeapHasRoom /\ createCounter(id, by)
  BY <1>1, <1>5, CreateCounterOnLog
<1> QED BY <1>2, <1>3, <1>4, <1>5 DEF counterAdd, counterAddSlow

(***************************************************************************)
(* Resetting an emptied buffer changes nothing a well-kept seq map shows.  *)
(***************************************************************************)
LEMMA ResetOnMap ==
    ASSUME NEW f, NEW K, NEW items, items = <<>> => DOMAIN f \ K = {}
    PROVE  Without(f, K) = IF items # <<>> THEN Without(f, K) ELSE EmptyMap
BY DEF Without, EmptyMap

(***************************************************************************)
(* Deleting one live item drops its seq.                                   *)
(***************************************************************************)
LEMMA DeleteOnLog ==
    ASSUME Inv, Inv', CellsOwned, ~b.detached, NEW existing,
           \/ \E k \in DOMAIN b.byID : existing = b.byID[k]
           \/ \E s \in DOMAIN b.bySeq : existing = b.bySeq[s],
           DeleteItem(existing.seq)
    PROVE  CellsOwned' /\ Log!LogDelete("delete", {existing.seq})
<1> DEFINE k == existing.seq
           i == SearchAtLeast(b.items, k)
           cut == CutAt(b.items, i)
<1>1. b \in Buffer /\ b.items \in Seq(Item) BY BufferFields DEF Inv, WellFormed
<1>2. i \in 1..Len(b.items) /\ b.items[i] = existing BY LiveItem
<1>3. b' = deleteIndexLocked(b, i, now) /\ Reply("delete", 1, FALSE)
  BY DEF DeleteItem, Commit
<1>4. cut = <<>> => DOMAIN b.bySeq \ {k} = {}
  <2> SUFFICES ASSUME cut = <<>> PROVE DOMAIN b.bySeq \ {k} = {} OBVIOUS
  <2> HIDE DEF i
  <2>1. Len(cut) = Len(b.items) - 1 BY <1>1, <1>2 DEF CutAt
  <2>2. Len(b.items) = 1 /\ i = 1 BY <1>1, <1>2, <2>1
  <2>3. DOMAIN b.bySeq = {b.items[j].seq : j \in 1..Len(b.items)} BY LogFacts
  <2> QED BY <1>2, <2>2, <2>3
<1>5. \A s \in DOMAIN b'.bySeq : SameCell(b'.bySeq[s], cells, cells')
  BY CommitKeepsCells DEF DeleteItem
<1> HIDE DEF i, cut
<1>6. /\ b'.bySeq = IF cut # <<>> THEN Without(b.bySeq, {k}) ELSE EmptyMap
      /\ b'.lastSeq = b.lastSeq /\ b'.detached = b.detached
  BY <1>1, <1>2, <1>3 DEF deleteIndexLocked, resetIfEmptyLocked, Buffer, cut
<1>7. b'.bySeq = Without(b.bySeq, {k}) BY <1>4, <1>6, ResetOnMap
<1>8. CellsOwned' /\ Log!Drop({k}) BY <1>5, <1>6, <1>7, DropsEntries
<1>9. Log!Cardinality({k}) = 1 BY LogCardinality, FS_Singleton
<1> QED BY <1>3, <1>8, <1>9 DEF Reply, Log!Reply, Log!LogDelete

(***************************************************************************)
(* A drain drops exactly the live seqs up to maxSeq, and counts them.      *)
(***************************************************************************)
LEMMA DrainOnLog ==
    ASSUME Inv, Inv', CellsOwned, NEW maxSeq \in Nat, deleteUpToSeq(maxSeq)
    PROVE  CellsOwned' /\ Log!LogDelete("delete_up_to", DOMAIN LogView \cap 1..maxSeq)
<1> DEFINE n == SearchAbove(b.items, maxSeq) - 1
           K == {b.items[i].seq : i \in 1..n}
           rest == SubSeq(b.items, n + 1, Len(b.items))
<1>1. /\ b \in Buffer /\ b.items \in Seq(Item) /\ b.lastSeq \in Nat
      /\ Ascending(b.items, b.lastSeq)
  BY BufferFields DEF Inv, WellFormed
<1>2. /\ n \in 0..Len(b.items)
      /\ \A j \in 1..n : b.items[j].seq < maxSeq + 1
      /\ n < Len(b.items) => b.items[n + 1].seq >= maxSeq + 1
  <2> DEFINE a == SearchAtLeast(b.items, maxSeq + 1)
  <2>1. maxSeq + 1 \in Int OBVIOUS
  <2>2. /\ a \in 1..(Len(b.items) + 1)
        /\ \A j \in 1..(a - 1) : b.items[j].seq < maxSeq + 1
        /\ a <= Len(b.items) => b.items[a].seq >= maxSeq + 1
    BY <1>1, <2>1, SearchAnswer
  <2>3. n = a - 1 BY DEF SearchAbove
  <2> HIDE DEF a, n
  <2> QED BY <1>1, <2>2, <2>3
<1> HIDE DEF n
<1>3. \A i \in 1..Len(b.items) : b.items[i].seq \in Nat /\ b.items[i].seq >= 1
  BY <1>1 DEF Ascending
<1>4. DOMAIN LogView \cap 1..maxSeq = K
  <2>1. DOMAIN LogView = {b.items[i].seq : i \in 1..Len(b.items)} BY LogFacts
  <2>2. ASSUME NEW i \in 1..n PROVE b.items[i].seq \in 1..maxSeq /\ i \in 1..Len(b.items)
    BY <1>1, <1>2, <1>3
  <2>3. ASSUME NEW i \in 1..Len(b.items), b.items[i].seq \in 1..maxSeq PROVE i \in 1..n
    <3> SUFFICES ASSUME i > n PROVE FALSE BY <1>2
    <3>1. n + 1 \in 1..Len(b.items) /\ b.items[n + 1].seq >= maxSeq + 1 BY <1>1, <1>2
    <3>2. b.items[n + 1].seq <= b.items[i].seq BY <1>1, <1>2, <1>3, <3>1 DEF Ascending
    <3> QED BY <1>3, <2>3, <3>1, <3>2
  <2> HIDE DEF LogView
  <2> QED BY <2>1, <2>2, <2>3
<1>5. Log!Cardinality(K) = n
  <2>1. Cardinality(K) = n BY <1>1, <1>2, SeqCount
  <2> QED BY <2>1, LogCardinality
<1>6. CASE b.detached /\ Refuse("delete_up_to", "detached")
  <2>1. CellsOwned' /\ Log!Refuse("delete_up_to", "detached") BY <1>6, RefuseOnLog
  <2> QED BY <1>6, <2>1 DEF Log!LogDelete
<1>7. CASE ~b.detached /\ n = 0 /\ Miss("delete_up_to")
  <2>1. K = {} BY <1>7
  <2>2. CellsOwned' /\ Log!LogDelete("delete_up_to", {}) BY <1>7, MissOnLog
  <2> QED BY <1>4, <2>1, <2>2
<1>8. CASE /\ ~b.detached /\ n > 0
           /\ Commit(deletePrefix(b, n, now), cells, -sumItemBytes(SubSeq(b.items, 1, n)), -n)
           /\ Reply("delete_up_to", n, FALSE)
  <2>1. b' = deletePrefix(b, n, now) BY <1>8 DEF Commit
  <2>2. {SubSeq(b.items, 1, n)[i].seq : i \in 1..n} = K
    <3>1. \A i \in 1..n : SubSeq(b.items, 1, n)[i] = b.items[i] BY <1>1, <1>2
    <3> QED BY <3>1
  <2>3. rest = <<>> => DOMAIN b.bySeq \ K = {}
    <3> SUFFICES ASSUME rest = <<>> PROVE DOMAIN b.bySeq \ K = {} OBVIOUS
    <3>1. Len(rest) = Len(b.items) - n BY <1>1, <1>2
    <3>2. Len(b.items) = n
      <4>1. n \in Nat /\ Len(b.items) \in Nat BY <1>1, <1>2
      <4> HIDE DEF rest
      <4>2. Len(rest) = Len(<<>>) OBVIOUS
      <4>3. Len(<<>>) = 0 OBVIOUS
      <4> QED BY <3>1, <4>1, <4>2, <4>3
    <3>3. DOMAIN b.bySeq = {b.items[j].seq : j \in 1..Len(b.items)} BY LogFacts
    <3> QED BY <3>2, <3>3
  <2> HIDE DEF K, rest
  <2>4. /\ b'.bySeq = IF rest # <<>> THEN Without(b.bySeq, K) ELSE EmptyMap
        /\ b'.lastSeq = b.lastSeq /\ b'.detached = b.detached
    BY <1>1, <2>1, <2>2 DEF deletePrefix, resetIfEmptyLocked, Buffer, rest
  <2>5. b'.bySeq = Without(b.bySeq, K) BY <2>3, <2>4, ResetOnMap
  <2>6. \A s \in DOMAIN b'.bySeq : SameCell(b'.bySeq[s], cells, cells')
    BY <1>8, CommitKeepsCells
  <2>7. CellsOwned' /\ Log!Drop(K) BY <2>4, <2>5, <2>6, DropsEntries
  <2> QED BY <1>4, <1>5, <1>8, <2>7 DEF Reply, Log!Reply, Log!LogDelete
<1> QED BY <1>6, <1>7, <1>8 DEF deleteUpToSeq, n

(***************************************************************************)
(* The commit of a /warm shows its batch under seqs 1..n.                  *)
(***************************************************************************)
LEMMA WarmOnLog ==
    ASSUME Inv, Inv', PlanIsBatch, commitReplacementPreReserved
    PROVE  CellsOwned' /\ \E w \in WarmInputs : Log!LogWarm(w)
<1>1. PICK w \in WarmInputs, ts \in Nat : plan.items = replacementItems(w, ts)
  BY DEF PlanIsBatch, commitReplacementPreReserved
<1>2. /\ b \in Buffer /\ ~b.detached /\ w \in Seq(Input)
      /\ b' = commitItems(b, plan.items, plan.newBytes, now)
      /\ Reply("warm", Len(plan.items), FALSE)
  BY BufferAssumption DEF Inv, WellFormed, commitReplacementPreReserved, Commit
<1>3. Len(plan.items) = Len(w) /\ Len(w) \in Nat
  <2>1. Len(w) \in Nat BY <1>2
  <2> QED BY <1>1, <2>1 DEF replacementItems
<1>4. /\ b'.bySeq = MapBySeq(plan.items) /\ b'.lastSeq = Len(w) /\ b'.detached = b.detached
  BY <1>2, <1>3 DEF commitItems, Buffer
<1>5. /\ DOMAIN b'.bySeq = 1..Len(w)
      /\ \A s \in 1..Len(w) :
           /\ b'.bySeq[s].id = w[s].id /\ b'.bySeq[s].payload = w[s].payload
           /\ b'.bySeq[s].counter = NoCell
  BY <1>1, <1>3, <1>4 DEF MapBySeq, replacementItems
<1>6. CellsOwned' BY <1>5 DEF CellsOwned
<1>7. LogView' = [s \in 1..Len(w) |-> [id |-> w[s].id, val |-> <<"payload", w[s].payload>>]]
  <2>1. View(b'.bySeq, cells')
          = [s \in 1..Len(w) |-> [id |-> w[s].id, val |-> <<"payload", w[s].payload>>]]
    BY <1>5 DEF View, Entry
  <2> QED BY <2>1, NextLogViewIsView
<1>8. Log!Reply("warm", Len(w), FALSE) BY <1>2, <1>3 DEF Reply, Log!Reply
<1>9. Log!LogWarm(w) BY <1>2, <1>4, <1>7, <1>8 DEF Log!LogWarm
<1> QED BY <1>6, <1>9

(***************************************************************************)
(* Deleting the scope closes the log and counts what it held.              *)
(***************************************************************************)
LEMMA CloseOnLog ==
    ASSUME Inv, Inv', CellsOwned, deleteScope
    PROVE  CellsOwned' /\ Log!LogClose
<1>1. /\ ~b.detached /\ b' = [b EXCEPT !.detached = TRUE] /\ UNCHANGED cells
      /\ Reply("delete_scope", Len(b.items), FALSE)
  BY DEF deleteScope
<1>2. b \in Buffer BY DEF Inv, WellFormed
<1>3. b'.detached = TRUE /\ b'.bySeq = b.bySeq /\ b'.lastSeq = b.lastSeq
  BY <1>1, <1>2 DEF Buffer
<1>4. LogView' = LogView BY <1>1, <1>3, LogViewIsView, NextLogViewIsView
<1>5. CellsOwned' BY <1>3 DEF CellsOwned
<1>6. Log!Cardinality(DOMAIN LogView) = Len(b.items) BY CountOfLog
<1> HIDE DEF LogView
<1> QED BY <1>1, <1>3, <1>4, <1>5, <1>6 DEF Reply, Log!Reply, Log!LogClose

-----------------------------------------------------------------------------
(* Every step. *)

(***************************************************************************)
(* A call of a client is the same call on the log.                         *)
(***************************************************************************)
LEMMA CallsOnLog ==
    ASSUME Inv, Inv', CellsOwned
    PROVE  /\ \A in \in Input : appendItem(in) =>
                CellsOwned' /\ Log!LogAppend(in.id, in.payload)
           /\ \A in \in Input : upsertByID(in) =>
                CellsOwned' /\ in.id \in Ids /\ Log!LogUpsert(in.id, in.payload)
           /\ \A id \in Ids, p \in Payloads : updateByID(id, p) =>
                CellsOwned' /\ Log!LogUpdate(Log!SeqsOf(id), p)
           /\ \A s \in Seqs, p \in Payloads : updateBySeq(s, p) =>
                CellsOwned' /\ Log!LogUpdate({s} \cap DOMAIN LogView, p)
           /\ \A id \in Ids : deleteByID(id) =>
                CellsOwned' /\ Log!LogDelete("delete", Log!SeqsOf(id))
           /\ \A s \in Seqs : deleteBySeq(s) =>
                CellsOwned' /\ Log!LogDelete("delete", {s} \cap DOMAIN LogView)
<1>1. ASSUME NEW in \in Input, appendItem(in)
      PROVE  CellsOwned' /\ Log!LogAppend(in.id, in.payload)
  <2>1. in.id \in Ids \cup {NoId} BY DEF Input
  <2>2. in.id # NoId => (Log!SeqsOf(in.id) # {} <=> in.id \in DOMAIN b.byID)
    BY <2>1, SeqsOfId
  <2>3. CASE appendRefusal(in) # "none" /\ Refuse("append", appendRefusal(in))
    <3>1. CellsOwned' /\ Log!Refuse("append", appendRefusal(in)) BY <2>3, RefuseOnLog
    <3>2. Log!Full <=> itemCapExceeded(b, Len(b.items) + 1) BY CountOfLog
    <3> QED BY <2>2, <2>3, <3>1, <3>2 DEF appendRefusal, Log!LogAppend
  <2>4. CASE appendRefusal(in) = "none" /\ InsertNew(in) /\ Reply("append", b.lastSeq + 1, TRUE)
    <3>1. CellsOwned' /\ Log!Add(in.id, <<"payload", in.payload>>) BY <2>4, InsertOnLog
    <3>2. Log!Full <=> itemCapExceeded(b, Len(b.items) + 1) BY CountOfLog
    <3>3. Log!Reply("append", b.lastSeq + 1, TRUE) BY <2>4 DEF Reply, Log!Reply
    <3> QED BY <2>2, <2>4, <3>1, <3>2, <3>3 DEF appendRefusal, Log!LogAppend
  <2> QED BY <1>1, <2>3, <2>4 DEF appendItem
<1>2. ASSUME NEW in \in Input, upsertByID(in)
      PROVE  CellsOwned' /\ in.id \in Ids /\ Log!LogUpsert(in.id, in.payload)
  <2>1. in.id \in Ids /\ in.payload \in Payloads BY <1>2 DEF Input, upsertByID
  <2>2. Log!Full <=> itemCapExceeded(b, Len(b.items) + 1) BY CountOfLog
  <2>3. CASE b.detached /\ Refuse("upsert", "detached")
    <3>1. CellsOwned' /\ Log!Refuse("upsert", "detached") BY <2>3, RefuseOnLog
    <3> QED BY <2>1, <2>3, <3>1 DEF Log!LogUpsert
  <2>4. CASE ~b.detached /\ Refuse("upsert", "store_full")
    <3>1. CellsOwned' /\ Log!Refuse("upsert", "store_full") BY <2>4, RefuseOnLog
    <3> QED BY <2>1, <2>4, <3>1 DEF Log!LogUpsert
  <2>5. CASE /\ ~b.detached /\ in.id \in DOMAIN b.byID
             /\ ReplacePayload(b.byID[in.id], in.payload)
             /\ Reply("upsert", b.byID[in.id].seq, FALSE)
    <3> DEFINE k == b.byID[in.id].seq
    <3>1. CellsOwned' /\ Log!SetVal(k, <<"payload", in.payload>>)
      BY <2>1, <2>5, ReplaceOnLog
    <3>2. Log!SeqsOf(in.id) = {k} BY <2>1, <2>5, SeqsOfId
    <3>3. k \in Log!SeqsOf(in.id) BY <3>2
    <3>4. Log!Reply("upsert", k, FALSE) BY <2>5 DEF Reply, Log!Reply
    <3> HIDE DEF k
    <3> QED BY <2>1, <2>5, <3>1, <3>3, <3>4 DEF Log!LogUpsert
  <2>6. CASE /\ ~b.detached /\ in.id \notin DOMAIN b.byID /\ appendRefusal(in) # "none"
             /\ Refuse("upsert", appendRefusal(in))
    <3>1. CellsOwned' /\ Log!Refuse("upsert", appendRefusal(in)) BY <2>6, RefuseOnLog
    <3>2. Log!SeqsOf(in.id) = {} BY <2>1, <2>6, SeqsOfId
    <3> QED BY <2>1, <2>2, <2>6, <3>1, <3>2 DEF appendRefusal, Log!LogUpsert
  <2>7. CASE /\ ~b.detached /\ in.id \notin DOMAIN b.byID /\ appendRefusal(in) = "none"
             /\ InsertNew(in) /\ Reply("upsert", b.lastSeq + 1, TRUE)
    <3>1. CellsOwned' /\ Log!Add(in.id, <<"payload", in.payload>>) BY <2>7, InsertOnLog
    <3>2. Log!SeqsOf(in.id) = {} BY <2>1, <2>7, SeqsOfId
    <3>3. Log!Reply("upsert", b.lastSeq + 1, TRUE) BY <2>7 DEF Reply, Log!Reply
    <3> QED BY <2>1, <2>2, <2>7, <3>1, <3>2, <3>3 DEF appendRefusal, Log!LogUpsert
  <2> QED BY <1>2, <2>3, <2>4, <2>5, <2>6, <2>7 DEF upsertByID
<1>3. ASSUME NEW existing, NEW p \in Payloads, NEW S, S = {existing.seq}, ~b.detached,
             \/ \E k \in DOMAIN b.byID : existing = b.byID[k]
             \/ \E s \in DOMAIN b.bySeq : existing = b.bySeq[s],
             UpdateExisting(existing, p)
      PROVE  CellsOwned' /\ Log!LogUpdate(S, p)
  <2>1. CASE Refuse("update", "store_full")
    <3>1. CellsOwned' /\ Log!Refuse("update", "store_full") BY <2>1, RefuseOnLog
    <3> QED BY <1>3, <3>1 DEF Log!LogUpdate
  <2>2. CASE ReplacePayload(existing, p) /\ Reply("update", 1, FALSE)
    <3>1. CellsOwned' /\ Log!SetVal(existing.seq, <<"payload", p>>)
      BY <1>3, <2>2, ReplaceOnLog
    <3>2. Log!Reply("update", 1, FALSE) BY <2>2 DEF Reply, Log!Reply
    <3> QED BY <1>3, <3>1, <3>2 DEF Log!LogUpdate
  <2> QED BY <1>3, <2>1, <2>2 DEF UpdateExisting
<1>4. ASSUME NEW id \in Ids, NEW p \in Payloads, updateByID(id, p)
      PROVE  CellsOwned' /\ Log!LogUpdate(Log!SeqsOf(id), p)
  <2>1. CASE b.detached /\ Refuse("update", "detached")
    <3>1. CellsOwned' /\ Log!Refuse("update", "detached") BY <2>1, RefuseOnLog
    <3> QED BY <2>1, <3>1 DEF Log!LogUpdate
  <2>2. CASE ~b.detached /\ id \notin DOMAIN b.byID /\ Miss("update")
    <3>1. CellsOwned' /\ Log!Miss("update") BY <2>2, MissOnLog
    <3>2. Log!SeqsOf(id) = {} BY <2>2, SeqsOfId
    <3> QED BY <2>2, <3>1, <3>2 DEF Log!LogUpdate
  <2>3. CASE ~b.detached /\ id \in DOMAIN b.byID /\ UpdateExisting(b.byID[id], p)
    <3>1. Log!SeqsOf(id) = {b.byID[id].seq} BY <2>3, SeqsOfId
    <3> QED BY <1>3, <2>3, <3>1
  <2> QED BY <1>4, <2>1, <2>2, <2>3 DEF updateByID
<1>5. ASSUME NEW s \in Seqs
      PROVE  /\ s \in DOMAIN b.bySeq =>
                   {s} \cap DOMAIN LogView = {s} /\ b.bySeq[s].seq = s
             /\ s \notin DOMAIN b.bySeq => {s} \cap DOMAIN LogView = {}
  BY LogFacts
<1>6. ASSUME NEW s \in Seqs, NEW p \in Payloads, updateBySeq(s, p)
      PROVE  CellsOwned' /\ Log!LogUpdate({s} \cap DOMAIN LogView, p)
  <2>1. CASE b.detached /\ Refuse("update", "detached")
    <3>1. CellsOwned' /\ Log!Refuse("update", "detached") BY <2>1, RefuseOnLog
    <3> QED BY <2>1, <3>1 DEF Log!LogUpdate
  <2>2. CASE ~b.detached /\ s \notin DOMAIN b.bySeq /\ Miss("update")
    <3>1. CellsOwned' /\ Log!Miss("update") BY <2>2, MissOnLog
    <3> QED BY <1>5, <2>2, <3>1 DEF Log!LogUpdate
  <2>3. CASE ~b.detached /\ s \in DOMAIN b.bySeq /\ Refuse("update", "too_large")
    <3>1. CellsOwned' /\ Log!Refuse("update", "too_large") BY <2>3, RefuseOnLog
    <3> QED BY <1>5, <2>3, <3>1 DEF Log!LogUpdate
  <2>4. CASE ~b.detached /\ s \in DOMAIN b.bySeq /\ UpdateExisting(b.bySeq[s], p)
    <3>1. {s} \cap DOMAIN LogView = {b.bySeq[s].seq} BY <1>5, <2>4
    <3> QED BY <1>3, <2>4, <3>1
  <2> QED BY <1>6, <2>1, <2>2, <2>3, <2>4 DEF updateBySeq
<1>7. ASSUME NEW id \in Ids, deleteByID(id)
      PROVE  CellsOwned' /\ Log!LogDelete("delete", Log!SeqsOf(id))
  <2>1. CASE b.detached /\ Refuse("delete", "detached")
    <3>1. CellsOwned' /\ Log!Refuse("delete", "detached") BY <2>1, RefuseOnLog
    <3> QED BY <2>1, <3>1 DEF Log!LogDelete
  <2>2. CASE ~b.detached /\ id \notin DOMAIN b.byID /\ Miss("delete")
    <3>1. CellsOwned' /\ Log!LogDelete("delete", {}) BY <2>2, MissOnLog
    <3>2. Log!SeqsOf(id) = {} BY <2>2, SeqsOfId
    <3> QED BY <3>1, <3>2
  <2>3. CASE ~b.detached /\ id \in DOMAIN b.byID /\ DeleteItem(b.byID[id].seq)
    <3>1. Log!SeqsOf(id) = {b.byID[id].seq} BY <2>3, SeqsOfId
    <3>2. CellsOwned' /\ Log!LogDelete("delete", {b.byID[id].seq}) BY <2>3, DeleteOnLog
    <3> QED BY <3>1, <3>2
  <2> QED BY <1>7, <2>1, <2>2, <2>3 DEF deleteByID
<1>8. ASSUME NEW s \in Seqs, deleteBySeq(s)
      PROVE  CellsOwned' /\ Log!LogDelete("delete", {s} \cap DOMAIN LogView)
  <2>1. CASE b.detached /\ Refuse("delete", "detached")
    <3>1. CellsOwned' /\ Log!Refuse("delete", "detached") BY <2>1, RefuseOnLog
    <3> QED BY <2>1, <3>1 DEF Log!LogDelete
  <2>2. CASE ~b.detached /\ s \notin DOMAIN b.bySeq /\ Miss("delete")
    <3>1. CellsOwned' /\ Log!LogDelete("delete", {}) BY <2>2, MissOnLog
    <3> QED BY <1>5, <2>2, <3>1
  <2>3. CASE ~b.detached /\ s \in DOMAIN b.bySeq /\ DeleteItem(s)
    <3>1. {s} \cap DOMAIN LogView = {s} /\ b.bySeq[s].seq = s BY <1>5, <2>3
    <3>2. CellsOwned' /\ Log!LogDelete("delete", {b.bySeq[s].seq})
      BY <2>3, <3>1, DeleteOnLog
    <3> QED BY <3>1, <3>2
  <2> QED BY <1>8, <2>1, <2>2, <2>3 DEF deleteBySeq
<1> QED BY <1>1, <1>2, <1>4, <1>6, <1>7, <1>8

(***************************************************************************)
(* A /warm batch is pending only with a batch in hand.                     *)
(***************************************************************************)
LEMMA PlanStaysBatch ==
    ASSUME Inv, PlanIsBatch, [Next]_vars PROVE PlanIsBatch'
<1>1. ASSUME NEW w \in WarmInputs, warmReserve(w) PROVE PlanIsBatch'
  <2>1. CASE UNCHANGED plan BY <2>1 DEF PlanIsBatch
  <2>2. CASE plan'.items = replacementItems(w, now)
    <3>1. now \in Nat BY DEF Inv
    <3> QED BY <2>2, <3>1 DEF PlanIsBatch
  <2> QED BY <1>1, <2>1, <2>2 DEF warmReserve
<1>2. CASE commitReplacementPreReserved
  BY <1>2 DEF commitReplacementPreReserved, NoPlan, PlanIsBatch
<1>3. CASE UNCHANGED plan BY <1>3 DEF PlanIsBatch
<1> QED BY <1>1, <1>2, <1>3
    DEF Next, vars, appendItem, upsertByID, updateByID, updateBySeq, counterAdd,
        deleteByID, deleteBySeq, deleteUpToSeq, deleteScope, otherScopes, Tick, Poll, BufferCall

(***************************************************************************)
(* The mapping: every step of the buffer is a step of the log, or a        *)
(* stutter, and no step makes two items share a cell.                      *)
(***************************************************************************)
LEMMA LogStep ==
    ASSUME LogInv, Inv', [Next]_vars
    PROVE  CellsOwned' /\ [Log!Next]_(Log!logVars)
<1> USE DEF LogInv
<1> DEFINE Still == UNCHANGED <<LogView, b.lastSeq, b.detached, res>>
<1>0. Still => [Log!Next]_(Log!logVars) BY DEF Log!logVars
<1> HIDE DEF Still
<1>1. ASSUME NEW in \in Input, appendItem(in) PROVE CellsOwned' /\ Log!Next
  <2>1. CellsOwned' /\ Log!LogAppend(in.id, in.payload) BY <1>1, CallsOnLog
  <2>2. in.id \in Ids \cup {NoId} /\ in.payload \in Payloads BY DEF Input
  <2> QED BY <2>1, <2>2 DEF Log!Next
<1>2. ASSUME NEW in \in Input, upsertByID(in) PROVE CellsOwned' /\ Log!Next
  <2>1. CellsOwned' /\ in.id \in Ids /\ Log!LogUpsert(in.id, in.payload)
    BY <1>2, CallsOnLog
  <2>2. in.payload \in Payloads BY DEF Input
  <2> QED BY <2>1, <2>2 DEF Log!Next
<1>3. ASSUME NEW id \in Ids, NEW p \in Payloads, updateByID(id, p)
      PROVE  CellsOwned' /\ Log!Next
  <2>1. CellsOwned' /\ Log!LogUpdate(Log!SeqsOf(id), p) BY <1>3, CallsOnLog
  <2> QED BY <2>1 DEF Log!Next
<1>4. ASSUME NEW s \in Seqs, NEW p \in Payloads, updateBySeq(s, p)
      PROVE  CellsOwned' /\ Log!Next
  <2>1. CellsOwned' /\ Log!LogUpdate({s} \cap DOMAIN LogView, p) BY <1>4, CallsOnLog
  <2> QED BY <2>1 DEF Log!Next, Seqs, Log!Seqs
<1>5. ASSUME NEW id \in Ids, NEW by \in Increments, counterAdd(id, by)
      PROVE  CellsOwned' /\ Log!Next
  <2>1. CellsOwned' /\ Log!LogCounterAdd(id, by) BY <1>5, CounterAddOnLog
  <2> QED BY <2>1 DEF Log!Next
<1>6. ASSUME NEW id \in Ids, deleteByID(id) PROVE CellsOwned' /\ Log!Next
  <2>1. CellsOwned' /\ Log!LogDelete("delete", Log!SeqsOf(id)) BY <1>6, CallsOnLog
  <2> QED BY <2>1 DEF Log!Next
<1>7. ASSUME NEW s \in Seqs, deleteBySeq(s) PROVE CellsOwned' /\ Log!Next
  <2>1. CellsOwned' /\ Log!LogDelete("delete", {s} \cap DOMAIN LogView)
    BY <1>7, CallsOnLog
  <2> QED BY <2>1 DEF Log!Next, Seqs, Log!Seqs
<1>8. ASSUME NEW s \in Seqs, deleteUpToSeq(s) PROVE CellsOwned' /\ Log!Next
  <2>1. s \in Nat BY BufferAssumption DEF Seqs
  <2>2. CellsOwned' /\ Log!LogDelete("delete_up_to", DOMAIN LogView \cap 1..s)
    BY <1>8, <2>1, DrainOnLog
  <2> QED BY <2>2 DEF Log!Next, Seqs, Log!Seqs
<1>9. ASSUME NEW w \in WarmInputs, warmReserve(w)
      PROVE  CellsOwned' /\ [Log!Next]_(Log!logVars)
  <2>1. CASE Refuse("warm", "store_full")
    <3>1. ~b.detached BY <1>9 DEF warmReserve
    <3>2. CellsOwned' /\ Log!Refuse("warm", "store_full") BY <2>1, RefuseOnLog
    <3>3. Log!LogWarm(w) BY <3>1, <3>2 DEF Log!LogWarm
    <3> QED BY <3>2, <3>3 DEF Log!Next
  <2>2. CASE UNCHANGED <<b, cells, res>>
    <3>1. CellsOwned' /\ Still BY <2>2, KeepsLog DEF Still
    <3> QED BY <1>0, <3>1
  <2> QED BY <1>9, <2>1, <2>2 DEF warmReserve
<1>10. ASSUME commitReplacementPreReserved PROVE CellsOwned' /\ Log!Next
  <2>1. CellsOwned' /\ \E w \in WarmInputs : Log!LogWarm(w) BY <1>10, WarmOnLog
  <2> QED BY <2>1 DEF Log!Next
<1>11. ASSUME deleteScope PROVE CellsOwned' /\ Log!Next
  <2>1. CellsOwned' /\ Log!LogClose BY <1>11, CloseOnLog
  <2> QED BY <2>1 DEF Log!Next
<1>12. ASSUME UNCHANGED <<b, cells, res>> PROVE CellsOwned' /\ [Log!Next]_(Log!logVars)
  <2>1. CellsOwned' /\ Still BY <1>12, KeepsLog DEF Still
  <2> QED BY <1>0, <2>1
<1>13. ASSUME NEW d \in OtherDeltas, otherScopes(d)
       PROVE  CellsOwned' /\ [Log!Next]_(Log!logVars)
  BY <1>12, <1>13 DEF otherScopes
<1>14. ASSUME Tick \/ Poll PROVE CellsOwned' /\ [Log!Next]_(Log!logVars)
  BY <1>12, <1>14 DEF Tick, Poll
<1>15. ASSUME UNCHANGED vars PROVE CellsOwned' /\ [Log!Next]_(Log!logVars)
  BY <1>12, <1>15 DEF vars
<1> QED BY <1>1, <1>2, <1>3, <1>4, <1>5, <1>6, <1>7, <1>8, <1>9, <1>10, <1>11, <1>13,
           <1>14, <1>15 DEF Next

(***************************************************************************)
(* A fresh scope is an empty log.                                          *)
(***************************************************************************)
LEMMA InitLog == Init => LogInv /\ Log!Init
<1> SUFFICES ASSUME Init PROVE LogInv /\ Log!Init OBVIOUS
<1>1. Inv BY InitInv
<1>2. /\ b.bySeq = EmptyMap /\ b.lastSeq = 0 /\ b.detached = FALSE /\ ~plan.pending
      /\ res = [op |-> "none", err |-> "none", n |-> 0, created |-> FALSE]
  BY DEF Init, newscopeBuffer, NoPlan
<1>3. CellsOwned /\ PlanIsBatch BY <1>2 DEF CellsOwned, PlanIsBatch, EmptyMap
<1>4. LogView = [s \in {} |-> s]
  <2>1. View(b.bySeq, cells) = [s \in {} |-> s] BY <1>2 DEF View, EmptyMap
  <2> QED BY <1>1, <2>1, LogViewIsView
<1> QED BY <1>1, <1>2, <1>3, <1>4 DEF LogInv, Log!Init

(***************************************************************************)
(* No two items of a scope ever share a counter cell, and a /warm commits  *)
(* a batch a client sent.                                                  *)
(***************************************************************************)
THEOREM LogInvariance == Spec => []LogInv
<1>1. LogInv /\ [Next]_vars => LogInv'
  BY NextInv, LogStep, PlanStaysBatch DEF LogInv
<1> QED BY <1>1, InitLog, PTL DEF Spec

(***************************************************************************)
(* The buffer implements the log: every call on the slice, the two maps,   *)
(* the counter cells and the split /warm has the effect and the reply that *)
(* ScopeLog gives it, for any number of callers with a pointer to it.      *)
(***************************************************************************)
THEOREM BufferImplementsLog == Spec => ImplementsScopeLog
<1>1. LogInv /\ LogInv' /\ [Next]_vars => [Log!Next]_(Log!logVars)
  BY LogStep DEF LogInv
<1> QED BY <1>1, InitLog, LogInvariance, PTL DEF Spec, ImplementsScopeLog, Log!Spec

-----------------------------------------------------------------------------
(* Pages. *)

SeqsIn(items, m, n) == {items[i].seq : i \in m..n}

\* The k lowest members of a set of seqs, as HeadIsLowestAbove words it.
Lowest(S, k) == {s \in S : Cardinality({t \in S : t <= s}) <= k}

(***************************************************************************)
(* Seqs compare as their slots do.                                         *)
(***************************************************************************)
LEMMA SeqOrder ==
    ASSUME NEW items \in Seq(Item), NEW last, Ascending(items, last),
           NEW i \in 1..Len(items), NEW j \in 1..Len(items)
    PROVE  /\ items[i].seq \in Nat /\ items[j].seq \in Nat
           /\ items[i].seq <= items[j].seq <=> i <= j
<1>1. items[i].seq \in Nat /\ items[j].seq \in Nat
  <2>1. items[i] \in Item /\ items[j] \in Item OBVIOUS
  <2> QED BY <2>1 DEF Item
<1>2. i < j => items[i].seq < items[j].seq BY DEF Ascending
<1>3. j < i => items[j].seq < items[i].seq BY DEF Ascending
<1>4. i \in Int /\ j \in Int OBVIOUS
<1> QED BY <1>1, <1>2, <1>3, <1>4

(***************************************************************************)
(* A range of slots holds as many seqs as it has slots.                    *)
(***************************************************************************)
LEMMA RangeCount ==
    ASSUME NEW items \in Seq(Item), NEW last, Ascending(items, last),
           NEW m \in 1..(Len(items) + 1), NEW n \in 0..Len(items)
    PROVE  /\ IsFiniteSet(SeqsIn(items, m, n))
           /\ Cardinality(SeqsIn(items, m, n)) = IF m > n THEN 0 ELSE n - m + 1
<1> DEFINE S == SeqsIn(items, m, n)
           f == [i \in m..n |-> items[i].seq]
<1>1. f \in [m..n -> S] BY DEF SeqsIn
<1>2. ASSUME NEW i \in m..n, NEW j \in m..n, f[i] = f[j] PROVE i = j
  <2>1. i \in 1..Len(items) /\ j \in 1..Len(items) OBVIOUS
  <2>2. /\ items[i].seq \in Nat /\ items[j].seq \in Nat
        /\ items[i].seq <= items[j].seq <=> i <= j
        /\ items[j].seq <= items[i].seq <=> j <= i
    BY <2>1, SeqOrder
  <2>3. items[i].seq = items[j].seq BY <1>2
  <2> QED BY <2>1, <2>2, <2>3
<1>3. \A s \in S : \E i \in m..n : f[i] = s BY DEF SeqsIn
<1> HIDE DEF f, S
<1>4. f \in Bijection(m..n, S)
  BY <1>1, <1>2, <1>3 DEF Bijection, Injection, Surjection, IsInjective
<1>5. ExistsBijection(m..n, S) BY <1>4 DEF ExistsBijection
<1>6. IsFiniteSet(m..n) /\ Cardinality(m..n) = IF m > n THEN 0 ELSE n - m + 1
  <2>1. m \in Int /\ n \in Int OBVIOUS
  <2> QED BY <2>1, FS_Interval
<1>7. IsFiniteSet(S) /\ Cardinality(S) = Cardinality(m..n) BY <1>5, <1>6, FS_Bijection
<1> QED BY <1>6, <1>7 DEF S

(***************************************************************************)
(* The slots of sinceSeq's page are those of the lowest seqs from m on.    *)
(***************************************************************************)
LEMMA LowestOfRange ==
    ASSUME NEW items \in Seq(Item), NEW last, Ascending(items, last),
           NEW m \in 1..(Len(items) + 1), NEW limit \in Nat \ {0}
    PROVE  LET n == Len(items)
               top == IF n - m + 1 > limit THEN m + limit - 1 ELSE n
           IN  Lowest(SeqsIn(items, m, n), limit) = SeqsIn(items, m, top)
<1> DEFINE n == Len(items)
           top == IF n - m + 1 > limit THEN m + limit - 1 ELSE n
           S == SeqsIn(items, m, n)
<1>1. n \in Nat OBVIOUS
<1>2. ASSUME NEW i \in m..n
      PROVE  /\ items[i].seq \in S
             /\ Cardinality({t \in S : t <= items[i].seq}) <= limit <=> i <= top
  <2>1. {t \in S : t <= items[i].seq} = SeqsIn(items, m, i)
    <3>1. ASSUME NEW j \in m..n PROVE items[j].seq <= items[i].seq <=> j <= i
      <4>1. i \in 1..Len(items) /\ j \in 1..Len(items) OBVIOUS
      <4> QED BY <4>1, SeqOrder
    <3>2. ASSUME NEW t \in S, t <= items[i].seq PROVE t \in SeqsIn(items, m, i)
      <4>1. PICK j \in m..n : t = items[j].seq BY DEF SeqsIn
      <4>2. j \in m..i BY <3>1, <3>2, <4>1
      <4> QED BY <4>1, <4>2 DEF SeqsIn
    <3>3. ASSUME NEW t \in SeqsIn(items, m, i) PROVE t \in S /\ t <= items[i].seq
      <4>1. PICK j \in m..i : t = items[j].seq BY DEF SeqsIn
      <4>2. j \in m..n OBVIOUS
      <4> QED BY <3>1, <4>1, <4>2 DEF SeqsIn
    <3> HIDE DEF S
    <3> QED BY <3>2, <3>3
  <2>2. Cardinality(SeqsIn(items, m, i)) = i - m + 1
    <3>1. i \in 0..Len(items) /\ ~(m > i) OBVIOUS
    <3> QED BY <3>1, RangeCount
  <2>3. i - m + 1 <= limit <=> i <= top BY <1>1
  <2>4. items[i].seq \in S BY DEF SeqsIn
  <2> HIDE DEF S, top
  <2> QED BY <2>1, <2>2, <2>3, <2>4
<1>3. top <= n /\ top \in Int BY <1>1
<1> HIDE DEF top
<1>4. ASSUME NEW s \in Lowest(S, limit) PROVE s \in SeqsIn(items, m, top)
  <2>1. s \in S /\ Cardinality({t \in S : t <= s}) <= limit BY DEF Lowest
  <2>2. PICK i \in m..n : s = items[i].seq BY <2>1 DEF SeqsIn
  <2>3. i <= top BY <1>2, <2>1, <2>2
  <2>4. i \in m..top BY <1>3, <2>3
  <2> QED BY <2>2, <2>4 DEF SeqsIn
<1>5. ASSUME NEW s \in SeqsIn(items, m, top) PROVE s \in Lowest(S, limit)
  <2>1. PICK i \in m..top : s = items[i].seq BY DEF SeqsIn
  <2>2. i \in m..n /\ i <= top BY <1>1, <1>3
  <2> QED BY <1>2, <2>1, <2>2 DEF Lowest
<1> QED BY <1>4, <1>5 DEF top

(***************************************************************************)
(* sinceSeq, for every cursor and every limit.                             *)
(***************************************************************************)
LEMMA HeadPage ==
    ASSUME NEW buf \in Buffer, Ascending(buf.items, buf.lastSeq),
           NEW after \in Nat, NEW limit \in Nat \ {0}
    PROVE  LET page == sinceSeq(buf, after, limit)
               live == {buf.items[i].seq : i \in 1..Len(buf.items)}
               above == {s \in live : s > after}
           IN  /\ {page.items[i].seq : i \in DOMAIN page.items} = Lowest(above, limit)
               /\ Len(page.items) = Cardinality(Lowest(above, limit))
               /\ page.more <=> Lowest(above, limit) # above
<1> DEFINE items == buf.items
           n == Len(items)
           m == SearchAbove(items, after)
           available == n - m + 1
           top == IF available > limit THEN m + limit - 1 ELSE n
           live == {items[i].seq : i \in 1..n}
           above == {s \in live : s > after}
           page == sinceSeq(buf, after, limit)
<1>1. items \in Seq(Item) /\ n \in Nat /\ Ascending(items, buf.lastSeq) BY BufferFields
<1>2. /\ m \in 1..(n + 1)
      /\ \A j \in 1..(m - 1) : items[j].seq < after + 1
      /\ m <= n => items[m].seq >= after + 1
  <2>1. after + 1 \in Int OBVIOUS
  <2> QED BY <1>1, <2>1, SearchAnswer DEF SearchAbove
<1>3. /\ page.items = IF available <= 0 THEN <<>>
                      ELSE SubSeq(items, m, m + (IF available > limit THEN limit
                                                 ELSE available) - 1)
      /\ page.more = IF available <= 0 THEN FALSE ELSE available > limit
  <2>1. ~(limit <= 0) OBVIOUS
  <2> HIDE DEF m
  <2> QED BY <2>1 DEF sinceSeq, m
<1> HIDE DEF m, page
<1>4. \A i \in 1..n : items[i].seq > after <=> i >= m
  <2> SUFFICES ASSUME NEW i \in 1..n PROVE items[i].seq > after <=> i >= m OBVIOUS
  <2>1. items[i].seq \in Nat BY <1>1, SeqOrder
  <2>2. CASE i < m
    <3>1. i \in 1..(m - 1) BY <1>2, <2>2
    <3> QED BY <1>2, <2>1, <2>2, <3>1
  <2>3. CASE i >= m
    <3>1. m \in 1..n BY <1>1, <1>2, <2>3
    <3>2. items[m].seq <= items[i].seq /\ items[m].seq \in Nat
      BY <1>1, <2>3, <3>1, SeqOrder
    <3> QED BY <1>2, <2>1, <2>3, <3>1, <3>2
  <2> QED BY <1>2, <2>2, <2>3
<1>5. above = SeqsIn(items, m, n)
  <2>1. ASSUME NEW s \in above PROVE s \in SeqsIn(items, m, n)
    <3>1. PICK i \in 1..n : s = items[i].seq BY <2>1
    <3>2. i \in m..n BY <1>1, <1>2, <1>4, <3>1
    <3> QED BY <3>1, <3>2 DEF SeqsIn
  <2>2. ASSUME NEW s \in SeqsIn(items, m, n) PROVE s \in above
    <3>1. PICK i \in m..n : s = items[i].seq BY DEF SeqsIn
    <3>2. i \in 1..n /\ i >= m BY <1>1, <1>2
    <3> QED BY <1>4, <3>1, <3>2
  <2> HIDE DEF above
  <2> QED BY <2>1, <2>2
<1>6. Lowest(above, limit) = SeqsIn(items, m, top) BY <1>1, <1>2, <1>5, LowestOfRange
<1>7. top \in (m - 1)..n BY <1>1, <1>2
<1>8. page.items = SubSeq(items, m, top) \/ (page.items = <<>> /\ m > top)
  BY <1>1, <1>2, <1>3
<1>9. page.more <=> top < n
  <2>1. m \in Int /\ available \in Int /\ available = n - m + 1 BY <1>1, <1>2
  <2>2. CASE available <= 0
    <3>1. ~page.more BY <1>3, <2>2
    <3>2. ~(top < n) BY <1>1, <2>1, <2>2
    <3> QED BY <3>1, <3>2
  <2>3. CASE available > 0
    <3>0. ~(available <= 0) BY <2>1, <2>3
    <3> HIDE DEF available
    <3>1. page.more = (available > limit) BY <1>3, <3>0, Zenon
    <3>2. top < n <=> available > limit BY <1>1, <2>1, <2>3
    <3> QED BY <3>1, <3>2
  <2> QED BY <2>1, <2>2, <2>3
<1> HIDE DEF top, above, available
<1>10. Len(page.items) = top - m + 1 /\ DOMAIN page.items = 1..(top - m + 1)
       /\ \A i \in 1..(top - m + 1) : page.items[i] = items[m + i - 1]
  <2>1. CASE page.items = SubSeq(items, m, top)
    BY <1>1, <1>2, <1>7, <2>1
  <2>2. CASE page.items = <<>> /\ m > top
    <3>1. top - m + 1 = 0 BY <1>1, <1>2, <1>7, <2>2
    <3>2. Len(page.items) = 0 /\ DOMAIN page.items = {} BY <2>2
    <3> QED BY <3>1, <3>2
  <2> QED BY <1>8, <2>1, <2>2
<1>11. {page.items[i].seq : i \in DOMAIN page.items} = SeqsIn(items, m, top)
  <2>1. ASSUME NEW i \in DOMAIN page.items PROVE page.items[i].seq \in SeqsIn(items, m, top)
    <3>1. m + i - 1 \in m..top BY <1>2, <1>7, <1>10
    <3>2. page.items[i].seq = items[m + i - 1].seq BY <1>10
    <3> QED BY <3>1, <3>2 DEF SeqsIn
  <2>2. ASSUME NEW s \in SeqsIn(items, m, top)
        PROVE  \E i \in DOMAIN page.items : s = page.items[i].seq
    <3>1. PICK j \in m..top : s = items[j].seq BY DEF SeqsIn
    <3>2. j - m + 1 \in 1..(top - m + 1) /\ m + (j - m + 1) - 1 = j BY <1>2, <1>7
    <3>3. page.items[j - m + 1] = items[j] BY <1>10, <3>2
    <3> QED BY <1>10, <3>1, <3>2, <3>3
  <2> QED BY <2>1, <2>2
<1>12. Cardinality(SeqsIn(items, m, top)) = top - m + 1
  <2>1. top \in 0..Len(items) BY <1>1, <1>2, <1>7
  <2>2. Cardinality(SeqsIn(items, m, top)) = IF m > top THEN 0 ELSE top - m + 1
    BY <1>1, <1>2, <2>1, RangeCount
  <2> QED BY <1>2, <1>7, <2>2
<1>13. top < n <=> SeqsIn(items, m, top) # SeqsIn(items, m, n)
  <2>1. CASE top < n
    <3>1. n \in m..n /\ n \in 1..n BY <1>1, <1>2, <1>7, <2>1
    <3>2. items[n].seq \in SeqsIn(items, m, n) BY <3>1 DEF SeqsIn
    <3>3. items[n].seq \notin SeqsIn(items, m, top)
      <4> SUFFICES ASSUME NEW i \in m..top, items[i].seq = items[n].seq PROVE FALSE
        BY DEF SeqsIn
      <4>1. i \in 1..n BY <1>1, <1>2, <1>7
      <4>2. /\ items[n].seq \in Nat
            /\ items[n].seq <= items[i].seq <=> n <= i
        BY <1>1, <3>1, <4>1, SeqOrder
      <4>3. n \in Nat /\ top \in Int /\ i <= top BY <1>1, <1>7
      <4>4. ~(n <= i) BY <2>1, <4>1, <4>3
      <4>5. items[n].seq <= items[i].seq BY <4>2
      <4> QED BY <4>2, <4>4, <4>5
    <3> QED BY <2>1, <3>2, <3>3
  <2>2. CASE top = n BY <2>2
  <2> QED BY <1>1, <1>7, <2>1, <2>2
<1> QED BY <1>5, <1>6, <1>9, <1>10, <1>11, <1>12, <1>13 DEF page, above

Rank(S, s) == Cardinality({t \in S : t >= s})
Between(S, low, high) == {s \in S : low < Rank(S, s) /\ Rank(S, s) <= high}

(***************************************************************************)
(* The n-th slot from the end is the n-th newest seq.                      *)
(***************************************************************************)
LEMMA RankInRange ==
    ASSUME NEW items \in Seq(Item), NEW last, Ascending(items, last),
           NEW i \in 1..Len(items)
    PROVE  Rank(SeqsIn(items, 1, Len(items)), items[i].seq) = Len(items) - i + 1
<1> DEFINE n == Len(items)
           S == SeqsIn(items, 1, n)
<1>1. ASSUME NEW t \in S, t >= items[i].seq PROVE t \in SeqsIn(items, i, n)
  <2>1. PICK j \in 1..n : t = items[j].seq BY DEF SeqsIn
  <2>2. /\ items[i].seq \in Nat /\ items[j].seq \in Nat
        /\ items[i].seq <= items[j].seq <=> i <= j
    BY <2>1, SeqOrder
  <2>3. j \in i..n BY <1>1, <2>1, <2>2
  <2> QED BY <2>1, <2>3 DEF SeqsIn
<1>2. ASSUME NEW t \in SeqsIn(items, i, n) PROVE t \in S /\ t >= items[i].seq
  <2>1. PICK j \in i..n : t = items[j].seq BY DEF SeqsIn
  <2>2. j \in 1..n /\ i <= j OBVIOUS
  <2>3. /\ items[i].seq \in Nat /\ items[j].seq \in Nat
        /\ items[i].seq <= items[j].seq <=> i <= j
    BY <2>2, SeqOrder
  <2> QED BY <2>1, <2>2, <2>3 DEF SeqsIn
<1> HIDE DEF S
<1>3. {t \in S : t >= items[i].seq} = SeqsIn(items, i, n) BY <1>1, <1>2
<1>4. Cardinality(SeqsIn(items, i, n)) = n - i + 1
  <2>1. i \in 1..(Len(items) + 1) /\ n \in 0..Len(items) /\ ~(i > n) OBVIOUS
  <2> HIDE DEF n
  <2>2. Cardinality(SeqsIn(items, i, n)) = IF i > n THEN 0 ELSE n - i + 1
    BY <2>1, RangeCount
  <2> QED BY <2>1, <2>2
<1> QED BY <1>3, <1>4 DEF Rank, S

(***************************************************************************)
(* tailOffset, for every offset and every limit.                           *)
(***************************************************************************)
LEMMA TailPage ==
    ASSUME NEW buf \in Buffer, Ascending(buf.items, buf.lastSeq),
           NEW offset \in Nat, NEW limit \in Nat \ {0}
    PROVE  LET page == tailOffset(buf, limit, offset)
               live == {buf.items[i].seq : i \in 1..Len(buf.items)}
               wanted == Between(live, offset, offset + limit)
           IN  /\ {page.items[i].seq : i \in DOMAIN page.items} = wanted
               /\ page.more <=>
                    (wanted # {} /\ \E s \in live : Rank(live, s) > offset + limit)
<1> DEFINE items == buf.items
           n == Len(items)
           end == n - offset
           start == IF end - limit < 0 THEN 0 ELSE end - limit
           live == {items[i].seq : i \in 1..n}
           wanted == Between(live, offset, offset + limit)
           page == tailOffset(buf, limit, offset)
<1>1. items \in Seq(Item) /\ n \in Nat /\ Ascending(items, buf.lastSeq) BY BufferFields
<1>2. /\ page.items = IF offset >= n THEN <<>> ELSE SubSeq(items, start + 1, end)
      /\ page.more = IF offset >= n THEN FALSE ELSE end - limit > 0
  <2>1. ~(limit <= 0) /\ ~(offset < 0) OBVIOUS
  <2> QED BY <2>1 DEF tailOffset
<1>3. \A i \in 1..n : Rank(live, items[i].seq) = n - i + 1
  <2>1. live = SeqsIn(items, 1, n) BY DEF SeqsIn
  <2> HIDE DEF live
  <2> QED BY <1>1, <2>1, RankInRange
<1> HIDE DEF page
<1>4. CASE offset >= n
  <2>1. wanted = {}
    <3> SUFFICES ASSUME NEW s \in wanted PROVE FALSE OBVIOUS
    <3>1. s \in live /\ offset < Rank(live, s) BY DEF Between
    <3>2. PICK i \in 1..n : s = items[i].seq BY <3>1
    <3>3. Rank(live, s) = n - i + 1 BY <1>3, <3>2
    <3> HIDE DEF live
    <3> QED BY <1>1, <1>4, <3>1, <3>3
  <2>2. page.items = <<>> /\ ~page.more BY <1>2, <1>4
  <2>3. DOMAIN page.items = {} BY <2>2
  <2> HIDE DEF wanted, live
  <2> QED BY <2>1, <2>2, <2>3 DEF page, wanted, live
<1>5. CASE offset < n
  <2>1. end \in 1..n /\ start \in 0..(end - 1) BY <1>1, <1>5
  <2>2. \A i \in 1..n : (offset < n - i + 1 /\ n - i + 1 <= offset + limit)
                          <=> i \in (start + 1)..end
    BY <1>1
  <2>3. page.items = SubSeq(items, start + 1, end)
    <3>1. ~(offset >= n) BY <1>1, <1>5
    <3> QED BY <1>2, <3>1
  <2>4. page.more <=> n > offset + limit
    <3>1. ~(offset >= n) BY <1>1, <1>5
    <3>2. end - limit > 0 <=> n > offset + limit BY <1>1
    <3> HIDE DEF end
    <3> QED BY <1>2, <3>1, <3>2, Zenon
  <2> HIDE DEF end, start
  <2>5. /\ DOMAIN page.items = 1..(end - start)
        /\ \A i \in 1..(end - start) : page.items[i] = items[start + i]
    BY <1>1, <2>1, <2>3
  <2>6. ASSUME NEW s \in wanted
        PROVE  \E i \in DOMAIN page.items : s = page.items[i].seq
    <3>1. s \in live /\ offset < Rank(live, s) /\ Rank(live, s) <= offset + limit
      BY DEF Between
    <3>2. PICK i \in 1..n : s = items[i].seq BY <3>1
    <3>3. Rank(live, s) = n - i + 1 BY <1>3, <3>2
    <3>4. i \in (start + 1)..end BY <2>2, <3>1, <3>3
    <3>5. i - start \in 1..(end - start) /\ start + (i - start) = i BY <2>1, <3>4
    <3>6. page.items[i - start] = items[i] BY <2>5, <3>5
    <3> QED BY <2>5, <3>2, <3>5, <3>6
  <2>7. ASSUME NEW i \in DOMAIN page.items PROVE page.items[i].seq \in wanted
    <3>1. start + i \in (start + 1)..end /\ start + i \in 1..n BY <1>1, <2>1, <2>5
    <3>2. page.items[i].seq = items[start + i].seq BY <2>5
    <3>3. Rank(live, items[start + i].seq) = n - (start + i) + 1 BY <1>3, <3>1
    <3>4. items[start + i].seq \in live BY <3>1
    <3>5. offset < n - (start + i) + 1 /\ n - (start + i) + 1 <= offset + limit
      BY <2>2, <3>1
    <3> HIDE DEF live
    <3> QED BY <3>2, <3>3, <3>4, <3>5 DEF Between
  <2>8. wanted # {}
    <3>1. 1 \in DOMAIN page.items BY <2>1, <2>5
    <3> QED BY <2>7, <3>1
  <2>9. n > offset + limit <=> \E s \in live : Rank(live, s) > offset + limit
    <3>1. ASSUME n > offset + limit
          PROVE  \E s \in live : Rank(live, s) > offset + limit
      <4>1. 1 \in 1..n BY <1>1, <3>1
      <4>2. Rank(live, items[1].seq) = n - 1 + 1 BY <1>3, <4>1
      <4>3. items[1].seq \in live BY <4>1
      <4>4. n - 1 + 1 = n BY <1>1
      <4> HIDE DEF live
      <4> QED BY <3>1, <4>2, <4>3, <4>4
    <3>2. ASSUME NEW s \in live, Rank(live, s) > offset + limit
          PROVE  n > offset + limit
      <4>1. PICK i \in 1..n : s = items[i].seq OBVIOUS
      <4>2. Rank(live, s) = n - i + 1 BY <1>3, <4>1
      <4> HIDE DEF live
      <4> QED BY <1>1, <3>2, <4>2
    <3> HIDE DEF live
    <3> QED BY <3>1, <3>2
  <2> HIDE DEF wanted, live
  <2>10. {page.items[i].seq : i \in DOMAIN page.items} = wanted BY <2>6, <2>7
  <2> QED BY <2>4, <2>8, <2>9, <2>10 DEF page, wanted, live
<1>6. offset >= n \/ offset < n BY <1>1
<1> HIDE DEF n
<1> QED BY <1>4, <1>5, <1>6, Zenon

(***************************************************************************)
(* Every /head page, for every cursor and limit, holds the lowest seqs     *)
(* above the cursor and says exactly when more follow: the search it       *)
(* starts from always meets ascending items.                               *)
(***************************************************************************)
THEOREM EveryHeadPage ==
  Spec => [](\A after \in Nat, limit \in Nat \ {0} : HeadIsLowest(after, limit))
<1>1. Inv => \A after \in Nat, limit \in Nat \ {0} : HeadIsLowest(after, limit)
  <2> SUFFICES ASSUME Inv, NEW after \in Nat, NEW limit \in Nat \ {0}
               PROVE  HeadIsLowest(after, limit)
    OBVIOUS
  <2>1. b \in Buffer /\ Ascending(b.items, b.lastSeq) BY DEF Inv, WellFormed
  <2> QED BY <2>1, HeadPage DEF HeadIsLowest, Lowest, LiveSeqs
<1> QED BY <1>1, Invariance, PTL

(***************************************************************************)
(* HeadIsLowestAbove: among them the cursors and limits TLC tries.         *)
(***************************************************************************)
THEOREM HeadAlwaysLowest == Spec => []HeadIsLowestAbove
<1>1. (\A after \in Nat, limit \in Nat \ {0} : HeadIsLowest(after, limit)) => HeadIsLowestAbove
  <2>1. \A after \in 0..MaxSeq, limit \in 1..2 : after \in Nat /\ limit \in Nat \ {0}
    BY BufferAssumption
  <2> QED BY <2>1 DEF HeadIsLowestAbove
<1> QED BY <1>1, EveryHeadPage, PTL

(***************************************************************************)
(* Every /tail page, for every offset and limit, holds the newest items    *)
(* below the offset and says exactly when it leaves older ones out.        *)
(***************************************************************************)
THEOREM EveryTailPage ==
  Spec => [](\A offset \in Nat, limit \in Nat \ {0} : TailIsNewest(offset, limit))
<1>1. Inv => \A offset \in Nat, limit \in Nat \ {0} : TailIsNewest(offset, limit)
  <2> SUFFICES ASSUME Inv, NEW offset \in Nat, NEW limit \in Nat \ {0}
               PROVE  TailIsNewest(offset, limit)
    OBVIOUS
  <2>1. b \in Buffer /\ Ascending(b.items, b.lastSeq) BY DEF Inv, WellFormed
  <2> QED BY <2>1, TailPage DEF TailIsNewest, Between, Rank, LiveSeqs
<1> QED BY <1>1, Invariance, PTL

(***************************************************************************)
(* TailIsNewestBelow: among them the offsets and limits TLC tries.         *)
(***************************************************************************)
THEOREM TailAlwaysNewest == Spec => []TailIsNewestBelow
<1>1. (\A offset \in Nat, limit \in Nat \ {0} : TailIsNewest(offset, limit)) => TailIsNewestBelow
  <2>1. \A offset \in 0..2, limit \in 1..2 : offset \in Nat /\ limit \in Nat \ {0} OBVIOUS
  <2> QED BY <2>1 DEF TailIsNewestBelow
<1> QED BY <1>1, EveryTailPage, PTL
=============================================================================
