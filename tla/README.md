# scopecache in TLA+

scopecache is an in-memory cache: items live in named *scopes*, are addressed by
an id or a sequence number, and are read by page. One process, many request
goroutines, no persistence. This directory holds the TLA+ modules that model its
core, the TLC configurations that check them, and TLAPS proofs about them. File
and line references are to the Go sources at the root of the repository.

## 1. Inventory

| Component | State | Operations | Modelled |
|---|---|---|---|
| `scopeBuffer` (`buffer*.go`) | `items`, `byID`, `bySeq`, `lastSeq`, `bytes`, `idKeyBytes`, `maxItems`, `detached`, `lastWriteTS`; counter cells shared by item copies | append, upsert, update by id / seq, counter_add, delete by id / seq, delete_up_to, the two replacement commits | `BufferOps`, `ScopeBuffer`; the lock-free loops in `CounterCell` |
| reads (`buffer_read.go`) | none | head (`sinceSeq`), tail (`tailOffset`), get, counter materialisation | `BufferOps`, `ScopeBuffer`, `CounterCell` |
| `store` (`store.go`) | shards (map + RWMutex), `totalBytes`, `totalItems`, `scopeCount`, `lastWriteTS` | get-or-create, roll-back, single-scope operations, delete_scope, reserveBytes, stats, scopeList | `Store`; scopeList in `Listing` |
| bulk (`bulk.go`) | a plan between reservation and commit | warm, rebuild, wipe | `Store`, and `ScopeBuffer` for one scope of a /warm |
| events (`events.go`) | `_events` scope, drop counter | emit after each commit | `Events` |
| subscriptions (`subscribe.go`) | subscriber per reserved scope, one-slot channel | Subscribe, unsubscribe, notify | `Subscriber` |
| subscriber / init command (`subscriber_command*.go`, `init_command.go`) | goroutine, child process | start, stop, run | `Subscriber`, `Lifecycle` |
| drainer (`scripts/drain_events.sh`) | files, a fetched batch | head, persist, delete_up_to | `Subscriber` |
| validation (`validation.go`) | none | shape and size checks | size checks only |
| HTTP (`handlers*.go`, `api.go`) | none | decode, call, encode | no |
| gateway (`gateway*.go`) | none | pass-through with payload copies | no |
| servers (`cmd/scopecache`, `caddymodule`) | process life cycle | boot, serve, signal, shut down | `Lifecycle` |

How they interact. A request takes the shard lock briefly to find (or create) a
`*scopeBuffer`, releases it, and works on the pointer under the buffer's own
mutex `b.mu`. The buffer reserves bytes on the store's atomic counter from inside
`b.mu`. `/delete_scope` takes the shard lock and `b.mu` and marks the buffer
`detached`, so that callers with an old pointer are refused. `/warm` locks the
shards of its scopes, `/rebuild` and `/wipe` all shards, for several steps.
After `b.mu` is released an event is appended to `_events`, whose subscriber is
woken through a one-slot channel and runs a command that drains the scope.

What is hard, and what correctness means there:

* Stale pointers. Nothing a caller is told was written may land in a buffer that
  no reader can reach (`NoOrphanWrites`), and the counters must survive every
  race with creation, roll-back, deletion and replacement (`CountersAccounted`).
* Bulk replacement. Reservation and commit of a /warm are separate, and callers
  with an old pointer write in between (`StoreLockstep`, `CountersAccounted`).
* Lock order over shards (`CallsReturn` of `Store`).
* Three copies of each item and two shapes (payload or counter cell)
  (`IndexCoherent`, `BytesExact`, `ImplementsScopeLog`).
* Increments without a lock (`EveryAddCounts`, `ImplementsAtomicCounter`).
* Cursors. Clients and the drainer remember a seq (`SeqsNeverReused`) and page with
  it (`HeadIsLowestAbove`, `TailIsNewestBelow`, `StableScopesListed`).
* Caps (`WithinCap`, `WithinCapWithoutWarm`, `ItemsWithinCap`).
* Freshness polling. A client skips a refetch when a stamp is unchanged, while counters are silent and
  a /warm stamps its items before it publishes them (`UnchangedStampUnchangedItems`).
* Events are appended after the lock of their write is released: what a log that may
  be out of order, cut or reset still says (`EventsAccounted`, `ReplayReconstructs`,
  `AppendsCarryTheirOrder`, `CountersSumUp`).
* One wake-up slot, a command that fails, hangs or is killed, and a channel that is
  closed under its senders (`WakeupCovers`, `OwedIsPersisted`, `NothingSkipped`,
  `AttachedIsOpen`, `OneLiveCommand`, `StopReturns`).
* The order of a stop: commands before the listener, everything before the process
  (`SignalStopsCommandsFirst`, `NoCommandIsLeft`, `SubscribersStartEmpty`, `SignalEnds`).

The full list, with the line at which each hazard bites, is in `PROJECT.json`.

## 2. The modules

| Module | Contents |
|---|---|
| `SeqSums` | the sum of an integer sequence, as a recursive function |
| `BufferOps` | the buffer as a record, and each effect of `buffer_*.go` on it as an operator |
| `ScopeLog` | abstract specification: what one scope promises its callers |
| `ScopeBuffer` | one buffer with the store's counters; implements `ScopeLog` |
| `Store` | many scopes, many callers, shard locks, bulk operations |
| `Events` | commits and their entries in `_events` |
| `Subscriber` | one reserved scope, its writers, bridges and drainer commands |
| `AtomicCounter` | abstract specification: an addition takes effect at one instant |
| `CounterCell` | the instructions of counter_add and of its readers; implements `AtomicCounter` |
| `Listing` | a paged walk over /scopelist while scopes come and go |
| `Lifecycle` | a server process from boot to exit |
| `MCScopeBuffer`, `MCStore`, `MCEvents`, `MCCounterCell`, `MCListing`, `MCLifecycle` | constants for TLC |
| `BufferProofs`, `ScopeBufferProofs`, `StoreProofs`, `CellProofs`, `SubscriberProofs`, `EventsProofs`, `ListingProofs`, `LifecycleProofs` | theorems and proofs |

How they divide the system. `ScopeBuffer` has one buffer with all its data, `Store` many
buffers with less data and all the callers. `Events` takes a store call as one step, as
`Store` justifies, and looks at what follows it. `Subscriber` takes the append to a
reserved scope (an event, or a client's entry) as one step and looks at the wake-up and
what it starts. `Lifecycle` takes a bridge as a handful of bits and looks at when it is
started and stopped. `CounterCell` looks into the one step that `ScopeBuffer` makes of
`atomicCounterAdd`. `ScopeBuffer` and `Store` EXTEND `BufferOps`, so that a buffer operation
is translated once.

**BufferOps.** `Item` has the two shapes of the Go struct. Ids, payloads and cell
addresses are opaque. Their lengths (`IdLen`, `PayloadBytes`, the latter with the
pre-rendered copy) and the integer a payload parses to (`PayloadInt`) are
constants; sizes are computed as `approxItemSize` does. `sort.Search` is modelled
by its contract on a sorted slice (the first index that satisfies the test);
`SeqsAscending` is what entitles the code, and the model, to it. nil and empty maps are not distinguished. A batch with a
duplicate id is rejected before anything changes (`DuplicateIds`).

**ScopeBuffer.** An action is one critical section of `b.mu`; the guards are the
early returns, in the code's order, and `res` is the reply. The heap of counter
cells (`cells`) is explicit because copies of an item share a cell. A /warm is
two actions, `warmReserve` and `commitReplacementPreReserved`, and every other
buffer operation may run between them. `deleteScope` cannot: both hold the shard
lock. `otherScopes` lets the rest of the store use the shared byte counter.
The fixed overhead of this scope counts as part of `others`. `now` is the wall clock, read under
the lock: one value may serve many steps, and `Tick` moves it on or sets it back. `Poll` is a client that
reads the scope's row of /scopelist (`stats`) and keeps the stamp with the regular items of
that instant (`polled`, a history variable). The `counter_add` action includes its
fall-through from the shared to the exclusive lock; the compare-and-swap loops of
`atomicCounterAdd` are one step.

**Store.** Each caller has a program counter `at`, the call it is making and the
pointer it holds. Its steps are the critical sections: `lookup`,
`getOrCreateScope` (the second look under the exclusive lock), `operate` (the
buffer call), `cleanupIfEmptyAndUnused`, `deleteScope`; for bulk calls
`lockShards` (one shard a step, ascending), `detach` (one shard a step), `wipe` and
`rebuildAll` (the swap), `snapshot` (one scope a step), `reserve`, `commitScope`
(one scope a step), `replaceScopesDone`. The last swap of /wipe and /rebuild is one step:
every shard is locked and every old buffer detached by then, so no other caller
can take a step that tells the difference. Buffers live at addresses that are
reused once nobody holds or maps them. Counter values and time stand still here,
and the events mode is off.

**Events.** A call is one action, `Commit`; what the commit did to the scopes is computed
by `Apply`, on items reduced to seq, id, value and size. The event is formed at the commit
(capture under the lock) and appended two steps later: `emitLookup` finds the `_events`
buffer, `emitAppend` appends or counts a drop, when the entry is above its cap, when the
store is full, or when the buffer was detached by a reset. `Reset` is /wipe and /rebuild,
which are silent; `AppendToEvents` and `Drain` are what clients do to `_events` itself. The sizes
distinguish the stored payload from the one `json.Marshal` writes (`marshaledBytes`).
The log's relation to the commits is a history: `order` says whether the events of this
epoch are in the order of their commits, `base` what the scopes were when it began.
`States` is what a client that replays a log goes through, `Replay` where it ends.

**Subscriber.** `appendItem` and `notifySubscriber` are separate: the commit, then the
non-blocking send under `subsMu`. The goroutine (`receive`, `exitLoop`), its command
(`getHead`, `persist`, `deleteUpTo`, `exit`) and its stop (`cancel`, `unsubscribe`,
`stopReturns`) interleave freely. A command may end early (`fail`, `kill`), and when it was about to
delete, its request may arrive later, once, at any time (`lateDelete`). `unsubscribe` goes by
the scope's name, as in the code. A batch is written to the output file in one step.

**CounterCell.** An action is one atomic instruction or one clock reading; the callers share the
scope's read lock, so nothing else orders them. The refinement maps a call to `called` until
its compare-and-swap succeeds or the range check fails, and to `done` after that.

**Listing.** `collectShard` reads one shard under its lock; `answerPage` sorts and cuts
with no lock held. `createScope`, `deleteScope` and `rebuildAll` run at any point.

**Lifecycle.** `main` is a program counter, the signal goroutine another; requests are
handled, answered or cut; a bridge is its attachment, slot and running command.
`setup` chooses the standalone binary or a Caddy instance, with or without an init
command and a timeout for it. Their ends differ. The binary's signal goroutine stops the subscribers and
then shuts the server down; `main` returns when `Serve` has, and the requests still handled are cut
(`exit`). Caddy closes its listener first (`caddyStops`, external) and calls `Cleanup`, which stops the
subscribers and cuts nothing (`cleanupReturns`): handlers go on, since the process does. That the bridges are stopped one by one, from two
goroutines that may overlap, is `stopBridge` with the shared set `left`.

## 3. The runs

| Run | Shows |
|---|---|
| `ScopeBuffer_state` | the buffer's and the store's invariants, and `SeqsNeverReused` on every step |
| `ScopeBuffer_log` | refinement of `ScopeLog`, reply for reply; head and tail pages; what an unchanged stamp tells a poller, with a clock that moves both ways |
| `ScopeBuffer_cap` | finding: a /warm may leave the store above its cap |
| `Store_calls` | three callers, every operation, stale pointers: no lost write, exact counters |
| `Store_live` | every call returns |
| `Store_idbytes` | finding: /rebuild leaves `idKeyBytes` at 0 |
| `Events_log` | every commit announced or counted; what the log says in and out of order |
| `Subscriber_bridge` | no entry removed unread, no lost wake-up, no send on a closed channel, stop returns |
| `CounterCell_adds` | counter_add is atomic, its stamp monotonic, its loops end |
| `Listing_walk` | pages in order, no stable scope missed, the walk ends |
| `Lifecycle_run` | the order of starts and stops, and that a signal ends the process |
| `Lifecycle_drain` | finding, in the standalone binary: requests in flight are cut before the grace period is over |

Each property of a passing run has a mutant in `PROJECT.json`: an operator named
`Slip_...` next to the one it replaces, with a slip that code could really have,
under which the property fails.

Bounds, and why they are enough:

* ScopeBuffer: `MaxSeq = 4`, item cap 2 (both 3 in `ScopeBuffer_log`): a scope fills, drains and fills
  again; a search hits the first, a middle and the last of up to 3 items, and misses.
  Two ids of different length, two payloads: one parses as an integer, the other fits
  under the item cap without an id or with the short one, not with the long one. This is
  what the re-check of `updateBySeq` is about. `ScopeBuffer_log`, which also has a clock of two
  readings and a held poll, makes do with one id and one increment, since its properties are about seqs,
  replies and stamps. Two readings are the stamp and a later one; three items let a poll see one that
  is replaced, one that is promoted and one that stays.
* `MaxStoreBytes = 9`: about three small items, so that every reservation is refused in
  some state. The per-item cap 5 is reached by one item. `MaxCounterValue = 2` with
  increments 1 and -2: counters reach both limits.
* `MaxWarms = 1`: one batch is enough for a drift; batches of zero, one and two items.
  Two cells: the largest number in use at once with an item cap of 2, so `HeapHasRoom` never
  cuts a behaviour off there; with a higher cap it does, and is a bound.
* Store: three callers and five calls in all (three in `Store_live`, where liveness forbids
  symmetry), three scopes of which one is reserved, two shards with a collision.
  A stale pointer, a deleter and a re-creator of the same name take three callers, and a
  writer before and after them five calls. `NumBufs >= NumScopes + Cardinality(Procs)`: a new
  buffer never waits for an address.
* Events: three callers, four calls, one scope with room for two items, all three modes.
  Two events overtaking each other, a reset under an emitter, a drain in between and a store
  that is full take no more. Appends come with and without an id, so that a counter may be
  made of an appended item. The payloads are one that parses, one that is longer, one that
  grows when marshaled.
* Subscriber: two writers, two bridges, two appends, batches of one, a failure, a /wipe, two calls
  of each stop. Two bridges are what a stale stop, a late request and a second live command
  need; two appends fill the slot while the command runs.
* CounterCell: two callers, one reader, three calls, a clock of three values, increments from
  either side that overflow and come back.
* Listing: five names, two of them reserved, on three shards, pages of one and two, three changes.
* Lifecycle: two init requests, two clients, the two reserved scopes, every setup.

Views and symmetry. `WithoutReply` drops the last reply: no guard and no invariant reads it.
`WithoutStamps`, in `ScopeBuffer_log`, also drops the stamps of items, cells and the store, which no guard and no
property of that run reads; the scope's own stamp, the clock and the poll stay.
`WithoutGarbage` identifies states that differ in buffers nobody can reach. Symmetry over
callers is used for safety only.

Deadlock is checked in every run. `Finished`, `Idle` and `Ended` (stutters once all is done)
keep the intended end apart from a real deadlock.

## 4. Fairness

* `Store`: weak fairness of each caller's `Step`, not of `Start`: a goroutine
  inside a call is scheduled again, a client need not call. Weak fairness on a step
  that waits for a shard lock is enough because each holder releases after finitely many
  steps and calls are bounded; for unbounded traffic it stands for the starvation-freedom of
  Go's `sync.RWMutex`, which blocks new readers behind a waiting writer.
* `CounterCell`: weak fairness of each caller. The loops have no other help: a caller
  that loses a compare-and-swap lost it to one that made progress, and calls are bounded.
* `Subscriber`: `HangSpec` has fair goroutines, delivered kills and stop calls that proceed, and
  nothing else: the command may hang at any of its steps, which is when `StopReturns` matters.
  `OwedIsPersisted` needs more and says so: `FairScript`, under which writers finish their
  `appendOne` and the script does not hang. It may still fail.
* `Listing`: the client asks for the next page and a request runs to its end.
* `Lifecycle`: main and the signal goroutine are scheduled, timeouts expire, kills are
  delivered, and Caddy ends an instance it is about to end. No handler, command or init script need ever end.

## 5. What is proved

`ScopeBufferProofs` proves, for all caps, ids, payloads, sizes and batches:

* `Invariance`: `Spec => []Inv`
* `TypeCorrect`, `SeqsAlwaysAscend`, `IndexesAlwaysCoherent`, `BytesAlwaysExact`,
  `IdKeyBytesAlwaysExact`, `StoreAlwaysInStep`: the properties `TypeOK`,
  `SeqsAscending`, `IndexCoherent`, `BytesExact`, `IdKeyBytesExact` and
  `StoreLockstep`.

and, from `Invariance`:

* `ItemsAlwaysWithinCap`, `UnchangedStampAlwaysUnchangedItems`, `AlwaysWithinCapWithoutWarm`: the
  properties `ItemsWithinCap`, `UnchangedStampUnchangedItems` and `WithinCapWithoutWarm`.
* `SeqsAreNeverReused`: the action property `SeqsNeverReused`.
* `BufferImplementsLog`: `Spec => ImplementsScopeLog`, the refinement.
* `HeadAlwaysLowest`, `TailAlwaysNewest`: the properties `HeadIsLowestAbove` and
  `TailIsNewestBelow` for the cursors and limits of the run; `EveryHeadPage` and
  `EveryTailPage` for every cursor, every offset and every limit above 0.

The argument. None of these properties is inductive alone. A delete finds the item
with a binary search, which is right only if the seqs ascend; the bytes it gives back are those of
the item at that index, which are the right ones only if the maps agree with the
slice; and a replacement hits a well-formed buffer only if the batch waiting in
`plan` is well formed and its size is what was reserved. `Inv` is the conjunction of
`WellFormed(b)` (order, coherence, exact bytes and id bytes, types),
`PlanOK` (what a waiting batch looks like), "a waiting batch is for a live buffer",
and `StoreLockstep`.

* `BufferProofs` begins with what appending, cutting, replacing and taking a prefix do to a
  sum, and to the sum of a mapped sequence. The induction needed for the recursive
  function is done by hand: `NatSetInduction` is about a set instead of an operator, and its
  proof takes the smallest counterexample.
* Then each operator of `BufferOps` keeps `WellFormed`.
  `SearchAnswer` and `SearchFinds` show that on ascending seqs the search
  finds an item that is there. `Follows(new, old, dBytes, dItems)` packages
  the outcome of an operation: well formed, not detached, and with this change of bytes
  and of length.
* `ScopeBufferProofs`: `CommitKeepsInv` carries any `Follows` outcome to `Inv'`,
  given that the store's counters move by the same amounts; one lemma per action
  cites it.
* `NextEffect` shows that every step has one of four
  effects on the slice: none (`Quiet`), one new or replaced item while the others stay (`Writes`), items
  only leave (`Removes`), or a checked batch comes in (`Swaps`), with what each does to the
  scope's stamp; and that it grows the store's bytes only up to the cap, unless a /warm has run (`Capped`).
  `EffectKeepsStepInv` and `PollStep` go by these cases and not by action. `StepInv` adds to `Inv`
  what the steps need of earlier ones: a waiting batch passed its
  checks (`PlanChecked`), it implies that a /warm was counted (`WarmCounted`), and the clock is past the
  stamp of the held poll (`PollBehind`). The last one is why a regular write, a removal or a commit
  cannot repeat that stamp; a counter leaves it alone, and `CounterKeepsKnown` shows what else it leaves
  alone. `SumOfSizesNat` shows that what a delete releases is never negative.
* The refinement needs two more facts, `LogInv`: no two items share a cell (`CellsOwned`),
  or an increment of one would change two entries of the log, which the abstract step forbids;
  and a waiting batch is one a client sent (`PlanIsBatch`), since the log's `warm` takes its
  input when it takes effect. The log is read off `bySeq` and the heap
  (`LogViewIsView`); `AddsEntry`, `SetsEntry` and `DropsEntries` turn what an action does to
  these into the abstract step, once for all the actions that append, overwrite or remove.
  `LogStep` collects the actions. A `warmReserve`, a refusal inside it and a step of the clock or of the other
  scopes are stutters.
* The pages: on ascending seqs the items behind a cursor are a suffix, those before the
  last ones a prefix, so that a page is the range its definition asks for. `RankInRange` counts how
  many lie between.

`CellProofs` proves, for any number of callers and readers and any amounts within the range:

* `CellNeverOutOfRange`: no value out of range is published, not even between two instructions
  of a call.
* `CellEveryAddCounts`, `CellReadsCover`, `CellTsNeverMovesBack`: the properties
  `EveryAddCounts`, `ReadsCoverReturnedAdds`, `TsNeverMovesBack`.
* `CellImplementsAtomicCounter`: `CounterCell` implements `AtomicCounter`.

Its invariant adds to these what a caller's locals mean where it stands (`LocalsMeanIt`:
before its compare-and-swap its sum is in range, before that of the stamp its reading is
newer, and a successful call is covered by the stamp when it returns) and that the stamp
covers every returned call and every read that has begun (`StampCovers`). The refinement maps each
instruction to an abstract step or a stutter (`RefinementStep`).

`SubscriberProofs` proves, for any number of writers, bridges, appends, failures and calls of stop:

* `NothingIsSkipped`: the property `NothingSkipped`. What makes it inductive is `CutsAreSaved`: the
  seqs a command is about to delete, and those of every request whose sender is gone, are in the
  output file, or in the batch while it is being persisted. Batch size and number of
  late requests play no part.
* `WakeupsCover`, `AttachedIsAlwaysOpen`, `AtMostOneLiveCommand`: the properties `WakeupCovers`,
  `AttachedIsOpen`, `OneLiveCommand`. The last one rests on `KeepsChannel`: as long as
  no stop is called twice, a bridge keeps its channel until its own stop unsubscribes.
  With a second call and a third bridge the conclusion is false (section 6).

`StoreProofs` proves, for any number of callers, scopes and shards and for any calls:

* `WritesAreReachable`, `ReservedScopesStay`: the properties `NoOrphanWrites`, `ReservedPresent`.
* `StoreInvariance`: `Spec => []Inv`, where `Inv` adds what makes the first two inductive: which
  call can be where (`InPlace`), which shard locks a bulk call holds in each phase
  (`HoldsLocks`), and that a /wipe or /rebuild has detached every mapped buffer it
  no longer lists (`Detaches`). A swap drops buffers that callers still point at, and
  only `Detaches` says that those are refused; it survives the other callers' steps because
  nobody maps a scope while all shards are held (`DetachExcludes`). A new
  buffer never takes an address in use, which is a count: the scopes and the callers
  hold fewer than `NumBufs` (`FreshAddress`, `NewAddresses`).

and, on top of it:

* `CountersStayAccounted`: the property `CountersAccounted`.
* `CapHoldsWithoutWarm`: the property `WithinCapWithoutWarm`.

`CountInv` adds to `Inv` that no buffer is mapped under two names, and that every buffer of the store
is `Sound`: well formed but for `idKeyBytes`, which is finding 1 of section 6, so that what
`BufferProofs` says of each operation carries over (`AfterCallSound`). Each step changes at
most one scope's share of the sums and one caller's reserve (`OneScopeAccounted`), except the
swap of a /wipe or /rebuild, which stores all sums afresh while nobody has a reserve
(`SwapMapsCount`). The drift that `commitScope` gives back is exactly what makes its three
changes cancel (`CommitScopeCount`); others' reserves stay because a /warm's locks keep
its scopes as they are (`CommitHolds`). `CapInv` adds that each /rebuild under way has
passed its check and that no /warm has begun.

`EventsProofs` proves, for any number of callers, any calls, sizes and caps:

* `EventsInvariance`, `EveryEventIsAccounted`, `ReplayAlwaysReconstructs`: the properties
  `EventsAccounted` and `ReplayReconstructs`.
* `CarryInvariance`, `AppendsAlwaysCarryTheirOrder`, `CountersAlwaysSumUp`: the properties
  `AppendsCarryTheirOrder` and `CountersSumUp`.

The properties speak of a log with nobody under way, and say nothing while a caller still
holds its event. What is inductive is about the *story*: the events of the log followed by those
still held, the latter in the order of their commits (`Story`). `StoryLeadsHere` says that a story of
which nothing was dropped, drained or overtaken (`Whole`) leads from `base` to `scopes`.
A commit appends one event to the story, and redoing that event is what the commit did (`EventRedoesCall`); an
emit moves the first event of the queue into the log and leaves the story as it was
(`EmitMoves`); an emit out of turn, a drop, a drain or a reset ends the wholeness, and nothing but
a reset brings it back. `States` is a recursive function; that it exists, and that what comes later in
the story does not change it, is proved like the sums (`StatesEquation`, `StatesAgree`).

When the order is not kept, an emit out of turn moves an event to an earlier place in the
story; a client's own entry in `_events` goes into its middle in any case. So the second invariant,
`StoryCarries`, says of a scope that only grew what no order can change (`Carries`):
each append told of is at the place its seq names, no two name the same, each item without a counter is told of, and
each counter is the sum of its increments. `RearrangedCarries` shows that any rearrangement keeps that,
`SumMoves` and `SumSkips` that the sums do not see one. `Grown` gives the other half: while nothing is
deleted, the seq of an item is its place.

`ListingProofs` proves, for any names, sharding and page sizes, whatever is created, deleted or
rebuilt during the walk:

* `ListingInvariance`, `PagesAscend`, `StableScopesAreListed`: the properties `ListedInOrder` and
  `StableScopesListed`. The invariant is about the cursor: all that is listed lies at or before it,
  all that is collected lies behind it (`CursorBetween`), and a stable scope behind it is among the
  collected ones as soon as its shard has been passed (`StableCollected`). That a page is the
  smallest of the collected names, in order, and moves the cursor over none of the rest (`PageIsPage`)
  rests on counting places (`PlaceRises`, `PlaceOnto`).

`LifecycleProofs` proves, for any bridges and requests and every setup:

* `LifecycleInvariance`, `SignalAlwaysStopsCommandsFirst`, `NoCommandIsEverLeft`,
  `SubscribersAlwaysStartEmpty`: the properties `SignalStopsCommandsFirst`, `NoCommandIsLeft` and
  `SubscribersStartEmpty`. The first is about the binary and a shutdown by signal, the second about main
  and `Cleanup` returning, not about `log.Fatal`. Both rest on `StoppedIsDetached` (a stopped bridge is never
  attached again, and no command runs without an attached bridge) and `EndsStopped` (the binary's
  listener closes on a signal, and main and `Cleanup` return, only once no bridge is left to stop); the third one on
  `ClearedIsEmpty`, where the init script that was killed is the exception of section 6.

Assumptions. All are evaluated by TLC on every run of their module.

* `DataAssumption`, `BufferAssumption`, `CellAssumption`, `SubscriberAssumption`, `StoreAssumption`,
  `LifecycleAssumption`, `ListingAssumption`: the constants are what their comments say, and
  the model's own markers are no values of the program. Names are numbers in `Listing`, since only their
  order is used; 0 stands for the empty `after` and is no name, as `validateScope` sees to.
* `CallsAssumption` and `EventsAssumption`: what validation lets through. A payload has a size, an
  increment is an integer, and counter_add has an id (`validateWriteItem`, `validateCounterAddRequest`).
* What the modelling fixes: one critical section is one step, bytes are unbounded integers.

Only model-checked: liveness (`CallsReturn` of `Store` and of `CounterCell`, `StopReturns`,
`OwedIsPersisted`, `WalkEnds`, `SignalEnds`), since liveness under fairness is out of the prover's
reach. The runs that violate a property are counterexamples and have no theorem.

## 6. Findings and other disagreements

Each of these is a run that violates the property.

1. `bulk.go:312`: `rebuildAll` builds each buffer field by field and does not set
   `idKeyBytes`, so `approx_scope_mb` is too low after a /rebuild and `idKeyBytes`
   goes negative with later deletes (`Store_idbytes`). The comment at
   `buffer_replace.go:39-42` promises the opposite for /rebuild.
2. `buffer_replace.go:202`: a delete through an old pointer between a /warm's
   snapshot and its commit frees bytes another scope can take; the commit then adds
   them again without a check (`ScopeBuffer_cap`), although lines 178-180 call the cap
   strict across batch replacements.
3. `cmd/scopecache/main.go:430`: `Serve` returns when `Shutdown` begins, and main returns
   with it. Requests in flight are cut, not drained for the grace period
   (`Lifecycle_drain`), against the comment at lines 405-409.

Others were met while modelling. The properties of the passing runs are stated so that
they hold in spite of them, and say where:

* `store.go:627`: the roll-back looks for an *empty* scope, not an unused one. A scope another
  caller has written to and emptied is removed, and its seqs start again, against
  `docs/scopecache-core-rfc.md:234` (`SeqsNeverReused` is about one buffer's life).
* `store.go:189`: an equal `last_write_ts` does not mean that "nothing changed", nor does it "strictly
  advance" (`docs/scopecache-core-rfc.md:285-288` and `1597-1598`). Two writes in one microsecond share a
  stamp. The store's stamp, a maximum, stands still while the clock is set back, or when another scope's
  later reading came first; the scope's, a plain store (`buffer_write.go:102` and `289`), may come back to a
  value a poller has seen. `UnchangedStampUnchangedItems` says when an equal stamp of a scope can be
  trusted: after a poll in a later microsecond than the stamp, as long as the clock has not been set back to
  it. It is about one buffer's life; a re-created scope has another `created_ts`.
* `buffer_replace.go:79`: the items of a /warm are stamped when they are built and published later,
  below a scope stamp a poller may have seen in between. So no client can take "every item up to
  `ts`" from `last_write_ts`, and no property here says that it can.
* `store.go:595`: a new scope is stamped without the store's being raised. If its creator is refused and
  another caller's counter_add, which is silent, keeps it alive, the store's stamp stays below the scope's,
  against the "at quiesce" of `docs/scopecache-core-rfc.md:281-283`.
* `caddymodule/module.go:240`: `subscriber_command.go:63-66` and `docs/scopecache-core-rfc.md:2091-2096`
  have adapters stop the subscribers *before* the listener is shut, and line 2162 has the Caddy module
  mirror that in `Cleanup`. Caddy closes its listeners before it calls `Cleanup`, so the commands of an
  instance run against a closed one until then. So they do in the binary when `Serve` has failed, until
  the deferred stop. `SignalStopsCommandsFirst` is about the one case in which the order is as described.
* `events.go:116`: two upserts of one id may be logged in the opposite order of their commits, and a
  replay ends with the older payload; `events.go:45-46` promises a replay that
  reconstructs. `ReplayReconstructs` asks for `order = "kept"`; `AppendsCarryTheirOrder` and
  `CountersSumUp` say what still holds without.
* `events.go:177`: a replay of increments in another order may leave the range on the way and refuse
  one of them; the sum is associative (`events.go:174-176`), the range check is not.
* `events.go:116`: an event of a write that committed before a /wipe may become seq 1 of the fresh
  `_events`, which `bulk.go:20-25` gives as the reason why /wipe itself is silent
  (`order = "crossed"`).
* `events.go:109`: `json.Marshal` escapes `<`, `>` and `&`, so that the event of an accepted payload may
  exceed the cap of `_events` and be dropped, against `types.go:173-176`.
* `scripts/drain_events.sh:95`: a /wipe between fetch and delete lets the script remove entries of
  the new life nobody has read; `subscribe.go:17-20` trusts the cursor's rewind to be
  seen (`NothingSkipped` is about `epoch = 0`).
* `subscribe.go:120`: a second call of an old unsub removes and closes the channel of whoever
  has subscribed since, against `subscribe.go:103-106` and `subscriber_command.go:68-71`. The new
  bridge goes silent without having been stopped, and a third one may run its command beside
  it (`OneLiveCommand` asks that no stop is called twice).
* `init_command.go:123`: when the init script is killed, a request it sent may still commit after
  `_events` was cleared, so the subscribers need not start on an empty stream, against
  `cmd/scopecache/main.go:391-396` (`SubscribersStartEmpty` names that case).
* `store.go:1142`: a /wipe may run between the rows of `reservedScopeStats`, against
  `store.go:1135-1138`.
* `buffer_heat.go:18`: a slow reader may set `last_access_ts` back, against
  `docs/scopecache-core-rfc.md:240`.

## 7. Not modelled, and why

* Reads take no part in `Store`: they change nothing but the read-heat atomics,
  and their answer is a function of the buffer at one instant. Read heat itself and the rows
  of /stats are reported and read by nothing else.
* HTTP and JSON, the gateway's copies, configuration and its environment, socket file checks,
  the Caddyfile parser: wording and I/O, or copies that values do not need.
* Caddy stops its apps, and so its listeners, by itself before it calls `Cleanup`; how it
  does is not code of this repository. `caddyStops` has the order and nothing else: Caddy's own grace period
  for requests is left out, and a handler may end before or after `Cleanup`, or never.
* `log.Fatal` after a failed listen ends the process without the deferred stop; `Lifecycle` has
  it as `fatal`, and `NoCommandIsLeft` speaks of a server that returned.
* Background children the init script leaves behind: `scriptExits` takes it that the script
  has the answers to its requests. On a platform without process groups a child of a killed
  command may live on.
* `ensureScope` and `replaceAll`: used by tests only.
* The width of int64 in byte sums: `reserveBytes` subtracts so that it does not wrap, but a sum
  near the end of the range takes 2^63 bytes of payload, which no process holds.
* The environment, output and exit code of a command; the names of the drainer's output files.

## 8. Plan

Done: all the modules of section 2, and a theorem for every safety and action property that a
passing run checks, and for both refinements.

Left, in this order:

1. `Events` over `Store`: the commit and its event with the store's stale pointers, in place of
   the atomic `Commit`.
2. A theorem that the Store's buffer calls, seen from one scope, are steps of `ScopeLog`, so
   that what `ScopeBuffer` promises its callers is known of every mapped buffer.
3. `Subscriber` under a /wipe: what `NothingSkipped` becomes for a drainer that notices the
   rewind of the cursor.
