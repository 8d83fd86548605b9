------------------------------- MODULE Events -------------------------------
(***************************************************************************)
(* Auto-populate of the reserved scope _events: every committed mutation   *)
(* of another scope is described by one entry of _events, appended after   *)
(* the mutation's lock has been released (capture under the lock, emit     *)
(* outside it).  Between the two, other callers commit, emit, drain, wipe. *)
(*                                                                         *)
(* A mutation is one action here, as Store's linearisation of it; scopes   *)
(* keep what an event can describe: seqs, ids, values.  Every field of a   *)
(* call has one slot: val is the payload or `by`, seq the address or       *)
(* `max_seq`.  A payload is the integer it parses to, or NotInt.           *)
(***************************************************************************)
EXTENDS Integers, Sequences, FiniteSets, SequencesExt, SeqSums

CONSTANTS
    Procs,            \* concurrent callers
    Scopes,           \* scopes other than _events
    EventsScope,      \* _events
    NoId,             \* the empty id
    NotInt,           \* a payload that is no JSON integer
    NoVal,            \* the payload a notify event leaves out
    Absent,           \* a scope that does not exist
    Modes,            \* the settings of Config.Events.Mode considered
    PayloadBytes,     \* payload -> its size (no payload here is a JSON string)
    HtmlBytes,        \* payload -> how many of its bytes are <, > or &
    CounterBytes,     \* size of a counter item's payload part
    ItemOverhead, ScopeBufferOverhead,
    EnvelopeBytes,    \* an event's JSON without the payload
    EnvelopeSlack,    \* eventsItemEnvelopeOverhead
    MaxItemBytes, MaxStoreBytes, MaxItems, MaxCounterValue,
    Calls,            \* the calls a caller may make
    MaxCalls          \* bound: calls of all callers together

PayloadOps == {"append", "upsert", "update"}

Payloads == Int \cup {NotInt}
Scope == [items : Seq([seq : Nat, id : {c.id : c \in Calls}, val : Payloads, bytes : Nat]),
          lastSeq : Nat]

\* validateWriteItem and validateCounterAddRequest let no other call through.
ASSUME EventsAssumption ==
    /\ IsFiniteSet(Procs) /\ EventsScope \notin Scopes /\ Absent \notin Scope
    /\ Modes \subseteq {"off", "notify", "full"}
    /\ CounterBytes \in Nat
    /\ \A c \in Calls :
        /\ c = [op |-> c.op, scope |-> c.scope, id |-> c.id, seq |-> c.seq, val |-> c.val]
        /\ c.op \in PayloadOps => c.val \in Payloads /\ PayloadBytes[c.val] \in Nat
        /\ c.op = "counter_add" => c.val \in Int /\ c.id # NoId

VARIABLES
    mode,             \* "off", "notify" or "full", fixed at start-up
    scopes,           \* scope -> its items and lastSeq, or Absent
    events,           \* the items of _events
    eventsLastSeq,
    epoch,            \* which _events buffer is mapped: a reset makes a new one
    eventsDropsTotal,
    at, pending, ptr, \* where a caller is, the event it holds, its _events buffer
    calls,            \* calls started so far
    commits, gone,    \* history: mutations committed; entries drained or reset away
    queue,            \* history: the callers holding an event, in the order of their commits
    order, base       \* history: how the log of this epoch relates to the commits, and
                      \* what the reset it began with left in the scopes

callerVars == <<at, pending, ptr>>
history == <<commits, gone, queue, order, base>>
vars == <<mode, scopes, events, eventsLastSeq, epoch, eventsDropsTotal,
          callerVars, calls, history>>

NoEvent == [op |-> "none"]
ResetOps == {"wipe", "rebuild"}
EmptyStore == [s \in Scopes |-> Absent]
EmptyScope == [items |-> <<>>, lastSeq |-> 0]

Init ==
    /\ mode \in Modes
    /\ scopes = EmptyStore /\ events = <<>> /\ eventsLastSeq = 0 /\ epoch = 0
    /\ eventsDropsTotal = 0 /\ commits = 0 /\ gone = 0
    /\ queue = <<>> /\ order = "kept" /\ base = EmptyStore
    /\ at = [p \in Procs |-> "idle"] /\ calls = 0
    /\ pending = [p \in Procs |-> NoEvent] /\ ptr = [p \in Procs |-> 0]

-----------------------------------------------------------------------------
(* What a call does to the scopes. *)

Content(st, s) == IF st[s] = Absent THEN EmptyScope ELSE st[s]

\* The index a call addresses: /append and the creating calls go by id,
\* /update and /delete by id or else by seq.
Addressed(sc, c) ==
    {i \in DOMAIN sc.items :
        IF c.id # NoId THEN sc.items[i].id = c.id
        ELSE c.op \in {"update", "delete"} /\ sc.items[i].seq = c.seq}

Upto(sc, maxSeq) == {i \in DOMAIN sc.items : sc.items[i].seq <= maxSeq}

counterInRange(n) == n <= MaxCounterValue /\ n >= -MaxCounterValue

\* The call changes something: no conflict, no miss, no per-scope cap.
Hits(st, c) ==
    LET sc == Content(st, c.scope)
        found == Addressed(sc, c)
        room == Len(sc.items) < MaxItems
    IN  CASE c.op = "append" -> found = {} /\ room
          [] c.op = "upsert" -> found # {} \/ room
          [] c.op = "counter_add" ->
                \/ found = {} /\ room
                \/ \E i \in found : /\ sc.items[i].val # NotInt
                                    /\ counterInRange(sc.items[i].val + c.val)
          [] c.op \in {"update", "delete"} -> found # {}
          [] c.op = "delete_up_to" -> Upto(sc, c.seq) # {}
          [] c.op = "delete_scope" -> st[c.scope] # Absent
          [] OTHER -> TRUE

insertNewItem(sc, c, bytes) ==
    [items |-> Append(sc.items, [seq |-> sc.lastSeq + 1, id |-> c.id,
                                 val |-> c.val, bytes |-> bytes]),
     lastSeq |-> sc.lastSeq + 1]

replaceItem(sc, i, val, bytes) ==
    [sc EXCEPT !.items[i].val = val, !.items[i].bytes = bytes]

dropItems(sc, indexes) ==
    [sc EXCEPT !.items = SelectSeq(@, LAMBDA item : item \notin {sc.items[i] : i \in indexes})]

\* The scope after a call that hits it; the seq survives its emptying.
AfterItemOp(sc, c) ==
    LET found == Addressed(sc, c)
        i == CHOOSE j \in found : TRUE
    IN  CASE c.op = "delete" -> dropItems(sc, found)
          [] c.op = "delete_up_to" -> dropItems(sc, Upto(sc, c.seq))
          [] c.op = "counter_add" ->
                IF found = {} THEN insertNewItem(sc, c, CounterBytes)
                ELSE replaceItem(sc, i, sc.items[i].val + c.val, CounterBytes)
          [] OTHER ->
                IF found = {} THEN insertNewItem(sc, c, PayloadBytes[c.val])
                ELSE replaceItem(sc, i, c.val, PayloadBytes[c.val])

\* /warm and /rebuild bring a batch of one item here; /warm keeps the rest.
Apply(st, c) ==
    LET batch == insertNewItem(EmptyScope, c, PayloadBytes[c.val]) IN
    CASE c.op = "wipe" -> EmptyStore
      [] c.op = "rebuild" -> [EmptyStore EXCEPT ![c.scope] = batch]
      [] c.op = "warm" -> [st EXCEPT ![c.scope] = batch]
      [] c.op = "delete_scope" -> [st EXCEPT ![c.scope] = Absent]
      [] OTHER -> [st EXCEPT ![c.scope] = AfterItemOp(Content(st, c.scope), c)]

SumBytes(items) == FoldLeft(LAMBDA n, item : n + ItemOverhead + item.bytes, 0, items)

scopeBytes(sc) == IF sc = Absent THEN 0 ELSE ScopeBufferOverhead + SumBytes(sc.items)

\* Store.CountersAccounted: the byte counter is what the scopes hold.
totalBytes(st, ev) ==
    FoldSet(LAMBDA s, n : n + scopeBytes(st[s]), ScopeBufferOverhead + SumBytes(ev), Scopes)

\* reserveBytes: releases always pass, growth only under the cap.
canReserve(st, ev) ==
    LET total == totalBytes(st, ev)
    IN  total <= MaxStoreBytes \/ total <= totalBytes(scopes, events)

admitted(c) == canReserve(Apply(scopes, c), IF c.op \in ResetOps THEN <<>> ELSE events)

-----------------------------------------------------------------------------
(* What an event says. *)

eventsEnabled(scope) == mode # "off" /\ scope # EventsScope

\* Slip: leaves the seq the call came with.
Slip_seqOf(c, sc) == c.seq

\* /append and /upsert report the seq of the item they left.
seqOf(c, sc) ==
    IF c.op = "append" THEN sc.lastSeq
    ELSE IF c.op = "upsert" THEN sc.items[CHOOSE j \in Addressed(sc, c) : TRUE].seq
    ELSE c.seq

\* Slip: logs the result of a counter_add, not its input.
Slip_writeEvent(c, st) ==
    LET sc == Content(st, c.scope)
        i == CHOOSE j \in Addressed(sc, c) : TRUE
    IN  IF c.op = "counter_add" THEN [c EXCEPT !.val = sc.items[i].val] ELSE c

\* The action vector: what the caller sent, and that seq.  /warm names neither
\* its scopes nor its items, notify leaves the payload out.
writeEvent(c, st) ==
    [c EXCEPT !.seq = seqOf(c, Content(st, c.scope)),
              !.val = IF c.op = "warm" \/ (mode = "notify" /\ c.op \in PayloadOps)
                      THEN NoVal ELSE @]

\* json.Marshal writes <, > and & of an embedded RawMessage as six bytes each.
marshaledBytes(payload) == PayloadBytes[payload] + 5 * HtmlBytes[payload]

eventBytes(e) ==
    EnvelopeBytes + (IF e.op \in PayloadOps /\ e.val # NoVal THEN marshaledBytes(e.val) ELSE 0)

EventsMaxItemBytes == MaxItemBytes + EnvelopeSlack

\* validateWriteItem's size check on a client's payload.
checkItemSize(c) == c.op \in PayloadOps => ItemOverhead + PayloadBytes[c.val] <= MaxItemBytes

-----------------------------------------------------------------------------
(* Actions. *)

\* A refused or ineffective call changes nothing and emits nothing.
Miss(p, c) ==
    /\ at[p] = "idle" /\ calls < MaxCalls /\ c.scope \in Scopes
    /\ ~(Hits(scopes, c) /\ checkItemSize(c) /\ admitted(c))
    /\ calls' = calls + 1
    /\ UNCHANGED <<mode, scopes, events, eventsLastSeq, epoch, eventsDropsTotal,
                   callerVars, history>>

\* appendOne, upsertOne, ...: the commit, and the event captured with it.
Commit(p, c) ==
    LET st == Apply(scopes, c) IN
    /\ at[p] = "idle" /\ calls < MaxCalls /\ c.scope \in Scopes /\ c.op \notin ResetOps
    /\ Hits(scopes, c) /\ checkItemSize(c) /\ admitted(c)
    /\ calls' = calls + 1
    /\ commits' = commits + 1
    /\ scopes' = st
    /\ IF eventsEnabled(c.scope)
       THEN /\ pending' = [pending EXCEPT ![p] = writeEvent(c, st)]
            /\ at' = [at EXCEPT ![p] = "emit"]
            /\ queue' = Append(queue, p)
       ELSE UNCHANGED <<pending, at, queue>>
    /\ UNCHANGED <<mode, events, eventsLastSeq, epoch, eventsDropsTotal, ptr, gone, order, base>>

\* /wipe and /rebuild replace _events by an empty one and emit nothing.
Reset(p, c) ==
    /\ at[p] = "idle" /\ calls < MaxCalls /\ c.op \in ResetOps
    /\ admitted(c)
    /\ calls' = calls + 1
    /\ scopes' = Apply(scopes, c)
    /\ events' = <<>> /\ eventsLastSeq' = 0 /\ epoch' = epoch + 1
    /\ gone' = gone + Len(events)
    /\ order' = (IF queue = <<>> THEN "kept" ELSE "crossed") /\ base' = scopes'
    /\ UNCHANGED <<mode, eventsDropsTotal, callerVars, commits, queue>>

\* emitEvent -> appendOne(_events): find the buffer ...
emitLookup(p) ==
    /\ at[p] = "emit"
    /\ at' = [at EXCEPT ![p] = "append"] /\ ptr' = [ptr EXCEPT ![p] = epoch]
    /\ UNCHANGED <<mode, scopes, events, eventsLastSeq, epoch, eventsDropsTotal,
                   pending, calls, history>>

eventItem(e) == [seq |-> eventsLastSeq + 1, bytes |-> eventBytes(e), evt |-> e]

\* The entry is too big for _events, the store is full, or the buffer is detached.
Unloggable(p) ==
    \/ ItemOverhead + eventBytes(pending[p]) > EventsMaxItemBytes
    \/ ptr[p] # epoch
    \/ ~canReserve(scopes, Append(events, eventItem(pending[p])))

\* History: p's event leaves the queue, perhaps not from its front.
Announced(p) ==
    \E i \in DOMAIN queue :
        /\ queue[i] = p /\ queue' = RemoveAt(queue, i)
        /\ order' = IF order = "kept" /\ i # 1 THEN "swapped" ELSE order

\* Slip: the event of a scope that was reset under the emitter is not counted.
Slip_emitAppend(p) ==
    /\ at[p] = "append"
    /\ IF Unloggable(p)
       THEN /\ eventsDropsTotal' = eventsDropsTotal + (IF ptr[p] # epoch THEN 0 ELSE 1)
            /\ UNCHANGED <<events, eventsLastSeq>>
       ELSE /\ events' = Append(events, eventItem(pending[p]))
            /\ eventsLastSeq' = eventsLastSeq + 1
            /\ UNCHANGED eventsDropsTotal
    /\ at' = [at EXCEPT ![p] = "idle"] /\ pending' = [pending EXCEPT ![p] = NoEvent]
    /\ Announced(p)
    /\ UNCHANGED <<mode, scopes, epoch, ptr, calls, commits, gone, base>>

\* ... and append, or drop the event and count the drop.  The nested call's
\* own emit stops at eventsEnabled.
emitAppend(p) ==
    /\ at[p] = "append"
    /\ IF Unloggable(p)
       THEN eventsDropsTotal' = eventsDropsTotal + 1 /\ UNCHANGED <<events, eventsLastSeq>>
       ELSE /\ events' = Append(events, eventItem(pending[p]))
            /\ eventsLastSeq' = eventsLastSeq + 1
            /\ UNCHANGED eventsDropsTotal
    /\ IF eventsEnabled(EventsScope)
       THEN at' = [at EXCEPT ![p] = "emit"] /\ UNCHANGED pending
       ELSE /\ at' = [at EXCEPT ![p] = "idle"]
            /\ pending' = [pending EXCEPT ![p] = NoEvent]
    /\ Announced(p)
    /\ UNCHANGED <<mode, scopes, epoch, ptr, calls, commits, gone, base>>

\* A client's own /append to _events: no event about it.
AppendToEvents(p, c) ==
    LET e == [c EXCEPT !.seq = eventsLastSeq + 1]
        longer == Append(events, eventItem(e)) IN
    /\ at[p] = "idle" /\ calls < MaxCalls /\ c.scope = EventsScope /\ c.op = "append"
    /\ canReserve(scopes, longer)
    /\ calls' = calls + 1
    /\ commits' = commits + 1
    /\ events' = longer /\ eventsLastSeq' = eventsLastSeq + 1
    /\ IF eventsEnabled(EventsScope)
       THEN /\ pending' = [pending EXCEPT ![p] = e] /\ at' = [at EXCEPT ![p] = "emit"]
            /\ queue' = Append(queue, p)
       ELSE UNCHANGED <<pending, at, queue>>
    /\ UNCHANGED <<mode, scopes, epoch, eventsDropsTotal, ptr, gone, order, base>>

\* The drainer's /delete_up_to on _events: silent, too.
Drain(p, c) ==
    LET n == Cardinality({i \in DOMAIN events : events[i].seq <= c.seq}) IN
    /\ at[p] = "idle" /\ calls < MaxCalls
    /\ c.scope = EventsScope /\ c.op = "delete_up_to" /\ n > 0
    /\ calls' = calls + 1
    /\ events' = SubSeq(events, n + 1, Len(events)) /\ gone' = gone + n
    /\ UNCHANGED <<mode, scopes, eventsLastSeq, epoch, eventsDropsTotal, callerVars,
                   commits, queue, order, base>>

Quiet == \A p \in Procs : at[p] = "idle"
Finished == Quiet /\ calls = MaxCalls /\ UNCHANGED vars

Next ==
    \/ \E p \in Procs :
        \/ emitLookup(p) \/ emitAppend(p)
        \/ \E c \in Calls :
            Miss(p, c) \/ Commit(p, c) \/ Reset(p, c) \/ AppendToEvents(p, c) \/ Drain(p, c)
    \/ Finished

Spec == Init /\ [][Next]_vars

-----------------------------------------------------------------------------
(* Properties. *)

\* Every committed mutation is announced once or counted as dropped once:
\* the entries of _events, those drained or reset away, the drops and the
\* events still on their way add up to the commits, whatever is wiped or
\* rebuilt under an emitter (emitEvent's drop accounting, eventsEnabled).
EventsAccounted ==
    mode # "off" =>
        commits = Len(events) + gone + eventsDropsTotal
                    + Cardinality({p \in Procs : at[p] # "idle"})

\* Where in _events the events are that a client did not put there itself.
Log == {i \in DOMAIN events : events[i].evt.scope \in Scopes}

\* The log of the present epoch is complete: nothing in flight, dropped or
\* drained, no event of a commit from before the last reset, and no /warm,
\* whose event names no items.
Intact ==
    /\ mode = "full" /\ Quiet /\ eventsDropsTotal = 0 /\ Len(events) = eventsLastSeq
    /\ order # "crossed"
    /\ \A i \in Log : events[i].evt.op # "warm"

\* What a client that keeps a copy of the scopes does with an event.
Redo(st, e) == IF e.scope \in Scopes /\ Hits(st, e) THEN Apply(st, e) ELSE st

\* States(start, story)[k] is that copy after the first k events.
States(start, story) ==
    LET st[k \in Nat] == IF k = 0 THEN start ELSE Redo(st[k - 1], story[k])
    IN  st

Replay == States(base, [i \in DOMAIN events |-> events[i].evt])[Len(events)]

\* events.go's claim for writeEvent: replaying the log against an empty cache
\* (after a /rebuild: against what it loaded) gives the state of the cache.  It
\* needs the events in the order of their commits, which emitting outside the
\* lock does not promise: see the README.
ReplayReconstructs == Intact /\ order = "kept" => Replay = scopes

Told(s, op) == {i \in DOMAIN events : events[i].evt.op = op /\ events[i].evt.scope = s}

\* Since it was empty, only calls whose events commute were made on the scope.
OnlyAdds(s) ==
    /\ base[s] = Absent
    /\ \A i \in DOMAIN events :
        events[i].evt.scope = s => events[i].evt.op \in {"append", "counter_add"}

\* The ids of the counters, and of the appended items, the log tells of.
Counted(s) == {events[i].evt.id : i \in Told(s, "counter_add")}
Appended(s) == {events[i].evt.id : i \in Told(s, "append")}

Entry(x) == [seq |-> x.seq, id |-> x.id, val |-> x.val]

\* Appends of different callers may be announced out of order, but with seq,
\* id and payload: sorting a scope's append events by seq gives back exactly
\* the items appended, in the order of their commits.  Items that are counters
\* by now are the next property's.
AppendsCarryTheirOrder ==
    Intact => \A s \in Scopes : OnlyAdds(s) =>
        LET items == Content(scopes, s).items
            kept == {i \in DOMAIN items : items[i].id \notin Counted(s)}
            told == {i \in Told(s, "append") : events[i].evt.id \notin Counted(s)}
        IN  /\ {Entry(events[i].evt) : i \in told} = {Entry(items[i]) : i \in kept}
            /\ Cardinality(told) = Cardinality(kept)

\* What an event adds to the counter id of scope s.
Increment(e, s, id) ==
    IF e.op = "counter_add" /\ e.scope = s /\ e.id = id THEN e.val ELSE 0

\* A counter is the sum of the increments its events carry, in any order
\* (emitCounterAddEvent logs the increment, not the result).
CountersSumUp ==
    Intact => \A s \in Scopes : OnlyAdds(s) =>
        \A item \in Range(Content(scopes, s).items) :
            item.id \notin Appended(s) =>
                item.val = SeqSum([i \in DOMAIN events |-> Increment(events[i].evt, s, item.id)])
=============================================================================
