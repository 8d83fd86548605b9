----------------------------- MODULE Subscriber -----------------------------
(***************************************************************************)
(* One reserved scope, its subscription, and the bridges that drain it.    *)
(*                                                                         *)
(* appendOne commits an entry and afterwards, with no buffer lock held,    *)
(* sends a wake-up into a channel with one slot.  A bridge is a goroutine  *)
(* that runs the operator's command once per wake-up; the command here is  *)
(* the reference script: fetch a batch, persist it, delete up to its last  *)
(* seq, again until a fetch comes back empty.  A command may fail at any   *)
(* request, or be killed by stop; the request it had sent may still arrive *)
(* later.  Bridge b owns channel b: it subscribes once.                    *)
(***************************************************************************)
EXTENDS Integers, FiniteSets

CONSTANTS
    Writers,     \* concurrent callers of appendOne on the scope
    Bridges,     \* StartSubscriber calls
    NoSub,       \* nobody is subscribed
    Limit,       \* entries per fetch
    MaxAppends, MaxFails, MaxWipes,   \* bounds: appends, failures, /wipe calls
    MaxStops     \* bound: calls of one bridge's stop

ASSUME SubscriberAssumption ==
    /\ NoSub \notin Bridges
    /\ Limit \in Nat \ {0}
    /\ MaxAppends \in Nat /\ MaxFails \in Nat /\ MaxWipes \in Nat /\ MaxStops \in Nat

VARIABLES
    items,       \* seqs of the entries in the scope
    lastSeq,
    epoch,       \* how often the scope has been wiped: seqs start over
    sink,        \* <<epoch, seq>> of the entries the script has persisted
    writer,      \* "idle", or "notify" between commit and wake-up
    appends,     \* appends so far
    sub,         \* the subscribed channel, or NoSub
    slot,        \* channel -> a wake-up is buffered
    closed,      \* channel -> closed
    go,          \* where a bridge's goroutine is
    ctx,         \* bridge -> its context is cancelled
    batch, upto, \* the entries its script has fetched, and their last seq
    stopping,    \* where the call of its stop is
    stops,       \* calls of its stop
    late,        \* max_seqs of delete_up_to requests whose sender is gone
    fails,       \* failures so far
    owed         \* history: entries the present subscription was woken for

scopeVars == <<items, lastSeq, epoch>>
chanVars == <<sub, slot, closed>>
bridgeVars == <<go, batch, upto>>
stopVars == <<ctx, stopping, stops>>
vars == <<scopeVars, sink, writer, appends, chanVars, bridgeVars, stopVars, late, fails, owed>>

Draining == {"get", "persist", "delete"}  \* the script has another fetch to make
Running == Draining \cup {"exit"}         \* the script has a process

Init ==
    /\ items = {} /\ lastSeq = 0 /\ epoch = 0 /\ sink = {}
    /\ writer = [w \in Writers |-> "idle"] /\ appends = 0
    /\ sub = NoSub
    /\ slot = [b \in Bridges |-> FALSE] /\ closed = [b \in Bridges |-> FALSE]
    /\ go = [b \in Bridges |-> "none"] /\ ctx = [b \in Bridges |-> FALSE]
    /\ batch = [b \in Bridges |-> {}] /\ upto = [b \in Bridges |-> 0]
    /\ stopping = [b \in Bridges |-> "no"] /\ stops = [b \in Bridges |-> 0]
    /\ late = {} /\ fails = 0 /\ owed = {}

-----------------------------------------------------------------------------
(* Writers. *)

\* appendOne up to the release of b.mu.
appendItem(w) ==
    /\ writer[w] = "idle" /\ appends < MaxAppends
    /\ appends' = appends + 1
    /\ lastSeq' = lastSeq + 1 /\ items' = items \cup {lastSeq + 1}
    /\ writer' = [writer EXCEPT ![w] = "notify"]
    /\ UNCHANGED <<epoch, sink, chanVars, bridgeVars, stopVars, late, fails, owed>>

\* Slip: a subscriber whose command is running is not signalled.
Slip_notifySubscriber(w) ==
    /\ writer[w] = "notify"
    /\ writer' = [writer EXCEPT ![w] = "idle"]
    /\ IF sub = NoSub THEN UNCHANGED <<slot, owed>>
       ELSE /\ slot' = [slot EXCEPT ![sub] = go[sub] = "waiting"]
            /\ owed' = items
    /\ UNCHANGED <<scopeVars, sink, appends, sub, closed, bridgeVars, stopVars, late, fails>>

\* notifySubscriber: look up and send under one read lock, never blocking; a
\* full slot stays full.
notifySubscriber(w) ==
    /\ writer[w] = "notify"
    /\ writer' = [writer EXCEPT ![w] = "idle"]
    /\ IF sub = NoSub THEN UNCHANGED <<slot, owed>>
       ELSE slot' = [slot EXCEPT ![sub] = TRUE] /\ owed' = items
    /\ UNCHANGED <<scopeVars, sink, appends, sub, closed, bridgeVars, stopVars, late, fails>>

\* /wipe (or /rebuild): a fresh scope under the same name; the subscription
\* stays.
wipe ==
    /\ epoch < MaxWipes
    /\ epoch' = epoch + 1 /\ items' = {} /\ lastSeq' = 0 /\ owed' = {}
    /\ UNCHANGED <<sink, writer, appends, chanVars, bridgeVars, stopVars, late, fails>>

-----------------------------------------------------------------------------
(* The bridge. *)

\* Slip: a second subscriber takes the scope over.
Slip_StartSubscriber(b) ==
    /\ go[b] = "none"
    /\ sub' = b /\ go' = [go EXCEPT ![b] = "waiting"] /\ owed' = {}
    /\ UNCHANGED <<scopeVars, sink, writer, appends, slot, closed, batch, upto,
                   stopVars, late, fails>>

\* StartSubscriber: Subscribe refuses a second subscriber, then the goroutine.
StartSubscriber(b) ==
    /\ go[b] = "none" /\ sub = NoSub
    /\ sub' = b /\ go' = [go EXCEPT ![b] = "waiting"] /\ owed' = {}
    /\ UNCHANGED <<scopeVars, sink, writer, appends, slot, closed, batch, upto,
                   stopVars, late, fails>>

\* `for range ch`: a buffered wake-up is delivered even after the close; with
\* the context cancelled the command does not start.
receive(b) ==
    /\ go[b] = "waiting" /\ slot[b]
    /\ slot' = [slot EXCEPT ![b] = FALSE]
    /\ go' = [go EXCEPT ![b] = IF ctx[b] THEN "waiting" ELSE "get"]
    /\ UNCHANGED <<scopeVars, sink, writer, appends, sub, closed, batch, upto,
                   stopVars, late, fails, owed>>

exitLoop(b) ==
    /\ go[b] = "waiting" /\ ~slot[b] /\ closed[b]
    /\ go' = [go EXCEPT ![b] = "done"]
    /\ UNCHANGED <<scopeVars, sink, writer, appends, chanVars, batch, upto,
                   stopVars, late, fails, owed>>

-----------------------------------------------------------------------------
(* The script. *)

\* m is the last seq of a batch of the Limit lowest entries.
HeadEndsAt(m) ==
    LET head == {n \in items : n <= m}
    IN  Cardinality(head) <= Limit /\ (Cardinality(head) = Limit \/ head = items)

\* GET /head: a batch, or nothing and the script is about to exit.
getHead(b) ==
    /\ go[b] = "get"
    /\ \/ \E m \in items :
            /\ HeadEndsAt(m)
            /\ batch' = [batch EXCEPT ![b] = {<<epoch, n>> : n \in {k \in items : k <= m}}]
            /\ upto' = [upto EXCEPT ![b] = m]
            /\ go' = [go EXCEPT ![b] = "persist"]
       \/ /\ items = {}
          /\ go' = [go EXCEPT ![b] = "exit"]
          /\ UNCHANGED <<batch, upto>>
    /\ UNCHANGED <<scopeVars, sink, writer, appends, chanVars, stopVars, late, fails, owed>>

\* The process is gone; cmd.Run returns to the loop.
exit(b) ==
    /\ go[b] = "exit"
    /\ go' = [go EXCEPT ![b] = "waiting"]
    /\ UNCHANGED <<scopeVars, sink, writer, appends, chanVars, batch, upto,
                   stopVars, late, fails, owed>>

\* Append the batch to the output file.
persist(b) ==
    /\ go[b] = "persist"
    /\ sink' = sink \cup batch[b]
    /\ go' = [go EXCEPT ![b] = "delete"]
    /\ UNCHANGED <<scopeVars, writer, appends, chanVars, batch, upto, stopVars, late, fails, owed>>

Above(m) == {n \in items : n > m}

\* Slip: cuts one entry more than the batch held.
Slip_deleteUpTo(b) ==
    /\ go[b] = "delete"
    /\ items' = Above(upto[b] + 1) /\ owed' = owed \cap items'
    /\ go' = [go EXCEPT ![b] = "get"]
    /\ UNCHANGED <<lastSeq, epoch, sink, writer, appends, chanVars, batch, upto,
                   stopVars, late, fails>>

\* POST /delete_up_to with the last seq of the batch.
deleteUpTo(b) ==
    /\ go[b] = "delete"
    /\ items' = Above(upto[b]) /\ owed' = owed \cap items'
    /\ go' = [go EXCEPT ![b] = "get"]
    /\ UNCHANGED <<lastSeq, epoch, sink, writer, appends, chanVars, batch, upto,
                   stopVars, late, fails>>

\* The command ends early: the bridge logs it and waits for the next wake-up.
\* A delete_up_to it had sent may still be on its way.
endEarly(b) ==
    /\ go[b] \in Running
    /\ go' = [go EXCEPT ![b] = "waiting"]
    /\ \/ late' = late
       \/ go[b] = "delete" /\ late' = late \cup {upto[b]}
    /\ owed' = IF sub = b /\ ~slot[b] THEN {} ELSE owed
    /\ UNCHANGED <<scopeVars, sink, writer, appends, chanVars, batch, upto, stopVars>>

\* `set -e`: a request failed.
fail(b) == fails < MaxFails /\ fails' = fails + 1 /\ endEarly(b)

\* The cancelled context kills the process group.
kill(b) == ctx[b] /\ endEarly(b) /\ UNCHANGED fails

lateDelete(m) ==
    /\ m \in late
    /\ late' = late \ {m}
    /\ items' = Above(m) /\ owed' = owed \cap items'
    /\ UNCHANGED <<lastSeq, epoch, sink, writer, appends, chanVars, bridgeVars, stopVars, fails>>

-----------------------------------------------------------------------------
(* stop(): cancel, unsubscribe, wait for the goroutine. *)

\* Slip: leaves the running command alone.
Slip_cancel(b) ==
    /\ go[b] # "none" /\ stopping[b] \in {"no", "returned"} /\ stops[b] < MaxStops
    /\ stops' = [stops EXCEPT ![b] = @ + 1]
    /\ stopping' = [stopping EXCEPT ![b] = "unsub"]
    /\ UNCHANGED <<scopeVars, sink, writer, appends, chanVars, bridgeVars, ctx, late, fails, owed>>

cancel(b) ==
    /\ go[b] # "none" /\ stopping[b] \in {"no", "returned"} /\ stops[b] < MaxStops
    /\ stops' = [stops EXCEPT ![b] = @ + 1]
    /\ ctx' = [ctx EXCEPT ![b] = TRUE]
    /\ stopping' = [stopping EXCEPT ![b] = "unsub"]
    /\ UNCHANGED <<scopeVars, sink, writer, appends, chanVars, bridgeVars, late, fails, owed>>

\* Slip: closes the channel and leaves it in the map.
Slip_unsubscribe(b) ==
    /\ stopping[b] = "unsub"
    /\ stopping' = [stopping EXCEPT ![b] = "wait"]
    /\ IF sub = NoSub THEN UNCHANGED closed
       ELSE closed' = [closed EXCEPT ![sub] = TRUE]
    /\ UNCHANGED <<scopeVars, sink, writer, appends, sub, slot, bridgeVars, ctx, stops,
                   late, fails, owed>>

\* unsubscribe goes by the scope's name: it removes and closes whatever
\* channel is subscribed now.
unsubscribe(b) ==
    /\ stopping[b] = "unsub"
    /\ stopping' = [stopping EXCEPT ![b] = "wait"]
    /\ IF sub = NoSub THEN UNCHANGED <<sub, closed>>
       ELSE sub' = NoSub /\ closed' = [closed EXCEPT ![sub] = TRUE]
    /\ UNCHANGED <<scopeVars, sink, writer, appends, slot, bridgeVars, ctx, stops,
                   late, fails, owed>>

stopReturns(b) ==
    /\ stopping[b] = "wait" /\ go[b] = "done"
    /\ stopping' = [stopping EXCEPT ![b] = "returned"]
    /\ UNCHANGED <<scopeVars, sink, writer, appends, chanVars, bridgeVars, ctx, stops,
                   late, fails, owed>>

-----------------------------------------------------------------------------

\* Nothing is under way: writers are done, goroutines wait or are gone.
Idle ==
    /\ appends = MaxAppends /\ \A w \in Writers : writer[w] = "idle"
    /\ \A b \in Bridges : /\ go[b] \in {"none", "waiting", "done"}
                          /\ stopping[b] \in {"no", "returned"}
    /\ UNCHANGED vars

Write(w) == appendItem(w) \/ notifySubscriber(w)
Bridge(b) == receive(b) \/ exitLoop(b) \/ kill(b)
Script(b) == getHead(b) \/ persist(b) \/ deleteUpTo(b) \/ exit(b)
Stop(b) == unsubscribe(b) \/ stopReturns(b)

Next ==
    \/ \E w \in Writers : Write(w)
    \/ \E b \in Bridges : StartSubscriber(b) \/ Bridge(b) \/ Script(b) \/ fail(b)
                          \/ cancel(b) \/ Stop(b)
    \/ \E m \in late : lateDelete(m)
    \/ wipe
    \/ Idle

Spec == Init /\ [][Next]_vars

\* Goroutines are scheduled, a kill is delivered, a stop call proceeds.  The
\* command may hang at any of its steps.
HangSpec ==
    /\ Spec
    /\ \A b \in Bridges : WF_vars(Bridge(b)) /\ WF_vars(Stop(b))

\* Also, where a property says so: callers of appendOne proceed, and so does
\* the script.
FairScript ==
    /\ \A w \in Writers : WF_vars(notifySubscriber(w))
    /\ \A b \in Bridges : WF_vars(Script(b))

-----------------------------------------------------------------------------
(* Properties. *)

TypeOK ==
    /\ items \subseteq 1..lastSeq /\ lastSeq \in Nat /\ epoch \in Nat
    /\ sink \subseteq Nat \X Nat
    /\ writer \in [Writers -> {"idle", "notify"}] /\ appends \in Nat
    /\ sub \in Bridges \cup {NoSub}
    /\ slot \in [Bridges -> BOOLEAN] /\ closed \in [Bridges -> BOOLEAN]
    /\ go \in [Bridges -> {"none", "waiting", "done"} \cup Running]
    /\ ctx \in [Bridges -> BOOLEAN]
    /\ batch \in [Bridges -> SUBSET (Nat \X Nat)] /\ upto \in [Bridges -> Nat]
    /\ stopping \in [Bridges -> {"no", "unsub", "wait", "returned"}]
    /\ stops \in [Bridges -> Nat]
    /\ late \subseteq Nat /\ fails \in Nat /\ owed \subseteq Nat

\* At least once: before the first /wipe, an entry is still there or has been
\* persisted, wherever a command failed or was killed, and although its last
\* request may arrive after another command took over (drain_events.sh persists
\* before it deletes; RFC 7.8).  After a /wipe a request from before it may cut
\* entries nobody has read: see the README.
NothingSkipped == epoch = 0 => \A n \in 1..lastSeq : n \in items \/ <<0, n>> \in sink

\* No wake-up is lost: while a bridge is attached and not being stopped, every
\* entry it was signalled for is covered by a buffered wake-up or by a command
\* that has yet to see an empty scope (the single slot of notifySubscriber).
WakeupCovers ==
    \A b \in Bridges :
        sub = b /\ ~ctx[b] /\ owed # {} => slot[b] \/ go[b] \in Draining

\* A channel that a writer can find is open, so a send never panics, and its
\* goroutine has not left the loop (unsubscribe: delete, then close).
AttachedIsOpen == sub # NoSub => ~closed[sub] /\ go[sub] # "done"

\* Two commands run on the scope only while one of them is being killed, as long
\* as no stop is called twice: Subscribe refuses a scope that is taken, and stop
\* gives up the channel only after it has cancelled the context.  A second call
\* of an old stop takes the channel from a live bridge: see the README.
OneLiveCommand ==
    (\A e \in Bridges : stops[e] <= 1) =>
        \A b, d \in Bridges :
            b # d /\ go[b] \in Running /\ go[d] \in Running => ctx[b] \/ ctx[d]

\* What the bridge was woken for is persisted, unless a command fails or the
\* bridge is stopped or the scope wiped meanwhile, provided the script does not
\* hang: a wake-up that finds the slot full is not lost for good, and after a
\* failure the next wake-up catches up.
OwedIsPersisted ==
    FairScript =>
        \A n \in 1..MaxAppends, k \in 0..MaxFails :
            (epoch = 0 /\ n \in owed /\ fails = k) ~>
                (<<0, n>> \in sink \/ epoch > 0 \/ fails > k \/ \E b \in Bridges : ctx[b])

\* stop returns, even when the command hangs.
StopReturns ==
    \A b \in Bridges : (stops[b] > 0) ~> (stopping[b] = "returned")
=============================================================================
