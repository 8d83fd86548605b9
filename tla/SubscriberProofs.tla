--------------------------- MODULE SubscriberProofs ---------------------------
(***************************************************************************)
(* Proofs about one reserved scope and its bridges: no entry is removed    *)
(* unread, no wake-up is lost, no send meets a closed channel, and one     *)
(* live command at a time, for any number of writers, bridges, appends,    *)
(* failures and stops.                                                     *)
(***************************************************************************)
EXTENDS Subscriber, TLAPS

\* The entries up to m have been persisted.
Saved(m) == \A n \in 1..m : <<0, n>> \in sink

\* What a delete_up_to may cut, whether its sender is about to send it or gone.
CutsAreSaved ==
    /\ \A b \in Bridges :
         /\ go[b] \in {"persist", "delete"} =>
              \A n \in 1..upto[b] : <<0, n>> \in batch[b] \cup sink
         /\ go[b] = "delete" => batch[b] \subseteq sink
    /\ \A m \in late : Saved(m)

\* Before the first /wipe nothing is skipped, nor about to be.
DrainInv == epoch = 0 => NothingSkipped /\ CutsAreSaved

\* A bridge that has not subscribed yet has an open channel nobody can find.
ChanInv ==
    /\ AttachedIsOpen
    /\ \A b \in Bridges : go[b] = "none" => ~closed[b] /\ sub # b

\* What the present bridge was woken for is still in the scope.
WakeInv == WakeupCovers /\ owed \subseteq items

\* A stop belongs to a bridge that has started, and its first call cancels the
\* context, ...
StopInv ==
    \A b \in Bridges : /\ ~ctx[b] \/ go[b] = "none" => stopping[b] = "no"
                       /\ stopping[b] # "no" => stops[b] >= 1
\* ... and if there is no second one, a bridge keeps its channel until then.
KeepsChannel ==
    (\A e \in Bridges : stops[e] <= 1) =>
        \A b \in Bridges : go[b] # "none" /\ stopping[b] \in {"no", "unsub"} => sub = b

Inv == TypeOK /\ DrainInv /\ ChanInv /\ WakeInv /\ StopInv /\ KeepsChannel

LEMMA InitInv == Init => Inv
<1> SUFFICES ASSUME Init PROVE Inv
  OBVIOUS
<1> USE SubscriberAssumption DEF Init
<1>1. TypeOK
  BY DEF TypeOK
<1>2. DrainInv
  BY DEF DrainInv, NothingSkipped, CutsAreSaved
<1>3. ChanInv
  BY DEF ChanInv, AttachedIsOpen
<1>4. WakeInv
  BY DEF WakeInv, WakeupCovers
<1>5. StopInv /\ KeepsChannel
  BY DEF StopInv, KeepsChannel
<1> QED
  BY <1>1, <1>2, <1>3, <1>4, <1>5 DEF Inv

-----------------------------------------------------------------------------
(* Types. *)

LEMMA TypeStep ==
    ASSUME TypeOK, Next
    PROVE  TypeOK'
<1> USE DEF TypeOK, Running, Draining
<1>1. ASSUME NEW w \in Writers, appendItem(w) PROVE TypeOK'
  BY <1>1 DEF appendItem, chanVars, bridgeVars, stopVars
<1>2. ASSUME NEW w \in Writers, notifySubscriber(w) PROVE TypeOK'
  <2>1. items \subseteq Nat
    OBVIOUS
  <2> QED
    BY <1>2, <2>1 DEF notifySubscriber, scopeVars, bridgeVars, stopVars
<1>3. CASE wipe
  BY <1>3 DEF wipe, chanVars, bridgeVars, stopVars
<1>4. ASSUME NEW b \in Bridges, StartSubscriber(b) PROVE TypeOK'
  BY <1>4 DEF StartSubscriber, scopeVars, stopVars
<1>5. ASSUME NEW b \in Bridges, receive(b) PROVE TypeOK'
  BY <1>5 DEF receive, scopeVars, stopVars
<1>6. ASSUME NEW b \in Bridges, exitLoop(b) PROVE TypeOK'
  BY <1>6 DEF exitLoop, scopeVars, chanVars, stopVars
<1>7. ASSUME NEW b \in Bridges, getHead(b) PROVE TypeOK'
  <2>1. ASSUME NEW m \in items, 
               batch' = [batch EXCEPT ![b] = {<<epoch, n>> : n \in {k \in items : k <= m}}],
               upto' = [upto EXCEPT ![b] = m]
        PROVE  batch' \in [Bridges -> SUBSET (Nat \X Nat)] /\ upto' \in [Bridges -> Nat]
    <3>1. items \subseteq Nat
      OBVIOUS
    <3>2. {<<epoch, n>> : n \in {k \in items : k <= m}} \subseteq Nat \X Nat
      BY <3>1
    <3> QED
      BY <2>1, <3>1, <3>2
  <2>2. batch' \in [Bridges -> SUBSET (Nat \X Nat)] /\ upto' \in [Bridges -> Nat]
    BY <1>7, <2>1 DEF getHead
  <2>3. go' \in [Bridges -> {"none", "waiting", "done"} \cup Running]
    BY <1>7 DEF getHead
  <2> QED
    BY <1>7, <2>2, <2>3 DEF getHead, scopeVars, chanVars, stopVars
<1>8. ASSUME NEW b \in Bridges, persist(b) PROVE TypeOK'
  BY <1>8 DEF persist, scopeVars, chanVars, stopVars
<1>9. ASSUME NEW b \in Bridges, deleteUpTo(b) PROVE TypeOK'
  BY <1>9 DEF deleteUpTo, Above, chanVars, stopVars
<1>10. ASSUME NEW b \in Bridges, exit(b) PROVE TypeOK'
  BY <1>10 DEF exit, scopeVars, chanVars, stopVars
<1>11. ASSUME NEW b \in Bridges, fail(b) \/ kill(b) PROVE TypeOK'
  <2>1. endEarly(b) /\ fails' \in Nat
    BY <1>11 DEF fail, kill
  <2>2. upto[b] \in Nat
    OBVIOUS
  <2>3. late' \subseteq Nat
    BY <2>1, <2>2 DEF endEarly
  <2>4. go' \in [Bridges -> {"none", "waiting", "done"} \cup Running]
    BY <2>1 DEF endEarly
  <2>5. owed' \subseteq Nat
    BY <2>1 DEF endEarly
  <2> QED
    BY <2>1, <2>3, <2>4, <2>5 DEF endEarly, scopeVars, chanVars, stopVars
<1>12. ASSUME NEW m \in late, lateDelete(m) PROVE TypeOK'
  BY <1>12 DEF lateDelete, Above, chanVars, bridgeVars, stopVars
<1>13. ASSUME NEW b \in Bridges, cancel(b) PROVE TypeOK'
  BY <1>13 DEF cancel, scopeVars, chanVars, bridgeVars
<1>14. ASSUME NEW b \in Bridges, unsubscribe(b) PROVE TypeOK'
  BY <1>14 DEF unsubscribe, scopeVars, bridgeVars
<1>15. ASSUME NEW b \in Bridges, stopReturns(b) PROVE TypeOK'
  BY <1>15 DEF stopReturns, scopeVars, chanVars, bridgeVars
<1>16. CASE Idle
  BY <1>16 DEF Idle, vars, scopeVars, chanVars, bridgeVars, stopVars
<1> QED
  BY <1>1, <1>2, <1>3, <1>4, <1>5, <1>6, <1>7, <1>8, <1>9, <1>10, <1>11, <1>12,
     <1>13, <1>14, <1>15, <1>16 DEF Next, Write, Bridge, Script, Stop

-----------------------------------------------------------------------------
(* At least once. *)

\* A step that leaves the scope, the output file and the batches alone, and
\* brings no script to a step that persists or deletes.
LEMMA DrainQuiet ==
    ASSUME DrainInv, UNCHANGED <<items, lastSeq, epoch, sink, batch, upto, late>>,
           \A d \in Bridges : go'[d] \in {"persist", "delete"} => go'[d] = go[d]
    PROVE  DrainInv'
BY DEF DrainInv, NothingSkipped, CutsAreSaved, Saved

\* A delete_up_to of what has been persisted, whoever sent it and when.
LEMMA CutSaved ==
    ASSUME TypeOK, NothingSkipped, NEW m \in Nat, epoch = 0, Saved(m),
           items' = Above(m), UNCHANGED <<lastSeq, sink>>
    PROVE  NothingSkipped'
<1> SUFFICES ASSUME NEW n \in 1..lastSeq, n \notin items'
             PROVE  <<0, n>> \in sink
  BY DEF NothingSkipped
<1>1. CASE n \in items
  <2>1. n \in 1..m
    BY <1>1 DEF Above, TypeOK
  <2> QED
    BY <2>1 DEF Saved
<1>2. CASE n \notin items
  BY <1>2 DEF NothingSkipped
<1> QED
  BY <1>1, <1>2

LEMMA DrainStep ==
    ASSUME TypeOK, DrainInv, Next
    PROVE  DrainInv'
<1> USE DEF Running, Draining
<1>1. ASSUME NEW w \in Writers, appendItem(w) PROVE DrainInv'
  <2>1. CutsAreSaved' <=> CutsAreSaved
    BY <1>1 DEF appendItem, bridgeVars, CutsAreSaved, Saved
  <2>2. ASSUME NothingSkipped PROVE NothingSkipped'
    <3>1. items' = items \cup {lastSeq + 1} /\ lastSeq' = lastSeq + 1 /\ sink' = sink
          /\ epoch' = epoch
      BY <1>1 DEF appendItem
    <3>2. \A n \in 1..lastSeq' : n \in 1..lastSeq \/ n = lastSeq + 1
      BY <3>1 DEF TypeOK
    <3> QED
      BY <2>2, <3>1, <3>2 DEF NothingSkipped
  <2> QED
    BY <1>1, <2>1, <2>2 DEF appendItem, DrainInv
<1>2. ASSUME NEW w \in Writers, notifySubscriber(w) PROVE DrainInv'
  BY <1>2, DrainQuiet DEF notifySubscriber, scopeVars, bridgeVars
<1>3. CASE wipe
  BY <1>3 DEF wipe, DrainInv, TypeOK
<1>4. ASSUME NEW b \in Bridges, StartSubscriber(b) PROVE DrainInv'
  BY <1>4, DrainQuiet DEF StartSubscriber, scopeVars, TypeOK
<1>5. ASSUME NEW b \in Bridges, receive(b) PROVE DrainInv'
  BY <1>5, DrainQuiet DEF receive, scopeVars, TypeOK
<1>6. ASSUME NEW b \in Bridges, exitLoop(b) PROVE DrainInv'
  BY <1>6, DrainQuiet DEF exitLoop, scopeVars, TypeOK
<1>7. ASSUME NEW b \in Bridges, getHead(b) PROVE DrainInv'
  <2>1. CASE go'[b] = "exit" /\ UNCHANGED <<batch, upto>>
    BY <1>7, <2>1, DrainQuiet DEF getHead, scopeVars, TypeOK
  <2>2. ASSUME NEW m \in items,
               batch' = [batch EXCEPT ![b] = {<<epoch, n>> : n \in {k \in items : k <= m}}],
               upto' = [upto EXCEPT ![b] = m],
               go' = [go EXCEPT ![b] = "persist"]
        PROVE  DrainInv'
    <3> SUFFICES ASSUME epoch = 0 PROVE NothingSkipped' /\ CutsAreSaved'
      BY <1>7 DEF getHead, scopeVars, DrainInv
    <3>1. NothingSkipped /\ CutsAreSaved
      BY DEF DrainInv
    <3>2. NothingSkipped'
      BY <1>7, <3>1 DEF getHead, scopeVars, NothingSkipped
    <3>3. \A n \in 1..m : <<0, n>> \in batch'[b] \cup sink
      <4> TAKE n \in 1..m
      <4>1. m \in 1..lastSeq /\ lastSeq \in Nat
        BY DEF TypeOK
      <4>2. n \in 1..lastSeq /\ n <= m
        BY <4>1
      <4>3. batch'[b] = {<<0, k>> : k \in {j \in items : j <= m}}
        BY <2>2 DEF TypeOK
      <4>4. CASE n \in items
        BY <4>2, <4>3, <4>4
      <4> QED
        BY <3>1, <4>2, <4>4 DEF NothingSkipped
    <3>4. \A d \in Bridges \ {b} : UNCHANGED <<go[d], batch[d], upto[d]>>
      BY <2>2 DEF TypeOK
    <3>5. go'[b] = "persist" /\ upto'[b] = m
      BY <2>2 DEF TypeOK
    <3> QED
      BY <1>7, <3>1, <3>2, <3>3, <3>4, <3>5 DEF getHead, CutsAreSaved, Saved
  <2> QED
    BY <1>7, <2>1, <2>2 DEF getHead, TypeOK
<1>8. ASSUME NEW b \in Bridges, persist(b) PROVE DrainInv'
  BY <1>8 DEF persist, scopeVars, DrainInv, NothingSkipped, CutsAreSaved, Saved, TypeOK
<1>9. ASSUME NEW b \in Bridges, deleteUpTo(b) PROVE DrainInv'
  <2> SUFFICES ASSUME epoch = 0 PROVE NothingSkipped' /\ CutsAreSaved'
    BY <1>9 DEF deleteUpTo, DrainInv
  <2>1. NothingSkipped /\ CutsAreSaved
    BY DEF DrainInv
  <2>2. upto[b] \in Nat /\ Saved(upto[b])
    BY <1>9, <2>1 DEF deleteUpTo, CutsAreSaved, Saved, TypeOK
  <2>3. NothingSkipped'
    BY <1>9, <2>1, <2>2, CutSaved DEF deleteUpTo
  <2>4. CutsAreSaved'
    BY <1>9, <2>1 DEF deleteUpTo, CutsAreSaved, Saved, TypeOK
  <2> QED
    BY <2>3, <2>4
<1>10. ASSUME NEW b \in Bridges, exit(b) PROVE DrainInv'
  BY <1>10, DrainQuiet DEF exit, scopeVars, TypeOK
<1>11. ASSUME NEW b \in Bridges, fail(b) \/ kill(b) PROVE DrainInv'
  <2>1. endEarly(b)
    BY <1>11 DEF fail, kill
  <2> SUFFICES ASSUME epoch = 0 PROVE NothingSkipped' /\ CutsAreSaved'
    BY <2>1 DEF endEarly, scopeVars, DrainInv
  <2>2. NothingSkipped /\ CutsAreSaved
    BY DEF DrainInv
  <2>3. NothingSkipped'
    BY <2>1, <2>2 DEF endEarly, scopeVars, NothingSkipped
  <2>4. \A m \in late' : Saved(m)
    BY <2>1, <2>2 DEF endEarly, CutsAreSaved, Saved
  <2>5. \A d \in Bridges : go'[d] \in {"persist", "delete"} => go'[d] = go[d]
    BY <2>1 DEF endEarly, TypeOK
  <2> QED
    BY <2>1, <2>2, <2>3, <2>4, <2>5 DEF endEarly, CutsAreSaved, Saved
<1>12. ASSUME NEW m \in late, lateDelete(m) PROVE DrainInv'
  <2> SUFFICES ASSUME epoch = 0 PROVE NothingSkipped' /\ CutsAreSaved'
    BY <1>12 DEF lateDelete, DrainInv
  <2>1. NothingSkipped /\ CutsAreSaved
    BY DEF DrainInv
  <2>2. m \in Nat /\ Saved(m)
    BY <2>1 DEF CutsAreSaved, TypeOK
  <2>3. NothingSkipped'
    BY <1>12, <2>1, <2>2, CutSaved DEF lateDelete
  <2>4. CutsAreSaved'
    BY <1>12, <2>1 DEF lateDelete, bridgeVars, CutsAreSaved, Saved
  <2> QED
    BY <2>3, <2>4
<1>13. ASSUME NEW b \in Bridges, cancel(b) \/ unsubscribe(b) \/ stopReturns(b)
       PROVE  DrainInv'
  BY <1>13, DrainQuiet DEF cancel, unsubscribe, stopReturns, scopeVars, bridgeVars
<1>14. CASE Idle
  BY <1>14, DrainQuiet DEF Idle, vars, scopeVars, bridgeVars
<1> QED
  BY <1>1, <1>2, <1>3, <1>4, <1>5, <1>6, <1>7, <1>8, <1>9, <1>10, <1>11, <1>12,
     <1>13, <1>14 DEF Next, Write, Bridge, Script, Stop

-----------------------------------------------------------------------------
(* Channels, wake-ups and stops. *)

LEMMA ChanStep ==
    ASSUME TypeOK, ChanInv, Next
    PROVE  ChanInv'
<1> USE SubscriberAssumption DEF ChanInv, AttachedIsOpen
<1>1. ASSUME NEW b \in Bridges, StartSubscriber(b) PROVE ChanInv'
  BY <1>1 DEF StartSubscriber, TypeOK
<1>2. ASSUME NEW b \in Bridges, exitLoop(b) PROVE ChanInv'
  BY <1>2 DEF exitLoop, chanVars, TypeOK
<1>3. ASSUME NEW b \in Bridges, unsubscribe(b) PROVE ChanInv'
  BY <1>3 DEF unsubscribe, bridgeVars, TypeOK
\* Every other step keeps the subscription and moves at most one goroutine
\* that has started and not left.
<1> DEFINE Moves == \A d \in Bridges : go'[d] = go[d] \/ (go[d] # "none" /\ go'[d] \notin {"none", "done"})
<1>4. ASSUME UNCHANGED <<sub, closed>>, Moves PROVE ChanInv'
  BY <1>4 DEF TypeOK
<1> USE DEF Running, Draining
<1>5. ASSUME NEW w \in Writers, Write(w) PROVE ChanInv'
  BY <1>4, <1>5 DEF Write, appendItem, notifySubscriber, chanVars, bridgeVars
<1>6. ASSUME NEW b \in Bridges, receive(b) PROVE ChanInv'
  BY <1>4, <1>6 DEF receive, TypeOK
<1>7. ASSUME NEW b \in Bridges, Script(b) PROVE ChanInv'
  <2>1. Moves
    BY <1>7 DEF Script, getHead, persist, deleteUpTo, exit, TypeOK
  <2>2. UNCHANGED <<sub, closed>>
    BY <1>7 DEF Script, getHead, persist, deleteUpTo, exit, chanVars
  <2> QED
    BY <1>4, <2>1, <2>2
<1>8. ASSUME NEW b \in Bridges, fail(b) \/ kill(b) PROVE ChanInv'
  <2>1. Moves
    BY <1>8 DEF fail, kill, endEarly, TypeOK
  <2> QED
    BY <1>4, <1>8, <2>1 DEF fail, kill, endEarly, chanVars
<1>9. ASSUME NEW b \in Bridges, cancel(b) \/ stopReturns(b) PROVE ChanInv'
  BY <1>4, <1>9 DEF cancel, stopReturns, chanVars, bridgeVars
<1>10. CASE wipe \/ Idle \/ \E m \in late : lateDelete(m)
  BY <1>4, <1>10 DEF wipe, Idle, lateDelete, vars, chanVars, bridgeVars
<1> QED
  BY <1>1, <1>2, <1>3, <1>5, <1>6, <1>7, <1>8, <1>9, <1>10 DEF Next, Bridge, Stop

LEMMA WakeStep ==
    ASSUME TypeOK, WakeInv, Next
    PROVE  WakeInv'
<1> USE SubscriberAssumption DEF WakeInv, WakeupCovers, Draining
<1>1. ASSUME NEW w \in Writers, appendItem(w) PROVE WakeInv'
  BY <1>1 DEF appendItem, chanVars, bridgeVars, stopVars
<1>2. ASSUME NEW w \in Writers, notifySubscriber(w) PROVE WakeInv'
  BY <1>2 DEF notifySubscriber, scopeVars, bridgeVars, stopVars, TypeOK
<1>3. CASE wipe
  BY <1>3 DEF wipe
<1>4. ASSUME NEW b \in Bridges, StartSubscriber(b) PROVE WakeInv'
  BY <1>4 DEF StartSubscriber, scopeVars
<1>5. ASSUME NEW b \in Bridges, receive(b) PROVE WakeInv'
  BY <1>5 DEF receive, scopeVars, stopVars, TypeOK
<1>6. ASSUME NEW b \in Bridges, exitLoop(b) PROVE WakeInv'
  BY <1>6 DEF exitLoop, scopeVars, chanVars, stopVars, TypeOK
<1>7. ASSUME NEW b \in Bridges, getHead(b) PROVE WakeInv'
  BY <1>7 DEF getHead, scopeVars, chanVars, stopVars, TypeOK
<1>8. ASSUME NEW b \in Bridges, persist(b) PROVE WakeInv'
  BY <1>8 DEF persist, scopeVars, chanVars, stopVars, TypeOK
<1>9. ASSUME NEW b \in Bridges, deleteUpTo(b) PROVE WakeInv'
  BY <1>9 DEF deleteUpTo, chanVars, stopVars, TypeOK
<1>10. ASSUME NEW b \in Bridges, exit(b) PROVE WakeInv'
  BY <1>10 DEF exit, scopeVars, chanVars, stopVars, TypeOK
<1>11. ASSUME NEW b \in Bridges, fail(b) \/ kill(b) PROVE WakeInv'
  <2>1. endEarly(b)
    BY <1>11 DEF fail, kill
  <2> QED
    BY <2>1 DEF endEarly, scopeVars, chanVars, stopVars, Running, TypeOK
<1>12. ASSUME NEW m \in late, lateDelete(m) PROVE WakeInv'
  BY <1>12 DEF lateDelete, chanVars, bridgeVars, stopVars
<1>13. ASSUME NEW b \in Bridges, cancel(b) PROVE WakeInv'
  BY <1>13 DEF cancel, scopeVars, chanVars, bridgeVars, TypeOK
<1>14. ASSUME NEW b \in Bridges, unsubscribe(b) PROVE WakeInv'
  BY <1>14 DEF unsubscribe, scopeVars, bridgeVars
<1>15. ASSUME NEW b \in Bridges, stopReturns(b) PROVE WakeInv'
  BY <1>15 DEF stopReturns, scopeVars, chanVars, bridgeVars
<1>16. CASE Idle
  BY <1>16 DEF Idle, vars, scopeVars, chanVars, bridgeVars, stopVars
<1> QED
  BY <1>1, <1>2, <1>3, <1>4, <1>5, <1>6, <1>7, <1>8, <1>9, <1>10, <1>11, <1>12,
     <1>13, <1>14, <1>15, <1>16 DEF Next, Write, Bridge, Script, Stop

LEMMA StopStep ==
    ASSUME TypeOK, StopInv, KeepsChannel, Next
    PROVE  StopInv' /\ KeepsChannel'
<1> USE SubscriberAssumption DEF StopInv, KeepsChannel
<1>1. ASSUME NEW b \in Bridges, StartSubscriber(b) PROVE StopInv' /\ KeepsChannel'
  BY <1>1 DEF StartSubscriber, stopVars, TypeOK
<1>2. ASSUME NEW b \in Bridges, cancel(b) PROVE StopInv' /\ KeepsChannel'
  BY <1>2 DEF cancel, chanVars, bridgeVars, TypeOK
<1>3. ASSUME NEW b \in Bridges, unsubscribe(b) PROVE StopInv' /\ KeepsChannel'
  <2>1. StopInv'
    BY <1>3 DEF unsubscribe, bridgeVars, TypeOK
  <2>2. ASSUME \A e \in Bridges : stops'[e] <= 1,
               NEW d \in Bridges, go'[d] # "none", stopping'[d] \in {"no", "unsub"}
        PROVE  FALSE
    <3>1. d # b /\ go[d] # "none" /\ stopping[d] \in {"no", "unsub"} /\ stopping[b] = "unsub"
      BY <1>3, <2>2 DEF unsubscribe, bridgeVars, TypeOK
    <3>2. \A e \in Bridges : stops[e] <= 1
      BY <1>3, <2>2 DEF unsubscribe
    <3>3. go[b] # "none"
      BY <3>1
    <3> QED
      BY <3>1, <3>2, <3>3
  <2> QED
    BY <2>1, <2>2
<1>4. ASSUME NEW b \in Bridges, stopReturns(b) PROVE StopInv' /\ KeepsChannel'
  BY <1>4 DEF stopReturns, chanVars, bridgeVars, TypeOK
\* Every other step leaves stops and the subscription alone, and starts no
\* goroutine.
<1> DEFINE Starts(d) == (go[d] = "none") # (go'[d] = "none")
<1>5. ASSUME UNCHANGED <<sub, stopVars>>, \A d \in Bridges : ~Starts(d)
      PROVE  StopInv' /\ KeepsChannel'
  BY <1>5 DEF stopVars
<1> USE DEF Running, Draining
<1>6. ASSUME NEW w \in Writers, Write(w) PROVE StopInv' /\ KeepsChannel'
  BY <1>5, <1>6 DEF Write, appendItem, notifySubscriber, chanVars, bridgeVars
<1>7. ASSUME NEW b \in Bridges, Bridge(b) \/ fail(b) PROVE StopInv' /\ KeepsChannel'
  <2>1. \A d \in Bridges : ~Starts(d)
    BY <1>7 DEF Bridge, receive, exitLoop, fail, kill, endEarly, TypeOK
  <2>2. UNCHANGED <<sub, stopVars>>
    BY <1>7 DEF Bridge, receive, exitLoop, fail, kill, endEarly, chanVars
  <2> QED
    BY <1>5, <2>1, <2>2
<1>8. ASSUME NEW b \in Bridges, Script(b) PROVE StopInv' /\ KeepsChannel'
  <2>1. \A d \in Bridges : ~Starts(d)
    BY <1>8 DEF Script, getHead, persist, deleteUpTo, exit, TypeOK
  <2>2. UNCHANGED <<sub, stopVars>>
    BY <1>8 DEF Script, getHead, persist, deleteUpTo, exit, chanVars
  <2> QED
    BY <1>5, <2>1, <2>2
<1>9. CASE wipe \/ Idle \/ \E m \in late : lateDelete(m)
  BY <1>5, <1>9 DEF wipe, Idle, lateDelete, vars, chanVars, bridgeVars
<1> QED
  BY <1>1, <1>2, <1>3, <1>4, <1>6, <1>7, <1>8, <1>9 DEF Next, Stop

-----------------------------------------------------------------------------
(* The theorems. *)

\* The inductive invariant of one reserved scope and its bridges.
THEOREM SubscriberInvariance == Spec => []Inv
<1>1. Inv /\ [Next]_vars => Inv'
  <2> SUFFICES ASSUME Inv, [Next]_vars PROVE Inv'
    OBVIOUS
  <2>1. CASE Next
    BY <2>1, TypeStep, DrainStep, ChanStep, WakeStep, StopStep DEF Inv
  <2>2. CASE UNCHANGED vars
    <3> USE <2>2 DEF vars, scopeVars, chanVars, bridgeVars, stopVars
    <3>1. TypeOK'
      BY DEF Inv, TypeOK
    <3>2. DrainInv'
      BY DEF Inv, DrainInv, NothingSkipped, CutsAreSaved, Saved
    <3>3. ChanInv' /\ WakeInv'
      BY DEF Inv, ChanInv, AttachedIsOpen, WakeInv, WakeupCovers
    <3>4. StopInv' /\ KeepsChannel'
      BY DEF Inv, StopInv, KeepsChannel
    <3> QED
      BY <3>1, <3>2, <3>3, <3>4 DEF Inv
  <2> QED
    BY <2>1, <2>2
<1> QED
  BY <1>1, InitInv, PTL DEF Spec

\* At least once: before the first /wipe an entry that is gone from the scope is
\* in the output file (drain_events.sh persists before it deletes).
THEOREM NothingIsSkipped == Spec => []NothingSkipped
<1>1. Inv => NothingSkipped
  BY DEF Inv, DrainInv, NothingSkipped
<1> QED
  BY <1>1, SubscriberInvariance, PTL

\* The single slot of notifySubscriber loses no wake-up.
THEOREM WakeupsCover == Spec => []WakeupCovers
<1>1. Inv => WakeupCovers
  BY DEF Inv, WakeInv
<1> QED
  BY <1>1, SubscriberInvariance, PTL

\* A writer never sends on a closed channel (subscribe.go: delete, then close).
THEOREM AttachedIsAlwaysOpen == Spec => []AttachedIsOpen
<1>1. Inv => AttachedIsOpen
  BY DEF Inv, ChanInv
<1> QED
  BY <1>1, SubscriberInvariance, PTL

\* Two commands run only while one of them is being killed, if no stop is
\* called twice.
THEOREM AtMostOneLiveCommand == Spec => []OneLiveCommand
<1>1. Inv => OneLiveCommand
  BY DEF Inv, StopInv, KeepsChannel, OneLiveCommand, Running, Draining
<1> QED
  BY <1>1, SubscriberInvariance, PTL
=============================================================================
