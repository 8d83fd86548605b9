--------------------------- MODULE LifecycleProofs ---------------------------
(***************************************************************************)
(* The safety properties of Lifecycle for any set of bridges, requests and *)
(* configurations.                                                         *)
(***************************************************************************)
EXTENDS Lifecycle, TLAPS

(***************************************************************************)
(* Where main, the signal goroutine and the server can be.                 *)
(***************************************************************************)
Types ==
    /\ setup \in Setup
    /\ main \in {"init", "closeInit", "subscribe", "listen", "serving", "deferred",
                 "stopped", "fatal"}
    /\ script \in {"none", "running", "exited", "killed"}
    /\ req \in [Requests -> {"none", "handling", "answered", "cut"}]
    /\ backlog \in BOOLEAN /\ atSubscribe \in BOOLEAN /\ signal \in BOOLEAN
    /\ sub \in [Bridges -> BOOLEAN] /\ slot \in [Bridges -> BOOLEAN]
    /\ cmd \in [Bridges -> BOOLEAN]
    /\ stopper \in {"none", "wait", "drain", "done"} /\ left \subseteq Bridges
    /\ server \in {"new", "up", "closing", "failed"}

Booting == main \in {"init", "closeInit", "subscribe"}

(***************************************************************************)
(* A command runs only under an attached bridge, and a bridge that the     *)
(* stop has dealt with stays detached: bridges are attached once, before   *)
(* any stop can begin.                                                     *)
(***************************************************************************)
StoppedIsDetached ==
    /\ \A b \in Bridges : cmd[b] => sub[b]
    /\ \A b \in Bridges \ left : ~sub[b]
    /\ Booting => \A b \in Bridges : ~sub[b]
    /\ Booting => left = Bridges

(***************************************************************************)
(* The binary's signal goroutine closes the listener and drains, main and  *)
(* Cleanup return, only once no bridge is left to stop.                    *)
(***************************************************************************)
EndsStopped ==
    /\ setup.standalone /\ (server = "closing" \/ stopper \in {"drain", "done"}) => left = {}
    /\ main = "stopped" => left = {}
    /\ Booting => stopper = "none" /\ server = "new"

(***************************************************************************)
(* Until the subscribers are attached, _events is empty once it has been   *)
(* cleared and the script has run to its end: nobody else writes.          *)
(***************************************************************************)
ClearedIsEmpty ==
    /\ Booting => ~atSubscribe
    /\ main \in {"closeInit", "subscribe"} /\ script # "killed" => ~backlog
    /\ script = "exited" => \A r \in InitReqs : req[r] # "handling"
    /\ script = "none" => \A r \in InitReqs : req[r] = "none"
    /\ main # "init" => script # "running"
    /\ server = "new" => \A r \in Requests \ InitReqs : req[r] = "none"
    /\ atSubscribe => script = "killed"

Inv == Types /\ StoppedIsDetached /\ EndsStopped /\ ClearedIsEmpty

(***************************************************************************)
(* Every step keeps the types.                                              *)
(***************************************************************************)
LEMMA StepTypes ==
    ASSUME Inv, [Next]_vars PROVE Types'
<1> USE DEF Inv, Types, bridgeVars
<1>1. CASE scriptExits BY <1>1 DEF scriptExits
<1>2. CASE scriptKilled BY <1>2 DEF scriptKilled
<1>3. CASE clearEvents BY <1>3 DEF clearEvents
<1>4. ASSUME NEW t \in BOOLEAN, closeInitSocket(t) PROVE Types' BY <1>4 DEF closeInitSocket
<1>5. CASE subscribe BY <1>5 DEF subscribe
<1>6. CASE listen BY <1>6 DEF listen
<1>7. CASE serve BY <1>7 DEF serve
<1>8. CASE serveFails BY <1>8 DEF serveFails
<1>9. ASSUME NEW r \in Requests, send(r) PROVE Types' BY <1>9 DEF send
<1>10. ASSUME NEW r \in Requests, NEW b \in Bridges, handle(r, b) PROVE Types' BY <1>10 DEF handle
<1>11. ASSUME NEW b \in Bridges, wake(b) PROVE Types' BY <1>11 DEF wake
<1>12. ASSUME NEW b \in Bridges, commandExits(b) PROVE Types' BY <1>12 DEF commandExits
<1>13. CASE sigterm BY <1>13 DEF sigterm
<1>14. ASSUME NEW b \in Bridges, stopSubscribers(b) PROVE Types' BY <1>14 DEF stopSubscribers, stopBridge
<1>15. CASE shutdown BY <1>15 DEF shutdown
<1>16. ASSUME NEW t \in BOOLEAN, drained(t) PROVE Types' BY <1>16 DEF drained
<1>17. CASE serveReturns BY <1>17 DEF serveReturns
<1>18. ASSUME NEW b \in Bridges, deferredStop(b) PROVE Types' BY <1>18 DEF deferredStop, stopBridge
<1>19. CASE exit BY <1>19 DEF exit
<1>20. CASE caddyStops BY <1>20 DEF caddyStops
<1>21. CASE cleanupReturns BY <1>21 DEF cleanupReturns
<1>22. CASE UNCHANGED vars BY <1>22 DEF vars, bridgeVars
<1> QED BY <1>1, <1>2, <1>3, <1>4, <1>5, <1>6, <1>7, <1>8, <1>9, <1>10,
      <1>11, <1>12, <1>13, <1>14, <1>15, <1>16, <1>17, <1>18, <1>19, <1>20,
      <1>21, <1>22
      DEF Next, Boot, WayOut, Ended


(***************************************************************************)
(* ... and that stopped bridges stay detached.                             *)
(***************************************************************************)
LEMMA StepStoppedIsDetached ==
    ASSUME Inv, [Next]_vars PROVE StoppedIsDetached'
<1> USE DEF Inv, Types, bridgeVars, StoppedIsDetached, EndsStopped, Booting
<1>1. CASE scriptExits BY <1>1 DEF scriptExits
<1>2. CASE scriptKilled BY <1>2 DEF scriptKilled
<1>3. CASE clearEvents BY <1>3 DEF clearEvents
<1>4. ASSUME NEW t \in BOOLEAN, closeInitSocket(t) PROVE StoppedIsDetached' BY <1>4 DEF closeInitSocket
<1>5. CASE subscribe BY <1>5 DEF subscribe
<1>6. CASE listen BY <1>6 DEF listen
<1>7. CASE serve BY <1>7 DEF serve
<1>8. CASE serveFails BY <1>8 DEF serveFails
<1>9. ASSUME NEW r \in Requests, send(r) PROVE StoppedIsDetached' BY <1>9 DEF send
<1>10. ASSUME NEW r \in Requests, NEW b \in Bridges, handle(r, b) PROVE StoppedIsDetached' BY <1>10 DEF handle
<1>11. ASSUME NEW b \in Bridges, wake(b) PROVE StoppedIsDetached' BY <1>11 DEF wake
<1>12. ASSUME NEW b \in Bridges, commandExits(b) PROVE StoppedIsDetached' BY <1>12 DEF commandExits
<1>13. CASE sigterm BY <1>13 DEF sigterm
<1>14. ASSUME NEW b \in Bridges, stopSubscribers(b) PROVE StoppedIsDetached' BY <1>14 DEF stopSubscribers, stopBridge
<1>15. CASE shutdown BY <1>15 DEF shutdown
<1>16. ASSUME NEW t \in BOOLEAN, drained(t) PROVE StoppedIsDetached' BY <1>16 DEF drained
<1>17. CASE serveReturns BY <1>17 DEF serveReturns
<1>18. ASSUME NEW b \in Bridges, deferredStop(b) PROVE StoppedIsDetached' BY <1>18 DEF deferredStop, stopBridge
<1>19. CASE exit BY <1>19 DEF exit
<1>20. CASE caddyStops BY <1>20 DEF caddyStops
<1>21. CASE cleanupReturns BY <1>21 DEF cleanupReturns
<1>22. CASE UNCHANGED vars BY <1>22 DEF vars, bridgeVars
<1> QED BY <1>1, <1>2, <1>3, <1>4, <1>5, <1>6, <1>7, <1>8, <1>9, <1>10,
      <1>11, <1>12, <1>13, <1>14, <1>15, <1>16, <1>17, <1>18, <1>19, <1>20,
      <1>21, <1>22
      DEF Next, Boot, WayOut, Ended


(***************************************************************************)
(* ... and that the ends come after the stop.                              *)
(***************************************************************************)
LEMMA StepEndsStopped ==
    ASSUME Inv, [Next]_vars PROVE EndsStopped'
<1> USE DEF Inv, Types, bridgeVars, StoppedIsDetached, EndsStopped, Booting
<1>1. CASE scriptExits BY <1>1 DEF scriptExits
<1>2. CASE scriptKilled BY <1>2 DEF scriptKilled
<1>3. CASE clearEvents BY <1>3 DEF clearEvents
<1>4. ASSUME NEW t \in BOOLEAN, closeInitSocket(t) PROVE EndsStopped' BY <1>4 DEF closeInitSocket
<1>5. CASE subscribe BY <1>5 DEF subscribe
<1>6. CASE listen BY <1>6 DEF listen
<1>7. CASE serve BY <1>7 DEF serve
<1>8. CASE serveFails BY <1>8 DEF serveFails
<1>9. ASSUME NEW r \in Requests, send(r) PROVE EndsStopped' BY <1>9 DEF send
<1>10. ASSUME NEW r \in Requests, NEW b \in Bridges, handle(r, b) PROVE EndsStopped' BY <1>10 DEF handle
<1>11. ASSUME NEW b \in Bridges, wake(b) PROVE EndsStopped' BY <1>11 DEF wake
<1>12. ASSUME NEW b \in Bridges, commandExits(b) PROVE EndsStopped' BY <1>12 DEF commandExits
<1>13. CASE sigterm BY <1>13 DEF sigterm
<1>14. ASSUME NEW b \in Bridges, stopSubscribers(b) PROVE EndsStopped' BY <1>14 DEF stopSubscribers, stopBridge
<1>15. CASE shutdown BY <1>15 DEF shutdown
<1>16. ASSUME NEW t \in BOOLEAN, drained(t) PROVE EndsStopped' BY <1>16 DEF drained
<1>17. CASE serveReturns BY <1>17 DEF serveReturns
<1>18. ASSUME NEW b \in Bridges, deferredStop(b) PROVE EndsStopped' BY <1>18 DEF deferredStop, stopBridge
<1>19. CASE exit BY <1>19 DEF exit
<1>20. CASE caddyStops BY <1>20 DEF caddyStops
<1>21. CASE cleanupReturns BY <1>21 DEF cleanupReturns
<1>22. CASE UNCHANGED vars BY <1>22 DEF vars, bridgeVars
<1> QED BY <1>1, <1>2, <1>3, <1>4, <1>5, <1>6, <1>7, <1>8, <1>9, <1>10,
      <1>11, <1>12, <1>13, <1>14, <1>15, <1>16, <1>17, <1>18, <1>19, <1>20,
      <1>21, <1>22
      DEF Next, Boot, WayOut, Ended


(***************************************************************************)
(* ... and that a cleared _events stays empty until somebody listens.      *)
(***************************************************************************)
LEMMA StepClearedIsEmpty ==
    ASSUME Inv, [Next]_vars PROVE ClearedIsEmpty'
<1> USE DEF Inv, Types, bridgeVars, EndsStopped, ClearedIsEmpty, Booting, Requests
<1>1. CASE scriptExits BY <1>1 DEF scriptExits
<1>2. CASE scriptKilled BY <1>2 DEF scriptKilled
<1>3. CASE clearEvents BY <1>3 DEF clearEvents
<1>4. ASSUME NEW t \in BOOLEAN, closeInitSocket(t) PROVE ClearedIsEmpty' BY <1>4 DEF closeInitSocket
<1>5. CASE subscribe BY <1>5 DEF subscribe
<1>6. CASE listen BY <1>6 DEF listen
<1>7. CASE serve BY <1>7 DEF serve
<1>8. CASE serveFails BY <1>8 DEF serveFails
<1>9. ASSUME NEW r \in Requests, send(r) PROVE ClearedIsEmpty' BY <1>9 DEF send
<1>10. ASSUME NEW r \in Requests, NEW b \in Bridges, handle(r, b) PROVE ClearedIsEmpty' BY <1>10 DEF handle
<1>11. ASSUME NEW b \in Bridges, wake(b) PROVE ClearedIsEmpty' BY <1>11 DEF wake
<1>12. ASSUME NEW b \in Bridges, commandExits(b) PROVE ClearedIsEmpty' BY <1>12 DEF commandExits
<1>13. CASE sigterm BY <1>13 DEF sigterm
<1>14. ASSUME NEW b \in Bridges, stopSubscribers(b) PROVE ClearedIsEmpty' BY <1>14 DEF stopSubscribers, stopBridge
<1>15. CASE shutdown BY <1>15 DEF shutdown
<1>16. ASSUME NEW t \in BOOLEAN, drained(t) PROVE ClearedIsEmpty' BY <1>16 DEF drained
<1>17. CASE serveReturns BY <1>17 DEF serveReturns
<1>18. ASSUME NEW b \in Bridges, deferredStop(b) PROVE ClearedIsEmpty' BY <1>18 DEF deferredStop, stopBridge
<1>19. CASE exit BY <1>19 DEF exit
<1>20. CASE caddyStops BY <1>20 DEF caddyStops
<1>21. CASE cleanupReturns BY <1>21 DEF cleanupReturns
<1>22. CASE UNCHANGED vars BY <1>22 DEF vars, bridgeVars
<1> QED BY <1>1, <1>2, <1>3, <1>4, <1>5, <1>6, <1>7, <1>8, <1>9, <1>10,
      <1>11, <1>12, <1>13, <1>14, <1>15, <1>16, <1>17, <1>18, <1>19, <1>20,
      <1>21, <1>22
      DEF Next, Boot, WayOut, Ended


(***************************************************************************)
(* Inv holds throughout.                                                   *)
(***************************************************************************)
THEOREM LifecycleInvariance == Spec => []Inv
<1>1. Init => Inv
  BY LifecycleAssumption DEF Init, Inv, Types, Setup, StoppedIsDetached, EndsStopped, ClearedIsEmpty,
        Booting, Requests
<1>2. Inv /\ [Next]_vars => Inv'
  BY StepTypes, StepStoppedIsDetached, StepEndsStopped, StepClearedIsEmpty DEF Inv
<1> QED BY <1>1, <1>2, PTL DEF Spec

(***************************************************************************)
(* SignalStopsCommandsFirst: whatever main, the requests and hanging       *)
(* commands do, the binary's signal goroutine closes the listener only     *)
(* after every command, and none starts afterwards.  Nothing is claimed    *)
(* for a Serve that failed by itself, nor for a Caddy instance.            *)
(***************************************************************************)
THEOREM SignalAlwaysStopsCommandsFirst == Spec => []SignalStopsCommandsFirst
<1>1. Inv => SignalStopsCommandsFirst
  BY DEF Inv, Types, StoppedIsDetached, EndsStopped, SignalStopsCommandsFirst
<1> QED BY <1>1, LifecycleInvariance, PTL

(***************************************************************************)
(* NoCommandIsLeft: whenever main or Cleanup returns, all bridges were     *)
(* stopped.  A log.Fatal is no return and not covered.                     *)
(***************************************************************************)
THEOREM NoCommandIsEverLeft == Spec => []NoCommandIsLeft
<1>1. Inv => NoCommandIsLeft
  BY DEF Inv, Types, StoppedIsDetached, EndsStopped, NoCommandIsLeft
<1> QED BY <1>1, LifecycleInvariance, PTL

(***************************************************************************)
(* SubscribersStartEmpty: unless the init script was killed, nothing can   *)
(* write to _events between its clearing and the attaching of the bridges. *)
(***************************************************************************)
THEOREM SubscribersAlwaysStartEmpty == Spec => []SubscribersStartEmpty
<1>1. Inv => SubscribersStartEmpty BY DEF Inv, ClearedIsEmpty, SubscribersStartEmpty
<1> QED BY <1>1, LifecycleInvariance, PTL
=============================================================================
