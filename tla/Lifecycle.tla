------------------------------ MODULE Lifecycle ------------------------------
(***************************************************************************)
(* A server process from boot to exit: the init command behind a private   *)
(* socket, the clearing of _events, the subscribers, the public socket,    *)
(* the signal goroutine and main's own way out.  It is the standalone      *)
(* binary, or one Caddy module instance, whose listener is Caddy's: Caddy  *)
(* closes it and then calls Cleanup, the instance's end, while the process *)
(* and the handlers in it go on.  A request is a write that leaves one     *)
(* entry in a reserved scope; a handler outlives the client that sent it.  *)
(***************************************************************************)
EXTENDS Integers, FiniteSets

CONSTANTS
    Setups,         \* the configurations considered (Setup)
    InitReqs,       \* requests of the init command
    Clients,        \* requests of external clients
    Bridges         \* 1 is _events, 2 is _inbox: started upwards, stopped downwards

\* The binary, or a Caddy module; an init command is configured; it has a timeout.
Setup == [standalone : BOOLEAN, initCommand : BOOLEAN, initTimeout : BOOLEAN]

ASSUME LifecycleAssumption ==
    /\ Setups \subseteq Setup
    /\ 1 \in Bridges /\ Bridges \subseteq Nat /\ IsFiniteSet(Bridges)

VARIABLES
    setup,          \* fixed at start-up
    main,           \* where main (or Provision) is
    script,         \* the init command: "none", "running", "exited" or "killed"
    req,            \* request -> "none", "handling", "answered" or "cut"
    backlog,        \* _events has entries
    sub, slot, cmd, \* bridge -> attached; wake-up buffered; command running
    stopper, left,  \* where the signal goroutine is; bridges its stop has yet to stop
    server,         \* the public server: "new", "up", "closing" or "failed"
    signal,         \* SIGTERM has arrived, or Caddy is about to end the instance
    atSubscribe,    \* history: _events had entries when its bridge was attached
    graceOver       \* history: the 5 s of the public Shutdown have passed

bridgeVars == <<sub, slot, cmd>>
vars == <<setup, main, script, req, backlog, bridgeVars, stopper, left, server, signal,
          atSubscribe, graceOver>>

Requests == InitReqs \cup Clients
Gone == main \in {"stopped", "fatal"}
ProcessGone == Gone /\ setup.standalone

Init ==
    /\ setup \in Setups
    /\ main = IF setup.initCommand THEN "init" ELSE "subscribe"
    /\ script = IF setup.initCommand THEN "running" ELSE "none"
    /\ req = [r \in Requests |-> "none"]
    /\ backlog = FALSE
    /\ sub = [b \in Bridges |-> FALSE] /\ slot = [b \in Bridges |-> FALSE]
    /\ cmd = [b \in Bridges |-> FALSE]
    /\ stopper = "none" /\ left = Bridges
    /\ server = "new" /\ signal = FALSE /\ atSubscribe = FALSE /\ graceOver = FALSE

-----------------------------------------------------------------------------
(* Boot. *)

\* The script runs to its end: it has the answers to its requests.
scriptExits ==
    /\ script = "running" /\ \A r \in InitReqs : req[r] # "handling"
    /\ script' = "exited"
    /\ UNCHANGED <<setup, main, req, backlog, bridgeVars, stopper, left, server, signal,
                   atSubscribe, graceOver>>

\* Slip: the command is not bound to the signal's context.
Slip_scriptKilled ==
    /\ script = "running" /\ setup.initTimeout
    /\ script' = "killed"
    /\ UNCHANGED <<setup, main, req, backlog, bridgeVars, stopper, left, server, signal,
                   atSubscribe, graceOver>>

\* The signal or the timeout kills its process group; requests it has sent
\* are still being handled.
scriptKilled ==
    /\ script = "running" /\ (signal \/ setup.initTimeout)
    /\ script' = "killed"
    /\ UNCHANGED <<setup, main, req, backlog, bridgeVars, stopper, left, server, signal,
                   atSubscribe, graceOver>>

\* Slip: clears only when the script failed.
Slip_clearEvents ==
    /\ main = "init" /\ script \in {"exited", "killed"}
    /\ backlog' = (backlog /\ script # "killed") /\ main' = "closeInit"
    /\ UNCHANGED <<setup, script, req, bridgeVars, stopper, left, server, signal,
                   atSubscribe, graceOver>>

\* RunInitCommand's last step: DeleteUpTo(_events).
clearEvents ==
    /\ main = "init" /\ script \in {"exited", "killed"}
    /\ backlog' = FALSE /\ main' = "closeInit"
    /\ UNCHANGED <<setup, script, req, bridgeVars, stopper, left, server, signal,
                   atSubscribe, graceOver>>

\* server.Shutdown of the private socket: all handlers done, or 5 s over.
closeInitSocket(timedOut) ==
    /\ main = "closeInit"
    /\ timedOut \/ \A r \in InitReqs : req[r] # "handling"
    /\ main' = "subscribe"
    /\ UNCHANGED <<setup, script, req, backlog, bridgeVars, stopper, left, server, signal,
                   atSubscribe, graceOver>>

\* StartReservedSubscribers; Provision ends here.
subscribe ==
    /\ main = "subscribe"
    /\ sub' = [b \in Bridges |-> TRUE] /\ atSubscribe' = backlog
    /\ main' = IF setup.standalone THEN "listen" ELSE "serving"
    /\ UNCHANGED <<setup, script, req, backlog, slot, cmd, stopper, left, server, signal,
                   graceOver>>

\* listenUnixSocket, then the signal goroutine; or log.Fatal.
listen ==
    /\ main = "listen"
    /\ \/ main' = "serving" /\ stopper' = "wait"
       \/ main' = "fatal" /\ UNCHANGED stopper
    /\ UNCHANGED <<setup, script, req, backlog, bridgeVars, left, server, signal,
                   atSubscribe, graceOver>>

\* server.Serve, which may fail at any later time; or Caddy opens its listener.
serve ==
    /\ main = "serving" /\ server = "new"
    /\ server' = "up"
    /\ UNCHANGED <<setup, main, script, req, backlog, bridgeVars, stopper, left, signal,
                   atSubscribe, graceOver>>

serveFails ==
    /\ setup.standalone /\ server = "up"
    /\ server' = "failed"
    /\ UNCHANGED <<setup, main, script, req, backlog, bridgeVars, stopper, left, signal,
                   atSubscribe, graceOver>>

-----------------------------------------------------------------------------
(* Requests and commands. *)

send(r) ==
    /\ req[r] = "none"
    /\ IF r \in InitReqs THEN script = "running" ELSE server = "up"
    /\ req' = [req EXCEPT ![r] = "handling"]
    /\ UNCHANGED <<setup, main, script, backlog, bridgeVars, stopper, left, server, signal,
                   atSubscribe, graceOver>>

\* The write commits in scope b (the init command's are user scopes' events),
\* wakes the bridge and is answered.
handle(r, b) ==
    /\ req[r] = "handling" /\ ~ProcessGone
    /\ r \in InitReqs => b = 1
    /\ req' = [req EXCEPT ![r] = "answered"]
    /\ backlog' = (backlog \/ b = 1)
    /\ slot' = [slot EXCEPT ![b] = @ \/ sub[b]]
    /\ UNCHANGED <<setup, main, script, sub, cmd, stopper, left, server, signal,
                   atSubscribe, graceOver>>

\* A wake-up starts the command, unless its stop has cancelled the context.
wake(b) ==
    /\ sub[b] /\ slot[b] /\ ~cmd[b] /\ ~Gone
    /\ slot' = [slot EXCEPT ![b] = FALSE] /\ cmd' = [cmd EXCEPT ![b] = TRUE]
    /\ UNCHANGED <<setup, main, script, req, backlog, sub, stopper, left, server, signal,
                   atSubscribe, graceOver>>

\* It drains its scope and exits; it may also hang for ever.
commandExits(b) ==
    /\ cmd[b]
    /\ cmd' = [cmd EXCEPT ![b] = FALSE]
    /\ backlog' = (backlog /\ ~(b = 1 /\ server = "up"))
    /\ UNCHANGED <<setup, main, script, req, sub, slot, stopper, left, server, signal,
                   atSubscribe, graceOver>>

-----------------------------------------------------------------------------
(* The way out. *)

sigterm ==
    /\ ~signal /\ ~Gone
    /\ signal' = TRUE
    /\ UNCHANGED <<setup, main, script, req, backlog, bridgeVars, stopper, left, server,
                   atSubscribe, graceOver>>

\* stopSubscribers stops one bridge: cancel, unsubscribe, kill, wait.
stopBridge(b) ==
    /\ b \in left /\ \A d \in left : d <= b
    /\ left' = left \ {b}
    /\ sub' = [sub EXCEPT ![b] = FALSE] /\ slot' = [slot EXCEPT ![b] = FALSE]
    /\ cmd' = [cmd EXCEPT ![b] = FALSE]

\* Caddy closes its listener, and calls Cleanup some time later whether or not
\* the handlers are done.
caddyStops ==
    /\ ~setup.standalone /\ main = "serving" /\ signal /\ server # "closing"
    /\ server' = "closing"
    /\ UNCHANGED <<setup, main, script, req, backlog, bridgeVars, stopper, left, signal,
                   atSubscribe, graceOver>>

\* stopSubscribers, called by the signal goroutine or by Cleanup.
stopSubscribers(b) ==
    /\ signal /\ ~Gone
    /\ IF setup.standalone THEN stopper = "wait" ELSE main = "serving" /\ server = "closing"
    /\ stopBridge(b)
    /\ UNCHANGED <<setup, main, script, req, backlog, stopper, server, signal,
                   atSubscribe, graceOver>>

\* Slip: shuts the server down first.
Slip_shutdown ==
    /\ setup.standalone /\ stopper = "wait" /\ signal /\ ~Gone
    /\ stopper' = "drain"
    /\ server' = IF server = "failed" THEN server ELSE "closing"
    /\ UNCHANGED <<setup, main, script, req, backlog, bridgeVars, left, signal,
                   atSubscribe, graceOver>>

\* ... then server.Shutdown closes the listener and waits for the handlers.
shutdown ==
    /\ setup.standalone /\ stopper = "wait" /\ signal /\ left = {} /\ ~Gone
    /\ stopper' = "drain"
    /\ server' = IF server = "failed" THEN server ELSE "closing"
    /\ UNCHANGED <<setup, main, script, req, backlog, bridgeVars, left, signal,
                   atSubscribe, graceOver>>

drained(timedOut) ==
    /\ stopper = "drain" /\ ~Gone
    /\ timedOut \/ \A r \in Clients : req[r] # "handling"
    /\ stopper' = "done" /\ graceOver' = timedOut
    /\ UNCHANGED <<setup, main, script, req, backlog, bridgeVars, left, server, signal,
                   atSubscribe>>

\* Serve returns as soon as the listener is closed: main closes the socket ...
serveReturns ==
    /\ setup.standalone /\ main = "serving" /\ server \in {"closing", "failed"}
    /\ main' = "deferred"
    /\ UNCHANGED <<setup, script, req, backlog, bridgeVars, stopper, left, server, signal,
                   atSubscribe, graceOver>>

deferredStop(b) ==
    /\ main = "deferred"
    /\ stopBridge(b)
    /\ UNCHANGED <<setup, main, script, req, backlog, stopper, server, signal,
                   atSubscribe, graceOver>>

\* Slip: relies on the signal goroutine to have stopped the subscribers.
Slip_exit ==
    /\ main = "deferred"
    /\ main' = "stopped"
    /\ req' = [r \in Requests |-> IF req[r] = "handling" THEN "cut" ELSE req[r]]
    /\ UNCHANGED <<setup, script, backlog, bridgeVars, stopper, left, server, signal,
                   atSubscribe, graceOver>>

\* ... and returns when the deferred stopSubscribers has: the process ends with
\* the handlers still running.
exit ==
    /\ main = "deferred" /\ left = {}
    /\ main' = "stopped"
    /\ req' = [r \in Requests |-> IF req[r] = "handling" THEN "cut" ELSE req[r]]
    /\ UNCHANGED <<setup, script, backlog, bridgeVars, stopper, left, server, signal,
                   atSubscribe, graceOver>>

\* Cleanup returns when stopSubscribers has; it cuts nothing.
cleanupReturns ==
    /\ ~setup.standalone /\ main = "serving" /\ server = "closing" /\ left = {}
    /\ main' = "stopped"
    /\ UNCHANGED <<setup, script, req, backlog, bridgeVars, stopper, left, server, signal,
                   atSubscribe, graceOver>>

-----------------------------------------------------------------------------

Boot == clearEvents \/ (\E t \in BOOLEAN : closeInitSocket(t)) \/ subscribe \/ listen \/ serve
WayOut ==
    \/ shutdown \/ (\E t \in BOOLEAN : drained(t)) \/ serveReturns \/ exit
    \/ caddyStops \/ cleanupReturns
    \/ \E b \in Bridges : stopSubscribers(b) \/ deferredStop(b)

Ended == Gone /\ UNCHANGED vars

Next ==
    \/ Boot \/ WayOut
    \/ scriptExits \/ scriptKilled \/ serveFails \/ sigterm
    \/ \E r \in Requests : send(r) \/ \E b \in Bridges : handle(r, b)
    \/ \E b \in Bridges : wake(b) \/ commandExits(b)
    \/ Ended

Spec == Init /\ [][Next]_vars

\* main and the signal goroutine are scheduled, timeouts expire, kills are
\* delivered, and Caddy ends an instance it is about to end.  No handler, no
\* command and no init script need ever end.
FairSpec == Spec /\ WF_vars(Boot) /\ WF_vars(WayOut) /\ WF_vars(scriptKilled)

-----------------------------------------------------------------------------
(* Properties. *)

\* In the standalone binary no command is running once the signal goroutine has
\* closed the listener, and none is started by a request that commits during the
\* drain: StartSubscriber's ordering.  It is about a shutdown by signal; when
\* Serve has failed, and in Caddy, commands do meet a closed listener.
SignalStopsCommandsFirst ==
    setup.standalone /\ server = "closing" => \A b \in Bridges : ~cmd[b]

\* When main returns, after a signal, a failed Serve or both, and when Cleanup
\* returns, no command is left running and no bridge attached.  (log.Fatal
\* returns from nothing and runs no deferred stop.)
NoCommandIsLeft == main = "stopped" => \A b \in Bridges : ~cmd[b] /\ ~sub[b]

\* A signal ends the process, or the instance, even with a hanging init script, hanging
\* commands and hanging requests, at whatever stage it arrives.
SignalEnds == signal ~> Gone

\* main.go and RFC 7.7: Shutdown drains the requests in flight, for as long as
\* the grace period allows.  (Of the standalone binary: Cleanup cuts nothing.)
ShutdownDrains ==
    signal /\ server # "failed" => \A r \in Clients : req[r] = "cut" => graceOver

\* main.go, module.go, init_command.go: subscribers register against an empty
\* stream.  That holds when the init script ran to its end; when it was killed,
\* a request of its may commit after the clearing.
SubscribersStartEmpty == atSubscribe => script = "killed"
=============================================================================
