----------------------------- MODULE CounterCell -----------------------------
(***************************************************************************)
(* The cell of one counter under concurrent counter_add and reads, at the  *)
(* grain of its atomic instructions.  All callers hold the scope's read    *)
(* lock, so nothing orders them but the instructions themselves: a load    *)
(* and a compare-and-swap of the value, the clock, a load and a            *)
(* compare-and-swap of the timestamp.  A reader loads the value and then   *)
(* the timestamp.                                                          *)
(***************************************************************************)
EXTENDS Integers

CONSTANTS
    Procs,            \* callers of counter_add
    Readers,          \* callers of /get, /head, /tail
    MaxCounterValue,
    Amounts,          \* the `by` of the calls; also the first value
    Overflow,         \* the reply CounterOverflowError
    MaxCalls,         \* bound: calls and reads in all
    MaxClock          \* bound: the last microsecond

ASSUME CellAssumption ==
    /\ MaxCounterValue \in Nat /\ MaxClock \in Nat /\ MaxCalls \in Nat
    /\ Amounts \subseteq Int /\ Amounts # {}
    /\ \A n \in Amounts : n <= MaxCounterValue /\ n >= -MaxCounterValue
    /\ Overflow \notin Int

VARIABLES
    value, ts,        \* the cell
    clock,
    pc,               \* where a caller is in atomicCounterAdd
    by, cur, nowUs, curTs,   \* its locals
    reply,
    rpc, got, gotTs,  \* where a reader is, and what it has loaded
    calls,
    total,            \* history: first value plus the acknowledged amounts
    returned, floor   \* history: newest stamp of a returned call; the same when a read began

callVars == <<pc, by, cur, nowUs, curTs, reply>>
readVars == <<rpc, got, gotTs, floor>>
vars == <<value, ts, clock, callVars, readVars, calls, total, returned>>

\* Slip: refuses the bounds themselves.
Slip_InRange(n) == n < MaxCounterValue /\ n > -MaxCounterValue

InRange(n) == n <= MaxCounterValue /\ n >= -MaxCounterValue
Later(m, n) == IF m > n THEN m ELSE n

\* counterAddSlow has installed the cell.
Init ==
    /\ value \in Amounts /\ total = value
    /\ ts = 0 /\ clock = 0 /\ calls = 0 /\ returned = 0
    /\ pc = [p \in Procs |-> "idle"] /\ by \in [Procs -> Amounts]
    /\ cur = [p \in Procs |-> 0] /\ nowUs = [p \in Procs |-> 0] /\ curTs = [p \in Procs |-> 0]
    /\ reply = [p \in Procs |-> Overflow]
    /\ rpc = [r \in Readers |-> "idle"] /\ floor = [r \in Readers |-> 0]
    /\ got = [r \in Readers |-> value] /\ gotTs = [r \in Readers |-> 0]

Goto(p, label) == pc' = [pc EXCEPT ![p] = label]

call(p) ==
    /\ pc[p] = "idle" /\ calls < MaxCalls
    /\ calls' = calls + 1
    /\ \E n \in Amounts : by' = [by EXCEPT ![p] = n]
    /\ Goto(p, "load")
    /\ UNCHANGED <<value, ts, clock, cur, nowUs, curTs, reply, readVars, total, returned>>

\* cur := value.Load(); leave when the sum is out of range.
loadValue(p) ==
    /\ pc[p] = "load"
    /\ cur' = [cur EXCEPT ![p] = value]
    /\ IF InRange(value + by[p])
       THEN Goto(p, "cas") /\ UNCHANGED reply
       ELSE Goto(p, "return") /\ reply' = [reply EXCEPT ![p] = Overflow]
    /\ UNCHANGED <<value, ts, clock, by, nowUs, curTs, readVars, calls, total, returned>>

\* Slip: stores the sum without comparing.
Slip_casValue(p) ==
    /\ pc[p] = "cas"
    /\ value' = cur[p] + by[p] /\ total' = total + by[p]
    /\ reply' = [reply EXCEPT ![p] = cur[p] + by[p]]
    /\ Goto(p, "now")
    /\ UNCHANGED <<ts, clock, by, cur, nowUs, curTs, readVars, calls, returned>>

casValue(p) ==
    /\ pc[p] = "cas"
    /\ IF value = cur[p]
       THEN /\ value' = cur[p] + by[p] /\ total' = total + by[p]
            /\ reply' = [reply EXCEPT ![p] = cur[p] + by[p]]
            /\ Goto(p, "now")
       ELSE Goto(p, "load") /\ UNCHANGED <<value, total, reply>>
    /\ UNCHANGED <<ts, clock, by, cur, nowUs, curTs, readVars, calls, returned>>

readClock(p) ==
    /\ pc[p] = "now"
    /\ nowUs' = [nowUs EXCEPT ![p] = clock]
    /\ Goto(p, "loadTs")
    /\ UNCHANGED <<value, ts, clock, by, cur, curTs, reply, readVars, calls, total, returned>>

loadTs(p) ==
    /\ pc[p] = "loadTs"
    /\ curTs' = [curTs EXCEPT ![p] = ts]
    /\ Goto(p, IF nowUs[p] <= ts THEN "return" ELSE "casTs")
    /\ UNCHANGED <<value, ts, clock, by, cur, nowUs, reply, readVars, calls, total, returned>>

\* Slip: gives up when the stamp has changed since it was loaded.
Slip_casTs(p) ==
    /\ pc[p] = "casTs"
    /\ ts' = IF ts = curTs[p] THEN nowUs[p] ELSE ts
    /\ Goto(p, "return")
    /\ UNCHANGED <<value, clock, by, cur, nowUs, curTs, reply, readVars, calls, total, returned>>

\* Slip: stores the stamp without comparing.
Slip_storeTs(p) ==
    /\ pc[p] = "casTs"
    /\ ts' = nowUs[p]
    /\ Goto(p, "return")
    /\ UNCHANGED <<value, clock, by, cur, nowUs, curTs, reply, readVars, calls, total, returned>>

\* Slip: compares again without loading the stamp again.
Slip_spinTs(p) ==
    /\ pc[p] = "casTs"
    /\ IF ts = curTs[p]
       THEN ts' = nowUs[p] /\ Goto(p, "return")
       ELSE UNCHANGED <<pc, ts>>
    /\ UNCHANGED <<value, clock, by, cur, nowUs, curTs, reply, readVars, calls, total, returned>>

casTs(p) ==
    /\ pc[p] = "casTs"
    /\ IF ts = curTs[p]
       THEN ts' = nowUs[p] /\ Goto(p, "return")
       ELSE Goto(p, "loadTs") /\ UNCHANGED ts
    /\ UNCHANGED <<value, clock, by, cur, nowUs, curTs, reply, readVars, calls, total, returned>>

return(p) ==
    /\ pc[p] = "return"
    /\ returned' = IF reply[p] = Overflow THEN returned ELSE Later(returned, nowUs[p])
    /\ Goto(p, "idle")
    /\ UNCHANGED <<value, ts, clock, by, cur, nowUs, curTs, reply, readVars, calls, total>>

-----------------------------------------------------------------------------

\* materialiseCounter: renderCounterPayload loads the value ...
renderCounterPayload(r) ==
    /\ rpc[r] = "idle" /\ calls < MaxCalls
    /\ calls' = calls + 1
    /\ got' = [got EXCEPT ![r] = value] /\ floor' = [floor EXCEPT ![r] = returned]
    /\ rpc' = [rpc EXCEPT ![r] = "ts"]
    /\ UNCHANGED <<value, ts, clock, callVars, gotTs, total, returned>>

\* ... and then the stamp is loaded.
readTs(r) ==
    /\ rpc[r] = "ts"
    /\ gotTs' = [gotTs EXCEPT ![r] = ts]
    /\ rpc' = [rpc EXCEPT ![r] = "idle"]
    /\ UNCHANGED <<value, ts, clock, callVars, got, floor, calls, total, returned>>

tick ==
    /\ clock < MaxClock
    /\ clock' = clock + 1
    /\ UNCHANGED <<value, ts, callVars, readVars, calls, total, returned>>

Finished ==
    /\ calls = MaxCalls
    /\ \A p \in Procs : pc[p] = "idle"
    /\ \A r \in Readers : rpc[r] = "idle"
    /\ UNCHANGED vars

atomicCounterAdd(p) ==
    loadValue(p) \/ casValue(p) \/ readClock(p) \/ loadTs(p) \/ casTs(p) \/ return(p)

Next ==
    \/ \E p \in Procs : call(p) \/ atomicCounterAdd(p)
    \/ \E r \in Readers : renderCounterPayload(r) \/ readTs(r)
    \/ tick
    \/ Finished

Spec == Init /\ [][Next]_vars

\* Every caller is scheduled; the compare-and-swap loops have no other help.
FairSpec == Spec /\ \A p \in Procs : WF_vars(atomicCounterAdd(p))

-----------------------------------------------------------------------------
(* Properties. *)

TypeOK ==
    /\ value \in Int /\ clock \in Nat /\ ts \in 0..clock /\ calls \in Nat
    /\ pc \in [Procs -> {"idle", "load", "cas", "now", "loadTs", "casTs", "return"}]
    /\ by \in [Procs -> Amounts] /\ cur \in [Procs -> Int]
    /\ nowUs \in [Procs -> 0..clock] /\ curTs \in [Procs -> Nat]
    /\ reply \in [Procs -> Int \cup {Overflow}]
    /\ rpc \in [Readers -> {"idle", "ts"}] /\ got \in [Readers -> Int]
    /\ gotTs \in [Readers -> Nat] /\ floor \in [Readers -> Nat]
    /\ total \in Int /\ returned \in Nat

\* No value out of range is ever published, not even to a reader that loads it
\* between two instructions of a call (atomicCounterAdd's reason for the loop).
NeverOutOfRange == InRange(value) /\ \A r \in Readers : InRange(got[r])

\* No increment is lost or counted twice: the value is the first value plus
\* every amount whose compare-and-swap succeeded.
EveryAddCounts == value = total

\* The stamp never moves back, whichever clock reading arrives last.
TsNeverMovesBack == [][ts' >= ts]_ts

\* A read that begins after a counter_add has returned reports a stamp at
\* least as new as that call's (item.ts is the counter's last activity).
ReadsCoverReturnedAdds == \A r \in Readers : rpc[r] = "idle" => gotTs[r] >= floor[r]

\* counter_add is atomic: the detailed calls implement AtomicCounter.
Atomic ==
    INSTANCE AtomicCounter WITH
        arg <- by,
        phase <- [p \in Procs |-> CASE pc[p] = "idle" -> "idle"
                                    [] pc[p] \in {"load", "cas"} -> "called"
                                    [] OTHER -> "done"]

ImplementsAtomicCounter == Atomic!Spec

\* The loops end: every call returns.
CallsReturn == \A p \in Procs : (pc[p] # "idle") ~> (pc[p] = "idle")
=============================================================================
