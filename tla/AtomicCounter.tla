---------------------------- MODULE AtomicCounter ----------------------------
(***************************************************************************)
(* What counter_add promises on a counter that exists: the addition takes  *)
(* effect at one instant of the call, or the call reports an overflow that *)
(* was real at one instant of the call.                                    *)
(***************************************************************************)
EXTENDS Integers

CONSTANTS Procs, MaxCounterValue, Amounts, Overflow

VARIABLES value, phase, arg, reply

vars == <<value, phase, arg, reply>>

InRange(n) == n <= MaxCounterValue /\ n >= -MaxCounterValue

Init ==
    /\ value \in Amounts
    /\ phase = [p \in Procs |-> "idle"]
    /\ arg \in [Procs -> Amounts]
    /\ reply = [p \in Procs |-> Overflow]

Call(p) ==
    /\ phase[p] = "idle"
    /\ phase' = [phase EXCEPT ![p] = "called"]
    /\ \E n \in Amounts : arg' = [arg EXCEPT ![p] = n]
    /\ UNCHANGED <<value, reply>>

Add(p) ==
    /\ phase[p] = "called" /\ InRange(value + arg[p])
    /\ value' = value + arg[p]
    /\ reply' = [reply EXCEPT ![p] = value + arg[p]]
    /\ phase' = [phase EXCEPT ![p] = "done"]
    /\ UNCHANGED arg

Refuse(p) ==
    /\ phase[p] = "called" /\ ~InRange(value + arg[p])
    /\ reply' = [reply EXCEPT ![p] = Overflow]
    /\ phase' = [phase EXCEPT ![p] = "done"]
    /\ UNCHANGED <<value, arg>>

Return(p) ==
    /\ phase[p] = "done"
    /\ phase' = [phase EXCEPT ![p] = "idle"]
    /\ UNCHANGED <<value, arg, reply>>

Next == \E p \in Procs : Call(p) \/ Add(p) \/ Refuse(p) \/ Return(p)

Spec == Init /\ [][Next]_vars
=============================================================================
