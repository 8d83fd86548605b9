------------------------------ MODULE CellProofs ------------------------------
(***************************************************************************)
(* Proofs about one counter cell: the invariants of its two lock-free      *)
(* loops, for any number of callers and readers, and that they implement   *)
(* an atomic addition.                                                     *)
(***************************************************************************)
EXTENDS CounterCell, TLAPS

\* A caller past its range check adds within the range; one about to swap the
\* stamp has a newer one; one that returns successfully is covered by the stamp.
LocalsMeanIt ==
    \A p \in Procs :
        /\ pc[p] = "cas" => InRange(cur[p] + by[p])
        /\ pc[p] = "casTs" => curTs[p] < nowUs[p]
        /\ pc[p] = "return" /\ reply[p] # Overflow => nowUs[p] <= ts

\* The stamp covers every call that returned, and so whatever a read can load.
StampCovers ==
    /\ returned <= ts
    /\ \A r \in Readers : floor[r] <= ts

Inv ==
    /\ TypeOK
    /\ NeverOutOfRange
    /\ EveryAddCounts
    /\ ReadsCoverReturnedAdds
    /\ LocalsMeanIt
    /\ StampCovers

LEMMA InitInv == Init => Inv
<1> SUFFICES ASSUME Init PROVE Inv
  OBVIOUS
<1> USE CellAssumption DEF Init
<1>1. TypeOK
  BY DEF TypeOK
<1>2. NeverOutOfRange
  BY DEF NeverOutOfRange, InRange
<1>3. EveryAddCounts /\ ReadsCoverReturnedAdds
  BY DEF EveryAddCounts, ReadsCoverReturnedAdds
<1>4. LocalsMeanIt /\ StampCovers
  BY DEF LocalsMeanIt, StampCovers
<1> QED
  BY <1>1, <1>2, <1>3, <1>4 DEF Inv

\* Every step of a caller, of a reader and of the clock keeps the types.
LEMMA TypeStep ==
    ASSUME TypeOK, Next
    PROVE  TypeOK'
<1> USE CellAssumption DEF TypeOK, Goto
<1>1. ASSUME NEW p \in Procs, call(p) PROVE TypeOK'
  BY <1>1 DEF call, readVars
<1>2. ASSUME NEW p \in Procs, loadValue(p) PROVE TypeOK'
  BY <1>2 DEF loadValue, readVars
<1>3. ASSUME NEW p \in Procs, casValue(p) PROVE TypeOK'
  <2>0. by[p] \in Int /\ cur[p] \in Int /\ total \in Int
    <3>1. by[p] \in Amounts
      OBVIOUS
    <3> QED
      BY <3>1
  <2>1. cur[p] + by[p] \in Int /\ total + by[p] \in Int
    BY <2>0
  <2>2. CASE value = cur[p]
    BY <1>3, <2>1, <2>2 DEF casValue, readVars
  <2>3. CASE value # cur[p]
    BY <1>3, <2>3 DEF casValue, readVars
  <2> QED
    BY <2>2, <2>3
<1>4. ASSUME NEW p \in Procs, readClock(p) PROVE TypeOK'
  BY <1>4 DEF readClock, readVars
<1>5. ASSUME NEW p \in Procs, loadTs(p) PROVE TypeOK'
  BY <1>5 DEF loadTs, readVars
<1>6. ASSUME NEW p \in Procs, casTs(p) PROVE TypeOK'
  BY <1>6 DEF casTs, readVars
<1>7. ASSUME NEW p \in Procs, return(p) PROVE TypeOK'
  BY <1>7 DEF return, readVars, Later
<1>8. ASSUME NEW r \in Readers, renderCounterPayload(r) \/ readTs(r) PROVE TypeOK'
  BY <1>8 DEF renderCounterPayload, readTs, callVars
<1>9. CASE tick
  BY <1>9 DEF tick, callVars, readVars
<1>10. CASE Finished
  BY <1>10 DEF Finished, vars, callVars, readVars
<1> QED
  BY <1>1, <1>2, <1>3, <1>4, <1>5, <1>6, <1>7, <1>8, <1>9, <1>10
  DEF Next, atomicCounterAdd

\* Only a successful compare-and-swap changes the value, by what it was asked
\* to add, and within the range.
LEMMA ValueStep ==
    ASSUME Inv, Next
    PROVE  NeverOutOfRange' /\ EveryAddCounts'
<1> USE CellAssumption
<1>0. TypeOK /\ NeverOutOfRange /\ EveryAddCounts /\ LocalsMeanIt
  BY DEF Inv
<1>1. ASSUME NEW p \in Procs, casValue(p) PROVE NeverOutOfRange' /\ EveryAddCounts'
  <2>1. CASE value = cur[p]
    <3>1. InRange(cur[p] + by[p])
      BY <1>0, <1>1 DEF casValue, LocalsMeanIt
    <3>2. value' = cur[p] + by[p] /\ total' = total + by[p] /\ got' = got
      BY <1>1, <2>1 DEF casValue, readVars
    <3> QED
      BY <1>0, <2>1, <3>1, <3>2 DEF NeverOutOfRange, EveryAddCounts, InRange, TypeOK
  <2>2. CASE value # cur[p]
    BY <1>0, <1>1, <2>2 DEF casValue, readVars, NeverOutOfRange, EveryAddCounts, InRange
  <2> QED
    BY <2>1, <2>2
<1>2. ASSUME NEW r \in Readers, renderCounterPayload(r)
      PROVE  NeverOutOfRange' /\ EveryAddCounts'
  BY <1>0, <1>2 DEF renderCounterPayload, NeverOutOfRange, EveryAddCounts, InRange, TypeOK
<1>3. CASE value' = value /\ total' = total /\ got' = got
  BY <1>0, <1>3 DEF NeverOutOfRange, EveryAddCounts, InRange
<1> QED
  BY <1>1, <1>2, <1>3 DEF Next, atomicCounterAdd, call, loadValue, readClock, loadTs, casTs,
     return, readTs, tick, Finished, vars, callVars, readVars

\* The stamp only grows: a swap succeeds from the stamp that was compared.
LEMMA TsStep ==
    ASSUME Inv, Next
    PROVE  ts' >= ts
<1> USE CellAssumption
<1>1. ASSUME NEW p \in Procs, casTs(p) PROVE ts' >= ts
  BY <1>1 DEF casTs, Inv, LocalsMeanIt, TypeOK
<1>2. CASE ts' = ts
  BY <1>2 DEF Inv, TypeOK
<1> QED
  BY <1>1, <1>2 DEF Next, atomicCounterAdd, call, loadValue, casValue, readClock, loadTs,
     return, renderCounterPayload, readTs, tick, Finished, vars, callVars, readVars

LEMMA LocalsStep ==
    ASSUME Inv, Next
    PROVE  LocalsMeanIt'
<1> USE CellAssumption DEF Goto
<1>0. TypeOK /\ LocalsMeanIt /\ TypeOK' /\ ts' >= ts
  BY TypeStep, TsStep DEF Inv
<1>1. ASSUME NEW p \in Procs, call(p) PROVE LocalsMeanIt'
  BY <1>0, <1>1 DEF call, LocalsMeanIt, TypeOK
<1>2. ASSUME NEW p \in Procs, loadValue(p) PROVE LocalsMeanIt'
  <2>1. InRange(value + by[p]) => LocalsMeanIt'
    BY <1>0, <1>2 DEF loadValue, LocalsMeanIt, TypeOK
  <2>2. ~InRange(value + by[p]) => LocalsMeanIt'
    BY <1>0, <1>2 DEF loadValue, LocalsMeanIt, TypeOK
  <2> QED
    BY <2>1, <2>2
<1>3. ASSUME NEW p \in Procs, casValue(p) PROVE LocalsMeanIt'
  BY <1>0, <1>3 DEF casValue, LocalsMeanIt, TypeOK
<1>4. ASSUME NEW p \in Procs, readClock(p) PROVE LocalsMeanIt'
  BY <1>0, <1>4 DEF readClock, LocalsMeanIt, TypeOK
<1>5. ASSUME NEW p \in Procs, loadTs(p) PROVE LocalsMeanIt'
  BY <1>0, <1>5 DEF loadTs, LocalsMeanIt, TypeOK
<1>6. ASSUME NEW p \in Procs, casTs(p) PROVE LocalsMeanIt'
  BY <1>0, <1>6 DEF casTs, LocalsMeanIt, TypeOK
<1>7. ASSUME NEW p \in Procs, return(p) PROVE LocalsMeanIt'
  BY <1>0, <1>7 DEF return, LocalsMeanIt, TypeOK
<1>8. CASE UNCHANGED <<callVars, ts>>
  BY <1>0, <1>8 DEF callVars, LocalsMeanIt, InRange
<1> QED
  BY <1>1, <1>2, <1>3, <1>4, <1>5, <1>6, <1>7, <1>8 DEF Next, atomicCounterAdd,
     renderCounterPayload, readTs, tick, Finished, vars, callVars, readVars

\* A call returns only once the stamp covers it, and a read keeps the bound it
\* began with until it loads the stamp.
LEMMA CoverStep ==
    ASSUME Inv, Next
    PROVE  StampCovers' /\ ReadsCoverReturnedAdds'
<1> USE CellAssumption DEF StampCovers, ReadsCoverReturnedAdds
<1>0. TypeOK /\ LocalsMeanIt /\ StampCovers /\ ReadsCoverReturnedAdds /\ ts' >= ts
      /\ TypeOK'
  BY TypeStep, TsStep DEF Inv
<1>1. ASSUME NEW p \in Procs, return(p) PROVE StampCovers' /\ ReadsCoverReturnedAdds'
  BY <1>0, <1>1 DEF return, readVars, Later, LocalsMeanIt, TypeOK
<1>2. ASSUME NEW r \in Readers, renderCounterPayload(r)
      PROVE  StampCovers' /\ ReadsCoverReturnedAdds'
  BY <1>0, <1>2 DEF renderCounterPayload, TypeOK
<1>3. ASSUME NEW r \in Readers, readTs(r) PROVE StampCovers' /\ ReadsCoverReturnedAdds'
  BY <1>0, <1>3 DEF readTs, TypeOK
<1>4. CASE UNCHANGED <<readVars, returned>>
  BY <1>0, <1>4 DEF readVars, TypeOK
<1> QED
  BY <1>1, <1>2, <1>3, <1>4 DEF Next, atomicCounterAdd, call, loadValue, casValue, readClock,
     loadTs, casTs, tick, Finished, vars, callVars, readVars

\* Inv is inductive.
THEOREM CellInvariance == Spec => []Inv
<1>1. Init => Inv
  BY InitInv
<1>2. Inv /\ [Next]_vars => Inv'
  <2> SUFFICES ASSUME Inv, [Next]_vars PROVE Inv'
    OBVIOUS
  <2>1. CASE Next
    BY <2>1, TypeStep, ValueStep, LocalsStep, CoverStep DEF Inv
  <2>2. CASE UNCHANGED vars
    BY <2>2 DEF vars, callVars, readVars, Inv, TypeOK, NeverOutOfRange, EveryAddCounts,
       ReadsCoverReturnedAdds, LocalsMeanIt, StampCovers, InRange
  <2> QED
    BY <2>1, <2>2
<1> QED
  BY <1>1, <1>2, PTL DEF Spec

\* A published value is never out of range (atomicCounterAdd's first loop).
THEOREM CellNeverOutOfRange == Spec => []NeverOutOfRange
BY CellInvariance, PTL DEF Inv

\* Every acknowledged increment is in the value, once.
THEOREM CellEveryAddCounts == Spec => []EveryAddCounts
BY CellInvariance, PTL DEF Inv

\* A read reports a stamp as new as any call that had returned.
THEOREM CellReadsCover == Spec => []ReadsCoverReturnedAdds
BY CellInvariance, PTL DEF Inv

\* The types of the cell's state.
THEOREM CellTypeCorrect == Spec => []TypeOK
BY CellInvariance, PTL DEF Inv

\* The stamp never moves back (atomicCounterAdd's second loop).
THEOREM CellTsNeverMovesBack == Spec => TsNeverMovesBack
<1>1. Inv /\ [Next]_vars => [ts' >= ts]_ts
  BY TsStep DEF vars
<1> QED
  BY <1>1, CellInvariance, PTL DEF Spec, TsNeverMovesBack

-----------------------------------------------------------------------------
(* Refinement: the successful swap, or the load that finds an overflow, is *)
(* the instant the abstract addition takes effect.                         *)

\* phase of AtomicCounter.
Phase == [p \in Procs |-> CASE pc[p] = "idle" -> "idle"
                            [] pc[p] \in {"load", "cas"} -> "called"
                            [] OTHER -> "done"]

\* A step that moves one caller between two labels of the same phase, or none.
LEMMA PhaseStep ==
    ASSUME TypeOK, NEW p \in Procs,
           NEW label \in {"idle", "load", "cas", "now", "loadTs", "casTs", "return"},
           Goto(p, label)
    PROVE  Phase' = [Phase EXCEPT ![p] = IF label = "idle" THEN "idle"
                                         ELSE IF label \in {"load", "cas"} THEN "called"
                                         ELSE "done"]
BY DEF TypeOK, Goto, Phase

LEMMA PhaseSame ==
    ASSUME TypeOK, NEW p \in Procs,
           NEW label \in {"load", "cas", "now", "loadTs", "casTs", "return"},
           Goto(p, label), pc[p] # "idle",
           pc[p] \in {"load", "cas"} <=> label \in {"load", "cas"}
    PROVE  Phase' = Phase
<1>1. Phase' = [Phase EXCEPT ![p] = Phase[p]]
  <2>1. Phase[p] = IF label \in {"load", "cas"} THEN "called" ELSE "done"
    BY DEF Phase
  <2> QED
    BY <2>1, PhaseStep
<1> QED
  BY <1>1 DEF Phase

\* Each instruction is an abstract step or a stutter.
LEMMA RefinementStep ==
    ASSUME Inv, Next
    PROVE  Atomic!Next \/ UNCHANGED <<value, Phase, by, reply>>
<1> DEFINE Stutter == UNCHANGED <<value, Phase, by, reply>>
<1>0. TypeOK /\ LocalsMeanIt
  BY DEF Inv
<1>1. ASSUME NEW p \in Procs, call(p) PROVE Atomic!Call(p)
  BY <1>0, <1>1, PhaseStep DEF call, TypeOK, Phase, Atomic!Call
<1>2. ASSUME NEW p \in Procs, loadValue(p) PROVE Atomic!Refuse(p) \/ Stutter
  <2>1. CASE InRange(value + by[p])
    BY <1>0, <1>2, <2>1, PhaseSame DEF loadValue
  <2>2. CASE ~InRange(value + by[p])
    BY <1>0, <1>2, <2>2, PhaseStep DEF loadValue, TypeOK, Phase, InRange,
       Atomic!Refuse, Atomic!InRange
  <2> QED
    BY <2>1, <2>2
<1>3. ASSUME NEW p \in Procs, casValue(p) PROVE Atomic!Add(p) \/ Stutter
  <2>1. CASE value = cur[p]
    <3>1. InRange(value + by[p])
      BY <1>0, <1>3, <2>1 DEF casValue, LocalsMeanIt
    <3> QED
      BY <1>0, <1>3, <2>1, <3>1, PhaseStep DEF casValue, TypeOK, Phase, InRange,
         Atomic!Add, Atomic!InRange
  <2>2. CASE value # cur[p]
    BY <1>0, <1>3, <2>2, PhaseSame DEF casValue
  <2> QED
    BY <2>1, <2>2
<1>4. ASSUME NEW p \in Procs, readClock(p) PROVE Stutter
  BY <1>0, <1>4, PhaseSame DEF readClock
<1>5. ASSUME NEW p \in Procs, loadTs(p) PROVE Stutter
  BY <1>0, <1>5, PhaseSame DEF loadTs
<1>6. ASSUME NEW p \in Procs, casTs(p) PROVE Stutter
  BY <1>0, <1>6, PhaseSame DEF casTs
<1>7. ASSUME NEW p \in Procs, return(p) PROVE Atomic!Return(p)
  BY <1>0, <1>7, PhaseStep DEF return, TypeOK, Phase, Atomic!Return
<1>8. CASE UNCHANGED <<value, callVars>>
  BY <1>8 DEF callVars, Phase
<1>9. QED
  BY <1>1, <1>2, <1>3, <1>4, <1>5, <1>6, <1>7, <1>8 DEF Next, atomicCounterAdd,
     renderCounterPayload, readTs, tick, Finished, vars, Atomic!Next

\* counter_add is atomic: CounterCell implements AtomicCounter.
THEOREM CellImplementsAtomicCounter == Spec => ImplementsAtomicCounter
<1>1. Init => Atomic!Init
  BY CellAssumption DEF Init, Atomic!Init
<1>2. Inv /\ [Next]_vars => [Atomic!Next]_(Atomic!vars)
  <2> SUFFICES ASSUME Inv, [Next]_vars PROVE [Atomic!Next]_(Atomic!vars)
    OBVIOUS
  <2>1. CASE Next
    BY <2>1, RefinementStep DEF Phase, Atomic!vars
  <2>2. CASE UNCHANGED vars
    BY <2>2 DEF vars, callVars, Atomic!vars
  <2> QED
    BY <2>1, <2>2
<1> QED
  BY <1>1, <1>2, CellInvariance, PTL DEF Spec, ImplementsAtomicCounter, Atomic!Spec
=============================================================================
