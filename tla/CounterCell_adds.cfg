SPECIFICATION FairSpec
CONSTANTS
    Procs = {p1, p2}
    Readers = {r1}
    MaxCounterValue = 2
    Amounts <- MCAmounts
    Overflow = Overflow
    MaxCalls = 3
    MaxClock = 2
INVARIANTS
    EveryAddCounts
    ReadsCoverReturnedAdds
PROPERTIES
    TsNeverMovesBack
    ImplementsAtomicCounter
    CallsReturn
