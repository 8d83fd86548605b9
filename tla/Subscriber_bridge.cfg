SPECIFICATION HangSpec
CONSTANTS
    Writers = {w1, w2}
    Bridges = {b1, b2}
    NoSub = NoSub
    Limit = 1
    MaxAppends = 2
    MaxFails = 1
    MaxWipes = 1
    MaxStops = 2
INVARIANTS
    NothingSkipped
    WakeupCovers
    AttachedIsOpen
    OneLiveCommand
PROPERTIES
    StopReturns
    OwedIsPersisted
