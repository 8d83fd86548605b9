SPECIFICATION FairSpec
CONSTANTS
    Setups <- Setup
    InitReqs = {i1, i2}
    Clients = {c1, c2}
    Bridges = {1, 2}
INVARIANTS
    SignalStopsCommandsFirst
    NoCommandIsLeft
    SubscribersStartEmpty
PROPERTY SignalEnds
