SPECIFICATION Spec
CONSTANTS
    Setups <- MCStandaloneSetups
    InitReqs = {}
    Clients = {c1}
    Bridges = {1, 2}
INVARIANT ShutdownDrains
