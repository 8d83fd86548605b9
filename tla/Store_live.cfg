SPECIFICATION FairSpec
CONSTANTS
    a = a
    one = one
    c1 = c1
    p1 = p1
    p2 = p2
    p3 = p3
    NoId = NoId
    NoPayload = NoPayload
    NoCell = NoCell
    NotInt = NotInt
    NoBuf = NoBuf
    Free = Free
    Ids = {a}
    Payloads = {one}
    Cells = {c1}
    IdLen <- MCIdLen
    PayloadBytes <- MCPayloadBytes
    PayloadInt <- MCPayloadInt
    ItemOverhead = 1
    CounterCellOverhead = 2
    Procs = {p1, p2, p3}
    NumScopes = 3
    NumReserved = 1
    NumShards = 2
    ShardOf <- MCShardOf
    NumBufs = 6
    ScopeBufferOverhead = 2
    DefaultMaxItems = 2
    MaxStoreBytes = 12
    Calls <- MCLockingCalls
    MaxCalls = 3
PROPERTY
    CallsReturn
