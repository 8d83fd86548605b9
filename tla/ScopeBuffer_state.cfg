SPECIFICATION Spec
VIEW WithoutReply
CONSTANTS
    a = a
    bb = bb
    one = one
    big = big
    c1 = c1
    c2 = c2
    NoId = NoId
    NoPayload = NoPayload
    NoCell = NoCell
    NotInt = NotInt
    Ids = {a, bb}
    Payloads = {one, big}
    Cells = {c1, c2}
    IdLen <- MCIdLen
    PayloadBytes <- MCPayloadBytes
    PayloadInt <- MCPayloadInt
    ItemOverhead = 1
    CounterCellOverhead = 2
    MaxItems = 2
    MaxStoreBytes = 9
    MaxItemBytes = 5
    MaxCounterValue = 2
    Increments <- MCIncrements
    WarmInputs <- MCWarmInputs
    OtherDeltas <- MCOtherDeltas
    MaxSeq = 4
    MaxNow = 1
    MaxWarms = 1
INVARIANTS
    TypeOK
    SeqsAscending
    IndexCoherent
    BytesExact
    IdKeyBytesExact
    StoreLockstep
    ItemsWithinCap
    WithinCapWithoutWarm
PROPERTIES
    SeqsNeverReused
