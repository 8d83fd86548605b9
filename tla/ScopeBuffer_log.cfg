SPECIFICATION Spec
VIEW WithoutStamps
CONSTANTS
    a = a
    bb = bb
    one = one
    big = big
    c1 = c1
    c2 = c2
    NoId = NoId
    NoPayload = NoPayload
    NoCell = NoCell
    NotInt = NotInt
    Ids = {a}
    Payloads = {one, big}
    Cells = {c1, c2}
    IdLen <- MCOneIdLen
    PayloadBytes <- MCPayloadBytes
    PayloadInt <- MCPayloadInt
    ItemOverhead = 1
    CounterCellOverhead = 2
    MaxItems = 3
    MaxStoreBytes = 9
    MaxItemBytes = 5
    MaxCounterValue = 2
    Increments = {1}
    WarmInputs <- MCOneIdWarmInputs
    OtherDeltas = {}
    MaxSeq = 3
    MaxNow = 2
    MaxWarms = 1
INVARIANTS
    HeadIsLowestAbove
    TailIsNewestBelow
    UnchangedStampUnchangedItems
PROPERTIES
    ImplementsScopeLog
