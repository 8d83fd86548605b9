SPECIFICATION Spec
SYMMETRY Symmetric
CONSTANTS
    p1 = p1
    p2 = p2
    p3 = p3
    s1 = s1
    a = a
    Procs = {p1, p2, p3}
    Scopes = {s1}
    EventsScope = EventsScope
    NoId = NoId
    NotInt = NotInt
    NoVal = NoVal
    Absent = Absent
    Modes = {"off", "notify", "full"}
    PayloadBytes <- MCPayloadBytes
    HtmlBytes <- MCHtmlBytes
    CounterBytes = 1
    ItemOverhead = 1
    ScopeBufferOverhead = 1
    EnvelopeBytes = 1
    EnvelopeSlack = 2
    MaxItemBytes = 3
    MaxStoreBytes = 14
    MaxItems = 2
    MaxCounterValue = 2
    Calls <- MCCalls
    MaxCalls = 4
INVARIANTS
    EventsAccounted
    ReplayReconstructs
    AppendsCarryTheirOrder
    CountersSumUp
