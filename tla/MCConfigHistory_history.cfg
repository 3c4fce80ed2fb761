SPECIFICATION HSpec
CONSTANTS
    a = a
    v1 = v1
    Keys = {k1}
    Handlers = {h1, h2}
    NoHandler = NoHandler
    Paths = {a}
    Values = {v1}
    Requests <- OneRequest
    Faults = {"statement"}
    MaxId = 2
    MaxVersion = 2
    Readers = {r1}
    Limits = {1, 10}
SYMMETRY Symmetric
INVARIANTS
    SettledOrder
PROPERTY
    HistoryIsWhole
