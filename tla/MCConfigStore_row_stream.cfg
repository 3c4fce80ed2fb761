SPECIFICATION Spec
CONSTANTS
    a = a
    b = b
    v1 = v1
    v2 = v2
    Keys = {k1}
    Handlers = {h1, h2}
    NoHandler = NoHandler
    Paths = {a, b}
    Values = {v1, v2}
    Requests <- MCRequests
    Faults = {"row_stream"}
    MaxId = 2
    MaxVersion = 2
SYMMETRY Symmetric
PROPERTY
    AllFieldsReturned
