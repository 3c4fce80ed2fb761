\* No fault is needed.
SPECIFICATION Spec
CONSTANTS
    p = p
    q = q
    Names = {"s", "u", "console", "admin"}
    Paths = {p, q}
    Callers = {w1}
    Shared <- TheStore
    Faults = {}
    MaxInt = 15
    MaxVersion = 3
    HttpRequests <- NoRequests
    Commands <- PublishAndUnpublish
    RequiredClient = "console"
    RequiredRoles = {"admin"}
INVARIANT
    UnpublishWorks
