SPECIFICATION Spec
CONSTANTS
    v = v
    d = d
    Scopes = {"SYSTEM", "PROJECT", "STORE"}
    Values = {v, d}
    SetValues = {v}
    Templates <- MCTemplates
    Workers = {w1}
    Lookups <- MCLookups
    Lossy = FALSE
    MaxChanges = 0
INVARIANT
    PromisedLookup
