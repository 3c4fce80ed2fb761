SPECIFICATION Spec
CONSTANTS
    v = v
    d = d
    Scopes = {"SYSTEM", "PROJECT", "STORE"}
    Values = {v, d}
    SetValues = {v}
    Templates <- MCTemplates
    Workers = {w1, w2}
    Lookups <- MCLookups
    Lossy = TRUE
    MaxChanges = 1
SYMMETRY Symmetric
INVARIANTS
    QuietLookup
    HeldValueWins
