--------------------------- MODULE MCValueLookup ---------------------------
(* Instances of ValueLookup for TLC. *)
EXTENDS ValueLookup, TLC

CONSTANTS v, d

T(default, scopes) == [default |-> default, scopes |-> scopes]

\* An empty default, which GetConfig leaves out, and one for stores only.
MCTemplates == {T(Empty, {"SYSTEM"}), T(d, {"STORE"})}

Get(s, p, i, u) == [id |-> Src(s, p), inherit |-> i, useDefault |-> u]

\* Of a store, and of its project.
MCLookups == {Get("STORE", TRUE, TRUE, TRUE), Get("PROJECT", TRUE, FALSE, FALSE)}

Symmetric == Permutations(Workers)
=============================================================================
