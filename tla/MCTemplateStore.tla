-------------------------- MODULE MCTemplateStore --------------------------
(* Instances of TemplateStore for TLC. *)
EXTENDS TemplateStore, TLC

CONSTANTS g1, g2, a, b, l1, l2, d1, d2

TwoScopes == {"SYSTEM", "STORE"}

F(p, d, s) == [path |-> p, default |-> d, scopes |-> s]
D(g, l, f) == [group |-> g, label |-> l, fields |-> f]

Plain      == D(g1, l1, <<F(a, d1, {"STORE"})>>)
Richer     == D(g1, l2, <<F(a, d2, {"STORE"}), F(b, d1, {"SYSTEM"})>>)
Misspelt   == D(g1, l2, <<F(a, d1, {"STORE", "unknown"})>>)
Duplicated == D(g2, l1, <<F(a, d1, {"STORE"}), F(a, d2, {"STORE"})>>)
Empty      == D(g2, l2, <<>>)
Nameless   == D(NoGroup, l1, <<>>)

\* The seeds set one group up and stop at a scope the database refuses. The
\* batch fails half-way in the database, then in front of it, then succeeds.
BadSeeds == <<Plain, Misspelt, Empty>>
OneBatch == {<<Duplicated, Nameless, Richer>>}
=============================================================================
