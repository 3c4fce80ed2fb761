--------------------------- MODULE MCConfigStore ---------------------------
(* Instances of ConfigStore for TLC. *)
EXTENDS ConfigStore, TLC

CONSTANTS a, b, v1, v2

F(p, v) == [path |-> p, value |-> v]

\* No field at all, two fields, and a request that names a path twice.
MCRequests == {<<>>, <<F(a, v2), F(b, v1)>>, <<F(a, v1), F(a, v2)>>}

Symmetric == Permutations(Handlers) \cup Permutations(Keys)
=============================================================================
