--------------------------- MODULE MCSqliteStore ---------------------------
(* Instances of SqliteStore for TLC. *)
EXTENDS SqliteStore

CONSTANTS p, a, b

F(path, value) == [path |-> path, value |-> value]

\* Two requests that differ, and one with a path twice.
MCRequests == {<<F(p, a)>>, <<F(p, b)>>, <<F(p, a), F(p, b)>>}
=============================================================================
