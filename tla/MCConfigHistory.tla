-------------------------- MODULE MCConfigHistory --------------------------
(* Instances of ConfigHistory for TLC. *)
EXTENDS ConfigHistory, TLC

CONSTANTS a, v1

OneRequest == {<<[path |-> a, value |-> v1]>>}

Symmetric == Permutations(Handlers)
=============================================================================
