-------------------------- MODULE VersionedConfig --------------------------
(***************************************************************************)
(* What the configuration service promises its clients, with every call    *)
(* atomic: an identifier has a growing list of immutable versions, at most *)
(* one of which is published, until the whole configuration is deleted.    *)
(* ConfigStore implements it statement by statement.                       *)
(***************************************************************************)
EXTENDS Naturals, Sequences

CONSTANTS Keys, Paths, Values

VARIABLE store

\* The fields of a version: at most one value per path.
Contents ==
    {c \in SUBSET [path : Paths, value : Values] :
        \A f, g \in c : f.path = g.path => f = g}

Unpublished == 0
Absent      == [versions |-> <<>>, published |-> Unpublished]

Init == store = [k \in Keys |-> Absent]

\* UpdateConfig appends; the published version stays what it was.
AddVersion(k, c) ==
    store' = [store EXCEPT ![k].versions = Append(@, c)]

\* PublishVersion accepts existing versions only, older ones too.
Publish(k, v) ==
    /\ v \in 1 .. Len(store[k].versions)
    /\ store' = [store EXCEPT ![k].published = v]

\* DeleteConfig forgets every version; the next one starts from 1 again.
Remove(k) ==
    /\ store[k] # Absent
    /\ store' = [store EXCEPT ![k] = Absent]

Next == \E k \in Keys :
    \/ \E c \in Contents : AddVersion(k, c)
    \/ \E v \in 1 .. Len(store[k].versions) : Publish(k, v)
    \/ Remove(k)

Spec == Init /\ [][Next]_store
=============================================================================
