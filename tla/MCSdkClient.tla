---------------------------- MODULE MCSdkClient ----------------------------
(* Instances of SdkClient for TLC. *)
EXTENDS SdkClient

\* An identifier, by its names.
Id(sv, g, sc, p, st, u) ==
    [service |-> sv, group |-> g, scope |-> sc,
     project |-> p, store |-> st, user |-> u]

System  == Id(<<"s">>, <<"g">>, "SYSTEM", <<>>, <<>>, <<>>)
Project == Id(<<"s">>, <<"g">>, "PROJECT", <<"p">>, <<>>, <<>>)
Other   == Id(<<"s">>, <<"g">>, "PROJECT", <<"q">>, <<>>, <<>>)

\* The system configuration, asked for with a project id that has no effect.
Alias   == Id(<<"s">>, <<"g">>, "SYSTEM", <<"p">>, <<>>, <<>>)

\* Two services whose names differ in where the colon is.
Colon1  == Id(<<"s", ":", "x">>, <<"g">>, "SYSTEM", <<>>, <<>>, <<>>)
Colon2  == Id(<<"s">>, <<"x", ":", "g">>, "SYSTEM", <<>>, <<>>, <<>>)

OneId    == {Project}
TwoIds   == {Project, Other}
Aliases  == {System, Alias}
Colliding == {Colon1, Colon2}
=============================================================================
