-------------------------------- MODULE Cli --------------------------------
(***************************************************************************)
(* The command line (cmd/cli): get, show, set, publish, unpublish, history.*)
(* One gRPC call per command, two for show. log.Fatalf ends a command at   *)
(* the first error.                                                        *)
(***************************************************************************)
EXTENDS ConfigService

CONSTANT Commands    \* the commands that are tried

Verbs     == {"get", "show", "set", "publish", "unpublish", "history"}
GetFlags  == {"latest", "version"}
Malformed == "malformed"    \* an argument of set without "="

\* number is --version, --limit or the argument of publish; flags those of
\* get that were given; args the paths of set.
Command ==
    [kind : {"cli"}, verb : Verbs, service : Texts, group : Texts,
     scope : Texts \cup Scopes \cup {Unspecified}, project : Texts,
     store : Texts, user : Texts, number : Int, flags : SUBSET GetFlags,
     args : Seq(Paths \cup {Malformed})]

ASSUME CommandsAssumption == Commands \subseteq Command

-----------------------------------------------------------------------------

\* createIdentifier sets the scope's own id and no other. The names of the
\* enum are its scopes, SCOPE_UNSPECIFIED included.
CliIdentifier(c) ==
    [service |-> c.service, group |-> c.group, scope |-> c.scope,
     project |-> IF c.scope = "PROJECT" THEN c.project ELSE Missing,
     store   |-> IF c.scope = "STORE" THEN c.store ELSE Missing,
     user    |-> IF c.scope = "USER" THEN c.user ELSE Missing]

Complete(c) ==
    /\ c.service # Missing /\ c.group # Missing
    /\ c.scope \in Scopes \cup {Unspecified}
    /\ c.scope # Unspecified => ScopeId(CliIdentifier(c)) # Missing

\* The numbers are parsed with 32 bits: as int32 flags, or by ParseInt. The
\* flags of get exclude each other.
Usable(c) ==
    /\ Complete(c) /\ Fits32(c.number)
    /\ c.verb = "get" => c.flags # GetFlags
    /\ c.verb = "set" => c.args # <<>> /\ \A i \in DOMAIN c.args : c.args[i] # Malformed

CliOperation(c) ==
    CASE c.verb = "get" /\ "latest" \in c.flags -> "GetLatestConfig"
      [] c.verb = "get" /\ "latest" \notin c.flags /\ c.number > 0 -> "GetConfigByVersion"
      [] c.verb = "get" /\ "latest" \notin c.flags /\ c.number <= 0 -> "GetConfig"
      [] c.verb = "show" -> "GetLatestConfig"
      [] c.verb = "set" -> "UpdateConfig"
      [] c.verb \in {"publish", "unpublish"} -> "PublishVersion"
      [] c.verb = "history" -> "GetConfigHistory"

\* unpublish publishes version 0.
CliCall(c) == [op     |-> CliOperation(c),
               id     |-> CliIdentifier(c),
               number |-> IF c.verb \in {"get", "publish", "history"}
                          THEN c.number ELSE 0,
               paths  |-> IF c.verb = "set" THEN c.args ELSE <<>>]

CliStart(w, c) ==
    /\ at[w] = "idle"
    /\ request' = [request EXCEPT ![w] = c]
    /\ IF Usable(c) THEN MakeCall(w, CliCall(c)) /\ UNCHANGED out
                    ELSE Tell(w, "fatal", <<>>)

-----------------------------------------------------------------------------
(* Output *)

\* printGetResponse: nothing, the template's defaults, or a version.
Printed(a) ==
    IF a.number = 0 THEN <<>>
    ELSE <<[version |-> a.number, published |-> a.published = a.number]>>

\* Mutant of ShowPublished: compares with the latest version once more, so
\* that a published latest version is left out.
ShowPublishedDropped(w) ==
    /\ at[w] = "answered" /\ answer[w].code = "OK"
    /\ request[w].kind = "cli" /\ request[w].verb = "show"
    /\ call[w].op = "GetConfig"
    /\ Tell(w, "printed", out[w].sections)
    /\ UNCHANGED request

\* show has both answers: the published one is printed if it is of another
\* version than the latest one was.
ShowPublished(w) ==
    /\ at[w] = "answered" /\ answer[w].code = "OK"
    /\ request[w].kind = "cli" /\ request[w].verb = "show"
    /\ call[w].op = "GetConfig"
    /\ LET first == out[w].sections
           latest == IF first = <<>> THEN 0 ELSE first[1].version
       IN  Tell(w, "printed", IF answer[w].number # latest
                              THEN first \o Printed(answer[w]) ELSE first)
    /\ UNCHANGED request

\* show keeps the first answer and asks for the published configuration.
ShowLatest(w) ==
    /\ at[w] = "answered" /\ answer[w].code = "OK"
    /\ request[w].kind = "cli" /\ request[w].verb = "show"
    /\ call[w].op = "GetLatestConfig"
    /\ MakeCall(w, [call[w] EXCEPT !.op = "GetConfig"])
    /\ out' = [out EXCEPT ![w].sections = Printed(answer[w])]
    /\ UNCHANGED request

CliFails(w) ==
    /\ at[w] = "answered" /\ answer[w].code # "OK"
    /\ request[w].kind = "cli"
    /\ Tell(w, "fatal", <<>>)
    /\ UNCHANGED request

\* get prints the configuration, the others what they have done.
CliPrints(w) ==
    /\ at[w] = "answered" /\ answer[w].code = "OK"
    /\ request[w].kind = "cli" /\ request[w].verb # "show"
    /\ Tell(w, "printed", Printed(answer[w]))
    /\ UNCHANGED request

CliNext(w) ==
    \/ \E c \in Commands : CliStart(w, c)
    \/ ShowLatest(w) \/ ShowPublished(w) \/ CliFails(w) \/ CliPrints(w)
=============================================================================
