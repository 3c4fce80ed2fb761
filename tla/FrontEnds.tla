----------------------------- MODULE FrontEnds -----------------------------
(***************************************************************************)
(* HTTP gateways, command lines and other clients of one configuration     *)
(* service, all at the same time.                                          *)
(***************************************************************************)
EXTENDS Gateway, Cli

Init == InitService

Caller(w) ==
    \/ HttpNext(w) \/ CliNext(w)
    \/ Serve(w) \/ ServeFails(w)
    \/ Done(w)

Next == OthersAct \/ \E w \in Callers : Caller(w)

Spec == Init /\ [][Next]_vars

-----------------------------------------------------------------------------
(* Properties *)

Stages   == Calling \cup {"idle", "done"}
Keys     == Shared \cup {KeyOf(IdentifierOf(r)) : r \in HttpRequests}
                   \cup {KeyOf(CliIdentifier(c)) : c \in Commands}
Statuses == {HttpStatus[c] : c \in GrpcCodes} \cup {"none", "401", "printed", "fatal"}
Section  == [version : Int, published : BOOLEAN]

\* Every variable has its type; numbers on the wire have 32 bits.
TypeOK ==
    /\ DOMAIN store \subseteq Keys
    /\ \A k \in DOMAIN store : store[k] \in Row
    /\ at      \in [Callers -> Stages]
    /\ request \in [Callers -> {NoRequest} \cup HttpRequests \cup Commands]
    /\ call    \in [Callers -> Call]
    /\ answer  \in [Callers -> Answer]
    /\ out     \in [Callers -> [status : Statuses, sections : Seq(Section)]]
    /\ \A w \in Callers : during[w] \subseteq Nat

\* What the user of request r asked to have changed, read off the request.
AskedFor(r) ==
    LET ids == [SYSTEM |-> "system", PROJECT |-> r.project,
                STORE |-> r.store, USER |-> r.user]
        key == [service |-> r.service, scope |-> r.scope,
                scopeId |-> ids[r.scope], group |-> r.group]
        operation == IF r.kind = "http" THEN r.route ELSE r.verb
    IN  CASE operation \in {"update", "set"} ->
                [op : {"UpdateConfig"}, key : {key}, version : 1 .. MaxVersion]
          [] operation = "publish" ->
                [op : {"PublishVersion"}, key : {key}, version : {r.number}]
          [] operation = "unpublish" ->
                [op : {"PublishVersion"}, key : {key}, version : {0}]
          [] OTHER -> {}

Succeeded == {"200", "printed"}
Refused   == {"400", "401", "403", "404"}

\* What the user is told is what has happened: a success means that exactly
\* the change that was asked for, at the identifier that was meant, was made
\* once, and a refusal that nothing was, whatever was lost on the way
\* (WriteError and grpcCodeToHTTP, errors.go:24-98; the handlers of both
\* front ends). The other codes and a fatal end leave it open: 500, 503, and 408
\* of a request whose user has gone.
AnswerTellsEffect == \A w \in Callers : at[w] = "done" =>
    /\ Cardinality(wrote[w]) <= 1
    /\ wrote[w] # {} => wrote[w] \subseteq AskedFor(request[w])
    /\ out[w].status \in Refused => wrote[w] = {}
    /\ out[w].status \in Succeeded /\ AskedFor(request[w]) # {} => wrote[w] # {}

\* A version that is shown as published was so at some moment while the
\* request was under way (convertConfigToJSON, converters.go:127-129, and
\* printGetResponse, get.go:102-106, over unsynchronised reads).
ClaimsWereTrue == \A w \in Callers : at[w] = "done" =>
    \A i \in DOMAIN out[w].sections :
        out[w].sections[i].published => out[w].sections[i].version \in during[w]

\* show, which reads twice and leaves one section out when both are of the
\* same version, never hides the published version: if it stayed p while the
\* command ran, p is shown as published (show.go:35-56).
ShowTellsPublished == \A w \in Callers : \A p \in 1 .. MaxVersion :
    (/\ at[w] = "done" /\ out[w].status = "printed"
     /\ request[w].kind = "cli" /\ request[w].verb = "show"
     /\ during[w] = {p})
    => \E i \in DOMAIN out[w].sections :
            out[w].sections[i] = [version |-> p, published |-> TRUE]

\* Front ends and other clients can do nothing to a configuration but what
\* the service promises; in particular, they cannot take a publication back.
Abstract == INSTANCE VersionedConfig
    WITH Values <- {},
         store  <- [k \in Keys |->
                      [versions  |-> [v \in Existing(RowIn(store, k)) |-> {}],
                       published |-> RowIn(store, k).published]]

ImplementsVersionedConfig == Abstract!Spec

\* unpublish.go:35: "Publishing version 0 is interpreted as unpublishing", so
\* the command succeeds on a configuration that is published all along.
UnpublishWorks == \A w \in Callers :
    (/\ at[w] = "done"
     /\ request[w].kind = "cli" /\ request[w].verb = "unpublish"
     /\ during[w] # {} /\ 0 \notin during[w])
    => out[w].status = "printed"

\* The answer of /versions/{version} is of the version in the path, or of no
\* version (GetConfigByVersion, handlers.go:231-275). A number beyond 32 bits
\* is exempt: int32(version) makes another one of it (handlers.go:256).
VersionAsAsked == \A w \in Callers :
    (/\ at[w] = "done" /\ out[w].status = "200"
     /\ request[w].kind = "http" /\ request[w].route = "version"
     /\ Fits32(request[w].number))
    => out[w].sections[1].version \in {0, request[w].number}
=============================================================================
