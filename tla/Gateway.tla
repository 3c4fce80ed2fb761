------------------------------ MODULE Gateway ------------------------------
(***************************************************************************)
(* The HTTP gateway's configuration endpoints (pkg/httpgateway): who is    *)
(* let through, what a request must have, the gRPC call it becomes and the *)
(* HTTP status its answer becomes. The gateway keeps no state.             *)
(***************************************************************************)
EXTENDS ConfigService, SequencesExt

CONSTANTS
    HttpRequests,    \* the requests that are tried
    RequiredClient,  \* KEYCLOAK_CLIENT
    RequiredRoles    \* KEYCLOAK_ROLES

Checks == {"basic", "jwt"}
Routes == {"get", "latest", "version", "history", "template", "publish", "update"}

\* What the Authorization header holds: the right or a wrong password, or a
\* token with the roles it gives per client.
Credential == [scheme : {"none", "Basic", "Bearer"}, valid : BOOLEAN,
               roles : SUBSET (Names \X Names), email : Texts, username : Texts]

\* checks are those of the gateway it is sent to. scope is the path segment in
\* upper case, as parseScope reads it. number is the version or the limit;
\* without wellFormed it, or the body, is garbled.
HttpRequest ==
    [kind : {"http"}, checks : SUBSET Checks, route : Routes, cred : Credential, wellFormed : BOOLEAN,
     service : Texts, scope : Texts \cup Scopes, group : Texts, project : Texts,
     store : Texts, user : Texts, number : Int, paths : SUBSET Paths,
     userHeader : Texts, bodyUser : Texts]

ASSUME RequestsAssumption ==
    \A r \in HttpRequests : r \in HttpRequest /\ IsFiniteSet(r.paths)

-----------------------------------------------------------------------------
(* Who is let through *)

HasRequiredRole(cred) ==
    \E r \in RequiredRoles : <<RequiredClient, r>> \in cred.roles

PassesBasic(cred) == cred.scheme = "Basic" /\ cred.valid
PassesJwt(cred)   == cred.scheme = "Bearer" /\ cred.valid /\ HasRequiredRole(cred)

\* Both middlewares read the one Authorization header.
Admitted(r) ==
    /\ "basic" \in r.checks => PassesBasic(r.cred)
    /\ "jwt" \in r.checks => PassesJwt(r.cred)

\* GetUserEmail: only the JWT middleware puts a user into the context.
TokenUser(r) ==
    CASE "jwt" \notin r.checks -> Missing
      [] "jwt" \in r.checks /\ r.cred.email # Missing -> r.cred.email
      [] OTHER -> r.cred.username

FinalUser(r) ==
    CASE r.userHeader # Missing -> r.userHeader
      [] r.userHeader = Missing /\ r.bodyUser # Missing -> r.bodyUser
      [] OTHER -> TokenUser(r)

-----------------------------------------------------------------------------
(* What a request must have *)

IdentifierOf(r) ==
    [service |-> r.service, group |-> r.group, scope |-> r.scope,
     project |-> r.project, store |-> r.store, user |-> r.user]

\* A known scope, a group, the scope's own id.
Located(r) ==
    r.group # Missing /\ r.scope \in Scopes /\ ScopeId(IdentifierOf(r)) # Missing

\* buildIdentifier checks the service as well.
Identifies(r) == r.service # Missing /\ Located(r)

\* The body's version is an int32, the path's and the limit are ints.
\* PublishConfig leaves the scope's id to the server, and neither it nor
\* UpdateConfig looks at the service.
Valid(r) ==
    CASE r.route \in {"get", "latest"} -> Identifies(r)
      [] r.route \in {"version", "history"} ->
            r.wellFormed /\ r.number > 0 /\ Identifies(r)
      [] r.route = "template" -> r.service # Missing /\ r.group # Missing
      [] r.route = "publish" ->
            /\ r.wellFormed /\ Fits32(r.number) /\ r.number > 0
            /\ r.scope \in Scopes /\ r.group # Missing /\ FinalUser(r) # Missing
      [] r.route = "update" ->
            /\ r.wellFormed /\ r.paths # {}
            /\ Located(r) /\ FinalUser(r) # Missing

\* Mutant of Operation: a version is asked for as the published one is.
OperationOfAny == [get |-> "GetConfig", latest |-> "GetLatestConfig",
                   version |-> "GetConfig", history |-> "GetConfigHistory",
                   template |-> "GetConfigTemplate", publish |-> "PublishVersion",
                   update |-> "UpdateConfig"]

Operation == [get |-> "GetConfig", latest |-> "GetLatestConfig",
              version |-> "GetConfigByVersion", history |-> "GetConfigHistory",
              template |-> "GetConfigTemplate", publish |-> "PublishVersion",
              update |-> "UpdateConfig"]

\* JSON fields are a map: each path once, in any order.
CallOf(r) == [op     |-> Operation[r.route],
              id     |-> IF r.route = "template"
                         THEN [NoCall.id EXCEPT !.service = r.service,
                                                !.group = r.group]
                         ELSE IdentifierOf(r),
              number |-> IF r.route \in {"version", "history", "publish"}
                         THEN Int32(r.number) ELSE 0,
              paths  |-> IF r.route = "update" THEN SetToSeq(r.paths) ELSE <<>>]

GrpcCodes == Codes \cup {"Unknown", "DeadlineExceeded", "AlreadyExists", "PermissionDenied",
                         "ResourceExhausted", "FailedPrecondition", "Aborted", "OutOfRange",
                         "Unimplemented", "DataLoss", "Unauthenticated"}

\* Mutant of HttpStatus: an unreachable server is told as a missing entity.
HttpStatusMasked == [c \in GrpcCodes |->
    CASE c = "OK" -> "200" [] c = "InvalidArgument" -> "400" [] c = "Canceled" -> "408"
      [] c \in {"NotFound", "Unavailable"} -> "404" [] OTHER -> "500"]

\* grpcCodeToHTTP
HttpStatus == [c \in GrpcCodes |->
    CASE c = "OK"                -> "200"
      [] c \in {"InvalidArgument", "FailedPrecondition", "OutOfRange"} -> "400"
      [] c = "Unauthenticated"   -> "401"
      [] c = "PermissionDenied"  -> "403"
      [] c = "NotFound"          -> "404"
      [] c = "Canceled"          -> "408"
      [] c \in {"AlreadyExists", "Aborted"} -> "409"
      [] c = "ResourceExhausted" -> "429"
      [] c = "Unimplemented"     -> "501"
      [] c = "Unavailable"       -> "503"
      [] c = "DeadlineExceeded"  -> "504"
      [] OTHER                   -> "500"]

-----------------------------------------------------------------------------

\* validationError has no HTTPStatus, so that it is told as 500.
HttpStart(w, r) ==
    /\ at[w] = "idle"
    /\ request' = [request EXCEPT ![w] = r]
    /\ CASE ~Admitted(r) -> Tell(w, "401", <<>>)
         [] Admitted(r) /\ ~Valid(r) -> Tell(w, "500", <<>>)
         [] OTHER -> MakeCall(w, CallOf(r)) /\ UNCHANGED out

\* Mutant of JsonSections: whatever is shown counts as published.
JsonSectionsAny(a) ==
    IF a.code # "OK" THEN <<>>
    ELSE <<[version |-> a.number, published |-> a.published # 0]>>

\* The version the JSON body is about, and whether it shows it as published.
JsonSections(a) ==
    IF a.code # "OK" THEN <<>>
    ELSE <<[version   |-> a.number,
            published |-> a.published # 0 /\ a.published = a.number]>>

HttpRespond(w) ==
    /\ at[w] = "answered" /\ request[w].kind = "http"
    /\ Tell(w, HttpStatus[answer[w].code], JsonSections(answer[w]))
    /\ UNCHANGED request

HttpNext(w) == (\E r \in HttpRequests : HttpStart(w, r)) \/ HttpRespond(w)
=============================================================================
