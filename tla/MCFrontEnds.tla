---------------------------- MODULE MCFrontEnds ----------------------------
(* Instances of FrontEnds for TLC. *)
EXTENDS FrontEnds, TLC

CONSTANTS p, q

Admins == {<<"console", "admin">>}

Password == [scheme |-> "Basic", valid |-> TRUE, roles |-> {},
             email |-> "", username |-> ""]
Token(roles) == [scheme |-> "Bearer", valid |-> TRUE, roles |-> roles,
                 email |-> "", username |-> "u"]

\* A well-formed request about store u of service s and group g.
Http(route, number) ==
    [kind |-> "http", checks |-> {"basic"}, route |-> route, cred |-> Password,
     wellFormed |-> TRUE, service |-> "s", scope |-> "STORE", group |-> "s",
     project |-> "s", store |-> "u", user |-> "", number |-> number,
     paths |-> {p, q}, userHeader |-> "", bodyUser |-> "u"]

MCHttpRequests ==
    {Http("get", 0), Http("latest", 0), Http("version", 1), Http("version", 0), Http("version", 32),
     Http("history", 33), Http("template", 0), Http("update", 0),
     Http("publish", 1), Http("publish", 2), Http("publish", 33)}
    \cup {[Http("publish", 1) EXCEPT !.store = ""],
          [Http("update", 0) EXCEPT !.bodyUser = ""],
          [Http("update", 0) EXCEPT !.service = ""],
          [Http("get", 0) EXCEPT !.service = ""],
          [Http("get", 0) EXCEPT !.scope = "u"],
          [Http("publish", 1) EXCEPT !.wellFormed = FALSE],
          [Http("get", 0) EXCEPT !.cred.valid = FALSE],
          [Http("publish", 1) EXCEPT !.scope = "PROJECT"],
          [Http("latest", 0) EXCEPT !.scope = "SYSTEM"]}
    \cup {[Http("publish", 2) EXCEPT !.checks = c, !.cred = Token(t), !.bodyUser = ""] :
            c \in {{"jwt"}, {"basic", "jwt"}}, t \in {Admins, {<<"u", "admin">>}}}

Cmd(verb, number) ==
    [kind |-> "cli", verb |-> verb, service |-> "s", group |-> "s",
     scope |-> "STORE", project |-> "s", store |-> "u", user |-> "",
     number |-> number, flags |-> {}, args |-> <<p>>]

MCCommands ==
    {Cmd("get", 0), Cmd("get", 2), Cmd("show", 0), Cmd("set", 0),
     Cmd("publish", 1), Cmd("publish", 33), Cmd("unpublish", 0), Cmd("history", 10)}
    \cup {[Cmd("get", 0) EXCEPT !.flags = {"latest"}],
          [Cmd("get", 2) EXCEPT !.flags = GetFlags],
          [Cmd("set", 0) EXCEPT !.args = <<p, p>>],
          [Cmd("set", 0) EXCEPT !.args = <<p, "malformed">>],
          [Cmd("get", 0) EXCEPT !.scope = "SCOPE_UNSPECIFIED"],
          [Cmd("show", 0) EXCEPT !.scope = "USER"]}

NoRequests   == {}
PublishAndUnpublish == {Cmd("publish", 1), Cmd("unpublish", 0)}

TheStore == {[service |-> "s", scope |-> "STORE", scopeId |-> "u", group |-> "s"]}
=============================================================================
