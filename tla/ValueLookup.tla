---------------------------- MODULE ValueLookup ----------------------------
(***************************************************************************)
(* GetValue of the Go SDK (sdks/go/value.go): one value is looked for in   *)
(* the configuration of a scope, then in those of its parents, then in the *)
(* template, each through the client's cache and each able to fail, while  *)
(* the server's tables change. Each is a call of its own: nothing makes    *)
(* them one snapshot.                                                      *)
(*                                                                         *)
(* There is one path and one identifier per scope. Time is left out: any   *)
(* entry of the cache may have expired, or not yet (SdkClient has the      *)
(* clock).                                                                 *)
(***************************************************************************)
EXTENDS Naturals, Sequences, FiniteSets

CONSTANTS
    Scopes,     \* those that are looked into
    Values,     \* values of the path
    SetValues,  \* bound: those that configurations set it to
    Templates,  \* the contents the template takes: see Template
    Workers,    \* goroutines of the application
    Lookups,    \* what they ask for: see Lookup
    Lossy,      \* requests, answers and rows can get lost
    MaxChanges  \* bound: changes of the server's tables and cut answers

Nil    == "nil"      \* no value, a null pointer
Unset  == "unset"    \* the scope has no published configuration
Empty  == "empty"    \* the empty string, a value of its own

ScopeNames == {"SYSTEM", "PROJECT", "STORE", "USER"}
Answers    == Values \cup {Empty, Nil}

\* The template's field of this path, Nil when there is none, and its
\* display_on.
Template == [default : Answers, scopes : SUBSET ScopeNames]

\* An identifier, as far as its cache key goes: the scope, and whether it has
\* a project id, which a STORE may and a parent SYSTEM never has.
Source   == [scope : Scopes, project : BOOLEAN]
Lookup   == [id : Source, inherit : BOOLEAN, useDefault : BOOLEAN]

ASSUME ScopesAssumption  == "SYSTEM" \in Scopes /\ Scopes \subseteq ScopeNames
ASSUME ValuesAssumption  == /\ Values \cap {Nil, Unset, Empty} = {}
                            /\ SetValues \subseteq Values
ASSUME ContentAssumption == Templates \subseteq Template /\ MaxChanges \in Nat
ASSUME LookupsAssumption == Lookups \subseteq Lookup /\ Lossy \in BOOLEAN

VARIABLES
    conf,     \* server: what each scope's published configuration has there
    template, \* server: the template's field
    cache,    \* client: the answers it holds, of any age
    at,       \* the next step of each worker
    lookup,   \* what it looks for
    rest,     \* the sources it has still to ask, the current one first
    data,     \* the server's answer that is on its way
    result,   \* the value it has found, and where
    changes,  \* counts towards MaxChanges
    held,     \* ghost: sources the cache has held a value of since it started
    quiet     \* ghost: nothing has failed or changed since

server == <<conf, template, changes>>
vars   == <<conf, template, cache, at, lookup, rest, data, result, changes, held, quiet>>

-----------------------------------------------------------------------------
(* Sources *)

Src(s, p) == [scope |-> s, project |-> p]
TemplateSource == [scope |-> "template", project |-> FALSE]
System == Src("SYSTEM", FALSE)

\* Mutant of Parents: a store inherits from the system only.
ParentsWithoutProject(id) ==
    IF id.scope = "SYSTEM" THEN <<>> ELSE <<System>>

\* getParentIdentifiers
Parents(id) ==
    CASE id.scope = "STORE" /\ id.project -> <<Src("PROJECT", TRUE), System>>
      [] id.scope = "SYSTEM"              -> <<>>
      [] OTHER                            -> <<System>>

Chain(l) ==
    <<l.id>> \o (IF l.inherit THEN Parents(l.id) ELSE <<>>)
             \o (IF l.useDefault THEN <<TemplateSource>> ELSE <<>>)

Asked   == UNION {{Chain(l)[i] : i \in DOMAIN Chain(l)} : l \in Lookups}
NotHeld == "not held"

\* The server answers GetConfig without a published configuration with the
\* template's defaults: those that are not empty and displayed on the scope.
Defaults(s) ==
    IF template.default # Empty /\ template.scopes \cap {s, "SYSTEM"} # {}
    THEN template.default ELSE Nil

\* What an answer to GetConfig, or to GetConfigTemplate, has at the path.
ServerAnswer(src) ==
    CASE src = TemplateSource -> template.default
      [] src # TemplateSource /\ conf[src.scope] = Unset -> Defaults(src.scope)
      [] OTHER -> conf[src.scope]

-----------------------------------------------------------------------------

NoLookup == [id |-> System, inherit |-> FALSE, useDefault |-> FALSE]
Nowhere  == [value |-> Nil, from |-> <<>>]
Working  == {"look", "fetched"}

\* Any tables, and a client that has just started.
Init ==
    /\ conf     \in [Scopes -> SetValues \cup {Unset, Nil}]
    /\ template \in Templates
    /\ cache    = [s \in Asked |-> NotHeld]
    /\ at       = [w \in Workers |-> "idle"]
    /\ lookup   = [w \in Workers |-> NoLookup]
    /\ rest     = [w \in Workers |-> <<>>]
    /\ data     = [w \in Workers |-> Nil]
    /\ result   = [w \in Workers |-> Nowhere]
    /\ changes  = 0
    /\ held     = [w \in Workers |-> {}]
    /\ quiet    = [w \in Workers |-> FALSE]

\* What is held, or on its way, is what the server would answer now.
Coherent ==
    /\ \A s \in Asked : cache[s] \in {NotHeld, ServerAnswer(s)}
    /\ \A w \in Workers : at[w] = "fetched" => data[w] = ServerAnswer(Head(rest[w]))

HoldsValue(c) == {s \in Asked : c[s] \notin {NotHeld, Nil}}

\* GetValue
GetValue(w, l) ==
    /\ at[w] = "idle"
    /\ at'     = [at EXCEPT ![w] = "look"]
    /\ lookup' = [lookup EXCEPT ![w] = l]
    /\ rest'   = [rest EXCEPT ![w] = Chain(l)]
    /\ held'   = [held EXCEPT ![w] = HoldsValue(cache)]
    /\ quiet'  = [quiet EXCEPT ![w] = Coherent]
    /\ UNCHANGED <<server, cache, data, result>>

\* getValueFromScope and getDefaultValue: a value ends the lookup; without
\* one, or with an error, it goes on to the next source.
Take(w, answer) ==
    LET ends == answer # Nil \/ Len(rest[w]) = 1
    IN  /\ at'     = [at EXCEPT ![w] = IF ends THEN "done" ELSE "look"]
        /\ result' = IF answer = Nil THEN result
                     ELSE [result EXCEPT ![w] = [value |-> answer,
                                                 from  |-> Head(rest[w])]]
        /\ rest'   = [rest EXCEPT ![w] = IF ends THEN <<>> ELSE Tail(@)]
        /\ data'   = [data EXCEPT ![w] = Nil]

\* GetConfigCached, GetConfigTemplateCached: an entry that has not expired.
FromCache(w) ==
    /\ at[w] = "look" /\ cache[Head(rest[w])] # NotHeld
    /\ Take(w, cache[Head(rest[w])])
    /\ UNCHANGED <<server, cache, lookup, held, quiet>>

\* There is none, so that the server is asked.
Fetch(w) ==
    /\ at[w] = "look"
    /\ at'   = [at EXCEPT ![w] = "fetched"]
    /\ data' = [data EXCEPT ![w] = ServerAnswer(Head(rest[w]))]
    /\ UNCHANGED <<server, cache, lookup, rest, result, held, quiet>>

\* The server answers with the rows that came before its result set was cut
\* short, and without the path: see AllFieldsReturned of ConfigStore.
FetchCut(w) ==
    /\ at[w] = "look" /\ Lossy /\ changes < MaxChanges
    /\ ServerAnswer(Head(rest[w])) # Nil
    /\ changes' = changes + 1
    /\ at'      = [at EXCEPT ![w] = "fetched"]
    /\ data'    = [data EXCEPT ![w] = Nil]
    /\ quiet'   = [v \in Workers |-> FALSE]
    /\ UNCHANGED <<conf, template, cache, lookup, rest, result, held>>

\* The cache becomes c.
SetCache(c) ==
    /\ cache' = c
    /\ held'  = [w \in Workers |-> held[w] \cap HoldsValue(c)]

Store(w) ==
    /\ at[w] = "fetched"
    /\ SetCache([cache EXCEPT ![Head(rest[w])] = data[w]])
    /\ Take(w, data[w])
    /\ UNCHANGED <<server, lookup, quiet>>

\* Mutant of Fails: no fallback, the next source is asked.
FailsWithoutStale(w) ==
    /\ at[w] \in Working /\ Lossy
    /\ quiet' = [quiet EXCEPT ![w] = FALSE]
    /\ Take(w, Nil)
    /\ UNCHANGED <<server, cache, lookup, held>>

\* The last attempt fails: what the cache holds counts, whatever its age.
\* Without it the error is dropped.
Fails(w) ==
    /\ at[w] \in Working /\ Lossy
    /\ quiet' = [quiet EXCEPT ![w] = FALSE]
    /\ LET entry == cache[Head(rest[w])]
       IN  Take(w, IF entry = NotHeld THEN Nil ELSE entry)
    /\ UNCHANGED <<server, cache, lookup, held>>

Return(w) ==
    /\ at[w] = "done"
    /\ at'     = [at EXCEPT ![w] = "idle"]
    /\ lookup' = [lookup EXCEPT ![w] = NoLookup]
    /\ result' = [result EXCEPT ![w] = Nowhere]
    /\ held'   = [held EXCEPT ![w] = {}]
    /\ quiet'  = [quiet EXCEPT ![w] = FALSE]
    /\ UNCHANGED <<server, cache, rest, data>>

-----------------------------------------------------------------------------
(* The rest of the application, and other clients *)

\* InvalidateCache of one identifier, or ClearCache. ApplyConfigTemplate
\* invalidates nothing, and nothing but ClearCache a template.
Forget ==
    /\ \E s \in Asked :
          SetCache([r \in Asked |->
              IF r = s \/ s = TemplateSource THEN NotHeld ELSE cache[r]])
    /\ UNCHANGED <<server, at, lookup, rest, data, result, quiet>>

Changed ==
    /\ changes < MaxChanges
    /\ changes' = changes + 1
    /\ quiet'   = [w \in Workers |-> FALSE]
    /\ UNCHANGED <<cache, at, lookup, rest, data, result, held>>

\* A publication or a deletion at one scope.
Publish(s) ==
    /\ \E c \in (SetValues \cup {Unset, Nil}) \ {conf[s]} :
          conf' = [conf EXCEPT ![s] = c]
    /\ Changed /\ UNCHANGED template

ApplyConfigTemplate ==
    /\ template' \in Templates \ {template}
    /\ Changed /\ UNCHANGED conf

Worker(w) ==
    \/ \E l \in Lookups : GetValue(w, l)
    \/ FromCache(w) \/ Fetch(w) \/ FetchCut(w) \/ Store(w) \/ Fails(w) \/ Return(w)

Next ==
    \/ \E w \in Workers : Worker(w)
    \/ Forget
    \/ \E s \in Scopes : Publish(s)
    \/ ApplyConfigTemplate

Spec == Init /\ [][Next]_vars

-----------------------------------------------------------------------------
(* Properties *)

\* The scope's ancestors in the hierarchy of value.go:18-22.
Wider(id) ==
    {s \in ScopeNames \ {id.scope} :
        s = "SYSTEM" \/ (s = "PROJECT" /\ id.scope = "STORE" /\ id.project)}

\* The scopes that lookup l may take a value from, ...
Looked(l) == {l.id.scope} \cup (IF l.inherit THEN Wider(l.id) ELSE {})

\* ... and their order.
Nearer(l, s, t) == s = l.id.scope \/ t = "SYSTEM"

\* A value is set at scope s.
IsSet(s) == conf[s] \notin {Unset, Nil}

\* What GetValueOptions promises (value.go:11-22), for the tables as they are:
\* the value that is set at the nearest scope that has one, and only when none
\* is set, and only on request, the template's default.
Promised(l) ==
    LET having  == {s \in Looked(l) : IsSet(s)}
        nearest == CHOOSE s \in having : \A t \in having : s = t \/ Nearer(l, s, t)
    IN  CASE having # {}                   -> conf[nearest]
          [] having = {} /\ l.useDefault   -> template.default
          [] having = {} /\ ~ l.useDefault -> Nil

\* The server fills in the template's default for a scope without a
\* configuration, and no nearer scope has a value.
FilledIn(l) == \E s \in Looked(l) :
    /\ conf[s] = Unset /\ Defaults(s) # Nil
    /\ \A t \in Looked(l) : IsSet(t) => Nearer(l, s, t)

\* A lookup during which the server did not change and no call failed, and
\* whose client held nothing older, finds what is promised for the tables as
\* they are, whatever other lookups and invalidations run beside it. The one
\* way to miss it is a default that the server has filled in (GetValue,
\* value.go:40-71, over getConfig, config_handlers.go:57-112).
QuietLookup == \A w \in Workers : at[w] = "done" /\ quiet[w] =>
    \/ result[w].value = Promised(lookup[w])
    \/ FilledIn(lookup[w]) /\ result[w].value = template.default

\* What value.go:16 and sdks/go/README.md:271-272 say without that exception:
\* parent scopes are asked if the value is not set, and the default is for
\* values that are set nowhere.
PromisedLookup == \A w \in Workers : at[w] = "done" /\ quiet[w] =>
    result[w].value = Promised(lookup[w])

\* As long as the client holds a value of a scope, however old, no failure
\* makes a lookup pass that scope and answer with the value of a wider one, a
\* default or nothing (client.go:202-212 under value.go:46-68).
HeldValueWins == \A w \in Workers : at[w] = "done" =>
    LET chain == Chain(lookup[w])
    IN  \A i \in DOMAIN chain : chain[i] \in held[w] =>
            \E j \in 1 .. i : result[w].from = chain[j]
=============================================================================
