--------------------------- MODULE ConfigService ---------------------------
(***************************************************************************)
(* The gRPC service as its callers meet it: a call names an identifier and *)
(* a version number of 32 bits, and takes effect in one step. ConfigStore  *)
(* and SqliteStore show that the handlers' statements amount to that; this *)
(* module has what they abstract from, the reading of the request, and     *)
(* what the network may do to a call. Gateway and Cli are its callers.     *)
(***************************************************************************)
EXTENDS Integers, Sequences, FiniteSets

CONSTANTS
    Names,       \* service names, group ids, scope ids and user names
    Paths,       \* field paths
    Callers,     \* HTTP requests and commands that are under way at a time
    Shared,      \* the configurations other clients of the service work on
    Faults,      \* what can happen to a call: see FaultKinds
    MaxInt,      \* math.MaxInt32
    MaxVersion   \* bound: no update of a configuration this long

FaultKinds == {"request", "answer", "statement"}
Missing    == ""
Texts      == Names \cup {Missing}

ASSUME NamesAssumption  == Missing \notin Names
ASSUME FaultAssumption  == Faults \subseteq FaultKinds
ASSUME NumberAssumption == MaxInt \in Nat \ {0} /\ MaxVersion \in Nat
ASSUME CallersAssumption == IsFiniteSet(Callers)

VARIABLES
    store,    \* the configurations that exist
    at,       \* how far each caller is
    request,  \* what its user asked of it
    call,     \* the gRPC call it makes for that
    answer,   \* the answer to that call
    out,      \* what it tells its user
    wrote,    \* ghost: what its calls have changed
    during    \* ghost: the published versions its configuration had meanwhile

vars == <<store, at, request, call, answer, out, wrote, during>>

-----------------------------------------------------------------------------
(* The messages *)

Scopes == {"SYSTEM", "PROJECT", "STORE", "USER"}
Unspecified == "SCOPE_UNSPECIFIED"

Identifier == [service : Texts, group : Texts, scope : Scopes \cup {Unspecified},
               project : Texts, store : Texts, user : Texts]

Reads  == {"GetConfig", "GetLatestConfig", "GetConfigByVersion",
           "GetConfigHistory", "GetConfigTemplate"}
Writes == {"UpdateConfig", "PublishVersion"}
MinInt == 0 - MaxInt - 1

\* number is the version or the limit, paths those of the fields.
Call == [op : Reads \cup Writes, id : Identifier, number : MinInt .. MaxInt,
         paths : Seq(Paths)]

\* The codes that the handlers and the network give.
Codes  == {"OK", "InvalidArgument", "NotFound", "Internal", "Unavailable", "Canceled"}
Fields == {"stored", "defaults", "none"}

\* number is the version the answer is about, or the entries of a history.
Answer == [code : Codes, number : Int, published : Nat, fields : Fields]

Error(c) == [code |-> c, number |-> 0, published |-> 0, fields |-> "none"]
NoAnswer == Error("Unavailable")

\* Mutant of Int32: the conversion keeps what does not fit.
Int32Unbounded(n) == n

\* Go's int32(n) of an int, and whether n fits without it
Int32(n)  == ((n - MinInt) % (MaxInt - MinInt + 1)) + MinInt
Fits32(n) == n \in MinInt .. MaxInt

-----------------------------------------------------------------------------
(* getIdentifier: each scope has its own id, the others are ignored. *)

\* Mutant of ScopeId: the ids of two scopes are mixed up.
ScopeIdMixedUp(i) ==
    CASE i.scope = "SYSTEM"  -> "system"
      [] i.scope = "PROJECT" -> i.project
      [] i.scope = "STORE"   -> i.project
      [] i.scope = "USER"    -> i.user
      [] OTHER               -> Missing

ScopeId(i) ==
    CASE i.scope = "SYSTEM"  -> "system"
      [] i.scope = "PROJECT" -> i.project
      [] i.scope = "STORE"   -> i.store
      [] i.scope = "USER"    -> i.user
      [] OTHER               -> Missing

KeyOf(i) == [service |-> i.service, scope |-> i.scope,
             scopeId |-> ScopeId(i), group |-> i.group]

Row   == [latest : Nat \ {0}, published : Nat]
NoRow == [latest |-> 0, published |-> 0]
RowIn(s, k) == IF k \in DOMAIN s THEN s[k] ELSE NoRow

-----------------------------------------------------------------------------
(* What a call does to the row it is about. *)

Existing(row) == 1 .. row.latest

\* getConfig: version > 0, -1, or anything else. A version number is not
\* looked up before its fields are.
FetchedVersion(row, c) ==
    LET want == CASE c.op = "GetConfig"       -> 0
                  [] c.op = "GetLatestConfig" -> -1
                  [] OTHER                    -> c.number
    IN  CASE row = NoRow -> 0
          [] row # NoRow /\ want > 0  -> want
          [] row # NoRow /\ want = -1 -> row.latest
          [] OTHER                    -> row.published

\* Without a version to read, the template's default values, if it has any.
ReadAnswers(row, c) ==
    LET v == FetchedVersion(row, c)
    IN  {[code |-> "OK", number |-> v, published |-> row.published, fields |-> f] :
            f \in CASE v = 0                -> {"defaults", "none"}
                    [] v \in Existing(row)  -> {"stored"}
                    [] OTHER                -> {"none"}}

\* limit <= 0 counts as the default, 10 entries.
HistoryAnswers(row, c) ==
    LET limit == IF c.number <= 0 THEN 10 ELSE c.number
        Count == IF limit < row.latest THEN limit ELSE row.latest
    IN  {[code |-> "OK", number |-> Count, published |-> 0, fields |-> "none"]}

TemplateAnswers ==
    {[code |-> "OK", number |-> 0, published |-> 0, fields |-> "defaults"],
     Error("NotFound")}

Repeats(paths) ==
    \E i, j \in DOMAIN paths : i # j /\ paths[i] = paths[j]

\* Mutant of Accepted: version 0 is taken for "unpublish", as a comment says.
AcceptedZero(row, c) ==
    CASE c.op = "UpdateConfig"   -> ~Repeats(c.paths)
      [] c.op = "PublishVersion" -> c.number \in {0} \cup Existing(row)
      [] OTHER                   -> FALSE

\* The writes that are carried out; the others leave no trace.
Accepted(row, c) ==
    CASE c.op = "UpdateConfig"   -> ~Repeats(c.paths)
      [] c.op = "PublishVersion" -> c.number \in Existing(row)
      [] OTHER                   -> FALSE

Written(row, c) ==
    IF c.op = "UpdateConfig"
    THEN [row EXCEPT !.latest = @ + 1]
    ELSE [row EXCEPT !.published = c.number]

\* UpdateConfig does not tell the published version.
WriteAnswer(row, c) ==
    CASE ~Accepted(row, c) ->
            Error(IF c.op = "UpdateConfig" THEN "Internal" ELSE "NotFound")
      [] c.op = "UpdateConfig" /\ Accepted(row, c) ->
            [code |-> "OK", number |-> row.latest + 1, published |-> 0,
             fields |-> "stored"]
      [] OTHER ->
            [code |-> "OK", number |-> c.number, published |-> c.number,
             fields |-> "none"]

Answers(row, c) ==
    CASE c.op = "GetConfigTemplate" -> TemplateAnswers
      [] c.op # "GetConfigTemplate" /\ ScopeId(c.id) = Missing ->
            {Error("InvalidArgument")}
      [] c.op = "GetConfigHistory" /\ ScopeId(c.id) # Missing ->
            HistoryAnswers(row, c)
      [] c.op \in Writes /\ ScopeId(c.id) # Missing -> {WriteAnswer(row, c)}
      [] OTHER -> ReadAnswers(row, c)

-----------------------------------------------------------------------------
(* The state and its changes. *)

Calling  == {"call", "answered"}
NoCall   == [op |-> "GetConfig", number |-> 0, paths |-> <<>>,
             id |-> [service |-> Missing, group |-> Missing, scope |-> Unspecified,
                     project |-> Missing, store |-> Missing, user |-> Missing]]
NoRequest == [kind |-> "none"]
Silent    == [status |-> "none", sections |-> <<>>]

InitService ==
    /\ store   = [k \in {} |-> NoRow]
    /\ at      = [w \in Callers |-> "idle"]
    /\ request = [w \in Callers |-> NoRequest]
    /\ call    = [w \in Callers |-> NoCall]
    /\ answer  = [w \in Callers |-> NoAnswer]
    /\ out     = [w \in Callers |-> Silent]
    /\ wrote   = [w \in Callers |-> {}]
    /\ during  = [w \in Callers |-> {}]

\* The row of configuration k becomes row; NoRow is its deletion. Callers
\* that are about k meanwhile have seen the new published version.
SetRow(k, row) ==
    /\ store' = [l \in IF row = NoRow THEN DOMAIN store \ {k}
                                      ELSE DOMAIN store \cup {k} |->
                    IF l = k THEN row ELSE store[l]]
    /\ during' = [w \in Callers |->
                    IF at[w] \in Calling /\ KeyOf(call[w].id) = k
                    THEN during[w] \cup {row.published} ELSE during[w]]

Effect(w) == [op |-> call[w].op, key |-> KeyOf(call[w].id),
              version |-> IF call[w].op = "UpdateConfig"
                          THEN RowIn(store, KeyOf(call[w].id)).latest + 1
                          ELSE call[w].number]

\* The updates of k that are under way count for the bound.
Room(k) ==
    LET underWay == {w \in Callers : at[w] = "call" /\ call[w].op = "UpdateConfig"
                                                   /\ KeyOf(call[w].id) = k}
    IN  RowIn(store, k).latest + Cardinality(underWay) < MaxVersion

\* What the network tells a caller that gets no answer: the server is gone,
\* or, since the gateway passes the request's context on, its user is.
Unanswered(w) ==
    {Error("Unavailable")} \cup
    (IF request[w].kind = "http" THEN {Error("Canceled")} ELSE {})

\* The handler runs. A lost answer leaves its effect, and so does a COMMIT
\* that has happened though its answer to the handler was lost.
Serve(w) ==
    LET c   == call[w]
        k   == KeyOf(c.id)
        row == RowIn(store, k)
        takes == c.op \in Writes /\ ScopeId(c.id) # Missing /\ Accepted(row, c)
    IN  /\ at[w] = "call"
        /\ at' = [at EXCEPT ![w] = "answered"]
        /\ \E a \in Answers(row, c)
                    \cup (IF "answer" \in Faults THEN Unanswered(w) ELSE {})
                    \cup (IF "statement" \in Faults /\ takes THEN {Error("Internal")} ELSE {}) :
              answer' = [answer EXCEPT ![w] = a]
        /\ IF takes
           THEN SetRow(k, Written(row, c)) /\ wrote' = [wrote EXCEPT ![w] = @ \cup {Effect(w)}]
           ELSE UNCHANGED <<store, during, wrote>>
        /\ UNCHANGED <<request, call, out>>

\* The request is lost, or a statement of the handler fails: no effect.
ServeFails(w) ==
    /\ at[w] = "call"
    /\ at' = [at EXCEPT ![w] = "answered"]
    /\ \E a \in (IF "request" \in Faults THEN Unanswered(w) ELSE {})
              \cup (IF "statement" \in Faults THEN {Error("Internal")} ELSE {}) :
          answer' = [answer EXCEPT ![w] = a]
    /\ UNCHANGED <<store, request, call, out, wrote, during>>

\* The other clients of the service: SDKs, further gateways.
OthersAct ==
    /\ \E k \in Shared :
          LET row == RowIn(store, k)
          IN  \/ Room(k) /\ SetRow(k, [row EXCEPT !.latest = @ + 1])
              \/ \E v \in Existing(row) \ {row.published} :
                    SetRow(k, [row EXCEPT !.published = v])
              \/ row # NoRow /\ SetRow(k, NoRow)
    /\ UNCHANGED <<at, request, call, answer, out, wrote>>

-----------------------------------------------------------------------------
(* What callers do. *)

\* Go on with a gRPC call.
MakeCall(w, c) ==
    /\ c.op = "UpdateConfig" => Room(KeyOf(c.id))
    /\ at'     = [at EXCEPT ![w] = "call"]
    /\ call'   = [call EXCEPT ![w] = c]
    /\ during' = [during EXCEPT ![w] = @ \cup {RowIn(store, KeyOf(c.id)).published}]
    /\ UNCHANGED <<store, answer, wrote>>

\* Tell the user how it went, and what is shown with it.
Tell(w, status, sections) ==
    /\ at'  = [at EXCEPT ![w] = "done"]
    /\ out' = [out EXCEPT ![w] = [status |-> status, sections |-> sections]]
    /\ UNCHANGED <<store, call, answer, wrote, during>>

Done(w) ==
    /\ at[w] = "done"
    /\ at'      = [at EXCEPT ![w] = "idle"]
    /\ request' = [request EXCEPT ![w] = NoRequest]
    /\ call'    = [call EXCEPT ![w] = NoCall]
    /\ answer'  = [answer EXCEPT ![w] = NoAnswer]
    /\ out'     = [out EXCEPT ![w] = Silent]
    /\ wrote'   = [wrote EXCEPT ![w] = {}]
    /\ during'  = [during EXCEPT ![w] = {}]
    /\ UNCHANGED store
=============================================================================
