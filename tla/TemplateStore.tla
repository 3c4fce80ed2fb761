--------------------------- MODULE TemplateStore ---------------------------
(***************************************************************************)
(* Configuration templates: config_template and config_template_field, the *)
(* gRPC handlers of pkg/service/template_handlers.go, the seeding of       *)
(* templates when the server starts (cmd/server, pkg/seedloader), and the  *)
(* administration handlers of the HTTP gateway that import, list and       *)
(* switch templates. One action per SQL statement, under the same reading  *)
(* of PostgreSQL as in ConfigStore.                                        *)
(*                                                                         *)
(* A template is never deleted, so a group stands for its row's id.        *)
(***************************************************************************)
EXTENDS Naturals, Sequences

CONSTANTS
    Groups,      \* template groups of one service
    NoGroup,     \* stands for a seed file that cannot be read or parsed
    Paths,       \* field paths
    NoPath,      \* the empty path, a member of Paths
    Labels,      \* labels of groups
    Defaults,    \* default values
    NoDefault,   \* the empty default value, a member of Defaults
    Scopes,      \* scope_enum, a set of strings with "SYSTEM" in it
    Workers,     \* calls in progress in the server and its gateway
    Seeder,      \* the goroutine that starts the gRPC server
    Nobody,      \* the holder of a free lock
    Batches,     \* the sequences of definitions that clients apply
    Seeds,       \* the definitions in the seed files, in file order
    Calls,       \* bound: the kinds of calls that are made
    Faults,      \* environment faults that happen, as in ConfigStore
    MaxStarts    \* bound: how often the server starts

\* Scope names as they are written in files and import requests.
ScopeNames == Scopes \cup {"unknown"}
Unspecified == "SCOPE_UNSPECIFIED"

FieldRow   == [path : Paths, default : Defaults,
               scopes : SUBSET (ScopeNames \cup {Unspecified})]
Definition == [group : Groups \cup {NoGroup}, label : Labels, fields : Seq(FieldRow)]

ASSUME BatchesAssumption == Batches \subseteq Seq(Definition)
ASSUME SeedsAssumption   == Seeds \in Seq(Definition)
ASSUME WorkersAssumption ==
    Seeder \notin Workers /\ Nobody \notin Workers \cup {Seeder}
ASSUME StartsAssumption  == MaxStarts \in Nat \ {0}
ASSUME FieldsAssumption  ==
    NoPath \in Paths /\ NoDefault \in Defaults /\ "SYSTEM" \in Scopes

VARIABLES
    server,    \* the gRPC server: "seeding", then "serving"
    starts,    \* how often it was started
    template,  \* config_template: the row of each group
    fields,    \* config_template_field: the rows of each group
    lock,      \* the transaction that holds a group's row
    at,        \* the next step of each process
    source,    \* who applies the batch: see Sources
    queue,     \* the definitions still to be applied, the current one first
    todo,      \* the fields of the current one not inserted yet
    buf,       \* the fields inserted (uncommitted)
    results,   \* the outcome of each definition so far
    call       \* what a reading call asked for, has read, and answers

tables == <<template, fields>>
applying == <<lock, source, queue, todo, buf, results>>
vars == <<server, starts, template, fields, lock, at, source, queue, todo,
          buf, results, call>>

Processes == Workers \cup {Seeder}

\* The admin import goes on after a failed group; the seed loader and the
\* command line stop.
Sources == {"import", "file"}

-----------------------------------------------------------------------------
(* The tables. *)

NoTemplate == [active |-> FALSE]
Exists(g)  == template[g] # NoTemplate
Rows(fs)   == {fs[i] : i \in DOMAIN fs}

\* config_template_field's constraints: UNIQUE (config_template_id, path) and
\* the type of display_on.
Insertable(f, rows) ==
    /\ \A r \in rows : r.path # f.path
    /\ f.scopes \subseteq Scopes

\* An import drops scope names it does not know ...
ImportedField(f) == [f EXCEPT !.scopes = @ \cap Scopes]

\* ... the loaders of files keep them as SCOPE_UNSPECIFIED.
LoadedField(f) ==
    [f EXCEPT !.scopes = {IF s \in Scopes THEN s ELSE Unspecified : s \in @}]

Converted(src, fs) ==
    [i \in DOMAIN fs |-> IF src = "import" THEN ImportedField(fs[i])
                                           ELSE LoadedField(fs[i])]

-----------------------------------------------------------------------------

NoCall == [op |-> "none"]

Init ==
    /\ server   = "seeding"
    /\ starts   = 1
    /\ template = [g \in Groups |-> NoTemplate]
    /\ fields   = [g \in Groups |-> {}]
    /\ lock     = [g \in Groups |-> Nobody]
    /\ at       = [p \in Processes |-> IF p = Seeder THEN "apply.next" ELSE "idle"]
    /\ source   = [p \in Processes |-> "file"]
    /\ queue    = [p \in Processes |-> IF p = Seeder THEN Seeds ELSE <<>>]
    /\ todo     = [p \in Processes |-> <<>>]
    /\ buf      = [p \in Processes |-> {}]
    /\ results  = [p \in Processes |-> <<>>]
    /\ call     = [w \in Workers |-> NoCall]

Free(g) == lock[g] = Nobody

\* Mutant of Accept: calls are accepted from the moment the port is open.
AcceptWhileSeeding(w, kind) == kind \in Calls /\ at[w] = "idle"

\* The gRPC server accepts the call.
Accept(w, kind) == kind \in Calls /\ server = "serving" /\ at[w] = "idle"

-----------------------------------------------------------------------------
(* Applying templates *)

\* POST /config/templates or the template command, with these definitions.
StartBatch(w, src, batch) ==
    /\ Accept(w, "batch")
    /\ at'      = [at EXCEPT ![w] = "apply.next"]
    /\ source'  = [source EXCEPT ![w] = src]
    /\ queue'   = [queue EXCEPT ![w] = batch]
    /\ call'    = [call EXCEPT ![w] = [op |-> "batch", size |-> Len(batch)]]
    /\ UNCHANGED <<server, starts, tables, lock, todo, buf, results>>

\* Mutant of Outcome: an import gives up after a failed group, too.
OutcomeStops(p, status, committed) ==
    /\ results' = [results EXCEPT ![p] =
                      Append(@, [status |-> status, committed |-> committed])]
    /\ queue'   = [queue EXCEPT ![p] = IF status = "error" THEN <<>> ELSE Tail(@)]
    /\ at'      = [at EXCEPT ![p] = "apply.next"]
    /\ lock'    = [g \in Groups |-> IF lock[g] = p THEN Nobody ELSE lock[g]]
    /\ todo'    = [todo EXCEPT ![p] = <<>>]
    /\ buf'     = [buf EXCEPT ![p] = {}]
    /\ UNCHANGED source

\* Mutant of Outcome: a failed transaction is not rolled back.
OutcomeWithoutRollback(p, status, committed) ==
    /\ results' = [results EXCEPT ![p] =
                      Append(@, [status |-> status, committed |-> committed])]
    /\ queue'   = [queue EXCEPT ![p] =
                      IF status = "error" /\ source[p] = "file" THEN <<>> ELSE Tail(@)]
    /\ at'      = [at EXCEPT ![p] = "apply.next"]
    /\ lock'    = [g \in Groups |->
                      IF lock[g] = p /\ status = "ok" THEN Nobody ELSE lock[g]]
    /\ todo'    = [todo EXCEPT ![p] = <<>>]
    /\ buf'     = [buf EXCEPT ![p] = {}]
    /\ UNCHANGED source

\* One definition is done: its transaction ends, and the caller goes on with
\* the next one or gives up.
Outcome(p, status, committed) ==
    /\ results' = [results EXCEPT ![p] =
                      Append(@, [status |-> status, committed |-> committed])]
    /\ queue'   = [queue EXCEPT ![p] =
                      IF status = "error" /\ source[p] = "file" THEN <<>> ELSE Tail(@)]
    /\ at'      = [at EXCEPT ![p] = "apply.next"]
    /\ lock'    = [g \in Groups |-> IF lock[g] = p THEN Nobody ELSE lock[g]]
    /\ todo'    = [todo EXCEPT ![p] = <<>>]
    /\ buf'     = [buf EXCEPT ![p] = {}]
    /\ UNCHANGED source

\* A definition that is turned down before ApplyConfigTemplate is called.
Rejected(p, d) ==
    \/ d.group = NoGroup
    \/ source[p] = "import" /\ \E f \in Rows(d.fields) : f.path = NoPath

ApplyNext(p) ==
    /\ at[p] = "apply.next" /\ queue[p] # <<>>
    /\ IF Rejected(p, Head(queue[p]))
       THEN Outcome(p, "error", FALSE)
       ELSE at' = [at EXCEPT ![p] = "apply.upsert"] /\ UNCHANGED applying
    /\ UNCHANGED <<server, starts, tables, call>>

\* INSERT INTO config_template ... ON CONFLICT DO UPDATE: waits for a
\* transaction that holds the row or is inserting it.
ApplyUpsert(p) ==
    LET g == Head(queue[p]).group
    IN  /\ at[p] = "apply.upsert" /\ Free(g)
        /\ lock' = [lock EXCEPT ![g] = p]
        /\ at'   = [at EXCEPT ![p] = "apply.delete"]
        /\ UNCHANGED <<server, starts, tables, source, queue, todo, buf, results, call>>

\* Mutant of ApplyDelete: the statement runs on s.db, outside the transaction.
ApplyDeleteOutsideTx(p) ==
    /\ at[p] = "apply.delete"
    /\ at'     = [at EXCEPT ![p] = "apply.fields"]
    /\ buf'    = [buf EXCEPT ![p] = {}]
    /\ todo'   = [todo EXCEPT ![p] = Converted(source[p], Head(queue[p]).fields)]
    /\ fields' = [fields EXCEPT ![Head(queue[p]).group] = {}]
    /\ UNCHANGED <<server, starts, template, lock, source, queue, results, call>>

\* DELETE FROM config_template_field: the transaction sees no fields now.
ApplyDelete(p) ==
    /\ at[p] = "apply.delete"
    /\ at'   = [at EXCEPT ![p] = "apply.fields"]
    /\ buf'  = [buf EXCEPT ![p] = {}]
    /\ todo' = [todo EXCEPT ![p] = Converted(source[p], Head(queue[p]).fields)]
    /\ UNCHANGED <<server, starts, tables, lock, source, queue, results, call>>

ApplyField(p) ==
    /\ at[p] = "apply.fields" /\ todo[p] # <<>>
    /\ IF Insertable(Head(todo[p]), buf[p])
       THEN /\ buf'  = [buf EXCEPT ![p] = @ \cup {Head(todo[p])}]
            /\ todo' = [todo EXCEPT ![p] = Tail(@)]
            /\ UNCHANGED <<lock, source, queue, results, at>>
       ELSE Outcome(p, "error", FALSE)
    /\ UNCHANGED <<server, starts, tables, call>>

\* Mutant of ApplyCommit: the upsert also sets is_active = true.
ApplyCommitActivates(p) ==
    LET d == Head(queue[p])
        g == d.group
    IN  /\ at[p] = "apply.fields" /\ todo[p] = <<>>
        /\ template' = [template EXCEPT ![g] = [label |-> d.label, active |-> TRUE]]
        /\ fields'   = [fields EXCEPT ![g] = buf[p]]
        /\ \/ Outcome(p, "ok", TRUE)
           \/ "commit_ack" \in Faults /\ Outcome(p, "error", TRUE)
        /\ UNCHANGED <<server, starts, call>>

\* The upsert of a known template leaves is_active alone. The answer to a
\* COMMIT that took effect can be lost.
ApplyCommit(p) ==
    LET d == Head(queue[p])
        g == d.group
    IN  /\ at[p] = "apply.fields" /\ todo[p] = <<>>
        /\ template' = [template EXCEPT ![g] =
               [label |-> d.label, active |-> IF Exists(g) THEN @.active ELSE TRUE]]
        /\ fields'   = [fields EXCEPT ![g] = buf[p]]
        /\ \/ Outcome(p, "ok", TRUE)
           \/ "commit_ack" \in Faults /\ Outcome(p, "error", TRUE)
        /\ UNCHANGED <<server, starts, call>>

\* A statement fails and the transaction is rolled back.
ApplyFails(p) ==
    /\ "statement" \in Faults
    /\ at[p] \in {"apply.upsert", "apply.delete", "apply.fields"}
    /\ Outcome(p, "error", FALSE)
    /\ UNCHANGED <<server, starts, tables, call>>

\* The batch is done; the results are sent.
FinishBatch(w) ==
    /\ at[w] = "apply.next" /\ queue[w] = <<>>
    /\ at' = [at EXCEPT ![w] = "reply"]
    /\ UNCHANGED <<server, starts, tables, applying, call>>

-----------------------------------------------------------------------------
(* The server starts. *)

\* Mutant of Serve: an error of the seed loader ends the process.
ServeIfSeeded ==
    /\ at[Seeder] = "apply.next" /\ queue[Seeder] = <<>>
    /\ at'     = [at EXCEPT ![Seeder] = "idle"]
    /\ server' = IF \E i \in DOMAIN results[Seeder] : results[Seeder][i].status = "error"
                 THEN "stopped" ELSE "serving"
    /\ UNCHANGED <<starts, tables, applying, call>>

\* An error of the seed loader is only a warning.
Serve ==
    /\ at[Seeder] = "apply.next" /\ queue[Seeder] = <<>>
    /\ at'     = [at EXCEPT ![Seeder] = "idle"]
    /\ server' = "serving"
    /\ UNCHANGED <<starts, tables, applying, call>>

\* The process dies, PostgreSQL rolls its transactions back, and the process
\* is started again.
Crash ==
    /\ starts < MaxStarts
    /\ starts'  = starts + 1
    /\ server'  = "seeding"
    /\ lock'    = [g \in Groups |-> Nobody]
    /\ at'      = [p \in Processes |-> IF p = Seeder THEN "apply.next" ELSE "idle"]
    /\ source'  = [p \in Processes |-> "file"]
    /\ queue'   = [p \in Processes |-> IF p = Seeder THEN Seeds ELSE <<>>]
    /\ todo'    = [p \in Processes |-> <<>>]
    /\ buf'     = [p \in Processes |-> {}]
    /\ results' = [p \in Processes |-> <<>>]
    /\ call'    = [w \in Workers |-> NoCall]
    /\ UNCHANGED tables

-----------------------------------------------------------------------------
(* Reading templates: two statements, no transaction *)

\* A result set may be cut short by a lost connection. The loops over fields
\* and over flags do not look at rows.Err() after it, and answer with the rows
\* that came. That rows are missing is kept as a ghost, cut.
Fetched(rows) == IF "row_stream" \in Faults THEN SUBSET rows ELSE {rows}

Reading(w, stage, c) ==
    /\ at'   = [at EXCEPT ![w] = stage]
    /\ call' = [call EXCEPT ![w] = c]
    /\ UNCHANGED <<server, starts, tables, applying>>

\* GetConfigTemplate
TemplateRow(w, g) ==
    /\ Accept(w, "template")
    /\ IF Exists(g)
       THEN Reading(w, "template.fields",
                [op |-> "template", group |-> g, label |-> template[g].label,
                 fields |-> {}, cut |-> FALSE])
       ELSE Reading(w, "reply", [op |-> "not found"])

TemplateFields(w) ==
    /\ at[w] = "template.fields"
    /\ LET rows == fields[call[w].group]
       IN  \E got \in Fetched(rows) :
              Reading(w, "reply", [call[w] EXCEPT !.fields = got, !.cut = got # rows])

\* The default values that are shown at a scope.
DefaultsAt(rows, scope, paths) ==
    {[path |-> f.path, value |-> f.default] :
        f \in {r \in rows : /\ r.default # NoDefault
                            /\ r.scopes \cap {scope, "SYSTEM"} # {}
                            /\ r.path \in paths}}

\* getConfig of an identifier without a configuration; use is FALSE when
\* use_template_defaults is false. GetConfigByVersion does not hand it on.
\* The scope and the path asked for matter from the second statement on.
DefaultsRow(w, g, method, use) ==
    /\ Accept(w, "defaults")
    /\ Reading(w,
           IF Exists(g) /\ (use \/ method = "GetConfigByVersion")
           THEN "defaults.fields" ELSE "reply",
           [op |-> "defaults", group |-> g,
            scope |-> "SYSTEM", paths |-> {}, answer |-> {}, cut |-> FALSE])

DefaultsFields(w) ==
    /\ at[w] = "defaults.fields"
    /\ \E scope \in Scopes, paths \in {Paths} \cup {{q} : q \in Paths \ {NoPath}} :
          LET rows == DefaultsAt(fields[call[w].group], scope, paths)
          IN  \E got \in Fetched(rows) :
                 Reading(w, "reply", [call[w] EXCEPT !.scope = scope, !.paths = paths,
                                          !.answer = got, !.cut = got # rows])

\* ListAllTemplates asks ListConfigTemplates, which does not look at the filter
\* is_active that is sent without includeInactive, and then the database for
\* the flags. A template whose flag did not come, because the query or a row
\* failed or the gateway has no database, counts as active.
ListTemplates(w) ==
    /\ Accept(w, "list")
    /\ Reading(w, "list.active",
           [op |-> "list", groups |-> {g \in Groups : Exists(g)}, active |-> {}])

ListActive(w) ==
    LET c == call[w]
        Known == Fetched(c.groups) \cup (IF "statement" \in Faults THEN {{}} ELSE {})
    IN  /\ at[w] = "list.active"
        /\ \E known \in Known : Reading(w, "reply", [c EXCEPT
              !.active = {g \in c.groups : g \in known => template[g].active}])

Return(w) ==
    /\ at[w] = "reply"
    /\ at'      = [at EXCEPT ![w] = "idle"]
    /\ call'    = [call EXCEPT ![w] = NoCall]
    /\ results' = [results EXCEPT ![w] = <<>>]
    /\ UNCHANGED <<server, starts, tables, lock, source, queue, todo, buf>>

\* SetTemplateActive goes to the database, also while the gRPC server starts:
\* one UPDATE, which waits for the row's lock and finds committed rows only.
SetTemplateActive(g, on) ==
    /\ Exists(g) /\ Free(g)
    /\ template' = [template EXCEPT ![g].active = on]
    /\ UNCHANGED <<server, starts, fields, applying, at, call>>

-----------------------------------------------------------------------------

ApplyConfigTemplate(p) ==
    ApplyUpsert(p) \/ ApplyDelete(p) \/ ApplyField(p) \/ ApplyCommit(p)

Read(w) ==
    \/ \E g \in Groups : TemplateRow(w, g)
    \/ \E g \in Groups, method \in {"GetConfig", "GetConfigByVersion"}, use \in BOOLEAN :
          DefaultsRow(w, g, method, use)
    \/ ListTemplates(w)

ReadOn(w) == TemplateFields(w) \/ DefaultsFields(w) \/ ListActive(w)

Next ==
    \/ \E p \in Processes : ApplyNext(p) \/ ApplyConfigTemplate(p) \/ ApplyFails(p)
    \/ \E w \in Workers :
          \/ \E src \in Sources, batch \in Batches : StartBatch(w, src, batch)
          \/ FinishBatch(w) \/ Read(w) \/ ReadOn(w) \/ Return(w)
    \/ \E g \in Groups, on \in BOOLEAN : SetTemplateActive(g, on)
    \/ Serve
    \/ Crash

Spec == Init /\ [][Next]_vars

\* The next step of a process that is in the middle of something.
Proceed(p) ==
    \/ ApplyNext(p) \/ ApplyConfigTemplate(p)
    \/ p \in Workers /\ (FinishBatch(p) \/ ReadOn(p) \/ Return(p))
    \/ p = Seeder /\ Serve

\* The goroutines keep running and the waiters of a row lock are queued.
Fairness == \A p \in Processes : SF_vars(Proceed(p))

FairSpec == Spec /\ Fairness

-----------------------------------------------------------------------------
(* Properties *)

Applying == {"apply.upsert", "apply.delete", "apply.fields"}
Stages   == Applying \cup {"idle", "apply.next", "template.fields",
                           "defaults.fields", "list.active", "reply"}
Results  == [status : {"ok", "error"}, committed : BOOLEAN]

\* Every table and every process has its type.
TypeOK ==
    /\ server   \in {"seeding", "serving"}
    /\ starts   \in 1 .. MaxStarts
    /\ template \in [Groups -> {NoTemplate} \cup [label : Labels, active : BOOLEAN]]
    /\ fields   \in [Groups -> SUBSET FieldRow]
    /\ lock     \in [Groups -> Processes \cup {Nobody}]
    /\ at       \in [Processes -> Stages]
    /\ source   \in [Processes -> Sources]
    /\ queue    \in [Processes -> Seq(Definition)]
    /\ todo     \in [Processes -> Seq(FieldRow)]
    /\ buf      \in [Processes -> SUBSET FieldRow]
    /\ results  \in [Processes -> Seq(Results)]
    /\ \A w \in Workers : call[w].op \in
           {"none", "batch", "not found", "template", "defaults", "list"}

\* The contents a definition has in the tables, from either source.
Content(src, d) == [label |-> d.label, fields |-> Rows(Converted(src, d.fields))]

\* The definitions of a group that pass the constraints of the tables.
Sound(src, d) ==
    /\ ~ (d.group = NoGroup)
    /\ \A i, j \in DOMAIN d.fields : d.fields[i].path = d.fields[j].path => i = j
    /\ \A f \in Rows(Converted(src, d.fields)) : f.scopes \subseteq Scopes

Contents(g) ==
    {Content(e[1], e[2]) : e \in
        {x \in Sources \X (Rows(Seeds) \cup UNION {Rows(b) : b \in Batches}) :
            x[2].group = g /\ Sound(x[1], x[2])}}

Registers == INSTANCE TemplateRegister
    WITH Definitions <- [g \in Groups |-> Contents(g)],
         templates   <- [g \in Groups |->
             IF Exists(g) THEN [label  |-> template[g].label,
                                fields |-> fields[g],
                                active |-> template[g].active]
                          ELSE NoTemplate]

\* Whatever fails, races or crashes, a stored template is one whole definition,
\* only valid ones get in, and no import or restart changes a switch
\* (ApplyConfigTemplate, template_handlers.go:20-94).
ImplementsTemplateRegister == Registers!Spec

\* What was read is the whole set, or a part of it if it was cut short.
PartOf(cut, got, whole) == got \subseteq whole /\ (~ cut => got = whole)

\* The fields that GetConfigTemplate and the default values of getConfig answer
\* with are those of one definition, also while it is replaced: never some of
\* the old and some of the new, and none left out unless the result set was
\* cut short (template_handlers.go:129-180, config_handlers.go:425-441 against
\* the DELETE and INSERTs of template_handlers.go:48-87).
AnswersOfOneDefinition ==
    \A w \in Workers : at[w] = "reply" =>
        LET c == call[w]
        IN  /\ c.op = "template" =>
                  \E d \in Contents(c.group) : PartOf(c.cut, c.fields, d.fields)
            /\ c.op = "defaults" /\ c.answer # {} =>
                  \E d \in Contents(c.group) :
                      PartOf(c.cut, c.answer, DefaultsAt(d.fields, c.scope, c.paths))

\* What a client is told of a batch is true: a definition reported ok was
\* committed, an import reports on every group whatever failed before it, and
\* the loaders of files stop at the first failure and only there
\* (ImportTemplate, template_admin_handlers.go:119-172; loader.go:103-133).
ResultsAreTrue ==
    /\ \A p \in Processes : \A i \in DOMAIN results[p] :
          /\ results[p][i].status = "ok" => results[p][i].committed
          /\ results[p][i].status = "error" /\ source[p] = "file" => i = Len(results[p])
    /\ \A w \in Workers : at[w] = "reply" /\ call[w].op = "batch" =>
          \/ Len(results[w]) = call[w].size
          \/ source[w] = "file" /\ results[w][Len(results[w])].status = "error"

\* The last of the first n seeds that is about group g.
LastSeed(g, n) == CHOOSE i \in 1 .. n :
    Seeds[i].group = g /\ \A j \in i + 1 .. n : Seeds[j].group # g

\* When the server starts to serve, the seeds before the first one that failed
\* are what the tables hold: no client's call came in between
\* (startGRPCServer, main.go:90-101).
SeededBeforeServing == [][server = "seeding" /\ server' = "serving" =>
    LET ok == {i \in DOMAIN results[Seeder] : results[Seeder][i].status = "ok"}
        n  == IF ok = {} THEN 0 ELSE CHOOSE i \in ok : \A j \in ok : j <= i
    IN  \A g \in {Seeds[i].group : i \in 1 .. n} :
            \E i \in {LastSeed(g, n), n + 1} \cap DOMAIN Seeds :
                /\ Seeds[i].group = g
                /\ Content("file", Seeds[i]) = [label  |-> template[g].label,
                                                fields |-> fields[g]]]_vars

\* The server serves in the end, whatever is wrong with the seeds, unless it
\* keeps crashing.
StartupEnds == []<>(server = "serving")

\* Every batch and every read ends, also when others hold the rows it needs.
CallsReturn == \A w \in Workers : []<>(at[w] = "idle")
=============================================================================
