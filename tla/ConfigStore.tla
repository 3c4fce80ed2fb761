---------------------------- MODULE ConfigStore ----------------------------
(***************************************************************************)
(* The versioned configuration store: the three config tables and the      *)
(* gRPC handlers of pkg/service/config_handlers.go that read and write     *)
(* them, one action per SQL statement.                                     *)
(*                                                                         *)
(* Handlers run concurrently, one goroutine per call, against PostgreSQL   *)
(* in its default READ COMMITTED isolation:                                *)
(*   - a statement sees what was committed when it started, so the rows    *)
(*     below hold committed data only and a transaction keeps its own      *)
(*     uncommitted writes in ver, buf and lock until it commits;           *)
(*   - UPDATE, DELETE and SELECT ... FOR UPDATE find a row first and then  *)
(*     wait for its lock; a row that went away meanwhile is skipped;       *)
(*   - INSERT waits for an uncommitted row with the same unique key and    *)
(*     fails when that row is committed.                                   *)
(* An identifier's row lock and its uncommitted unique-index entry are     *)
(* both held by at most one transaction, so one lock per identifier        *)
(* stands for both.                                                        *)
(***************************************************************************)
EXTENDS Integers, Sequences, FiniteSets

CONSTANTS
    Keys,        \* identifiers: (service_name, scope, scope_id, group_id)
    Handlers,    \* concurrent gRPC calls
    Paths,       \* field paths
    Values,      \* field values
    Requests,    \* the Fields arguments of UpdateConfig that are tried
    NoHandler,   \* the holder of a free lock
    Faults,      \* environment faults that happen: see FaultKinds
    MaxId,       \* bound: no update starts once this many ids are used up
    MaxVersion   \* bound: no update starts on a configuration this long

Field      == [path : Paths, value : Values]
FaultKinds == {"statement", "commit_ack", "row_stream"}

ASSUME RequestsAssumption  == Requests \subseteq Seq(Field)
ASSUME HandlersAssumption  == NoHandler \notin Handlers
ASSUME FaultsAssumption    == Faults \subseteq FaultKinds
ASSUME BoundsAssumption    == MaxId \in Nat /\ MaxVersion \in Nat

VARIABLES
    cv,       \* config_version: the row of each identifier
    nextId,   \* the sequence behind config_version.id
    history,  \* config_version_history: its (config_version_id, version) pairs
    audited,  \* the pairs of history whose published_at is set
    field,    \* config_field
    lock,     \* the transaction that holds an identifier's row
    at,       \* the next statement of each call
    key,      \* the identifier the call is about
    rid,      \* the row id it found or inserted
    ver,      \* the version it writes, publishes or reads
    todo,     \* UpdateConfig: the fields not inserted yet
    buf,      \* the field rows it inserted (uncommitted) or fetched
    only,     \* getConfig: the paths it selects, all unless req.Path is set
    answer,   \* what it tells the client: a status, or where its fields are from
    log       \* ghost: every version ever committed, with its fields

tables == <<cv, nextId, history, audited, field, log>>
vars == <<cv, nextId, history, audited, field, lock,
          at, key, rid, ver, todo, buf, only, answer, log>>

-----------------------------------------------------------------------------
(* The schema. *)

NULL  == -1      \* SQL NULL in published_version
NoRow == [id |-> 0, latest |-> 0, published |-> NULL]

Row       == [id : Nat, latest : Int, published : Int]
FieldRow  == [id : Nat, version : Int, path : Paths, value : Values]
Exists(k) == cv[k].id # 0

\* config_field rows of version v of row i, as the fields the query returns
FieldsOf(i, v) ==
    {[path |-> r.path, value |-> r.value] :
        r \in {s \in field : s.id = i /\ s.version = v}}

HistoryOf(i) == {p[2] : p \in {q \in history : q[1] = i}}

-----------------------------------------------------------------------------
(* Steps every handler is made of. *)

Goto(h, from, to) == at[h] = from /\ at' = [at EXCEPT ![h] = to]

\* Mutant of Reply: an early return that forgets tx.Rollback.
ReplyWithoutRollback(h, c, fields) ==
    /\ at'     = [at EXCEPT ![h] = "reply"]
    /\ answer' = [answer EXCEPT ![h] = c]
    /\ lock'   = [k \in Keys |->
                     IF lock[k] = h /\ c # "NotFound" THEN NoHandler ELSE lock[k]]
    /\ rid'    = [rid EXCEPT ![h] = 0]
    /\ ver'    = [ver EXCEPT ![h] = 0]
    /\ todo'   = [todo EXCEPT ![h] = <<>>]
    /\ buf'    = [buf EXCEPT ![h] = fields]

\* The call answers c, with these fields; its transaction, if it has one, is
\* over and so is what it locked.
Reply(h, c, fields) ==
    /\ at'     = [at EXCEPT ![h] = "reply"]
    /\ answer' = [answer EXCEPT ![h] = c]
    /\ lock'   = [k \in Keys |-> IF lock[k] = h THEN NoHandler ELSE lock[k]]
    /\ rid'    = [rid EXCEPT ![h] = 0]
    /\ ver'    = [ver EXCEPT ![h] = 0]
    /\ todo'   = [todo EXCEPT ![h] = <<>>]
    /\ buf'    = [buf EXCEPT ![h] = fields]

Fail(h, c) == Reply(h, c, {})

Free(k) == lock[k] = NoHandler

\* The row a statement found is still there once its lock is granted.
StillThere(h) == Exists(key[h]) /\ cv[key[h]].id = rid[h]

TxStages == {"update.lock", "update.insert", "update.bump", "update.history",
             "update.fields", "publish.lock", "publish.mark",
             "publish.commit", "delete.lock"}
Stages == TxStages \cup {"idle", "get.fields", "reply"}

Init ==
    /\ cv      = [k \in Keys |-> NoRow]
    /\ nextId  = 1
    /\ history = {}
    /\ audited = {}
    /\ field   = {}
    /\ log     = {}
    /\ lock    = [k \in Keys |-> NoHandler]
    /\ at      = [h \in Handlers |-> "idle"]
    /\ key     \in [Handlers -> Keys]
    /\ rid     = [h \in Handlers |-> 0]
    /\ ver     = [h \in Handlers |-> 0]
    /\ todo    = [h \in Handlers |-> <<>>]
    /\ buf     = [h \in Handlers |-> {}]
    /\ only    = [h \in Handlers |-> Paths]
    /\ answer  = [h \in Handlers |-> "none"]

-----------------------------------------------------------------------------
(* UpdateConfig *)

\* BeginTx and SELECT id, latest_version ... FOR UPDATE, up to finding a row.
UpdateSelect(h, k) ==
    /\ nextId <= MaxId /\ cv[k].latest < MaxVersion
    /\ Goto(h, "idle", IF Exists(k) THEN "update.lock" ELSE "update.insert")
    /\ key' = [key EXCEPT ![h] = k]
    /\ rid' = [rid EXCEPT ![h] = cv[k].id]
    /\ UNCHANGED <<tables, lock, ver, todo, buf, only, answer>>

\* Mutant of UpdateLock: the SELECT has no FOR UPDATE.
UpdateLockWithoutForUpdate(h) ==
    /\ IF StillThere(h)
       THEN /\ Goto(h, "update.lock", "update.bump")
            /\ ver' = [ver EXCEPT ![h] = cv[key[h]].latest + 1]
       ELSE Goto(h, "update.lock", "update.insert") /\ UNCHANGED ver
    /\ UNCHANGED <<tables, lock, key, rid, todo, buf, only, answer>>

\* The row is locked; if it was deleted meanwhile the query returns no row.
UpdateLock(h) ==
    /\ Free(key[h])
    /\ IF StillThere(h)
       THEN /\ Goto(h, "update.lock", "update.bump")
            /\ lock' = [lock EXCEPT ![key[h]] = h]
            /\ ver'  = [ver EXCEPT ![h] = cv[key[h]].latest + 1]
       ELSE Goto(h, "update.lock", "update.insert") /\ UNCHANGED <<lock, ver>>
    /\ UNCHANGED <<tables, key, rid, todo, buf, only, answer>>

\* Mutant of UpdateInsert: ids of deleted rows are handed out again.
UpdateInsertReusesIds(h) ==
    /\ at[h] = "update.insert" /\ Free(key[h])
    /\ nextId' = nextId + 1
    /\ \/ Exists(key[h]) /\ Fail(h, "Internal")
       \/ /\ ~Exists(key[h])
          /\ Goto(h, "update.insert", "update.history")
          /\ lock' = [lock EXCEPT ![key[h]] = h]
          /\ rid'  = [rid EXCEPT ![h] =
                        CHOOSE i \in 1 .. nextId : \A k \in Keys : cv[k].id # i]
          /\ ver'  = [ver EXCEPT ![h] = 1]
          /\ UNCHANGED <<todo, buf, answer>>
    /\ UNCHANGED <<cv, history, audited, field, log, key, only>>

\* INSERT INTO config_version: draws an id even when the identifier is taken.
UpdateInsert(h) ==
    /\ at[h] = "update.insert" /\ Free(key[h])
    /\ nextId' = nextId + 1
    /\ \/ Exists(key[h]) /\ Fail(h, "Internal")
       \/ /\ ~Exists(key[h])
          /\ Goto(h, "update.insert", "update.history")
          /\ lock' = [lock EXCEPT ![key[h]] = h]
          /\ rid'  = [rid EXCEPT ![h] = nextId]
          /\ ver'  = [ver EXCEPT ![h] = 1]
          /\ UNCHANGED <<todo, buf, answer>>
    /\ UNCHANGED <<cv, history, audited, field, log, key, only>>

\* Mutant of UpdateBump: the statement runs on s.db, outside the transaction.
UpdateBumpOutsideTx(h) ==
    /\ Goto(h, "update.bump", "update.history")
    /\ cv' = [cv EXCEPT ![key[h]].latest = ver[h]]
    /\ UNCHANGED <<nextId, history, audited, field, log,
                   lock, key, rid, ver, todo, buf, only, answer>>

\* UPDATE config_version SET latest_version = ver WHERE id = rid
UpdateBump(h) ==
    /\ Goto(h, "update.bump", "update.history")
    /\ lock[key[h]] \in {NoHandler, h}
    /\ lock' = [lock EXCEPT ![key[h]] = h]
    /\ UNCHANGED <<tables, key, rid, ver, todo, buf, only, answer>>

\* INSERT INTO config_version_history, UNIQUE (config_version_id, version).
\* The request's fields are read from here on, so they are chosen here.
UpdateHistory(h) ==
    /\ at[h] = "update.history"
    /\ IF <<rid[h], ver[h]>> \in history
       THEN Fail(h, "Internal")
       ELSE /\ Goto(h, "update.history", "update.fields")
            /\ \E fields \in Requests : todo' = [todo EXCEPT ![h] = fields]
            /\ UNCHANGED <<rid, ver, buf, answer, lock>>
    /\ UNCHANGED <<tables, key, only>>

\* One INSERT INTO config_field, UNIQUE (config_version_id, version, path).
UpdateField(h) ==
    /\ at[h] = "update.fields" /\ todo[h] # <<>>
    /\ LET f == Head(todo[h])
       IN  IF \E g \in buf[h] : g.path = f.path
           THEN Fail(h, "Internal")
           ELSE /\ buf'  = [buf EXCEPT ![h] = @ \cup {f}]
                /\ todo' = [todo EXCEPT ![h] = Tail(@)]
                /\ UNCHANGED <<at, rid, ver, answer, lock>>
    /\ UNCHANGED <<tables, key, only>>

\* Mutant of CommitCodes: the error of tx.Commit is returned as it is.
UnwrappedCommitCodes == {"OK", "Unknown"}

\* The answer to a COMMIT that took effect can still be lost on the way back.
CommitCodes == IF "commit_ack" \in Faults THEN {"OK", "Internal"} ELSE {"OK"}

\* Mutant of UpdateCommit: a new version's fields replace those of the same
\* path in every other version.
UpdateCommitOverwrites(h) ==
    LET k == key[h]
        v == ver[h]
    IN  /\ at[h] = "update.fields" /\ todo[h] = <<>>
        /\ cv'      = [cv EXCEPT ![k] = [id        |-> rid[h],
                                         latest    |-> v,
                                         published |-> @.published]]
        /\ history' = history \cup {<<rid[h], v>>}
        /\ field'   = {r \in field : r.id = rid[h] =>
                          \A f \in buf[h] : f.path # r.path} \cup
                {[id |-> rid[h], version |-> v, path |-> f.path,
                  value |-> f.value] : f \in buf[h]}
        /\ log'     = log \cup {[id |-> rid[h], version |-> v, fields |-> buf[h]]}
        /\ \E c \in CommitCodes : Reply(h, c, {})
        /\ UNCHANGED <<nextId, audited, key, only>>

\* Mutant of UpdateCommit: INSERT OR REPLACE loses the row's published_version.
UpdateCommitUnpublishes(h) ==
    LET k == key[h]
        v == ver[h]
    IN  /\ at[h] = "update.fields" /\ todo[h] = <<>>
        /\ cv'      = [cv EXCEPT ![k] = [id        |-> rid[h],
                                         latest    |-> v,
                                         published |-> NULL]]
        /\ history' = history \cup {<<rid[h], v>>}
        /\ field'   = field \cup
                {[id |-> rid[h], version |-> v, path |-> f.path,
                  value |-> f.value] : f \in buf[h]}
        /\ log'     = log \cup {[id |-> rid[h], version |-> v, fields |-> buf[h]]}
        /\ \E c \in CommitCodes : Reply(h, c, {})
        /\ UNCHANGED <<nextId, audited, key, only>>

UpdateCommit(h) ==
    LET k == key[h]
        v == ver[h]
    IN  /\ at[h] = "update.fields" /\ todo[h] = <<>>
        /\ cv'      = [cv EXCEPT ![k] = [id        |-> rid[h],
                                         latest    |-> v,
                                         published |-> @.published]]
        /\ history' = history \cup {<<rid[h], v>>}
        /\ field'   = field \cup
                {[id |-> rid[h], version |-> v, path |-> f.path,
                  value |-> f.value] : f \in buf[h]}
        /\ log'     = log \cup {[id |-> rid[h], version |-> v, fields |-> buf[h]]}
        /\ \E c \in CommitCodes : Reply(h, c, {})
        /\ UNCHANGED <<nextId, audited, key, only>>

-----------------------------------------------------------------------------
(* PublishVersion *)

\* BeginTx and UPDATE config_version ..., up to finding a row.
PublishFind(h, k) ==
    /\ at[h] = "idle"
    /\ key' = [key EXCEPT ![h] = k]
    /\ IF Exists(k)
       THEN /\ Goto(h, "idle", "publish.lock")
            /\ rid' = [rid EXCEPT ![h] = cv[k].id]
            /\ UNCHANGED <<ver, todo, buf, answer, lock>>
       ELSE Fail(h, "NotFound")
    /\ UNCHANGED <<tables, only>>

\* The row is locked and published_version set, to any int32 asked for.
PublishLock(h) ==
    /\ at[h] = "publish.lock" /\ Free(key[h])
    /\ IF StillThere(h)
       THEN /\ Goto(h, "publish.lock", "publish.mark")
            /\ lock' = [lock EXCEPT ![key[h]] = h]
            /\ \E v \in 0 .. MaxVersion + 1 : ver' = [ver EXCEPT ![h] = v]
            /\ UNCHANGED <<rid, todo, buf, answer>>
       ELSE Fail(h, "NotFound")
    /\ UNCHANGED <<tables, key, only>>

\* Mutant of PublishMark: RowsAffected is not looked at.
PublishMarkUnchecked(h) ==
    /\ Goto(h, "publish.mark", "publish.commit")
    /\ UNCHANGED <<rid, ver, todo, buf, answer, lock, tables, key, only>>

\* UPDATE config_version_history SET published_by, published_at; no such
\* version rolls the published_version back.
PublishMark(h) ==
    /\ at[h] = "publish.mark"
    /\ IF <<rid[h], ver[h]>> \in history
       THEN /\ Goto(h, "publish.mark", "publish.commit")
            /\ UNCHANGED <<rid, ver, todo, buf, answer, lock>>
       ELSE Fail(h, "NotFound")
    /\ UNCHANGED <<tables, key, only>>

PublishCommit(h) ==
    /\ at[h] = "publish.commit"
    /\ cv'      = [cv EXCEPT ![key[h]].published = ver[h]]
    /\ audited' = audited \cup {<<rid[h], ver[h]>>}
    /\ \E c \in CommitCodes : Reply(h, c, {})
    /\ UNCHANGED <<nextId, history, field, log, key, only>>

-----------------------------------------------------------------------------
(* DeleteConfig: a single statement outside a transaction. *)

DeleteFind(h, k) ==
    /\ at[h] = "idle"
    /\ key' = [key EXCEPT ![h] = k]
    /\ IF Exists(k)
       THEN /\ Goto(h, "idle", "delete.lock")
            /\ rid' = [rid EXCEPT ![h] = cv[k].id]
            /\ UNCHANGED <<ver, todo, buf, answer, lock>>
       ELSE Fail(h, "NotFound")
    /\ UNCHANGED <<tables, only>>

\* Mutant of DeleteRow: config_field has no ON DELETE CASCADE.
DeleteRowKeepsFields(h) ==
    /\ at[h] = "delete.lock" /\ Free(key[h])
    /\ IF StillThere(h)
       THEN /\ cv'      = [cv EXCEPT ![key[h]] = NoRow]
            /\ history' = {p \in history : p[1] # rid[h]}
            /\ audited' = {p \in audited : p[1] # rid[h]}
            /\ \E c \in CommitCodes : Reply(h, c, {})
       ELSE Fail(h, "NotFound") /\ UNCHANGED <<cv, history, audited>>
    /\ UNCHANGED <<field, nextId, log, key, only>>

\* ON DELETE CASCADE takes the row's history and fields along.
DeleteRow(h) ==
    /\ at[h] = "delete.lock" /\ Free(key[h])
    /\ IF StillThere(h)
       THEN /\ cv'      = [cv EXCEPT ![key[h]] = NoRow]
            /\ history' = {p \in history : p[1] # rid[h]}
            /\ audited' = {p \in audited : p[1] # rid[h]}
            /\ field'   = {r \in field : r.id # rid[h]}
            /\ \E c \in CommitCodes : Reply(h, c, {})
       ELSE Fail(h, "NotFound") /\ UNCHANGED <<cv, history, audited, field>>
    /\ UNCHANGED <<nextId, log, key, only>>

-----------------------------------------------------------------------------
(* getConfig: two statements, no transaction. *)

Published == 0     \* the version argument of GetConfig
Latest    == -1    \* of GetLatestConfig; a positive one is GetConfigByVersion

\* SELECT ... FROM config_version. Without a row, or without a published
\* version when that one is asked for, the answer is the template's defaults
\* or nothing, and no config_field row is read.
GetRow(h, k, want) ==
    /\ at[h] = "idle"
    /\ key' = [key EXCEPT ![h] = k]
    /\ IF Exists(k) /\ (want = Published => cv[k].published # NULL)
       THEN /\ Goto(h, "idle", "get.fields")
            /\ rid' = [rid EXCEPT ![h] = cv[k].id]
            /\ ver' = [ver EXCEPT ![h] = CASE want > 0         -> want
                                           [] want = Latest    -> cv[k].latest
                                           [] want = Published -> cv[k].published]
            /\ UNCHANGED <<todo, buf, answer, lock>>
       ELSE Fail(h, "Template")
    /\ UNCHANGED <<tables, only>>

\* Mutant of GetFields: the version is read again from config_version.
GetFieldsOfLatest(h) ==
    /\ at[h] = "get.fields"
    /\ LET v == IF StillThere(h) THEN cv[key[h]].latest ELSE ver[h]
       IN  Reply(h, "Stored", FieldsOf(rid[h], v))
    /\ UNCHANGED <<tables, key, only>>

\* SELECT path, value FROM config_field [AND path = req.Path]. rows.Err() is
\* not looked at after the loop, so a result set cut short is answered as if
\* it were complete.
GetFields(h) ==
    /\ at[h] = "get.fields"
    /\ \E paths \in {Paths} \cup {{p} : p \in Paths} :
          LET rows == {f \in FieldsOf(rid[h], ver[h]) : f.path \in paths}
          IN  /\ only' = [only EXCEPT ![h] = paths]
              /\ \E got \in (IF "row_stream" \in Faults
                             THEN SUBSET rows ELSE {rows}) :
                    Reply(h, "Stored", got)
    /\ UNCHANGED <<tables, key>>

-----------------------------------------------------------------------------
(* A statement fails (connection lost, context cancelled, server stopped):  *)
(* the deferred tx.Rollback undoes everything the transaction wrote.        *)
StatementFails(h) ==
    /\ "statement" \in Faults
    /\ at[h] \in TxStages \cup {"get.fields"}
    /\ Fail(h, "Internal")
    /\ UNCHANGED <<tables, key, only>>

\* The goroutine of the call ends.
Return(h) ==
    /\ Goto(h, "reply", "idle")
    /\ answer' = [answer EXCEPT ![h] = "none"]
    /\ buf'    = [buf EXCEPT ![h] = {}]
    /\ only'   = [only EXCEPT ![h] = Paths]
    /\ UNCHANGED <<tables, lock, key, rid, ver, todo>>

UpdateConfig(h) ==
    \/ \E k \in Keys : UpdateSelect(h, k)
    \/ UpdateLock(h) \/ UpdateInsert(h) \/ UpdateBump(h)
    \/ UpdateHistory(h) \/ UpdateField(h) \/ UpdateCommit(h)

PublishVersion(h) ==
    \/ \E k \in Keys : PublishFind(h, k)
    \/ PublishLock(h) \/ PublishMark(h) \/ PublishCommit(h)

DeleteConfig(h) ==
    \/ \E k \in Keys : DeleteFind(h, k)
    \/ DeleteRow(h)

GetConfig(h) ==
    \/ \E k \in Keys, want \in Latest .. MaxVersion : GetRow(h, k, want)
    \/ GetFields(h)

Step(h) ==
    \/ UpdateConfig(h) \/ PublishVersion(h) \/ DeleteConfig(h) \/ GetConfig(h)
    \/ StatementFails(h) \/ Return(h)

Next == \E h \in Handlers : Step(h)

Spec == Init /\ [][Next]_vars

\* The next statement of an open call.
Proceed(h) ==
    \/ UpdateLock(h) \/ UpdateInsert(h) \/ UpdateBump(h) \/ UpdateHistory(h)
    \/ UpdateField(h) \/ UpdateCommit(h)
    \/ PublishLock(h) \/ PublishMark(h) \/ PublishCommit(h) \/ DeleteRow(h)
    \/ GetFields(h) \/ Return(h)

\* A goroutine keeps running while its call is open, and PostgreSQL queues
\* the waiters of a row lock, so none of them is passed over for ever.
Fairness == \A h \in Handlers : SF_vars(Proceed(h))

FairSpec == Spec /\ Fairness

-----------------------------------------------------------------------------
(* Properties *)

Live(i) == i # 0 /\ \E k \in Keys : cv[k].id = i

Answers == {"none", "OK", "Internal", "NotFound", "Stored", "Template"}

TablesTypeOK ==
    /\ cv      \in [Keys -> Row]
    /\ nextId  \in Nat \ {0}
    /\ history \subseteq Nat \X Int
    /\ audited \subseteq Nat \X Int
    /\ field   \subseteq FieldRow
    /\ log     \subseteq [id : Nat, version : Int, fields : SUBSET Field]

CallsTypeOK ==
    /\ lock   \in [Keys -> Handlers \cup {NoHandler}]
    /\ at     \in [Handlers -> Stages]
    /\ key    \in [Handlers -> Keys]
    /\ rid    \in [Handlers -> Nat]
    /\ ver    \in [Handlers -> Int]
    /\ todo   \in [Handlers -> Seq(Field)]
    /\ buf    \in [Handlers -> SUBSET Field]
    /\ only   \in [Handlers -> SUBSET Paths]
    /\ answer \in [Handlers -> Answers]

\* Every table and every call's state has its type.
TypeOK == TablesTypeOK /\ CallsTypeOK

\* The versions in a configuration's history are exactly 1 .. latest_version,
\* whatever updates, deletes and failures raced: none is skipped, lost or
\* numbered twice (UpdateConfig, config_handlers.go:188-214).
VersionsGapless ==
    \A k \in Keys : Exists(k) => HistoryOf(cv[k].id) = 1 .. cv[k].latest

\* A published version is one of the configuration's own committed versions
\* and has its publication audit (PublishVersion, config_handlers.go:264-289).
PublishedIsCommitted ==
    \A k \in Keys : cv[k].published # NULL =>
        <<cv[k].id, cv[k].published>> \in history \cap audited

\* No two identifiers share a row, and no history or field row outlives the
\* row it belongs to (the ON DELETE CASCADE of DeleteConfig against an
\* UpdateConfig that is about to commit).
NoOrphans ==
    /\ \A k, l \in Keys : Exists(k) /\ cv[k].id = cv[l].id => k = l
    /\ audited \subseteq history
    /\ \A p \in history : Live(p[1])
    /\ \A r \in field : <<r.id, r.version>> \in history

\* The row lock makes the new version number fresh: an update that got past
\* config_version never runs into UNIQUE (config_version_id, version).
VersionIsFresh ==
    \A h \in Handlers : at[h] = "update.history" => <<rid[h], ver[h]>> \notin history

\* A (row id, version) pair is committed once in the store's whole life, also
\* across delete and re-create: what a client remembers of it never changes.
CommittedOnce ==
    \A e, f \in log : e.id = f.id /\ e.version = f.version => e = f

\* Every committed version of a live row holds exactly the fields it was
\* committed with, and there is no version that was not committed.
StoredAsCommitted ==
    /\ \A e \in log : Live(e.id) => /\ <<e.id, e.version>> \in history
                                   /\ FieldsOf(e.id, e.version) = e.fields
    /\ \A p \in history : \E e \in log : p = <<e.id, e.version>>

\* The two unsynchronised reads of getConfig never mix versions or
\* incarnations: the answer is the selected part of the one version it names,
\* or nothing because the row was deleted between the reads.
AnswerIsOneVersion == [][\A h \in Handlers :
    answer[h] # "Stored" /\ answer'[h] = "Stored" =>
        \/ buf'[h] = {f \in UNION {e.fields : e \in {d \in log :
                             d.id = rid[h] /\ d.version = ver[h]}} :
                        f.path \in only'[h]}
        \/ buf'[h] = {} /\ ~Live(rid[h])]_vars

\* What config.proto:144 promises of a request without a path: all fields of
\* the group are returned, as long as there is a group.
AllFieldsReturned == [][\A h \in Handlers :
    (/\ answer[h] # "Stored" /\ answer'[h] = "Stored"
     /\ only'[h] = Paths /\ Live(rid[h]))
    => buf'[h] = FieldsOf(rid[h], ver[h])]_vars

\* Every call ends, so that its handler is idle again and again: no cycle of
\* row locks, no lock kept by a finished call.
CallsReturn == \A h \in Handlers : []<>(at[h] = "idle")
-----------------------------------------------------------------------------
(* Refinement: the tables, read as the list of versions they hold. *)

VersionList(k) ==
    [versions  |-> [v \in 1 .. cv[k].latest |-> FieldsOf(cv[k].id, v)],
     published |-> IF cv[k].published = NULL THEN 0 ELSE cv[k].published]

Abstract == INSTANCE VersionedConfig
                WITH store <- [k \in Keys |-> VersionList(k)]

\* Each committed transaction is one atomic step of the abstract service and
\* nothing else changes what clients can see, failed and racing calls included.
ImplementsVersionedConfig == Abstract!Spec
-----------------------------------------------------------------------------
(* The inductive invariant behind the safety properties above. *)

Writing == {"update.bump", "update.history", "update.fields"}
Marking == {"publish.mark", "publish.commit"}

\* A transaction past its first write holds its identifier's lock.
LockInv ==
    \A h \in Handlers : at[h] \in Writing \cup Marking => lock[key[h]] = h

\* Row ids come from the sequence and are never shared.
IdInv ==
    /\ \A k \in Keys : cv[k].id < nextId
    /\ \A h \in Handlers : rid[h] < nextId
    /\ \A e \in log : e.id < nextId /\ e.id # 0
    /\ \A k, l \in Keys : Exists(k) /\ cv[k].id = cv[l].id => k = l

\* A writer either extends the row it locked by the next version, or brings a
\* row of its own that nothing has referred to yet.
Extends(h) ==
    /\ cv[key[h]].id = rid[h]
    /\ ver[h] = cv[key[h]].latest + 1

Creates(h) ==
    /\ ~Exists(key[h])
    /\ ver[h] = 1
    /\ \A k \in Keys : cv[k].id # rid[h]
    /\ \A g \in Handlers \ {h} : rid[g] # rid[h]
    /\ \A e \in log : e.id # rid[h]

WriterInv ==
    \A h \in Handlers :
        /\ at[h] \in Writing => rid[h] # 0 /\ (Extends(h) \/ Creates(h))
        /\ at[h] \in Marking => rid[h] # 0 /\ cv[key[h]].id = rid[h]

\* The tables, pointwise.
TableInv ==
    /\ \A k \in Keys : Exists(k) =>
          /\ cv[k].latest >= 1
          /\ \A v \in 1 .. cv[k].latest : <<cv[k].id, v>> \in history
    /\ \A k \in Keys : \A p \in history :
          p[1] = cv[k].id => p[2] \in 1 .. cv[k].latest
    /\ \A k \in Keys : ~Exists(k) => cv[k] = NoRow
    /\ PublishedIsCommitted
    /\ NoOrphans
    /\ \A h \in Handlers : at[h] = "publish.commit" => <<rid[h], ver[h]>> \in history
    /\ \A e \in log : Live(e.id) => <<e.id, e.version>> \in history
    /\ CommittedOnce

IInv == TypeOK /\ LockInv /\ IdInv /\ WriterInv /\ TableInv
=============================================================================
