---------------------------- MODULE SqliteStore ----------------------------
(***************************************************************************)
(* The config handlers (pkg/service/config_handlers.go) on SQLite, the     *)
(* default database, opened in WAL mode with a busy timeout and foreign    *)
(* keys (pkg/database/database.go). It has no row locks:                   *)
(*   - a transaction sees the database as of its first statement;          *)
(*   - there is one write lock, taken by the first statement that writes   *)
(*     and held until the transaction ends;                                *)
(*   - a transaction that has only read cannot wait for it, and cannot get *)
(*     it once another one has committed since: SQLITE_BUSY, at once;      *)
(*   - a transaction that begins with a write waits up to the busy timeout *)
(*     and then sees the database as it is.                                *)
(* What a transaction writes nobody else sees before it commits, so that   *)
(* statements that only write more are one step.                           *)
(***************************************************************************)
EXTENDS Naturals, Sequences

CONSTANTS
    Keys,       \* identifiers: (service_name, scope, scope_id, group_id)
    Handlers,   \* concurrent gRPC calls
    Paths,      \* field paths
    Values,     \* field values
    Requests,   \* the Fields arguments of UpdateConfig that are tried
    Nobody,     \* the holder of a free write lock
    Failing,    \* statements can fail, as when the disk is full
    Crashing,   \* the process can die and start again
    MaxId,      \* bound: no update starts once this many ids are used up
    MaxVersion  \* bound: no update starts on a configuration this long

Field == [path : Paths, value : Values]

ASSUME RequestsAssumption == Requests \subseteq Seq(Field)
ASSUME HandlersAssumption == Nobody \notin Handlers
ASSUME FaultsAssumption   == Failing \in BOOLEAN /\ Crashing \in BOOLEAN
ASSUME BoundsAssumption   == MaxId \in Nat /\ MaxVersion \in Nat

VARIABLES
    db,      \* what is committed: each identifier's rows in the three tables
    ids,     \* the ids config_version has used up
    writer,  \* who holds the write lock
    at,      \* the next step of each call
    key,     \* the identifier it is about
    mine,    \* the rows of that identifier as its transaction sees them
    stale,   \* somebody has committed since its transaction began
    ver,     \* the version it publishes or reads
    answer   \* what it tells the client

vars == <<db, ids, writer, at, key, mine, stale, ver, answer>>

-----------------------------------------------------------------------------
(* An identifier's rows: config_version, and per version of its history the *)
(* fields. Deleting the row takes the others along.                         *)

Contents == SUBSET Field
Rows  == [id : Nat, latest : Nat, published : Nat, versions : Seq(Contents)]
NoRow == [id |-> 0, latest |-> 0, published |-> 0, versions |-> <<>>]

Exists(rows) == rows.id # 0

FieldsOf(request) == {request[i] : i \in DOMAIN request}

\* UNIQUE (config_version_id, version, path)
Unique(request) ==
    \A i, j \in DOMAIN request : request[i].path = request[j].path => i = j

-----------------------------------------------------------------------------

Init ==
    /\ db     = [k \in Keys |-> NoRow]
    /\ ids    = 0
    /\ writer = Nobody
    /\ at     = [h \in Handlers |-> "idle"]
    /\ key    \in [Handlers -> Keys]
    /\ mine   = [h \in Handlers |-> NoRow]
    /\ stale  = [h \in Handlers |-> FALSE]
    /\ ver    = [h \in Handlers |-> 0]
    /\ answer = [h \in Handlers |-> "none"]

Free == writer = Nobody

\* The call answers and its transaction, if it has one, is over.
EndTransaction(h, a) ==
    /\ at'     = [at EXCEPT ![h] = "reply"]
    /\ answer' = [answer EXCEPT ![h] = a]
    /\ mine'   = [mine EXCEPT ![h] = NoRow]
    /\ ver'    = [ver EXCEPT ![h] = 0]

\* Mutant of Release: an early return that forgets tx.Rollback.
ReleaseNothing(h) == writer

Release(h) == IF writer = h THEN Nobody ELSE writer

\* The deferred tx.Rollback.
Fail(h, a) ==
    /\ EndTransaction(h, a)
    /\ writer' = Release(h)
    /\ stale'  = [stale EXCEPT ![h] = FALSE]
    /\ UNCHANGED <<db, ids, key>>

\* The rows of h's identifier become rows, and every snapshot grows old.
Commit(h, rows) ==
    /\ db'     = [db EXCEPT ![key[h]] = rows]
    /\ ids'    = IF rows.id > ids THEN rows.id ELSE ids
    /\ writer' = Release(h)
    /\ stale'  = [g \in Handlers |-> g # h /\ at[g] = "update.row"]
    /\ EndTransaction(h, "OK")
    /\ UNCHANGED key

-----------------------------------------------------------------------------
(* UpdateConfig *)

\* BEGIN, and SELECT id, latest_version without FOR UPDATE: a snapshot.
UpdateBegin(h, k) ==
    /\ at[h] = "idle" /\ ids < MaxId /\ db[k].latest < MaxVersion
    /\ at'   = [at EXCEPT ![h] = "update.row"]
    /\ key'  = [key EXCEPT ![h] = k]
    /\ mine' = [mine EXCEPT ![h] = db[k]]
    /\ UNCHANGED <<db, ids, writer, stale, ver, answer>>

\* Mutant of CanWrite: as if BEGIN IMMEDIATE, or FOR UPDATE, had been used.
CanWriteIfFree(h) == Free

\* A transaction that has read can write if nobody does, or has meanwhile.
CanWrite(h) == Free /\ ~stale[h]

\* The row with the next id, if it is new, and the next version number.
Numbered(rows) ==
    [rows EXCEPT !.id     = IF rows.id = 0 THEN ids + 1 ELSE rows.id,
                 !.latest = rows.latest + 1]

\* INSERT INTO config_version, or UPDATE of its latest_version; SQLITE_BUSY or
\* SQLITE_BUSY_SNAPSHOT otherwise.
UpdateRow(h) ==
    /\ at[h] = "update.row"
    /\ IF CanWrite(h)
       THEN /\ writer' = h
            /\ at'     = [at EXCEPT ![h] = "update.contents"]
            /\ mine'   = [mine EXCEPT ![h] = Numbered(@)]
            /\ UNCHANGED <<db, ids, key, stale, ver, answer>>
       ELSE Fail(h, "Internal")

\* INSERT INTO config_version_history and, one by one, config_field.
UpdateContents(h) ==
    /\ at[h] = "update.contents"
    /\ \E request \in Requests :
          IF Unique(request)
          THEN /\ at'   = [at EXCEPT ![h] = "update.commit"]
               /\ mine' = [mine EXCEPT ![h].versions = Append(@, FieldsOf(request))]
               /\ UNCHANGED <<db, ids, writer, key, stale, ver, answer>>
          ELSE Fail(h, "Internal")

UpdateCommit(h) == at[h] = "update.commit" /\ Commit(h, mine[h])

-----------------------------------------------------------------------------
(* PublishVersion and DeleteConfig: they begin with a write. *)

Begin(h, k, stage) ==
    /\ at[h] = "idle"
    /\ at'  = [at EXCEPT ![h] = stage]
    /\ key' = [key EXCEPT ![h] = k]
    /\ UNCHANGED <<db, ids, writer, mine, stale, ver, answer>>

\* The busy handler has waited for the lock: UPDATE config_version SET
\* published_version, to any number.
PublishRow(h) ==
    LET rows == db[key[h]]
    IN  /\ at[h] = "publish.row" /\ Free
        /\ IF Exists(rows)
           THEN \E v \in 0 .. MaxVersion + 1 :
                    /\ writer' = h
                    /\ at'     = [at EXCEPT ![h] = "publish.history"]
                    /\ mine'   = [mine EXCEPT ![h] = [rows EXCEPT !.published = v]]
                    /\ ver'    = [ver EXCEPT ![h] = v]
                    /\ UNCHANGED <<db, ids, key, stale, answer>>
           ELSE Fail(h, "NotFound")

\* Mutant of PublishHistory: RowsAffected is not looked at.
PublishHistoryUnchecked(h) ==
    /\ at[h] = "publish.history"
    /\ at' = [at EXCEPT ![h] = "publish.commit"]
    /\ UNCHANGED <<db, ids, writer, key, mine, stale, ver, answer>>

\* UPDATE config_version_history: no such version, no publication.
PublishHistory(h) ==
    /\ at[h] = "publish.history"
    /\ IF ver[h] \in DOMAIN mine[h].versions
       THEN /\ at' = [at EXCEPT ![h] = "publish.commit"]
            /\ UNCHANGED <<db, ids, writer, key, mine, stale, ver, answer>>
       ELSE Fail(h, "NotFound")

PublishCommit(h) == at[h] = "publish.commit" /\ Commit(h, mine[h])

\* One statement, committed by itself.
DeleteRow(h) ==
    /\ at[h] = "delete.row" /\ Free
    /\ IF Exists(db[key[h]]) THEN Commit(h, NoRow) ELSE Fail(h, "NotFound")

\* SQLITE_BUSY after busy_timeout.
BusyTimeout(h) ==
    /\ at[h] \in {"publish.row", "delete.row"} /\ ~Free
    /\ Fail(h, "Internal")

-----------------------------------------------------------------------------
(* getConfig: two reads, each of what is committed then. *)

Published == 0
Latest    == MaxVersion + 1    \* stands for the argument -1

GetRow(h, k, want) ==
    LET v == CASE want = Published -> db[k].published
               [] want = Latest    -> db[k].latest
               [] OTHER            -> want
    IN  /\ at[h] = "idle"
        /\ key' = [key EXCEPT ![h] = k]
        /\ IF Exists(db[k]) /\ v # 0
           THEN /\ at'   = [at EXCEPT ![h] = "get.fields"]
                /\ mine' = [mine EXCEPT ![h] = [NoRow EXCEPT !.id = db[k].id]]
                /\ ver'  = [ver EXCEPT ![h] = v]
                /\ UNCHANGED answer
           ELSE EndTransaction(h, "Template")
        /\ UNCHANGED <<db, ids, writer, stale>>

GetFields(h) ==
    /\ at[h] = "get.fields"
    /\ EndTransaction(h, IF /\ db[key[h]].id = mine[h].id
                            /\ ver[h] \in DOMAIN db[key[h]].versions
                         THEN "Stored" ELSE "Nothing")
    /\ UNCHANGED <<db, ids, writer, key, stale>>

-----------------------------------------------------------------------------

StatementFails(h) ==
    /\ Failing /\ at[h] \notin {"idle", "reply"}
    /\ Fail(h, "Internal")

Return(h) ==
    /\ at[h] = "reply"
    /\ at'     = [at EXCEPT ![h] = "idle"]
    /\ answer' = [answer EXCEPT ![h] = "none"]
    /\ UNCHANGED <<db, ids, writer, key, mine, stale, ver>>

\* The process dies: what is in the write-ahead log without a commit is
\* ignored when the file is opened again, and the calls are gone.
Crash ==
    /\ Crashing
    /\ writer' = Nobody
    /\ at'     = [h \in Handlers |-> "idle"]
    /\ mine'   = [h \in Handlers |-> NoRow]
    /\ stale'  = [h \in Handlers |-> FALSE]
    /\ ver'    = [h \in Handlers |-> 0]
    /\ answer' = [h \in Handlers |-> "none"]
    /\ UNCHANGED <<db, ids, key>>

Progress(h) ==
    \/ UpdateRow(h) \/ UpdateContents(h) \/ UpdateCommit(h)
    \/ PublishRow(h) \/ PublishHistory(h) \/ PublishCommit(h)
    \/ DeleteRow(h) \/ BusyTimeout(h)
    \/ GetFields(h) \/ Return(h)

Handler(h) ==
    \/ \E k \in Keys : \/ UpdateBegin(h, k)
                       \/ Begin(h, k, "publish.row")
                       \/ Begin(h, k, "delete.row")
                       \/ \E want \in Published .. Latest : GetRow(h, k, want)
    \/ Progress(h)
    \/ StatementFails(h)

Next == Crash \/ \E h \in Handlers : Handler(h)

Spec == Init /\ [][Next]_vars

\* Goroutines run, and a busy handler gives up at last.
FairSpec == Spec /\ \A h \in Handlers : WF_vars(Progress(h))

-----------------------------------------------------------------------------
(* Properties *)

Writing == {"update.contents", "update.commit", "publish.history", "publish.commit"}
Stages  == Writing \cup {"idle", "update.row", "publish.row", "delete.row",
                         "get.fields", "reply"}

\* Every variable has its type, and the calls that are about to write more are
\* the holder of the write lock.
TypeOK ==
    /\ db     \in [Keys -> Rows]
    /\ ids    \in Nat
    /\ writer \in Handlers \cup {Nobody}
    /\ at     \in [Handlers -> Stages]
    /\ key    \in [Handlers -> Keys]
    /\ mine   \in [Handlers -> Rows]
    /\ stale  \in [Handlers -> BOOLEAN]
    /\ ver    \in [Handlers -> Nat]
    /\ answer \in [Handlers -> {"none", "OK", "Internal", "NotFound",
                                "Template", "Stored", "Nothing"}]
    /\ \A h \in Handlers : writer = h <=> at[h] \in Writing

\* What the call that writes has not written itself is what is committed,
\* though it was read before the lock was taken: no update is lost, no
\* publication undone, no deleted row brought back (config_handlers.go:186-201,
\* where SQLite goes without FOR UPDATE).
WriterIsCurrent ==
    \A h \in Handlers : writer = h =>
        LET new  == mine[h]
            old  == db[key[h]]
        IN  /\ at[h] \in {"update.contents", "update.commit"} =>
                  /\ new.id = IF Exists(old) THEN old.id ELSE ids + 1
                  /\ new.latest = old.latest + 1
                  /\ new.published = old.published
            /\ at[h] = "update.contents" => new.versions = old.versions
            /\ at[h] = "update.commit" =>
                  /\ Len(new.versions) = Len(old.versions) + 1
                  /\ \A v \in DOMAIN old.versions : new.versions[v] = old.versions[v]
            /\ at[h] \in {"publish.history", "publish.commit"} =>
                  Exists(old) /\ new = [old EXCEPT !.published = ver[h]]

\* The tables agree: latest_version counts the history, the published version
\* is part of it, and no two identifiers share a row (config_handlers.go:170-304).
TablesAgree ==
    /\ \A k \in Keys :
          /\ db[k].latest = Len(db[k].versions)
          /\ db[k].published \in {0} \cup DOMAIN db[k].versions
          /\ db[k].id <= ids
          /\ ~Exists(db[k]) => db[k] = NoRow
    /\ \A k, l \in Keys : db[k].id = db[l].id /\ Exists(db[k]) => k = l

\* The write lock is given back, by a commit, a failure or the end of the
\* process, so that SQLite's one writer keeps nobody out for good.
WriterLeaves == \A h \in Handlers : []<>(writer # h)

\* The handlers promise on SQLite what they promise on PostgreSQL.
Abstract == INSTANCE VersionedConfig
    WITH store <- [k \in Keys |-> [versions  |-> db[k].versions,
                                   published |-> db[k].published]]

ImplementsVersionedConfig == Abstract!Spec
=============================================================================
