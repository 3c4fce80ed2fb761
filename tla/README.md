# Verification of scope-config-service

TLA+ specifications of the scope-config service and of its Go client, the TLC
configurations that check them on small instances, and TLAPS proofs about the
configuration store, on PostgreSQL and on SQLite, the template store, the front
ends and the client. Line numbers refer to the sources under `src/`.

## The system

The service keeps *configurations*: for an identifier (service, scope, scope
id, group) a list of numbered versions, each a set of path/value fields, of
which at most one is *published*. *Templates* describe the fields of a group
and give default values to identifiers without a configuration.

| part | source | state | operations |
|---|---|---|---|
| Configuration store | `pkg/service/config_handlers.go`, `db/migrations` | `config_version`, `config_version_history`, `config_field` | UpdateConfig, PublishVersion, DeleteConfig, GetConfig, GetLatestConfig, GetConfigByVersion, GetConfigHistory |
| Template store | `pkg/service/template_handlers.go` | `config_template`, `config_template_field` | ApplyConfigTemplate, GetConfigTemplate, ListConfigTemplates, default values of getConfig |
| Seed loader, start-up | `pkg/seedloader/loader.go`, `cmd/server/main.go` | files; whether the server serves | apply every seed, then serve |
| HTTP gateway | `pkg/httpgateway/*.go`, `cmd/httpgateway` | none; a database handle for the admin handlers | REST over gRPC; ImportTemplate, ListAllTemplates, SetTemplateActive |
| Admin UI | `pkg/httpgateway/ui/app.js` | selection, loaded fields, edits | load, save, publish, history, import, switch |
| Go SDK | `sdks/go` | cache of configurations and templates, sync targets, stop channel, connection | the gRPC calls with retries, cached reads, background sync, Close, GetValue |
| Java, TypeScript, Python SDKs | `sdks/...` | the same | the same |
| Command line | `cmd/cli` | none | one call per command, two for `show`; `template` applies a file of groups |
| SQLite dialect | `pkg/service/dialect.go`, `pkg/database/database.go`, `db/sqlite_init.sql` | the same tables | the same, with snapshots and one write lock instead of row locks |

How they interact: every client (SDK, command line, gateway) reaches the
store by gRPC, one goroutine per call; the handlers share nothing but the
database, and each of them runs several SQL statements, the writers in one
transaction and the readers in none. The gateway's switch and list handlers go
to the database directly, next to the gRPC server. At start-up the seed loader
calls ApplyConfigTemplate in the server's own process before the port is
served. The SDK's cache is filled by application goroutines and by the sync
goroutine, and no lock is held between a request and the storing of its answer.
The gateway stands between its users and the gRPC service without a state of
its own: what it says of a call is all its users ever know.

What is hard about it, and what therefore has to be right:

- **Store.** Concurrent updates of one identifier, deletion and re-creation
  while others wait for the row, partial transactions, lost commit answers, and
  two-statement reads that interleave with all of that. Version numbers must be
  gapless and never reused, publication must point at an existing version, a
  version's content must never change, and a read must be of one version.
- **Templates.** A template is replaced by deleting and re-inserting its fields,
  one group of a batch may fail, a restart seeds again, the switch writes the
  same row. Tables must always hold whole valid definitions, an answer must
  never mix two of them, and reports to clients must be true.
- **SQLite.** There are no row locks: a transaction reads a snapshot, and the
  first statement that writes must either find nothing committed since or fail.
  No update may be lost for it, and the one write lock must always come back.
- **History.** The list is ordered by the start of transactions, which is not
  the order of the versions they commit.
- **Front ends.** A lost answer must not be told as if nothing had happened, a
  version number has 32 bits on the wire and not in a URL, two commands in one
  (`show`) see two states.
- **SDK.** Answers are stored late; entries expire, are invalidated and
  refreshed concurrently; retries repeat calls that are not idempotent; Close
  races with everything. A reader must see its own publications, must not be
  handed what is older than the TTL allows, and Close must end. A value that is
  looked up along scopes comes from several answers, none of which need be of
  the same moment, and an error on the way is dropped.

`PROJECT.json` lists the hazards with their lines under `hazards`.

## Modules

| module | what it is |
|---|---|
| `VersionedConfig` | What the configuration service promises, each call atomic: append a version, publish an existing one, remove everything. |
| `ConfigStore` | The three tables and the handlers, one action per SQL statement; refines `VersionedConfig`. |
| `ConfigStoreProofs` | The theorems about the rows and versions of `ConfigStore`. |
| `ConfigContentProofs` | The theorems about its fields and answers, and that it implements `VersionedConfig`. |
| `TemplateRegister` | What the template side promises: one whole definition per group, and an independent switch. |
| `TemplateStore` | Template tables, ApplyConfigTemplate with its three callers (seeds, import, command line), reads, list, switch, crash and restart; refines `TemplateRegister`. |
| `TemplateStoreProofs` | The theorems about it, the refinement among them. |
| `ConfigHistory` | GetConfigHistory beside the handlers of `ConfigStore`, which it extends by the times at which transactions began. |
| `ConfigHistoryProofs` | The theorems about what a history lists, and in which order. |
| `SqliteStore` | The config handlers again, under SQLite's transactions; refines `VersionedConfig` as well. |
| `SqliteStoreProofs` | The theorems about `SqliteStore`, the refinement among them. |
| `ConfigService` | The gRPC service as its callers meet it: requests, 32-bit numbers, answers, and calls that are lost. |
| `Gateway` | Extends it: the HTTP endpoints, who is let through, validation, status codes. |
| `Cli` | Extends it: the commands. |
| `FrontEnds` | Composes `Gateway`, `Cli` and other clients of one service; refines `VersionedConfig`. |
| `FrontEndsProofs` | The theorems about what users are told and shown, and that refinement. |
| `SdkClient` | The Go client's cache, sync goroutine, retries, invalidation and Close against an abstract server. |
| `SdkClientProofs` | The theorems about `SdkClient`. |
| `ValueLookup` | GetValue along scopes and template, through the cache, with failures. |
| `ValueLookupProofs` | The theorems about `ValueLookup`. |
| `MCConfigStore`, `MCTemplateStore`, `MCConfigHistory`, `MCSqliteStore`, `MCFrontEnds`, `MCSdkClient`, `MCValueLookup` | Requests, definitions, identifiers and symmetry for TLC. |

`PROJECT.json` maps every definition to the lines it stands for under `map`.

### ConfigStore

State: `cv`, `history`, `audited`, `field`, `nextId` are the *committed* tables
and the id sequence; `lock` is the holder of each identifier's row lock or
uncommitted unique-index entry; `at`, `key`, `rid`, `ver`, `todo`, `buf`,
`only`, `answer` are the local variables of each call. A transaction's own
writes stay in its local variables until its commit action copies them to the
tables, which is what READ COMMITTED lets the others see. `log` is a ghost
variable with everything ever committed.

| code | actions |
|---|---|
| UpdateConfig 169-244 | `UpdateSelect`, `UpdateLock`, `UpdateInsert`, `UpdateBump`, `UpdateHistory`, `UpdateField`, `UpdateCommit` |
| PublishVersion 246-304 | `PublishFind`, `PublishLock`, `PublishMark`, `PublishCommit` |
| DeleteConfig 359-380 | `DeleteFind`, `DeleteRow` |
| getConfig 39-151 and its three callers | `GetRow`, `GetFields` |
| any failing statement, with the deferred rollback | `StatementFails` |

Statements that wait are two actions, one that finds the row and one that is
granted the lock, because PostgreSQL re-checks the row in between: `UpdateLock`,
`PublishLock` and `DeleteRow` find it gone if a deletion was committed
meanwhile. `UpdateInsert` draws its id even if it then fails on the unique
index. The data are abstract: an identifier, a path and a value are model
values; names of users and time stamps are left out. Field types are not
stored by the code. Getting a template's defaults for an identifier without a
configuration is `TemplateStore`'s; `ConfigStore` answers `"Template"` there.

### TemplateStore

`template` and `fields` are the committed tables (a template is never deleted,
so the group stands for the row's id), `lock` the row lock. A *process* is a
worker (a gRPC or gateway call) or the seeder; `queue`, `todo`, `buf`,
`results` are its progress through a batch of definitions and through the
statements of ApplyConfigTemplate (`ApplyUpsert`, `ApplyDelete`, `ApplyField`,
`ApplyCommit`). `source` tells an import, which goes on after a failed group
and drops unknown scope names, from a file, whose loader stops at the first
failure and keeps unknown scope names, which the database then refuses.
`Crash` is the death of the process at any step followed by a restart; the
database keeps committed rows only. `ListTemplates`/`ListActive` are the two
queries of ListAllTemplates, `TemplateRow`/`TemplateFields` those of
GetConfigTemplate, `DefaultsRow`/`DefaultsFields` those of
getTemplateDefaultFields. No loop over the fields looks at `rows.Err()`, so with
the fault `"row_stream"` an answer has any part of them (`Fetched`); the ghost
`cut` remembers that it was cut short. `ListActive` reads any part of the flags
as well, or none if its query fails, and a template whose flag is missing counts
as active. The filter `is_active` that ListAllTemplates sends has no effect, so
`ListTemplates` has none.

### ConfigHistory

Extends `ConfigStore`, whose handlers do not mind: every step of a handler is
`StepOf`, the same step with what it does to `created_at`. That time is the one
of BEGIN, which UpdateConfig sends before its first SELECT and which is a step
of its own (`Begin`; `BeginFails` if the SELECT does). Only the order of those
times matters, so `older` relates any two things that have one (`Dated`): the
history rows, and the updates that have begun and may still write one. An update
that begins is younger than all there is; its row takes over its place when it
commits. `HistoryRow` and `HistoryRows` are the two statements of
GetConfigHistory (306-357): `Newest` is what the second one may answer, given
the limit, and `Fetched` what the loop makes of it, which does not look at
`rows.Err()` either and, with the fault `"row_stream"`, answers any beginning of
the list. `settled` is a ghost: which rows were committed before the update of
which others began.

### SqliteStore

`db` is what is committed, per identifier the rows of all three tables; `writer`
holds the one write lock. `mine` is an identifier's rows as a transaction sees
them, `stale` whether somebody has committed since it began. UpdateConfig
begins with a read (`UpdateBegin`) and is refused the upgrade to a write at once
if its snapshot is old or another one writes (`UpdateRow`, `CanWrite`);
PublishVersion and DeleteConfig begin with a write and wait for the lock
(`Begin`, `PublishRow`, `DeleteRow`) until they get it or the busy timeout ends
(`BusyTimeout`). Since nobody sees a transaction's writes before its commit,
the insertion of the fields is one step, `UpdateContents`. `Crash` is the death
of the process at any step: what was not committed is gone with the lock.

### ConfigService, Gateway, Cli, FrontEnds

`store` is the service's state per configuration and `Serve` one whole call of
it, which is what `ConfigStore` and `SqliteStore` are shown to amount to;
`Serve` may also have its effect and lose its answer, be it the one to the
client or the one of COMMIT to the handler, which is told as Internal;
`ServeFails` is a lost request or a failing statement, without effect. A lost
call of the gateway ends as Unavailable or, when its user goes away, as
Canceled. A caller is a request or a command: `at`, `request`, `call`, `answer`,
`out` are what its user asked, the gRPC call it became, the answer and what the
user was told.
`OthersAct` is any other client. `wrote` and `during` are ghosts: what the
caller's calls changed, and which versions were published meanwhile.

`HttpStart` is router, middlewares and handler up to the call (`Admitted`,
`Valid`, `CallOf`), `HttpRespond` the rest (`HttpStatus`, which has every code
of grpcCodeToHTTP, and `JsonSections`). `Valid` follows each handler: PUT and
the publication do not look at the service name. `Usable` has what cobra
refuses, the two exclusive flags of `get` included. `CliStart` and the actions
after it are the commands; `show` always reads twice and leaves the published
section out if both answers are of one version. Integers are kept at their
width: `Int32` truncates as Go's conversion does, `Fits32` is what the parsers
accept. Whether a credential is valid (a signature, a password) is external.

### SdkClient

`cache`, `targets`, `stopped` (which of the two stop channels are closed) and
`closed` are the fields of `Client` and of `configCache`; `at` and `call` are
the application's goroutines, `sync` is the sync goroutine; `now` is the clock
of the TTL. The server is external to the client and is what `ConfigStore` is
shown to be, atomic per configuration: `changes` counts how often the answer of
GetConfig has changed, and `call[w].wrote` how many versions the attempts of one
UpdateConfig have added. Every call is `Serve` (the server's work) followed by
`Receive` (the answer), and a reading call then stores the answer (`SetCache`)
and registers the sync target (`AddSyncTarget`). `CallFails` is a lost request,
a lost answer or a refusal, or the end of a call whose connection was closed
under it, with the retry policy, and `GiveUp` GetConfigCached's fallback on an
expired entry. `acked` and `seen` are ghosts: what the application has been told
so far. Close is a step per look at a channel and per closing of one (`Close`,
`CloseChannel`, `StopCache` after the wait for the sync goroutine, `CloseCache`,
`CloseConnection`): the channel of the sync and that of the cache
(`cache.go:175-182`) are each looked at and then closed, and a second Close in
between panics on either. The sync timer has no period in the model: a tick may
come at any time. The code never evicts an expired entry, and neither does the
model: the fallback may answer from an entry of any age.

### ValueLookup

One path and one identifier per scope. `Chain` is the order in which GetValue
asks: the scope, its parents (`getParentIdentifiers`), the template. Each source
is answered from the cache (`FromCache`), by the server (`Fetch`, `Store`) or
with an error (`Fails`), which falls back on whatever the cache holds and is
dropped if it holds nothing. The server's tables and the cache change between
any two of these. Time is left out: an entry may be found expired or not at any
time, which the clock of `SdkClient` narrows. `FetchCut` is an answer whose
result set was cut short by the server before this path: it has no value, is
taken for what the scope has, and stored. `Promised` is the reference
definition, what the options of GetValue say (`value.go:11-22`) of the values
that are set, read off the scope hierarchy and not off the loop. The code keeps
that promise with one exception, `FilledIn`: for a scope without a published
configuration the server fills in the template's default, and GetValue takes it
for a value of that scope. `QuietLookup` says that this is the only way for an
undisturbed lookup to miss the promise, and `PromisedLookup` that there is none,
which is refuted.

## Runs

The bounds are the constants named `Max...` and the sets of requests, batches,
seeds and identifiers in the MC modules.

| run | question | bounds and why they are enough |
|---|---|---|
| `store` | Do racing updates, publications, deletions and reads of one identifier keep the tables consistent, do versions keep their content, are reads of one version, does every call end, and does the store implement `VersionedConfig`? | Two calls, one identifier, two row ids, two versions, no symmetry. Two calls are a whole lock cycle, since each transaction locks one row only. An empty, a two-field and a self-contradicting request, so that an overwritten, merged or half-inserted version is seen. Every statement may fail and every commit answer be lost. Its invariants hold for any number of calls and identifiers, by the theorems. |
| `store_history` | Is a history whole within its limit, and out of order only where updates overlapped? | Two handlers and a reader, two versions, one of each handler, that overlap or do not, with BEGIN and the SELECT after it apart; two row ids, so that the row can be deleted and re-created between the reader's statements; a limit that cuts and one that does not. |
| `sqlite` | Is no update lost without row locks, is the write lock always given back, and does the store on SQLite implement `VersionedConfig`? | Two calls, two identifiers, two row ids, two versions; failing statements, the busy timeout and the death of the process at any step. |
| `template_store` | Do the template tables refine `TemplateRegister`, are answers of one definition, results true, seeds applied before clients come; does start-up end, and every call? | Two workers and the seeder, two groups, two scopes, two starts; every statement may fail, every commit answer be lost and every result set of a reader be cut short; seeds of which the second is refused by the database, so that the third is never applied; a batch that fails first in the database, then in front of it, and then updates what was seeded. |
| `frontends` | Is what a user is told what has happened, and what is shown as published published; can front ends do anything to a configuration but what `VersionedConfig` allows? | One caller beside any number of other clients, who do what a second caller could do to the store; every route and command, valid and in each way not; three versions; integers of 5 bits, so that 32 and 33 are the numbers that truncate to 0 and 1. |
| `lookup` | Does an undisturbed lookup find what is promised, or else a default the server filled in, and is a value the client holds never passed over? | Two goroutines, a store, its project and the system, any tables, one change or cut answer while lookups run; a default that is empty and one that is not displayed on every scope. |
| `sdk_session` | Does one goroutine read its own publications, never see a configuration go back or another one's, and never add more versions than attempts? | Two identifiers, two ticks with a TTL of one: an entry is filled, expires and is replaced; two changes, and as many versions as the two attempts of a call can add. |
| `sdk_close` | Is a hit fresh, does Close stop the sync goroutine before the connection closes, and do all calls end? | Two goroutines, so two Close calls race with each other over both channels, with reads and with the sync; three ticks. Deadlock is not checked, since a panic ends the process. |
| `store_row_stream`, `cli_unpublish`, `sdk_stale_sync`, `lookup_promise` | *Violations*, see below. | |

Every property of a passing run has a mutant in `PROJECT.json`: a plausible bug
in one mapped definition (an operator with "Mutant of" in its comment) under
which TLC finds the property violated by the same run.

### Fairness

- In `ConfigStore` and `TemplateStore`, strong fairness of the next step of each
  call or process (`Proceed`), which is one of its statements, its answer, or,
  for the seeder, the start of serving: a goroutine that is not waiting goes on
  (Go scheduler), a statement ends with a result or an error, and PostgreSQL
  queues the waiters of a row lock or a unique-index entry, so that a waiter is
  not passed over for ever. Crashes are bounded by `MaxStarts`.
- In `SqliteStore`, weak fairness of a call's next step. None is needed of the
  lock: a call that waits for it leaves by `BusyTimeout` in the end.
- In `SdkClient`, weak fairness of a worker's next step (calls end, since the
  sync's context has a deadline and the application's calls end by an answer or
  an error), those of Close included, and strong fairness of `SyncStop`: Go's
  `select` chooses uniformly among ready cases, so with the stop channel closed
  it is taken in the end.
- No fairness is assumed of clients: nobody has to call anything.

### Where the code differs from what it says

| run | what the run shows |
|---|---|
| `store_row_stream` | getConfig never looks at `rows.Err()` (`config_handlers.go:132-138`): a connection lost while rows are read makes a truncated configuration a success, and an SDK caches it. `config.proto:144` promises all fields. |
| `cli_unpublish` | The command publishes version 0, which PublishVersion refuses as a version that is not in the history (`config_handlers.go:279-289`): it fails on every published configuration, although `unpublish.go:35` says that it is read as unpublishing. |
| `lookup_promise` | The server answers for a scope without a published configuration with the template's defaults, and GetValue takes such a default for a value of the scope (`value.go:46-49`): it hides what is set at a wider scope, and is answered though `UseDefault` is false. `value.go:16` says that parent scopes are asked if the value is not found, and `sdks/go/README.md:271` that the default is for what is not set. No fault or change is needed. |
| `sdk_stale_sync` | An answer that the sync goroutine asked for before a publication is stored after the invalidation (`client.go:616-624`); the application does not see its own publication for a TTL, although `client.go:475` invalidates for that reason. |

The models have these differences too; they have no run of their own.

*Store.* GetConfigByVersion drops `use_template_defaults`
(`config_handlers.go:165` against `config.proto:157-158`). Where updates overlap,
the history may have an older version on top, and a limit of 1 miss the latest
(`config_handlers.go:329-330`). ListConfigTemplates ignores `is_active`
(`template_handlers.go:181-190` against `config.proto:207`), so that
ListAllTemplates lists templates that were switched off, although
`template_admin_handlers.go:294` says only active ones are returned by default;
a template whose flag did not come, because that query failed or ended early,
is listed as active (`template_admin_handlers.go:330-361`). GetConfigTemplate and
the template's defaults do not look at `rows.Err()` either
(`template_handlers.go:138-176`, `config_handlers.go:432-440`), nor does
GetConfigHistory (`:338-354`): a result set that is cut short is answered as
complete, as `store_row_stream` shows for getConfig. So `AnswersOfOneDefinition`
allows a cut answer to lack fields, and only that.

*Front ends.* A request that fails validation is answered 500, since
`validationError` has no status of its own, although the annotations say
`@Failure 400`. A version or limit in a URL beyond 32 bits becomes another one
(`handlers.go:256`, `:212`); 0 and -1 then mean the published and the latest.
With Basic Auth and JWT both configured no request passes, because both read
the one `Authorization` header (`router.go:51-58`). UpdateConfig's answer never
has the published version. `docs/HTTP_GATEWAY.md:495` and
`docs/DOCKER-USAGE.md:26` speak of values merged with template defaults; the
server gives either, never both.

*Go client.* Two concurrent Close calls can both find the stop channel open
(`client.go:592-597`), or that of the cache (`cache.go:176-181`), and the second
`close` panics. The cache key holds ids
the server ignores for the scope, so one configuration can have several entries
of which a publication invalidates one (`cache.go:43-51`; `sdk_session` with
`Ids <- Aliases` violates `ReadYourPublish`), and its parts are joined by an
unescaped colon, so `cache.go:43`'s "unique key" is not unique (`Ids <-
Colliding` violates `OwnAnswers`). ApplyConfigTemplate leaves the cached
template in place. The client's own default ignores `display_on`.

## Proofs

All theorems hold for all sets of identifiers, calls, paths, values, requests
and faults, and for all bounds, and assume no more than the assumptions that the
modules state on their constants: requests are sequences of fields, the name of
nobody is no call's, faults are of the known kinds, bounds and times are
naturals, a server is started at least once (`StartsAssumption`), callers are
finitely many, and so are the paths that a request names (`CallersAssumption`,
`RequestsAssumption`). Integers go up to `MaxInt`, any positive number.

Some say more in their own hypotheses, which the code does not ensure:

| theorem | assumes | without it |
|---|---|---|
| `OneVersion`, `WholeHistory` | no result set is cut short (`"row_stream" \notin Faults`) | `store_row_stream` is the counterexample for GetConfig |
| `Ownership`, `SessionInvariance`, `Monotonic` | `KeysIdentify`: equal keys mean equal configurations, so for names without colons | `Ids <- Colliding` |
| `PublishedIsRead` | also `NoAliases`: a configuration has one key, so identifiers carry no ids the server ignores | `Ids <- Aliases` |
| `SessionInvariance`, `Monotonic`, `PublishedIsRead` | `OneSession`: one goroutine, no background sync | `sdk_stale_sync` is the counterexample with sync |

Every property of safety that a passing run checks is the subject of a theorem.

### ConfigStoreProofs

`Spec` implies always

- `TypeOK` (`Typing`),
- `VersionsGapless` (`Gapless`): the history of a live row is exactly
  `1 .. latest_version`,
- `PublishedIsCommitted` (`PublishedCommitted`),
- `NoOrphans` (`Orphanless`),
- `CommittedOnce` (`Once`),
- `VersionIsFresh` (`Fresh`).

None of these is inductive alone. That the history stays gapless, for instance,
needs that the version a writer is about to commit is the successor of what is
*now* in the row, which needs that nobody else can change the row between
`UpdateLock` and `UpdateCommit`. `IInv` says so:

- `LockInv`: a transaction past its first write holds its identifier's lock;
- `IdInv`: ids in use are below the sequence and not shared by rows;
- `WriterInv`: a writer either extends the locked row by exactly one version,
  or creates a row whose id nobody else refers to and nothing was logged
  under;
- `TableInv`: the pointwise relation of `config_version`, the history, the
  fields and the log.

`Invariance` proves `Spec => []IInv`: it holds initially (`InvInit`), and every
step keeps each of its parts (`TypeStep`, `LockStep`, `IdStep`, `WriterStep`,
and `TableUpdate`, `TablePublish` and `TableDelete` for the three commits). The
lemmas in between say what one step cannot do: `OthersUntouched` that a call
leaves the other calls alone, `RowKept` that a locked row changes only by its
holder, `OwnRid` and `OwnStage` how a call gets on. `GotoTypes`, `ReplyTypes`
and `FailTypes` say once what the common steps do to the types. The other
theorems follow from `IInv`.

### ConfigContentProofs

`Spec` implies `StoredAsCommitted` (`Stored`), `AnswerIsOneVersion`
(`OneVersion`) and the refinement `ImplementsVersionedConfig` (`Refinement`).

Three lemmas about the `config_field` table carry all of it: the version that an
update is about to commit is in no table yet (`NewVersion`), the commit adds
fields to that version only (`FieldsAfterUpdate`), and a deletion takes those of
its own row only (`FieldsAfterDelete`). With `IInv` they make `StoredAsCommitted`
inductive. `OneVersion` follows a read from its row query to its answer; it
assumes that `"row_stream"` is not among the faults, which is the fault under
which the run `store_row_stream` refutes `AllFieldsReturned`. The refinement
maps `UpdateCommit`, `PublishCommit` and `DeleteRow` to `AddVersion`, `Publish`
and `Remove`, or to a stutter; it needs `UniquePaths`, that the fields that a
transaction has inserted hold one value per path, which is what makes what
clients read a configuration.

### ConfigHistoryProofs

`HSpec` implies always `SettledOrder` (`Settled`), and the action property
`HistoryIsWhole` (`WholeHistory`), which assumes that no result set is cut
short.

`SettledOrder` speaks of two rows, one committed before the update of the other
began, and of an answer that was composed later, when the row may be deleted
and created again. The invariant `HInv` follows a pair of rows from the start:
what was committed when an update began is older than the update
(`BeforeOlder`), and when the update commits its row inherits that
(`SettledOlder`); `Ordered`, that no two things are each older, makes the answer
agree with it. `history \subseteq LogPairs` and `ListedKnown` keep answers of
deleted rows apart from rows that come later: a version that is committed now
was never listed before (`OwnIsNew`), which is where `IInv` of
`ConfigStoreProofs` comes in. `WholeHistory` needs that the history of a row is
finite and is `1 .. latest`, again from `IInv`; the counting is by the
library's theorems on finite sets.

### SqliteStoreProofs

`Spec` implies `TypeOK` (`Typing`), `WriterIsCurrent` (`CurrentWriter`),
`TablesAgree` (`Agreement`) and the refinement `ImplementsVersionedConfig`
(`Refinement`).

Without row locks the argument is another one. The writer works on what it read
before it had the lock; that this is still what is committed follows from
`SnapshotIsCurrent`, that a snapshot nobody has outdated by a commit is equal to
the tables, and from `CanWrite`, which lets only such a snapshot through. From
then on nobody else can commit, which is the last conjunct of `TypeOK`.
`TablesAgree` needs `WriterIsCurrent` at the commit, and the refinement needs
`CommitsAreSteps`: what a call is about to commit is one version appended, or
the publication of one that exists. Together they are `IInv` of this module.
`Refinement` maps every step: `UpdateCommit`, `PublishCommit` and `DeleteRow` to
`AddVersion`, `Publish` and `Remove` of `VersionedConfig`, or a stutter,
everything else to a stutter, crashes included.

### SdkClientProofs

`Spec` implies always `TypeOK` (`Typing`), `ClosedMeansStopped` (`Closing`) and
`WritesBounded` (`BoundedWrites`), and the action property `Fresh`
(`Freshness`); if equal keys mean equal configurations, which they do for names
without colons, also `OwnAnswers` (`Ownership`).

`IInv` has a part for each place where an answer can be: `CallsOK` for a call
(its attempts and the versions they have added, and the age of an answer that is
not stored yet), `SyncOK` for the sync goroutine's, `EntriesOK` for the cache,
whose entries expire no later than their answer's time, the latency of one
answer and the TTL. For `Closing`, `WaitedOK` has what `wg.Wait` gives to the
steps after it: a Close that is at the cache or at the connection finds the sync
goroutine ended, and nothing starts it again. Freshness is a statement about all
three: a hit is an entry, and an entry is stored from a call or from the sync,
at whatever moment the other one stores. `Ownership` has `OwnInv` on top, that
entries and calls are about the configuration they are kept for; `OwnStep` is
one lemma, since only the storing of an answer can disturb it.

For one goroutine without background sync (`OneSession`) the module proves
`MonotonicReads` (`Monotonic`) and, if no configuration has two keys,
`ReadYourPublish` (`PublishedIsRead`). `NewsInv` is a statement about age at each
place: an entry is as new as anything the goroutine has seen, and as anything it
was told is done, if there are no aliases (`EntryNews`); so is an answer that is
on its way or about to be stored; and a reply is what the entry holds
(`CallNews`). That an entry is left alone between the moment its answer is
stored and the reply is what the sync goroutine, or a second worker, would
break: with them the two properties are false.

### TemplateStoreProofs

`Spec` implies always `TypeOK` (`Typing`), `AnswersOfOneDefinition`
(`OneDefinition`) and `ResultsAreTrue` (`Truth`), the action property
`SeededBeforeServing` (`Seeded`) and the refinement `ImplementsTemplateRegister`
(`Refinement`).

The heart is `Inserted`: the fields that a transaction has inserted are a prefix
of the definition at the head of its queue, as that is converted for its source,
and have kept the constraints of the table. At the commit the prefix is all of
it (`CommittedWhole`), so that only whole valid definitions are stored
(`StoredWhole`), and whatever a reader finds between two of its statements is of
one, and all of it unless its result set was cut short (`ReadInv`). `QueueInv`
says that queues hold what was given to them, `ResultInv` and `BatchInv` that
reports keep up with the batch. The refinement maps `ApplyCommit` to `Apply`,
`SetTemplateActive` to `Switch`, everything else to a stutter, crashes included.

`Seeded` rests on a second invariant, `SeedInv`: while the server seeds, all
workers are idle, the loader has put the first `n` seeds through and has the
others still in its queue, or has given up at seed `n + 1` (`Reached`), and each
group that the first `n` are about is as the last of them says, or as seed
`n + 1` says if its commit took effect and was reported as a failure
(`SeedsHeld`). A crash starts over with `n = 0` over whatever the tables hold by
then, and the switch, which goes past the gRPC server, leaves contents alone
(`SeedSwitch`).

### FrontEndsProofs

`Spec` implies always `TypeOK` (`TypeCorrect`), `ClaimsWereTrue` (`Claims`),
`AnswerTellsEffect` (`Effects`), `ShowTellsPublished` (`ShowIsHonest`) and
`VersionAsAsked` (`VersionAnswered`), and the refinement
`ImplementsVersionedConfig` (`Refinement`).

`ClaimInv` says of each caller that `during` has what is published now, that an
answer claiming a published version is about one in `during`, and that what is
printed already is true of it. A step of anybody else adds to `during` exactly
what it publishes (`Bystander`), so that a claim stays true while the answer is
on its way. The refinement needs `RowsOK` and `WritesOK`, that a write under way
is about a configuration somebody named, and `WrittenRow`, what an accepted
write leaves: `Serve` and `OthersAct` are `AddVersion`, `Publish`, `Remove` or a
stutter, and what the front ends do themselves changes no configuration.

The other properties compare the end of a request with its beginning, several
steps and any number of foreign calls earlier. The invariant `WInv` carries the
request along: a call is one that its request stands for (`CallsAsAsked`), what
the caller's calls have changed so far is what that call may change
(`WritesAsAsked`), an answer tells what was read or written (`AnswersTruly`),
what is printed before the end is honest already (`BeginsBlank`, `ShowsBoth`),
and so is the end (`EndsAsAsked`). `Promise` has all of it for one caller, so
that a step is looked at once for the caller who takes it and once for a
bystander. The bound on versions needs an argument of its own: an update is only
sent while there is room for every update under way (`Fitting`, over the finite
set `UnderWay`), which is what keeps rows inside their type.

### ValueLookupProofs

`Spec` implies always `HeldValueWins` (`HeldWins`) and `QuietLookup`
(`QuietFinds`).

`Passed` says of a lookup that has gone by its first `p` sources that the client
holds a value of none of them, and, as long as nothing fails or changes, that
the server has none either; `QuietOK` that until then all that is cached or on
its way, of any goroutine, is what the server would answer. `TakeKeeps` is the
one lemma in which a source is passed, for a cache hit, an answer and a failure
alike. `FirstGiven` names the first answer along `Chain`, `OneNearest` the nearest
scope that has a value set, and `GivenIsPromised` shows that the two agree unless
a default was filled in nearer than that (`FilledIn`).

### Model-checked only

Liveness is out of TLAPS's reach, since it needs fairness and ENABLED, and stays
with TLC: `CallsReturn` of `ConfigStore`, `TemplateStore` and `SdkClient`,
`StartupEnds` of `TemplateStore`, `WriterLeaves` of `SqliteStore`. So do the
properties of the four runs that are violated.

## Not modelled, and the plan

In this order:

1. `AdminUi`: the page's asynchronous loads, saves and publications
   (`ui/app.js`), of which a late answer can be shown and saved under another
   selection.
2. Variants of `SdkClient` for the Java, TypeScript and Python SDKs: the same
   cache with threads or an event loop.

Partly modelled: `SdkClient` leaves out GetLatestConfig, GetConfigByVersion,
GetConfigHistory and ListConfigTemplates, which are one call without cache or
retry, the length of a backoff, and unlimited retries (`MaxRetries < 0`). The
command line's `version` prints the newest release and `get --path` one field.
The Go client's template loader repeats the seed loader, which `TemplateStore`
has. The wrap of `latest_version + 1` (a Go `int32`) after 2^31 - 1 versions is
beyond every bound: the wrapped number is a negative INTEGER, which both databases
take, so that versions go on below zero.

Left out for good: descriptors and registration of the generated protocol code,
API documentation and Swagger files, build and deployment files, examples, the
vendored UI library, the signatures and keys of tokens, logging and the
formatting of output.
