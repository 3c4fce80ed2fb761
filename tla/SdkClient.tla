----------------------------- MODULE SdkClient -----------------------------
(***************************************************************************)
(* A client of the Go SDK (sdks/go/client.go, cache.go, retry.go): its     *)
(* cache, background sync, retries, invalidation and Close. Goroutines of  *)
(* the application call it concurrently; the sync goroutine runs beside    *)
(* them. A call to the server is two steps, the server's work and the      *)
(* client's receipt of the answer, because the cache is filled from an     *)
(* answer without any lock held in between.                                *)
(*                                                                         *)
(* The server is what ConfigStore shows it to be, an atomic store per      *)
(* configuration. All that matters here is how often what GetConfig        *)
(* answers has changed, by a publication or a deletion, and for a call how *)
(* many versions its attempts have added.                                  *)
(***************************************************************************)
EXTENDS Integers, Sequences

CONSTANTS
    Ids,          \* identifiers the application uses: see Identifier
    Workers,      \* goroutines of the application
    Calls,        \* bound: the kinds of calls they make
    SyncEnabled,  \* WithBackgroundSync
    MaxRetries,   \* RetryPolicy.MaxRetries, not unlimited
    TTL,          \* WithCache, in ticks
    MaxLatency,   \* environment: an answer is stored within so many ticks
    Faults,       \* environment: "request" and "answer" losses that happen
    MaxTime,      \* bound: ticks
    MaxChanges    \* bound: changes of a configuration

\* A name is a sequence of characters; scope is the name of a Scope.
Name       == Seq(STRING)
Identifier == [service : Name, group : Name, scope : STRING,
               project : Name, store : Name, user : Name]

ASSUME IdsAssumption    == Ids \subseteq Identifier
ASSUME TimesAssumption  == TTL \in Nat /\ MaxLatency \in Nat /\ MaxTime \in Nat
ASSUME BoundsAssumption == MaxRetries \in Nat /\ MaxChanges \in Nat
ASSUME SyncAssumption   == SyncEnabled \in BOOLEAN

VARIABLES
    changes,   \* server: how often the answer to GetConfig has changed
    now,       \* the clock
    cache,     \* configCache.configs
    targets,   \* Client.syncTargets
    stopped,   \* which of Channels are closed
    closed,    \* the connection is closed
    at,        \* the next step of each worker
    call,      \* its call
    sync,      \* the sync goroutine
    acked,     \* ghost: the last change it made that each identifier reads
    seen       \* ghost: the newest answer it was given for each identifier

\* syncStopChan of the client and stopChan of its cache.
Channels == {"sync", "cache"}

client == <<cache, targets, stopped, closed>>
vars == <<changes, now, cache, targets, stopped, closed, at, call,
          sync, acked, seen>>

ghosts == <<acked, seen>>

-----------------------------------------------------------------------------
(* Identifiers *)

\* Mutant of CacheKey: the project, store and user are left out.
CacheKeyWithoutScopeId(i) ==
    i.service \o <<":">> \o i.group \o <<":", i.scope>>

\* cacheKey joins all names with colons.
CacheKey(i) == i.service \o <<":">> \o i.group \o <<":", i.scope, ":">>
               \o i.project \o <<":">> \o i.store \o <<":">> \o i.user

\* The server looks at the id of the scope and no other (getIdentifier).
ScopeId(i) == CASE i.scope = "SYSTEM"  -> <<"system">>
                [] i.scope = "PROJECT" -> i.project
                [] i.scope = "STORE"   -> i.store
                [] i.scope = "USER"    -> i.user

Target(i) == <<i.service, i.group, i.scope, ScopeId(i)>>

Keys    == {CacheKey(i) : i \in Ids}
Configs == {Target(i) : i \in Ids}

-----------------------------------------------------------------------------

\* An answer of GetConfig: whose, after how many changes, and when.
Nothing == [config |-> <<>>, value |-> 0, time |-> 0]
NoEntry == [data |-> Nothing, expires |-> 0]

NoId   == [service |-> <<>>, group |-> <<>>, scope |-> "",
           project |-> <<>>, store |-> <<>>, user |-> <<>>]
NoCall == [op |-> "none", id |-> NoId, tries |-> 0, wrote |-> 0, floor |-> 0,
           data |-> Nothing, status |-> "none"]

Init ==
    /\ changes  = [c \in Configs |-> 0]
    /\ now      = 0
    /\ cache    = [k \in Keys |-> NoEntry]
    /\ targets  = <<>>
    /\ stopped  = {}
    /\ closed   = FALSE
    /\ at       = [w \in Workers |-> "idle"]
    /\ call     = [w \in Workers |-> NoCall]
    /\ sync     = [at   |-> IF SyncEnabled THEN "select" ELSE "stopped",
                   todo |-> <<>>, data |-> Nothing]
    /\ acked    = [i \in Ids |-> 0]
    /\ seen     = [i \in Ids |-> 0]

Goto(w, from, to) == at[w] = from /\ at' = [at EXCEPT ![w] = to]

Set(i, data) ==
    cache' = [cache EXCEPT ![CacheKey(i)] = [data |-> data, expires |-> now + TTL]]

Hit(i)   == cache[CacheKey(i)] # NoEntry
\* Mutant of Valid: an expired entry is returned all the same.
ValidForever(i) == Hit(i)

Valid(i) == Hit(i) /\ now <= cache[CacheKey(i)].expires

Answered(c) == [config |-> c, value |-> changes[c], time |-> now]

Reply(w, status, data) ==
    /\ at'   = [at EXCEPT ![w] = "reply"]
    /\ call' = [call EXCEPT ![w].status = status, ![w].data = data]

-----------------------------------------------------------------------------
(* Calls of the application *)

\* GetConfig, PublishVersion or DeleteConfig (change), and UpdateConfig.
Start(w, op, i) ==
    /\ op \in Calls
    /\ Goto(w, "idle", "request")
    /\ call' = [call EXCEPT ![w] = [NoCall EXCEPT !.op = op, !.id = i, !.floor = acked[i]]]
    /\ UNCHANGED <<changes, now, client, sync, ghosts>>

\* GetConfigCached: a valid entry is the answer.
GetConfigCached(w, i) ==
    LET c == [NoCall EXCEPT !.op = "cached", !.id = i, !.floor = acked[i]]
    IN  /\ "cached" \in Calls /\ at[w] = "idle"
        /\ IF Valid(i)
           THEN /\ at'   = [at EXCEPT ![w] = "reply"]
                /\ call' = [call EXCEPT ![w] = [c EXCEPT
                               !.status = "hit", !.data = cache[CacheKey(i)].data]]
           ELSE /\ at'   = [at EXCEPT ![w] = "request"]
                /\ call' = [call EXCEPT ![w] = c]
        /\ UNCHANGED <<changes, now, client, sync, ghosts>>

\* The server does what it is asked.
Serve(w) ==
    LET op == call[w].op
        c  == Target(call[w].id)
    IN  /\ ~closed
        /\ Goto(w, "request", "answer")
        /\ \/ /\ op \in {"get", "cached"}
              /\ call' = [call EXCEPT ![w].data = Answered(c)]
              /\ UNCHANGED changes
           \/ /\ op = "change" /\ changes[c] < MaxChanges
              /\ changes' = [changes EXCEPT ![c] = @ + 1]
              /\ call'    = [call EXCEPT ![w].data.value = changes[c] + 1]
           \/ /\ op = "update"
              /\ call' = [call EXCEPT ![w].wrote = @ + 1]
              /\ UNCHANGED changes
        /\ UNCHANGED <<now, client, sync, ghosts>>

\* The answer arrives.
Receive(w) ==
    LET op == call[w].op
    IN  /\ at[w] = "answer"
        /\ \/ op \in {"get", "cached"} /\ Goto(w, "answer", "set") /\ UNCHANGED call
           \/ op = "change" /\ Goto(w, "answer", "invalidate") /\ UNCHANGED call
           \/ op = "update" /\ Reply(w, "ok", Nothing)
        /\ UNCHANGED <<changes, now, client, sync, ghosts>>

\* Mutant of SetCache: GetConfig bypasses the cache in both directions.
SetCacheUnlessBypassed(w) ==
    /\ Goto(w, "set", "target")
    /\ IF call[w].op = "get" THEN UNCHANGED cache ELSE Set(call[w].id, call[w].data)
    /\ UNCHANGED <<changes, now, targets, stopped, closed, call, sync, ghosts>>

\* cache.set, and after it addSyncTarget.
SetCache(w) ==
    /\ Goto(w, "set", "target")
    /\ Set(call[w].id, call[w].data)
    /\ UNCHANGED <<changes, now, targets, stopped, closed, call, sync, ghosts>>

AddSyncTarget(w) ==
    LET i == call[w].id
    IN  /\ at[w] = "target"
        /\ targets' = IF \E n \in DOMAIN targets : CacheKey(targets[n]) = CacheKey(i)
                      THEN targets ELSE Append(targets, i)
        /\ Reply(w, "ok", call[w].data)
        /\ UNCHANGED <<changes, now, cache, stopped, closed, sync, ghosts>>

\* Mutant of Invalidate: the entry stays until it expires.
InvalidateNothing(w) ==
    LET i == call[w].id
    IN  /\ at[w] = "invalidate"
        /\ acked' = [j \in Ids |-> IF Target(j) = Target(i) /\ acked[j] < call[w].data.value
                                   THEN call[w].data.value ELSE acked[j]]
        /\ Reply(w, "ok", Nothing)
        /\ UNCHANGED <<changes, now, client, sync, seen>>

\* The changed configuration's entry is dropped. From the return of the call
\* on, the application expects the change under each of its names.
Invalidate(w) ==
    LET i == call[w].id
    IN  /\ at[w] = "invalidate"
        /\ cache' = [cache EXCEPT ![CacheKey(i)] = NoEntry]
        /\ acked' = [j \in Ids |-> IF Target(j) = Target(i) /\ acked[j] < call[w].data.value
                                   THEN call[w].data.value ELSE acked[j]]
        /\ Reply(w, "ok", Nothing)
        /\ UNCHANGED <<changes, now, targets, stopped, closed, sync, seen>>

\* Which calls go through the retry policy.
Retried == {"get", "cached", "update"}

\* Mutant of CanRetry: one attempt too many.
CanRetryOnceMore(w) == call[w].op \in Retried /\ call[w].tries <= MaxRetries

CanRetry(w) == call[w].op \in Retried /\ call[w].tries < MaxRetries

\* The call fails, but GetConfigCached falls back on what the cache still holds.
GiveUp(w) ==
    LET i == call[w].id
    IN  IF call[w].op = "cached" /\ Hit(i)
        THEN Reply(w, "stale", cache[CacheKey(i)].data)
        ELSE Reply(w, "error", Nothing)

\* The request or the answer is lost, the server refuses a write, as it may at
\* any time, or Close closes the connection under the call, which cancels it. A
\* transient error is retried; after the last attempt, or any other error, the
\* client gives up.
CallFails(w) ==
    /\ \/ at[w] = "request" /\ ("request" \in Faults \/ closed)
       \/ at[w] = "request" /\ call[w].op \in {"change", "update"}
       \/ at[w] = "answer" /\ ("answer" \in Faults \/ closed)
    /\ \/ /\ CanRetry(w) /\ ~closed
          /\ at'   = [at EXCEPT ![w] = "request"]
          /\ call' = [call EXCEPT ![w].tries = @ + 1, ![w].data = Nothing]
       \/ GiveUp(w)
    /\ UNCHANGED <<changes, now, client, sync, ghosts>>

\* InvalidateCache, or ClearCache for all identifiers.
Forget(w, ids) ==
    /\ "forget" \in Calls /\ at[w] = "idle"
    /\ cache' = [k \in Keys |-> IF \E i \in ids : CacheKey(i) = k THEN NoEntry ELSE cache[k]]
    /\ acked' = [i \in Ids |-> IF i \in ids THEN changes[Target(i)] ELSE acked[i]]
    /\ UNCHANGED <<changes, now, targets, stopped, closed, at, call, sync, seen>>

Return(w) ==
    LET c == call[w]
    IN  /\ Goto(w, "reply", "idle")
        /\ call' = [call EXCEPT ![w] = NoCall]
        /\ seen' = [i \in Ids |-> IF i = c.id /\ seen[i] < c.data.value
                                  THEN c.data.value ELSE seen[i]]
        /\ UNCHANGED <<changes, now, client, sync, acked>>

-----------------------------------------------------------------------------
(* Background sync *)

\* The ticker fires: the targets are copied. When the stop channel is closed as
\* well, select takes either.
SyncTick ==
    /\ sync.at = "select"
    /\ sync' = [sync EXCEPT !.at = "next", !.todo = targets]
    /\ UNCHANGED <<changes, now, client, at, call, ghosts>>

SyncRequest ==
    /\ sync.at = "next"
    /\ sync' = [sync EXCEPT !.at = IF sync.todo = <<>> THEN "select" ELSE "request"]
    /\ UNCHANGED <<changes, now, client, at, call, ghosts>>

SyncServe ==
    /\ sync.at = "request"
    /\ sync' = [sync EXCEPT !.at = "answer", !.data = Answered(Target(Head(sync.todo)))]
    /\ UNCHANGED <<changes, now, client, at, call, ghosts>>

SyncDone == sync' = [at |-> "next", todo |-> Tail(sync.todo), data |-> Nothing]

\* The entry is replaced, whatever happened to it since the request was sent.
SyncSet ==
    /\ sync.at = "answer"
    /\ Set(Head(sync.todo), sync.data)
    /\ SyncDone
    /\ UNCHANGED <<changes, now, targets, stopped, closed, at, call, ghosts>>

\* An identifier that cannot be fetched is passed over.
SyncFails ==
    /\ \/ sync.at = "request" /\ ("request" \in Faults \/ closed)
       \/ sync.at = "answer" /\ ("answer" \in Faults \/ closed)
    /\ SyncDone
    /\ UNCHANGED <<changes, now, client, at, call, ghosts>>

SyncStop ==
    /\ sync.at = "select" /\ "sync" \in stopped
    /\ sync' = [sync EXCEPT !.at = "stopped"]
    /\ UNCHANGED <<changes, now, client, at, call, ghosts>>

-----------------------------------------------------------------------------
(* Close *)

\* stopBackgroundSync: is the channel closed already?
Close(w) ==
    /\ "close" \in Calls
    /\ Goto(w, "idle", IF "sync" \in stopped THEN "close.wait" ELSE "close.channel")
    /\ call' = [call EXCEPT ![w] = [NoCall EXCEPT !.op = "close"]]
    /\ UNCHANGED <<changes, now, client, sync, ghosts>>

\* Closing a channel that another Close has closed since the check panics.
CloseOnce(w, from, channel, to) ==
    /\ Goto(w, from, IF channel \in stopped THEN "panic" ELSE to)
    /\ stopped' = stopped \cup {channel}
    /\ UNCHANGED <<changes, now, cache, targets, closed, call, sync, ghosts>>

\* Mutant of CloseChannel: Close waits, but does not signal.
CloseChannelForgotten(w) ==
    /\ Goto(w, "close.channel", "close.wait")
    /\ UNCHANGED <<changes, now, client, call, sync, ghosts>>

CloseChannel(w) == CloseOnce(w, "close.channel", "sync", "close.wait")

\* Mutant of StopCache: the sync goroutine is not waited for.
StopCacheWithoutWaiting(w) ==
    /\ Goto(w, "close.wait", IF "cache" \in stopped THEN "close.connection" ELSE "close.cache")
    /\ UNCHANGED <<changes, now, client, call, sync, ghosts>>

\* syncWg.Wait, then cache.stop: is its channel closed already?
StopCache(w) ==
    /\ sync.at = "stopped"
    /\ Goto(w, "close.wait", IF "cache" \in stopped THEN "close.connection" ELSE "close.cache")
    /\ UNCHANGED <<changes, now, client, call, sync, ghosts>>

CloseCache(w) == CloseOnce(w, "close.cache", "cache", "close.connection")

\* The connection reports that it is closed already.
CloseConnection(w) ==
    /\ at[w] = "close.connection"
    /\ closed' = TRUE
    /\ Reply(w, IF closed THEN "error" ELSE "ok", Nothing)
    /\ UNCHANGED <<changes, now, cache, targets, stopped, sync, ghosts>>

-----------------------------------------------------------------------------
(* Environment *)

\* Somebody else publishes or deletes.
Change(c) ==
    /\ changes[c] < MaxChanges
    /\ changes' = [changes EXCEPT ![c] = @ + 1]
    /\ UNCHANGED <<now, client, at, call, sync, ghosts>>

\* Time passes, unless that makes an answer come later than MaxLatency.
InTime(data) == data.config = <<>> \/ now < data.time + MaxLatency

Tick ==
    /\ now < MaxTime
    /\ \A w \in Workers : at[w] \in {"answer", "set"} => InTime(call[w].data)
    /\ InTime(sync.data)
    /\ now' = now + 1
    /\ UNCHANGED <<changes, client, at, call, sync, ghosts>>

\* A panic ends the process.
Running == \A w \in Workers : at[w] # "panic"

Worker(w) ==
    \/ \E op \in {"get", "change", "update"}, i \in Ids : Start(w, op, i)
    \/ \E i \in Ids : GetConfigCached(w, i)
    \/ \E ids \in {Ids} \cup {{i} : i \in Ids} : Forget(w, ids)
    \/ Serve(w) \/ Receive(w) \/ CallFails(w)
    \/ SetCache(w) \/ AddSyncTarget(w) \/ Invalidate(w)
    \/ Close(w) \/ CloseChannel(w) \/ StopCache(w) \/ CloseCache(w) \/ CloseConnection(w)
    \/ Return(w)

Sync == SyncTick \/ SyncRequest \/ SyncServe \/ SyncSet \/ SyncFails \/ SyncStop

Next ==
    /\ Running
    /\ \/ \E w \in Workers : Worker(w)
       \/ Sync
       \/ \E c \in Configs : Change(c)
       \/ Tick

Spec == Init /\ [][Next]_vars

\* Calls of the server end, by an answer or an error; goroutines keep running;
\* select is fair between a ticker and a closed channel.
Fairness ==
    /\ \A w \in Workers :
          WF_vars(Running /\ (\/ Serve(w) \/ Receive(w) \/ SetCache(w) \/ AddSyncTarget(w)
                              \/ Invalidate(w) \/ CallFails(w) \/ Return(w)
                              \/ CloseChannel(w) \/ StopCache(w) \/ CloseCache(w)
                              \/ CloseConnection(w)))
    /\ WF_vars(Running /\ (SyncRequest \/ SyncServe \/ SyncSet))
    /\ SF_vars(Running /\ SyncStop)

FairSpec == Spec /\ Fairness

-----------------------------------------------------------------------------
(* Properties *)

Data  == [config : Configs \cup {<<>>}, value : 0 .. MaxChanges, time : 0 .. MaxTime]
Steps == {"idle", "request", "answer", "set", "target", "invalidate",
          "close.channel", "close.wait", "close.cache", "close.connection", "reply", "panic"}
CallRecord == [op     : {"none", "get", "cached", "change", "update", "close"},
               id     : Ids \cup {NoId},
               tries  : 0 .. MaxRetries,
               wrote  : 0 .. MaxRetries + 1,
               floor  : 0 .. MaxChanges,
               data   : Data,
               status : {"none", "ok", "hit", "stale", "error"}]

\* Every variable has its type.
TypeOK ==
    /\ changes  \in [Configs -> 0 .. MaxChanges]
    /\ now      \in 0 .. MaxTime
    /\ cache    \in [Keys -> [data : Data, expires : 0 .. MaxTime + TTL]]
    /\ targets  \in Seq(Ids)
    /\ stopped  \subseteq Channels
    /\ closed   \in BOOLEAN
    /\ at       \in [Workers -> Steps]
    /\ call     \in [Workers -> CallRecord]
    /\ sync     \in [at   : {"select", "next", "request", "answer", "stopped"},
                     todo : Seq(Ids),
                     data : Data]
    /\ acked    \in [Ids -> 0 .. MaxChanges]
    /\ seen     \in [Ids -> 0 .. MaxChanges]

Replied(w, ops) == at[w] = "reply" /\ call[w].op \in ops /\ call[w].status # "error"

\* client.go:475: the cache is invalidated since the published version has
\* changed, so that a cached read that starts after a successful publication,
\* deletion or invalidation never answers with what was there before.
ReadYourPublish ==
    \A w \in Workers : Replied(w, {"cached"}) => call[w].data.value >= call[w].floor

\* To an application that makes one call at a time, the configuration never
\* goes back to an earlier state: neither a hit, nor a retry that read before
\* a lost answer, nor the stale fallback hands out less than was seen before.
MonotonicReads ==
    \A w \in Workers : Replied(w, {"get", "cached"}) =>
        call[w].data.value >= seen[call[w].id]

\* cache.go:43 calls the key of an identifier unique: an answer is always one
\* that the server gave for the very configuration that was asked for.
OwnAnswers ==
    \A w \in Workers : Replied(w, {"get", "cached"}) =>
        call[w].data.config = Target(call[w].id)

\* What the cache answers without asking the server was the server's answer
\* not longer ago than the TTL and the time one answer takes to be stored,
\* however the sync goroutine and the calls interleave.
Fresh == [][\A w \in Workers :
    at[w] = "idle" /\ at'[w] = "reply" /\ call'[w].status = "hit" =>
        now <= call'[w].data.time + MaxLatency + TTL]_vars

\* The retries of one UpdateConfig, which is not idempotent, add at most one
\* version per attempt, and a success means at least one: exactly one if the
\* first attempt was answered.
WritesBounded ==
    \A w \in Workers : call[w].op = "update" =>
        /\ call[w].wrote <= call[w].tries + 1
        /\ call[w].wrote <= MaxRetries + 1
        /\ Replied(w, {"update"}) => call[w].wrote >= 1

\* Close lets the sync goroutine finish: nothing refreshes the cache over a
\* closed connection.
ClosedMeansStopped == closed => sync.at = "stopped"

\* Every call of the application returns, Close included, though the sync
\* goroutine it waits for may be busy with a slow server, unless the process
\* panics.
CallsReturn == \A w \in Workers : []<>(at[w] = "idle" \/ ~Running)
=============================================================================
