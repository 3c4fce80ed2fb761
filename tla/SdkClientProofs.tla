-------------------------- MODULE SdkClientProofs --------------------------
(***************************************************************************)
(* Proofs about SdkClient for any number of goroutines, identifiers and    *)
(* retries, any TTL and latency, and whichever faults occur. The inductive *)
(* invariant says of every call, by its next step, what it has got so far, *)
(* and of every cache entry whose answer it is and how old it can get. Two *)
(* more say whose answers they are, and, for one goroutine without sync,   *)
(* that they are as new as all that it has been told.                      *)
(***************************************************************************)
EXTENDS SdkClient, SequenceTheorems, TLAPS

USE IdsAssumption, TimesAssumption, BoundsAssumption, SyncAssumption

-----------------------------------------------------------------------------
(* The invariant *)

Reads  == {"get", "cached"}
Asking == {"request", "answer", "set", "target", "invalidate"}

\* A call c whose next step is a, at the time t.
CallOK(a, c, t) ==
    /\ a \in Asking => c.id \in Ids /\ c.op \in Reads \cup {"change", "update"}
    /\ a \in {"set", "target"} => c.op \in Reads
    /\ a = "invalidate" => c.op = "change"
    /\ a \in {"close.channel", "close.wait", "close.cache", "close.connection"} => c.op = "close"
    /\ c.op # "update" => c.wrote = 0
    /\ c.op = "update" =>
          /\ c.wrote <= c.tries + 1
          /\ a = "request" => c.wrote <= c.tries
          /\ a = "answer" \/ (a = "reply" /\ c.status # "error") => c.wrote >= 1
    /\ c.op \in Reads /\ a \in {"answer", "set"} =>
          c.data.config = Target(c.id) /\ t <= c.data.time + MaxLatency

CallsOK == \A w \in Workers : CallOK(at[w], call[w], now)

SyncOK ==
    /\ sync.at \in {"request", "answer"} => sync.todo # <<>>
    /\ sync.at = "answer" =>
          /\ sync.data.config = Target(Head(sync.todo))
          /\ now <= sync.data.time + MaxLatency

\* An entry expires in time.
EntriesOK ==
    \A k \in Keys : cache[k] # NoEntry =>
        cache[k].expires <= cache[k].data.time + MaxLatency + TTL

\* The steps of Close after its start, or the panic one of them ends in.
ClosingSteps == {"close.channel", "close.wait", "close.cache", "close.connection", "panic"}

\* Close goes on to the cache and the connection once the goroutine has ended.
WaitedOK ==
    \A w \in Workers : at[w] \in {"close.cache", "close.connection"} => sync.at = "stopped"

IInv == TypeOK /\ CallsOK /\ SyncOK /\ EntriesOK /\ WaitedOK /\ ClosedMeansStopped

-----------------------------------------------------------------------------
(* Types *)

Statuses == {"none", "ok", "hit", "stale", "error"}
Ops      == {"none", "get", "cached", "change", "update", "close"}

LEMMA KeyType == \A i \in Ids : CacheKey(i) \in Keys /\ Target(i) \in Configs
  BY DEF Keys, Configs

LEMMA TargetSome == \A i : Target(i) # <<>>
  BY DEF Target

LEMMA NothingType == Nothing \in Data /\ NoCall \in CallRecord
                     /\ NoEntry \in [data : Data, expires : 0 .. MaxTime + TTL]
  <1>1. Nothing \in Data
    BY DEF Nothing, Data
  <1>2. NoCall \in CallRecord
    BY <1>1 DEF NoCall, CallRecord
  <1>3. NoEntry \in [data : Data, expires : 0 .. MaxTime + TTL]
    BY <1>1 DEF NoEntry
  <1> QED BY <1>1, <1>2, <1>3

\* What the server answers.
LEMMA AnsweredType ==
    ASSUME TypeOK, NEW c \in Configs
    PROVE  /\ Answered(c) \in Data
           /\ Answered(c).config = c /\ Answered(c).time = now
  BY DEF TypeOK, Answered, Data

\* The step of a worker changes its own call only.
Own(w) ==
    /\ at'   \in [Workers -> Steps]
    /\ call' \in [Workers -> CallRecord]
    /\ \A v \in Workers \ {w} : at'[v] = at[v] /\ call'[v] = call[v]

LEMMA OwnCall ==
    ASSUME TypeOK, NEW w \in Workers, NEW a \in Steps, NEW c \in CallRecord,
           at' = [at EXCEPT ![w] = a], call' = [call EXCEPT ![w] = c]
    PROVE  Own(w) /\ at'[w] = a /\ call'[w] = c
  BY DEF Own, TypeOK

LEMMA ReplyCall ==
    ASSUME TypeOK, NEW w \in Workers, NEW s \in Statuses, NEW d \in Data, Reply(w, s, d)
    PROVE  /\ Own(w) /\ at'[w] = "reply"
           /\ call'[w] = [call[w] EXCEPT !.status = s, !.data = d]
           /\ call'[w].status = s /\ call'[w].data = d
           /\ call'[w].op = call[w].op /\ call'[w].id = call[w].id
           /\ call'[w].tries = call[w].tries /\ call'[w].wrote = call[w].wrote
  <1> DEFINE c == [call[w] EXCEPT !.status = s, !.data = d]
  <1>1. call[w] \in CallRecord
    BY DEF TypeOK
  <1>2. /\ c \in CallRecord /\ c.status = s /\ c.data = d
        /\ c.op = call[w].op /\ c.id = call[w].id
        /\ c.tries = call[w].tries /\ c.wrote = call[w].wrote
    BY <1>1 DEF CallRecord, Statuses
  <1>3. at' = [at EXCEPT ![w] = "reply"] /\ call' = [call EXCEPT ![w] = c]
    BY DEF Reply, TypeOK
  <1> HIDE DEF c
  <1>4. Own(w) /\ at'[w] = "reply" /\ call'[w] = c
    BY <1>2, <1>3, OwnCall DEF Steps
  <1> QED BY <1>2, <1>4 DEF c

Entry == [data : Data, expires : 0 .. MaxTime + TTL]

\* A step of one worker that leaves the time alone.
LEMMA CacheStep ==
    ASSUME IInv, NEW w \in Workers, Own(w), CallOK(at'[w], call'[w], now),
           cache' \in [Keys -> Entry], EntriesOK',
           UNCHANGED <<now, sync, closed>>,
           changes' \in [Configs -> 0 .. MaxChanges],
           targets' \in Seq(Ids), stopped' \in SUBSET Channels,
           at'[w] \in {"close.cache", "close.connection"} => sync.at = "stopped",
           acked' \in [Ids -> 0 .. MaxChanges], seen' \in [Ids -> 0 .. MaxChanges]
    PROVE  IInv'
  <1> USE DEF IInv
  <1>1. TypeOK'
    BY DEF TypeOK, Own, Data, CallRecord, Entry
  <1>2. CallsOK'
    <2> SUFFICES ASSUME NEW v \in Workers PROVE CallOK(at'[v], call'[v], now')
      BY DEF CallsOK
    <2>1. CASE v = w
      BY <2>1
    <2>2. CASE v # w
      BY <2>2 DEF CallsOK, Own
    <2> QED BY <2>1, <2>2
  <1>3. SyncOK' /\ ClosedMeansStopped'
    BY DEF SyncOK, ClosedMeansStopped
  <1>4. WaitedOK'
    BY DEF WaitedOK, Own
  <1> QED BY <1>1, <1>2, <1>3, <1>4

\* A step of one worker that leaves the cache alone, too.
LEMMA WorkerStep ==
    ASSUME IInv, NEW w \in Workers, Own(w), CallOK(at'[w], call'[w], now),
           UNCHANGED <<now, cache, sync, closed>>,
           changes' \in [Configs -> 0 .. MaxChanges],
           targets' \in Seq(Ids), stopped' \in SUBSET Channels,
           at'[w] \in {"close.cache", "close.connection"} => sync.at = "stopped",
           acked' \in [Ids -> 0 .. MaxChanges], seen' \in [Ids -> 0 .. MaxChanges]
    PROVE  IInv'
  <1>1. cache' \in [Keys -> Entry] /\ EntriesOK'
    BY DEF IInv, TypeOK, EntriesOK, Entry
  <1> QED BY <1>1, CacheStep

-----------------------------------------------------------------------------
(* Calls of the application *)

\* What the types of a call's record say of its fields.
LEMMA CallTypes ==
    ASSUME TypeOK, NEW w \in Workers
    PROVE  /\ call[w] \in CallRecord
           /\ call[w].op \in Ops /\ call[w].id \in Ids \cup {NoId}
           /\ call[w].tries \in 0 .. MaxRetries /\ call[w].wrote \in 0 .. MaxRetries + 1
           /\ call[w].floor \in 0 .. MaxChanges
           /\ call[w].data \in Data /\ call[w].status \in Statuses
           /\ call[w].data.value \in 0 .. MaxChanges /\ call[w].data.time \in 0 .. MaxTime
  BY DEF TypeOK, CallRecord, Data, Ops, Statuses

Begun(op, i, f) == [NoCall EXCEPT !.op = op, !.id = i, !.floor = f]

LEMMA NewCall ==
    ASSUME NEW op \in Ops, NEW i \in Ids, NEW f \in 0 .. MaxChanges
    PROVE  LET c == Begun(op, i, f)
           IN  /\ c \in CallRecord
               /\ c.op = op /\ c.id = i /\ c.wrote = 0 /\ c.tries = 0
  <1>1. NoCall \in CallRecord /\ NoCall.wrote = 0 /\ NoCall.tries = 0
    BY NothingType DEF NoCall
  <1> QED BY <1>1 DEF CallRecord, Ops, Begun

LEMMA StartStep ==
    ASSUME IInv, NEW w \in Workers, NEW op \in {"get", "change", "update"}, NEW i \in Ids,
           Start(w, op, i)
    PROVE  IInv'
  <1> USE DEF IInv
  <1> DEFINE c == Begun(op, i, acked[i])
  <1>1. acked[i] \in 0 .. MaxChanges
    BY DEF TypeOK
  <1>2. /\ c \in CallRecord /\ c.op = op /\ c.id = i /\ c.wrote = 0 /\ c.tries = 0
    BY <1>1, NewCall DEF Ops
  <1>3. at' = [at EXCEPT ![w] = "request"] /\ call' = [call EXCEPT ![w] = c]
    BY DEF Start, Goto, Begun
  <1> HIDE DEF c
  <1>4. Own(w) /\ at'[w] = "request" /\ call'[w] = c
    BY <1>2, <1>3, OwnCall DEF Steps
  <1>5. CallOK("request", c, now)
    BY <1>2 DEF CallOK, Reads, Asking
  <1> QED BY <1>4, <1>5, WorkerStep DEF Start, client, ghosts, TypeOK

LEMMA GetConfigCachedStep ==
    ASSUME IInv, NEW w \in Workers, NEW i \in Ids, GetConfigCached(w, i)
    PROVE  IInv'
  <1> USE DEF IInv
  <1> DEFINE c == Begun("cached", i, acked[i])
             e == cache[CacheKey(i)]
             h == [c EXCEPT !.status = "hit", !.data = e.data]
  <1>1. acked[i] \in 0 .. MaxChanges
    BY DEF TypeOK
  <1>2. e.data \in Data
    BY KeyType DEF TypeOK
  <1>3. c \in CallRecord /\ c.op = "cached" /\ c.id = i /\ c.wrote = 0 /\ c.tries = 0
    BY <1>1, NewCall DEF Ops
  <1> HIDE DEF c, e
  <1>4. h \in CallRecord /\ h.op = "cached" /\ h.id = i /\ h.wrote = 0 /\ h.tries = 0
    BY <1>2, <1>3 DEF CallRecord
  <1> HIDE DEF h
  <1>5. UNCHANGED <<changes, now, client, sync, ghosts>>
    BY DEF GetConfigCached
  <1>6. CASE Valid(i)
    <2>1. at' = [at EXCEPT ![w] = "reply"] /\ call' = [call EXCEPT ![w] = h]
      BY <1>6 DEF GetConfigCached, Begun, c, e, h
    <2>2. Own(w) /\ at'[w] = "reply" /\ call'[w] = h
      BY <1>4, <2>1, OwnCall DEF Steps
    <2>3. CallOK("reply", h, now)
      BY <1>4 DEF CallOK, Reads, Asking
    <2> QED BY <1>5, <2>2, <2>3, WorkerStep DEF client, ghosts, TypeOK
  <1>7. CASE ~Valid(i)
    <2>1. at' = [at EXCEPT ![w] = "request"] /\ call' = [call EXCEPT ![w] = c]
      BY <1>7 DEF GetConfigCached, Begun, c
    <2>2. Own(w) /\ at'[w] = "request" /\ call'[w] = c
      BY <1>3, <2>1, OwnCall DEF Steps
    <2>3. CallOK("request", c, now)
      BY <1>3 DEF CallOK, Reads, Asking
    <2> QED BY <1>5, <2>2, <2>3, WorkerStep DEF client, ghosts, TypeOK
  <1> QED BY <1>6, <1>7

LEMMA ServeStep ==
    ASSUME IInv, NEW w \in Workers, Serve(w)
    PROVE  IInv'
  <1> USE DEF IInv
  <1> DEFINE t == Target(call[w].id)
  <1>1. at[w] = "request" /\ at' = [at EXCEPT ![w] = "answer"]
        /\ UNCHANGED <<now, client, sync, ghosts>>
    BY DEF Serve, Goto
  <1>2. CallOK("request", call[w], now)
    BY <1>1 DEF CallsOK
  <1>3. call[w].id \in Ids /\ t \in Configs
    BY <1>2, KeyType DEF CallOK, Asking
  <1>4. changes[t] \in 0 .. MaxChanges
    BY <1>3 DEF TypeOK
  <1>5. CASE call[w].op \in {"get", "cached"}
    <2> DEFINE c == [call[w] EXCEPT !.data = Answered(t)]
    <2>1. Answered(t) \in Data /\ Answered(t).config = t /\ Answered(t).time = now
      BY <1>3, AnsweredType
    <2>2. /\ c \in CallRecord /\ c.op = call[w].op /\ c.id = call[w].id
          /\ c.wrote = call[w].wrote /\ c.data = Answered(t)
      BY <2>1, CallTypes DEF CallRecord
    <2>3. call' = [call EXCEPT ![w] = c] /\ UNCHANGED changes
      BY <1>5 DEF Serve, TypeOK
    <2> HIDE DEF c
    <2>4. Own(w) /\ at'[w] = "answer" /\ call'[w] = c
      BY <1>1, <2>2, <2>3, OwnCall DEF Steps
    <2>5. CallOK("answer", c, now)
      BY <1>2, <1>3, <1>5, <2>1, <2>2 DEF CallOK, Reads, Asking, TypeOK
    <2> QED BY <1>1, <2>3, <2>4, <2>5, WorkerStep DEF client, ghosts, TypeOK
  <1>6. CASE call[w].op = "change"
    <2> DEFINE d == [call[w].data EXCEPT !.value = changes[t] + 1]
               c == [call[w] EXCEPT !.data = d]
    <2>1. /\ changes[t] < MaxChanges /\ changes' = [changes EXCEPT ![t] = @ + 1]
          /\ call' = [call EXCEPT ![w].data.value = changes[t] + 1]
      BY <1>6 DEF Serve
    <2>2. d \in Data
      <3> PICK old \in Data : old = call[w].data
        BY CallTypes
      <3> PICK n \in 0 .. MaxChanges : n = changes[t] + 1
        BY <1>4, <2>1, BoundsAssumption
      <3>1. [old EXCEPT !.value = n] \in Data
        BY DEF Data
      <3> QED BY <3>1
    <2>3. call' = [call EXCEPT ![w] = c]
      BY <2>1, CallTypes DEF TypeOK, CallRecord, Data
    <2> HIDE DEF d
    <2>4. c \in CallRecord /\ c.op = call[w].op /\ c.id = call[w].id /\ c.wrote = call[w].wrote
      BY <2>2, CallTypes DEF CallRecord
    <2> HIDE DEF c
    <2>5. Own(w) /\ at'[w] = "answer" /\ call'[w] = c
      BY <1>1, <2>3, <2>4, OwnCall DEF Steps
    <2>6. CallOK("answer", c, now)
      BY <1>2, <1>3, <1>6, <2>4 DEF CallOK, Reads, Asking
    <2>7. changes' \in [Configs -> 0 .. MaxChanges]
      BY <1>3, <1>4, <2>1 DEF TypeOK
    <2> QED BY <1>1, <2>5, <2>6, <2>7, WorkerStep DEF client, ghosts, TypeOK
  <1>7. CASE call[w].op = "update"
    <2> DEFINE c == [call[w] EXCEPT !.wrote = @ + 1]
    <2>1. call[w].wrote <= call[w].tries
      BY <1>2, <1>7 DEF CallOK
    <2>2. /\ c \in CallRecord /\ c.op = call[w].op /\ c.id = call[w].id
          /\ c.wrote = call[w].wrote + 1 /\ c.tries = call[w].tries
      BY <2>1, CallTypes DEF CallRecord
    <2>3. call' = [call EXCEPT ![w] = c] /\ UNCHANGED changes
      BY <1>7 DEF Serve, TypeOK
    <2> HIDE DEF c
    <2>4. Own(w) /\ at'[w] = "answer" /\ call'[w] = c
      BY <1>1, <2>2, <2>3, OwnCall DEF Steps
    <2>5. CallOK("answer", c, now)
      BY <1>3, <1>7, <2>1, <2>2, CallTypes DEF CallOK, Reads, Asking
    <2> QED BY <1>1, <2>3, <2>4, <2>5, WorkerStep DEF client, ghosts, TypeOK
  <1> QED BY <1>5, <1>6, <1>7 DEF Serve
LEMMA ReceiveStep ==
    ASSUME IInv, NEW w \in Workers, Receive(w)
    PROVE  IInv'
  <1> USE DEF IInv
  <1>1. at[w] = "answer" /\ UNCHANGED <<changes, now, client, sync, ghosts>>
    BY DEF Receive
  <1>2. CallOK("answer", call[w], now)
    BY <1>1 DEF CallsOK
  <1>3. CASE call[w].op \in {"get", "cached"}
    <2>1. at' = [at EXCEPT ![w] = "set"] /\ call' = [call EXCEPT ![w] = call[w]]
      BY <1>3 DEF Receive, Goto, TypeOK
    <2>2. Own(w) /\ at'[w] = "set" /\ call'[w] = call[w]
      BY <2>1, OwnCall, CallTypes DEF Steps
    <2>3. CallOK("set", call[w], now)
      BY <1>2, <1>3 DEF CallOK, Reads, Asking
    <2> QED BY <1>1, <2>2, <2>3, WorkerStep DEF client, ghosts, TypeOK
  <1>4. CASE call[w].op = "change"
    <2>1. at' = [at EXCEPT ![w] = "invalidate"] /\ call' = [call EXCEPT ![w] = call[w]]
      BY <1>4 DEF Receive, Goto, TypeOK
    <2>2. Own(w) /\ at'[w] = "invalidate" /\ call'[w] = call[w]
      BY <2>1, OwnCall, CallTypes DEF Steps
    <2>3. CallOK("invalidate", call[w], now)
      BY <1>2, <1>4 DEF CallOK, Reads, Asking
    <2> QED BY <1>1, <2>2, <2>3, WorkerStep DEF client, ghosts, TypeOK
  <1>5. CASE call[w].op = "update"
    <2>1. Reply(w, "ok", Nothing)
      BY <1>5 DEF Receive
    <2>2. Own(w) /\ at'[w] = "reply" /\ call'[w].op = "update"
          /\ call'[w].tries = call[w].tries /\ call'[w].wrote = call[w].wrote
      BY <1>5, <2>1, ReplyCall, NothingType DEF Statuses
    <2>3. CallOK(at'[w], call'[w], now)
      BY <1>2, <1>5, <2>2 DEF CallOK, Reads, Asking
    <2> QED BY <1>1, <2>2, <2>3, WorkerStep DEF client, ghosts, TypeOK
  <1> QED BY <1>3, <1>4, <1>5 DEF Receive

LEMMA CallFailsStep ==
    ASSUME IInv, NEW w \in Workers, CallFails(w)
    PROVE  IInv'
  <1> USE DEF IInv
  <1>1. at[w] \in {"request", "answer"} /\ UNCHANGED <<changes, now, client, sync, ghosts>>
    BY DEF CallFails
  <1>2. CallOK(at[w], call[w], now)
    BY DEF CallsOK
  <1>3. call[w].id \in Ids /\ call[w].op \in Reads \cup {"change", "update"}
    BY <1>1, <1>2 DEF CallOK, Asking
  <1>4. ASSUME CanRetry(w), at' = [at EXCEPT ![w] = "request"],
               call' = [call EXCEPT ![w].tries = @ + 1, ![w].data = Nothing]
        PROVE  IInv'
    <2> DEFINE c == [call[w] EXCEPT !.tries = call[w].tries + 1, !.data = Nothing]
    <2>1. call[w].tries < MaxRetries /\ call[w].tries + 1 \in 0 .. MaxRetries
      BY <1>4, CallTypes DEF CanRetry
    <2>2. /\ c \in CallRecord /\ c.op = call[w].op /\ c.id = call[w].id
          /\ c.wrote = call[w].wrote /\ c.tries = call[w].tries + 1
      BY <2>1, CallTypes, NothingType DEF CallRecord
    <2>3. call' = [call EXCEPT ![w] = c]
      BY <1>4 DEF TypeOK
    <2> HIDE DEF c
    <2>4. Own(w) /\ at'[w] = "request" /\ call'[w] = c
      BY <1>4, <2>2, <2>3, OwnCall DEF Steps
    <2>5. CallOK("request", c, now)
      BY <1>1, <1>2, <1>3, <2>2, CallTypes DEF CallOK, Reads, Asking
    <2> QED BY <1>1, <2>4, <2>5, WorkerStep DEF client, ghosts, TypeOK
  <1>5. ASSUME GiveUp(w) PROVE IInv'
    <2>1. cache[CacheKey(call[w].id)].data \in Data
      BY <1>3, KeyType DEF TypeOK
    <2>2. PICK s \in {"stale", "error"}, d \in Data :
              Reply(w, s, d) /\ (s = "stale" => call[w].op = "cached")
      BY <1>5, <2>1, NothingType DEF GiveUp
    <2>3. /\ Own(w) /\ at'[w] = "reply" /\ call'[w].status = s
          /\ call'[w].op = call[w].op /\ call'[w].id = call[w].id
          /\ call'[w].tries = call[w].tries /\ call'[w].wrote = call[w].wrote
      <3>1. s \in Statuses
        BY DEF Statuses
      <3> QED BY <2>2, <3>1, ReplyCall
    <2>4. CallOK(at'[w], call'[w], now)
      BY <1>2, <1>3, <2>2, <2>3 DEF CallOK, Reads, Asking
    <2> QED BY <1>1, <2>3, <2>4, WorkerStep DEF client, ghosts, TypeOK
  <1> QED BY <1>4, <1>5 DEF CallFails

LEMMA ReturnStep ==
    ASSUME IInv, NEW w \in Workers, Return(w)
    PROVE  IInv'
  <1> USE DEF IInv
  <1>1. at' = [at EXCEPT ![w] = "idle"] /\ call' = [call EXCEPT ![w] = NoCall]
        /\ UNCHANGED <<changes, now, client, sync, acked>>
    BY DEF Return, Goto
  <1>2. Own(w) /\ at'[w] = "idle" /\ call'[w] = NoCall
    BY <1>1, OwnCall, NothingType DEF Steps
  <1>3. CallOK("idle", NoCall, now)
    BY DEF CallOK, NoCall, Reads, Asking
  <1>4. seen' \in [Ids -> 0 .. MaxChanges]
    BY CallTypes DEF Return, TypeOK
  <1> QED BY <1>1, <1>2, <1>3, <1>4, WorkerStep DEF client, TypeOK

LEMMA AddSyncTargetStep ==
    ASSUME IInv, NEW w \in Workers, AddSyncTarget(w)
    PROVE  IInv'
  <1> USE DEF IInv
  <1>1. at[w] = "target" /\ UNCHANGED <<changes, now, cache, stopped, closed, sync, ghosts>>
        /\ Reply(w, "ok", call[w].data)
    BY DEF AddSyncTarget
  <1>2. CallOK("target", call[w], now)
    BY <1>1 DEF CallsOK
  <1>3. /\ Own(w) /\ at'[w] = "reply" /\ call'[w].op = call[w].op
        /\ call'[w].wrote = call[w].wrote
    BY <1>1, ReplyCall, CallTypes DEF Statuses
  <1>4. CallOK(at'[w], call'[w], now)
    BY <1>2, <1>3 DEF CallOK, Reads, Asking
  <1>5. targets' \in Seq(Ids)
    <2>1. targets \in Seq(Ids) /\ call[w].id \in Ids
      BY <1>2 DEF TypeOK, CallOK, Asking
    <2> QED BY <2>1, AppendProperties DEF AddSyncTarget
  <1> QED BY <1>1, <1>3, <1>4, <1>5, WorkerStep DEF ghosts, TypeOK
-----------------------------------------------------------------------------
(* The cache *)

\* A fresh answer is stored.
LEMMA SetEntry ==
    ASSUME IInv, NEW i \in Ids, NEW d \in Data, Set(i, d), now <= d.time + MaxLatency,
           now' = now
    PROVE  cache' \in [Keys -> Entry] /\ EntriesOK'
  <1> USE DEF IInv
  <1> DEFINE e == [data |-> d, expires |-> now + TTL]
  <1>1. cache' = [cache EXCEPT ![CacheKey(i)] = e] /\ CacheKey(i) \in Keys
    BY KeyType DEF Set
  <1>2. now \in 0 .. MaxTime /\ d.time \in 0 .. MaxTime
    BY DEF TypeOK, Data
  <1>3. e \in Entry /\ e.expires <= e.data.time + MaxLatency + TTL
    BY <1>2 DEF Entry
  <1> HIDE DEF e
  <1>4. cache' \in [Keys -> Entry]
    BY <1>1, <1>3 DEF TypeOK, Entry
  <1>5. \A k \in Keys : cache'[k] = e \/ cache'[k] = cache[k]
    BY <1>1 DEF TypeOK
  <1> QED BY <1>3, <1>4, <1>5 DEF EntriesOK

\* Entries are dropped.
LEMMA DropEntries ==
    ASSUME IInv, cache' \in [Keys -> Entry],
           \A k \in Keys : cache'[k] \in {cache[k], NoEntry}
    PROVE  EntriesOK'
  BY DEF IInv, EntriesOK

LEMMA SetCacheStep ==
    ASSUME IInv, NEW w \in Workers, SetCache(w)
    PROVE  IInv'
  <1> USE DEF IInv
  <1>1. /\ at[w] = "set" /\ at' = [at EXCEPT ![w] = "target"]
        /\ Set(call[w].id, call[w].data)
        /\ UNCHANGED <<changes, now, targets, stopped, closed, call, sync, ghosts>>
    BY DEF SetCache, Goto
  <1>2. CallOK("set", call[w], now)
    BY <1>1 DEF CallsOK
  <1>3. call[w].id \in Ids /\ call[w].op \in Reads /\ now <= call[w].data.time + MaxLatency
    BY <1>2 DEF CallOK, Asking
  <1>4. cache' \in [Keys -> Entry] /\ EntriesOK'
    BY <1>1, <1>3, CallTypes, SetEntry
  <1>5. call' = [call EXCEPT ![w] = call[w]]
    BY <1>1 DEF TypeOK
  <1>6. Own(w) /\ at'[w] = "target" /\ call'[w] = call[w]
    BY <1>1, <1>5, CallTypes, OwnCall DEF Steps
  <1>7. CallOK("target", call[w], now)
    BY <1>2, <1>3 DEF CallOK, Asking, Reads
  <1> QED BY <1>1, <1>4, <1>6, <1>7, CacheStep DEF ghosts, TypeOK

LEMMA InvalidateStep ==
    ASSUME IInv, NEW w \in Workers, Invalidate(w)
    PROVE  IInv'
  <1> USE DEF IInv
  <1>1. /\ at[w] = "invalidate" /\ Reply(w, "ok", Nothing)
        /\ cache' = [cache EXCEPT ![CacheKey(call[w].id)] = NoEntry]
        /\ UNCHANGED <<changes, now, targets, stopped, closed, sync, seen>>
    BY DEF Invalidate
  <1>2. CallOK("invalidate", call[w], now)
    BY <1>1 DEF CallsOK
  <1>3. /\ Own(w) /\ at'[w] = "reply" /\ call'[w].op = call[w].op
        /\ call'[w].wrote = call[w].wrote
    BY <1>1, ReplyCall, NothingType DEF Statuses
  <1>4. CallOK(at'[w], call'[w], now)
    BY <1>2, <1>3 DEF CallOK, Reads, Asking
  <1>5. cache' \in [Keys -> Entry] /\ \A k \in Keys : cache'[k] \in {cache[k], NoEntry}
    BY <1>1, NothingType DEF TypeOK, Entry
  <1>6. acked' \in [Ids -> 0 .. MaxChanges]
    BY CallTypes DEF Invalidate, TypeOK
  <1> QED BY <1>1, <1>3, <1>4, <1>5, <1>6, DropEntries, CacheStep DEF TypeOK

LEMMA ForgetStep ==
    ASSUME IInv, NEW w \in Workers, NEW ids \in SUBSET Ids, Forget(w, ids)
    PROVE  IInv'
  <1> USE DEF IInv
  <1>1. at[w] = "idle" /\ UNCHANGED <<changes, now, targets, stopped, closed, at, call, sync, seen>>
    BY DEF Forget, client
  <1>2. cache' \in [Keys -> Entry] /\ \A k \in Keys : cache'[k] \in {cache[k], NoEntry}
    BY NothingType DEF Forget, TypeOK, Entry
  <1>3. acked' \in [Ids -> 0 .. MaxChanges]
    BY KeyType DEF Forget, TypeOK
  <1>4. /\ Own(w) /\ CallOK(at'[w], call'[w], now)
        /\ at'[w] \in {"close.cache", "close.connection"} => sync.at = "stopped"
    BY <1>1 DEF Own, TypeOK, CallsOK, WaitedOK
  <1> QED BY <1>1, <1>2, <1>3, <1>4, DropEntries, CacheStep DEF TypeOK

-----------------------------------------------------------------------------
(* Close *)

LEMMA CloseStep ==
    ASSUME IInv, NEW w \in Workers, Close(w)
    PROVE  IInv'
  <1> USE DEF IInv
  <1> DEFINE a == IF "sync" \in stopped THEN "close.wait" ELSE "close.channel"
             c == [NoCall EXCEPT !.op = "close"]
  <1>1. at' = [at EXCEPT ![w] = a] /\ call' = [call EXCEPT ![w] = c]
        /\ UNCHANGED <<changes, now, client, sync, ghosts>>
    BY DEF Close, Goto
  <1>2. a \in Steps /\ a \notin Asking \cup {"close.cache", "close.connection"}
    BY DEF Steps, Asking
  <1>3. c \in CallRecord /\ c.op = "close" /\ c.wrote = 0
    <2>1. NoCall \in CallRecord /\ NoCall.wrote = 0
      BY NothingType DEF NoCall
    <2> QED BY <2>1 DEF CallRecord
  <1> HIDE DEF a, c
  <1>4. Own(w) /\ at'[w] = a /\ call'[w] = c
    BY <1>1, <1>2, <1>3, OwnCall
  <1>5. CallOK(a, c, now)
    BY <1>2, <1>3 DEF CallOK, Reads, Asking
  <1>6. at'[w] \notin {"close.cache", "close.connection"}
    BY <1>2, <1>4
  <1> QED BY <1>1, <1>4, <1>5, <1>6, WorkerStep DEF client, ghosts, TypeOK

\* Close goes on to another step with the same call.
LEMMA CloseGoesOn ==
    ASSUME IInv, NEW w \in Workers,
           UNCHANGED <<changes, now, cache, targets, closed, call, sync, ghosts>>,
           at[w] \in {"close.channel", "close.wait", "close.cache"},
           NEW a \in {"close.wait", "close.cache", "close.connection", "panic"},
           at' = [at EXCEPT ![w] = a], stopped' \in SUBSET Channels,
           a \in {"close.cache", "close.connection"} => sync.at = "stopped"
    PROVE  IInv'
  <1> USE DEF IInv
  <1>1. a \in Steps
    BY DEF Steps
  <1>2. call' = [call EXCEPT ![w] = call[w]]
    BY DEF TypeOK
  <1>3. Own(w) /\ at'[w] = a /\ call'[w] = call[w]
    BY <1>1, <1>2, CallTypes, OwnCall
  <1>4. CallOK(at[w], call[w], now)
    BY DEF CallsOK
  <1>5. CallOK(a, call[w], now)
    BY <1>4 DEF CallOK, Reads, Asking
  <1> QED BY <1>3, <1>5, WorkerStep DEF ghosts, TypeOK

LEMMA CloseChannelStep ==
    ASSUME IInv, NEW w \in Workers, CloseChannel(w)
    PROVE  IInv'
  <1>1. /\ UNCHANGED <<changes, now, cache, targets, closed, call, sync, ghosts>>
        /\ at[w] = "close.channel" /\ stopped' = stopped \cup {"sync"}
    BY DEF CloseChannel, CloseOnce, Goto
  <1>2. PICK a \in {"close.wait", "panic"} : at' = [at EXCEPT ![w] = a]
    BY DEF CloseChannel, CloseOnce, Goto
  <1>3. stopped' \in SUBSET Channels
    BY <1>1 DEF IInv, TypeOK, Channels
  <1> QED BY <1>1, <1>2, <1>3, CloseGoesOn

\* Close waits for the sync goroutine before it looks at the cache.
LEMMA StopCacheStep ==
    ASSUME IInv, NEW w \in Workers, StopCache(w)
    PROVE  IInv'
  <1>1. /\ UNCHANGED <<changes, now, cache, targets, stopped, closed, call, sync, ghosts>>
        /\ at[w] = "close.wait" /\ sync.at = "stopped"
    BY DEF StopCache, Goto, client
  <1>2. PICK a \in {"close.cache", "close.connection"} : at' = [at EXCEPT ![w] = a]
    BY DEF StopCache, Goto
  <1>3. stopped' \in SUBSET Channels
    BY <1>1 DEF IInv, TypeOK
  <1> QED BY <1>1, <1>2, <1>3, CloseGoesOn

LEMMA CloseCacheStep ==
    ASSUME IInv, NEW w \in Workers, CloseCache(w)
    PROVE  IInv'
  <1>1. /\ UNCHANGED <<changes, now, cache, targets, closed, call, sync, ghosts>>
        /\ at[w] = "close.cache" /\ stopped' = stopped \cup {"cache"}
    BY DEF CloseCache, CloseOnce, Goto
  <1>2. PICK a \in {"close.connection", "panic"} : at' = [at EXCEPT ![w] = a]
    BY DEF CloseCache, CloseOnce, Goto
  <1>3. stopped' \in SUBSET Channels /\ sync.at = "stopped"
    BY <1>1 DEF IInv, TypeOK, Channels, WaitedOK
  <1> QED BY <1>1, <1>2, <1>3, CloseGoesOn

LEMMA CloseConnectionStep ==
    ASSUME IInv, NEW w \in Workers, CloseConnection(w)
    PROVE  IInv'
  <1> USE DEF IInv
  <1>1. /\ at[w] = "close.connection" /\ closed' = TRUE
        /\ UNCHANGED <<changes, now, cache, targets, stopped, sync, ghosts>>
    BY DEF CloseConnection
  <1>2. PICK s \in {"ok", "error"} : Reply(w, s, Nothing)
    BY DEF CloseConnection
  <1>3. s \in Statuses
    BY DEF Statuses
  <1>4. /\ Own(w) /\ at'[w] = "reply" /\ call'[w].op = call[w].op
        /\ call'[w].wrote = call[w].wrote /\ call'[w].tries = call[w].tries
        /\ call'[w].status = s
    BY <1>2, <1>3, ReplyCall, NothingType
  <1>5. CallOK("close.connection", call[w], now) /\ call[w].op # "update"
    BY <1>1 DEF CallsOK, CallOK
  <1>6. CallOK(at'[w], call'[w], now)
    BY <1>4, <1>5 DEF CallOK, Reads, Asking
  <1>7. TypeOK'
    BY <1>1, <1>4 DEF TypeOK, Own, Data, CallRecord, ghosts
  <1>8. CallsOK'
    BY <1>1, <1>4, <1>6 DEF CallsOK, CallOK, Own
  <1>9. SyncOK' /\ EntriesOK'
    BY <1>1 DEF SyncOK, EntriesOK
  <1>10. WaitedOK' /\ ClosedMeansStopped'
    BY <1>1, <1>4 DEF WaitedOK, ClosedMeansStopped, Own
  <1> QED BY <1>7, <1>8, <1>9, <1>10

-----------------------------------------------------------------------------
(* The sync goroutine *)

\* A step of the sync goroutine that runs.
LEMMA SyncStep ==
    ASSUME IInv, sync.at # "stopped", SyncOK', EntriesOK',
           cache' \in [Keys -> Entry],
           sync' \in [at   : {"select", "next", "request", "answer", "stopped"},
                      todo : Seq(Ids), data : Data],
           UNCHANGED <<changes, now, targets, stopped, closed, at, call, ghosts>>
    PROVE  IInv'
  <1> USE DEF IInv
  <1>1. TypeOK'
    BY DEF TypeOK, Entry, Data, CallRecord, ghosts
  <1>2. CallsOK'
    BY DEF CallsOK, CallOK
  <1>3. WaitedOK' /\ ClosedMeansStopped'
    BY DEF WaitedOK, ClosedMeansStopped
  <1> QED BY <1>1, <1>2, <1>3

LEMMA SyncTypes ==
    ASSUME TypeOK
    PROVE  /\ sync \in [at   : {"select", "next", "request", "answer", "stopped"},
                        todo : Seq(Ids), data : Data]
           /\ sync.todo \in Seq(Ids) /\ sync.data \in Data
           /\ sync.todo # <<>> => Head(sync.todo) \in Ids /\ Tail(sync.todo) \in Seq(Ids)
  <1>1. sync.todo \in Seq(Ids) /\ sync.data \in Data
    BY DEF TypeOK
  <1>2. sync.todo # <<>> => Head(sync.todo) \in Ids /\ Tail(sync.todo) \in Seq(Ids)
    BY <1>1, HeadTailProperties
  <1> QED BY <1>1, <1>2 DEF TypeOK

\* The cache as it was.
LEMMA SameEntries ==
    ASSUME IInv, UNCHANGED cache
    PROVE  cache' \in [Keys -> Entry] /\ EntriesOK'
  BY DEF IInv, TypeOK, EntriesOK, Entry

LEMMA SyncGoesOn ==
    ASSUME IInv, SyncTick \/ SyncRequest \/ SyncStop
    PROVE  IInv'
  <1> USE DEF IInv
  <1>1. sync.at # "stopped" /\ UNCHANGED <<changes, now, client, at, call, ghosts>>
    BY DEF SyncTick, SyncRequest, SyncStop
  <1>2. SyncOK'
    BY SyncTypes DEF SyncOK, SyncTick, SyncRequest, SyncStop
  <1>3. sync' \in [at   : {"select", "next", "request", "answer", "stopped"},
                   todo : Seq(Ids), data : Data]
    <2>1. targets \in Seq(Ids)
      BY DEF TypeOK
    <2> QED BY <2>1, SyncTypes DEF SyncTick, SyncRequest, SyncStop
  <1> QED BY <1>1, <1>2, <1>3, SameEntries, SyncStep DEF client

LEMMA SyncServeStep == IInv /\ SyncServe => IInv'
  <1> SUFFICES ASSUME IInv, SyncServe PROVE IInv'
    OBVIOUS
  <1> USE DEF IInv
  <1> DEFINE t == Target(Head(sync.todo))
  <1>1. /\ sync.at = "request" /\ UNCHANGED <<changes, now, client, at, call, ghosts>>
        /\ sync' = [sync EXCEPT !.at = "answer", !.data = Answered(t)]
    BY DEF SyncServe
  <1>2. Head(sync.todo) \in Ids /\ t \in Configs /\ sync.todo # <<>>
    BY <1>1, SyncTypes, KeyType DEF SyncOK
  <1>3. Answered(t) \in Data /\ Answered(t).config = t /\ Answered(t).time = now
    BY <1>2, AnsweredType
  <1>4. /\ sync' \in [at   : {"select", "next", "request", "answer", "stopped"},
                      todo : Seq(Ids), data : Data]
        /\ sync'.at = "answer" /\ sync'.todo = sync.todo /\ sync'.data = Answered(t)
    BY <1>1, <1>3, SyncTypes
  <1>5. SyncOK'
    BY <1>1, <1>2, <1>3, <1>4 DEF SyncOK, TypeOK
  <1> QED BY <1>1, <1>4, <1>5, SameEntries, SyncStep DEF client

LEMMA SyncDoneTypes ==
    ASSUME IInv, sync.at \in {"request", "answer"}, SyncDone
    PROVE  /\ sync' \in [at   : {"select", "next", "request", "answer", "stopped"},
                         todo : Seq(Ids), data : Data]
           /\ sync'.at = "next"
  <1>1. Tail(sync.todo) \in Seq(Ids)
    BY SyncTypes DEF IInv, SyncOK
  <1> QED BY <1>1, NothingType DEF SyncDone

LEMMA SyncSetStep == IInv /\ SyncSet => IInv'
  <1> SUFFICES ASSUME IInv, SyncSet PROVE IInv'
    OBVIOUS
  <1>1. /\ sync.at = "answer" /\ Set(Head(sync.todo), sync.data) /\ SyncDone
        /\ UNCHANGED <<changes, now, targets, stopped, closed, at, call, ghosts>>
    BY DEF SyncSet
  <1>2. /\ Head(sync.todo) \in Ids /\ sync.data \in Data
        /\ now <= sync.data.time + MaxLatency
    BY <1>1, SyncTypes DEF IInv, SyncOK
  <1>3. cache' \in [Keys -> Entry] /\ EntriesOK'
    BY <1>1, <1>2, SetEntry
  <1>4. SyncOK'
    BY <1>1, SyncDoneTypes DEF SyncOK
  <1> QED BY <1>1, <1>3, <1>4, SyncDoneTypes, SyncStep

LEMMA SyncFailsStep == IInv /\ SyncFails => IInv'
  <1> SUFFICES ASSUME IInv, SyncFails PROVE IInv'
    OBVIOUS
  <1>1. /\ sync.at \in {"request", "answer"} /\ SyncDone
        /\ UNCHANGED <<changes, now, client, at, call, ghosts>>
    BY DEF SyncFails
  <1>2. SyncOK'
    BY <1>1, SyncDoneTypes DEF SyncOK
  <1> QED BY <1>1, <1>2, SyncDoneTypes, SameEntries, SyncStep DEF client

-----------------------------------------------------------------------------
(* The environment *)

LEMMA ChangeStep ==
    ASSUME IInv, NEW c \in Configs, Change(c)
    PROVE  IInv'
  <1> USE DEF IInv, Change
  <1>1. TypeOK'
    BY DEF TypeOK, client, ghosts
  <1>2. CallsOK' /\ SyncOK' /\ EntriesOK' /\ WaitedOK' /\ ClosedMeansStopped'
    BY DEF CallsOK, CallOK, SyncOK, EntriesOK, WaitedOK, ClosedMeansStopped, client
  <1> QED BY <1>1, <1>2

\* Answers that are on their way do not get too old.
LEMMA TickStep == IInv /\ Tick => IInv'
  <1> SUFFICES ASSUME IInv, Tick PROVE IInv'
    OBVIOUS
  <1> USE DEF IInv
  <1>1. now' = now + 1 /\ now < MaxTime /\ now \in 0 .. MaxTime
        /\ UNCHANGED <<changes, client, at, call, sync, ghosts>>
    BY DEF Tick, TypeOK
  <1>2. TypeOK'
    BY <1>1 DEF TypeOK, client, ghosts, Data, CallRecord
  <1>3. ASSUME NEW w \in Workers PROVE CallOK(at[w], call[w], now')
    <2>1. CallOK(at[w], call[w], now)
      BY DEF CallsOK
    <2>2. ASSUME call[w].op \in Reads, at[w] \in {"answer", "set"}
          PROVE  now' <= call[w].data.time + MaxLatency
      <3>1. call[w].data.config # <<>>
        BY <2>1, <2>2, TargetSome DEF CallOK
      <3>2. now < call[w].data.time + MaxLatency
        BY <2>2, <3>1 DEF Tick, InTime
      <3> QED BY <1>1, <3>2, CallTypes
    <2> QED BY <2>1, <2>2 DEF CallOK
  <1>4. CallsOK'
    BY <1>1, <1>3 DEF CallsOK
  <1>5. SyncOK'
    <2>1. ASSUME sync.at = "answer" PROVE now' <= sync.data.time + MaxLatency
      <3>1. sync.data.config # <<>>
        BY <2>1, TargetSome DEF SyncOK
      <3>2. sync.data.time \in 0 .. MaxTime
        BY SyncTypes DEF Data
      <3> QED BY <1>1, <3>1, <3>2 DEF Tick, InTime
    <2> QED BY <1>1, <2>1 DEF SyncOK
  <1>6. EntriesOK' /\ WaitedOK' /\ ClosedMeansStopped'
    BY <1>1 DEF EntriesOK, WaitedOK, ClosedMeansStopped, client
  <1> QED BY <1>2, <1>4, <1>5, <1>6
-----------------------------------------------------------------------------
(* The invariant, and what follows from it *)

LEMMA InvInit == Init => IInv
  <1> SUFFICES ASSUME Init PROVE IInv
    OBVIOUS
  <1> USE DEF Init
  <1>1. <<>> \in Seq(Ids)
    OBVIOUS
  <1>2. TypeOK
    <2>0. 0 \in 0 .. MaxChanges /\ 0 \in 0 .. MaxTime
      OBVIOUS
    <2>1. /\ changes \in [Configs -> 0 .. MaxChanges] /\ now \in 0 .. MaxTime
          /\ stopped \subseteq Channels /\ closed \in BOOLEAN
          /\ acked \in [Ids -> 0 .. MaxChanges] /\ seen \in [Ids -> 0 .. MaxChanges]
      BY <2>0
    <2>2. cache \in [Keys -> [data : Data, expires : 0 .. MaxTime + TTL]]
      BY NothingType
    <2>3. at \in [Workers -> Steps] /\ call \in [Workers -> CallRecord]
      BY NothingType DEF Steps
    <2>4. sync \in [at   : {"select", "next", "request", "answer", "stopped"},
                    todo : Seq(Ids), data : Data]
      BY <1>1, NothingType
    <2> QED BY <1>1, <2>1, <2>2, <2>3, <2>4 DEF TypeOK
  <1>3. CallsOK
    BY DEF CallsOK, CallOK, NoCall, Reads, Asking
  <1>4. SyncOK /\ EntriesOK /\ WaitedOK /\ ClosedMeansStopped
    BY DEF SyncOK, EntriesOK, WaitedOK, ClosedMeansStopped
  <1> QED BY <1>2, <1>3, <1>4 DEF IInv

LEMMA InvStep == IInv /\ [Next]_vars => IInv'
  <1> SUFFICES ASSUME IInv, [Next]_vars PROVE IInv'
    OBVIOUS
  <1>1. ASSUME NEW w \in Workers, Worker(w) PROVE IInv'
    <2>1. ASSUME NEW op \in {"get", "change", "update"}, NEW i \in Ids, Start(w, op, i)
          PROVE  IInv'
      BY <2>1, StartStep
    <2>2. ASSUME NEW i \in Ids, GetConfigCached(w, i) PROVE IInv'
      BY <2>2, GetConfigCachedStep
    <2>3. ASSUME NEW ids \in {Ids} \cup {{i} : i \in Ids}, Forget(w, ids) PROVE IInv'
      <3>1. ids \in SUBSET Ids
        OBVIOUS
      <3> QED BY <2>3, <3>1, ForgetStep
    <2> QED BY <1>1, <2>1, <2>2, <2>3, ServeStep, ReceiveStep, CallFailsStep, SetCacheStep,
               AddSyncTargetStep, InvalidateStep, CloseStep, CloseChannelStep,
               StopCacheStep, CloseCacheStep, CloseConnectionStep, ReturnStep DEF Worker
  <1>2. CASE Sync
    BY <1>2, SyncGoesOn, SyncServeStep, SyncSetStep, SyncFailsStep DEF Sync
  <1>3. ASSUME NEW c \in Configs, Change(c) PROVE IInv'
    BY <1>3, ChangeStep
  <1>4. CASE Tick
    BY <1>4, TickStep
  <1>5. CASE UNCHANGED vars
    <2> USE <1>5 DEF vars, client, ghosts, IInv
    <2>1. TypeOK'
      BY DEF TypeOK, Data, CallRecord
    <2>2. CallsOK' /\ SyncOK' /\ EntriesOK' /\ WaitedOK' /\ ClosedMeansStopped'
      BY DEF CallsOK, SyncOK, EntriesOK, WaitedOK, ClosedMeansStopped
    <2> QED BY <2>1, <2>2
  <1> QED BY <1>1, <1>2, <1>3, <1>4, <1>5 DEF Next

\* The inductive invariant holds in every reachable state.
THEOREM Invariance == Spec => []IInv
  BY InvInit, InvStep, PTL DEF Spec

\* Every variable has its type.
THEOREM Typing == Spec => []TypeOK
  <1>1. IInv => TypeOK
    BY DEF IInv
  <1> QED BY <1>1, Invariance, PTL

\* Once Close has closed the connection, the sync goroutine has ended (Close
\* waits for syncWg before conn.Close).
THEOREM Closing == Spec => []ClosedMeansStopped
  <1>1. IInv => ClosedMeansStopped
    BY DEF IInv
  <1> QED BY <1>1, Invariance, PTL

\* However often requests and answers are lost, an UpdateConfig adds at most
\* one version per attempt, and one that succeeded has added one.
THEOREM BoundedWrites == Spec => []WritesBounded
  <1>1. IInv => WritesBounded
    <2> SUFFICES ASSUME IInv, NEW w \in Workers, call[w].op = "update"
                 PROVE  /\ call[w].wrote <= call[w].tries + 1
                        /\ call[w].wrote <= MaxRetries + 1
                        /\ Replied(w, {"update"}) => call[w].wrote >= 1
      BY DEF WritesBounded
    <2>1. CallOK(at[w], call[w], now)
      BY DEF IInv, CallsOK
    <2> QED BY <2>1, CallTypes DEF IInv, CallOK, Replied
  <1> QED BY <1>1, Invariance, PTL

\* A hit is never older than the TTL and the time one answer takes, however
\* the sync goroutine and other calls write the entry.
THEOREM Freshness == Spec => Fresh
  <1> DEFINE Young(w) == at[w] = "idle" /\ at'[w] = "reply" /\ call'[w].status = "hit" =>
                             now <= call'[w].data.time + MaxLatency + TTL
  <1>1. IInv /\ [Next]_vars => [\A w \in Workers : Young(w)]_vars
    <2> SUFFICES ASSUME IInv, Next, NEW w \in Workers, at[w] = "idle",
                        at'[w] = "reply", call'[w].status = "hit"
                 PROVE  now <= call'[w].data.time + MaxLatency + TTL
      BY DEF vars
    <2>1. at \in [Workers -> Steps]
      BY DEF IInv, TypeOK
    <2>2. PICK v \in Workers : Worker(v)
      BY DEF Next, Sync, SyncTick, SyncRequest, SyncServe, SyncSet, SyncFails, SyncStop,
             Change, Tick
    <2>3. \A op, i : ~Start(v, op, i)
      BY <2>1 DEF Start, Goto
    <2>4. \A ids : ~Forget(v, ids)
      BY DEF Forget
    <2>5. ~Serve(v) /\ ~Receive(v) /\ ~SetCache(v) /\ ~Return(v) /\ ~CloseChannel(v)
      BY <2>1 DEF Serve, Receive, SetCache, Return, CloseChannel, CloseOnce, Goto, Reply
    <2>6. ~CallFails(v) /\ ~AddSyncTarget(v) /\ ~Invalidate(v) /\ ~CloseConnection(v)
      BY <2>1 DEF CallFails, GiveUp, AddSyncTarget, Invalidate, CloseConnection, Reply
    <2>7. ~Close(v) /\ ~StopCache(v) /\ ~CloseCache(v)
      BY <2>1 DEF Close, StopCache, CloseCache, CloseOnce, Goto
    <2>8. PICK i \in Ids : GetConfigCached(v, i)
      BY <2>2, <2>3, <2>4, <2>5, <2>6, <2>7 DEF Worker
    <2>9. v = w /\ Valid(i)
      BY <2>1, <2>8 DEF GetConfigCached
    <2>10. CacheKey(i) \in Keys /\ cache[CacheKey(i)] # NoEntry
           /\ now <= cache[CacheKey(i)].expires
      BY <2>9, KeyType DEF Valid, Hit
    <2> DEFINE d == cache[CacheKey(i)].data
    <2>11. now <= d.time + MaxLatency + TTL
      <3>1. cache[CacheKey(i)] \in [data : Data, expires : 0 .. MaxTime + TTL]
            /\ now \in 0 .. MaxTime
        BY <2>10 DEF IInv, TypeOK
      <3>2. d.time \in 0 .. MaxTime
        BY <3>1 DEF Data
      <3> QED BY <2>10, <3>1, <3>2 DEF IInv, EntriesOK
    <2>12. call'[w].data = d
      <3> DEFINE c == [NoCall EXCEPT !.op = "cached", !.id = i, !.floor = acked[i]]
      <3>1. call' = [call EXCEPT ![w] = [c EXCEPT !.status = "hit", !.data = d]]
        BY <2>8, <2>9 DEF GetConfigCached
      <3>2. [c EXCEPT !.status = "hit", !.data = d].data = d
        BY DEF NoCall
      <3> QED BY <3>1, <3>2 DEF IInv, TypeOK
    <2> QED BY <2>11, <2>12
  <1> QED BY <1>1, Invariance, PTL DEF Spec, Fresh

-----------------------------------------------------------------------------
(* Whose answers the cache hands out *)

\* Names that contain no colon are told apart by their keys.
KeysIdentify == \A i, j \in Ids : CacheKey(i) = CacheKey(j) => Target(i) = Target(j)

\* What was got for an identifier is its own.
EntriesOwn ==
    \A i \in Ids : cache[CacheKey(i)] # NoEntry =>
        cache[CacheKey(i)].data.config = Target(i)

CallOwn(a, c) ==
    c.op \in Reads /\ (a = "target" \/ (a = "reply" /\ c.status # "error")) =>
        c.data.config = Target(c.id)

OwnInv == EntriesOwn /\ \A w \in Workers : CallOwn(at[w], call[w])

\* A step that changes one call.
LEMMA OwnKept ==
    ASSUME OwnInv, EntriesOwn', NEW w \in Workers, CallOwn(at'[w], call'[w]),
           \A v \in Workers \ {w} : at'[v] = at[v] /\ call'[v] = call[v]
    PROVE  OwnInv'
  <1> SUFFICES ASSUME NEW v \in Workers PROVE CallOwn(at'[v], call'[v])
    BY DEF OwnInv
  <1>1. CASE v = w
    BY <1>1
  <1>2. CASE v # w
    BY <1>2 DEF OwnInv
  <1> QED BY <1>1, <1>2

\* An answer that is stored is that of every identifier with this key.
LEMMA SetOwn ==
    ASSUME KeysIdentify, IInv, OwnInv, NEW i \in Ids, NEW d, Set(i, d), d.config = Target(i)
    PROVE  EntriesOwn'
  <1> DEFINE e == [data |-> d, expires |-> now + TTL]
  <1>1. cache' = [cache EXCEPT ![CacheKey(i)] = e] /\ e.data.config = Target(i)
    BY DEF Set
  <1> HIDE DEF e
  <1> SUFFICES ASSUME NEW j \in Ids, cache'[CacheKey(j)] # NoEntry
               PROVE  cache'[CacheKey(j)].data.config = Target(j)
    BY DEF EntriesOwn
  <1>2. CacheKey(j) \in Keys /\ CacheKey(i) \in Keys
    BY KeyType
  <1>3. CASE CacheKey(j) = CacheKey(i)
    BY <1>1, <1>2, <1>3 DEF KeysIdentify, IInv, TypeOK
  <1>4. CASE CacheKey(j) # CacheKey(i)
    BY <1>1, <1>2, <1>4 DEF OwnInv, EntriesOwn, IInv, TypeOK
  <1> QED BY <1>3, <1>4

LEMMA DropOwn ==
    ASSUME OwnInv, \A k \in Keys : cache'[k] \in {cache[k], NoEntry}
    PROVE  EntriesOwn'
  BY KeyType DEF OwnInv, EntriesOwn

\* A step that answers no read and leaves the cache alone.
LEMMA OwnQuiet ==
    ASSUME IInv, OwnInv, UNCHANGED cache, NEW w \in Workers, NEW a, NEW c,
           at' = [at EXCEPT ![w] = a], call' = [call EXCEPT ![w] = c],
           a \notin {"target", "reply"} \/ c.op \notin Reads
    PROVE  OwnInv'
  <1>1. EntriesOwn'
    BY DEF OwnInv, EntriesOwn
  <1>2. /\ at'[w] = a /\ call'[w] = c
        /\ \A v \in Workers \ {w} : at'[v] = at[v] /\ call'[v] = call[v]
    BY DEF IInv, TypeOK
  <1>3. CallOwn(at'[w], call'[w])
    BY <1>2 DEF CallOwn
  <1> QED BY <1>1, <1>2, <1>3, OwnKept

\* A reply, with an answer for the identifier of the call or none.
LEMMA OwnReply ==
    ASSUME IInv, OwnInv, EntriesOwn', NEW w \in Workers,
           NEW s \in Statuses, NEW d \in Data, Reply(w, s, d),
           call[w].op \in Reads /\ s # "error" => d.config = Target(call[w].id)
    PROVE  OwnInv'
  <1>1. at \in [Workers -> Steps] /\ call \in [Workers -> CallRecord]
    BY DEF IInv, TypeOK
  <1>2. \A v \in Workers \ {w} : at'[v] = at[v] /\ call'[v] = call[v]
    BY <1>1 DEF Reply
  <1>3. at'[w] = "reply" /\ call'[w] = [call[w] EXCEPT !.status = s, !.data = d]
    BY <1>1 DEF Reply
  <1>4. /\ call'[w].status = s /\ call'[w].data = d
        /\ call'[w].op = call[w].op /\ call'[w].id = call[w].id
    BY <1>1, <1>3 DEF CallRecord
  <1>5. CallOwn(at'[w], call'[w])
    BY <1>3, <1>4 DEF CallOwn
  <1> QED BY <1>2, <1>5, OwnKept

LEMMA OwnWorker ==
    ASSUME KeysIdentify, IInv, OwnInv, NEW w \in Workers, Worker(w)
    PROVE  OwnInv'
  <1>0. at \in [Workers -> Steps] /\ call \in [Workers -> CallRecord]
        /\ CallOK(at[w], call[w], now)
    BY DEF IInv, TypeOK, CallsOK
  <1>1. UNCHANGED cache => EntriesOwn'
    BY DEF OwnInv, EntriesOwn
  <1>2. ASSUME NEW op \in {"get", "change", "update"}, NEW i \in Ids, Start(w, op, i)
        PROVE  OwnInv'
    BY <1>2, OwnQuiet DEF Start, Goto, client
  <1>3. ASSUME NEW i \in Ids, GetConfigCached(w, i) PROVE OwnInv'
    <2> DEFINE c == Begun("cached", i, acked[i])
               d == cache[CacheKey(i)].data
               h == [c EXCEPT !.status = "hit", !.data = d]
    <2>1. CASE ~Valid(i)
      BY <1>3, <2>1, OwnQuiet DEF GetConfigCached, client, Begun
    <2>2. CASE Valid(i)
      <3>1. at' = [at EXCEPT ![w] = "reply"] /\ call' = [call EXCEPT ![w] = h]
            /\ UNCHANGED cache
        BY <1>3, <2>2 DEF GetConfigCached, Begun, client
      <3>2. d.config = Target(i)
        BY <2>2 DEF Valid, Hit, OwnInv, EntriesOwn
      <3>3. h.id = i /\ h.data = d
        BY DEF Begun, NoCall
      <3> HIDE DEF h, d
      <3>4. /\ at'[w] = "reply" /\ call'[w] = h
            /\ \A v \in Workers \ {w} : at'[v] = at[v] /\ call'[v] = call[v]
        BY <1>0, <3>1
      <3>5. CallOwn(at'[w], call'[w])
        BY <3>2, <3>3, <3>4 DEF CallOwn
      <3> QED BY <1>1, <3>1, <3>4, <3>5, OwnKept
    <2> QED BY <2>1, <2>2
  <1>4. ASSUME NEW ids, Forget(w, ids) PROVE OwnInv'
    <2>1. \A k \in Keys : cache'[k] \in {cache[k], NoEntry}
      BY <1>4 DEF Forget
    <2>2. UNCHANGED <<at, call>>
      BY <1>4 DEF Forget
    <2> QED BY <2>1, <2>2, DropOwn DEF OwnInv
  <1>5. CASE Serve(w)
    <2>1. /\ at' = [at EXCEPT ![w] = "answer"] /\ UNCHANGED cache
          /\ \E c : call' = [call EXCEPT ![w] = c]
      BY <1>0, <1>5 DEF Serve, Goto, client
    <2> QED BY <2>1, OwnQuiet
  <1>6. CASE Receive(w)
    <2>1. CASE call[w].op = "update"
      <3>1. Reply(w, "ok", Nothing) /\ UNCHANGED cache
        BY <1>6, <2>1 DEF Receive, client
      <3> QED BY <1>1, <2>1, <3>1, OwnReply, NothingType DEF Reads, Statuses
    <2>2. CASE call[w].op # "update"
      <3>1. UNCHANGED <<cache, call>>
            /\ \E a \in {"set", "invalidate"} : at' = [at EXCEPT ![w] = a]
        BY <1>6, <2>2 DEF Receive, Goto, client
      <3>2. call' = [call EXCEPT ![w] = call[w]]
        BY <1>0, <3>1
      <3> QED BY <3>1, <3>2, OwnQuiet
    <2> QED BY <2>1, <2>2
  <1>7. CASE CallFails(w)
    <2>1. at[w] \in {"request", "answer"} /\ UNCHANGED cache
      BY <1>7 DEF CallFails, client
    <2>2. call[w].id \in Ids
      BY <1>0, <2>1 DEF CallOK, Asking
    <2>3. CASE GiveUp(w)
      <3> DEFINE d == cache[CacheKey(call[w].id)].data
      <3>1. d \in Data
        BY <2>2, KeyType DEF IInv, TypeOK
      <3>2. CASE call[w].op = "cached" /\ Hit(call[w].id)
        <4>1. d.config = Target(call[w].id)
          BY <2>2, <3>2 DEF Hit, OwnInv, EntriesOwn
        <4>2. Reply(w, "stale", d)
          BY <2>3, <3>2 DEF GiveUp
        <4> QED BY <1>1, <2>1, <3>1, <4>1, <4>2, OwnReply DEF Statuses
      <3>3. CASE ~(call[w].op = "cached" /\ Hit(call[w].id))
        <4>1. Reply(w, "error", Nothing)
          BY <2>3, <3>3 DEF GiveUp
        <4> QED BY <1>1, <2>1, <4>1, OwnReply, NothingType DEF Statuses
      <3> QED BY <3>2, <3>3
    <2>4. CASE ~GiveUp(w)
      <3>1. at' = [at EXCEPT ![w] = "request"] /\ \E c : call' = [call EXCEPT ![w] = c]
        BY <1>0, <1>7, <2>4 DEF CallFails
      <3> QED BY <2>1, <3>1, OwnQuiet
    <2> QED BY <2>3, <2>4
  <1>8. CASE SetCache(w)
    <2>1. /\ at[w] = "set" /\ at' = [at EXCEPT ![w] = "target"] /\ UNCHANGED call
          /\ Set(call[w].id, call[w].data)
      BY <1>8 DEF SetCache, Goto
    <2>2. call[w].data.config = Target(call[w].id) /\ call[w].id \in Ids
      BY <1>0, <2>1 DEF CallOK, Asking, Reads
    <2>3. EntriesOwn'
      BY <2>1, <2>2, SetOwn
    <2>4. CallOwn(at'[w], call'[w])
      BY <2>1, <2>2 DEF CallOwn
    <2> QED BY <1>0, <2>1, <2>3, <2>4, OwnKept
  <1>9. CASE AddSyncTarget(w)
    <2>1. at[w] = "target" /\ Reply(w, "ok", call[w].data) /\ UNCHANGED cache
      BY <1>9 DEF AddSyncTarget
    <2>2. call[w].op \in Reads => call[w].data.config = Target(call[w].id)
      BY <2>1 DEF OwnInv, CallOwn
    <2>3. call[w].data \in Data
      BY CallTypes DEF IInv
    <2> QED BY <1>1, <2>1, <2>2, <2>3, OwnReply DEF Statuses
  <1>10. CASE Invalidate(w)
    <2>1. at[w] = "invalidate" /\ Reply(w, "ok", Nothing)
      BY <1>10 DEF Invalidate
    <2>2. call[w].op \notin Reads
      BY <1>0, <2>1 DEF CallOK, Reads
    <2>3. \A k \in Keys : cache'[k] \in {cache[k], NoEntry}
      BY <1>10 DEF Invalidate, IInv, TypeOK
    <2> QED BY <2>1, <2>2, <2>3, DropOwn, OwnReply, NothingType DEF Statuses
  <1>11. CASE Close(w) \/ CloseChannel(w) \/ StopCache(w) \/ CloseCache(w)
    <2>1. /\ UNCHANGED cache /\ \E c : call' = [call EXCEPT ![w] = c]
          /\ \E a \in ClosingSteps : at' = [at EXCEPT ![w] = a]
      BY <1>0, <1>11 DEF Close, CloseChannel, StopCache, CloseCache, CloseOnce, Goto, client, ClosingSteps
    <2> QED BY <2>1, OwnQuiet DEF ClosingSteps
  <1>12. CASE CloseConnection(w)
    <2>1. PICK s \in {"ok", "error"} : Reply(w, s, Nothing)
      BY <1>12 DEF CloseConnection
    <2>2. s \in Statuses
      BY DEF Statuses
    <2>3. call[w].op \notin Reads /\ UNCHANGED cache
      BY <1>0, <1>12 DEF CallOK, CloseConnection, Reads
    <2> QED BY <1>1, <2>1, <2>2, <2>3, OwnReply, NothingType
  <1>13. CASE Return(w)
    BY <1>13, OwnQuiet DEF Return, Goto, client
  <1> QED BY <1>2, <1>3, <1>4, <1>5, <1>6, <1>7, <1>8, <1>9, <1>10, <1>11, <1>12, <1>13
          DEF Worker

LEMMA OwnStep ==
    ASSUME KeysIdentify
    PROVE  IInv /\ OwnInv /\ [Next]_vars => OwnInv'
  <1> SUFFICES ASSUME IInv, OwnInv, [Next]_vars PROVE OwnInv'
    OBVIOUS
  <1>1. ASSUME NEW w \in Workers, Worker(w) PROVE OwnInv'
    BY <1>1, OwnWorker
  <1>2. CASE SyncSet
    <2>1. /\ sync.at = "answer" /\ Set(Head(sync.todo), sync.data)
          /\ UNCHANGED <<at, call>>
      BY <1>2 DEF SyncSet
    <2>2. Head(sync.todo) \in Ids /\ sync.data.config = Target(Head(sync.todo))
      BY <2>1, SyncTypes DEF IInv, SyncOK
    <2>3. EntriesOwn'
      BY <2>1, <2>2, SetOwn
    <2> QED BY <2>1, <2>3 DEF OwnInv
  <1>3. ASSUME UNCHANGED <<cache, at, call>> PROVE OwnInv'
    BY <1>3 DEF OwnInv, EntriesOwn
  <1>4. SyncTick \/ SyncRequest \/ SyncServe \/ SyncFails \/ SyncStop \/ Tick
        \/ (\E c \in Configs : Change(c)) \/ UNCHANGED vars => UNCHANGED <<cache, at, call>>
    BY DEF SyncTick, SyncRequest, SyncServe, SyncFails, SyncStop, Tick, Change, vars, client
  <1> QED BY <1>1, <1>2, <1>3, <1>4 DEF Next, Sync

\* If the keys of the cache tell the configurations apart, which needs names
\* without colons (cache.go:43), every read is answered with what the server
\* gave for the very configuration that was asked for.
THEOREM Ownership ==
    ASSUME KeysIdentify
    PROVE  Spec => []OwnAnswers
  <1>1. Init => OwnInv
    BY KeyType DEF Init, OwnInv, EntriesOwn, CallOwn, NoCall, Reads
  <1>2. IInv /\ OwnInv /\ [Next]_vars => OwnInv'
    BY OwnStep
  <1>3. OwnInv => OwnAnswers
    BY DEF OwnInv, CallOwn, OwnAnswers, Replied, Reads
  <1> QED BY <1>1, <1>2, <1>3, Invariance, PTL DEF Spec

-----------------------------------------------------------------------------
(* What one goroutine without background sync is answered *)

OneSession == ~SyncEnabled /\ \A v, w \in Workers : v = w

\* No configuration has two entries in the cache.
NoAliases == \A i, j \in Ids : Target(i) = Target(j) => CacheKey(i) = CacheKey(j)

\* Nothing is seen or acknowledged that the server did not do.
KnownNews ==
    \A i \in Ids : seen[i] <= changes[Target(i)] /\ acked[i] <= changes[Target(i)]

\* An entry is as new as anything the application has been told.
EntryNews == \A i \in Ids : Hit(i) =>
    /\ seen[i] <= cache[CacheKey(i)].data.value
    /\ NoAliases => acked[i] <= cache[CacheKey(i)].data.value
    /\ cache[CacheKey(i)].data.value <= changes[Target(i)]

InCache(c) == Hit(c.id) /\ cache[CacheKey(c.id)].data.value = c.data.value

\* So is what a call c has been told, whose next step is a.
CallNews(a, c) ==
    /\ a \in {"request", "answer", "set", "target", "reply"} /\ c.op \in Reads =>
          c.floor <= acked[c.id]
    /\ a \in {"answer", "set"} /\ c.op \in Reads =>
          /\ c.data.value <= changes[Target(c.id)]
          /\ \A j \in Ids : Target(j) = Target(c.id) =>
                seen[j] <= c.data.value /\ acked[j] <= c.data.value
    /\ a \in {"answer", "invalidate"} /\ c.op = "change" =>
          c.data.value <= changes[Target(c.id)]
    /\ a = "target" => InCache(c)
    /\ a = "reply" => IF c.op \in Reads /\ c.status # "error"
                      THEN c.id \in Ids /\ InCache(c)
                      ELSE c.data.value = 0

NewsInv ==
    /\ sync.at = "stopped" /\ KnownNews /\ EntryNews
    /\ \A w \in Workers : CallNews(at[w], call[w])

LEMMA NewsTypes ==
    ASSUME IInv
    PROVE  /\ \A i \in Ids : /\ changes[Target(i)] \in 0 .. MaxChanges
                            /\ seen[i] \in 0 .. MaxChanges /\ acked[i] \in 0 .. MaxChanges
                            /\ cache[CacheKey(i)].data.value \in 0 .. MaxChanges
           /\ \A w \in Workers : /\ call[w].data.value \in 0 .. MaxChanges
                                /\ call[w].floor \in 0 .. MaxChanges
  <1>1. \A i \in Ids : /\ changes[Target(i)] \in 0 .. MaxChanges
                     /\ seen[i] \in 0 .. MaxChanges /\ acked[i] \in 0 .. MaxChanges
    BY KeyType DEF IInv, TypeOK
  <1>2. \A i \in Ids : cache[CacheKey(i)].data.value \in 0 .. MaxChanges
    <2> SUFFICES ASSUME NEW i \in Ids PROVE cache[CacheKey(i)].data.value \in 0 .. MaxChanges
      OBVIOUS
    <2>1. cache[CacheKey(i)].data \in Data
      BY KeyType DEF IInv, TypeOK
    <2> QED BY <2>1 DEF Data
  <1> QED BY <1>1, <1>2, CallTypes DEF IInv

\* A step that leaves alone what the application knows: the server only goes on.
LEMMA NewsKept ==
    ASSUME IInv, IInv', NewsInv, NEW w \in Workers, \A v \in Workers : v = w,
           UNCHANGED <<cache, acked, seen, sync>>,
           \A i \in Ids : changes[Target(i)] <= changes'[Target(i)],
           CallNews(at[w], call[w])'
    PROVE  NewsInv'
  <1>1. \A i \in Ids : /\ changes[Target(i)] \in Int /\ changes'[Target(i)] \in Int
                     /\ seen[i] \in Int /\ acked[i] \in Int
                     /\ cache[CacheKey(i)].data.value \in Int
    <2>1. \A i \in Ids : changes'[Target(i)] \in 0 .. MaxChanges
      BY KeyType DEF IInv, TypeOK
    <2> QED BY <2>1, NewsTypes
  <1>2. KnownNews'
    BY <1>1 DEF NewsInv, KnownNews
  <1>3. EntryNews'
    BY <1>1 DEF NewsInv, EntryNews, Hit
  <1> QED BY <1>2, <1>3 DEF NewsInv

\* A reply to a call that has not read anything.
LEMMA NewsReply ==
    ASSUME IInv, IInv', NewsInv, NEW w \in Workers, \A v \in Workers : v = w,
           UNCHANGED <<changes, cache, acked, seen, sync>>, NEW s \in Statuses,
           Reply(w, s, Nothing), call[w].op \notin Reads \/ s = "error",
           at[w] \in {"request", "answer", "close.connection", "invalidate"},
           at[w] = "close.connection" => call[w].op \notin Reads
    PROVE  NewsInv'
  <1>1. /\ at'[w] = "reply" /\ call'[w].status = s /\ call'[w].data = Nothing
        /\ call'[w].op = call[w].op /\ call'[w].id = call[w].id
        /\ call'[w].floor = call[w].floor
    <2>1. at \in [Workers -> Steps] /\ call \in [Workers -> CallRecord]
      BY DEF IInv, TypeOK
    <2>2. at'[w] = "reply" /\ call'[w] = [call[w] EXCEPT !.status = s, !.data = Nothing]
      BY <2>1 DEF Reply
    <2>3. call[w] \in CallRecord
      BY <2>1
    <2> QED BY <2>2, <2>3 DEF CallRecord
  <1>2. CallNews(at[w], call[w])
    BY DEF NewsInv
  <1>3. at[w] = "invalidate" => call[w].op \notin Reads
    BY DEF IInv, CallsOK, CallOK, Reads
  <1>4. call'[w].op \in Reads => call'[w].floor <= acked'[call'[w].id]
    BY <1>1, <1>2, <1>3 DEF CallNews
  <1>5. call'[w].data.value = 0
    BY <1>1 DEF Nothing
  <1>6. CallNews(at[w], call[w])'
    BY <1>1, <1>4, <1>5 DEF CallNews
  <1>7. \A i \in Ids : changes[Target(i)] <= changes'[Target(i)]
    BY NewsTypes
  <1> QED BY <1>6, <1>7, NewsKept

\* The step of a call, to a and c, that leaves the server and the cache alone.
LEMMA NewsCall ==
    ASSUME IInv, IInv', NewsInv, NEW w \in Workers, \A v \in Workers : v = w,
           UNCHANGED <<changes, cache, acked, seen, sync>>,
           NEW a, NEW c, at' = [at EXCEPT ![w] = a], call' = [call EXCEPT ![w] = c],
           CallNews(a, c)
    PROVE  NewsInv'
  <1>1. at'[w] = a /\ call'[w] = c
    BY DEF IInv, TypeOK
  <1>2. CallNews(at[w], call[w])'
    BY <1>1 DEF CallNews, InCache, Hit
  <1>3. \A i \in Ids : changes[Target(i)] <= changes'[Target(i)]
    BY NewsTypes
  <1> QED BY <1>2, <1>3, NewsKept

LEMMA NewsStart ==
    ASSUME IInv, IInv', NewsInv, NEW w \in Workers, \A v \in Workers : v = w,
           NEW op \in {"get", "change", "update"}, NEW i \in Ids, Start(w, op, i)
    PROVE  NewsInv'
  <1> DEFINE c == Begun(op, i, acked[i])
  <1>1. /\ at' = [at EXCEPT ![w] = "request"] /\ call' = [call EXCEPT ![w] = c]
        /\ UNCHANGED <<changes, cache, acked, seen, sync>>
    BY DEF Start, Goto, Begun, client, ghosts
  <1>2. c.floor = acked[i] /\ c.id = i
    BY DEF Begun, NoCall
  <1> HIDE DEF c
  <1>3. CallNews("request", c)
    BY <1>2, NewsTypes DEF CallNews
  <1> QED BY <1>1, <1>3, NewsCall

LEMMA NewsCached ==
    ASSUME IInv, IInv', NewsInv, NEW w \in Workers, \A v \in Workers : v = w,
           NEW i \in Ids, GetConfigCached(w, i)
    PROVE  NewsInv'
  <1> DEFINE c == Begun("cached", i, acked[i])
             d == cache[CacheKey(i)].data
             h == [c EXCEPT !.status = "hit", !.data = d]
  <1>1. UNCHANGED <<changes, cache, acked, seen, sync>>
    BY DEF GetConfigCached, client, ghosts
  <1>2. c.floor = acked[i] /\ c.id = i /\ c.op = "cached"
    BY DEF Begun, NoCall
  <1>3. CASE ~Valid(i)
    <2>1. at' = [at EXCEPT ![w] = "request"] /\ call' = [call EXCEPT ![w] = c]
      BY <1>3 DEF GetConfigCached, Begun
    <2> HIDE DEF c
    <2>2. CallNews("request", c)
      BY <1>2, NewsTypes DEF CallNews
    <2> QED BY <1>1, <2>1, <2>2, NewsCall
  <1>4. CASE Valid(i)
    <2>1. at' = [at EXCEPT ![w] = "reply"] /\ call' = [call EXCEPT ![w] = h]
      BY <1>4 DEF GetConfigCached, Begun
    <2>2. h.floor = acked[i] /\ h.id = i /\ h.op = "cached" /\ h.status = "hit" /\ h.data = d
      BY DEF Begun, NoCall
    <2> HIDE DEF c, h
    <2>3. InCache(h)
      BY <1>4, <2>2 DEF InCache, Valid
    <2>4. CallNews("reply", h)
      BY <2>2, <2>3, NewsTypes DEF CallNews, Reads
    <2> QED BY <1>1, <2>1, <2>4, NewsCall
  <1> QED BY <1>3, <1>4

LEMMA NewsServe ==
    ASSUME IInv, IInv', NewsInv, NEW w \in Workers, \A v \in Workers : v = w, Serve(w)
    PROVE  NewsInv'
  <1> DEFINE t == Target(call[w].id)
  <1>1. at[w] = "request" /\ at' = [at EXCEPT ![w] = "answer"]
        /\ UNCHANGED <<cache, acked, seen, sync>>
    BY DEF Serve, Goto, client, ghosts
  <1>t. /\ at \in [Workers -> Steps] /\ call \in [Workers -> CallRecord]
        /\ call[w] \in CallRecord
    BY DEF IInv, TypeOK
  <1>2. CallNews("request", call[w])
    BY <1>1 DEF NewsInv
  <1>3. call[w].id \in Ids /\ t \in Configs
    BY <1>1, KeyType DEF IInv, CallsOK, CallOK, Asking
  <1>4. changes[t] \in 0 .. MaxChanges
    BY <1>3, NewsTypes
  <1>5. CASE call[w].op \in Reads
    <2> DEFINE c == [call[w] EXCEPT !.data = Answered(t)]
    <2>1. call' = [call EXCEPT ![w] = c] /\ UNCHANGED changes
      BY <1>5, <1>t DEF Serve, Reads
    <2>2. /\ c.op = call[w].op /\ c.id = call[w].id /\ c.floor = call[w].floor
          /\ c.data.value = changes[t]
      BY <1>t DEF CallRecord, Answered
    <2> HIDE DEF c
    <2>3. \A j \in Ids : Target(j) = t => seen[j] <= changes[t] /\ acked[j] <= changes[t]
      BY DEF NewsInv, KnownNews
    <2>4. CallNews("answer", c)
      BY <1>2, <1>4, <1>5, <2>2, <2>3 DEF CallNews, Reads
    <2> QED BY <1>1, <2>1, <2>4, NewsCall
  <1>6. CASE call[w].op = "change"
    <2> DEFINE d == [call[w].data EXCEPT !.value = changes[t] + 1]
               c == [call[w] EXCEPT !.data = d]
    <2>1. /\ changes' = [changes EXCEPT ![t] = @ + 1]
          /\ call' = [call EXCEPT ![w].data.value = changes[t] + 1]
      BY <1>6 DEF Serve
    <2>2. call' = [call EXCEPT ![w] = c]
      BY <2>1, <1>t DEF CallRecord, Data
    <2>3. c.op = "change" /\ c.id = call[w].id /\ c.data.value = changes[t] + 1
      BY <1>6, <1>t DEF CallRecord, Data
    <2> HIDE DEF c
    <2>4. /\ changes'[t] = changes[t] + 1
          /\ \A i \in Ids : changes[Target(i)] <= changes'[Target(i)]
      <3>1. changes \in [Configs -> 0 .. MaxChanges]
        BY DEF IInv, TypeOK
      <3>2. \A i \in Ids : Target(i) \in Configs /\ changes[Target(i)] \in 0 .. MaxChanges
        BY NewsTypes, KeyType
      <3> QED BY <1>3, <2>1, <3>1, <3>2
    <2>5. at'[w] = "answer" /\ call'[w] = c
      BY <1>1, <1>t, <2>2
    <2>6. CallNews(at[w], call[w])'
      BY <1>4, <2>3, <2>4, <2>5 DEF CallNews, Reads
    <2> QED BY <1>1, <2>4, <2>6, NewsKept
  <1>7. CASE call[w].op = "update"
    <2> DEFINE c == [call[w] EXCEPT !.wrote = @ + 1]
    <2>1. call' = [call EXCEPT ![w] = c] /\ UNCHANGED changes
      BY <1>7, <1>t DEF Serve
    <2>2. c.op = "update"
      BY <1>7, <1>t DEF CallRecord
    <2> HIDE DEF c
    <2>3. CallNews("answer", c)
      BY <2>2 DEF CallNews, Reads
    <2> QED BY <1>1, <2>1, <2>3, NewsCall
  <1> QED BY <1>5, <1>6, <1>7 DEF Serve, Reads

LEMMA NewsReceive ==
    ASSUME IInv, IInv', NewsInv, NEW w \in Workers, \A v \in Workers : v = w, Receive(w)
    PROVE  NewsInv'
  <1>1. at[w] = "answer" /\ UNCHANGED <<changes, cache, acked, seen, sync>>
    BY DEF Receive, client, ghosts
  <1>2. CallNews("answer", call[w])
    BY <1>1 DEF NewsInv
  <1>3. call' = call => call' = [call EXCEPT ![w] = call[w]]
    BY DEF IInv, TypeOK
  <1>4. CASE call[w].op \in Reads
    <2>1. at' = [at EXCEPT ![w] = "set"] /\ call' = [call EXCEPT ![w] = call[w]]
      BY <1>3, <1>4 DEF Receive, Goto, Reads
    <2>2. CallNews("set", call[w])
      BY <1>2, <1>4 DEF CallNews, Reads
    <2> QED BY <1>1, <2>1, <2>2, NewsCall
  <1>5. CASE call[w].op = "change"
    <2>1. at' = [at EXCEPT ![w] = "invalidate"] /\ call' = [call EXCEPT ![w] = call[w]]
      BY <1>3, <1>5 DEF Receive, Goto
    <2>2. CallNews("invalidate", call[w])
      BY <1>2, <1>5 DEF CallNews, Reads
    <2> QED BY <1>1, <2>1, <2>2, NewsCall
  <1>6. CASE call[w].op = "update"
    <2>1. Reply(w, "ok", Nothing)
      BY <1>6 DEF Receive
    <2> QED BY <1>1, <1>6, <2>1, NewsReply DEF Statuses, Reads
  <1> QED BY <1>4, <1>5, <1>6 DEF Receive, Reads

\* A reply with what the cache holds for the identifier of the call.
LEMMA NewsAnswer ==
    ASSUME IInv, IInv', NewsInv, NEW w \in Workers, \A v \in Workers : v = w,
           UNCHANGED <<changes, cache, acked, seen, sync>>, NEW s \in {"ok", "stale"}, NEW d,
           Reply(w, s, d), call[w].op \in Reads, call[w].id \in Ids, Hit(call[w].id),
           d = cache[CacheKey(call[w].id)].data,
           at[w] \in {"request", "answer", "target"}
    PROVE  NewsInv'
  <1> DEFINE c == [call[w] EXCEPT !.status = s, !.data = d]
  <1>t. /\ at \in [Workers -> Steps] /\ call \in [Workers -> CallRecord]
        /\ call[w] \in CallRecord
    BY DEF IInv, TypeOK
  <1>1. at' = [at EXCEPT ![w] = "reply"] /\ call' = [call EXCEPT ![w] = c]
    BY <1>t DEF Reply
  <1>2. /\ c.op = call[w].op /\ c.id = call[w].id /\ c.floor = call[w].floor
        /\ c.status = s /\ c.data = d
    BY <1>t DEF CallRecord
  <1> HIDE DEF c
  <1>3. InCache(c)
    BY <1>2 DEF InCache
  <1>4. CallNews(at[w], call[w])
    BY DEF NewsInv
  <1>5. c.floor <= acked[c.id]
    BY <1>2, <1>4 DEF CallNews
  <1>6. CallNews("reply", c)
    BY <1>2, <1>3, <1>5 DEF CallNews
  <1> QED BY <1>1, <1>6, NewsCall

LEMMA NewsSetCache ==
    ASSUME KeysIdentify, IInv, IInv', NewsInv, NEW w \in Workers, \A v \in Workers : v = w,
           SetCache(w)
    PROVE  NewsInv'
  <1>t. /\ at \in [Workers -> Steps] /\ call \in [Workers -> CallRecord]
        /\ cache \in [Keys -> [data : Data, expires : 0 .. MaxTime + TTL]]
    BY DEF IInv, TypeOK
  <1>1. PICK i, d, e : i = call[w].id /\ d = call[w].data /\ e = [data |-> d, expires |-> now + TTL]
    OBVIOUS
  <1>2. /\ at[w] = "set" /\ at'[w] = "target" /\ call' = call
        /\ cache' = [cache EXCEPT ![CacheKey(i)] = e]
        /\ UNCHANGED <<changes, acked, seen, sync>>
    BY <1>1, <1>t DEF SetCache, Goto, Set, ghosts
  <1>3. i \in Ids /\ call[w].op \in Reads /\ d.config = Target(i)
    BY <1>1, <1>2 DEF IInv, CallsOK, CallOK, Asking
  <1>4. e # NoEntry /\ e.data = d
    <2>1. d.config # <<>>
      BY <1>3, TargetSome
    <2>2. NoEntry.data.config = <<>>
      BY DEF NoEntry, Nothing
    <2> QED BY <1>1, <2>1, <2>2
  <1>5. CallNews("set", call[w])
    BY <1>2 DEF NewsInv
  <1>6. /\ call[w].floor <= acked[i] /\ d.value <= changes[Target(i)]
        /\ \A j \in Ids : Target(j) = Target(i) => seen[j] <= d.value /\ acked[j] <= d.value
    BY <1>1, <1>3, <1>5 DEF CallNews
  <1>7. /\ \A j \in Ids : CacheKey(j) = CacheKey(i) => cache'[CacheKey(j)] = e
        /\ \A j \in Ids : CacheKey(j) # CacheKey(i) => cache'[CacheKey(j)] = cache[CacheKey(j)]
    BY <1>t, <1>2, <1>3, KeyType
  <1>8. KnownNews' /\ sync'.at = "stopped"
    BY <1>2 DEF NewsInv, KnownNews
  <1>9. EntryNews'
    <2> SUFFICES ASSUME NEW j \in Ids, cache'[CacheKey(j)] # NoEntry
                 PROVE  /\ seen[j] <= cache'[CacheKey(j)].data.value
                        /\ NoAliases => acked[j] <= cache'[CacheKey(j)].data.value
                        /\ cache'[CacheKey(j)].data.value <= changes[Target(j)]
      BY <1>2 DEF EntryNews, Hit
    <2>1. CASE CacheKey(j) = CacheKey(i)
      <3>1. Target(j) = Target(i)
        BY <1>3, <2>1 DEF KeysIdentify
      <3> QED BY <1>4, <1>6, <1>7, <2>1, <3>1
    <2>2. CASE CacheKey(j) # CacheKey(i)
      BY <1>7, <2>2 DEF NewsInv, EntryNews, Hit
    <2> QED BY <2>1, <2>2
  <1>10. CallNews(at[w], call[w])'
    <2>1. InCache(call[w])'
      BY <1>1, <1>2, <1>3, <1>4, <1>7 DEF InCache, Hit
    <2> QED BY <1>1, <1>2, <1>6, <2>1 DEF CallNews
  <1> QED BY <1>8, <1>9, <1>10 DEF NewsInv

LEMMA NewsTarget ==
    ASSUME IInv, IInv', NewsInv, NEW w \in Workers, \A v \in Workers : v = w,
           AddSyncTarget(w)
    PROVE  NewsInv'
  <1> DEFINE c == [call[w] EXCEPT !.status = "ok", !.data = call[w].data]
  <1>t. /\ at \in [Workers -> Steps] /\ call \in [Workers -> CallRecord]
        /\ call[w] \in CallRecord
    BY DEF IInv, TypeOK
  <1>1. /\ at[w] = "target" /\ UNCHANGED <<changes, cache, acked, seen, sync>>
        /\ at' = [at EXCEPT ![w] = "reply"] /\ call' = [call EXCEPT ![w] = c]
    BY <1>t DEF AddSyncTarget, Reply, ghosts
  <1>2. call[w].id \in Ids /\ call[w].op \in Reads
    BY <1>1 DEF IInv, CallsOK, CallOK, Asking
  <1>3. /\ c.op = call[w].op /\ c.id = call[w].id /\ c.floor = call[w].floor
        /\ c.status = "ok" /\ c.data = call[w].data
    BY <1>t DEF CallRecord
  <1> HIDE DEF c
  <1>4. CallNews("target", call[w])
    BY <1>1 DEF NewsInv
  <1>5. CallNews("reply", c)
    BY <1>2, <1>3, <1>4 DEF CallNews, InCache
  <1> QED BY <1>1, <1>5, NewsCall

LEMMA NewsInvalidate ==
    ASSUME IInv, IInv', NewsInv, NEW w \in Workers, \A v \in Workers : v = w, Invalidate(w)
    PROVE  NewsInv'
  <1>t. /\ at \in [Workers -> Steps] /\ call \in [Workers -> CallRecord]
        /\ cache \in [Keys -> [data : Data, expires : 0 .. MaxTime + TTL]]
    BY DEF IInv, TypeOK
  <1>1. PICK i, n : i = call[w].id /\ n = call[w].data.value
    OBVIOUS
  <1>2. /\ at[w] = "invalidate" /\ Reply(w, "ok", Nothing)
        /\ cache' = [cache EXCEPT ![CacheKey(i)] = NoEntry]
        /\ acked' = [j \in Ids |-> IF Target(j) = Target(i) /\ acked[j] < n THEN n ELSE acked[j]]
        /\ UNCHANGED <<changes, seen, sync>>
    BY <1>1 DEF Invalidate
  <1>3. i \in Ids /\ call[w].op = "change"
    BY <1>1, <1>2 DEF IInv, CallsOK, CallOK, Asking
  <1>4. n <= changes[Target(i)] /\ n \in Int
    <2>1. CallNews("invalidate", call[w])
      BY <1>2 DEF NewsInv
    <2> QED BY <1>1, <1>3, <2>1, NewsTypes DEF CallNews
  <1>5. KnownNews' /\ sync'.at = "stopped"
    BY <1>2, <1>4, NewsTypes DEF NewsInv, KnownNews
  <1>6. EntryNews'
    <2> SUFFICES ASSUME NEW j \in Ids, cache'[CacheKey(j)] # NoEntry
                 PROVE  /\ seen[j] <= cache'[CacheKey(j)].data.value
                        /\ NoAliases => acked'[j] <= cache'[CacheKey(j)].data.value
                        /\ cache'[CacheKey(j)].data.value <= changes[Target(j)]
      BY <1>2 DEF EntryNews, Hit
    <2>1. CacheKey(j) # CacheKey(i) /\ cache'[CacheKey(j)] = cache[CacheKey(j)]
      BY <1>t, <1>2, <1>3, KeyType
    <2>2. NoAliases => acked'[j] = acked[j]
      BY <1>2, <1>3, <2>1 DEF NoAliases
    <2> QED BY <2>1, <2>2 DEF NewsInv, EntryNews, Hit
  <1>7. at'[w] = "reply" /\ call'[w].data.value = 0 /\ call'[w].op = "change"
    <2>1. call'[w] = [call[w] EXCEPT !.status = "ok", !.data = Nothing] /\ at'[w] = "reply"
      BY <1>t, <1>2 DEF Reply
    <2>2. call[w] \in CallRecord
      BY <1>t
    <2> QED BY <1>3, <2>1, <2>2 DEF CallRecord, Nothing
  <1>8. CallNews(at[w], call[w])'
    BY <1>7 DEF CallNews, Reads
  <1> QED BY <1>5, <1>6, <1>8 DEF NewsInv

LEMMA NewsFails ==
    ASSUME IInv, IInv', NewsInv, NEW w \in Workers, \A v \in Workers : v = w, CallFails(w)
    PROVE  NewsInv'
  <1>t. /\ at \in [Workers -> Steps] /\ call \in [Workers -> CallRecord]
        /\ call[w] \in CallRecord
    BY DEF IInv, TypeOK
  <1>1. at[w] \in {"request", "answer"} /\ UNCHANGED <<changes, cache, acked, seen, sync>>
    BY DEF CallFails, client, ghosts
  <1>2. call[w].id \in Ids /\ CallNews(at[w], call[w])
    BY <1>1 DEF IInv, CallsOK, CallOK, Asking, NewsInv
  <1>3. CASE GiveUp(w)
    <2>1. CASE call[w].op = "cached" /\ Hit(call[w].id)
      <3>1. Reply(w, "stale", cache[CacheKey(call[w].id)].data)
        BY <1>3, <2>1 DEF GiveUp
      <3> QED BY <1>1, <1>2, <2>1, <3>1, NewsAnswer DEF Reads
    <2>2. CASE ~(call[w].op = "cached" /\ Hit(call[w].id))
      <3>1. Reply(w, "error", Nothing)
        BY <1>3, <2>2 DEF GiveUp
      <3> QED BY <1>1, <3>1, NewsReply DEF Statuses
    <2> QED BY <2>1, <2>2
  <1>4. CASE ~GiveUp(w)
    <2> DEFINE c == [call[w] EXCEPT !.tries = call[w].tries + 1, !.data = Nothing]
    <2>1. at' = [at EXCEPT ![w] = "request"] /\ call' = [call EXCEPT ![w] = c]
      BY <1>t, <1>4 DEF CallFails
    <2>2. c.op = call[w].op /\ c.id = call[w].id /\ c.floor = call[w].floor
      BY <1>t DEF CallRecord
    <2> HIDE DEF c
    <2>3. CallNews("request", c)
      BY <1>1, <1>2, <2>2 DEF CallNews
    <2> QED BY <1>1, <2>1, <2>3, NewsCall
  <1> QED BY <1>3, <1>4

LEMMA NewsForget ==
    ASSUME IInv, IInv', NewsInv, NEW w \in Workers, \A v \in Workers : v = w,
           NEW ids \in SUBSET Ids, Forget(w, ids)
    PROVE  NewsInv'
  <1>1. /\ at[w] = "idle" /\ UNCHANGED <<changes, at, call, sync, seen>>
        /\ cache' = [k \in Keys |-> IF \E i \in ids : CacheKey(i) = k THEN NoEntry ELSE cache[k]]
        /\ acked' = [i \in Ids |-> IF i \in ids THEN changes[Target(i)] ELSE acked[i]]
    BY DEF Forget
  <1>2. KnownNews' /\ sync'.at = "stopped"
    BY <1>1, NewsTypes DEF NewsInv, KnownNews
  <1>3. EntryNews'
    <2> SUFFICES ASSUME NEW j \in Ids, cache'[CacheKey(j)] # NoEntry
                 PROVE  /\ seen[j] <= cache'[CacheKey(j)].data.value
                        /\ NoAliases => acked'[j] <= cache'[CacheKey(j)].data.value
                        /\ cache'[CacheKey(j)].data.value <= changes[Target(j)]
      BY <1>1 DEF EntryNews, Hit
    <2>1. j \notin ids /\ cache'[CacheKey(j)] = cache[CacheKey(j)]
      BY <1>1, KeyType
    <2> QED BY <1>1, <2>1 DEF NewsInv, EntryNews, Hit
  <1>4. CallNews(at[w], call[w])'
    BY <1>1 DEF CallNews
  <1> QED BY <1>2, <1>3, <1>4 DEF NewsInv

LEMMA NewsReturn ==
    ASSUME IInv, IInv', NewsInv, NEW w \in Workers, \A v \in Workers : v = w, Return(w)
    PROVE  NewsInv'
  <1>t. at \in [Workers -> Steps]
    BY DEF IInv, TypeOK
  <1>1. PICK i, n : i = call[w].id /\ n = call[w].data.value
    OBVIOUS
  <1>2. /\ at[w] = "reply" /\ at'[w] = "idle"
        /\ seen' = [j \in Ids |-> IF j = i /\ seen[j] < n THEN n ELSE seen[j]]
        /\ UNCHANGED <<changes, cache, acked, sync>>
    BY <1>1, <1>t DEF Return, Goto, client
  <1>3. CallNews("reply", call[w])
    BY <1>2 DEF NewsInv
  <1>4. \/ i \in Ids /\ Hit(i) /\ cache[CacheKey(i)].data.value = n
        \/ n = 0
    BY <1>1, <1>3 DEF CallNews, InCache
  <1>5. \A j \in Ids : seen'[j] = seen[j] \/ (j = i /\ Hit(i) /\ seen'[j] = cache[CacheKey(i)].data.value)
    BY <1>2, <1>4, NewsTypes
  <1>6. KnownNews' /\ sync'.at = "stopped"
    BY <1>2, <1>5 DEF NewsInv, KnownNews, EntryNews
  <1>7. EntryNews'
    BY <1>2, <1>5, NewsTypes DEF NewsInv, EntryNews, Hit
  <1>8. CallNews(at[w], call[w])'
    BY <1>2 DEF CallNews
  <1> QED BY <1>6, <1>7, <1>8 DEF NewsInv

LEMMA NewsClose ==
    ASSUME IInv, IInv', NewsInv, NEW w \in Workers, \A v \in Workers : v = w,
           Close(w) \/ CloseChannel(w) \/ StopCache(w) \/ CloseCache(w) \/ CloseConnection(w)
    PROVE  NewsInv'
  <1>t. at \in [Workers -> Steps] /\ call \in [Workers -> CallRecord]
    BY DEF IInv, TypeOK
  <1>1. UNCHANGED <<changes, cache, acked, seen, sync>>
    BY DEF Close, CloseChannel, StopCache, CloseCache, CloseOnce, CloseConnection, client, ghosts
  <1>2. CASE Close(w) \/ CloseChannel(w) \/ StopCache(w) \/ CloseCache(w)
    <2>1. PICK a \in ClosingSteps : at' = [at EXCEPT ![w] = a]
      BY <1>2 DEF Close, CloseChannel, StopCache, CloseCache, CloseOnce, Goto, ClosingSteps
    <2>2. PICK c : call' = [call EXCEPT ![w] = c]
      BY <1>t, <1>2 DEF Close, CloseChannel, StopCache, CloseCache, CloseOnce
    <2>3. CallNews(a, c)
      BY <2>1 DEF CallNews, ClosingSteps
    <2> QED BY <1>1, <2>1, <2>2, <2>3, NewsCall
  <1>3. CASE CloseConnection(w)
    <2>1. PICK s \in {"ok", "error"} : Reply(w, s, Nothing)
      BY <1>3 DEF CloseConnection
    <2>2. at[w] = "close.connection" /\ call[w].op = "close"
      BY <1>3 DEF CloseConnection, IInv, CallsOK, CallOK
    <2> QED BY <1>1, <2>1, <2>2, NewsReply DEF Statuses, Reads
  <1> QED BY <1>2, <1>3

LEMMA NewsStep ==
    ASSUME OneSession, KeysIdentify
    PROVE  IInv /\ IInv' /\ NewsInv /\ [Next]_vars => NewsInv'
  <1> SUFFICES ASSUME IInv, IInv', NewsInv, [Next]_vars PROVE NewsInv'
    OBVIOUS
  <1>1. ASSUME NEW w \in Workers, Worker(w) PROVE NewsInv'
    <2>1. \A v \in Workers : v = w
      BY DEF OneSession
    <2>2. ASSUME NEW ids \in {Ids} \cup {{i} : i \in Ids}, Forget(w, ids) PROVE NewsInv'
      <3>1. ids \in SUBSET Ids
        OBVIOUS
      <3> QED BY <2>1, <2>2, <3>1, NewsForget
    <2> QED BY <1>1, <2>1, <2>2, NewsStart, NewsCached, NewsServe, NewsReceive, NewsFails,
               NewsSetCache, NewsTarget, NewsInvalidate, NewsReturn, NewsClose DEF Worker
  <1>2. ASSUME UNCHANGED <<cache, acked, seen, sync, at, call>>,
               \A i \in Ids : changes[Target(i)] <= changes'[Target(i)]
        PROVE  NewsInv'
    <2>1. KnownNews'
      <3>1. \A i \in Ids : changes'[Target(i)] \in Int
        BY KeyType DEF IInv, TypeOK
      <3> QED BY <1>2, <3>1, NewsTypes DEF NewsInv, KnownNews
    <2>2. EntryNews'
      <3>1. \A i \in Ids : changes'[Target(i)] \in Int
        BY KeyType DEF IInv, TypeOK
      <3> QED BY <1>2, <3>1, NewsTypes DEF NewsInv, EntryNews, Hit
    <2>3. ASSUME NEW w \in Workers PROVE CallNews(at[w], call[w])'
      <3>1. CallNews(at[w], call[w])
        BY DEF NewsInv
      <3>2. call[w].data.value \in Int
        BY NewsTypes
      <3>3. at[w] \in Asking => call[w].id \in Ids
        BY DEF IInv, CallsOK, CallOK
      <3>4. at[w] \in Asking => /\ changes[Target(call[w].id)] \in Int
                                /\ changes'[Target(call[w].id)] \in Int
                                /\ changes[Target(call[w].id)] <= changes'[Target(call[w].id)]
        <4>1. \A i \in Ids : changes'[Target(i)] \in Int
          BY KeyType DEF IInv, TypeOK
        <4> QED BY <1>2, <3>3, <4>1, NewsTypes
      <3> QED BY <1>2, <3>1, <3>2, <3>4 DEF CallNews, InCache, Hit, Asking
    <2> QED BY <1>2, <2>1, <2>2, <2>3 DEF NewsInv
  <1>3. \A i \in Ids : changes[Target(i)] <= changes[Target(i)]
    BY NewsTypes
  <1>4. ~Sync
    BY DEF NewsInv, Sync, SyncTick, SyncRequest, SyncServe, SyncSet, SyncFails, SyncStop
  <1>5. ASSUME NEW c \in Configs, Change(c) PROVE NewsInv'
    <2>1. changes' = [changes EXCEPT ![c] = @ + 1] /\ changes \in [Configs -> 0 .. MaxChanges]
      BY <1>5 DEF Change, IInv, TypeOK
    <2>2. \A i \in Ids : changes[Target(i)] <= changes'[Target(i)]
      BY <2>1, KeyType
    <2> QED BY <1>2, <1>5, <2>2 DEF Change, client, ghosts
  <1>6. CASE Tick \/ UNCHANGED vars
    BY <1>2, <1>3, <1>6 DEF Tick, vars, client, ghosts
  <1> QED BY <1>1, <1>4, <1>5, <1>6 DEF Next

LEMMA NewsInit == ASSUME OneSession PROVE Init => NewsInv
  <1> SUFFICES ASSUME Init PROVE NewsInv
    OBVIOUS
  <1>1. sync.at = "stopped"
    BY DEF Init, OneSession
  <1>2. KnownNews
    <2> SUFFICES ASSUME NEW i \in Ids
                 PROVE  seen[i] <= changes[Target(i)] /\ acked[i] <= changes[Target(i)]
      BY DEF KnownNews
    <2>1. Target(i) \in Configs
      BY KeyType
    <2>2. changes[Target(i)] = 0 /\ seen[i] = 0 /\ acked[i] = 0
      BY <2>1 DEF Init
    <2> QED BY <2>2
  <1>3. EntryNews
    BY KeyType DEF Init, EntryNews, Hit
  <1>4. \A w \in Workers : CallNews(at[w], call[w])
    BY DEF Init, CallNews
  <1> QED BY <1>1, <1>2, <1>3, <1>4 DEF NewsInv

\* To one goroutine without background sync, the cache, a call under way and a
\* reply are as new as anything it has been told before (cache.set and
\* cache.invalidate around the calls of client.go, names without colons).
THEOREM SessionInvariance ==
    ASSUME OneSession, KeysIdentify
    PROVE  Spec => []NewsInv
  BY NewsInit, NewsStep, Invariance, PTL DEF Spec

\* To one goroutine without background sync a configuration never goes back to
\* an earlier state, through hits, retries and the stale fallback
\* (client.go:154-221), if keys of the cache tell configurations apart.
THEOREM Monotonic ==
    ASSUME OneSession, KeysIdentify
    PROVE  Spec => []MonotonicReads
  <1>1. NewsInv => MonotonicReads
    BY DEF NewsInv, MonotonicReads, Replied, CallNews, InCache, EntryNews, Reads
  <1> QED BY <1>1, SessionInvariance, PTL

\* If no configuration has two names either, a cached read that starts after
\* a publication, deletion or invalidation of this goroutine never answers
\* with what was there before (client.go:475).
THEOREM PublishedIsRead ==
    ASSUME OneSession, KeysIdentify, NoAliases
    PROVE  Spec => []ReadYourPublish
  <1>1. IInv /\ NewsInv => ReadYourPublish
    <2> SUFFICES ASSUME IInv, NewsInv, NEW w \in Workers, Replied(w, {"cached"})
                 PROVE  call[w].data.value >= call[w].floor
      BY DEF ReadYourPublish
    <2>1. /\ call[w].id \in Ids /\ InCache(call[w]) /\ call[w].floor <= acked[call[w].id]
      BY DEF NewsInv, Replied, CallNews, Reads
    <2>2. acked[call[w].id] <= call[w].data.value
      BY <2>1 DEF NewsInv, InCache, EntryNews
    <2> QED BY <2>1, <2>2, NewsTypes
  <1> QED BY <1>1, Invariance, SessionInvariance, PTL
=============================================================================
