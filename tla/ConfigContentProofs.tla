------------------------ MODULE ConfigContentProofs ------------------------
(***************************************************************************)
(* What the versions of ConfigStore contain: that a committed version      *)
(* keeps its fields for good, and that the handlers, statement by          *)
(* statement, implement the atomic calls of VersionedConfig. Both rest on  *)
(* the invariant IInv of ConfigStoreProofs.                                *)
(***************************************************************************)
EXTENDS ConfigStoreProofs

-----------------------------------------------------------------------------
(* Fields of committed versions *)

\* The version that is about to be committed is in no table yet.
LEMMA NewVersion ==
    ASSUME IInv, NEW h \in Handlers, UpdateCommit(h)
    PROVE  <<rid[h], ver[h]>> \notin history
  <1> USE DEF IInv, TypeOK, CallsTypeOK, TablesTypeOK
  <1>1. rid[h] # 0 /\ key[h] \in Keys /\ (Extends(h) \/ Creates(h))
    BY CommittedRow DEF WriterInv
  <1>2. CASE Extends(h)
    <2> SUFFICES ASSUME <<rid[h], ver[h]>> \in history PROVE FALSE
      OBVIOUS
    <2>1. cv[key[h]].latest \in Int
      BY <1>1 DEF Row
    <2>2. ver[h] \in 1 .. cv[key[h]].latest
      BY <1>1, <1>2 DEF Extends, TableInv
    <2> QED BY <1>2, <2>1, <2>2 DEF Extends
  <1>3. CASE Creates(h)
    BY <1>1, <1>3 DEF Creates, TableInv, NoOrphans, Live
  <1> QED BY <1>1, <1>2, <1>3

\* An update adds the fields of its version and leaves the others alone.
LEMMA FieldsAfterUpdate ==
    ASSUME IInv, NEW h \in Handlers, UpdateCommit(h),
           NEW i, NEW v, i = rid[h], v = ver[h], NEW j, NEW w
    PROVE  FieldsOf(j, w)' = IF j = i /\ w = v THEN buf[h] ELSE FieldsOf(j, w)
  <1> DEFINE new == {[id |-> i, version |-> v, path |-> f.path, value |-> f.value] : f \in buf[h]}
  <1>1. field' = field \cup new
    BY DEF UpdateCommit
  <1>2. \A r \in field : ~(r.id = i /\ r.version = v)
    BY NewVersion DEF IInv, TableInv, NoOrphans
  <1>3. buf[h] \in SUBSET Field
    BY DEF IInv, TypeOK, CallsTypeOK
  <1>4. \A f \in buf[h] : [path |-> f.path, value |-> f.value] = f
    BY <1>3 DEF Field
  <1>5. \A r \in new : r.id = i /\ r.version = v
    OBVIOUS
  <1>6. CASE j = i /\ w = v
    <2>1. {s \in field' : s.id = j /\ s.version = w} = new
      BY <1>1, <1>2, <1>5, <1>6
    <2>2. FieldsOf(j, w)' = {[path |-> r.path, value |-> r.value] : r \in new}
      BY <2>1 DEF FieldsOf
    <2>3. ASSUME NEW f \in buf[h]
          PROVE  \E r \in new : f = [path |-> r.path, value |-> r.value]
      <3>1. [id |-> i, version |-> v, path |-> f.path, value |-> f.value] \in new
        OBVIOUS
      <3> QED BY <1>4, <3>1
    <2>4. ASSUME NEW r \in new
          PROVE  [path |-> r.path, value |-> r.value] \in buf[h]
      <3>1. PICK f \in buf[h] :
              r = [id |-> i, version |-> v, path |-> f.path, value |-> f.value]
        OBVIOUS
      <3> QED BY <1>4, <3>1
    <2> HIDE DEF new
    <2> QED BY <1>6, <2>2, <2>3, <2>4
  <1>7. CASE ~(j = i /\ w = v)
    <2>1. {s \in field' : s.id = j /\ s.version = w} = {s \in field : s.id = j /\ s.version = w}
      BY <1>1, <1>5, <1>7
    <2> QED BY <1>7, <2>1 DEF FieldsOf
  <1> QED BY <1>6, <1>7

\* A deletion takes the fields of its row and of no other.
LEMMA FieldsAfterDelete ==
    ASSUME NEW i, field' = {r \in field : r.id # i}, NEW j, NEW w, j # i
    PROVE  FieldsOf(j, w)' = FieldsOf(j, w)
  <1>1. {s \in field' : s.id = j /\ s.version = w} = {s \in field : s.id = j /\ s.version = w}
    OBVIOUS
  <1> QED BY <1>1 DEF FieldsOf

-----------------------------------------------------------------------------
(* Committed versions keep their fields *)

LEMMA StoredUpdate ==
    ASSUME IInv, StoredAsCommitted, NEW h \in Handlers, UpdateCommit(h)
    PROVE  StoredAsCommitted'
  <1>0. PICK i, v : i = rid[h] /\ v = ver[h]
    OBVIOUS
  <1> PICK c : c = buf[h]
    OBVIOUS
  <1> DEFINE new == [id |-> i, version |-> v, fields |-> c]
  <1>1. history' = history \cup {<<i, v>>} /\ log' = log \cup {new}
    BY <1>0 DEF UpdateCommit
  <1>2. ASSUME NEW e \in log, Live(e.id)'
        PROVE  <<e.id, e.version>> \in history /\ FieldsOf(e.id, e.version)' = e.fields
    <2>1. Live(e.id)
      <3>1. \A k \in Keys \ {key[h]} : cv'[k] = cv[k]
        BY CommittedRow DEF IInv
      <3>2. cv'[key[h]].id = i /\ key[h] \in Keys /\ (Extends(h) \/ Creates(h))
        BY <1>0, CommittedRow DEF IInv, WriterInv, TypeOK, CallsTypeOK
      <3>3. CASE e.id # i
        BY <1>2, <3>1, <3>2, <3>3 DEF Live
      <3>4. CASE e.id = i
        BY <1>0, <1>2, <3>2, <3>4 DEF Live, Extends, Creates
      <3> QED BY <3>3, <3>4
    <2>2. <<e.id, e.version>> \in history /\ FieldsOf(e.id, e.version) = e.fields
      BY <2>1 DEF StoredAsCommitted
    <2>3. ~(e.id = i /\ e.version = v)
      BY <1>0, <2>2, NewVersion
    <2> QED BY <1>0, <2>2, <2>3, FieldsAfterUpdate
  <1>3. FieldsOf(new.id, new.version)' = new.fields
    <2>1. FieldsOf(i, v)' = c
      BY <1>0, FieldsAfterUpdate
    <2> QED BY <2>1
  <1>4. \A e \in log' : Live(e.id)' => /\ <<e.id, e.version>> \in history'
                                      /\ FieldsOf(e.id, e.version)' = e.fields
    BY <1>1, <1>2, <1>3
  <1>5. \A p \in history' : \E e \in log' : p = <<e.id, e.version>>
    <2>1. \A p \in history : \E e \in log : p = <<e.id, e.version>>
      BY DEF StoredAsCommitted
    <2>2. <<i, v>> = <<new.id, new.version>>
      OBVIOUS
    <2> HIDE DEF new
    <2> QED BY <1>1, <2>1, <2>2
  <1> QED BY <1>4, <1>5 DEF StoredAsCommitted

LEMMA StoredDelete ==
    ASSUME IInv, StoredAsCommitted, NEW h \in Handlers, DeleteRow(h)
    PROVE  StoredAsCommitted'
  <1>1. CASE UNCHANGED <<cv, history, audited, field, log>>
    BY <1>1 DEF StoredAsCommitted, FieldsOf, Live
  <1>2. CASE ~UNCHANGED <<cv, history, audited, field, log>>
    <2>1. /\ Exists(key[h]) /\ cv[key[h]].id = rid[h]
          /\ \A k \in Keys \ {key[h]} : cv'[k] = cv[k]
          /\ cv'[key[h]] = NoRow
          /\ history' = {p \in history : p[1] # rid[h]}
          /\ field'   = {r \in field : r.id # rid[h]}
          /\ log' = log
      BY <1>2, DeletedRow DEF IInv
    <2>2. key[h] \in Keys
      BY DEF IInv, TypeOK, CallsTypeOK
    <2>3. ASSUME NEW e \in log, Live(e.id)'
          PROVE  /\ <<e.id, e.version>> \in history'
                 /\ FieldsOf(e.id, e.version)' = e.fields
      <3>1. PICK k \in Keys : cv'[k].id = e.id /\ e.id # 0
        BY <2>3 DEF Live
      <3>2. k # key[h] /\ cv[k].id = e.id
        BY <2>1, <3>1 DEF NoRow
      <3>3. e.id # rid[h]
        BY <2>1, <2>2, <3>2 DEF IInv, IdInv
      <3>4. <<e.id, e.version>> \in history /\ FieldsOf(e.id, e.version) = e.fields
        BY <3>1, <3>2 DEF StoredAsCommitted, Live
      <3>5. FieldsOf(e.id, e.version)' = FieldsOf(e.id, e.version)
        BY <2>1, <3>3, FieldsAfterDelete
      <3> QED BY <2>1, <3>3, <3>4, <3>5
    <2> QED BY <2>1, <2>3 DEF StoredAsCommitted
  <1> QED BY <1>1, <1>2

LEMMA StoredStep == IInv /\ StoredAsCommitted /\ [Next]_vars => StoredAsCommitted'
  <1> SUFFICES ASSUME IInv, StoredAsCommitted, [Next]_vars PROVE StoredAsCommitted'
    OBVIOUS
  <1>1. CASE UNCHANGED <<cv, history, audited, field, log>>
    BY <1>1 DEF StoredAsCommitted, FieldsOf, Live
  <1>2. ASSUME NEW h \in Handlers, PublishCommit(h) PROVE StoredAsCommitted'
    <2>1. UNCHANGED <<history, field, log>>
      BY <1>2 DEF PublishCommit
    <2>2. \A k \in Keys : cv'[k].id = cv[k].id
      BY <1>2, PublishedRow DEF IInv
    <2> QED BY <2>1, <2>2 DEF StoredAsCommitted, FieldsOf, Live
  <1> QED BY <1>1, <1>2, StoredUpdate, StoredDelete, TablesStep DEF Next, vars

\* A version that was committed is stored with exactly the fields it was
\* committed with for as long as its configuration lives, and nothing is in
\* the history that was not committed (UpdateConfig, PublishVersion and
\* DeleteConfig side by side, with statements that fail and answers that are
\* lost).
THEOREM Stored == Spec => []StoredAsCommitted
  <1>1. Init => StoredAsCommitted
    BY DEF Init, StoredAsCommitted
  <1>2. IInv /\ StoredAsCommitted /\ [Next]_vars => StoredAsCommitted'
    BY StoredStep
  <1> QED BY <1>1, <1>2, Invariance, PTL DEF Spec

-----------------------------------------------------------------------------
(* Answers *)

\* What is stored of a live row is what was committed of it.
LEMMA FieldsOfLive ==
    ASSUME IInv, StoredAsCommitted, NEW i, NEW v, Live(i)
    PROVE  FieldsOf(i, v) = UNION {e.fields : e \in {d \in log : d.id = i /\ d.version = v}}
  <1> DEFINE committed == {d \in log : d.id = i /\ d.version = v}
  <1>1. CASE committed = {}
    <2>1. <<i, v>> \notin history
      BY <1>1 DEF StoredAsCommitted
    <2>2. {s \in field : s.id = i /\ s.version = v} = {}
      BY <2>1 DEF IInv, TableInv, NoOrphans
    <2>3. FieldsOf(i, v) = {}
      BY <2>2 DEF FieldsOf
    <2> QED BY <1>1, <2>3
  <1>2. ASSUME NEW e \in committed
        PROVE  FieldsOf(i, v) = UNION {d.fields : d \in committed}
    <2>1. committed = {e}
      BY <1>2 DEF IInv, TableInv, CommittedOnce
    <2>2. FieldsOf(i, v) = e.fields
      BY <1>2 DEF StoredAsCommitted
    <2> QED BY <2>1, <2>2
  <1> QED BY <1>1, <1>2

\* Of a deleted row nothing is stored.
LEMMA FieldsOfDeleted ==
    ASSUME IInv, NEW i, NEW v, ~Live(i)
    PROVE  FieldsOf(i, v) = {}
  <1>1. {s \in field : s.id = i /\ s.version = v} = {}
    BY DEF IInv, TableInv, NoOrphans
  <1> QED BY <1>1 DEF FieldsOf

\* Only getConfig answers with stored fields.
LEMMA StoredBy ==
    ASSUME TypeOK, [Next]_vars, NEW h \in Handlers,
           answer[h] # "Stored", answer'[h] = "Stored"
    PROVE  GetFields(h)
  <1>1. PICK g \in Handlers : Step(g)
    BY DEF Next, vars
  <1> USE DEF TypeOK, CallsTypeOK
  <1>2. UpdateConfig(g) => answer'[h] # "Stored"
    BY DEF UpdateConfig, UpdateSelect, UpdateLock, UpdateInsert, UpdateBump, UpdateHistory,
           UpdateField, UpdateCommit, CommitCodes, Fail, Reply
  <1>3. PublishVersion(g) => answer'[h] # "Stored"
    BY DEF PublishVersion, PublishFind, PublishLock, PublishMark, PublishCommit,
           CommitCodes, Fail, Reply
  <1>4. DeleteConfig(g) \/ StatementFails(g) \/ Return(g) => answer'[h] # "Stored"
    BY DEF DeleteConfig, DeleteFind, DeleteRow, StatementFails, Return, CommitCodes, Fail, Reply
  <1>5. ASSUME NEW k \in Keys, NEW want \in Latest .. MaxVersion, GetRow(g, k, want)
        PROVE  answer'[h] # "Stored"
    BY <1>5 DEF GetRow, Fail, Reply
  <1>6. GetFields(g) => g = h
    BY DEF GetFields, Reply
  <1> QED BY <1>1, <1>2, <1>3, <1>4, <1>5, <1>6 DEF Step, GetConfig

LEMMA AnswerStep ==
    ASSUME "row_stream" \notin Faults, IInv, StoredAsCommitted, [Next]_vars, NEW h \in Handlers,
           answer[h] # "Stored", answer'[h] = "Stored"
    PROVE  \/ buf'[h] = {f \in UNION {e.fields : e \in {d \in log :
                               d.id = rid[h] /\ d.version = ver[h]}} : f.path \in only'[h]}
           \/ buf'[h] = {} /\ ~Live(rid[h])
  <1>1. GetFields(h)
    BY StoredBy DEF IInv
  <1>2. PICK paths : /\ only' = [only EXCEPT ![h] = paths]
                     /\ buf' = [buf EXCEPT ![h] = {f \in FieldsOf(rid[h], ver[h]) : f.path \in paths}]
    BY <1>1, ZenonT(60) DEF GetFields, Reply
  <1>3. /\ only'[h] = paths
        /\ buf'[h] = {f \in FieldsOf(rid[h], ver[h]) : f.path \in paths}
    BY <1>2 DEF IInv, TypeOK, CallsTypeOK
  <1>4. CASE Live(rid[h])
    BY <1>3, <1>4, FieldsOfLive
  <1>5. CASE ~Live(rid[h])
    BY <1>3, <1>5, FieldsOfDeleted
  <1> QED BY <1>4, <1>5

\* As long as result sets are not cut short (rows.Err() is not looked at), an
\* answer with stored fields holds those of one committed version, all that
\* were selected, or none if the row was deleted between the two reads of
\* getConfig (config_handlers.go:39-151).
THEOREM OneVersion ==
    ASSUME "row_stream" \notin Faults
    PROVE  Spec => AnswerIsOneVersion
  <1>1. IInv /\ StoredAsCommitted /\ [Next]_vars =>
          \A h \in Handlers : answer[h] # "Stored" /\ answer'[h] = "Stored" =>
            \/ buf'[h] = {f \in UNION {e.fields : e \in {d \in log :
                                 d.id = rid[h] /\ d.version = ver[h]}} : f.path \in only'[h]}
            \/ buf'[h] = {} /\ ~Live(rid[h])
    BY AnswerStep
  <1> QED BY <1>1, Invariance, Stored, PTL DEF Spec, AnswerIsOneVersion

-----------------------------------------------------------------------------
(* The handlers implement VersionedConfig *)

\* What a transaction has inserted has one value per path: the unique index
\* refuses a second one.
UniquePaths ==
    \A h \in Handlers : at[h] # "reply" =>
        \A f, g \in buf[h] : f.path = g.path => f = g

LEMMA UniquePathsStep == TypeOK /\ UniquePaths /\ [Next]_vars => UniquePaths'
  <1> SUFFICES ASSUME TypeOK, UniquePaths, NEW h \in Handlers, Step(h), NEW g \in Handlers,
                      at'[g] # "reply"
               PROVE  \A e, f \in buf'[g] : e.path = f.path => e = f
    BY DEF UniquePaths, Next, vars
  <1> USE DEF TypeOK, CallsTypeOK
  <1>1. CASE UpdateField(h) /\ ~Fail(h, "Internal")
    <2>1. /\ at' = at
          /\ buf' = [buf EXCEPT ![h] = buf[h] \cup {Head(todo[h])}]
          /\ at[h] = "update.fields"
          /\ ~(\E e \in buf[h] : e.path = Head(todo[h]).path)
      BY <1>1 DEF UpdateField
    <2> QED BY <2>1 DEF UniquePaths
  <1>2. CASE Return(h)
    BY <1>2 DEF Return, Goto, UniquePaths
  <1>3. CASE \E c, fields : Reply(h, c, fields)
    BY <1>3 DEF Reply, UniquePaths
  <1>4. CASE UNCHANGED buf /\ at[h] # "reply" /\ \A e \in Handlers \ {h} : at'[e] = at[e]
    BY <1>4 DEF UniquePaths
  <1>5. ASSUME UpdateConfig(h), ~UpdateField(h), ~(\E c, fields : Reply(h, c, fields))
        PROVE  UNCHANGED buf /\ at[h] # "reply" /\ \A e \in Handlers \ {h} : at'[e] = at[e]
    BY <1>5 DEF UpdateConfig, UpdateSelect, UpdateLock, UpdateInsert, UpdateBump,
                UpdateHistory, UpdateCommit, Fail, Goto
  <1>6. ASSUME PublishVersion(h) \/ DeleteConfig(h), ~(\E c, fields : Reply(h, c, fields))
        PROVE  UNCHANGED buf /\ at[h] # "reply" /\ \A e \in Handlers \ {h} : at'[e] = at[e]
    BY <1>6 DEF PublishVersion, PublishFind, PublishLock, PublishMark, PublishCommit,
                DeleteConfig, DeleteFind, DeleteRow, Fail, Goto
  <1>7. ASSUME GetConfig(h), ~(\E c, fields : Reply(h, c, fields))
        PROVE  UNCHANGED buf /\ at[h] # "reply" /\ \A e \in Handlers \ {h} : at'[e] = at[e]
    BY <1>7 DEF GetConfig, GetRow, GetFields, Fail, Goto
  <1>8. StatementFails(h) => \E c, fields : Reply(h, c, fields)
    BY DEF StatementFails, Fail
  <1>9. Fail(h, "Internal") => \E c, fields : Reply(h, c, fields)
    BY DEF Fail
  <1> QED BY <1>1, <1>2, <1>3, <1>4, <1>5, <1>6, <1>7, <1>8, <1>9 DEF Step

LEMMA UniquePathsAlways == Spec => []UniquePaths
  <1>1. Init => UniquePaths
    BY DEF Init, UniquePaths
  <1> QED BY <1>1, UniquePathsStep, Typing, PTL DEF Spec

\* What clients may know of the tables.
Store == [k \in Keys |-> VersionList(k)]

LEMMA NothingStored ==
    ASSUME NEW k \in Keys, cv[k] = NoRow
    PROVE  VersionList(k) = Abstract!Absent
  <1>1. [v \in 1 .. cv[k].latest |-> FieldsOf(cv[k].id, v)] = <<>>
    BY DEF NoRow
  <1> QED BY <1>1 DEF VersionList, NoRow, Abstract!Absent, Abstract!Unpublished

\* An update of K appends what it has inserted.
LEMMA UpdateRefines ==
    ASSUME IInv, UniquePaths, NEW h \in Handlers, UpdateCommit(h)
    PROVE  Abstract!Next
  <1>0. key[h] \in Keys /\ rid[h] \in Nat /\ ver[h] \in Int /\ buf[h] \in SUBSET Field
    BY DEF IInv, TypeOK, CallsTypeOK
  <1> PICK K \in Keys, i \in Nat, v \in Int, c \in SUBSET Field :
        K = key[h] /\ i = rid[h] /\ v = ver[h] /\ c = buf[h]
    BY <1>0
  <1>1. c \in Abstract!Contents
    BY DEF UniquePaths, UpdateCommit, Abstract!Contents, Field
  <1>2. /\ \A k \in Keys \ {K} : cv'[k] = cv[k] /\ cv[k].id # i
        /\ cv'[K].id = i /\ cv'[K].latest = v /\ cv'[K].published = cv[K].published
        /\ Extends(h) \/ Creates(h)
    BY CommittedRow, WriterId DEF IInv, WriterInv
  <1>3. cv[K].latest = v - 1 /\ v \in Nat \ {0} /\ (v # 1 => cv[K].id = i)
    <2>1. CASE Extends(h)
      <3>1. cv[K].latest \in Nat
        BY DEF IInv, TypeOK, TablesTypeOK, TableInv, NoRow, Row
      <3> QED BY <2>1, <3>1 DEF Extends
    <2>2. CASE Creates(h)
      BY <2>2 DEF Creates, IInv, TableInv, NoRow
    <2> QED BY <1>2, <2>1, <2>2
  <1>4. \A k \in Keys \ {K} : VersionList(k)' = VersionList(k)
    <2> SUFFICES ASSUME NEW k \in Keys \ {K} PROVE VersionList(k)' = VersionList(k)
      OBVIOUS
    <2> PICK j, n : j = cv[k].id /\ n = cv[k].latest
      OBVIOUS
    <2>1. \A w \in 1 .. n : FieldsOf(j, w)' = FieldsOf(j, w)
      BY <1>2, FieldsAfterUpdate
    <2> QED BY <1>2, <2>1 DEF VersionList
  <1> DEFINE old == [w \in 1 .. (v - 1) |-> FieldsOf(i, w)]
             p == IF cv[K].published = NULL THEN 0 ELSE cv[K].published
  <1>5. VersionList(K) = [versions |-> old, published |-> p]
    <2>1. [w \in 1 .. cv[K].latest |-> FieldsOf(cv[K].id, w)] = old
      BY <1>3
    <2> QED BY <2>1 DEF VersionList
  <1>6. \A w \in 1 .. v : FieldsOf(i, w)' = IF w = v THEN c ELSE FieldsOf(i, w)
    BY FieldsAfterUpdate
  <1>7. VersionList(K)' = [versions |-> Append(old, c), published |-> p]
    <2>1. old \in Seq({FieldsOf(i, w) : w \in 1 .. (v - 1)}) /\ Len(old) = v - 1
      BY <1>3
    <2>2. Append(old, c) = [w \in 1 .. v |-> IF w = v THEN c ELSE FieldsOf(i, w)]
      BY <1>3, <2>1
    <2>3. [w \in 1 .. cv[K].latest |-> FieldsOf(cv[K].id, w)]' = Append(old, c)
      BY <1>2, <1>6, <2>2, ZenonT(60)
    <2> QED BY <1>2, <2>3 DEF VersionList
  <1> HIDE DEF old, p
  <1>8. Store' = [Store EXCEPT ![K].versions = Append(@, c)]
    <2>1. Store[K] = [versions |-> old, published |-> p]
      BY <1>5 DEF Store
    <2>2. [Store[K] EXCEPT !.versions = Append(@, c)]
            = [versions |-> Append(old, c), published |-> p]
      BY <2>1
    <2>3. Store' = [Store EXCEPT ![K] = VersionList(K)']
      BY <1>4 DEF Store
    <2> QED BY <1>7, <2>2, <2>3
  <1>9. Abstract!AddVersion(K, c)
    BY <1>8 DEF Abstract!AddVersion, Store
  <1> QED BY <1>1, <1>9 DEF Abstract!Next

LEMMA PublishRefines ==
    ASSUME IInv, NEW h \in Handlers, PublishCommit(h)
    PROVE  Abstract!Next
  <1>0. key[h] \in Keys /\ ver[h] \in Int
    BY DEF IInv, TypeOK, CallsTypeOK
  <1> PICK K \in Keys, v \in Int : K = key[h] /\ v = ver[h]
    BY <1>0
  <1>1. /\ \A k \in Keys \ {K} : cv'[k] = cv[k]
        /\ cv'[K].id = cv[K].id /\ cv'[K].latest = cv[K].latest /\ cv'[K].published = v
        /\ UNCHANGED field
    BY PublishedRow DEF IInv, PublishCommit
  <1>2. cv[K].latest \in Int /\ v \in 1 .. cv[K].latest
    <2>1. <<cv[K].id, v>> \in history
      BY DEF IInv, WriterInv, TableInv, PublishCommit, Marking
    <2> QED BY <2>1 DEF IInv, TypeOK, TablesTypeOK, TableInv, Row
  <1> DEFINE versions == [w \in 1 .. cv[K].latest |-> FieldsOf(cv[K].id, w)]
  <1>3. versions' = versions /\ \A k \in Keys \ {K} : VersionList(k)' = VersionList(k)
    BY <1>1, ZenonT(60) DEF VersionList, FieldsOf
  <1>4. /\ VersionList(K) = [versions |-> versions, published |-> VersionList(K).published]
        /\ VersionList(K)' = [versions |-> versions, published |-> v]
    BY <1>1, <1>2, <1>3, SMTT(30) DEF VersionList, NULL
  <1>5. Len(versions) = cv[K].latest
    BY <1>2
  <1> HIDE DEF versions
  <1>6. Store[K] = VersionList(K) /\ Store' = [Store EXCEPT ![K] = VersionList(K)']
    BY <1>3 DEF Store
  <1>7. Store' = [Store EXCEPT ![K].published = v]
    <2>1. [Store[K] EXCEPT !.published = v] = [versions |-> versions, published |-> v]
      BY <1>4, <1>6
    <2> QED BY <1>4, <1>6, <2>1
  <1>8. v \in 1 .. Len(Store[K].versions)
    BY <1>2, <1>4, <1>5, <1>6
  <1>9. Abstract!Publish(K, v)
    BY <1>7, <1>8 DEF Abstract!Publish, Store
  <1> QED BY <1>8, <1>9 DEF Abstract!Next, Store

LEMMA DeleteRefines ==
    ASSUME IInv, NEW h \in Handlers, DeleteRow(h)
    PROVE  Abstract!Next \/ Store' = Store
  <1>1. CASE UNCHANGED <<cv, history, audited, field, log>>
    BY <1>1 DEF Store, VersionList, FieldsOf
  <1>2. CASE ~UNCHANGED <<cv, history, audited, field, log>>
    <2>0. key[h] \in Keys
      BY DEF IInv, TypeOK, CallsTypeOK
    <2> PICK K \in Keys, i \in {rid[h]} : K = key[h]
      BY <2>0
    <2>1. /\ Exists(K) /\ cv[K].id = i
          /\ \A k \in Keys \ {K} : cv'[k] = cv[k]
          /\ cv'[K] = NoRow
          /\ field' = {r \in field : r.id # i}
      BY <1>2, DeletedRow DEF IInv
    <2>2. \A k \in Keys \ {K} : VersionList(k)' = VersionList(k)
      <3> SUFFICES ASSUME NEW k \in Keys \ {K} PROVE VersionList(k)' = VersionList(k)
        OBVIOUS
      <3> PICK j, n : j = cv[k].id /\ n = cv[k].latest
        OBVIOUS
      <3>1. j # i
        BY <2>1 DEF IInv, IdInv
      <3>2. \A w \in 1 .. n : FieldsOf(j, w)' = FieldsOf(j, w)
        BY <2>1, <3>1, FieldsAfterDelete
      <3> QED BY <2>1, <3>2 DEF VersionList
    <2>3. VersionList(K)' = Abstract!Absent
      <3>1. cv'[K].latest = 0 /\ cv'[K].published = NULL
        BY <2>1 DEF NoRow
      <3>2. [w \in 1 .. cv'[K].latest |-> FieldsOf(cv[K].id, w)'] = <<>>
        BY <3>1
      <3> QED BY <3>1, <3>2 DEF VersionList, Abstract!Absent, Abstract!Unpublished
    <2>4. Store' = [Store EXCEPT ![K] = Abstract!Absent]
      BY <2>2, <2>3 DEF Store
    <2>5. Store[K] # Abstract!Absent
      <3>1. cv[K].latest \in Int /\ cv[K].latest >= 1
        BY <2>1 DEF IInv, TypeOK, TablesTypeOK, TableInv, Row
      <3>2. Len([w \in 1 .. cv[K].latest |-> FieldsOf(cv[K].id, w)]) = cv[K].latest
        BY <3>1
      <3>3. Store[K].versions = [w \in 1 .. cv[K].latest |-> FieldsOf(cv[K].id, w)]
        BY DEF Store, VersionList
      <3>4. Abstract!Absent.versions = <<>>
        BY DEF Abstract!Absent
      <3> QED BY <3>1, <3>2, <3>3, <3>4
    <2>6. Abstract!Remove(K)
      BY <2>4, <2>5 DEF Abstract!Remove, Store
    <2> QED BY <2>6 DEF Abstract!Next
  <1> QED BY <1>1, <1>2

LEMMA StepRefines == IInv /\ UniquePaths /\ [Next]_vars => Abstract!Next \/ Store' = Store
  <1> SUFFICES ASSUME IInv, UniquePaths, [Next]_vars PROVE Abstract!Next \/ Store' = Store
    OBVIOUS
  <1>1. UNCHANGED <<cv, history, audited, field, log>> => Store' = Store
    BY DEF Store, VersionList, FieldsOf
  <1> QED BY <1>1, UpdateRefines, PublishRefines, DeleteRefines, TablesStep DEF Next, vars

LEMMA InitRefines == Init => Abstract!Init
  <1> SUFFICES ASSUME Init PROVE Store = [k \in Keys |-> Abstract!Absent]
    BY DEF Abstract!Init, Store
  <1>1. \A k \in Keys : VersionList(k) = Abstract!Absent
    BY NothingStored DEF Init
  <1> QED BY <1>1 DEF Store

\* The handlers, statement by statement and with everything that can fail in
\* between, implement the atomic calls of VersionedConfig: the one commit of a
\* transaction is the call, everything else clients cannot tell.
THEOREM Refinement == Spec => ImplementsVersionedConfig
  <1>1. IInv /\ UniquePaths /\ [Next]_vars =>
            [Abstract!Next]_([k \in Keys |-> VersionList(k)])
    BY StepRefines DEF Store
  <1> QED BY <1>1, InitRefines, Invariance, UniquePathsAlways, PTL
          DEF Spec, ImplementsVersionedConfig, Abstract!Spec
=============================================================================
