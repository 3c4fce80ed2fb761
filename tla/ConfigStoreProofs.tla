------------------------- MODULE ConfigStoreProofs -------------------------
(***************************************************************************)
(* Proofs about ConfigStore for any number of identifiers, concurrent      *)
(* calls, versions and fields, and whichever faults occur.  The inductive  *)
(* invariant IInv is built in layers, each preserved given the ones before *)
(* it: types, locks, row ids, writers, tables.                             *)
(***************************************************************************)
EXTENDS ConfigStore, TLAPS

USE RequestsAssumption, HandlersAssumption, BoundsAssumption

-----------------------------------------------------------------------------
(* Types *)

LEMMA SameTables == TablesTypeOK /\ UNCHANGED tables => TablesTypeOK'
  BY DEF TablesTypeOK, tables

LEMMA GotoTypes ==
    ASSUME CallsTypeOK, NEW h \in Handlers, NEW from, NEW to \in Stages,
           Goto(h, from, to)
    PROVE  at' \in [Handlers -> Stages]
  BY DEF Goto, CallsTypeOK

\* What every reply leaves behind.
LEMMA ReplyTypes ==
    ASSUME CallsTypeOK, NEW h \in Handlers, NEW c \in Answers,
           NEW fields \in SUBSET Field, Reply(h, c, fields),
           key' \in [Handlers -> Keys], only' \in [Handlers -> SUBSET Paths]
    PROVE  CallsTypeOK'
  <1>1. at' \in [Handlers -> Stages]
    BY DEF Reply, CallsTypeOK, Stages
  <1>2. lock' \in [Keys -> Handlers \cup {NoHandler}]
    BY DEF Reply, CallsTypeOK
  <1>3. rid' \in [Handlers -> Nat] /\ ver' \in [Handlers -> Int]
    BY DEF Reply, CallsTypeOK
  <1>4. todo' \in [Handlers -> Seq(Field)] /\ buf' \in [Handlers -> SUBSET Field]
    BY DEF Reply, CallsTypeOK
  <1>5. answer' \in [Handlers -> Answers]
    BY DEF Reply, CallsTypeOK
  <1> QED BY <1>1, <1>2, <1>3, <1>4, <1>5 DEF CallsTypeOK

LEMMA FailTypes ==
    ASSUME CallsTypeOK, NEW h \in Handlers, NEW c \in Answers, Fail(h, c),
           key' \in [Handlers -> Keys], UNCHANGED only
    PROVE  CallsTypeOK'
  BY ReplyTypes DEF Fail, CallsTypeOK

LEMMA CommitTypes ==
    ASSUME CallsTypeOK, NEW h \in Handlers, NEW c \in CommitCodes,
           Reply(h, c, {}), UNCHANGED <<key, only>>
    PROVE  CallsTypeOK'
  <1>1. c \in Answers
    BY DEF CommitCodes, Answers
  <1> QED BY <1>1, ReplyTypes DEF CallsTypeOK

LEMMA TypeInit == Init => TypeOK
  BY DEF Init, TypeOK, TablesTypeOK, CallsTypeOK, Row, NoRow, NULL, Stages, Answers

LEMMA UpdateTypes ==
    ASSUME TypeOK, NEW h \in Handlers
    PROVE  /\ \A k \in Keys : UpdateSelect(h, k) => TypeOK'
           /\ UpdateLock(h) => TypeOK'
           /\ UpdateInsert(h) => TypeOK'
           /\ UpdateBump(h) => TypeOK'
           /\ UpdateHistory(h) => TypeOK'
           /\ UpdateField(h) => TypeOK'
           /\ UpdateCommit(h) => TypeOK'
  <1> USE DEF TypeOK
  <1>1. ASSUME NEW k \in Keys, UpdateSelect(h, k) PROVE TypeOK'
    <2>1. at' \in [Handlers -> Stages]
      BY <1>1, GotoTypes DEF UpdateSelect, Stages, TxStages
    <2>2. rid' \in [Handlers -> Nat] /\ key' \in [Handlers -> Keys]
      BY <1>1 DEF UpdateSelect, TablesTypeOK, CallsTypeOK, Row
    <2> QED BY <1>1, <2>1, <2>2, SameTables DEF UpdateSelect, CallsTypeOK
  <1>2. ASSUME UpdateLock(h) PROVE TypeOK'
    <2>1. at' \in [Handlers -> Stages]
      BY <1>2, GotoTypes DEF UpdateLock, Stages, TxStages
    <2>2. lock' \in [Keys -> Handlers \cup {NoHandler}]
      BY <1>2 DEF UpdateLock, CallsTypeOK
    <2>3. ver' \in [Handlers -> Int]
      BY <1>2 DEF UpdateLock, TablesTypeOK, CallsTypeOK, Row
    <2> QED BY <1>2, <2>1, <2>2, <2>3, SameTables DEF UpdateLock, CallsTypeOK
  <1>3. ASSUME UpdateInsert(h) PROVE TypeOK'
    <2>1. TablesTypeOK'
      BY <1>3 DEF UpdateInsert, TablesTypeOK
    <2>2. CASE Fail(h, "Internal")
      <3>1. "Internal" \in Answers
        BY DEF Answers
      <3> QED BY <1>3, <2>1, <2>2, <3>1, FailTypes DEF UpdateInsert, CallsTypeOK
    <2>3. CASE Goto(h, "update.insert", "update.history") /\ ~Fail(h, "Internal")
      <3>1. at' \in [Handlers -> Stages]
        BY <2>3, GotoTypes DEF Stages, TxStages
      <3>2. lock' \in [Keys -> Handlers \cup {NoHandler}]
        BY <1>3, <2>3 DEF UpdateInsert, CallsTypeOK
      <3>3. rid' = [rid EXCEPT ![h] = nextId] /\ ver' = [ver EXCEPT ![h] = 1]
        BY <1>3, <2>3 DEF UpdateInsert
      <3>4. rid' \in [Handlers -> Nat] /\ ver' \in [Handlers -> Int]
        BY <3>3 DEF CallsTypeOK, TablesTypeOK
      <3> QED BY <1>3, <2>1, <2>3, <3>1, <3>2, <3>4 DEF UpdateInsert, CallsTypeOK
    <2> QED BY <1>3, <2>2, <2>3 DEF UpdateInsert
  <1>4. ASSUME UpdateBump(h) PROVE TypeOK'
    <2>1. at' \in [Handlers -> Stages]
      BY <1>4, GotoTypes DEF UpdateBump, Stages, TxStages
    <2>2. lock' \in [Keys -> Handlers \cup {NoHandler}]
      BY <1>4 DEF UpdateBump, CallsTypeOK
    <2> QED BY <1>4, <2>1, <2>2, SameTables DEF UpdateBump, CallsTypeOK
  <1>5. ASSUME UpdateHistory(h) PROVE TypeOK'
    <2>1. TablesTypeOK'
      BY <1>5, SameTables DEF UpdateHistory
    <2>2. CASE Fail(h, "Internal")
      <3>1. "Internal" \in Answers
        BY DEF Answers
      <3> QED BY <1>5, <2>1, <2>2, <3>1, FailTypes DEF UpdateHistory, CallsTypeOK
    <2>3. CASE ~Fail(h, "Internal")
      <3>1. at' \in [Handlers -> Stages]
        BY <1>5, <2>3, GotoTypes DEF UpdateHistory, Stages, TxStages
      <3>2. todo' \in [Handlers -> Seq(Field)]
        BY <1>5, <2>3 DEF UpdateHistory, CallsTypeOK
      <3> QED BY <1>5, <2>1, <2>3, <3>1, <3>2 DEF UpdateHistory, CallsTypeOK
    <2> QED BY <2>2, <2>3
  <1>6. ASSUME UpdateField(h) PROVE TypeOK'
    <2>1. TablesTypeOK'
      BY <1>6, SameTables DEF UpdateField
    <2>2. CASE Fail(h, "Internal")
      <3>1. "Internal" \in Answers
        BY DEF Answers
      <3> QED BY <1>6, <2>1, <2>2, <3>1, FailTypes DEF UpdateField, CallsTypeOK
    <2>3. CASE ~Fail(h, "Internal")
      <3>1. todo[h] \in Seq(Field) /\ todo[h] # <<>>
        BY <1>6 DEF UpdateField, CallsTypeOK
      <3>2. Head(todo[h]) \in Field /\ Tail(todo[h]) \in Seq(Field)
        BY <3>1
      <3>3. /\ todo' = [todo EXCEPT ![h] = Tail(todo[h])]
            /\ buf'  = [buf EXCEPT ![h] = buf[h] \cup {Head(todo[h])}]
        BY <1>6, <2>3 DEF UpdateField
      <3>4. todo' \in [Handlers -> Seq(Field)] /\ buf' \in [Handlers -> SUBSET Field]
        BY <3>2, <3>3 DEF CallsTypeOK
      <3> QED BY <1>6, <2>1, <2>3, <3>4 DEF UpdateField, CallsTypeOK
    <2> QED BY <2>2, <2>3
  <1>7. ASSUME UpdateCommit(h) PROVE TypeOK'
    <2>1. CallsTypeOK'
      BY <1>7, CommitTypes DEF UpdateCommit
    <2>2. cv' \in [Keys -> Row]
      <3>1. cv' = [cv EXCEPT ![key[h]] = [id |-> rid[h], latest |-> ver[h],
                                          published |-> cv[key[h]].published]]
        BY <1>7 DEF UpdateCommit, TablesTypeOK, CallsTypeOK
      <3>2. cv[key[h]].published \in Int /\ rid[h] \in Nat
        BY DEF TablesTypeOK, CallsTypeOK, Row
      <3> QED BY <3>1, <3>2 DEF TablesTypeOK, CallsTypeOK, Row
    <2>3. field' \subseteq FieldRow
      BY <1>7 DEF UpdateCommit, TablesTypeOK, CallsTypeOK, FieldRow, Field
    <2>4. history' \subseteq Nat \X Int
      BY <1>7 DEF UpdateCommit, TablesTypeOK, CallsTypeOK
    <2>5. log' \subseteq [id : Nat, version : Int, fields : SUBSET Field]
      BY <1>7 DEF UpdateCommit, TablesTypeOK, CallsTypeOK
    <2> QED BY <1>7, <2>1, <2>2, <2>3, <2>4, <2>5 DEF UpdateCommit, TablesTypeOK
  <1> QED BY <1>1, <1>2, <1>3, <1>4, <1>5, <1>6, <1>7

LEMMA PublishTypes ==
    ASSUME TypeOK, NEW h \in Handlers
    PROVE  /\ \A k \in Keys : PublishFind(h, k) => TypeOK'
           /\ PublishLock(h) => TypeOK'
           /\ PublishMark(h) => TypeOK'
           /\ PublishCommit(h) => TypeOK'
  <1> USE DEF TypeOK
  <1>0. "NotFound" \in Answers
    BY DEF Answers
  <1>1. ASSUME NEW k \in Keys, PublishFind(h, k) PROVE TypeOK'
    <2>1. TablesTypeOK'
      BY <1>1, SameTables DEF PublishFind
    <2>2. key' \in [Handlers -> Keys]
      BY <1>1 DEF PublishFind, CallsTypeOK
    <2>3. CASE Fail(h, "NotFound")
      BY <1>1, <2>1, <2>2, <2>3, <1>0, FailTypes DEF PublishFind
    <2>4. CASE ~Fail(h, "NotFound")
      <3>1. at' \in [Handlers -> Stages]
        BY <1>1, <2>4, GotoTypes DEF PublishFind, Stages, TxStages
      <3>2. rid' \in [Handlers -> Nat]
        BY <1>1, <2>4 DEF PublishFind, TablesTypeOK, CallsTypeOK, Row
      <3> QED BY <1>1, <2>1, <2>2, <2>4, <3>1, <3>2 DEF PublishFind, CallsTypeOK
    <2> QED BY <2>3, <2>4
  <1>2. ASSUME PublishLock(h) PROVE TypeOK'
    <2>1. TablesTypeOK'
      BY <1>2, SameTables DEF PublishLock
    <2>2. CASE Fail(h, "NotFound")
      BY <1>2, <2>1, <2>2, <1>0, FailTypes DEF PublishLock, CallsTypeOK
    <2>3. CASE ~Fail(h, "NotFound")
      <3>1. at' \in [Handlers -> Stages]
        BY <1>2, <2>3, GotoTypes DEF PublishLock, Stages, TxStages
      <3>2. lock' \in [Keys -> Handlers \cup {NoHandler}]
        BY <1>2, <2>3 DEF PublishLock, CallsTypeOK
      <3>3. PICK v \in 0 .. MaxVersion + 1 : ver' = [ver EXCEPT ![h] = v]
        BY <1>2, <2>3 DEF PublishLock
      <3>4. ver' \in [Handlers -> Int]
        BY <3>3 DEF CallsTypeOK
      <3> QED BY <1>2, <2>1, <2>3, <3>1, <3>2, <3>4 DEF PublishLock, CallsTypeOK
    <2> QED BY <2>2, <2>3
  <1>3. ASSUME PublishMark(h) PROVE TypeOK'
    <2>1. TablesTypeOK'
      BY <1>3, SameTables DEF PublishMark
    <2>2. CASE Fail(h, "NotFound")
      BY <1>3, <2>1, <2>2, <1>0, FailTypes DEF PublishMark, CallsTypeOK
    <2>3. CASE ~Fail(h, "NotFound")
      <3>1. at' \in [Handlers -> Stages]
        BY <1>3, <2>3, GotoTypes DEF PublishMark, Stages, TxStages
      <3> QED BY <1>3, <2>1, <2>3, <3>1 DEF PublishMark, CallsTypeOK
    <2> QED BY <2>2, <2>3
  <1>4. ASSUME PublishCommit(h) PROVE TypeOK'
    <2>1. CallsTypeOK'
      BY <1>4, CommitTypes DEF PublishCommit
    <2>2. cv' \in [Keys -> Row]
      <3>1. cv' = [cv EXCEPT ![key[h]] = [cv[key[h]] EXCEPT !.published = ver[h]]]
        BY <1>4 DEF PublishCommit
      <3>2. cv[key[h]] \in Row /\ ver[h] \in Int
        BY DEF TablesTypeOK, CallsTypeOK
      <3>3. [cv[key[h]] EXCEPT !.published = ver[h]] \in Row
        BY <3>2 DEF Row
      <3> QED BY <3>1, <3>3 DEF TablesTypeOK
    <2>3. audited' \subseteq Nat \X Int
      BY <1>4 DEF PublishCommit, TablesTypeOK, CallsTypeOK
    <2> QED BY <1>4, <2>1, <2>2, <2>3 DEF PublishCommit, TablesTypeOK
  <1> QED BY <1>1, <1>2, <1>3, <1>4

LEMMA DeleteTypes ==
    ASSUME TypeOK, NEW h \in Handlers
    PROVE  /\ \A k \in Keys : DeleteFind(h, k) => TypeOK'
           /\ DeleteRow(h) => TypeOK'
  <1> USE DEF TypeOK
  <1>0. "NotFound" \in Answers
    BY DEF Answers
  <1>1. ASSUME NEW k \in Keys, DeleteFind(h, k) PROVE TypeOK'
    <2>1. TablesTypeOK'
      BY <1>1, SameTables DEF DeleteFind
    <2>2. key' \in [Handlers -> Keys]
      BY <1>1 DEF DeleteFind, CallsTypeOK
    <2>3. CASE Fail(h, "NotFound")
      BY <1>1, <2>1, <2>2, <2>3, <1>0, FailTypes DEF DeleteFind
    <2>4. CASE ~Fail(h, "NotFound")
      <3>1. at' \in [Handlers -> Stages]
        BY <1>1, <2>4, GotoTypes DEF DeleteFind, Stages, TxStages
      <3>2. rid' \in [Handlers -> Nat]
        BY <1>1, <2>4 DEF DeleteFind, TablesTypeOK, CallsTypeOK, Row
      <3> QED BY <1>1, <2>1, <2>2, <2>4, <3>1, <3>2 DEF DeleteFind, CallsTypeOK
    <2> QED BY <2>3, <2>4
  <1>2. ASSUME DeleteRow(h) PROVE TypeOK'
    <2>1. CallsTypeOK'
      <3>1. CASE Fail(h, "NotFound")
        BY <1>2, <3>1, <1>0, FailTypes DEF DeleteRow, CallsTypeOK
      <3>2. CASE ~Fail(h, "NotFound")
        BY <1>2, <3>2, CommitTypes DEF DeleteRow
      <3> QED BY <3>1, <3>2
    <2>2. cv' \in [Keys -> Row]
      <3>1. NoRow \in Row
        BY DEF NoRow, NULL, Row
      <3>2. cv' = [cv EXCEPT ![key[h]] = NoRow] \/ cv' = cv
        BY <1>2 DEF DeleteRow
      <3> QED BY <3>1, <3>2 DEF TablesTypeOK
    <2>3. /\ history' \subseteq history /\ audited' \subseteq audited
          /\ field' \subseteq field
      BY <1>2 DEF DeleteRow
    <2> QED BY <1>2, <2>1, <2>2, <2>3 DEF DeleteRow, TablesTypeOK
  <1> QED BY <1>1, <1>2

LEMMA GetTypes ==
    ASSUME TypeOK, NEW h \in Handlers
    PROVE  /\ \A k \in Keys, want \in Latest .. MaxVersion :
                 GetRow(h, k, want) => TypeOK'
           /\ GetFields(h) => TypeOK'
  <1> USE DEF TypeOK
  <1>1. ASSUME NEW k \in Keys, NEW want \in Latest .. MaxVersion, GetRow(h, k, want)
        PROVE  TypeOK'
    <2>1. TablesTypeOK'
      BY <1>1, SameTables DEF GetRow
    <2>2. key' \in [Handlers -> Keys]
      BY <1>1 DEF GetRow, CallsTypeOK
    <2>3. CASE Fail(h, "Template")
      <3>1. "Template" \in Answers
        BY DEF Answers
      <3> QED BY <1>1, <2>1, <2>2, <2>3, <3>1, FailTypes DEF GetRow
    <2>4. CASE ~Fail(h, "Template")
      <3>1. at' \in [Handlers -> Stages]
        BY <1>1, <2>4, GotoTypes DEF GetRow, Stages, TxStages
      <3>2. rid' \in [Handlers -> Nat]
        BY <1>1, <2>4, SMTT(30) DEF GetRow, TablesTypeOK, CallsTypeOK, Row
      <3>3. want \in Int /\ (want > 0 \/ want = Latest \/ want = Published)
        BY DEF Latest, Published
      <3>4. ver' \in [Handlers -> Int]
        BY <1>1, <2>4, <3>3 DEF GetRow, TablesTypeOK, CallsTypeOK, Row
      <3> QED BY <1>1, <2>1, <2>2, <2>4, <3>1, <3>2, <3>4 DEF GetRow, CallsTypeOK
    <2> QED BY <2>3, <2>4
  <1>2. ASSUME GetFields(h) PROVE TypeOK'
    <2>1. PICK paths \in {Paths} \cup {{p} : p \in Paths} :
             /\ only' = [only EXCEPT ![h] = paths]
             /\ \E got \in SUBSET FieldsOf(rid[h], ver[h]) : Reply(h, "Stored", got)
      BY <1>2 DEF GetFields
    <2>2. FieldsOf(rid[h], ver[h]) \subseteq Field
      BY DEF FieldsOf, Field, FieldRow, TablesTypeOK
    <2>3. PICK got \in SUBSET Field : Reply(h, "Stored", got)
      BY <2>1, <2>2
    <2>4. only' \in [Handlers -> SUBSET Paths]
      BY <2>1 DEF CallsTypeOK
    <2>5. "Stored" \in Answers /\ key' \in [Handlers -> Keys]
      BY <1>2 DEF GetFields, Answers, CallsTypeOK
    <2> QED BY <1>2, <2>3, <2>4, <2>5, ReplyTypes, SameTables DEF GetFields
  <1> QED BY <1>1, <1>2

LEMMA TypeStep == TypeOK /\ [Next]_vars => TypeOK'
  <1> SUFFICES ASSUME TypeOK, [Next]_vars PROVE TypeOK'
    OBVIOUS
  <1>1. ASSUME NEW h \in Handlers, StatementFails(h) PROVE TypeOK'
    <2>1. "Internal" \in Answers
      BY DEF Answers
    <2> QED BY <1>1, <2>1, SameTables, FailTypes DEF StatementFails, TypeOK, CallsTypeOK
  <1>2. ASSUME NEW h \in Handlers, Return(h) PROVE TypeOK'
    <2>1. at' \in [Handlers -> Stages]
      BY <1>2, GotoTypes DEF Return, TypeOK, Stages
    <2>2. /\ answer' \in [Handlers -> Answers]
          /\ buf' \in [Handlers -> SUBSET Field]
          /\ only' \in [Handlers -> SUBSET Paths]
      BY <1>2 DEF Return, TypeOK, CallsTypeOK, Answers
    <2> QED BY <1>2, <2>1, <2>2, SameTables DEF Return, TypeOK, CallsTypeOK
  <1>3. CASE UNCHANGED vars
    BY <1>3, SameTables DEF vars, tables, TypeOK, CallsTypeOK
  <1> QED
    BY <1>1, <1>2, <1>3, UpdateTypes, PublishTypes, DeleteTypes, GetTypes
    DEF Next, Step, UpdateConfig, PublishVersion, DeleteConfig, GetConfig

\* Every variable of the store keeps its type (ConfigStore!TypeOK).
THEOREM Typing == Spec => []TypeOK
  BY TypeInit, TypeStep, PTL DEF Spec
-----------------------------------------------------------------------------
(* What one step of a call can touch *)

\* A step writes the tables only where a transaction commits.
LEMMA TablesStep ==
    ASSUME NEW h \in Handlers, Step(h)
    PROVE  \/ UNCHANGED <<cv, history, audited, field, log>>
           \/ UpdateCommit(h) /\ UNCHANGED nextId
           \/ PublishCommit(h) /\ UNCHANGED nextId
           \/ DeleteRow(h) /\ UNCHANGED nextId
  <1> USE DEF tables
  <1>1. ASSUME UpdateConfig(h)
        PROVE  UNCHANGED <<cv, history, audited, field, log>> \/ UpdateCommit(h)
    BY <1>1 DEF UpdateConfig, UpdateSelect, UpdateLock, UpdateInsert, UpdateBump,
                UpdateHistory, UpdateField
  <1>2. ASSUME PublishVersion(h)
        PROVE  UNCHANGED <<cv, history, audited, field, log>> \/ PublishCommit(h)
    BY <1>2 DEF PublishVersion, PublishFind, PublishLock, PublishMark
  <1>3. ASSUME DeleteConfig(h)
        PROVE  UNCHANGED <<cv, history, audited, field, log>> \/ DeleteRow(h)
    BY <1>3 DEF DeleteConfig, DeleteFind
  <1>4. ASSUME GetConfig(h) \/ StatementFails(h) \/ Return(h)
        PROVE  UNCHANGED <<cv, history, audited, field, log>>
    BY <1>4 DEF GetConfig, GetRow, GetFields, StatementFails, Return
  <1>5. UpdateCommit(h) \/ PublishCommit(h) \/ DeleteRow(h) => UNCHANGED nextId
    BY DEF UpdateCommit, PublishCommit, DeleteRow
  <1> QED BY <1>1, <1>2, <1>3, <1>4, <1>5 DEF Step

\* The state of the other calls, and the locks they hold, are not touched.
Untouched(g) ==
    /\ at'[g] = at[g] /\ key'[g] = key[g] /\ rid'[g] = rid[g] /\ ver'[g] = ver[g]
    /\ \A k \in Keys : lock[k] = g => lock'[k] = g

LEMMA OthersUntouched ==
    ASSUME TypeOK, NEW h \in Handlers, Step(h), NEW g \in Handlers, g # h
    PROVE  Untouched(g)
  <1> USE DEF TypeOK, CallsTypeOK
  <1>1. ASSUME NEW c, NEW fields, Reply(h, c, fields), key'[g] = key[g]
        PROVE  Untouched(g)
    BY <1>1 DEF Reply, Untouched
  <1>2. ASSUME UpdateConfig(h) PROVE Untouched(g)
    <2>1. ASSUME NEW k \in Keys, UpdateSelect(h, k) PROVE Untouched(g)
      BY <2>1 DEF UpdateSelect, Goto, Untouched
    <2>2. ASSUME UpdateLock(h) PROVE Untouched(g)
      BY <2>2 DEF UpdateLock, Goto, Untouched, Free
    <2>3. ASSUME UpdateInsert(h) PROVE Untouched(g)
      BY <2>3, <1>1 DEF UpdateInsert, Goto, Untouched, Free, Fail
    <2>4. ASSUME UpdateBump(h) PROVE Untouched(g)
      BY <2>4 DEF UpdateBump, Goto, Untouched
    <2>5. ASSUME UpdateHistory(h) PROVE Untouched(g)
      BY <2>5, <1>1 DEF UpdateHistory, Goto, Untouched, Fail
    <2>6. ASSUME UpdateField(h) PROVE Untouched(g)
      BY <2>6, <1>1 DEF UpdateField, Untouched, Fail
    <2>7. ASSUME UpdateCommit(h) PROVE Untouched(g)
      BY <2>7, <1>1 DEF UpdateCommit
    <2> QED BY <1>2, <2>1, <2>2, <2>3, <2>4, <2>5, <2>6, <2>7 DEF UpdateConfig
  <1>3. ASSUME PublishVersion(h) PROVE Untouched(g)
    <2>1. ASSUME NEW k \in Keys, PublishFind(h, k) PROVE Untouched(g)
      BY <2>1, <1>1 DEF PublishFind, Goto, Untouched, Fail
    <2>2. ASSUME PublishLock(h) PROVE Untouched(g)
      BY <2>2, <1>1 DEF PublishLock, Goto, Untouched, Free, Fail
    <2>3. ASSUME PublishMark(h) PROVE Untouched(g)
      BY <2>3, <1>1 DEF PublishMark, Goto, Untouched, Fail
    <2>4. ASSUME PublishCommit(h) PROVE Untouched(g)
      BY <2>4, <1>1 DEF PublishCommit
    <2> QED BY <1>3, <2>1, <2>2, <2>3, <2>4 DEF PublishVersion
  <1>4. ASSUME DeleteConfig(h) PROVE Untouched(g)
    <2>1. ASSUME NEW k \in Keys, DeleteFind(h, k) PROVE Untouched(g)
      BY <2>1, <1>1 DEF DeleteFind, Goto, Untouched, Fail
    <2>2. ASSUME DeleteRow(h) PROVE Untouched(g)
      BY <2>2, <1>1 DEF DeleteRow, Fail
    <2> QED BY <1>4, <2>1, <2>2 DEF DeleteConfig
  <1>5. ASSUME GetConfig(h) PROVE Untouched(g)
    <2>1. ASSUME NEW k \in Keys, NEW want \in Latest .. MaxVersion, GetRow(h, k, want)
          PROVE  Untouched(g)
      BY <2>1, <1>1 DEF GetRow, Goto, Untouched, Fail
    <2>2. ASSUME GetFields(h) PROVE Untouched(g)
      BY <2>2, <1>1 DEF GetFields
    <2> QED BY <1>5, <2>1, <2>2 DEF GetConfig
  <1>6. ASSUME StatementFails(h) PROVE Untouched(g)
    BY <1>6, <1>1 DEF StatementFails, Fail
  <1>7. ASSUME Return(h) PROVE Untouched(g)
    BY <1>7 DEF Return, Goto, Untouched
  <1> QED BY <1>2, <1>3, <1>4, <1>5, <1>6, <1>7 DEF Step
\* What a call does to its own id, version and stage.
LEMMA OwnRid ==
    ASSUME TypeOK, NEW h \in Handlers, Step(h)
    PROVE  /\ nextId' \in {nextId, nextId + 1}
           /\ \/ rid'[h] \in {rid[h], 0}
              \/ \E k \in Keys : rid'[h] = cv[k].id
              \/ rid'[h] = nextId /\ nextId' = nextId + 1
  <1> USE DEF TypeOK, CallsTypeOK
  <1>1. ASSUME NEW c, NEW fields, Reply(h, c, fields) PROVE rid'[h] = 0
    BY <1>1 DEF Reply
  <1>2. CASE UpdateConfig(h)
    <2> USE DEF tables
    <2>1. CASE \E k \in Keys : UpdateSelect(h, k)
      BY <2>1 DEF UpdateSelect
    <2>2. CASE UpdateInsert(h)
      BY <2>2, <1>1 DEF UpdateInsert, Fail
    <2>3. CASE UpdateLock(h) \/ UpdateBump(h)
      BY <2>3 DEF UpdateLock, UpdateBump
    <2>4. CASE UpdateHistory(h) \/ UpdateField(h) \/ UpdateCommit(h)
      BY <2>4, <1>1 DEF UpdateHistory, UpdateField, UpdateCommit, Fail
    <2> QED BY <1>2, <2>1, <2>2, <2>3, <2>4 DEF UpdateConfig
  <1>3. CASE PublishVersion(h)
    BY <1>3, <1>1 DEF PublishVersion, PublishFind, PublishLock, PublishMark,
                      PublishCommit, Fail, tables
  <1>4. CASE DeleteConfig(h)
    BY <1>4, <1>1 DEF DeleteConfig, DeleteFind, DeleteRow, Fail, tables
  <1>5. CASE GetConfig(h)
    BY <1>5, <1>1 DEF GetConfig, GetRow, GetFields, Fail, tables
  <1>6. CASE StatementFails(h) \/ Return(h)
    BY <1>6, <1>1 DEF StatementFails, Return, Fail, tables
  <1> QED BY <1>2, <1>3, <1>4, <1>5, <1>6 DEF Step

\* Only these steps leave a call inside a transaction that has written.
LEMMA OwnStage ==
    ASSUME TypeOK, NEW h \in Handlers, Step(h), at'[h] \in Writing \cup Marking
    PROVE  UNCHANGED key /\
           (\/ UpdateLock(h) /\ StillThere(h)
            \/ UpdateInsert(h) /\ ~Exists(key[h]) /\ ~Fail(h, "Internal")
            \/ UpdateBump(h)
            \/ UpdateHistory(h) /\ ~Fail(h, "Internal")
            \/ UpdateField(h) /\ ~Fail(h, "Internal")
            \/ PublishLock(h) /\ StillThere(h)
            \/ PublishMark(h) /\ <<rid[h], ver[h]>> \in history)
  <1> USE DEF TypeOK, CallsTypeOK, Writing, Marking
  <1>1. ASSUME NEW c, NEW fields, Reply(h, c, fields) PROVE FALSE
    BY <1>1 DEF Reply
  <1>2. CASE UpdateConfig(h)
    <2>1. ~ \E k \in Keys : UpdateSelect(h, k)
      BY DEF UpdateSelect, Goto
    <2>2. ~UpdateCommit(h)
      BY <1>1 DEF UpdateCommit
    <2>3. ASSUME UpdateLock(h) PROVE StillThere(h) /\ UNCHANGED key
      BY <2>3 DEF UpdateLock, Goto
    <2>4. ~Fail(h, "Internal")
      BY <1>1 DEF Fail
    <2>5. ASSUME UpdateInsert(h) PROVE ~Exists(key[h]) /\ UNCHANGED key
      BY <2>4, <2>5 DEF UpdateInsert
    <2>6. ASSUME UpdateBump(h) \/ UpdateHistory(h) \/ UpdateField(h) PROVE UNCHANGED key
      BY <2>6 DEF UpdateBump, UpdateHistory, UpdateField
    <2> QED BY <1>2, <2>1, <2>2, <2>3, <2>4, <2>5, <2>6 DEF UpdateConfig
  <1>3. CASE PublishVersion(h)
    <2>1. ~ \E k \in Keys : PublishFind(h, k)
      BY <1>1 DEF PublishFind, Goto, Fail
    <2>2. ~PublishCommit(h)
      BY <1>1 DEF PublishCommit
    <2>3. ASSUME PublishLock(h) PROVE StillThere(h) /\ UNCHANGED key
      BY <2>3, <1>1 DEF PublishLock, Fail
    <2>4. ASSUME PublishMark(h) PROVE <<rid[h], ver[h]>> \in history /\ UNCHANGED key
      BY <2>4, <1>1 DEF PublishMark, Fail
    <2> QED BY <1>3, <2>1, <2>2, <2>3, <2>4 DEF PublishVersion
  <1>4. ~DeleteConfig(h)
    BY <1>1 DEF DeleteConfig, DeleteFind, DeleteRow, Goto, Fail
  <1>5. ~GetConfig(h)
    BY <1>1 DEF GetConfig, GetRow, GetFields, Goto, Fail
  <1>6. ~StatementFails(h) /\ ~Return(h)
    BY <1>1 DEF StatementFails, Return, Goto, Fail
  <1> QED BY <1>2, <1>3, <1>4, <1>5, <1>6 DEF Step

-----------------------------------------------------------------------------
(* Locks *)

LEMMA LockStep ==
    ASSUME TypeOK, LockInv, NEW h \in Handlers, Step(h)
    PROVE  LockInv'
  <1> SUFFICES ASSUME NEW g \in Handlers, at'[g] \in Writing \cup Marking
               PROVE  lock'[key'[g]] = g
    BY DEF LockInv
  <1> USE DEF TypeOK, CallsTypeOK
  <1>1. CASE g # h
    BY <1>1, OthersUntouched DEF Untouched, LockInv
  <1>2. CASE g = h
    <2>1. CASE UpdateLock(h) /\ StillThere(h)
      BY <1>2, <2>1 DEF UpdateLock
    <2>2. CASE UpdateInsert(h) /\ ~Exists(key[h]) /\ ~Fail(h, "Internal")
      BY <1>2, <2>2 DEF UpdateInsert
    <2>3. CASE UpdateBump(h)
      BY <1>2, <2>3 DEF UpdateBump
    <2>4. CASE (UpdateHistory(h) \/ UpdateField(h)) /\ ~Fail(h, "Internal")
      BY <1>2, <2>4 DEF UpdateHistory, UpdateField, LockInv, Writing
    <2>5. CASE PublishLock(h) /\ StillThere(h)
      BY <1>2, <2>5 DEF PublishLock
    <2>6. CASE PublishMark(h) /\ <<rid[h], ver[h]>> \in history
      BY <1>2, <2>6 DEF PublishMark, Goto, LockInv, Marking
    <2> QED BY <1>2, <2>1, <2>2, <2>3, <2>4, <2>5, <2>6, OwnStage
  <1> QED BY <1>1, <1>2

\* A call in the middle of a transaction keeps its row to itself.
LEMMA RowKept ==
    ASSUME TypeOK, LockInv, NEW h \in Handlers, Step(h),
           NEW g \in Handlers, g # h, at[g] \in Writing \cup Marking
    PROVE  cv'[key[g]] = cv[key[g]]
  <1> USE DEF TypeOK, CallsTypeOK, TablesTypeOK
  <1>1. lock[key[g]] = g
    BY DEF LockInv
  <1>2. CASE UpdateCommit(h) \/ PublishCommit(h)
    <2>1. lock[key[h]] = h
      BY <1>2 DEF UpdateCommit, PublishCommit, LockInv, Writing, Marking
    <2> QED BY <1>1, <1>2, <2>1 DEF UpdateCommit, PublishCommit
  <1>3. CASE DeleteRow(h)
    BY <1>1, <1>3 DEF DeleteRow, Free
  <1> QED BY <1>2, <1>3, TablesStep
-----------------------------------------------------------------------------
(* Row ids *)

\* The rows after a commit.
LEMMA CommittedRow ==
    ASSUME TypeOK, NEW h \in Handlers, UpdateCommit(h)
    PROVE  /\ at[h] \in Writing
           /\ \A k \in Keys \ {key[h]} : cv'[k] = cv[k]
           /\ cv'[key[h]].id = rid[h]
           /\ cv'[key[h]].latest = ver[h]
           /\ cv'[key[h]].published = cv[key[h]].published
  BY DEF UpdateCommit, TypeOK, CallsTypeOK, TablesTypeOK, Writing

LEMMA PublishedRow ==
    ASSUME TypeOK, NEW h \in Handlers, PublishCommit(h)
    PROVE  /\ at[h] = "publish.commit"
           /\ \A k \in Keys \ {key[h]} : cv'[k] = cv[k]
           /\ cv'[key[h]].id = cv[key[h]].id
           /\ cv'[key[h]].latest = cv[key[h]].latest
           /\ cv'[key[h]].published = ver[h]
  <1>1. cv' = [cv EXCEPT ![key[h]] = [cv[key[h]] EXCEPT !.published = ver[h]]]
    BY DEF PublishCommit
  <1>2. cv[key[h]] \in Row /\ cv \in [Keys -> Row] /\ key[h] \in Keys
    BY DEF TypeOK, CallsTypeOK, TablesTypeOK
  <1>3. at[h] = "publish.commit"
    BY DEF PublishCommit
  <1> QED BY <1>1, <1>2, <1>3 DEF Row

LEMMA DeletedRow ==
    ASSUME TypeOK, NEW h \in Handlers, DeleteRow(h)
    PROVE  \/ UNCHANGED <<cv, history, audited, field, log>>
           \/ /\ Exists(key[h])
              /\ Free(key[h])
              /\ cv[key[h]].id = rid[h]
              /\ \A k \in Keys \ {key[h]} : cv'[k] = cv[k]
              /\ cv'[key[h]] = NoRow
              /\ history' = {p \in history : p[1] # rid[h]}
              /\ audited' = {p \in audited : p[1] # rid[h]}
              /\ field'   = {r \in field : r.id # rid[h]}
              /\ log' = log
  BY DEF DeleteRow, StillThere, TypeOK, CallsTypeOK, TablesTypeOK

\* A committing writer's row id belongs to its identifier and to no other.
LEMMA WriterId ==
    ASSUME TypeOK, IdInv, WriterInv, NEW h \in Handlers, at[h] \in Writing
    PROVE  /\ rid[h] # 0
           /\ \A k \in Keys \ {key[h]} : cv[k].id # rid[h]
  BY DEF TypeOK, CallsTypeOK, TablesTypeOK, IdInv, WriterInv, Extends, Creates, Exists

LEMMA IdStep ==
    ASSUME TypeOK, LockInv, IdInv, WriterInv, NEW h \in Handlers, Step(h)
    PROVE  IdInv'
  <1> USE DEF TypeOK
  <1>0. nextId \in Nat /\ nextId' \in Nat /\ nextId' >= nextId
    BY OwnRid DEF TablesTypeOK
  <1>t. /\ \A k \in Keys : cv[k].id \in Nat
        /\ \A e \in log : e.id \in Nat
        /\ \A g \in Handlers : rid[g] \in Nat /\ key[g] \in Keys
    BY DEF TablesTypeOK, CallsTypeOK, Row
  <1>1. \A g \in Handlers : rid'[g] < nextId'
    <2> SUFFICES ASSUME NEW g \in Handlers PROVE rid'[g] < nextId'
      OBVIOUS
    <2>1. CASE g = h
      BY <2>1, <1>0, <1>t, OwnRid DEF IdInv, TablesTypeOK
    <2>2. CASE g # h
      BY <2>2, <1>0, <1>t, OthersUntouched DEF Untouched, IdInv
    <2> QED BY <2>1, <2>2
  <1>2. CASE UNCHANGED <<cv, history, audited, field, log>>
    BY <1>0, <1>1, <1>2, <1>t DEF IdInv, Exists
  <1>3. CASE UpdateCommit(h) /\ UNCHANGED nextId
    <2>1. \A k \in Keys : cv'[k].id = IF k = key[h] THEN rid[h] ELSE cv[k].id
      BY <1>3, CommittedRow
    <2>2. \A k \in Keys : cv'[k].id < nextId'
      BY <1>3, <2>1, <1>t DEF IdInv
    <2>3. at[h] \in Writing
      BY <1>3, CommittedRow
    <2>4. \A k, l \in Keys : Exists(k)' /\ cv'[k].id = cv'[l].id => k = l
      BY <2>1, <2>3, <1>t, WriterId DEF IdInv, Exists
    <2>5. \A e \in log' : e.id < nextId' /\ e.id # 0
      <3>1. log' = log \cup {[id |-> rid[h], version |-> ver[h], fields |-> buf[h]]}
        BY <1>3 DEF UpdateCommit
      <3> QED BY <1>3, <3>1, <2>3, <1>t, WriterId DEF IdInv
    <2> QED BY <1>1, <2>2, <2>4, <2>5 DEF IdInv
  <1>4. CASE PublishCommit(h) /\ UNCHANGED nextId
    <2>1. \A k \in Keys : cv'[k].id = cv[k].id
      BY <1>4, <1>t, PublishedRow
    <2>2. log' = log
      BY <1>4 DEF PublishCommit
    <2> QED BY <1>1, <1>4, <2>1, <2>2 DEF IdInv, Exists
  <1>5. CASE DeleteRow(h) /\ UNCHANGED nextId
    <2>1. CASE UNCHANGED <<cv, history, audited, field, log>>
      BY <2>1, <1>2
    <2>2. CASE ~UNCHANGED <<cv, history, audited, field, log>>
      <3>1. \A k \in Keys : cv'[k].id = IF k = key[h] THEN 0 ELSE cv[k].id
        BY <1>5, <2>2, DeletedRow DEF NoRow
      <3>2. log' = log
        BY <1>5, <2>2, DeletedRow
      <3>3. 0 < nextId
        BY DEF TablesTypeOK
      <3> QED BY <1>1, <1>5, <3>1, <3>2, <3>3, <1>t DEF IdInv, Exists
    <2> QED BY <2>1, <2>2
  <1> QED BY <1>2, <1>3, <1>4, <1>5, TablesStep

-----------------------------------------------------------------------------
(* Writers *)

\* A row id that is nowhere in the tables and in no other call stays so until
\* the call that drew it commits.
LEMMA CreatesKept ==
    ASSUME TypeOK, LockInv, IdInv, WriterInv, NEW h \in Handlers, Step(h),
           NEW g \in Handlers, g # h, at[g] \in Writing, Creates(g)
    PROVE  Creates(g)'
  <1> USE DEF TypeOK
  <1>t. /\ \A k \in Keys : cv[k].id \in Nat
        /\ \A f \in Handlers : rid[f] \in Nat /\ key[f] \in Keys
        /\ nextId \in Nat /\ rid[g] # 0 /\ rid[g] < nextId
    BY DEF TablesTypeOK, CallsTypeOK, Row, WriterInv, IdInv
  <1>1. /\ key'[g] = key[g] /\ rid'[g] = rid[g] /\ ver'[g] = ver[g]
        /\ cv'[key[g]] = cv[key[g]]
    BY OthersUntouched, RowKept DEF Untouched
  <1>2. \A f \in Handlers \ {g} : rid'[f] # rid[g]
    <2> SUFFICES ASSUME NEW f \in Handlers \ {g} PROVE rid'[f] # rid[g]
      OBVIOUS
    <2>1. CASE f = h
      BY <2>1, <1>t, OwnRid DEF Creates
    <2>2. CASE f # h
      BY <2>2, OthersUntouched DEF Untouched, Creates
    <2> QED BY <2>1, <2>2
  <1>3. /\ \A k \in Keys : cv'[k].id # rid[g]
        /\ \A e \in log' : e.id # rid[g]
    <2>1. CASE UNCHANGED <<cv, history, audited, field, log>>
      BY <2>1 DEF Creates
    <2>2. CASE UpdateCommit(h)
      <3>1. rid[h] # rid[g]
        BY DEF Creates
      <3>2. log' = log \cup {[id |-> rid[h], version |-> ver[h], fields |-> buf[h]]}
        BY <2>2 DEF UpdateCommit
      <3> QED BY <2>2, <3>1, <3>2, CommittedRow DEF Creates
    <2>3. CASE PublishCommit(h)
      <3>1. log' = log
        BY <2>3 DEF PublishCommit
      <3> QED BY <2>3, <3>1, PublishedRow, <1>t DEF Creates
    <2>4. CASE DeleteRow(h)
      BY <2>4, <1>t, DeletedRow DEF Creates, NoRow
    <2> QED BY <2>1, <2>2, <2>3, <2>4, TablesStep
  <1> QED BY <1>1, <1>2, <1>3 DEF Creates, Exists

LEMMA WriterStep ==
    ASSUME TypeOK, LockInv, IdInv, WriterInv, NEW h \in Handlers, Step(h)
    PROVE  WriterInv'
  <1> SUFFICES ASSUME NEW g \in Handlers
               PROVE  /\ at'[g] \in Writing => rid'[g] # 0 /\ (Extends(g)' \/ Creates(g)')
                      /\ at'[g] \in Marking => rid'[g] # 0 /\ cv'[key'[g]].id = rid'[g]
    BY DEF WriterInv
  <1> USE DEF TypeOK
  <1>t. /\ \A k \in Keys : cv[k].id \in Nat
        /\ \A f \in Handlers : rid[f] \in Nat /\ key[f] \in Keys
        /\ nextId \in Nat /\ nextId # 0
    BY DEF TablesTypeOK, CallsTypeOK, Row
  <1>1. CASE g # h
    <2>1. at'[g] = at[g] /\ key'[g] = key[g] /\ rid'[g] = rid[g] /\ ver'[g] = ver[g]
      BY <1>1, OthersUntouched DEF Untouched
    <2>2. CASE at[g] \in Marking
      BY <1>1, <2>1, <2>2, RowKept DEF WriterInv, Writing, Marking
    <2>3. CASE at[g] \in Writing
      <3>1. CASE Extends(g)
        BY <1>1, <2>1, <2>3, <3>1, RowKept DEF WriterInv, Extends, Writing, Marking
      <3>2. CASE Creates(g)
        BY <1>1, <2>1, <2>3, <3>2, CreatesKept DEF WriterInv, Writing, Marking
      <3> QED BY <2>3, <3>1, <3>2 DEF WriterInv
    <2> QED BY <2>1, <2>2, <2>3
  <1>2. CASE g = h /\ at'[h] \in Writing \cup Marking
    <2>0. UNCHANGED key
      BY <1>2, OwnStage
    <2>1. CASE UpdateLock(h) /\ StillThere(h)
      <3>1. /\ at'[h] = "update.bump" /\ rid' = rid /\ cv' = cv
            /\ ver'[h] = cv[key[h]].latest + 1
        BY <2>1 DEF UpdateLock, Goto, tables, CallsTypeOK
      <3>2. rid[h] # 0 /\ cv[key[h]].id = rid[h]
        BY <2>1 DEF StillThere, Exists
      <3> QED BY <1>2, <2>0, <3>1, <3>2 DEF Extends, Writing, Marking
    <2>2. CASE UpdateInsert(h) /\ ~Exists(key[h]) /\ ~Fail(h, "Internal")
      <3>1. /\ at'[h] = "update.history" /\ cv' = cv /\ log' = log
            /\ rid' = [rid EXCEPT ![h] = nextId] /\ ver'[h] = 1
        BY <2>2 DEF UpdateInsert, Goto, CallsTypeOK
      <3>2. rid'[h] = nextId /\ \A f \in Handlers \ {h} : rid'[f] # nextId
        BY <3>1, <1>t DEF CallsTypeOK, IdInv
      <3>3. /\ \A k \in Keys : cv'[k].id # nextId
            /\ \A e \in log' : e.id # nextId
        BY <3>1, <1>t DEF IdInv, TablesTypeOK
      <3> QED BY <1>2, <2>0, <2>2, <3>1, <3>2, <3>3, <1>t
              DEF Creates, Exists, Writing, Marking
    <2>3. CASE \/ UpdateBump(h)
               \/ UpdateHistory(h) /\ ~Fail(h, "Internal")
               \/ UpdateField(h) /\ ~Fail(h, "Internal")
      <3>1. /\ at[h] \in Writing /\ at'[h] \in Writing
            /\ UNCHANGED <<cv, log, rid, ver>>
        BY <2>3 DEF UpdateBump, UpdateHistory, UpdateField, Goto, tables, Writing, CallsTypeOK
      <3> QED BY <1>2, <2>0, <3>1 DEF WriterInv, Extends, Creates, Exists, Writing, Marking
    <2>4. CASE PublishLock(h) /\ StillThere(h)
      <3>1. at'[h] = "publish.mark" /\ rid' = rid /\ cv' = cv
        BY <2>4 DEF PublishLock, Goto, tables, CallsTypeOK
      <3> QED BY <1>2, <2>0, <2>4, <3>1 DEF StillThere, Exists, Writing, Marking
    <2>5. CASE PublishMark(h) /\ <<rid[h], ver[h]>> \in history
      <3>1. at[h] \in Marking /\ at'[h] = "publish.commit" /\ rid' = rid /\ cv' = cv
        BY <2>5 DEF PublishMark, Goto, tables, CallsTypeOK, Marking
      <3> QED BY <1>2, <2>0, <3>1 DEF WriterInv, Writing, Marking
    <2> QED BY <1>2, <2>1, <2>2, <2>3, <2>4, <2>5, OwnStage
  <1> QED BY <1>1, <1>2
-----------------------------------------------------------------------------
(* Tables *)

\* The parts of TableInv, one per commit.
LEMMA TableSame ==
    ASSUME TypeOK, IInv, NEW h \in Handlers, Step(h),
           UNCHANGED <<cv, history, audited, field, log>>
    PROVE  TableInv'
  <1> USE DEF IInv, TableInv
  <1>1. \A g \in Handlers : at'[g] = "publish.commit" => <<rid'[g], ver'[g]>> \in history
    <2> SUFFICES ASSUME NEW g \in Handlers, at'[g] = "publish.commit"
                 PROVE  <<rid'[g], ver'[g]>> \in history
      OBVIOUS
    <2>1. CASE g # h
      BY <2>1, OthersUntouched DEF Untouched
    <2>2. CASE g = h
      <3>1. at'[h] \in Writing \cup Marking
        BY <2>2 DEF Marking
      <3>2. PublishMark(h) /\ <<rid[h], ver[h]>> \in history
        BY <2>2, <3>1, OwnStage DEF UpdateLock, UpdateInsert, UpdateBump, UpdateHistory,
           UpdateField, PublishLock, Goto, TypeOK, CallsTypeOK
      <3>3. rid' = rid /\ ver' = ver
        BY <2>2, <3>2 DEF PublishMark, Reply, Fail, TypeOK, CallsTypeOK
      <3> QED BY <2>2, <3>2, <3>3
    <2> QED BY <2>1, <2>2
  <1> QED BY <1>1 DEF Exists, PublishedIsCommitted, NoOrphans, Live, CommittedOnce

LEMMA TableUpdate ==
    ASSUME IInv, NEW h \in Handlers, Step(h), UpdateCommit(h)
    PROVE  TableInv'
  <1> USE DEF IInv
  <1> DEFINE i == rid[h]
             v == ver[h]
             K == key[h]
  <1>t. /\ i \in Nat /\ v \in Int /\ K \in Keys
        /\ \A k \in Keys : cv[k] \in Row
        /\ history \subseteq Nat \X Int
    BY DEF TypeOK, TablesTypeOK, CallsTypeOK
  <1>1. /\ i # 0
        /\ \A k \in Keys \ {K} : cv[k].id # i
        /\ Extends(h) \/ Creates(h)
    BY CommittedRow, WriterId DEF WriterInv
  <1>2. /\ \A k \in Keys \ {K} : cv'[k] = cv[k]
        /\ cv'[K].id = i /\ cv'[K].latest = v
        /\ cv'[K].published = cv[K].published
    BY CommittedRow
  <1>3. history' = history \cup {<<i, v>>} /\ audited' = audited
    BY DEF UpdateCommit
  <1>4. log' = log \cup {[id |-> i, version |-> v, fields |-> buf[h]]}
    BY DEF UpdateCommit
  <1>5. \A j : Live(j)' <=> (Live(j) \/ j = i)
    <2>1. cv[K].id \in {0, i}
      BY <1>1 DEF Extends, Creates, Exists
    <2> QED BY <1>1, <1>2, <1>t, <2>1 DEF Live
  <1>6. \A w \in Int : <<i, w>> \in history <=> (Extends(h) /\ w \in 1 .. v - 1)
    <2>1. CASE Extends(h)
      BY <2>1, <1>1, <1>t, SMTT(30) DEF Extends, TableInv, Exists, Row
    <2>2. CASE Creates(h) /\ ~Extends(h)
      <3>1. \A k \in Keys : cv[k].id # i
        BY <2>2 DEF Creates
      <3> QED BY <2>2, <3>1 DEF TableInv, NoOrphans, Live
    <2> QED BY <2>1, <2>2, <1>1
  <1>7. /\ \A k \in Keys : Exists(k)' =>
              /\ cv'[k].latest >= 1
              /\ \A w \in 1 .. cv'[k].latest : <<cv'[k].id, w>> \in history'
        /\ \A k \in Keys : \A p \in history' :
              p[1] = cv'[k].id => p[2] \in 1 .. cv'[k].latest
    <2>1. v >= 1 /\ \A w \in 1 .. v : <<i, w>> \in history'
      <3>1. CASE Extends(h)
        <4>1. cv[K].latest >= 0
          BY <3>1, <1>1, <1>t DEF Extends, TableInv, Exists, Row
        <4> QED BY <3>1, <4>1, <1>3, <1>6, <1>t DEF Extends, Row
      <3>2. CASE Creates(h)
        BY <3>2, <1>3, <1>t DEF Creates
      <3> QED BY <3>1, <3>2, <1>1
    <2>2. \A p \in history' : p[1] = i => p[2] \in 1 .. v
      BY <2>1, <1>3, <1>6, <1>t
    <2>3. ASSUME NEW k \in Keys, k # K
          PROVE  /\ Exists(k)' =>
                      /\ cv'[k].latest >= 1
                      /\ \A w \in 1 .. cv'[k].latest : <<cv'[k].id, w>> \in history'
                 /\ \A p \in history' : p[1] = cv'[k].id => p[2] \in 1 .. cv'[k].latest
      BY <2>3, <1>1, <1>2, <1>3, <1>t DEF TableInv, Exists
    <2> QED BY <2>1, <2>2, <2>3, <1>2
  <1>8. \A k \in Keys : ~Exists(k)' => cv'[k] = NoRow
    BY <1>1, <1>2 DEF TableInv, Exists
  <1>9. PublishedIsCommitted'
    <2> SUFFICES ASSUME NEW k \in Keys, cv'[k].published # NULL
                 PROVE  <<cv'[k].id, cv'[k].published>> \in history' \cap audited'
      BY DEF PublishedIsCommitted
    <2>1. CASE k # K
      BY <2>1, <1>2, <1>3 DEF TableInv, PublishedIsCommitted
    <2>2. CASE k = K
      <3>1. cv[K].published # NULL
        BY <2>2, <1>2
      <3>2. Extends(h)
        BY <3>1, <1>1, <1>t DEF Creates, TableInv, NoRow
      <3> QED BY <2>2, <3>1, <3>2, <1>2, <1>3 DEF Extends, TableInv, PublishedIsCommitted
    <2> QED BY <2>1, <2>2
  <1>10. NoOrphans'
    <2>1. \A k, l \in Keys : Exists(k)' /\ cv'[k].id = cv'[l].id => k = l
      BY IdStep DEF IdInv
    <2>2. audited' \subseteq history'
      BY <1>3 DEF TableInv, NoOrphans
    <2>3. \A q \in history' : Live(q[1])'
      BY <1>3, <1>5 DEF TableInv, NoOrphans
    <2>4. field' = field \cup {[id |-> i, version |-> v, path |-> f.path,
                                value |-> f.value] : f \in buf[h]}
      BY DEF UpdateCommit
    <2>5. \A r \in field' : r \in field \/ (r.id = i /\ r.version = v)
      BY <2>4
    <2>6. \A r \in field' : <<r.id, r.version>> \in history'
      BY <1>3, <2>5 DEF TableInv, NoOrphans
    <2> QED BY <2>1, <2>2, <2>3, <2>6 DEF NoOrphans
  <1>11. \A g \in Handlers : at'[g] = "publish.commit" => <<rid'[g], ver'[g]>> \in history'
    <2>1. at'[h] # "publish.commit"
      BY DEF UpdateCommit, Reply, TypeOK, CallsTypeOK
    <2> QED BY <2>1, <1>3, OthersUntouched DEF Untouched, TableInv
  <1>12. \A e \in log' : Live(e.id)' => <<e.id, e.version>> \in history'
    <2> SUFFICES ASSUME NEW e \in log, Live(e.id)'
                 PROVE  <<e.id, e.version>> \in history'
      BY <1>3, <1>4
    <2>1. Live(e.id)
      BY <1>1, <1>5, <1>t DEF Live, Extends, Creates
    <2> QED BY <2>1, <1>3 DEF TableInv
  <1>13. CommittedOnce'
    <2>1. ASSUME NEW e \in log PROVE ~(e.id = i /\ e.version = v)
      <3>1. SUFFICES ASSUME e.id = i, e.version = v PROVE FALSE
        OBVIOUS
      <3>2. Extends(h)
        BY <3>1, <1>1 DEF Creates
      <3>3. Live(i)
        BY <3>2, <1>1, <1>t DEF Live, Extends
      <3>4. <<i, v>> \in history
        BY <3>1, <3>3 DEF TableInv
      <3> QED BY <3>4, <1>6, <1>t
    <2> QED BY <2>1, <1>4 DEF TableInv, CommittedOnce
  <1> QED BY <1>7, <1>8, <1>9, <1>10, <1>11, <1>12, <1>13 DEF TableInv

LEMMA TablePublish ==
    ASSUME IInv, NEW h \in Handlers, Step(h), PublishCommit(h)
    PROVE  TableInv'
  <1> USE DEF IInv
  <1>1. /\ at[h] = "publish.commit"
        /\ \A k \in Keys \ {key[h]} : cv'[k] = cv[k]
        /\ \A k \in Keys : cv'[k].id = cv[k].id /\ cv'[k].latest = cv[k].latest
        /\ cv'[key[h]].published = ver[h]
    BY PublishedRow
  <1>2. /\ rid[h] # 0 /\ cv[key[h]].id = rid[h] /\ key[h] \in Keys
        /\ <<rid[h], ver[h]>> \in history
    BY <1>1 DEF WriterInv, Marking, TableInv, TypeOK, CallsTypeOK
  <1>3. /\ UNCHANGED <<history, field, log>>
        /\ audited' = audited \cup {<<rid[h], ver[h]>>}
    BY DEF PublishCommit
  <1>4. \A k \in Keys : ~Exists(k)' => cv'[k] = NoRow
    BY <1>1, <1>2 DEF TableInv, Exists
  <1>5. PublishedIsCommitted'
    BY <1>1, <1>2, <1>3 DEF TableInv, PublishedIsCommitted
  <1>6. NoOrphans'
    BY <1>1, <1>2, <1>3 DEF TableInv, NoOrphans, Live, Exists
  <1>7. \A g \in Handlers : at'[g] = "publish.commit" => <<rid'[g], ver'[g]>> \in history'
    <2>1. at'[h] # "publish.commit"
      BY DEF PublishCommit, Reply, TypeOK, CallsTypeOK
    <2> QED BY <2>1, <1>3, OthersUntouched DEF Untouched, TableInv
  <1>8. \A e \in log' : Live(e.id)' => <<e.id, e.version>> \in history'
    BY <1>1, <1>3 DEF TableInv, Live
  <1> QED BY <1>1, <1>3, <1>4, <1>5, <1>6, <1>7, <1>8 DEF TableInv, Exists, CommittedOnce

LEMMA TableDelete ==
    ASSUME IInv, NEW h \in Handlers, Step(h), DeleteRow(h)
    PROVE  TableInv'
  <1> USE DEF IInv
  <1> SUFFICES ASSUME ~UNCHANGED <<cv, history, audited, field, log>> PROVE TableInv'
    BY TableSame
  <1>1. /\ Exists(key[h]) /\ Free(key[h]) /\ cv[key[h]].id = rid[h]
        /\ \A k \in Keys \ {key[h]} : cv'[k] = cv[k]
        /\ cv'[key[h]] = NoRow
        /\ history' = {p \in history : p[1] # rid[h]}
        /\ audited' = {p \in audited : p[1] # rid[h]}
        /\ field'   = {r \in field : r.id # rid[h]}
        /\ log' = log
    BY DeletedRow
  <1>2. key[h] \in Keys /\ rid[h] # 0 /\ \A k \in Keys \ {key[h]} : cv[k].id # rid[h]
    BY <1>1 DEF TypeOK, CallsTypeOK, IdInv, Exists
  <1>3. \A j : Live(j)' <=> (Live(j) /\ j # rid[h])
    BY <1>1, <1>2 DEF Live, NoRow
  <1>4. /\ \A k \in Keys : Exists(k)' =>
              /\ cv'[k].latest >= 1
              /\ \A w \in 1 .. cv'[k].latest : <<cv'[k].id, w>> \in history'
        /\ \A k \in Keys : \A p \in history' :
              p[1] = cv'[k].id => p[2] \in 1 .. cv'[k].latest
    <2>1. \A p \in history : p[1] # 0
      BY DEF TableInv, NoOrphans, Live
    <2> QED BY <1>1, <1>2, <2>1 DEF TableInv, Exists, NoRow
  <1>5. \A k \in Keys : ~Exists(k)' => cv'[k] = NoRow
    BY <1>1 DEF TableInv, Exists
  <1>6. PublishedIsCommitted'
    BY <1>1, <1>2 DEF TableInv, PublishedIsCommitted, NoRow
  <1>7. NoOrphans'
    <2>1. \A k, l \in Keys : Exists(k)' /\ cv'[k].id = cv'[l].id => k = l
      BY IdStep DEF IdInv
    <2>2. audited' \subseteq history'
      BY <1>1 DEF TableInv, NoOrphans
    <2>3. \A q \in history' : Live(q[1])'
      BY <1>1, <1>3 DEF TableInv, NoOrphans
    <2>4. \A r \in field' : <<r.id, r.version>> \in history'
      BY <1>1 DEF TableInv, NoOrphans
    <2> QED BY <2>1, <2>2, <2>3, <2>4 DEF NoOrphans
  <1>8. \A g \in Handlers : at'[g] = "publish.commit" => <<rid'[g], ver'[g]>> \in history'
    <2> SUFFICES ASSUME NEW g \in Handlers, at'[g] = "publish.commit"
                 PROVE  <<rid'[g], ver'[g]>> \in history'
      OBVIOUS
    <2>1. g # h
      BY DEF DeleteRow, Reply, Fail, TypeOK, CallsTypeOK
    <2>2. at[g] = "publish.commit" /\ rid'[g] = rid[g] /\ ver'[g] = ver[g]
      BY <2>1, OthersUntouched DEF Untouched
    <2>3. lock[key[g]] = g /\ cv[key[g]].id = rid[g] /\ key[g] \in Keys
      BY <2>2 DEF LockInv, WriterInv, Marking, TypeOK, CallsTypeOK
    <2>4. key[g] # key[h]
      BY <1>1, <2>3 DEF Free
    <2> QED BY <1>1, <1>2, <2>2, <2>3, <2>4 DEF TableInv
  <1>9. \A e \in log' : Live(e.id)' => <<e.id, e.version>> \in history'
    BY <1>1, <1>3 DEF TableInv
  <1>10. CommittedOnce'
    BY <1>1 DEF TableInv, CommittedOnce
  <1> QED BY <1>4, <1>5, <1>6, <1>7, <1>8, <1>9, <1>10 DEF TableInv
-----------------------------------------------------------------------------
(* The invariant, and what follows from it *)

LEMMA InvInit == Init => IInv
  <1> SUFFICES ASSUME Init PROVE IInv
    OBVIOUS
  <1>1. TypeOK
    BY TypeInit
  <1>2. LockInv
    BY DEF Init, LockInv, Writing, Marking
  <1>3. IdInv
    BY DEF Init, IdInv, NoRow, Exists
  <1>4. WriterInv
    BY DEF Init, WriterInv, Writing, Marking
  <1>5. TableInv
    BY DEF Init, TableInv, NoRow, Exists, PublishedIsCommitted, NoOrphans, CommittedOnce
  <1> QED BY <1>1, <1>2, <1>3, <1>4, <1>5 DEF IInv

LEMMA InvStep == IInv /\ [Next]_vars => IInv'
  <1> SUFFICES ASSUME IInv, [Next]_vars PROVE IInv'
    OBVIOUS
  <1>1. TypeOK'
    BY TypeStep DEF IInv
  <1>2. ASSUME NEW h \in Handlers, Step(h) PROVE IInv'
    <2>1. LockInv' /\ IdInv' /\ WriterInv'
      BY <1>2, LockStep, IdStep, WriterStep DEF IInv
    <2>2. TableInv'
      BY <1>2, TablesStep, TableSame, TableUpdate, TablePublish, TableDelete DEF IInv
    <2> QED BY <1>1, <2>1, <2>2 DEF IInv
  <1>3. CASE UNCHANGED vars
    <2> USE <1>3 DEF vars
    <2>1. LockInv' /\ IdInv'
      BY DEF IInv, LockInv, IdInv, Exists
    <2>2. WriterInv'
      BY DEF IInv, WriterInv, Extends, Creates, Exists
    <2>3. TableInv'
      BY DEF IInv, TableInv, Exists, PublishedIsCommitted, NoOrphans, Live, CommittedOnce
    <2> QED BY <1>1, <2>1, <2>2, <2>3 DEF IInv
  <1> QED BY <1>2, <1>3 DEF Next

\* The invariant holds in every reachable state (ConfigStore!IInv).
THEOREM Invariance == Spec => []IInv
  BY InvInit, InvStep, PTL DEF Spec

LEMMA GaplessFromInv == IInv => VersionsGapless
  <1> SUFFICES ASSUME IInv, NEW k \in Keys, Exists(k)
               PROVE  HistoryOf(cv[k].id) = 1 .. cv[k].latest
    BY DEF VersionsGapless
  <1>1. ASSUME NEW v \in HistoryOf(cv[k].id) PROVE v \in 1 .. cv[k].latest
    <2>1. PICK p \in history : p[1] = cv[k].id /\ p[2] = v
      BY <1>1 DEF HistoryOf
    <2> QED BY <2>1 DEF IInv, TableInv
  <1>2. ASSUME NEW v \in 1 .. cv[k].latest PROVE v \in HistoryOf(cv[k].id)
    <2>1. <<cv[k].id, v>> \in history
      BY <1>2 DEF IInv, TableInv
    <2>2. <<cv[k].id, v>>[1] = cv[k].id /\ <<cv[k].id, v>>[2] = v
      OBVIOUS
    <2> QED BY <2>1, <2>2 DEF HistoryOf
  <1> QED BY <1>1, <1>2

\* However updates, publications, deletions and failures interleave, the
\* history of a configuration is exactly the versions 1 .. latest_version
\* (UpdateConfig's row lock and unique keys).
THEOREM Gapless == Spec => []VersionsGapless
  BY Invariance, GaplessFromInv, PTL

\* The published version of a configuration is always one of its committed
\* and audited versions (PublishVersion's rollback on a missing version).
THEOREM PublishedCommitted == Spec => []PublishedIsCommitted
  <1>1. IInv => PublishedIsCommitted
    BY DEF IInv, TableInv
  <1> QED BY <1>1, Invariance, PTL

\* No history or field row outlives its configuration, no two identifiers
\* share a row (ON DELETE CASCADE, ids from a sequence).
THEOREM Orphanless == Spec => []NoOrphans
  <1>1. IInv => NoOrphans
    BY DEF IInv, TableInv
  <1> QED BY <1>1, Invariance, PTL

\* A (row id, version) pair is committed at most once, so what it names never
\* changes, deletion and re-creation included.
THEOREM Once == Spec => []CommittedOnce
  <1>1. IInv => CommittedOnce
    BY DEF IInv, TableInv
  <1> QED BY <1>1, Invariance, PTL

\* An update that holds its row never collides in config_version_history.
THEOREM Fresh == Spec => []VersionIsFresh
  <1>1. IInv => VersionIsFresh
    <2> SUFFICES ASSUME IInv, NEW h \in Handlers, at[h] = "update.history",
                        <<rid[h], ver[h]>> \in history
                 PROVE  FALSE
      BY DEF VersionIsFresh
    <2> USE DEF IInv, TypeOK, CallsTypeOK, TablesTypeOK
    <2>1. rid[h] # 0 /\ key[h] \in Keys /\ (Extends(h) \/ Creates(h))
      BY DEF WriterInv, Writing
    <2>2. CASE Extends(h)
      <3>1. cv[key[h]].latest \in Int
        BY <2>1 DEF Row
      <3>2. ver[h] \in 1 .. cv[key[h]].latest
        BY <2>1, <2>2 DEF Extends, TableInv
      <3> QED BY <2>2, <3>1, <3>2 DEF Extends
    <2>3. CASE Creates(h)
      BY <2>1, <2>3 DEF Creates, TableInv, NoOrphans, Live
    <2> QED BY <2>1, <2>2, <2>3
  <1> QED BY <1>1, Invariance, PTL
=============================================================================
