------------------------- MODULE SqliteStoreProofs -------------------------
(***************************************************************************)
(* Proofs about SqliteStore for any number of identifiers, concurrent      *)
(* calls, versions and fields, and whichever faults occur. The inductive   *)
(* invariant says of a transaction that has not written yet that its       *)
(* snapshot is the database unless it is marked stale, and of the one that *)
(* writes what it will commit. The refinement of VersionedConfig follows.  *)
(***************************************************************************)
EXTENDS SqliteStore, SequenceTheorems, TLAPS

USE RequestsAssumption, HandlersAssumption, FaultsAssumption, BoundsAssumption

-----------------------------------------------------------------------------
(* The invariant *)

\* A snapshot that is not stale is what is committed.
SnapshotIsCurrent ==
    \A h \in Handlers : at[h] = "update.row" /\ ~stale[h] => mine[h] = db[key[h]]

\* What is about to be committed is one more version, or an existing one's
\* publication.
CommitsAreSteps ==
    \A h \in Handlers :
        /\ at[h] = "update.commit" =>
              \E c \in Abstract!Contents :
                  mine[h].versions = Append(db[key[h]].versions, c)
        /\ at[h] = "publish.commit" => ver[h] \in DOMAIN mine[h].versions

IInv == TypeOK /\ WriterIsCurrent /\ TablesAgree /\ SnapshotIsCurrent /\ CommitsAreSteps

-----------------------------------------------------------------------------
(* Types *)

Answers == {"none", "OK", "Internal", "NotFound", "Template", "Stored", "Nothing"}

LEMMA NoRowType == NoRow \in Rows
  <1>1. <<>> \in Seq(Contents)
    OBVIOUS
  <1> QED BY <1>1 DEF NoRow, Rows

\* Between two calls that write, the lock has no other holder.
LEMMA OneWriter ==
    ASSUME TypeOK, NEW h \in Handlers, at[h] \in Writing
    PROVE  writer = h /\ \A g \in Handlers \ {h} : at[g] \notin Writing
  BY DEF TypeOK

LEMMA FreeMeansNone ==
    ASSUME TypeOK, Free
    PROVE  \A g \in Handlers : at[g] \notin Writing
  BY DEF TypeOK, Free

\* The end of a transaction leaves a lock that agrees with the stages.
LEMMA EndLock ==
    ASSUME TypeOK, NEW h \in Handlers, NEW a, EndTransaction(h, a), writer' = Release(h)
    PROVE  /\ writer' \in Handlers \cup {Nobody}
           /\ \A g \in Handlers : writer' = g <=> at'[g] \in Writing
           /\ \A g \in Handlers : at'[g] \in Writing => at[g] \in Writing /\ g # h
  BY DEF TypeOK, EndTransaction, Release, Writing

LEMMA EndTypes ==
    ASSUME TypeOK, NEW h \in Handlers, NEW a \in Answers, EndTransaction(h, a)
    PROVE  /\ at' \in [Handlers -> Stages]
           /\ mine' \in [Handlers -> Rows]
           /\ ver' \in [Handlers -> Nat]
           /\ answer' \in [Handlers -> Answers]
  BY NoRowType DEF TypeOK, EndTransaction, Stages, Answers

-----------------------------------------------------------------------------
(* A failure changes nothing that is committed. *)

LEMMA FailStep ==
    ASSUME IInv, NEW h \in Handlers, NEW a \in Answers, Fail(h, a)
    PROVE  IInv'
  <1> USE DEF IInv
  <1>1. TypeOK'
    <2>1. stale' \in [Handlers -> BOOLEAN]
      BY DEF TypeOK, Fail
    <2> QED BY <2>1, EndLock, EndTypes DEF TypeOK, Fail, Answers
  <1>2. ASSUME NEW g \in Handlers, g # h
        PROVE  /\ at'[g] = at[g] /\ mine'[g] = mine[g] /\ ver'[g] = ver[g]
               /\ stale'[g] = stale[g]
    BY <1>2 DEF Fail, EndTransaction, TypeOK
  <1>3. at'[h] = "reply" /\ writer' # h
    BY DEF Fail, EndTransaction, TypeOK, Release
  <1>4. \A g \in Handlers : writer' = g => writer = g
    BY <1>3, HandlersAssumption DEF Fail, Release
  <1>5. db' = db /\ ids' = ids /\ key' = key
    BY DEF Fail
  <1>6. WriterIsCurrent'
    BY <1>2, <1>3, <1>4, <1>5 DEF WriterIsCurrent, Exists
  <1>7. TablesAgree'
    BY <1>5 DEF TablesAgree, Exists
  <1>8. SnapshotIsCurrent'
    BY <1>2, <1>3, <1>5 DEF SnapshotIsCurrent
  <1>9. CommitsAreSteps'
    BY <1>2, <1>3, <1>5 DEF CommitsAreSteps
  <1> QED BY <1>1, <1>6, <1>7, <1>8, <1>9

-----------------------------------------------------------------------------
(* A commit, by the holder of the lock or by a statement of its own *)

LEMMA CommitStep ==
    ASSUME IInv, NEW h \in Handlers, NEW rows \in Rows, Commit(h, rows),
           writer = h \/ Free,
           rows.latest = Len(rows.versions),
           rows.published \in {0} \cup DOMAIN rows.versions,
           rows.id = 0 => rows = NoRow,
           rows.id \in {0, ids + 1, db[key[h]].id}
    PROVE  IInv'
  <1> USE DEF IInv
  <1> DEFINE k == key[h]
  <1>0. k \in Keys /\ ids \in Nat /\ rows.id \in Nat
    BY DEF TypeOK, Rows
  <1>1. db' = [db EXCEPT ![k] = rows] /\ key' = key /\ at'[h] = "reply"
    BY DEF Commit, EndTransaction, TypeOK
  <1>2. \A g \in Handlers : at'[g] \notin Writing
    BY EndLock, HandlersAssumption DEF Commit, TypeOK, Free, Release
  <1>3. ids' \in Nat /\ ids' >= ids /\ ids' >= rows.id
    BY <1>0 DEF Commit
  <1>4. TypeOK'
    <2>1. db' \in [Keys -> Rows] /\ stale' \in [Handlers -> BOOLEAN]
      BY <1>0, <1>1 DEF TypeOK, Commit
    <2>2. "OK" \in Answers
      BY DEF Answers
    <2> QED BY <1>1, <1>3, <2>1, <2>2, EndLock, EndTypes DEF TypeOK, Commit, Answers
  <1>5. WriterIsCurrent'
    BY <1>2, <1>4 DEF WriterIsCurrent, TypeOK
  <1>6. TablesAgree'
    <2>1. ASSUME NEW l \in Keys, l # k PROVE db'[l] = db[l] /\ db[l].id \in Nat
      BY <1>0, <1>1, <2>1 DEF TypeOK, Rows
    <2>2. db'[k] = rows
      BY <1>0, <1>1 DEF TypeOK
    <2>3. ASSUME NEW l \in Keys
          PROVE  /\ db'[l].latest = Len(db'[l].versions)
                 /\ db'[l].published \in {0} \cup DOMAIN db'[l].versions
                 /\ db'[l].id <= ids'
                 /\ ~(db'[l].id # 0) => db'[l] = NoRow
      <3>1. CASE l = k
        BY <1>0, <1>3, <2>2, <3>1
      <3>2. CASE l # k
        <4>1. db[l].id <= ids
          BY DEF TablesAgree
        <4>2. db[l].id <= ids'
          BY <1>0, <1>3, <2>1, <3>2, <4>1
        <4> QED BY <2>1, <3>2, <4>2 DEF TablesAgree, Exists
      <3> QED BY <3>1, <3>2
    <2>4. ASSUME NEW l \in Keys, NEW n \in Keys, l # n, db'[l].id = db'[n].id, db'[l].id # 0
          PROVE  FALSE
      <3>1. \A q \in Keys : db[q].id <= ids /\ db[q].id \in Nat
        BY DEF TablesAgree, TypeOK, Rows
      <3>2. CASE l # k /\ n # k
        BY <2>1, <2>4, <3>2 DEF TablesAgree, Exists
      <3>3. CASE l = k /\ n # k
        <4>1. db[n].id = rows.id /\ rows.id # 0
          BY <2>1, <2>2, <2>4, <3>3
        <4>2. rows.id # ids + 1
          BY <1>0, <3>1, <4>1
        <4> QED BY <1>0, <3>3, <4>1, <4>2 DEF TablesAgree, Exists
      <3>4. CASE l # k /\ n = k
        <4>1. db[l].id = rows.id /\ rows.id # 0
          BY <2>1, <2>2, <2>4, <3>4
        <4>2. rows.id # ids + 1
          BY <1>0, <3>1, <4>1
        <4> QED BY <1>0, <3>4, <4>1, <4>2 DEF TablesAgree, Exists
      <3> QED BY <2>4, <3>2, <3>3, <3>4
    <2> QED BY <2>3, <2>4 DEF TablesAgree, Exists
  <1>7. SnapshotIsCurrent'
    <2> SUFFICES ASSUME NEW g \in Handlers, at'[g] = "update.row" PROVE stale'[g]
      BY DEF SnapshotIsCurrent
    <2>1. g # h /\ at[g] = "update.row"
      BY <1>1 DEF Commit, EndTransaction, TypeOK
    <2> QED BY <2>1 DEF Commit
  <1>8. CommitsAreSteps'
    BY <1>2 DEF CommitsAreSteps, Writing
  <1> QED BY <1>4, <1>5, <1>6, <1>7, <1>8

-----------------------------------------------------------------------------
(* UpdateConfig *)

LEMMA UpdateBeginStep ==
    ASSUME IInv, NEW h \in Handlers, NEW k \in Keys, UpdateBegin(h, k)
    PROVE  IInv'
  <1> USE DEF IInv, UpdateBegin
  <1>1. TypeOK'
    BY DEF TypeOK, Stages, Writing
  <1>2. at'[h] = "update.row" /\ key'[h] = k /\ mine'[h] = db[k]
    BY DEF TypeOK
  <1>3. \A g \in Handlers \ {h} :
            at'[g] = at[g] /\ key'[g] = key[g] /\ mine'[g] = mine[g]
    BY DEF TypeOK
  <1>4. writer # h
    BY DEF TypeOK, Writing
  <1>5. WriterIsCurrent'
    BY <1>3, <1>4 DEF WriterIsCurrent, Exists
  <1>6. TablesAgree'
    BY DEF TablesAgree, Exists
  <1>7. SnapshotIsCurrent'
    BY <1>2, <1>3 DEF SnapshotIsCurrent
  <1>8. CommitsAreSteps'
    BY <1>2, <1>3 DEF CommitsAreSteps
  <1> QED BY <1>1, <1>5, <1>6, <1>7, <1>8

LEMMA NumberedRow ==
    ASSUME NEW rows \in Rows, ids \in Nat
    PROVE  /\ Numbered(rows) \in Rows
           /\ Numbered(rows).id = IF rows.id = 0 THEN ids + 1 ELSE rows.id
           /\ Numbered(rows).latest = rows.latest + 1
           /\ Numbered(rows).published = rows.published
           /\ Numbered(rows).versions = rows.versions
  <1> DEFINE n == IF rows.id = 0 THEN ids + 1 ELSE rows.id
  <1>1. n \in Nat /\ rows.latest + 1 \in Nat
    BY DEF Rows
  <1> HIDE DEF n
  <1>2. Numbered(rows) = [rows EXCEPT !.id = n, !.latest = rows.latest + 1]
    BY DEF Numbered, n
  <1>3. Numbered(rows) = [id |-> n, latest |-> rows.latest + 1,
                          published |-> rows.published, versions |-> rows.versions]
    BY <1>2 DEF Rows
  <1> QED BY <1>1, <1>3 DEF Rows, n

LEMMA UpdateRowStep ==
    ASSUME IInv, NEW h \in Handlers, UpdateRow(h)
    PROVE  IInv'
  <1> USE DEF IInv
  <1>1. CASE ~CanWrite(h)
    BY <1>1, FailStep DEF UpdateRow, Answers
  <1>2. CASE CanWrite(h)
    <2> DEFINE old == db[key[h]]
               new == Numbered(mine[h])
    <2>1. /\ writer' = h /\ at' = [at EXCEPT ![h] = "update.contents"]
          /\ mine' = [mine EXCEPT ![h] = new]
          /\ UNCHANGED <<db, ids, key, stale, ver, answer>>
      BY <1>2 DEF UpdateRow
    <2>2. mine[h] = old /\ key[h] \in Keys /\ old \in Rows /\ ids \in Nat
      BY <1>2 DEF UpdateRow, CanWrite, SnapshotIsCurrent, TypeOK
    <2>3. /\ new.id = (IF old.id = 0 THEN ids + 1 ELSE old.id)
          /\ new.latest = old.latest + 1
          /\ new.published = old.published /\ new.versions = old.versions
          /\ new \in Rows
      BY <2>2, NumberedRow
    <2>4. at'[h] = "update.contents" /\ mine'[h] = new
      BY <2>1 DEF TypeOK
    <2>5. \A g \in Handlers \ {h} :
              at'[g] = at[g] /\ mine'[g] = mine[g] /\ at[g] \notin Writing
      BY <1>2, <2>1, FreeMeansNone DEF TypeOK, CanWrite
    <2>6. TypeOK'
      <3>1. mine' \in [Handlers -> Rows]
        BY <2>1, <2>3 DEF TypeOK
      <3>2. at' \in [Handlers -> Stages]
        BY <2>1 DEF TypeOK, Stages, Writing
      <3>3. \A g \in Handlers : writer' = g <=> at'[g] \in Writing
        BY <2>1, <2>4, <2>5 DEF Writing
      <3> QED BY <2>1, <3>1, <3>2, <3>3 DEF TypeOK
    <2>7. WriterIsCurrent'
      BY <2>1, <2>3, <2>4 DEF WriterIsCurrent, Exists
    <2>8. TablesAgree'
      BY <2>1 DEF TablesAgree, Exists
    <2>9. SnapshotIsCurrent'
      BY <2>1, <2>4, <2>5 DEF SnapshotIsCurrent
    <2>10. CommitsAreSteps'
      BY <2>1, <2>4, <2>5 DEF CommitsAreSteps
    <2> QED BY <2>6, <2>7, <2>8, <2>9, <2>10
  <1> QED BY <1>1, <1>2

\* Fields without a path twice are the contents of a version.
LEMMA UniqueContents ==
    ASSUME NEW request \in Requests, Unique(request)
    PROVE  FieldsOf(request) \in Abstract!Contents /\ FieldsOf(request) \in Contents
  <1>1. request \in Seq(Field)
    OBVIOUS
  <1>2. FieldsOf(request) \in SUBSET Field
    BY <1>1 DEF FieldsOf
  <1>3. \A f, g \in FieldsOf(request) : f.path = g.path => f = g
    BY DEF FieldsOf, Unique
  <1> QED BY <1>2, <1>3 DEF Abstract!Contents, Contents, Field

LEMMA UpdateContentsStep ==
    ASSUME IInv, NEW h \in Handlers, UpdateContents(h)
    PROVE  IInv'
  <1> USE DEF IInv
  <1>1. PICK request \in Requests :
            IF Unique(request)
            THEN /\ at'   = [at EXCEPT ![h] = "update.commit"]
                 /\ mine' = [mine EXCEPT ![h].versions = Append(@, FieldsOf(request))]
                 /\ UNCHANGED <<db, ids, writer, key, stale, ver, answer>>
            ELSE Fail(h, "Internal")
    BY DEF UpdateContents
  <1>2. CASE ~Unique(request)
    BY <1>1, <1>2, FailStep DEF Answers
  <1>3. CASE Unique(request)
    <2> DEFINE c   == FieldsOf(request)
               old == db[key[h]]
               new == [mine[h] EXCEPT !.versions = Append(@, c)]
    <2>1. /\ at' = [at EXCEPT ![h] = "update.commit"]
          /\ mine' = [mine EXCEPT ![h] = new]
          /\ UNCHANGED <<db, ids, writer, key, stale, ver, answer>>
      BY <1>1, <1>3
    <2>2. c \in Abstract!Contents /\ c \in Contents
      BY <1>3, UniqueContents
    <2>3. at[h] = "update.contents" /\ writer = h /\ mine[h] \in Rows
          /\ key[h] \in Keys /\ old \in Rows
      BY DEF UpdateContents, TypeOK, Writing
    <2>4. /\ mine[h].versions = old.versions
          /\ mine[h].id = IF old.id # 0 THEN old.id ELSE ids + 1
          /\ mine[h].latest = old.latest + 1
          /\ mine[h].published = old.published
      BY <2>3 DEF WriterIsCurrent, Exists
    <2>5. /\ new.versions = Append(old.versions, c) /\ new.id = mine[h].id
          /\ new.latest = mine[h].latest /\ new.published = mine[h].published
          /\ new \in Rows
      <3>1. old.versions \in Seq(Contents)
        BY <2>3 DEF Rows
      <3>2. Append(old.versions, c) \in Seq(Contents)
        BY <2>2, <3>1, AppendProperties
      <3> HIDE DEF c
      <3> QED BY <2>3, <2>4, <3>2 DEF Rows
    <2>6. at'[h] = "update.commit" /\ mine'[h] = new
      BY <2>1 DEF TypeOK
    <2>7. \A g \in Handlers \ {h} :
              at'[g] = at[g] /\ mine'[g] = mine[g] /\ at[g] \notin Writing
      BY <2>1, <2>3, OneWriter DEF TypeOK, Writing
    <2>8. TypeOK'
      <3>1. mine' \in [Handlers -> Rows]
        BY <2>1, <2>5 DEF TypeOK
      <3>2. at' \in [Handlers -> Stages]
        BY <2>1 DEF TypeOK, Stages, Writing
      <3>3. \A g \in Handlers : writer' = g <=> at'[g] \in Writing
        BY <2>1, <2>3, <2>6, <2>7 DEF Writing, TypeOK
      <3> QED BY <2>1, <3>1, <3>2, <3>3 DEF TypeOK
    <2>9. WriterIsCurrent'
      <3>1. old.versions \in Seq(Contents)
        BY <2>3 DEF Rows
      <3>2. /\ Len(new.versions) = Len(old.versions) + 1
            /\ \A v \in DOMAIN old.versions : new.versions[v] = old.versions[v]
        <4>1. DOMAIN old.versions = 1 .. Len(old.versions)
          BY <3>1, LenProperties
        <4> HIDE DEF c, old, new
        <4> QED BY <2>2, <2>5, <3>1, <4>1, AppendProperties
      <3>3. \A g \in Handlers : writer' = g => g = h
        BY <2>1, <2>3
      <3>4. /\ at'[h] = "update.commit" /\ mine'[h] = new /\ db'[key'[h]] = old
            /\ ids' = ids
        BY <2>1, <2>6
      <3>5. /\ new.id = IF Exists(old) THEN old.id ELSE ids + 1
            /\ new.latest = old.latest + 1
            /\ new.published = old.published
        BY <2>4, <2>5 DEF Exists
      <3> HIDE DEF c, old, new
      <3> QED BY <3>2, <3>3, <3>4, <3>5, ZenonT(60) DEF WriterIsCurrent, Exists
    <2>10. TablesAgree'
      BY <2>1 DEF TablesAgree, Exists
    <2>11. SnapshotIsCurrent'
      BY <2>1, <2>6, <2>7 DEF SnapshotIsCurrent
    <2>12. CommitsAreSteps'
      BY <2>1, <2>2, <2>5, <2>6, <2>7, ZenonT(60) DEF CommitsAreSteps, Writing
    <2> QED BY <2>8, <2>9, <2>10, <2>11, <2>12
  <1> QED BY <1>2, <1>3

LEMMA UpdateCommitStep ==
    ASSUME IInv, NEW h \in Handlers, UpdateCommit(h)
    PROVE  IInv'
  <1> USE DEF IInv
  <1> DEFINE old == db[key[h]]
             new == mine[h]
  <1>1. at[h] = "update.commit" /\ writer = h /\ new \in Rows /\ key[h] \in Keys
        /\ old \in Rows /\ ids \in Nat
    BY DEF UpdateCommit, TypeOK, Writing
  <1>2. /\ new.id = IF old.id # 0 THEN old.id ELSE ids + 1
        /\ new.latest = old.latest + 1
        /\ new.published = old.published
        /\ Len(new.versions) = Len(old.versions) + 1
    BY <1>1 DEF WriterIsCurrent, Exists
  <1>3. /\ old.latest = Len(old.versions)
        /\ old.published \in {0} \cup DOMAIN old.versions
    BY <1>1 DEF TablesAgree
  <1>4. new.versions \in Seq(Contents) /\ old.versions \in Seq(Contents)
    BY <1>1 DEF Rows
  <1>5. new.published \in {0} \cup DOMAIN new.versions
    BY <1>2, <1>3, <1>4
  <1>6. new.id # 0 /\ new.id \in {ids + 1, old.id}
    BY <1>1, <1>2
  <1> QED BY <1>1, <1>2, <1>3, <1>5, <1>6, CommitStep DEF UpdateCommit
-----------------------------------------------------------------------------
(* Steps that neither write nor take a snapshot *)

LEMMA QuietStep ==
    ASSUME IInv, TypeOK', NEW h \in Handlers,
           at[h] \notin Writing, at'[h] \notin Writing \cup {"update.row"},
           UNCHANGED <<db, ids, writer, stale>>,
           \A g \in Handlers \ {h} : /\ at'[g] = at[g] /\ key'[g] = key[g]
                                     /\ mine'[g] = mine[g] /\ ver'[g] = ver[g]
    PROVE  IInv'
  <1> USE DEF IInv
  <1>1. writer # h
    BY DEF TypeOK
  <1>2. WriterIsCurrent'
    <2>1. \A g \in Handlers : writer' = g =>
              /\ writer = g /\ at'[g] = at[g] /\ key'[g] = key[g]
              /\ mine'[g] = mine[g] /\ ver'[g] = ver[g]
      BY <1>1
    <2>2. \A g \in Handlers : writer' = g => db'[key'[g]] = db[key[g]] /\ ids' = ids
      BY <2>1
    <2>3. ASSUME NEW g \in Handlers, writer' = g
          PROVE  LET new == mine'[g]
                     old == db'[key'[g]]
                 IN  /\ at'[g] \in {"update.contents", "update.commit"} =>
                           /\ new.id = IF Exists(old) THEN old.id ELSE ids' + 1
                           /\ new.latest = old.latest + 1
                           /\ new.published = old.published
                     /\ at'[g] = "update.contents" => new.versions = old.versions
                     /\ at'[g] = "update.commit" =>
                           /\ Len(new.versions) = Len(old.versions) + 1
                           /\ \A v \in DOMAIN old.versions : new.versions[v] = old.versions[v]
                     /\ at'[g] \in {"publish.history", "publish.commit"} =>
                           Exists(old) /\ new = [old EXCEPT !.published = ver'[g]]
      <3>1. writer = g /\ at'[g] = at[g] /\ mine'[g] = mine[g] /\ ver'[g] = ver[g]
            /\ db'[key'[g]] = db[key[g]] /\ ids' = ids
        BY <2>1, <2>2, <2>3
      <3> QED BY ONLY WriterIsCurrent, <2>3, <3>1 DEF WriterIsCurrent
    <2> QED BY <2>3 DEF WriterIsCurrent, Exists
  <1>3. TablesAgree'
    BY DEF TablesAgree, Exists
  <1>4. SnapshotIsCurrent'
    BY DEF SnapshotIsCurrent
  <1>5. CommitsAreSteps'
    BY DEF CommitsAreSteps, Writing
  <1> QED BY <1>2, <1>3, <1>4, <1>5

LEMMA BeginStep ==
    ASSUME IInv, NEW h \in Handlers, NEW k \in Keys,
           NEW stage \in {"publish.row", "delete.row"}, Begin(h, k, stage)
    PROVE  IInv'
  <1> USE DEF IInv, Begin
  <1>1. TypeOK'
    BY DEF TypeOK, Stages, Writing
  <1>2. at[h] \notin Writing /\ at'[h] \notin Writing \cup {"update.row"}
    BY DEF TypeOK, Writing
  <1>3. \A g \in Handlers \ {h} : at'[g] = at[g] /\ key'[g] = key[g]
    BY DEF TypeOK
  <1> QED BY <1>1, <1>2, <1>3, QuietStep

LEMMA GetRowStep ==
    ASSUME IInv, NEW h \in Handlers, NEW k \in Keys,
           NEW want \in Published .. Latest, GetRow(h, k, want)
    PROVE  IInv'
  <1> USE DEF IInv
  <1> DEFINE v   == CASE want = Published -> db[k].published
                      [] want = Latest    -> db[k].latest
                      [] OTHER            -> want
             row == [NoRow EXCEPT !.id = db[k].id]
  <1>1. at[h] = "idle" /\ key' = [key EXCEPT ![h] = k]
        /\ UNCHANGED <<db, ids, writer, stale>>
    BY DEF GetRow
  <1>2. db[k] \in Rows
    BY DEF TypeOK
  <1>3. v \in Nat
    <2>1. db[k].published \in Nat /\ db[k].latest \in Nat /\ want \in Nat
      BY <1>2 DEF Rows, Published, Latest
    <2>2. CASE want = Published
      BY <2>1, <2>2
    <2>3. CASE want = Latest
      BY <2>1, <2>3 DEF Published, Latest
    <2>4. CASE want # Published /\ want # Latest
      BY <2>1, <2>4
    <2> QED BY <2>2, <2>3, <2>4
  <1>6. row \in Rows
    <2>1. row = [id |-> db[k].id, latest |-> 0, published |-> 0, versions |-> <<>>]
      BY DEF NoRow
    <2>2. <<>> \in Seq(Contents) /\ db[k].id \in Nat
      BY <1>2 DEF Rows
    <2> HIDE DEF row
    <2> QED BY <2>1, <2>2 DEF Rows
  <1>4. CASE Exists(db[k]) /\ v # 0
    <2>1. /\ at' = [at EXCEPT ![h] = "get.fields"]
          /\ mine' = [mine EXCEPT ![h] = row]
          /\ ver' = [ver EXCEPT ![h] = v]
          /\ UNCHANGED answer
      BY <1>4 DEF GetRow
    <2> HIDE DEF v, row
    <2>2. TypeOK'
      BY <1>1, <1>3, <1>6, <2>1 DEF TypeOK, Stages, Writing
    <2>3. at[h] \notin Writing /\ at'[h] \notin Writing \cup {"update.row"}
      BY <1>1, <2>1 DEF TypeOK, Writing
    <2> QED BY <1>1, <2>1, <2>2, <2>3, QuietStep DEF TypeOK
  <1>5. CASE ~(Exists(db[k]) /\ v # 0)
    <2>1. EndTransaction(h, "Template")
      BY <1>5 DEF GetRow
    <2>2. at' \in [Handlers -> Stages] /\ mine' \in [Handlers -> Rows]
          /\ ver' \in [Handlers -> Nat] /\ answer' \in [Handlers -> Answers]
      BY <2>1, EndTypes DEF Answers
    <2>3. at[h] \notin Writing /\ at'[h] \notin Writing \cup {"update.row"}
      BY <1>1, <2>1 DEF TypeOK, Writing, EndTransaction
    <2>4. \A g \in Handlers \ {h} : /\ at'[g] = at[g] /\ key'[g] = key[g]
                                    /\ mine'[g] = mine[g] /\ ver'[g] = ver[g]
      BY <1>1, <2>1 DEF TypeOK, EndTransaction
    <2>5. TypeOK'
      BY <1>1, <2>2, <2>3, <2>4 DEF TypeOK, Answers
    <2> QED BY <1>1, <2>3, <2>4, <2>5, QuietStep
  <1> QED BY <1>4, <1>5

LEMMA GetFieldsStep ==
    ASSUME IInv, NEW h \in Handlers, GetFields(h)
    PROVE  IInv'
  <1> USE DEF IInv
  <1>1. PICK a \in Answers : EndTransaction(h, a)
    BY DEF GetFields, Answers
  <1>2. at[h] = "get.fields" /\ UNCHANGED <<db, ids, writer, key, stale>>
    BY DEF GetFields
  <1>3. at' \in [Handlers -> Stages] /\ mine' \in [Handlers -> Rows]
        /\ ver' \in [Handlers -> Nat] /\ answer' \in [Handlers -> Answers]
    BY <1>1, EndTypes
  <1>4. at[h] \notin Writing /\ at'[h] \notin Writing \cup {"update.row"}
    BY <1>1, <1>2 DEF TypeOK, Writing, EndTransaction
  <1>5. \A g \in Handlers \ {h} : /\ at'[g] = at[g] /\ key'[g] = key[g]
                                  /\ mine'[g] = mine[g] /\ ver'[g] = ver[g]
    BY <1>1, <1>2 DEF TypeOK, EndTransaction
  <1>6. TypeOK'
    BY <1>2, <1>3, <1>4, <1>5 DEF TypeOK, Answers
  <1> QED BY <1>2, <1>4, <1>5, <1>6, QuietStep

LEMMA ReturnStep ==
    ASSUME IInv, NEW h \in Handlers, Return(h)
    PROVE  IInv'
  <1> USE DEF IInv, Return
  <1>1. TypeOK'
    BY DEF TypeOK, Stages, Writing
  <1>2. at[h] \notin Writing /\ at'[h] \notin Writing \cup {"update.row"}
    BY DEF TypeOK, Writing
  <1> QED BY <1>1, <1>2, QuietStep DEF TypeOK

LEMMA CrashStep == IInv /\ Crash => IInv'
  <1> SUFFICES ASSUME IInv, Crash PROVE IInv'
    OBVIOUS
  <1> USE DEF IInv, Crash
  <1>1. TypeOK'
    BY NoRowType DEF TypeOK, Stages, Writing
  <1>2. TablesAgree'
    BY DEF TablesAgree, Exists
  <1>3. WriterIsCurrent' /\ SnapshotIsCurrent' /\ CommitsAreSteps'
    BY DEF WriterIsCurrent, SnapshotIsCurrent, CommitsAreSteps
  <1> QED BY <1>1, <1>2, <1>3
-----------------------------------------------------------------------------
(* PublishVersion and DeleteConfig *)

LEMMA PublishRowStep ==
    ASSUME IInv, NEW h \in Handlers, PublishRow(h)
    PROVE  IInv'
  <1> USE DEF IInv
  <1> DEFINE old == db[key[h]]
  <1>1. CASE ~Exists(old)
    BY <1>1, FailStep DEF PublishRow, Answers
  <1>2. CASE Exists(old)
    <2>1. PICK v \in 0 .. MaxVersion + 1 :
              /\ writer' = h
              /\ at'     = [at EXCEPT ![h] = "publish.history"]
              /\ mine'   = [mine EXCEPT ![h] = [old EXCEPT !.published = v]]
              /\ ver'    = [ver EXCEPT ![h] = v]
              /\ UNCHANGED <<db, ids, key, stale, answer>>
      BY <1>2 DEF PublishRow
    <2> DEFINE new == [old EXCEPT !.published = v]
    <2>2. key[h] \in Keys /\ old \in Rows /\ v \in Nat
      BY DEF TypeOK
    <2>3. new \in Rows
      BY <2>2 DEF Rows
    <2>4. at'[h] = "publish.history" /\ mine'[h] = new /\ ver'[h] = v
      BY <2>1 DEF TypeOK
    <2>5. \A g \in Handlers \ {h} :
              /\ at'[g] = at[g] /\ mine'[g] = mine[g] /\ ver'[g] = ver[g]
              /\ at[g] \notin Writing
      BY <2>1, FreeMeansNone DEF TypeOK, PublishRow
    <2>6. TypeOK'
      <3>1. at' \in [Handlers -> Stages] /\ mine' \in [Handlers -> Rows]
            /\ ver' \in [Handlers -> Nat]
        BY <2>1, <2>2, <2>3 DEF TypeOK, Stages, Writing
      <3>2. \A g \in Handlers : writer' = g <=> at'[g] \in Writing
        BY <2>1, <2>4, <2>5 DEF Writing
      <3> QED BY <2>1, <3>1, <3>2 DEF TypeOK
    <2>7. WriterIsCurrent'
      <3>1. \A g \in Handlers : writer' = g => g = h
        BY <2>1
      <3>2. db'[key'[h]] = old /\ mine'[h] = [old EXCEPT !.published = ver'[h]]
        BY <2>1, <2>4
      <3> HIDE DEF old, new
      <3> QED BY <1>2, <2>4, <3>1, <3>2 DEF WriterIsCurrent, Exists
    <2>8. TablesAgree'
      BY <2>1 DEF TablesAgree, Exists
    <2>9. SnapshotIsCurrent'
      BY <2>1, <2>4, <2>5 DEF SnapshotIsCurrent
    <2>10. CommitsAreSteps'
      BY <2>1, <2>4, <2>5 DEF CommitsAreSteps, Writing
    <2> QED BY <2>6, <2>7, <2>8, <2>9, <2>10
  <1> QED BY <1>1, <1>2

LEMMA PublishHistoryStep ==
    ASSUME IInv, NEW h \in Handlers, PublishHistory(h)
    PROVE  IInv'
  <1> USE DEF IInv
  <1>1. CASE ver[h] \notin DOMAIN mine[h].versions
    BY <1>1, FailStep DEF PublishHistory, Answers
  <1>2. CASE ver[h] \in DOMAIN mine[h].versions
    <2>1. /\ at[h] = "publish.history" /\ at' = [at EXCEPT ![h] = "publish.commit"]
          /\ UNCHANGED <<db, ids, writer, key, mine, stale, ver, answer>>
      BY <1>2 DEF PublishHistory
    <2>2. at'[h] = "publish.commit" /\ writer = h
      BY <2>1 DEF TypeOK, Writing
    <2>3. \A g \in Handlers \ {h} : at'[g] = at[g]
      BY <2>1 DEF TypeOK
    <2>4. TypeOK'
      BY <2>1, <2>2, <2>3 DEF TypeOK, Stages, Writing
    <2>5. WriterIsCurrent'
      <3>1. Exists(db[key[h]]) /\ mine[h] = [db[key[h]] EXCEPT !.published = ver[h]]
        BY <2>1, <2>2 DEF WriterIsCurrent
      <3>2. \A g \in Handlers : writer' = g => g = h
        BY <2>1, <2>2
      <3>3. mine'[h] = [db'[key'[h]] EXCEPT !.published = ver'[h]]
        BY <2>1, <3>1
      <3> QED BY <2>1, <2>2, <3>1, <3>2, <3>3 DEF WriterIsCurrent, Exists
    <2>6. TablesAgree'
      BY <2>1 DEF TablesAgree, Exists
    <2>7. SnapshotIsCurrent'
      BY <2>1, <2>2, <2>3 DEF SnapshotIsCurrent
    <2>8. CommitsAreSteps'
      BY <1>2, <2>1, <2>2, <2>3 DEF CommitsAreSteps
    <2> QED BY <2>4, <2>5, <2>6, <2>7, <2>8
  <1> QED BY <1>1, <1>2

\* What a publication commits.
LEMMA PublishedRow ==
    ASSUME IInv, NEW h \in Handlers, at[h] = "publish.commit"
    PROVE  LET old == db[key[h]]
               new == mine[h]
           IN  /\ writer = h /\ key[h] \in Keys /\ old \in Rows /\ new \in Rows
               /\ old.id # 0 /\ new.id = old.id
               /\ new.latest = old.latest /\ new.versions = old.versions
               /\ new.published = ver[h] /\ ver[h] \in DOMAIN old.versions
  <1> USE DEF IInv
  <1> DEFINE old == db[key[h]]
             new == mine[h]
  <1>1. writer = h /\ key[h] \in Keys /\ old \in Rows /\ new \in Rows
    BY DEF TypeOK, Writing
  <1>2. Exists(old) /\ new = [old EXCEPT !.published = ver[h]]
    BY <1>1 DEF WriterIsCurrent
  <1>3. /\ new.id = old.id /\ new.latest = old.latest
        /\ new.versions = old.versions /\ new.published = ver[h]
    BY <1>1, <1>2 DEF Rows
  <1> QED BY <1>1, <1>2, <1>3 DEF Exists, CommitsAreSteps

LEMMA PublishCommitStep ==
    ASSUME IInv, NEW h \in Handlers, PublishCommit(h)
    PROVE  IInv'
  <1>1. at[h] = "publish.commit"
    BY DEF PublishCommit
  <1>2. db[key[h]].latest = Len(db[key[h]].versions)
    BY <1>1, PublishedRow DEF IInv, TablesAgree
  <1> QED BY <1>1, <1>2, PublishedRow, CommitStep DEF PublishCommit

LEMMA DeleteRowStep ==
    ASSUME IInv, NEW h \in Handlers, DeleteRow(h)
    PROVE  IInv'
  <1>1. CASE Exists(db[key[h]])
    <2>1. NoRow.latest = Len(NoRow.versions) /\ NoRow.published = 0 /\ NoRow.id = 0
      BY DEF NoRow
    <2> QED BY <1>1, <2>1, NoRowType, CommitStep DEF DeleteRow
  <1>2. CASE ~Exists(db[key[h]])
    BY <1>2, FailStep DEF DeleteRow, Answers
  <1> QED BY <1>1, <1>2

-----------------------------------------------------------------------------
(* The invariant, and what follows from it *)

LEMMA InvInit == Init => IInv
  <1> SUFFICES ASSUME Init PROVE IInv
    OBVIOUS
  <1> USE DEF Init
  <1>1. TypeOK
    BY NoRowType DEF TypeOK, Stages, Writing
  <1>2. TablesAgree
    BY DEF TablesAgree, Exists, NoRow
  <1>3. WriterIsCurrent /\ SnapshotIsCurrent /\ CommitsAreSteps
    BY DEF WriterIsCurrent, SnapshotIsCurrent, CommitsAreSteps
  <1> QED BY <1>1, <1>2, <1>3 DEF IInv

LEMMA InvStep == IInv /\ [Next]_vars => IInv'
  <1> SUFFICES ASSUME IInv, [Next]_vars PROVE IInv'
    OBVIOUS
  <1>1. CASE Crash
    BY <1>1, CrashStep
  <1>2. ASSUME NEW h \in Handlers, Handler(h) PROVE IInv'
    <2>1. ASSUME NEW k \in Keys,
                 UpdateBegin(h, k) \/ Begin(h, k, "publish.row") \/ Begin(h, k, "delete.row")
          PROVE  IInv'
      BY <2>1, UpdateBeginStep, BeginStep
    <2>2. ASSUME NEW k \in Keys, NEW want \in Published .. Latest, GetRow(h, k, want)
          PROVE  IInv'
      BY <2>2, GetRowStep
    <2>3. CASE Progress(h)
      <3>1. BusyTimeout(h) => IInv'
        BY FailStep DEF BusyTimeout, Answers
      <3> QED BY <2>3, <3>1, UpdateRowStep, UpdateContentsStep, UpdateCommitStep,
                 PublishRowStep, PublishHistoryStep, PublishCommitStep, DeleteRowStep,
                 GetFieldsStep, ReturnStep DEF Progress
    <2>4. CASE StatementFails(h)
      BY <2>4, FailStep DEF StatementFails, Answers
    <2> QED BY <1>2, <2>1, <2>2, <2>3, <2>4 DEF Handler
  <1>3. CASE UNCHANGED vars
    <2> USE <1>3 DEF vars, IInv
    <2>1. TypeOK' /\ TablesAgree'
      BY DEF TypeOK, TablesAgree, Exists
    <2>2. WriterIsCurrent'
      BY DEF WriterIsCurrent, Exists
    <2>3. SnapshotIsCurrent' /\ CommitsAreSteps'
      BY DEF SnapshotIsCurrent, CommitsAreSteps
    <2> QED BY <2>1, <2>2, <2>3
  <1> QED BY <1>1, <1>2, <1>3 DEF Next

\* The inductive invariant holds in every reachable state.
THEOREM Invariance == Spec => []IInv
  BY InvInit, InvStep, PTL DEF Spec

\* Every variable has its type, and a call that is about to write more is the
\* one that holds SQLite's write lock.
THEOREM Typing == Spec => []TypeOK
  <1>1. IInv => TypeOK
    BY DEF IInv
  <1> QED BY <1>1, Invariance, PTL

\* No update is lost, no publication undone, no deleted row brought back,
\* though UpdateConfig reads before it has the write lock (CanWrite's check of
\* the snapshot is all there is).
THEOREM CurrentWriter == Spec => []WriterIsCurrent
  <1>1. IInv => WriterIsCurrent
    BY DEF IInv
  <1> QED BY <1>1, Invariance, PTL

\* latest_version counts the history, the published version is part of it, and
\* no two identifiers share a row, whatever fails or crashes.
THEOREM Agreement == Spec => []TablesAgree
  <1>1. IInv => TablesAgree
    BY DEF IInv
  <1> QED BY <1>1, Invariance, PTL

-----------------------------------------------------------------------------
(* The handlers implement VersionedConfig. *)

\* What clients may know of an identifier.
View(rows) == [versions |-> rows.versions, published |-> rows.published]
Store      == [k \in Keys |-> [versions |-> db[k].versions, published |-> db[k].published]]

LEMMA InitRefines == Init => Abstract!Init
  BY DEF Init, NoRow, Abstract!Init, Abstract!Absent, Abstract!Unpublished

\* A commit changes one identifier, and that as VersionedConfig allows.
LEMMA CommitView ==
    ASSUME IInv, NEW h \in Handlers, NEW rows \in Rows, Commit(h, rows)
    PROVE  Store' = [Store EXCEPT ![key[h]] = View(rows)]
  <1>1. key[h] \in Keys /\ db' = [db EXCEPT ![key[h]] = rows] /\ db \in [Keys -> Rows]
    BY DEF IInv, TypeOK, Commit
  <1> QED BY <1>1 DEF Store, View

LEMMA UpdateRefines ==
    ASSUME IInv, NEW h \in Handlers, UpdateCommit(h)
    PROVE  Abstract!Next
  <1> USE DEF IInv
  <1> DEFINE k == key[h]
  <1>1. at[h] = "update.commit" /\ writer = h /\ mine[h] \in Rows /\ k \in Keys
    BY DEF UpdateCommit, TypeOK, Writing
  <1>2. PICK c \in Abstract!Contents : mine[h].versions = Append(db[k].versions, c)
    BY <1>1 DEF CommitsAreSteps
  <1>3. mine[h].published = db[k].published
    BY <1>1 DEF WriterIsCurrent
  <1>4. Store' = [Store EXCEPT ![k] = View(mine[h])]
    BY <1>1, CommitView DEF UpdateCommit
  <1>5. Store[k] = View(db[k])
    BY <1>1 DEF Store, View
  <1>6. View(mine[h]) = [Store[k] EXCEPT !.versions = Append(@, c)]
    <2> DEFINE new == Append(db[k].versions, c)
    <2>1. Store[k] = [versions |-> db[k].versions, published |-> db[k].published]
      BY <1>5 DEF View
    <2>2. new = Append(Store[k].versions, c)
      BY <2>1
    <2>3. View(mine[h]) = [versions |-> new, published |-> db[k].published]
      BY <1>2, <1>3 DEF View
    <2> HIDE DEF new
    <2>4. [Store[k] EXCEPT !.versions = new] = [versions |-> new, published |-> db[k].published]
      BY <2>1
    <2>5. View(mine[h]) = [Store[k] EXCEPT !.versions = new]
      BY <2>3, <2>4
    <2> QED BY <2>2, <2>5
  <1>7. Store' = [Store EXCEPT ![k].versions = Append(@, c)]
    BY <1>1, <1>4, <1>6
  <1>8. Abstract!AddVersion(k, c)
    BY <1>7 DEF Abstract!AddVersion, Store
  <1> QED BY <1>1, <1>8 DEF Abstract!Next

LEMMA PublishRefines ==
    ASSUME IInv, NEW h \in Handlers, PublishCommit(h)
    PROVE  Abstract!Next
  <1> USE DEF IInv
  <1>0. key[h] \in Keys /\ ver[h] \in Nat
    BY DEF TypeOK
  <1> PICK k \in Keys, v \in Nat : k = key[h] /\ v = ver[h]
    BY <1>0
  <1> HIDE DEF IInv
  <1>1. /\ writer = h /\ k \in Keys /\ mine[h] \in Rows /\ db[k] \in Rows
        /\ mine[h].versions = db[k].versions /\ mine[h].published = v
        /\ v \in DOMAIN db[k].versions
    BY PublishedRow DEF PublishCommit
  <1>2. Store' = [Store EXCEPT ![k] = View(mine[h])]
    BY <1>1, CommitView DEF PublishCommit
  <1>3. Store[k] = View(db[k])
    BY <1>1 DEF Store, View
  <1>4. View(mine[h]) = [Store[k] EXCEPT !.published = v]
    BY <1>1, <1>3 DEF View
  <1>5. Store' = [Store EXCEPT ![k].published = v]
    BY <1>1, <1>2, <1>4
  <1>6. v \in 1 .. Len(Store[k].versions)
    <2>1. db[k].versions \in Seq(Contents)
      BY <1>1 DEF Rows
    <2> QED BY <1>1, <1>3, <2>1, LenProperties DEF View
  <1>7. Abstract!Publish(k, v)
    BY <1>5, <1>6 DEF Abstract!Publish, Store
  <1> QED BY <1>6, <1>7 DEF Abstract!Next, Store

\* Deleting a row that has no version yet would change nothing for clients.
LEMMA DeleteRefines ==
    ASSUME IInv, NEW h \in Handlers, Commit(h, NoRow)
    PROVE  Abstract!Next \/ Store' = Store
  <1>1. key[h] \in Keys
    BY DEF IInv, TypeOK
  <1> PICK k \in Keys : k = key[h]
    BY <1>1
  <1>2. View(NoRow) = Abstract!Absent
    BY DEF View, NoRow, Abstract!Absent, Abstract!Unpublished
  <1>3. Store' = [Store EXCEPT ![k] = Abstract!Absent]
    BY <1>2, NoRowType, CommitView
  <1>4. CASE Store[k] = Abstract!Absent
    BY <1>1, <1>3, <1>4 DEF Store
  <1>5. CASE Store[k] # Abstract!Absent
    <2>1. Abstract!Remove(k)
      BY <1>3, <1>5 DEF Abstract!Remove, Store
    <2> QED BY <2>1 DEF Abstract!Next
  <1> QED BY <1>4, <1>5

LEMMA StepRefines == IInv /\ [Next]_vars => Abstract!Next \/ Store' = Store
  <1> SUFFICES ASSUME IInv, [Next]_vars, db' # db PROVE Abstract!Next \/ Store' = Store
    BY DEF Store
  <1>1. PICK h \in Handlers : Handler(h)
    BY DEF Next, Crash, vars
  <1>2. UpdateCommit(h) \/ PublishCommit(h) \/ Commit(h, NoRow)
    BY <1>1 DEF Handler, Progress, UpdateBegin, Begin, GetRow, UpdateRow, UpdateContents,
                PublishRow, PublishHistory, DeleteRow, BusyTimeout, GetFields, Return,
                StatementFails, Fail
  <1> QED BY <1>2, UpdateRefines, PublishRefines, DeleteRefines

\* On SQLite, too, the handlers implement the atomic VersionedConfig: nobody
\* sees more of a call than its commit.
THEOREM Refinement == Spec => ImplementsVersionedConfig
  <1>1. IInv /\ [Next]_vars =>
            [Abstract!Next]_([k \in Keys |-> [versions  |-> db[k].versions,
                                              published |-> db[k].published]])
    BY StepRefines DEF Store
  <1> QED BY <1>1, InitRefines, Invariance, PTL
          DEF Spec, ImplementsVersionedConfig, Abstract!Spec
=============================================================================
