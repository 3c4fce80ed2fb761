------------------------ MODULE ConfigHistoryProofs ------------------------
(***************************************************************************)
(* The theorems of ConfigHistory: GetConfigHistory reads rows whose times  *)
(* were set when their transactions began, while transactions commit in    *)
(* another order and rows are deleted. They rest on the invariant IInv of  *)
(* ConfigStoreProofs and on HInv below, which says what the times of rows  *)
(* and of open updates have to do with the order of commits.               *)
(***************************************************************************)
EXTENDS ConfigHistory, ConfigStoreProofs, FiniteSetTheorems

LogPairs == {<<e.id, e.version>> : e \in log}

\* Each part has its type.
ReadersTyped ==
    /\ begun   \subseteq Handlers
    /\ before  \in [Handlers -> SUBSET (Nat \X Int)]
    /\ reading \in [Readers -> {"idle", "rows", "reply", "failed"}]
    /\ row     \in [Readers -> Nat]
    /\ most    \in [Readers -> Nat]
    /\ DOMAIN listed = Readers

\* Only what has a time is compared, and no two things are each older.
Ordered ==
    /\ older \subseteq Dated \X Dated
    /\ \A x, y : ~ (<<x, y>> \in older /\ <<y, x>> \in older)

\* What was committed when an open update began is older than the update.
BeforeOlder ==
    \A h \in Handlers : \A x \in before[h] :
        /\ h \in begun /\ x \in LogPairs
        /\ x \in history => <<x, <<h>>>> \in older

SettledOlder == settled \subseteq older \cap (history \X history)

\* An answer names committed versions only, though the row may be gone by now.
ListedKnown ==
    \A r \in Readers :
        /\ reading[r] \in {"idle", "rows"} => listed[r] = <<>>
        /\ \A i \in DOMAIN listed[r] : <<row[r], listed[r][i]>> \in LogPairs

HInv == /\ IInv /\ history \subseteq LogPairs /\ ReadersTyped /\ Ordered /\ BeforeOlder
        /\ SettledOlder /\ ListedKnown /\ SettledOrder

-----------------------------------------------------------------------------
(* Steps of the store, as the history sees them *)

Own(h) == <<rid[h], ver[h]>>

LEMMA PairsDiffer ==
    ASSUME NEW h, NEW x \in Nat \X Int
    PROVE  x # <<h>>
  OBVIOUS

\* The version that is about to be committed was never committed before.
LEMMA OwnIsNew ==
    ASSUME HInv, NEW h \in Handlers, UpdateCommit(h)
    PROVE  Own(h) \notin LogPairs
  <1> USE DEF HInv, IInv, TypeOK, CallsTypeOK, TablesTypeOK
  <1> SUFFICES ASSUME NEW e \in log, Own(h) = <<e.id, e.version>> PROVE FALSE
    BY DEF LogPairs
  <1>1. rid[h] # 0 /\ key[h] \in Keys /\ (Extends(h) \/ Creates(h))
    BY CommittedRow DEF WriterInv
  <1>2. e.id = rid[h] /\ e.version = ver[h]
    BY DEF Own
  <1>3. CASE Extends(h)
    <2>1. Live(e.id)
      BY <1>1, <1>2, <1>3 DEF Extends, Live
    <2>2. <<rid[h], ver[h]>> \in history
      BY <2>1, <1>2 DEF TableInv
    <2>3. cv[key[h]].latest \in Int
      BY <1>1 DEF Row
    <2>4. ver[h] \in 1 .. cv[key[h]].latest
      BY <1>1, <1>3, <2>2 DEF Extends, TableInv
    <2> QED BY <1>3, <2>3, <2>4 DEF Extends
  <1>4. CASE Creates(h)
    BY <1>2, <1>4 DEF Creates
  <1> QED BY <1>1, <1>3, <1>4

\* A step of the store commits one new version, or adds nothing.
LEMMA StepShape ==
    ASSUME HInv, NEW h \in Handlers, Step(h)
    PROVE  /\ \A g \in Handlers \ {h} : at'[g] = at[g]
           /\ \/ history' \subseteq history /\ LogPairs' = LogPairs
              \/ /\ at[h] = "update.fields" /\ at'[h] = "reply"
                 /\ Own(h) \notin LogPairs
                 /\ history' = history \cup {Own(h)}
                 /\ LogPairs' = LogPairs \cup {Own(h)}
  <1>1. \A g \in Handlers \ {h} : at'[g] = at[g]
    BY OthersUntouched DEF Untouched, HInv, IInv
  <1>2. CASE UNCHANGED <<cv, history, audited, field, log>>
    BY <1>1, <1>2 DEF LogPairs
  <1>3. CASE UpdateCommit(h)
    <2>1. at[h] = "update.fields" /\ at'[h] = "reply"
      BY <1>3 DEF UpdateCommit, Reply, HInv, IInv, TypeOK, CallsTypeOK
    <2>2. history' = history \cup {Own(h)}
      BY <1>3 DEF UpdateCommit, Own
    <2>3. LogPairs' = LogPairs \cup {Own(h)}
      <3>1. log' = log \cup {[id |-> rid[h], version |-> ver[h], fields |-> buf[h]]}
        BY <1>3 DEF UpdateCommit
      <3>2. PICK e : e = [id |-> rid[h], version |-> ver[h], fields |-> buf[h]]
        OBVIOUS
      <3>3. <<e.id, e.version>> = Own(h)
        BY <3>2 DEF Own
      <3>4. log' = log \cup {e}
        BY <3>1, <3>2
      <3> QED BY <3>3, <3>4 DEF LogPairs
    <2> QED BY <1>1, <1>3, <2>1, <2>2, <2>3, OwnIsNew
  <1>4. CASE PublishCommit(h)
    BY <1>1, <1>4 DEF PublishCommit, LogPairs
  <1>5. CASE DeleteRow(h)
    BY <1>1, <1>5 DEF DeleteRow, LogPairs
  <1> QED BY <1>2, <1>3, <1>4, <1>5, TablesStep

\* History rows and open updates are different things.
LEMMA DatedThings ==
    ASSUME HInv, NEW x \in Dated
    PROVE  \/ x \in history /\ x \in Nat \X Int /\ \A h : x # <<h>>
           \/ \E h \in begun : x = <<h>>
  <1>1. history \subseteq Nat \X Int
    BY DEF HInv, IInv, TypeOK, TablesTypeOK
  <1> QED BY <1>1, PairsDiffer DEF Dated

\* What a version is called once h has committed it.
Renamed(h, x) == IF x = <<h>> THEN Own(h) ELSE x

LEMMA OlderStep ==
    ASSUME HInv, NEW h \in Handlers, StepOf(h)
    PROVE  \/ /\ at[h] = "update.fields" /\ at'[h] = "reply"
              /\ Own(h) \notin LogPairs
              /\ history' = history \cup {Own(h)}
              /\ LogPairs' = LogPairs \cup {Own(h)}
              /\ older' = {<<Renamed(h, p[1]), Renamed(h, p[2])>> : p \in older}
                              \cap (Dated' \X Dated')
           \/ /\ history' \subseteq history /\ LogPairs' = LogPairs
              /\ older' = older \cap (Dated' \X Dated')
  <1>1. CASE /\ at[h] = "update.fields" /\ at'[h] = "reply"
             /\ Own(h) \notin LogPairs
             /\ history' = history \cup {Own(h)}
             /\ LogPairs' = LogPairs \cup {Own(h)}
    <2>1. Own(h) \in history' \ history
      BY <1>1 DEF HInv
    <2>2. older' = {<<IF Own(h) \in history' \ history /\ p[1] = <<h>> THEN Own(h) ELSE p[1],
                      IF Own(h) \in history' \ history /\ p[2] = <<h>> THEN Own(h) ELSE p[2]>> :
                       p \in older} \cap (Dated' \X Dated')
      BY <1>1 DEF StepOf, Own
    <2>3. older' = {<<Renamed(h, p[1]), Renamed(h, p[2])>> : p \in older}
                       \cap (Dated' \X Dated')
      BY <2>1, <2>2 DEF Renamed
    <2> QED BY <1>1, <2>3
  <1>2. CASE history' \subseteq history /\ LogPairs' = LogPairs
    <2>1. older' = {<<IF Own(h) \in history' \ history /\ p[1] = <<h>> THEN Own(h) ELSE p[1],
                      IF Own(h) \in history' \ history /\ p[2] = <<h>> THEN Own(h) ELSE p[2]>> :
                       p \in older} \cap (Dated' \X Dated')
      BY DEF StepOf, Own
    <2>2. older' = {<<p[1], p[2]>> : p \in older} \cap (Dated' \X Dated')
      BY <1>2, <2>1
    <2>3. \A p \in older : <<p[1], p[2]>> = p
      BY DEF HInv, Ordered
    <2>4. {<<p[1], p[2]>> : p \in older} = older
      BY <2>3
    <2> QED BY <1>2, <2>2, <2>4
  <1> QED BY <1>1, <1>2, StepShape DEF StepOf

LEMMA OrderedStep ==
    ASSUME HInv, NEW h \in Handlers, StepOf(h)
    PROVE  Ordered'
  <1>1. older' \subseteq Dated' \X Dated'
    BY OlderStep
  <1> SUFFICES ASSUME NEW x, NEW y, <<x, y>> \in older', <<y, x>> \in older'
               PROVE  FALSE
    BY <1>1 DEF Ordered
  <1>2. CASE /\ Own(h) \notin LogPairs
             /\ older' = {<<Renamed(h, p[1]), Renamed(h, p[2])>> : p \in older}
                             \cap (Dated' \X Dated')
    <2>1. PICK p \in older : <<x, y>> = <<Renamed(h, p[1]), Renamed(h, p[2])>>
      BY <1>2
    <2>2. PICK q \in older : <<y, x>> = <<Renamed(h, q[1]), Renamed(h, q[2])>>
      BY <1>2
    <2>3. /\ p[1] \in Dated /\ p[2] \in Dated /\ q[1] \in Dated /\ q[2] \in Dated
          /\ p = <<p[1], p[2]>> /\ q = <<q[1], q[2]>>
      BY DEF HInv, Ordered
    <2>4. Own(h) \in Nat \X Int /\ Own(h) \notin history
      BY <1>2 DEF Own, HInv, IInv, TypeOK, CallsTypeOK
    <2>5. ASSUME NEW u \in Dated, NEW v \in Dated, Renamed(h, u) = Renamed(h, v)
          PROVE  u = v
      <3>1. Own(h) \notin Dated
        BY <2>4, DatedThings, PairsDiffer
      <3> QED BY <2>5, <3>1 DEF Renamed
    <2>6. Renamed(h, p[1]) = Renamed(h, q[2]) /\ Renamed(h, p[2]) = Renamed(h, q[1])
      BY <2>1, <2>2
    <2>7. p[1] = q[2] /\ p[2] = q[1]
      BY <2>3, <2>5, <2>6
    <2> QED BY <2>3, <2>7 DEF HInv, Ordered
  <1>3. CASE older' = older \cap (Dated' \X Dated')
    BY <1>3 DEF HInv, Ordered
  <1> QED BY <1>2, <1>3, OlderStep

\* What is kept of the old order: everything between things that are still
\* there and are not the update that commits.
LEMMA OlderKept ==
    ASSUME HInv, NEW h \in Handlers, StepOf(h), NEW x, NEW y, <<x, y>> \in older,
           x # <<h>>, x \in Dated', y # <<h>>, y \in Dated'
    PROVE  <<x, y>> \in older'
  <1>1. Renamed(h, x) = x /\ Renamed(h, y) = y
    BY DEF Renamed
  <1>2. PICK p : p = <<x, y>>
    OBVIOUS
  <1>3. p \in older /\ p[1] = x /\ p[2] = y
    BY <1>2
  <1>4. <<x, y>> \in {<<Renamed(h, q[1]), Renamed(h, q[2])>> : q \in older}
    BY <1>1, <1>3
  <1>5. <<x, y>> \in Dated' \X Dated'
    OBVIOUS
  <1> QED BY <1>4, <1>5, OlderStep

LEMMA BeforeStep ==
    ASSUME HInv, NEW h \in Handlers, StepOf(h)
    PROVE  BeforeOlder'
  <1> SUFFICES ASSUME NEW g \in Handlers, NEW x \in before'[g]
               PROVE  /\ g \in begun' /\ x \in LogPairs'
                      /\ x \in history' => <<x, <<g>>>> \in older'
    BY DEF BeforeOlder
  <1>h. /\ history \subseteq LogPairs /\ history \subseteq Nat \X Int
        /\ before \in [Handlers -> SUBSET (Nat \X Int)]
    BY DEF HInv, IInv, TypeOK, TablesTypeOK, ReadersTyped
  <1>b. before' = [before EXCEPT ![h] = IF at'[h] \in Updating THEN before[h] ELSE {}]
    BY DEF StepOf
  <1>l. LogPairs \subseteq LogPairs'
    BY OlderStep
  <1>n. x \in LogPairs /\ x \in history' => x \in history
    BY OlderStep
  <1>1. x \in before[g]
    BY <1>b, <1>h
  <1>2. /\ g \in begun /\ x \in LogPairs
        /\ x \in history => <<x, <<g>>>> \in older
    BY <1>1 DEF HInv, BeforeOlder
  <1>3. g \in begun' /\ (g = h => at'[h] \in Updating)
    <2>1. CASE g = h
      <3>1. at'[h] \in Updating
        BY <1>b, <1>h, <2>1
      <3> QED BY <1>2, <2>1, <3>1 DEF StepOf
    <2>2. CASE g # h
      BY <1>2, <2>2 DEF StepOf
    <2> QED BY <2>1, <2>2
  <1>4. ASSUME x \in history' PROVE <<x, <<g>>>> \in older'
    <2>1. <<x, <<g>>>> \in older
      BY <1>n, <1>2, <1>4
    <2>2. x \in Dated' /\ <<g>> \in Dated'
      BY <1>3, <1>4 DEF Dated
    <2>3. CASE g # h
      <3>1. x # <<h>> /\ <<g>> # <<h>>
        BY <1>h, <1>n, <1>2, <1>4, <2>3, PairsDiffer
      <3> QED BY <2>1, <2>2, <3>1, OlderKept
    <2>4. CASE g = h
      <3>1. older' = older \cap (Dated' \X Dated')
        BY <1>3, <2>4, OlderStep DEF Updating, Writing
      <3> QED BY <2>1, <2>2, <3>1
    <2> QED BY <2>3, <2>4
  <1> QED BY <1>l, <1>2, <1>3, <1>4

LEMMA SettledStep ==
    ASSUME HInv, NEW h \in Handlers, StepOf(h)
    PROVE  SettledOlder'
  <1>h. /\ history \subseteq LogPairs /\ history \subseteq Nat \X Int
        /\ before \in [Handlers -> SUBSET (Nat \X Int)]
    BY DEF HInv, IInv, TypeOK, TablesTypeOK, ReadersTyped
  <1>s. settled' = {p \in settled \cup (before[h] \X (history' \ history)) :
                        p[1] \in history' /\ p[2] \in history'}
    BY DEF StepOf
  <1>0. settled' \subseteq history' \X history'
    <2>1. \A p \in settled \cup (before[h] \X (history' \ history)) : p = <<p[1], p[2]>>
      BY DEF HInv, SettledOlder
    <2> QED BY <1>s, <2>1
  <1> SUFFICES ASSUME NEW p \in settled' PROVE p \in older'
    BY <1>0 DEF SettledOlder
  <1>1. p[1] \in history' /\ p[2] \in history' /\ p[1] \in Dated' /\ p[2] \in Dated'
    BY <1>s DEF Dated
  <1>2. CASE p \in settled
    <2>1. p \in older /\ p[1] \in Dated /\ p[2] \in Dated /\ p = <<p[1], p[2]>>
      BY <1>2 DEF HInv, SettledOlder, Ordered
    <2>2. Own(h) \in Nat \X Int
      BY DEF Own, HInv, IInv, TypeOK, CallsTypeOK
    <2>3. history' \subseteq Nat \X Int
      BY <1>h, <2>2, OlderStep
    <2>4. p[1] # <<h>> /\ p[2] # <<h>>
      BY <1>1, <2>3, PairsDiffer
    <2> QED BY <1>1, <2>1, <2>4, OlderKept
  <1>3. CASE p \in before[h] \X (history' \ history)
    <2>1. p[1] \in before[h] /\ p[2] \in history' \ history /\ p = <<p[1], p[2]>>
      BY <1>3
    <2>2. /\ Own(h) \notin LogPairs /\ p[2] = Own(h)
          /\ history' = history \cup {Own(h)}
          /\ older' = {<<Renamed(h, q[1]), Renamed(h, q[2])>> : q \in older}
                          \cap (Dated' \X Dated')
      BY <2>1, OlderStep
    <2>3. p[1] \in LogPairs /\ (p[1] \in history => <<p[1], <<h>>>> \in older)
      BY <2>1 DEF HInv, BeforeOlder
    <2>4. p[1] \in history
      BY <1>1, <2>2, <2>3
    <2>5. p[1] # <<h>>
      BY <1>h, <2>4, PairsDiffer
    <2>6. PICK q : q = <<p[1], <<h>>>>
      OBVIOUS
    <2>7. q \in older /\ q[1] = p[1] /\ q[2] = <<h>>
      BY <2>3, <2>4, <2>6
    <2>8. <<Renamed(h, q[1]), Renamed(h, q[2])>> = p
      BY <2>1, <2>2, <2>5, <2>7 DEF Renamed
    <2>9. p \in Dated' \X Dated'
      BY <1>1, <2>1
    <2> QED BY <2>2, <2>7, <2>8, <2>9
  <1> QED BY <1>2, <1>3, <1>s

\* A commit settles the order of its own version only, which no answer names.
LEMMA ListedStep ==
    ASSUME HInv, NEW h \in Handlers, StepOf(h)
    PROVE  ListedKnown' /\ SettledOrder'
  <1>u. listed' = listed /\ row' = row /\ reading' = reading
    BY DEF StepOf, readers
  <1>l. LogPairs \subseteq LogPairs'
    BY OlderStep
  <1>1. ListedKnown'
    BY <1>u, <1>l DEF HInv, ListedKnown
  <1>2. ASSUME NEW r \in Readers, NEW i \in DOMAIN listed[r], NEW j \in DOMAIN listed[r],
               i < j, <<<<row[r], listed[r][i]>>, <<row[r], listed[r][j]>>>> \in settled'
        PROVE  FALSE
    <2>1. PICK p : p = <<<<row[r], listed[r][i]>>, <<row[r], listed[r][j]>>>>
      OBVIOUS
    <2>2. p[2] \in LogPairs
      BY <2>1 DEF HInv, ListedKnown
    <2>3. p \notin settled
      BY <1>2, <2>1 DEF HInv, SettledOrder
    <2>4. p \in before[h] \X (history' \ history)
      BY <1>2, <2>1, <2>3 DEF StepOf
    <2>5. p[2] \in history' \ history
      BY <2>4
    <2>6. p[2] \notin LogPairs
      BY <2>5, OlderStep
    <2> QED BY <2>2, <2>6
  <1> QED BY <1>1, <1>2, <1>u DEF SettledOrder

LEMMA StoreStep ==
    ASSUME HInv, NEW h \in Handlers, StepOf(h)
    PROVE  HInv'
  <1>1. IInv'
    <2>1. [Next]_vars
      BY DEF StepOf, Next
    <2> QED BY <2>1, InvStep DEF HInv
  <1>2. history' \subseteq LogPairs'
    BY OlderStep DEF HInv
  <1>3. ReadersTyped'
    <2>1. before' \in [Handlers -> SUBSET (Nat \X Int)]
      BY DEF StepOf, HInv, ReadersTyped
    <2> QED BY <2>1 DEF StepOf, readers, HInv, ReadersTyped
  <1> QED BY <1>1, <1>2, <1>3, OrderedStep, BeforeStep, SettledStep, ListedStep DEF HInv

-----------------------------------------------------------------------------
(* Steps of a reader *)

\* The history of a row is 1 .. latest_version, or empty if the row is gone.
LEMMA HistoryOfRow ==
    ASSUME IInv, NEW i \in Nat
    PROVE  /\ IsFiniteSet(HistoryOf(i)) /\ Cardinality(HistoryOf(i)) \in Nat
           /\ \A v \in HistoryOf(i) : <<i, v>> \in history
           /\ \A k \in Keys : cv[k].id = i => HistoryOf(i) = 1 .. cv[k].latest
  <1> USE DEF IInv, TypeOK, TablesTypeOK
  <1>1. ASSUME NEW v \in HistoryOf(i) PROVE <<i, v>> \in history /\ Live(i)
    <2>1. PICK p \in history : p[1] = i /\ p[2] = v
      BY <1>1 DEF HistoryOf
    <2>2. p = <<i, v>>
      BY <2>1
    <2> QED BY <2>1, <2>2 DEF TableInv, NoOrphans
  <1>2. ASSUME NEW k \in Keys, cv[k].id = i PROVE HistoryOf(i) = 1 .. cv[k].latest
    <2>1. CASE Exists(k)
      BY <1>2, <2>1, GaplessFromInv DEF VersionsGapless
    <2>2. CASE ~Exists(k)
      <3>1. i = 0 /\ cv[k] = NoRow
        BY <1>2, <2>2 DEF Exists, TableInv
      <3>2. cv[k].latest = 0
        BY <3>1 DEF NoRow
      <3>3. HistoryOf(i) = {}
        BY <1>1, <3>1 DEF Live
      <3> QED BY <3>2, <3>3
    <2> QED BY <2>1, <2>2
  <1>3. IsFiniteSet(HistoryOf(i))
    <2>1. CASE HistoryOf(i) = {}
      BY <2>1, FS_EmptySet
    <2>2. CASE HistoryOf(i) # {}
      <3>1. PICK k \in Keys : cv[k].id = i
        BY <2>2, <1>1 DEF Live
      <3>2. cv[k].latest \in Int
        BY DEF Row
      <3>3. IsFiniteSet(1 .. cv[k].latest)
        BY <3>2, FS_Interval
      <3> QED BY <1>2, <3>1, <3>3
    <2> QED BY <2>1, <2>2
  <1> QED BY <1>1, <1>2, <1>3, FS_CardinalityType

\* What HistoryRows answers is a part of the row's history, newest first, no
\* version twice, and all of it unless the limit is reached.
LEMMA NewestOf ==
    ASSUME HInv, NEW i \in Nat, NEW n \in Nat \ {0}, NEW s \in Newest(i, n)
    PROVE  /\ Versions(s) \subseteq HistoryOf(i)
           /\ Cardinality(Versions(s)) = Len(s)
           /\ Len(s) < n => Versions(s) = HistoryOf(i)
           /\ \A x, y \in DOMAIN s : x < y => <<<<i, s[y]>>, <<i, s[x]>>>> \in older
  <1>1. PICK all : all = HistoryOf(i)
    OBVIOUS
  <1>2. PICK count : count = IF n < Cardinality(all) THEN n ELSE Cardinality(all)
    OBVIOUS
  <1>3. IsFiniteSet(all) /\ Cardinality(all) \in Nat /\ count \in Nat
    BY <1>1, <1>2, HistoryOfRow DEF HInv
  <1>4. /\ s \in [1 .. count -> all]
        /\ \A x, y \in 1 .. count : x < y => <<<<i, s[y]>>, <<i, s[x]>>>> \in older
    BY <1>1, <1>2 DEF Newest
  <1>5. Len(s) = count /\ DOMAIN s = 1 .. count
    <2>1. s \in Seq(all)
      BY <1>3, <1>4
    <2> QED BY <1>3, <1>4, <2>1
  <1>6. \A x, y \in 1 .. count : s[x] = s[y] => x = y
    <2> SUFFICES ASSUME NEW x \in 1 .. count, NEW y \in 1 .. count, s[x] = s[y], x < y
                 PROVE  FALSE
      BY <1>3
    <2> QED BY <1>4 DEF HInv, Ordered
  <1>7. Versions(s) \subseteq all /\ \A x \in 1 .. count : s[x] \in Versions(s)
    BY <1>4, <1>5 DEF Versions
  <1>8. s \in Bijection(1 .. count, Versions(s))
    <2>1. s \in [1 .. count -> Versions(s)]
      BY <1>4, <1>7
    <2>2. \A v \in Versions(s) : \E x \in 1 .. count : s[x] = v
      BY <1>5 DEF Versions
    <2> QED BY <2>1, <2>2, <1>6 DEF Bijection, Injection, Surjection, IsInjective
  <1>9. Cardinality(Versions(s)) = count
    BY <1>3, <1>8, FS_CountingElements DEF ExistsBijection
  <1>10. Len(s) < n => Versions(s) = all
    <2> SUFFICES ASSUME count < n PROVE Versions(s) = all
      BY <1>5
    <2>1. count = Cardinality(all)
      BY <1>2, <1>3
    <2> QED BY <1>3, <1>7, <1>9, <2>1, FS_Subset
  <1> QED BY <1>1, <1>4, <1>5, <1>7, <1>9, <1>10

\* The rows that are fetched are the first ones of the result, or all.
LEMMA FetchedOf ==
    ASSUME HInv, NEW i \in Nat, NEW n \in Nat \ {0}, NEW full \in Newest(i, n),
           NEW s \in Fetched(full)
    PROVE  /\ DOMAIN s \subseteq DOMAIN full /\ \A x \in DOMAIN s : s[x] = full[x]
           /\ "row_stream" \notin Faults => s = full
  <1>1. PICK count \in Nat : full \in [1 .. count -> HistoryOf(i)]
    BY HistoryOfRow DEF HInv, Newest
  <1>2. full \in Seq(HistoryOf(i)) /\ Len(full) = count /\ DOMAIN full = 1 .. count
    BY <1>1
  <1>3. CASE "row_stream" \in Faults
    <2>1. PICK m \in 0 .. Len(full) : s = SubSeq(full, 1, m)
      BY <1>3 DEF Fetched
    <2> QED BY <1>2, <1>3, <2>1
  <1>4. CASE "row_stream" \notin Faults
    BY <1>4 DEF Fetched
  <1> QED BY <1>3, <1>4

\* What a reader leaves alone.
LEMMA StoreSame ==
    ASSUME HInv, UNCHANGED <<vars, times>>, ReadersTyped', ListedKnown', SettledOrder'
    PROVE  HInv'
  <1>1. IInv'
    BY InvStep DEF HInv
  <1>2. LogPairs' = LogPairs /\ Dated' = Dated /\ history' = history /\ at' = at
    BY DEF LogPairs, Dated, vars, times
  <1>3. begun' = begun /\ older' = older /\ before' = before /\ settled' = settled
    BY DEF times
  <1> QED BY <1>1, <1>2, <1>3 DEF HInv, Ordered, BeforeOlder, SettledOlder

LEMMA RowsStep ==
    ASSUME HInv, NEW r \in Readers, HistoryRows(r)
    PROVE  HInv'
  <1>a. PICK n \in Limits : \E full \in Newest(row[r], n) : \E s \in Fetched(full) :
            most' = [most EXCEPT ![r] = n] /\ listed' = [listed EXCEPT ![r] = s]
    BY DEF HistoryRows
  <1>b. PICK full \in Newest(row[r], n) : \E s \in Fetched(full) :
            most' = [most EXCEPT ![r] = n] /\ listed' = [listed EXCEPT ![r] = s]
    BY <1>a
  <1>1. PICK s \in Fetched(full) :
            most' = [most EXCEPT ![r] = n] /\ listed' = [listed EXCEPT ![r] = s]
    BY <1>b
  <1>u. /\ UNCHANGED <<vars, times>> /\ row' = row /\ log' = log /\ settled' = settled
        /\ reading' = [reading EXCEPT ![r] = "reply"]
    BY DEF HistoryRows, vars, times
  <1>n. n \in Nat \ {0}
    BY ReadersAssumption
  <1>t. row \in [Readers -> Nat] /\ DOMAIN listed = Readers
    BY DEF HInv, ReadersTyped
  <1>2. ReadersTyped'
    BY <1>1, <1>u, <1>n DEF HInv, ReadersTyped, times
  <1>f. /\ \A v \in Versions(full) : <<row[r], v>> \in history
        /\ \A x, y \in DOMAIN full :
              x < y => <<<<row[r], full[y]>>, <<row[r], full[x]>>>> \in older
    BY <1>n, <1>t, NewestOf, HistoryOfRow DEF HInv
  <1>p. DOMAIN s \subseteq DOMAIN full /\ \A x \in DOMAIN s : s[x] = full[x]
    BY <1>n, <1>t, FetchedOf
  <1>3. /\ \A v \in Versions(s) : <<row[r], v>> \in history
        /\ \A x, y \in DOMAIN s : x < y => <<<<row[r], s[y]>>, <<row[r], s[x]>>>> \in older
    BY <1>f, <1>p DEF Versions
  <1>4. \A i \in DOMAIN s : <<row[r], s[i]>> \in LogPairs
    BY <1>3 DEF Versions, HInv
  <1>5. \A x, y \in DOMAIN s : x < y => <<<<row[r], s[x]>>, <<row[r], s[y]>>>> \notin settled
    BY <1>3 DEF HInv, Ordered, SettledOlder
  <1>6. LogPairs' = LogPairs
    BY <1>u DEF LogPairs
  <1>7. \A q \in Readers : listed'[q] = IF q = r THEN s ELSE listed[q]
    BY <1>1, <1>t
  <1>8. ListedKnown'
    BY <1>4, <1>6, <1>7, <1>u DEF HInv, ListedKnown, ReadersTyped
  <1>9. SettledOrder'
    BY <1>5, <1>7, <1>u DEF HInv, SettledOrder
  <1> QED BY <1>2, <1>8, <1>9, <1>u, StoreSame

LEMMA ReaderStep ==
    ASSUME HInv, NEW r \in Readers, GetConfigHistory(r)
    PROVE  HInv'
  <1>t. /\ reading \in [Readers -> {"idle", "rows", "reply", "failed"}]
        /\ row \in [Readers -> Nat] /\ most \in [Readers -> Nat] /\ DOMAIN listed = Readers
    BY DEF HInv, ReadersTyped
  <1>1. ASSUME NEW k \in Keys, HistoryRow(r, k) PROVE HInv'
    <2>u. UNCHANGED <<vars, times>> /\ most' = most /\ listed' = listed
      BY <1>1 DEF HistoryRow
    <2>1. ReadersTyped'
      <3>1. cv[k].id \in Nat
        BY DEF HInv, IInv, TypeOK, TablesTypeOK, Row
      <3> QED BY <1>1, <2>u, <3>1 DEF HistoryRow, HInv, ReadersTyped, times
    <2>2. /\ listed[r] = <<>>
          /\ \A q \in Readers \ {r} : row'[q] = row[q] /\ reading'[q] = reading[q]
      BY <1>1, <1>t DEF HistoryRow, HInv, ListedKnown
    <2>3. LogPairs' = LogPairs /\ settled' = settled
      BY <2>u DEF LogPairs, vars, times
    <2>4. DOMAIN listed[r] = {}
      BY <2>2
    <2>5. ListedKnown'
      BY <2>u, <2>2, <2>3, <2>4 DEF HInv, ListedKnown
    <2>6. SettledOrder'
      BY <2>u, <2>2, <2>3, <2>4 DEF HInv, SettledOrder
    <2> QED BY <2>u, <2>1, <2>5, <2>6, StoreSame
  <1>2. CASE HistoryRows(r)
    BY <1>2, RowsStep
  <1>3. CASE HistoryFails(r) \/ HistoryReturn(r)
    <2>u. UNCHANGED <<vars, times>>
      BY <1>3 DEF HistoryFails, HistoryReturn
    <2>1. ReadersTyped'
      <3>1. /\ before' = before /\ before \in [Handlers -> SUBSET (Nat \X Int)]
            /\ begun' = begun /\ begun \subseteq Handlers
        BY <2>u DEF times, HInv, ReadersTyped
      <3>2. CASE HistoryFails(r)
        BY <1>t, <3>1, <3>2 DEF HistoryFails, ReadersTyped
      <3>3. CASE HistoryReturn(r)
        BY <1>t, <3>1, <3>3 DEF HistoryReturn, ReadersTyped
      <3> QED BY <1>3, <3>2, <3>3
    <2>2. /\ \A q \in Readers \ {r} : /\ row'[q] = row[q] /\ reading'[q] = reading[q]
                                      /\ listed'[q] = listed[q]
          /\ listed'[r] = <<>>
      BY <1>3, <1>t DEF HistoryFails, HistoryReturn, HInv, ListedKnown
    <2>3. LogPairs' = LogPairs /\ settled' = settled
      BY <2>u DEF LogPairs, vars, times
    <2>4. DOMAIN listed'[r] = {}
      BY <2>2
    <2>5. ListedKnown'
      BY <2>2, <2>3, <2>4 DEF HInv, ListedKnown
    <2>6. SettledOrder'
      BY <2>2, <2>3, <2>4 DEF HInv, SettledOrder
    <2> QED BY <2>u, <2>1, <2>5, <2>6, StoreSame
  <1> QED BY <1>1, <1>2, <1>3 DEF GetConfigHistory

-----------------------------------------------------------------------------
(* BEGIN, and the update that ends right after it *)

LEMMA BeginStep ==
    ASSUME HInv, NEW h \in Handlers, Begin(h)
    PROVE  HInv'
  <1>u. UNCHANGED vars /\ settled' = settled /\ UNCHANGED readers
    BY DEF Begin
  <1>1. IInv'
    BY <1>u, InvStep DEF HInv
  <1>2. LogPairs' = LogPairs /\ history' = history
    BY <1>u DEF LogPairs, vars
  <1>3. /\ begun' = begun \cup {h} /\ h \notin begun
        /\ older' = older \cup (Dated \X {<<h>>})
        /\ before' = [before EXCEPT ![h] = history]
    BY DEF Begin
  <1>h. history \subseteq LogPairs /\ history \subseteq Nat \X Int
    BY DEF HInv, IInv, TypeOK, TablesTypeOK
  <1>4. Dated' = Dated \cup {<<h>>}
    BY <1>2, <1>3 DEF Dated
  <1>5. <<h>> \notin Dated
    BY <1>3, DatedThings
  <1>6. ReadersTyped'
    <2>1. before' \in [Handlers -> SUBSET (Nat \X Int)]
      BY <1>3, <1>h DEF HInv, ReadersTyped
    <2> QED BY <1>u, <1>3, <2>1 DEF readers, HInv, ReadersTyped
  <1>7. Ordered'
    <2>1. older \subseteq Dated \X Dated
      BY DEF HInv, Ordered
    <2>2. older' \subseteq Dated' \X Dated'
      BY <1>3, <1>4, <2>1
    <2> SUFFICES ASSUME NEW x, NEW y, <<x, y>> \in older', <<y, x>> \in older'
                 PROVE  FALSE
      BY <2>2 DEF Ordered
    <2>3. <<x, y>> \in older \/ (x \in Dated /\ y = <<h>>)
      BY <1>3
    <2>4. <<y, x>> \in older \/ (y \in Dated /\ x = <<h>>)
      BY <1>3
    <2>5. <<x, y>> \in older => x \in Dated /\ y \in Dated
      BY <2>1
    <2>6. <<y, x>> \in older => x \in Dated /\ y \in Dated
      BY <2>1
    <2>7. ~ (<<x, y>> \in older /\ <<y, x>> \in older)
      BY DEF HInv, Ordered
    <2> QED BY <1>5, <2>3, <2>4, <2>5, <2>6, <2>7
  <1>8. BeforeOlder'
    <2> SUFFICES ASSUME NEW g \in Handlers, NEW x \in before'[g]
                 PROVE  /\ g \in begun' /\ x \in LogPairs'
                        /\ x \in history' => <<x, <<g>>>> \in older'
      BY DEF BeforeOlder
    <2>1. CASE g = h
      <3>1. x \in history
        BY <1>3, <2>1 DEF HInv, ReadersTyped
      <3>2. x \in Dated
        BY <3>1 DEF Dated
      <3> QED BY <1>2, <1>3, <1>h, <2>1, <3>1, <3>2
    <2>2. CASE g # h
      <3>1. x \in before[g]
        BY <1>3, <2>2 DEF HInv, ReadersTyped
      <3> QED BY <1>2, <1>3, <3>1 DEF HInv, BeforeOlder
    <2> QED BY <2>1, <2>2
  <1>9. SettledOlder'
    BY <1>u, <1>2, <1>3 DEF HInv, SettledOlder
  <1>10. ListedKnown' /\ SettledOrder'
    BY <1>u, <1>2 DEF readers, HInv, ListedKnown, SettledOrder
  <1> QED BY <1>1, <1>2, <1>h, <1>6, <1>7, <1>8, <1>9, <1>10 DEF HInv

LEMMA BeginFailsStep ==
    ASSUME HInv, NEW h \in Handlers, BeginFails(h)
    PROVE  HInv'
  <1>u. UNCHANGED vars /\ settled' = settled /\ UNCHANGED readers
    BY DEF BeginFails
  <1>1. IInv'
    BY <1>u, InvStep DEF HInv
  <1>2. LogPairs' = LogPairs /\ history' = history
    BY <1>u DEF LogPairs, vars
  <1>3. /\ begun' = begun \ {h}
        /\ older' = {p \in older : p[1] # <<h>> /\ p[2] # <<h>>}
        /\ before' = [before EXCEPT ![h] = {}]
    BY DEF BeginFails
  <1>h. history \subseteq LogPairs /\ history \subseteq Nat \X Int
    BY DEF HInv, IInv, TypeOK, TablesTypeOK
  <1>4. \A x \in Dated : x # <<h>> => x \in Dated'
    BY <1>2, <1>3 DEF Dated
  <1>5. ReadersTyped'
    <2>1. before' \in [Handlers -> SUBSET (Nat \X Int)]
      BY <1>3 DEF HInv, ReadersTyped
    <2> QED BY <1>u, <1>3, <2>1 DEF readers, HInv, ReadersTyped
  <1>6. Ordered'
    <2>1. older \subseteq Dated \X Dated
      BY DEF HInv, Ordered
    <2>2. older' \subseteq Dated' \X Dated'
      BY <1>3, <1>4, <2>1
    <2> QED BY <1>3, <2>2 DEF HInv, Ordered
  <1>7. BeforeOlder'
    <2> SUFFICES ASSUME NEW g \in Handlers, NEW x \in before'[g]
                 PROVE  /\ g \in begun' /\ x \in LogPairs'
                        /\ x \in history' => <<x, <<g>>>> \in older'
      BY DEF BeforeOlder
    <2>1. g # h /\ x \in before[g]
      BY <1>3 DEF HInv, ReadersTyped
    <2>2. g \in begun /\ x \in LogPairs /\ (x \in history => <<x, <<g>>>> \in older)
      BY <2>1 DEF HInv, BeforeOlder
    <2>3. ASSUME x \in history PROVE <<x, <<g>>>> \in older'
      <3>1. x # <<h>> /\ <<g>> # <<h>>
        BY <1>h, <2>1, <2>3, PairsDiffer
      <3>2. PICK p : p = <<x, <<g>>>>
        OBVIOUS
      <3>3. p \in older /\ p[1] = x /\ p[2] = <<g>>
        BY <2>2, <2>3, <3>2
      <3> QED BY <1>3, <3>1, <3>2, <3>3
    <2> QED BY <1>2, <1>3, <2>1, <2>2, <2>3
  <1>8. SettledOlder'
    <2>1. ASSUME NEW p \in settled PROVE p \in older'
      <3>1. p \in older /\ p[1] \in history /\ p[2] \in history
        BY <2>1 DEF HInv, SettledOlder
      <3>2. p[1] # <<h>> /\ p[2] # <<h>>
        BY <1>h, <3>1, PairsDiffer
      <3> QED BY <1>3, <3>1, <3>2
    <2> QED BY <1>u, <1>2, <2>1 DEF HInv, SettledOlder
  <1>9. ListedKnown' /\ SettledOrder'
    BY <1>u, <1>2 DEF readers, HInv, ListedKnown, SettledOrder
  <1> QED BY <1>1, <1>2, <1>h, <1>5, <1>6, <1>7, <1>8, <1>9 DEF HInv

-----------------------------------------------------------------------------
(* The invariant *)

LEMMA HistoryInit == HInit => HInv
  <1> SUFFICES ASSUME HInit PROVE HInv
    OBVIOUS
  <1>1. IInv
    BY InvInit DEF HInit
  <1>2. history = {}
    BY DEF HInit, Init
  <1>3. ReadersTyped
    BY DEF HInit, ReadersTyped
  <1>4. Ordered /\ BeforeOlder /\ SettledOlder
    BY DEF HInit, Ordered, BeforeOlder, SettledOlder
  <1>5. \A r \in Readers : listed[r] = <<>> /\ DOMAIN listed[r] = {}
    BY DEF HInit
  <1>6. ListedKnown /\ SettledOrder
    BY <1>5 DEF ListedKnown, SettledOrder
  <1> QED BY <1>1, <1>2, <1>3, <1>4, <1>6 DEF HInv

LEMMA HistoryStep == HInv /\ [HNext]_hvars => HInv'
  <1> SUFFICES ASSUME HInv, [HNext]_hvars PROVE HInv'
    OBVIOUS
  <1>1. ASSUME UNCHANGED hvars PROVE HInv'
    <2>1. UNCHANGED <<vars, times>> /\ UNCHANGED readers
      BY <1>1 DEF hvars
    <2>2. LogPairs' = LogPairs /\ settled' = settled /\ before' = before /\ begun' = begun
      BY <2>1 DEF LogPairs, vars, times
    <2>3. ReadersTyped' /\ ListedKnown' /\ SettledOrder'
      BY <2>1, <2>2 DEF readers, HInv, ReadersTyped, ListedKnown, SettledOrder
    <2> QED BY <2>1, <2>3, StoreSame
  <1> QED BY <1>1, BeginStep, BeginFailsStep, StoreStep, ReaderStep DEF HNext

-----------------------------------------------------------------------------
(* Theorems *)

\* In every reachable state the times of history rows and open updates are a
\* strict order that agrees with the order of commits where updates did not
\* overlap, and an answer names committed versions only (created_at DEFAULT
\* CURRENT_TIMESTAMP, migrations; GetConfigHistory, config_handlers.go:313-354).
THEOREM HistoryInvariance == HSpec => []HInv
  BY HistoryInit, HistoryStep, PTL DEF HSpec

\* A history never lists a version above one that was committed after it,
\* when the later update began after that commit (ORDER BY created_at DESC,
\* config_handlers.go:329-330).
THEOREM Settled == HSpec => []SettledOrder
  <1>1. HInv => SettledOrder
    BY DEF HInv
  <1> QED BY <1>1, HistoryInvariance, PTL

\* As long as no result set is cut short, a history is all of one row's
\* versions or its limit's worth of them, none twice, whatever is committed or
\* deleted between the two statements (GetConfigHistory,
\* config_handlers.go:313-354).
THEOREM WholeHistory ==
    ASSUME "row_stream" \notin Faults
    PROVE  HSpec => HistoryIsWhole
  <1>1. HInv /\ [HNext]_hvars =>
           [\A r \in Readers : Answered(r) =>
               LET all == HistoryOf(row[r])
               IN  /\ Versions(listed'[r]) \subseteq all
                   /\ Cardinality(Versions(listed'[r])) = Len(listed'[r])
                   /\ Len(listed'[r]) < most'[r] => Versions(listed'[r]) = all
                   /\ \A k \in Keys : cv[k].id = row[r] /\ Len(listed'[r]) < most'[r] =>
                          Versions(listed'[r]) = 1 .. cv[k].latest]_hvars
    <2> SUFFICES ASSUME HInv, [HNext]_hvars, NEW r \in Readers, Answered(r)
                 PROVE  /\ Versions(listed'[r]) \subseteq HistoryOf(row[r])
                        /\ Cardinality(Versions(listed'[r])) = Len(listed'[r])
                        /\ Len(listed'[r]) < most'[r] => Versions(listed'[r]) = HistoryOf(row[r])
                        /\ \A k \in Keys : cv[k].id = row[r] /\ Len(listed'[r]) < most'[r] =>
                               Versions(listed'[r]) = 1 .. cv[k].latest
      OBVIOUS
    <2>t. /\ reading \in [Readers -> {"idle", "rows", "reply", "failed"}]
          /\ row \in [Readers -> Nat] /\ most \in [Readers -> Nat] /\ DOMAIN listed = Readers
      BY DEF HInv, ReadersTyped
    <2>1. HistoryRows(r)
      <3>1. reading'[r] # reading[r]
        BY DEF Answered
      <3>2. ~ UNCHANGED hvars
        BY <3>1 DEF hvars, readers
      <3>3. \A h \in Handlers : ~ (Begin(h) \/ BeginFails(h) \/ StepOf(h))
        BY <3>1 DEF Begin, BeginFails, StepOf, readers
      <3>4. ASSUME NEW q \in Readers, GetConfigHistory(q) PROVE HistoryRows(r)
        <4>1. q = r
          BY <2>t, <3>1, <3>4 DEF GetConfigHistory, HistoryRow, HistoryRows, HistoryFails,
                                  HistoryReturn
        <4> QED BY <2>t, <3>4, <4>1 DEF Answered, GetConfigHistory, HistoryRow, HistoryFails,
                                        HistoryReturn
      <3> QED BY <3>2, <3>3, <3>4 DEF HNext
    <2>p. PICK n \in Limits : \E s \in Newest(row[r], n) :
              most' = [most EXCEPT ![r] = n] /\ listed' = [listed EXCEPT ![r] = s]
      BY <2>1 DEF HistoryRows, Fetched
    <2>2. PICK s \in Newest(row[r], n) :
              most' = [most EXCEPT ![r] = n] /\ listed' = [listed EXCEPT ![r] = s]
      BY <2>p
    <2>3. listed'[r] = s /\ most'[r] = n /\ n \in Nat \ {0} /\ row[r] \in Nat
      BY <2>2, <2>t, ReadersAssumption
    <2>4. /\ Versions(s) \subseteq HistoryOf(row[r])
          /\ Cardinality(Versions(s)) = Len(s)
          /\ Len(s) < n => Versions(s) = HistoryOf(row[r])
      BY <2>2, <2>3, NewestOf
    <2>5. \A k \in Keys : cv[k].id = row[r] => HistoryOf(row[r]) = 1 .. cv[k].latest
      BY <2>3, HistoryOfRow DEF HInv
    <2> QED BY <2>3, <2>4, <2>5
  <1> QED BY <1>1, HistoryInvariance, PTL DEF HSpec, HistoryIsWhole
=============================================================================
