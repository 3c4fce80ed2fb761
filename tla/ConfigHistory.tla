--------------------------- MODULE ConfigHistory ---------------------------
(***************************************************************************)
(* GetConfigHistory over the store of ConfigStore. The rows of the history *)
(* carry created_at, which PostgreSQL sets to the time at which the        *)
(* transaction began, not at which it was committed, and the list is       *)
(* ordered by it. Only the order of these times matters: older relates any *)
(* two of the history rows and of the updates that may still write one.    *)
(***************************************************************************)
EXTENDS ConfigStore

CONSTANTS
    Readers,   \* concurrent GetConfigHistory calls
    Limits     \* their limits, after the default has been put in

ASSUME ReadersAssumption == Limits \subseteq Nat \ {0}

VARIABLES
    begun,     \* the handlers whose updates have sent BEGIN and are still open
    older,     \* created_at: pairs of dated things, the first of them older
    reading,   \* the next statement of each reader
    row,       \* the row id it found
    most,      \* its limit
    listed,    \* the versions it was given, in order
    before,    \* ghost: the history when each open update began
    settled    \* ghost: pairs of history rows, the first committed before the
               \* update of the second began

readers == <<reading, row, most, listed>>
times   == <<begun, older, before, settled>>
hvars   == <<vars, times, readers>>

HInit ==
    /\ Init
    /\ begun   = {}
    /\ older   = {}
    /\ reading = [r \in Readers |-> "idle"]
    /\ row     = [r \in Readers |-> 0]
    /\ most    = [r \in Readers |-> 1]
    /\ listed  = [r \in Readers |-> <<>>]
    /\ before  = [h \in Handlers |-> {}]
    /\ settled = {}

-----------------------------------------------------------------------------
(* The times of history rows *)

Updating == {"update.lock", "update.insert"} \cup Writing

\* What has a time: open updates, <<h>> for that of h, and history rows.
Dated == {<<h>> : h \in begun} \cup history

\* s.db.BeginTx of UpdateConfig sends BEGIN, which fixes the time of h.
Begin(h) ==
    /\ at[h] = "idle" /\ h \notin begun
    /\ begun'  = begun \cup {h}
    /\ older'  = older \cup (Dated \X {<<h>>})
    /\ before' = [before EXCEPT ![h] = history]
    /\ UNCHANGED <<vars, settled, readers>>

\* The SELECT after it fails, and the call has had no effect.
BeginFails(h) ==
    /\ "statement" \in Faults
    /\ at[h] = "idle" /\ h \in begun
    /\ begun'  = begun \ {h}
    /\ older'  = {p \in older : p[1] # <<h>> /\ p[2] # <<h>>}
    /\ before' = [before EXCEPT ![h] = {}]
    /\ UNCHANGED <<vars, settled, readers>>

\* A step of h, and what it does to created_at: after BEGIN comes the SELECT
\* of UpdateConfig, a new row takes over the time of its transaction, a failed
\* transaction or a deleted row is forgotten.
StepOf(h) ==
    LET own     == <<rid[h], ver[h]>>
        commits == own \in history' \ history
        Stamped(x) == IF commits /\ x = <<h>> THEN own ELSE x
    IN  /\ Step(h)
        /\ at[h] = "idle" => (h \in begun <=> at'[h] \in Updating)
        /\ begun' = IF at'[h] \in Updating THEN begun ELSE begun \ {h}
        /\ older' = {<<Stamped(p[1]), Stamped(p[2])>> : p \in older} \cap (Dated' \X Dated')
        /\ before' = [before EXCEPT ![h] = IF at'[h] \in Updating THEN @ ELSE {}]
        /\ settled' = {p \in settled \cup (before[h] \X (history' \ history)) :
                          p[1] \in history' /\ p[2] \in history'}
        /\ UNCHANGED readers

-----------------------------------------------------------------------------
(* GetConfigHistory: two statements, no transaction. *)

\* SELECT id; without a row the answer is empty.
HistoryRow(r, k) ==
    /\ reading[r] = "idle"
    /\ reading' = [reading EXCEPT ![r] = IF Exists(k) THEN "rows" ELSE "reply"]
    /\ row'     = [row EXCEPT ![r] = cv[k].id]
    /\ UNCHANGED <<vars, times, most, listed>>

\* Mutant of Newest: ORDER BY created_at without DESC.
NewestAscending(i, n) ==
    LET all   == HistoryOf(i)
        count == IF n < Cardinality(all) THEN n ELSE Cardinality(all)
        Newer(u, v) == <<<<i, u>>, <<i, v>>>> \in older
    IN  {s \in [1 .. count -> all] :
            /\ \A x, y \in 1 .. count : x < y => Newer(s[x], s[y])
            /\ \A v \in all \ {s[x] : x \in 1 .. count} : \A x \in 1 .. count : Newer(s[x], v)}

\* ORDER BY created_at DESC LIMIT n: at most n versions of row i, newest
\* first, and none left out that is newer than one of them.
Newest(i, n) ==
    LET all   == HistoryOf(i)
        count == IF n < Cardinality(all) THEN n ELSE Cardinality(all)
        Newer(u, v) == <<<<i, v>>, <<i, u>>>> \in older
    IN  {s \in [1 .. count -> all] :
            /\ \A x, y \in 1 .. count : x < y => Newer(s[x], s[y])
            /\ \A v \in all \ {s[x] : x \in 1 .. count} : \A x \in 1 .. count : Newer(s[x], v)}

\* Mutant of HistoryRows: LIMIT is off by one.
HistoryRowsOneLess(r) ==
    /\ reading[r] = "rows"
    /\ reading' = [reading EXCEPT ![r] = "reply"]
    /\ \E n \in Limits : \E s \in Newest(row[r], n - 1) :
          most' = [most EXCEPT ![r] = n] /\ listed' = [listed EXCEPT ![r] = s]
    /\ UNCHANGED <<vars, times, row>>

\* What the loop over the rows gets: rows.Err() is not looked at after it.
Fetched(s) ==
    IF "row_stream" \in Faults THEN {SubSeq(s, 1, m) : m \in 0 .. Len(s)} ELSE {s}

\* SELECT version, ..., where limit is read
HistoryRows(r) ==
    /\ reading[r] = "rows"
    /\ reading' = [reading EXCEPT ![r] = "reply"]
    /\ \E n \in Limits : \E s \in Newest(row[r], n) : \E got \in Fetched(s) :
          most' = [most EXCEPT ![r] = n] /\ listed' = [listed EXCEPT ![r] = got]
    /\ UNCHANGED <<vars, times, row>>

HistoryFails(r) ==
    /\ "statement" \in Faults
    /\ reading[r] = "rows"
    /\ reading' = [reading EXCEPT ![r] = "failed"]
    /\ UNCHANGED <<vars, times, row, most, listed>>

HistoryReturn(r) ==
    /\ reading[r] \in {"reply", "failed"}
    /\ reading' = [reading EXCEPT ![r] = "idle"]
    /\ row'     = [row EXCEPT ![r] = 0]
    /\ most'    = [most EXCEPT ![r] = 1]
    /\ listed'  = [listed EXCEPT ![r] = <<>>]
    /\ UNCHANGED <<vars, times>>

GetConfigHistory(r) ==
    \/ \E k \in Keys : HistoryRow(r, k)
    \/ HistoryRows(r) \/ HistoryFails(r) \/ HistoryReturn(r)

HNext ==
    \/ \E h \in Handlers : Begin(h) \/ BeginFails(h) \/ StepOf(h)
    \/ \E r \in Readers : GetConfigHistory(r)

HSpec == HInit /\ [][HNext]_hvars

-----------------------------------------------------------------------------
(* Properties *)

Answered(r) == reading[r] = "rows" /\ reading'[r] = "reply"
Versions(s) == {s[i] : i \in DOMAIN s}

\* A history is of one configuration, names no version twice, leaves none out
\* within the limit, and has no gap when the limit is not reached: it is all
\* of the row, or nothing of a row that was deleted between the two reads
\* (GetConfigHistory, config_handlers.go:313-354).
HistoryIsWhole == [][\A r \in Readers : Answered(r) =>
    LET all == HistoryOf(row[r])
    IN  /\ Versions(listed'[r]) \subseteq all
        /\ Cardinality(Versions(listed'[r])) = Len(listed'[r])
        /\ Len(listed'[r]) < most'[r] => Versions(listed'[r]) = all
        /\ \A k \in Keys : cv[k].id = row[r] /\ Len(listed'[r]) < most'[r] =>
               Versions(listed'[r]) = 1 .. cv[k].latest]_hvars

\* What was committed before an update began is listed below it: versions are
\* out of order in a history only if their updates overlapped
\* (ORDER BY created_at DESC, config_handlers.go:329-330).
SettledOrder == \A r \in Readers : \A i, j \in DOMAIN listed[r] :
    i < j => <<<<row[r], listed[r][i]>>, <<row[r], listed[r][j]>>>> \notin settled
=============================================================================
