------------------------ MODULE TemplateStoreProofs ------------------------
(***************************************************************************)
(* Proofs about TemplateStore for any groups, definitions, seeds, calls,   *)
(* faults and crashes. The heart of the invariant is Inserted: what a      *)
(* transaction has inserted is a prefix of the definition it applies. From *)
(* it follows that only whole definitions are stored, that every answer    *)
(* comes from one of them, and the refinement of TemplateRegister. Another *)
(* invariant, SeedInv, follows the seeds until the server serves.          *)
(***************************************************************************)
EXTENDS TemplateStore, SequenceTheorems, TLAPS

USE BatchesAssumption, SeedsAssumption, WorkersAssumption, FieldsAssumption, StartsAssumption

-----------------------------------------------------------------------------
(* The invariant *)

\* The definitions that are applied.
Known == Rows(Seeds) \cup UNION {Rows(b) : b \in Batches}

BatchCall    == [op : {"batch"}, size : Nat]
TemplateCall == [op : {"template"}, group : Groups, label : Labels, fields : SUBSET FieldRow,
                 cut : BOOLEAN]
DefaultsCall == [op : {"defaults"}, group : Groups, scope : Scopes, paths : SUBSET Paths,
                 answer : SUBSET [path : Paths, value : Defaults], cut : BOOLEAN]
ListCall     == [op : {"list"}, groups : SUBSET Groups, active : SUBSET Groups]
CallsMade    == {NoCall} \cup [op : {"not found"}] \cup BatchCall \cup TemplateCall
                    \cup DefaultsCall \cup ListCall

Working == Applying \cup {"apply.next"}

\* The fields b inserted and those still to insert, t, are the fields c of a
\* definition, and those inserted pass the constraints.
Splits(c, t, b) ==
    \E n \in 0 .. Len(c) :
        /\ Len(t) = Len(c) - n
        /\ \A i \in 1 .. Len(t) : t[i] = c[n + i]
        /\ b = {c[i] : i \in 1 .. n}
        /\ \A i, j \in 1 .. n : c[i].path = c[j].path => i = j
        /\ \A i \in 1 .. n : c[i].scopes \subseteq Scopes

Inserted(p) == Splits(Converted(source[p], Head(queue[p]).fields), todo[p], buf[p])

\* What a process has still to apply.
QueueInv(p) ==
    /\ Rows(queue[p]) \subseteq Known
    /\ at[p] \in Applying => queue[p] # <<>> /\ Head(queue[p]).group # NoGroup
    /\ at[p] = "apply.fields" => Inserted(p)

\* What it has applied: a loader of files stops at a failure.
ResultInv(p) ==
    \A i \in DOMAIN results[p] :
        /\ results[p][i].status = "ok" => results[p][i].committed
        /\ results[p][i].status = "error" /\ source[p] = "file" =>
               i = Len(results[p]) /\ queue[p] = <<>>

\* The results of a call and its queue are the batch, or it has given up.
BatchInv(w) ==
    /\ at[w] \notin Working \cup {"reply"} => results[w] = <<>>
    /\ at[w] \in Working => call[w] \in BatchCall
    /\ at[w] = "reply" /\ call[w].op = "batch" => queue[w] = <<>>
    /\ at[w] \in Working \/ (at[w] = "reply" /\ call[w].op = "batch") =>
          \/ Len(results[w]) + Len(queue[w]) = call[w].size
          \/ /\ source[w] = "file" /\ queue[w] = <<>>
             /\ results[w][Len(results[w])].status = "error"

\* A call between its two statements has found the row of its group.
ReadInv(w) ==
    /\ at[w] = "template.fields" => call[w] \in TemplateCall /\ Exists(call[w].group)
    /\ at[w] = "defaults.fields" => call[w] \in DefaultsCall /\ Exists(call[w].group)
    /\ at[w] = "list.active"     => call[w] \in ListCall

\* Each stored template is a whole definition.
StoredWhole ==
    \A g \in Groups : Exists(g) =>
        \E d \in Contents(g) : d.label = template[g].label /\ d.fields = fields[g]

IInv ==
    /\ TypeOK
    /\ call \in [Workers -> CallsMade]
    /\ \A p \in Processes : QueueInv(p) /\ ResultInv(p)
    /\ \A w \in Workers : BatchInv(w) /\ ReadInv(w)
    /\ StoredWhole
    /\ AnswersOfOneDefinition

-----------------------------------------------------------------------------
(* The operators *)

\* A conversion keeps number, order and paths of the fields.
LEMMA Conversion ==
    ASSUME NEW src \in Sources, NEW fs \in Seq(FieldRow)
    PROVE  /\ Converted(src, fs) \in Seq(FieldRow)
           /\ Len(Converted(src, fs)) = Len(fs)
           /\ \A i \in 1 .. Len(fs) : Converted(src, fs)[i].path = fs[i].path
  <1>1. \A f \in FieldRow : ImportedField(f) \in FieldRow /\ ImportedField(f).path = f.path
    BY DEF ImportedField, FieldRow
  <1>2. \A f \in FieldRow : LoadedField(f) \in FieldRow /\ LoadedField(f).path = f.path
    <2> SUFFICES ASSUME NEW f \in FieldRow
                 PROVE  LoadedField(f) \in FieldRow /\ LoadedField(f).path = f.path
      OBVIOUS
    <2>1. {IF s \in Scopes THEN s ELSE Unspecified : s \in f.scopes}
              \in SUBSET (ScopeNames \cup {Unspecified})
      BY DEF ScopeNames
    <2> QED BY <2>1 DEF LoadedField, FieldRow
  <1> QED BY <1>1, <1>2 DEF Converted

LEMMA SplitStart ==
    ASSUME NEW c \in Seq(FieldRow)
    PROVE  Splits(c, c, {})
  <1>1. /\ 0 \in 0 .. Len(c) /\ Len(c) = Len(c) - 0
        /\ \A i \in 1 .. Len(c) : c[i] = c[0 + i]
        /\ \A i \in 1 .. 0 : FALSE
    OBVIOUS
  <1>2. {} = {c[i] : i \in 1 .. 0}
    OBVIOUS
  <1> QED BY <1>1, <1>2 DEF Splits

LEMMA SplitNext ==
    ASSUME NEW c \in Seq(FieldRow), NEW t \in Seq(FieldRow), NEW b,
           Splits(c, t, b), t # <<>>, Insertable(Head(t), b)
    PROVE  Splits(c, Tail(t), b \cup {Head(t)})
  <1> PICK n \in 0 .. Len(c) :
        /\ Len(t) = Len(c) - n
        /\ \A i \in 1 .. Len(t) : t[i] = c[n + i]
        /\ b = {c[i] : i \in 1 .. n}
        /\ \A i, j \in 1 .. n : c[i].path = c[j].path => i = j
        /\ \A i \in 1 .. n : c[i].scopes \subseteq Scopes
    BY DEF Splits
  <1>1. Head(t) = t[1] /\ 1 \in 1 .. Len(t) /\ Len(Tail(t)) = Len(t) - 1
        /\ \A i \in 1 .. Len(Tail(t)) : Tail(t)[i] = t[i + 1] /\ i + 1 \in 1 .. Len(t)
    OBVIOUS
  <1>2. Head(t) = c[n + 1] /\ n + 1 \in 0 .. Len(c) /\ Len(Tail(t)) = Len(c) - (n + 1)
    BY <1>1
  <1>3. \A i \in 1 .. Len(Tail(t)) : Tail(t)[i] = c[(n + 1) + i]
    BY <1>1
  <1>4. \A i \in 1 .. n + 1 : i \in 1 .. n \/ i = n + 1
    OBVIOUS
  <1>5. b \cup {Head(t)} = {c[i] : i \in 1 .. n + 1}
    BY <1>2, <1>4
  <1>6. \A i \in 1 .. n : c[i].path # c[n + 1].path
    BY <1>2 DEF Insertable
  <1>7. \A i, j \in 1 .. n + 1 : c[i].path = c[j].path => i = j
    BY <1>4, <1>6
  <1>8. \A i \in 1 .. n + 1 : c[i].scopes \subseteq Scopes
    BY <1>2, <1>4 DEF Insertable
  <1> QED BY <1>2, <1>3, <1>5, <1>7, <1>8 DEF Splits

LEMMA SplitEnd ==
    ASSUME NEW c \in Seq(FieldRow), NEW b, Splits(c, <<>>, b)
    PROVE  /\ b = Rows(c)
           /\ \A i, j \in 1 .. Len(c) : c[i].path = c[j].path => i = j
           /\ \A i \in 1 .. Len(c) : c[i].scopes \subseteq Scopes
  <1>1. Len(<<>>) = 0 /\ DOMAIN c = 1 .. Len(c) /\ Len(c) \in Nat
    OBVIOUS
  <1>2. \A m \in Nat : \A n \in 0 .. m : 0 = m - n => n = m
    OBVIOUS
  <1> QED BY <1>1, <1>2 DEF Splits, Rows

LEMMA KnownType == Known \subseteq Definition
  BY DEF Known, Rows

\* The head of a queue, and what is left without it.
LEMMA QueueHead ==
    ASSUME NEW q \in Seq(Definition), q # <<>>
    PROVE  /\ Head(q) \in Rows(q) /\ Head(q) \in Definition
           /\ Tail(q) \in Seq(Definition) /\ Len(Tail(q)) = Len(q) - 1
           /\ Rows(Tail(q)) \subseteq Rows(q)
           /\ \A i \in 1 .. Len(Tail(q)) : Tail(q)[i] = q[i + 1] /\ i + 1 \in 1 .. Len(q)
  <1>1. Head(q) = q[1] /\ 1 \in DOMAIN q
    OBVIOUS
  <1>2. /\ Tail(q) \in Seq(Definition) /\ Len(Tail(q)) = Len(q) - 1
        /\ \A i \in 1 .. Len(Tail(q)) : Tail(q)[i] = q[i + 1] /\ i + 1 \in 1 .. Len(q)
    OBVIOUS
  <1> QED BY <1>1, <1>2 DEF Rows

\* A row of config_template is not a missing one.
LEMMA RowExists ==
    ASSUME NEW l, NEW a
    PROVE  [label |-> l, active |-> a] # NoTemplate
  <1>1. "label" \in DOMAIN [label |-> l, active |-> a] /\ "label" \notin DOMAIN NoTemplate
    BY DEF NoTemplate
  <1> QED BY <1>1

\* A definition all of whose fields could be inserted is in the promise.
LEMMA Committable ==
    ASSUME NEW src \in Sources, NEW d \in Known, d.group # NoGroup,
           LET c == Converted(src, d.fields)
           IN  /\ \A i, j \in 1 .. Len(c) : c[i].path = c[j].path => i = j
               /\ \A i \in 1 .. Len(c) : c[i].scopes \subseteq Scopes
    PROVE  d.group \in Groups /\ Content(src, d) \in Contents(d.group)
  <1>1. d \in Definition /\ d.fields \in Seq(FieldRow) /\ d.group \in Groups
    BY KnownType DEF Definition
  <1>2. Sound(src, d)
    <2> PICK fs \in Seq(FieldRow) : fs = d.fields
      BY <1>1
    <2> PICK c \in Seq(FieldRow) : c = Converted(src, fs)
      BY Conversion
    <2>1. Len(c) = Len(fs) /\ \A i \in 1 .. Len(fs) : c[i].path = fs[i].path
      BY Conversion
    <2>2. \A i, j \in DOMAIN fs : fs[i].path = fs[j].path => i = j
      BY <2>1
    <2>3. \A f \in Rows(c) : f.scopes \subseteq Scopes
      BY DEF Rows
    <2> QED BY <2>2, <2>3 DEF Sound
  <1> DEFINE E == {x \in Sources \X (Rows(Seeds) \cup UNION {Rows(b) : b \in Batches}) :
                      x[2].group = d.group /\ Sound(x[1], x[2])}
  <1>3. <<src, d>> \in E
    BY <1>2 DEF Known
  <1>4. Content(<<src, d>>[1], <<src, d>>[2]) \in {Content(e[1], e[2]) : e \in E}
    BY <1>3, Zenon
  <1> QED BY <1>1, <1>4 DEF Contents

-----------------------------------------------------------------------------
(* Types *)

\* The part of TypeOK that applying changes.
ApplyingType ==
    /\ lock     \in [Groups -> Processes \cup {Nobody}]
    /\ source   \in [Processes -> Sources]
    /\ queue    \in [Processes -> Seq(Definition)]
    /\ todo     \in [Processes -> Seq(FieldRow)]
    /\ buf      \in [Processes -> SUBSET FieldRow]
    /\ results  \in [Processes -> Seq(Results)]

LEMMA OutcomeTypes ==
    ASSUME ApplyingType, at \in [Processes -> Stages], NEW p \in Processes, queue[p] # <<>>,
           NEW status \in {"ok", "error"}, NEW committed \in BOOLEAN,
           Outcome(p, status, committed)
    PROVE  ApplyingType' /\ at' \in [Processes -> Stages]
  <1>1. [status |-> status, committed |-> committed] \in Results
    BY DEF Results
  <1>2. Tail(queue[p]) \in Seq(Definition) /\ <<>> \in Seq(Definition) /\ <<>> \in Seq(FieldRow)
    BY QueueHead DEF ApplyingType
  <1>3. Append(results[p], [status |-> status, committed |-> committed]) \in Seq(Results)
    BY <1>1 DEF ApplyingType
  <1>4. at' \in [Processes -> Stages]
    BY DEF Outcome, Stages
  <1>5. results' \in [Processes -> Seq(Results)] /\ queue' \in [Processes -> Seq(Definition)]
    BY <1>2, <1>3 DEF Outcome, ApplyingType
  <1>6. lock' \in [Groups -> Processes \cup {Nobody}]
    BY DEF Outcome, ApplyingType
  <1>7. /\ todo' \in [Processes -> Seq(FieldRow)] /\ buf' \in [Processes -> SUBSET FieldRow]
        /\ source' \in [Processes -> Sources]
    BY <1>2 DEF Outcome, ApplyingType
  <1> QED BY <1>4, <1>5, <1>6, <1>7 DEF ApplyingType

TypeExceptCalls ==
    /\ server   \in {"seeding", "serving"}
    /\ starts   \in 1 .. MaxStarts
    /\ template \in [Groups -> {NoTemplate} \cup [label : Labels, active : BOOLEAN]]
    /\ fields   \in [Groups -> SUBSET FieldRow]
    /\ at       \in [Processes -> Stages]
    /\ ApplyingType

LEMMA TypeParts == TypeOK => TypeExceptCalls
  BY DEF TypeOK, TypeExceptCalls, ApplyingType

\* The current definition of a process that applies one.
LEMMA Current ==
    ASSUME IInv, NEW p \in Processes, at[p] \in Applying
    PROVE  /\ Head(queue[p]) \in Known /\ Head(queue[p]) \in Definition
           /\ Head(queue[p]).group \in Groups /\ Head(queue[p]).group # NoGroup
           /\ Head(queue[p]).fields \in Seq(FieldRow) /\ Head(queue[p]).label \in Labels
           /\ queue[p] \in Seq(Definition) /\ queue[p] # <<>>
  <1>1. queue[p] \in Seq(Definition) /\ queue[p] # <<>> /\ Rows(queue[p]) \subseteq Known
        /\ Head(queue[p]).group # NoGroup
    BY DEF IInv, QueueInv, TypeOK
  <1>2. Head(queue[p]) \in Known /\ Head(queue[p]) \in Definition
    BY <1>1, QueueHead
  <1> QED BY <1>1, <1>2 DEF Definition

LEMMA ApplyTypes ==
    ASSUME IInv, NEW p \in Processes,
           ApplyNext(p) \/ ApplyConfigTemplate(p) \/ ApplyFails(p)
    PROVE  TypeExceptCalls' /\ call' = call
  <1>0. TypeExceptCalls
    BY TypeParts DEF IInv
  <1>1. CASE ApplyNext(p)
    <2>1. CASE Outcome(p, "error", FALSE)
      BY <1>0, <1>1, <2>1, OutcomeTypes DEF ApplyNext, TypeExceptCalls, tables
    <2>2. CASE at' = [at EXCEPT ![p] = "apply.upsert"] /\ UNCHANGED applying
      BY <1>0, <1>1, <2>2 DEF ApplyNext, TypeExceptCalls, ApplyingType, applying, tables,
                              Stages, Applying
    <2> QED BY <1>1, <2>1, <2>2 DEF ApplyNext
  <1>2. CASE ApplyUpsert(p)
    <2>1. Head(queue[p]).group \in Groups
      BY <1>2, Current DEF ApplyUpsert, Applying
    <2> QED BY <1>0, <1>2, <2>1 DEF ApplyUpsert, TypeExceptCalls, ApplyingType, tables,
                                    Stages, Applying
  <1>3. CASE ApplyDelete(p)
    <2>1. Converted(source[p], Head(queue[p]).fields) \in Seq(FieldRow)
      BY <1>0, <1>3, Current, Conversion
         DEF ApplyDelete, Applying, TypeExceptCalls, ApplyingType
    <2> QED BY <1>0, <1>3, <2>1 DEF ApplyDelete, TypeExceptCalls, ApplyingType, tables,
                                    Stages, Applying
  <1>4. CASE ApplyField(p)
    <2>1. CASE Outcome(p, "error", FALSE)
      BY <1>0, <1>4, <2>1, OutcomeTypes, Current
         DEF ApplyField, TypeExceptCalls, tables, Applying
    <2>2. CASE /\ buf'  = [buf EXCEPT ![p] = @ \cup {Head(todo[p])}]
               /\ todo' = [todo EXCEPT ![p] = Tail(@)]
               /\ UNCHANGED <<lock, source, queue, results, at>>
      <3>1. Head(todo[p]) \in FieldRow /\ Tail(todo[p]) \in Seq(FieldRow)
        BY <1>0, <1>4 DEF ApplyField, TypeExceptCalls, ApplyingType
      <3> QED BY <1>0, <1>4, <2>2, <3>1 DEF ApplyField, TypeExceptCalls, ApplyingType, tables
    <2> QED BY <1>4, <2>1, <2>2 DEF ApplyField
  <1>5. CASE ApplyCommit(p)
    <2>1. ApplyingType' /\ at' \in [Processes -> Stages]
      BY <1>0, <1>5, OutcomeTypes, Current DEF ApplyCommit, TypeExceptCalls, Applying
    <2> DEFINE d == Head(queue[p])
    <2>2. d.group \in Groups /\ d.label \in Labels
      BY <1>5, Current DEF ApplyCommit, Applying
    <2>3. Exists(d.group) => template[d.group].active \in BOOLEAN
      BY <1>0, <2>2 DEF TypeExceptCalls, Exists
    <2> HIDE DEF d
    <2>4. [label |-> d.label, active |-> IF Exists(d.group) THEN template[d.group].active ELSE TRUE]
            \in [label : Labels, active : BOOLEAN]
      BY <2>2, <2>3
    <2>5. template' = [template EXCEPT ![d.group] =
              [label |-> d.label,
               active |-> IF Exists(d.group) THEN template[d.group].active ELSE TRUE]]
          /\ fields' = [fields EXCEPT ![d.group] = buf[p]]
      BY <1>5 DEF ApplyCommit, d
    <2>6. buf[p] \in SUBSET FieldRow
      BY <1>0 DEF TypeExceptCalls, ApplyingType
    <2>7. template' \in [Groups -> {NoTemplate} \cup [label : Labels, active : BOOLEAN]]
      BY <1>0, <2>4, <2>5 DEF TypeExceptCalls
    <2>8. fields' \in [Groups -> SUBSET FieldRow]
      BY <1>0, <2>5, <2>6 DEF TypeExceptCalls
    <2> QED BY <1>0, <1>5, <2>1, <2>7, <2>8 DEF ApplyCommit, TypeExceptCalls
  <1>6. CASE ApplyFails(p)
    <2>1. queue[p] # <<>>
      BY <1>6, Current DEF ApplyFails, Applying
    <2> QED BY <1>0, <1>6, <2>1, OutcomeTypes DEF ApplyFails, TypeExceptCalls, tables
  <1>7. call' = call
    BY DEF ApplyNext, ApplyConfigTemplate, ApplyUpsert, ApplyDelete, ApplyField, ApplyCommit,
           ApplyFails
  <1> QED BY <1>1, <1>2, <1>3, <1>4, <1>5, <1>6, <1>7 DEF ApplyConfigTemplate

LEMMA CallTypes ==
    ASSUME NEW c \in CallsMade
    PROVE  c.op \in {"none", "batch", "not found", "template", "defaults", "list"}
  <1>1. CASE c = NoCall
    BY <1>1 DEF NoCall
  <1>2. CASE c \in [op : {"not found"}]
    BY <1>2
  <1>3. CASE c \in BatchCall
    BY <1>3 DEF BatchCall
  <1>4. CASE c \in TemplateCall
    BY <1>4 DEF TemplateCall
  <1>5. CASE c \in DefaultsCall
    BY <1>5 DEF DefaultsCall
  <1>6. CASE c \in ListCall
    BY <1>6 DEF ListCall
  <1> QED BY <1>1, <1>2, <1>3, <1>4, <1>5, <1>6 DEF CallsMade

\* Steps of a call that only change its stage and what it has read.
LEMMA ReadingTypes ==
    ASSUME TypeExceptCalls, call \in [Workers -> CallsMade], NEW w \in Workers,
           NEW stage \in Stages, NEW c \in CallsMade, Reading(w, stage, c)
    PROVE  TypeExceptCalls' /\ call' \in [Workers -> CallsMade]
  BY DEF Reading, TypeExceptCalls, ApplyingType, applying, tables

LEMMA DefaultsType ==
    ASSUME NEW rows \in SUBSET FieldRow, NEW scope, NEW paths
    PROVE  DefaultsAt(rows, scope, paths) \in SUBSET [path : Paths, value : Defaults]
  BY DEF DefaultsAt, FieldRow

\* What DefaultsFields makes of a call.
LEMMA DefaultsRead ==
    ASSUME NEW c \in DefaultsCall, NEW scope \in Scopes, NEW paths \in SUBSET Paths,
           NEW a \in SUBSET [path : Paths, value : Defaults], NEW cut \in BOOLEAN
    PROVE  [c EXCEPT !.scope = scope, !.paths = paths, !.answer = a, !.cut = cut] \in DefaultsCall
  <1>1. PICK b \in DefaultsCall : b = [c EXCEPT !.scope = scope, !.paths = paths]
    <2>1. [c EXCEPT !.scope = scope, !.paths = paths] \in DefaultsCall
      BY DEF DefaultsCall
    <2> QED BY <2>1
  <1>2. [b EXCEPT !.answer = a, !.cut = cut] \in DefaultsCall
    BY DEF DefaultsCall
  <1>3. [c EXCEPT !.scope = scope, !.paths = paths, !.answer = a, !.cut = cut]
            = [b EXCEPT !.answer = a, !.cut = cut]
    BY <1>1 DEF DefaultsCall
  <1> QED BY <1>2, <1>3

LEMMA ReadTypes ==
    ASSUME IInv, NEW w \in Workers, Read(w) \/ ReadOn(w)
    PROVE  TypeExceptCalls' /\ call' \in [Workers -> CallsMade]
  <1>0. TypeExceptCalls /\ call \in [Workers -> CallsMade] /\ w \in Processes
    BY TypeParts DEF IInv, Processes
  <1>1. ASSUME NEW g \in Groups, TemplateRow(w, g)
        PROVE  TypeExceptCalls' /\ call' \in [Workers -> CallsMade]
    <2>1. CASE Exists(g)
      <3>1. template[g].label \in Labels
        BY <1>0, <2>1 DEF TypeExceptCalls, Exists
      <3>2. [op |-> "template", group |-> g, label |-> template[g].label, fields |-> {},
             cut |-> FALSE] \in CallsMade
        BY <3>1 DEF CallsMade, TemplateCall
      <3> QED BY <1>0, <1>1, <2>1, <3>2, ReadingTypes DEF TemplateRow, Stages
    <2>2. CASE ~Exists(g)
      <3>1. [op |-> "not found"] \in CallsMade
        BY DEF CallsMade
      <3> QED BY <1>0, <1>1, <2>2, <3>1, ReadingTypes DEF TemplateRow, Stages
    <2> QED BY <2>1, <2>2
  <1>2. CASE TemplateFields(w)
    <2>1. call[w] \in TemplateCall
      BY <1>2 DEF IInv, ReadInv, TemplateFields
    <2>2. fields[call[w].group] \in SUBSET FieldRow
      BY <1>0, <2>1 DEF TemplateCall, TypeExceptCalls
    <2> PICK got \in Fetched(fields[call[w].group]) :
          Reading(w, "reply", [call[w] EXCEPT !.fields = got,
                                              !.cut    = got # fields[call[w].group]])
      BY <1>2 DEF TemplateFields
    <2>3. got \in SUBSET FieldRow
      BY <2>2 DEF Fetched
    <2>4. \A cut \in BOOLEAN : [call[w] EXCEPT !.fields = got, !.cut = cut] \in TemplateCall
      BY <2>1, <2>3 DEF TemplateCall
    <2>5. [call[w] EXCEPT !.fields = got, !.cut = got # fields[call[w].group]] \in CallsMade
      BY <2>4 DEF CallsMade
    <2> QED BY <1>0, <2>5, ReadingTypes DEF Stages
  <1>3. ASSUME NEW g \in Groups, NEW method, NEW use, DefaultsRow(w, g, method, use)
        PROVE  TypeExceptCalls' /\ call' \in [Workers -> CallsMade]
    <2>1. [op |-> "defaults", group |-> g, scope |-> "SYSTEM", paths |-> {}, answer |-> {},
           cut |-> FALSE] \in CallsMade
      BY DEF CallsMade, DefaultsCall
    <2> QED BY <1>0, <1>3, <2>1, ReadingTypes DEF DefaultsRow, Stages
  <1>4. CASE DefaultsFields(w)
    <2>1. call[w] \in DefaultsCall
      BY <1>4 DEF IInv, ReadInv, DefaultsFields
    <2> PICK scope \in Scopes, paths \in {Paths} \cup {{q} : q \in Paths \ {NoPath}} :
          \E got \in Fetched(DefaultsAt(fields[call[w].group], scope, paths)) :
              Reading(w, "reply", [call[w] EXCEPT !.scope = scope, !.paths = paths,
                  !.answer = got, !.cut = got # DefaultsAt(fields[call[w].group], scope, paths)])
      BY <1>4 DEF DefaultsFields
    <2> PICK rows : rows = DefaultsAt(fields[call[w].group], scope, paths)
      OBVIOUS
    <2> PICK got \in Fetched(rows) :
          Reading(w, "reply", [call[w] EXCEPT !.scope = scope, !.paths = paths,
                                   !.answer = got, !.cut = got # rows])
      OBVIOUS
    <2>2. got \in SUBSET [path : Paths, value : Defaults]
      <3>1. rows \in SUBSET [path : Paths, value : Defaults]
        BY <1>0, <2>1, DefaultsType DEF DefaultsCall, TypeExceptCalls
      <3> QED BY <3>1 DEF Fetched
    <2>3. scope \in Scopes /\ paths \in SUBSET Paths /\ (got # rows) \in BOOLEAN
      OBVIOUS
    <2>4. [call[w] EXCEPT !.scope = scope, !.paths = paths, !.answer = got, !.cut = got # rows]
            \in CallsMade
      BY <2>1, <2>2, <2>3, DefaultsRead DEF CallsMade
    <2> QED BY <1>0, <2>4, ReadingTypes DEF Stages
  <1>5. ASSUME ListTemplates(w)
        PROVE  TypeExceptCalls' /\ call' \in [Workers -> CallsMade]
    <2>1. [op |-> "list", groups |-> {g \in Groups : Exists(g)}, active |-> {}]
            \in CallsMade
      BY DEF CallsMade, ListCall
    <2> QED BY <1>0, <1>5, <2>1, ReadingTypes DEF ListTemplates, Stages
  <1>6. CASE ListActive(w)
    <2>1. call[w] \in ListCall
      BY <1>6 DEF IInv, ReadInv, ListActive
    <2>2. \A known : [call[w] EXCEPT !.active =
              {g \in call[w].groups : g \in known => template[g].active}] \in CallsMade
      BY <2>1 DEF CallsMade, ListCall
    <2>3. PICK known : Reading(w, "reply", [call[w] EXCEPT !.active =
              {g \in call[w].groups : g \in known => template[g].active}])
      BY <1>6 DEF ListActive
    <2> QED BY <1>0, <2>2, <2>3, ReadingTypes DEF Stages
  <1> QED BY <1>1, <1>2, <1>3, <1>4, <1>5, <1>6 DEF Read, ReadOn

LEMMA TypeStep ==
    ASSUME IInv, [Next]_vars
    PROVE  TypeOK' /\ call' \in [Workers -> CallsMade]
  <1>0. TypeExceptCalls /\ call \in [Workers -> CallsMade]
    BY TypeParts DEF IInv
  <1> SUFFICES TypeExceptCalls' /\ call' \in [Workers -> CallsMade]
    <2>1. ASSUME call' \in [Workers -> CallsMade], NEW w \in Workers
          PROVE  call'[w].op \in {"none", "batch", "not found", "template", "defaults", "list"}
      <3>1. call'[w] \in CallsMade
        BY <2>1
      <3> QED BY <3>1, CallTypes
    <2> QED BY <2>1 DEF TypeExceptCalls, ApplyingType, TypeOK
  <1>1. CASE UNCHANGED vars
    BY <1>0, <1>1 DEF vars, tables, TypeExceptCalls, ApplyingType
  <1>2. ASSUME NEW p \in Processes, ApplyNext(p) \/ ApplyConfigTemplate(p) \/ ApplyFails(p)
        PROVE  TypeExceptCalls' /\ call' \in [Workers -> CallsMade]
    BY <1>0, <1>2, ApplyTypes
  <1>3. ASSUME NEW w \in Workers, NEW src \in Sources, NEW batch \in Batches,
               StartBatch(w, src, batch)
        PROVE  TypeExceptCalls' /\ call' \in [Workers -> CallsMade]
    <2>0. batch \in Seq(Definition)
      OBVIOUS
    <2>1. Len(batch) \in Nat
      BY <2>0
    <2>2. [op |-> "batch", size |-> Len(batch)] \in CallsMade
      BY <2>1 DEF CallsMade, BatchCall
    <2> QED BY <1>0, <1>3, <2>0, <2>2 DEF StartBatch, TypeExceptCalls, ApplyingType, tables, Stages,
                                   Processes
  <1>4. ASSUME NEW w \in Workers, FinishBatch(w)
        PROVE  TypeExceptCalls' /\ call' \in [Workers -> CallsMade]
    BY <1>0, <1>4 DEF FinishBatch, TypeExceptCalls, ApplyingType, applying, tables, Stages
  <1>5. ASSUME NEW w \in Workers, Return(w)
        PROVE  TypeExceptCalls' /\ call' \in [Workers -> CallsMade]
    <2>1. <<>> \in Seq(Results) /\ NoCall \in CallsMade
      BY DEF CallsMade
    <2>2. results' \in [Processes -> Seq(Results)]
      BY <1>0, <1>5, <2>1 DEF Return, TypeExceptCalls, ApplyingType
    <2>3. at' \in [Processes -> Stages] /\ call' \in [Workers -> CallsMade]
      BY <1>0, <1>5, <2>1 DEF Return, TypeExceptCalls, Stages
    <2> QED BY <1>0, <1>5, <2>2, <2>3 DEF Return, TypeExceptCalls, ApplyingType, tables
  <1>6. ASSUME NEW g \in Groups, NEW on \in BOOLEAN, SetTemplateActive(g, on)
        PROVE  TypeExceptCalls' /\ call' \in [Workers -> CallsMade]
    <2>1. template[g] \in [label : Labels, active : BOOLEAN]
      BY <1>0, <1>6 DEF SetTemplateActive, Exists, TypeExceptCalls
    <2>2. [template[g] EXCEPT !.active = on] \in [label : Labels, active : BOOLEAN]
      BY <2>1
    <2>3. template' \in [Groups -> {NoTemplate} \cup [label : Labels, active : BOOLEAN]]
      BY <1>0, <1>6, <2>2 DEF SetTemplateActive, TypeExceptCalls
    <2> QED BY <1>0, <1>6, <2>3 DEF SetTemplateActive, TypeExceptCalls, ApplyingType, applying
  <1>7. CASE Serve
    BY <1>0, <1>7 DEF Serve, TypeExceptCalls, ApplyingType, applying, tables, Stages
  <1>8. CASE Crash
    <2>1. starts' \in 1 .. MaxStarts
      BY <1>0, <1>8 DEF Crash, TypeExceptCalls
    <2>2. <<>> \in Seq(Definition) /\ <<>> \in Seq(FieldRow) /\ <<>> \in Seq(Results)
      OBVIOUS
    <2>3. /\ lock' \in [Groups -> Processes \cup {Nobody}]
          /\ source' \in [Processes -> Sources]
          /\ queue' \in [Processes -> Seq(Definition)]
      BY <1>8, <2>2 DEF Crash, Sources
    <2>4. /\ todo' \in [Processes -> Seq(FieldRow)]
          /\ buf' \in [Processes -> SUBSET FieldRow]
          /\ results' \in [Processes -> Seq(Results)]
      BY <1>8, <2>2 DEF Crash
    <2>5. at' \in [Processes -> Stages] /\ call' \in [Workers -> CallsMade]
      BY <1>8 DEF Crash, Stages, CallsMade
    <2>6. server' = "seeding" /\ template' = template /\ fields' = fields
      BY <1>8 DEF Crash, tables
    <2> QED BY <1>0, <2>1, <2>3, <2>4, <2>5, <2>6 DEF TypeExceptCalls, ApplyingType
  <1> QED BY <1>1, <1>2, <1>3, <1>4, <1>5, <1>6, <1>7, <1>8, ReadTypes DEF Next

-----------------------------------------------------------------------------
(* What a process has applied and has still to apply *)

\* An outcome takes the current definition off the queue, or all of it, and
\* adds its result.
LEMMA OutcomeInv ==
    ASSUME IInv, NEW p \in Processes, queue[p] # <<>>,
           NEW status \in {"ok", "error"}, NEW committed \in BOOLEAN,
           status = "ok" => committed,
           Outcome(p, status, committed)
    PROVE  QueueInv(p)' /\ ResultInv(p)'
  <1>0. queue[p] \in Seq(Definition) /\ results[p] \in Seq(Results)
        /\ DOMAIN queue = Processes /\ DOMAIN results = Processes /\ DOMAIN at = Processes
    BY DEF IInv, TypeOK
  <1> DEFINE r == [status |-> status, committed |-> committed]
  <1>1. /\ at'[p] = "apply.next" /\ source'[p] = source[p]
        /\ results'[p] = Append(results[p], r)
        /\ queue'[p] = IF status = "error" /\ source[p] = "file" THEN <<>> ELSE Tail(queue[p])
    BY <1>0 DEF Outcome
  <1>2. QueueInv(p)'
    <2>1. Rows(queue[p]) \subseteq Known
      BY DEF IInv, QueueInv
    <2>2. Rows(<<>>) = {} /\ Rows(Tail(queue[p])) \subseteq Rows(queue[p])
      BY <1>0, QueueHead DEF Rows
    <2>3. Rows(queue'[p]) \subseteq Known
      BY <1>1, <2>1, <2>2
    <2> QED BY <1>1, <2>3 DEF QueueInv, Applying, Rows
  <1>3. ResultInv(p)'
    <2> SUFFICES ASSUME NEW i \in DOMAIN results'[p]
                 PROVE  /\ results'[p][i].status = "ok" => results'[p][i].committed
                        /\ results'[p][i].status = "error" /\ source[p] = "file" =>
                               i = Len(results'[p]) /\ queue'[p] = <<>>
      BY <1>1 DEF ResultInv
    <2>1. /\ Len(results'[p]) = Len(results[p]) + 1 /\ i \in 1 .. Len(results'[p])
          /\ i \in 1 .. Len(results[p]) => results'[p][i] = results[p][i]
          /\ results'[p][Len(results[p]) + 1] = r
      BY <1>0, <1>1
    <2>2. CASE i \in 1 .. Len(results[p])
      BY <1>0, <2>1, <2>2 DEF IInv, ResultInv
    <2>3. CASE i = Len(results[p]) + 1
      BY <1>1, <2>1, <2>3
    <2> QED BY <1>0, <2>1, <2>2, <2>3
  <1> QED BY <1>2, <1>3

\* What changes nothing that they are about.
LEMMA Untouched ==
    ASSUME IInv, NEW p \in Processes, at'[p] = at[p], source'[p] = source[p],
           queue'[p] = queue[p], todo'[p] = todo[p], buf'[p] = buf[p], results'[p] = results[p]
    PROVE  QueueInv(p)' /\ ResultInv(p)'
  <1>1. QueueInv(p) /\ ResultInv(p)
    BY DEF IInv
  <1>2. Inserted(p) => Inserted(p)'
    BY DEF Inserted
  <1>3. QueueInv(p)'
    BY <1>1, <1>2 DEF QueueInv
  <1>4. ResultInv(p)'
    BY <1>1 DEF ResultInv
  <1> QED BY <1>3, <1>4

\* A step of one process.
LEMMA ApplyOthers ==
    ASSUME IInv, NEW p \in Processes, NEW q \in Processes \ {p},
           ApplyNext(p) \/ ApplyConfigTemplate(p) \/ ApplyFails(p)
    PROVE  /\ at'[q] = at[q] /\ source'[q] = source[q] /\ queue'[q] = queue[q]
           /\ todo'[q] = todo[q] /\ buf'[q] = buf[q] /\ results'[q] = results[q]
  <1>0. /\ at \in [Processes -> Stages] /\ DOMAIN queue = Processes /\ DOMAIN results = Processes
        /\ DOMAIN todo = Processes /\ DOMAIN buf = Processes
        /\ queue = [r \in Processes |-> queue[r]] /\ results = [r \in Processes |-> results[r]]
        /\ todo = [r \in Processes |-> todo[r]] /\ buf = [r \in Processes |-> buf[r]]
    BY DEF IInv, TypeOK
  <1>1. ASSUME NEW status, NEW committed, Outcome(p, status, committed)
        PROVE  /\ at'[q] = at[q] /\ source'[q] = source[q] /\ queue'[q] = queue[q]
               /\ todo'[q] = todo[q] /\ buf'[q] = buf[q] /\ results'[q] = results[q]
    BY <1>0, <1>1 DEF Outcome
  <1>2. CASE ApplyNext(p)
    BY <1>0, <1>1, <1>2 DEF ApplyNext, applying
  <1>3. CASE ApplyUpsert(p) \/ ApplyDelete(p)
    BY <1>0, <1>3 DEF ApplyUpsert, ApplyDelete
  <1>4. CASE ApplyField(p)
    BY <1>0, <1>1, <1>4 DEF ApplyField
  <1>5. CASE ApplyCommit(p)
    BY <1>1, <1>5 DEF ApplyCommit
  <1>6. CASE ApplyFails(p)
    BY <1>1, <1>6 DEF ApplyFails
  <1> QED BY <1>2, <1>3, <1>4, <1>5, <1>6 DEF ApplyConfigTemplate

\* The transaction of p, statement by statement.
LEMMA ApplyInv ==
    ASSUME IInv, NEW p \in Processes,
           ApplyNext(p) \/ ApplyConfigTemplate(p) \/ ApplyFails(p)
    PROVE  QueueInv(p)' /\ ResultInv(p)'
  <1>0. /\ queue[p] \in Seq(Definition) /\ todo[p] \in Seq(FieldRow) /\ source[p] \in Sources
        /\ DOMAIN queue = Processes /\ DOMAIN todo = Processes /\ DOMAIN buf = Processes
        /\ DOMAIN at = Processes /\ Rows(queue[p]) \subseteq Known
    BY DEF IInv, TypeOK, QueueInv
  <1>1. CASE ApplyNext(p)
    <2>1. CASE Outcome(p, "error", FALSE)
      BY <1>1, <2>1, OutcomeInv DEF ApplyNext
    <2>2. CASE /\ ~Rejected(p, Head(queue[p])) /\ at' = [at EXCEPT ![p] = "apply.upsert"]
               /\ UNCHANGED applying
      BY <1>0, <1>1, <2>2
         DEF ApplyNext, applying, IInv, QueueInv, ResultInv, Rejected, Applying, Rows
    <2> QED BY <1>1, <2>1, <2>2 DEF ApplyNext
  <1>2. CASE ApplyUpsert(p)
    BY <1>0, <1>2 DEF ApplyUpsert, IInv, QueueInv, ResultInv, Applying, Rows
  <1>3. CASE ApplyDelete(p)
    <2> PICK c \in Seq(FieldRow) : c = Converted(source[p], Head(queue[p]).fields)
      BY <1>0, <1>3, Current, Conversion DEF ApplyDelete, Applying
    <2>1. at'[p] = "apply.fields" /\ buf'[p] = {} /\ todo'[p] = c
          /\ UNCHANGED <<source, queue, results>>
      BY <1>0, <1>3 DEF ApplyDelete
    <2>2. Inserted(p)'
      BY <2>1, SplitStart DEF Inserted
    <2> QED BY <1>0, <1>3, <2>1, <2>2 DEF ApplyDelete, IInv, QueueInv, ResultInv, Applying, Rows
  <1>4. CASE ApplyField(p)
    <2>1. CASE Outcome(p, "error", FALSE)
      BY <1>4, <2>1, OutcomeInv, Current DEF ApplyField, Applying
    <2>2. CASE /\ Insertable(Head(todo[p]), buf[p])
               /\ buf'  = [buf EXCEPT ![p] = @ \cup {Head(todo[p])}]
               /\ todo' = [todo EXCEPT ![p] = Tail(@)]
               /\ UNCHANGED <<lock, source, queue, results, at>>
      <3> PICK c \in Seq(FieldRow) : c = Converted(source[p], Head(queue[p]).fields)
        BY <1>0, <1>4, Current, Conversion DEF ApplyField, Applying
      <3>1. Splits(c, todo[p], buf[p])
        BY <1>4 DEF IInv, QueueInv, ApplyField, Inserted
      <3>2. todo'[p] = Tail(todo[p]) /\ buf'[p] = buf[p] \cup {Head(todo[p])}
        BY <1>0, <2>2
      <3>3. Splits(c, todo'[p], buf'[p])
        BY <1>0, <1>4, <2>2, <3>1, <3>2, SplitNext DEF ApplyField
      <3>4. Inserted(p)'
        BY <2>2, <3>3 DEF Inserted
      <3> QED BY <2>2, <3>4 DEF IInv, QueueInv, ResultInv
    <2> QED BY <1>4, <2>1, <2>2 DEF ApplyField
  <1>5. CASE ApplyCommit(p)
    BY <1>5, OutcomeInv, Current DEF ApplyCommit, Applying
  <1>6. CASE ApplyFails(p)
    <2>1. queue[p] # <<>>
      BY <1>6, Current DEF ApplyFails, Applying
    <2> QED BY <1>6, <2>1, OutcomeInv DEF ApplyFails
  <1> QED BY <1>1, <1>2, <1>3, <1>4, <1>5, <1>6 DEF ApplyConfigTemplate

LEMMA QueueStep ==
    ASSUME IInv, [Next]_vars
    PROVE  \A p \in Processes : QueueInv(p)' /\ ResultInv(p)'
  <1> SUFFICES ASSUME NEW q \in Processes PROVE QueueInv(q)' /\ ResultInv(q)'
    OBVIOUS
  <1>0. /\ at \in [Processes -> Stages] /\ source \in [Processes -> Sources]
        /\ queue \in [Processes -> Seq(Definition)] /\ results \in [Processes -> Seq(Results)]
    BY DEF IInv, TypeOK
  <1>1. CASE UNCHANGED vars
    BY <1>1, Untouched DEF vars
  <1>2. ASSUME NEW p \in Processes, ApplyNext(p) \/ ApplyConfigTemplate(p) \/ ApplyFails(p)
        PROVE  QueueInv(q)' /\ ResultInv(q)'
    BY <1>2, ApplyInv, ApplyOthers, Untouched
  <1>3. ASSUME NEW w \in Workers, NEW src \in Sources, NEW batch \in Batches,
               StartBatch(w, src, batch)
        PROVE  QueueInv(q)' /\ ResultInv(q)'
    <2>1. CASE q = w
      <3>1. results[w] = <<>>
        BY <1>3 DEF IInv, BatchInv, StartBatch, Accept, Working, Applying
      <3>2. at'[w] = "apply.next" /\ queue'[w] = batch /\ results'[w] = <<>>
        BY <1>0, <1>3, <2>1, <3>1 DEF StartBatch
      <3>3. Rows(batch) \subseteq Known
        BY DEF Known
      <3> QED BY <2>1, <3>2, <3>3 DEF QueueInv, ResultInv, Applying
    <2>2. CASE q # w
      BY <1>0, <1>3, <2>2, Untouched DEF StartBatch
    <2> QED BY <2>1, <2>2
  <1>4. ASSUME NEW w \in Workers, FinishBatch(w)
        PROVE  QueueInv(q)' /\ ResultInv(q)'
    <2>1. CASE q = w
      BY <1>0, <1>4, <2>1 DEF FinishBatch, applying, IInv, QueueInv, ResultInv, Applying, Rows
    <2>2. CASE q # w
      BY <1>0, <1>4, <2>2, Untouched DEF FinishBatch, applying
    <2> QED BY <2>1, <2>2
  <1>5. ASSUME NEW w \in Workers, NEW stage \in Stages \ Applying, NEW c, Reading(w, stage, c)
        PROVE  QueueInv(q)' /\ ResultInv(q)'
    <2>1. CASE q = w
      BY <1>0, <1>5, <2>1
         DEF Reading, applying, IInv, QueueInv, ResultInv, Applying, Rows
    <2>2. CASE q # w
      BY <1>0, <1>5, <2>2, Untouched DEF Reading, applying
    <2> QED BY <2>1, <2>2
  <1>6. ASSUME NEW w \in Workers, Return(w)
        PROVE  QueueInv(q)' /\ ResultInv(q)'
    <2>1. CASE q = w
      BY <1>0, <1>6, <2>1 DEF Return, IInv, QueueInv, ResultInv, Applying, Rows
    <2>2. CASE q # w
      BY <1>0, <1>6, <2>2, Untouched DEF Return
    <2> QED BY <2>1, <2>2
  <1>7. ASSUME NEW g \in Groups, NEW on \in BOOLEAN, SetTemplateActive(g, on)
        PROVE  QueueInv(q)' /\ ResultInv(q)'
    BY <1>7, Untouched DEF SetTemplateActive, applying
  <1>8. CASE Serve
    <2>1. CASE q = Seeder
      BY <1>0, <1>8, <2>1 DEF Serve, applying, IInv, QueueInv, ResultInv, Applying, Rows
    <2>2. CASE q # Seeder
      BY <1>0, <1>8, <2>2, Untouched DEF Serve, applying
    <2> QED BY <2>1, <2>2
  <1>9. CASE Crash
    <2>1. /\ at'[q] \notin Applying /\ results'[q] = <<>>
          /\ queue'[q] = Seeds \/ queue'[q] = <<>>
      BY <1>9 DEF Crash, Applying
    <2>2. Rows(Seeds) \subseteq Known /\ Rows(<<>>) = {}
      BY DEF Known, Rows
    <2> QED BY <2>1, <2>2 DEF QueueInv, ResultInv, Applying
  <1>10. ASSUME NEW w \in Workers, Read(w) \/ ReadOn(w)
         PROVE  \E stage \in Stages \ Applying : \E c : Reading(w, stage, c)
    BY <1>10 DEF Read, ReadOn, TemplateRow, DefaultsRow, ListTemplates, TemplateFields,
                 DefaultsFields, ListActive, Stages, Applying
  <1>11. ASSUME NEW w \in Workers, Read(w) \/ ReadOn(w)
         PROVE  QueueInv(q)' /\ ResultInv(q)'
    BY <1>5, <1>10, <1>11
  <1> QED BY <1>1, <1>2, <1>3, <1>4, <1>6, <1>7, <1>8, <1>9, <1>11 DEF Next

-----------------------------------------------------------------------------
(* Reads and batches *)

\* A template that is stored stays stored.
LEMMA StaysStored ==
    ASSUME IInv, [Next]_vars, NEW g \in Groups, Exists(g)
    PROVE  Exists(g)'
  <1>0. /\ template \in [Groups -> {NoTemplate} \cup [label : Labels, active : BOOLEAN]]
        /\ template[g] \in [label : Labels, active : BOOLEAN]
    BY DEF IInv, TypeOK, Exists
  <1>1. CASE template' = template
    BY <1>1 DEF Exists
  <1>2. ASSUME NEW p \in Processes, ApplyCommit(p)
        PROVE  Exists(g)'
    <2> PICK k, l, a : k \in Groups /\ template' = [template EXCEPT ![k] = [label |-> l, active |-> a]]
      BY <1>2, Current DEF ApplyCommit, Applying
    <2>1. template'[g] = template[g] \/ template'[g] = [label |-> l, active |-> a]
      BY <1>0
    <2> QED BY <2>1, RowExists DEF Exists
  <1>3. ASSUME NEW k \in Groups, NEW on \in BOOLEAN, SetTemplateActive(k, on)
        PROVE  Exists(g)'
    <2>1. template'[g] = template[g] \/ template'[g] = [template[g] EXCEPT !.active = on]
      BY <1>0, <1>3 DEF SetTemplateActive
    <2>2. [template[g] EXCEPT !.active = on] = [label |-> template[g].label, active |-> on]
      BY <1>0
    <2> QED BY <2>1, <2>2, RowExists DEF Exists
  <1>4. [Next]_vars => \/ template' = template
                       \/ \E p \in Processes : ApplyCommit(p)
                       \/ \E k \in Groups, on \in BOOLEAN : SetTemplateActive(k, on)
    BY DEF Next, vars, tables, ApplyNext, ApplyConfigTemplate, ApplyUpsert, ApplyDelete,
           ApplyField, ApplyFails, StartBatch, FinishBatch, Read, ReadOn, TemplateRow,
           DefaultsRow, ListTemplates, TemplateFields, DefaultsFields, ListActive, Reading,
           Return, Serve, Crash
  <1> QED BY <1>1, <1>2, <1>3, <1>4

\* What a call answers with is from one definition.
FromOne(c) ==
    /\ c.op = "template" =>
          \E d \in Contents(c.group) : PartOf(c.cut, c.fields, d.fields)
    /\ c.op = "defaults" /\ c.answer # {} =>
          \E d \in Contents(c.group) :
              PartOf(c.cut, c.answer, DefaultsAt(d.fields, c.scope, c.paths))

\* A call c that is read so far, and goes on at the stage.
GoodRead(stage, c) ==
    /\ c.op # "batch"
    /\ stage \in {"template.fields", "defaults.fields", "list.active", "reply"}
    /\ stage = "template.fields" => c \in TemplateCall /\ Exists(c.group)
    /\ stage = "defaults.fields" => c \in DefaultsCall /\ Exists(c.group)
    /\ stage = "list.active"     => c \in ListCall
    /\ stage = "reply"           => FromOne(c)

LEMMA GoodReads ==
    ASSUME IInv, NEW w \in Workers, Read(w) \/ ReadOn(w)
    PROVE  /\ at[w] \in {"idle", "template.fields", "defaults.fields", "list.active"}
           /\ \E stage, c : GoodRead(stage, c) /\ Reading(w, stage, c)
  <1>0. ReadInv(w) /\ StoredWhole
    BY DEF IInv
  <1>1. ASSUME NEW g \in Groups, TemplateRow(w, g)
        PROVE  \E stage, c : GoodRead(stage, c) /\ Reading(w, stage, c)
    <2>1. CASE Exists(g)
      <3> DEFINE c == [op |-> "template", group |-> g, label |-> template[g].label, fields |-> {},
                      cut |-> FALSE]
      <3>1. template[g].label \in Labels
        BY <2>1 DEF IInv, TypeOK, Exists
      <3>2. c \in TemplateCall
        BY <3>1 DEF TemplateCall
      <3>3. GoodRead("template.fields", c)
        BY <2>1, <3>2 DEF GoodRead
      <3>4. Reading(w, "template.fields", c)
        BY <1>1, <2>1 DEF TemplateRow
      <3> QED BY <3>3, <3>4
    <2>2. CASE ~Exists(g)
      <3>1. GoodRead("reply", [op |-> "not found"])
        BY DEF GoodRead, FromOne
      <3> QED BY <1>1, <2>2, <3>1 DEF TemplateRow
    <2> QED BY <2>1, <2>2
  <1>2. ASSUME TemplateFields(w)
        PROVE  \E stage, c : GoodRead(stage, c) /\ Reading(w, stage, c)
    <2>1. call[w] \in TemplateCall /\ Exists(call[w].group)
      BY <1>0, <1>2 DEF ReadInv, TemplateFields
    <2> PICK rows : rows = fields[call[w].group]
      OBVIOUS
    <2> PICK got \in Fetched(rows) :
          Reading(w, "reply", [call[w] EXCEPT !.fields = got, !.cut = got # rows])
      BY <1>2 DEF TemplateFields
    <2> PICK c : c = [call[w] EXCEPT !.fields = got, !.cut = got # rows]
      OBVIOUS
    <2>2. /\ c.op = "template" /\ c.group = call[w].group
          /\ c.fields = got /\ c.cut = (got # rows)
          /\ call[w].group \in Groups
      BY <2>1 DEF TemplateCall
    <2>3. PICK d \in Contents(c.group) : d.fields = rows
      BY <1>0, <2>1, <2>2 DEF StoredWhole
    <2>4. PartOf(c.cut, c.fields, d.fields)
      BY <2>2, <2>3 DEF PartOf, Fetched
    <2>5. GoodRead("reply", c)
      BY <2>2, <2>4 DEF GoodRead, FromOne
    <2> QED BY <2>5
  <1>3. ASSUME NEW g \in Groups, NEW method, NEW use, DefaultsRow(w, g, method, use)
        PROVE  \E stage, c : GoodRead(stage, c) /\ Reading(w, stage, c)
    <2> DEFINE c == [op |-> "defaults", group |-> g, scope |-> "SYSTEM", paths |-> {},
                     answer |-> {}, cut |-> FALSE]
    <2>1. c \in DefaultsCall /\ c.op = "defaults" /\ c.group = g /\ c.answer = {}
      BY DEF DefaultsCall
    <2> DEFINE found == Exists(g) /\ (use \/ method = "GetConfigByVersion")
    <2>2. Reading(w, IF found THEN "defaults.fields" ELSE "reply", c)
      BY <1>3 DEF DefaultsRow
    <2> HIDE DEF c
    <2>3. GoodRead(IF found THEN "defaults.fields" ELSE "reply", c)
      BY <2>1 DEF GoodRead, FromOne
    <2> QED BY <2>2, <2>3
  <1>4. ASSUME DefaultsFields(w)
        PROVE  \E stage, c : GoodRead(stage, c) /\ Reading(w, stage, c)
    <2>1. call[w] \in DefaultsCall /\ Exists(call[w].group)
      BY <1>0, <1>4 DEF ReadInv, DefaultsFields
    <2> PICK scope \in Scopes, paths \in {Paths} \cup {{q} : q \in Paths \ {NoPath}} :
          \E got \in Fetched(DefaultsAt(fields[call[w].group], scope, paths)) :
              Reading(w, "reply", [call[w] EXCEPT !.scope = scope, !.paths = paths,
                  !.answer = got, !.cut = got # DefaultsAt(fields[call[w].group], scope, paths)])
      BY <1>4 DEF DefaultsFields
    <2> PICK rows : rows = DefaultsAt(fields[call[w].group], scope, paths)
      OBVIOUS
    <2> PICK got \in Fetched(rows) :
          Reading(w, "reply", [call[w] EXCEPT !.scope = scope, !.paths = paths,
                                   !.answer = got, !.cut = got # rows])
      OBVIOUS
    <2> PICK c : c = [call[w] EXCEPT !.scope = scope, !.paths = paths,
                                     !.answer = got, !.cut = got # rows]
      OBVIOUS
    <2>2. /\ c.op = "defaults" /\ c.group = call[w].group /\ c.scope = scope
          /\ c.paths = paths /\ c.answer = got /\ c.cut = (got # rows)
          /\ call[w].group \in Groups
      BY <2>1 DEF DefaultsCall
    <2>3. PICK d \in Contents(c.group) : d.fields = fields[c.group]
      BY <1>0, <2>1, <2>2 DEF StoredWhole
    <2>4. PartOf(c.cut, c.answer, DefaultsAt(d.fields, c.scope, c.paths))
      BY <2>2, <2>3 DEF PartOf, Fetched
    <2>5. GoodRead("reply", c)
      BY <2>2, <2>4 DEF GoodRead, FromOne
    <2> QED BY <2>5
  <1>5. ASSUME ListTemplates(w)
        PROVE  \E stage, c : GoodRead(stage, c) /\ Reading(w, stage, c)
    <2> DEFINE c == [op |-> "list", groups |-> {g \in Groups : Exists(g)},
                     active |-> {}]
    <2>1. GoodRead("list.active", c)
      BY DEF GoodRead, ListCall
    <2>2. Reading(w, "list.active", c)
      BY <1>5 DEF ListTemplates
    <2> QED BY <2>1, <2>2
  <1>6. ASSUME ListActive(w)
        PROVE  \E stage, c : GoodRead(stage, c) /\ Reading(w, stage, c)
    <2>1. call[w] \in ListCall
      BY <1>0, <1>6 DEF ReadInv, ListActive
    <2>2. \A a : GoodRead("reply", [call[w] EXCEPT !.active = a])
      BY <2>1 DEF GoodRead, FromOne, ListCall
    <2>3. PICK known : Reading(w, "reply", [call[w] EXCEPT !.active =
              {g \in call[w].groups : g \in known => template[g].active}])
      BY <1>6 DEF ListActive
    <2> QED BY <2>2, <2>3
  <1>7. at[w] \in {"idle", "template.fields", "defaults.fields", "list.active"}
    BY DEF Read, ReadOn, TemplateRow, DefaultsRow, ListTemplates, Accept, TemplateFields,
           DefaultsFields, ListActive
  <1> QED BY <1>1, <1>2, <1>3, <1>4, <1>5, <1>6, <1>7 DEF Read, ReadOn

LEMMA ReadStep ==
    ASSUME IInv, [Next]_vars
    PROVE  (\A w \in Workers : ReadInv(w)') /\ AnswersOfOneDefinition'
  <1> SUFFICES ASSUME NEW w \in Workers
               PROVE  ReadInv(w)' /\ (at'[w] = "reply" => FromOne(call'[w]))
    BY DEF AnswersOfOneDefinition, FromOne
  <1>0. /\ at \in [Processes -> Stages] /\ call \in [Workers -> CallsMade]
        /\ w \in Processes /\ w # Seeder
        /\ ReadInv(w) /\ BatchInv(w) /\ (at[w] = "reply" => FromOne(call[w]))
    BY DEF IInv, TypeOK, AnswersOfOneDefinition, FromOne, Processes
  <1>1. \A g \in Groups : Exists(g) => Exists(g)'
    BY StaysStored
  <1>2. ASSUME at'[w] = at[w], call'[w] = call[w]
        PROVE  ReadInv(w)' /\ (at'[w] = "reply" => FromOne(call'[w]))
    <2>1. ReadInv(w)'
      BY <1>0, <1>1, <1>2 DEF ReadInv, TemplateCall, DefaultsCall
    <2> QED BY <1>0, <1>2, <2>1
  <1>3. ASSUME at'[w] \in Working \cup {"idle"}
        PROVE  ReadInv(w)' /\ (at'[w] = "reply" => FromOne(call'[w]))
    BY <1>3 DEF ReadInv, Working, Applying
  <1>4. ASSUME NEW p \in Processes, ApplyNext(p) \/ ApplyConfigTemplate(p) \/ ApplyFails(p)
        PROVE  ReadInv(w)' /\ (at'[w] = "reply" => FromOne(call'[w]))
    <2>1. CASE p = w
      BY <1>0, <1>3, <1>4, <2>1
         DEF ApplyNext, ApplyConfigTemplate, ApplyUpsert, ApplyDelete, ApplyField, ApplyCommit,
             ApplyFails, Outcome, Working, Applying
    <2>2. CASE p # w
      BY <1>0, <1>2, <1>4, <2>2, ApplyOthers, ApplyTypes
    <2> QED BY <2>1, <2>2
  <1>5. ASSUME NEW v \in Workers, NEW stage, NEW c, GoodRead(stage, c), Reading(v, stage, c)
        PROVE  ReadInv(w)' /\ (at'[w] = "reply" => FromOne(call'[w]))
    <2>1. CASE v = w
      <3>1. at'[w] = stage /\ call'[w] = c /\ UNCHANGED tables
        BY <1>0, <1>5, <2>1 DEF Reading
      <3>2. ReadInv(w)'
        BY <1>5, <3>1 DEF GoodRead, ReadInv, Exists, tables
      <3> QED BY <1>5, <3>1, <3>2 DEF GoodRead
    <2>2. CASE v # w
      BY <1>0, <1>2, <1>5, <2>2 DEF Reading
    <2> QED BY <2>1, <2>2
  <1>6. ASSUME NEW v \in Workers, NEW src \in Sources, NEW batch \in Batches,
               StartBatch(v, src, batch)
        PROVE  ReadInv(w)' /\ (at'[w] = "reply" => FromOne(call'[w]))
    BY <1>0, <1>2, <1>3, <1>6 DEF StartBatch, Working
  <1>7. ASSUME NEW v \in Workers, FinishBatch(v)
        PROVE  ReadInv(w)' /\ (at'[w] = "reply" => FromOne(call'[w]))
    <2>1. CASE v = w
      <3>1. at'[w] = "reply" /\ call'[w] = call[w] /\ call[w].op = "batch"
        BY <1>0, <1>7, <2>1 DEF FinishBatch, BatchInv, Working, BatchCall
      <3> QED BY <3>1 DEF ReadInv, FromOne
    <2>2. CASE v # w
      BY <1>0, <1>2, <1>7, <2>2 DEF FinishBatch
    <2> QED BY <2>1, <2>2
  <1>8. ASSUME NEW v \in Workers, Return(v)
        PROVE  ReadInv(w)' /\ (at'[w] = "reply" => FromOne(call'[w]))
    BY <1>0, <1>2, <1>3, <1>8 DEF Return
  <1>9. ASSUME UNCHANGED vars \/ (\E g \in Groups, on \in BOOLEAN : SetTemplateActive(g, on))
        PROVE  ReadInv(w)' /\ (at'[w] = "reply" => FromOne(call'[w]))
    BY <1>2, <1>9 DEF vars, SetTemplateActive
  <1>10. ASSUME Serve
         PROVE  ReadInv(w)' /\ (at'[w] = "reply" => FromOne(call'[w]))
    BY <1>0, <1>2, <1>10 DEF Serve
  <1>11. ASSUME Crash
         PROVE  ReadInv(w)' /\ (at'[w] = "reply" => FromOne(call'[w]))
    BY <1>0, <1>3, <1>11 DEF Crash
  <1> QED BY <1>4, <1>5, <1>6, <1>7, <1>8, <1>9, <1>10, <1>11, GoodReads DEF Next

\* An outcome moves one definition from the queue to the results, or gives up.
LEMMA OutcomeBatch ==
    ASSUME IInv, NEW w \in Workers, queue[w] # <<>>, at[w] \in Working,
           NEW status \in {"ok", "error"}, NEW committed \in BOOLEAN,
           Outcome(w, status, committed), call' = call
    PROVE  BatchInv(w)'
  <1> PICK q \in Seq(Definition), res \in Seq(Results) : q = queue[w] /\ res = results[w]
    BY DEF IInv, TypeOK, Processes
  <1> DEFINE r == [status |-> status, committed |-> committed]
  <1>1. /\ at'[w] = "apply.next" /\ source'[w] = source[w] /\ results'[w] = Append(res, r)
        /\ queue'[w] = IF status = "error" /\ source[w] = "file" THEN <<>> ELSE Tail(q)
    BY DEF Outcome, IInv, TypeOK, Processes
  <1>2. call[w] \in BatchCall /\ Len(res) + Len(q) = call[w].size
    BY DEF IInv, BatchInv
  <1>3. Len(Tail(q)) = Len(q) - 1 /\ Len(Append(res, r)) = Len(res) + 1
        /\ Append(res, r)[Len(res) + 1] = r
    BY QueueHead
  <1>4. CASE status = "error" /\ source[w] = "file"
    <2>1. results'[w][Len(results'[w])].status = "error" /\ queue'[w] = <<>>
      BY <1>1, <1>3, <1>4
    <2> QED BY <1>1, <1>2, <1>4, <2>1 DEF BatchInv, Working
  <1>5. CASE ~(status = "error" /\ source[w] = "file")
    <2>0. results'[w] = Append(res, r) /\ queue'[w] = Tail(q)
      BY <1>1, <1>5
    <2>1. Len(results'[w]) + Len(queue'[w]) = call[w].size
      <3>1. Len(results'[w]) = Len(res) + 1 /\ Len(queue'[w]) = Len(q) - 1
        BY <1>3, <2>0
      <3>2. \A m, n \in Nat : (m + 1) + (n - 1) = m + n
        OBVIOUS
      <3>3. Len(res) \in Nat /\ Len(q) \in Nat
        OBVIOUS
      <3>4. (Len(res) + 1) + (Len(q) - 1) = Len(res) + Len(q)
        BY <3>2, <3>3, Zenon
      <3> QED BY <1>2, <3>1, <3>4, Zenon
    <2> QED BY <1>1, <1>2, <2>1 DEF BatchInv, Working
  <1> QED BY <1>4, <1>5

LEMMA BatchStep ==
    ASSUME IInv, [Next]_vars
    PROVE  \A w \in Workers : BatchInv(w)'
  <1> SUFFICES ASSUME NEW w \in Workers PROVE BatchInv(w)'
    OBVIOUS
  <1>0. /\ at \in [Processes -> Stages] /\ call \in [Workers -> CallsMade]
        /\ source \in [Processes -> Sources]
        /\ queue \in [Processes -> Seq(Definition)] /\ results \in [Processes -> Seq(Results)]
        /\ w \in Processes /\ w # Seeder /\ BatchInv(w)
    BY DEF IInv, TypeOK, Processes
  <1>1. ASSUME at'[w] = at[w], call'[w] = call[w], source'[w] = source[w],
               queue'[w] = queue[w], results'[w] = results[w]
        PROVE  BatchInv(w)'
    BY <1>0, <1>1 DEF BatchInv
  <1>2. ASSUME NEW p \in Processes, ApplyNext(p) \/ ApplyConfigTemplate(p) \/ ApplyFails(p)
        PROVE  BatchInv(w)'
    <2>0. call' = call
      BY <1>2, ApplyTypes
    <2>1. CASE p = w
      <3>0. at[w] \in Working /\ queue[w] # <<>>
        BY <1>2, <2>1, Current
           DEF ApplyNext, ApplyConfigTemplate, ApplyUpsert, ApplyDelete, ApplyField,
               ApplyCommit, ApplyFails, Working, Applying
      <3>1. CASE \E status \in {"ok", "error"}, committed \in BOOLEAN :
                     Outcome(w, status, committed)
        BY <2>0, <3>0, <3>1, OutcomeBatch
      <3>2. CASE at'[w] \in Working /\ source'[w] = source[w] /\ queue'[w] = queue[w]
                 /\ results'[w] = results[w]
        BY <1>0, <2>0, <3>0, <3>2 DEF BatchInv, Working, Applying
      <3>3. ApplyNext(w) \/ ApplyField(w) =>
               (Outcome(w, "error", FALSE)
                  \/ (at'[w] \in Working /\ UNCHANGED <<source, queue, results>>))
        BY <1>0, <3>0 DEF ApplyNext, ApplyField, applying, Working, Applying
      <3>4. ApplyUpsert(w) \/ ApplyDelete(w) =>
                at'[w] \in Working /\ UNCHANGED <<source, queue, results>>
        BY <1>0 DEF ApplyUpsert, ApplyDelete, Working, Applying
      <3>5. ApplyCommit(w) => Outcome(w, "ok", TRUE) \/ Outcome(w, "error", TRUE)
        BY DEF ApplyCommit
      <3>6. ApplyFails(w) => Outcome(w, "error", FALSE)
        BY DEF ApplyFails
      <3> QED BY <1>2, <2>1, <3>1, <3>2, <3>3, <3>4, <3>5, <3>6 DEF ApplyConfigTemplate
    <2>2. CASE p # w
      BY <1>0, <1>1, <1>2, <2>0, <2>2, ApplyOthers
    <2> QED BY <2>1, <2>2
  <1>3. ASSUME NEW v \in Workers, NEW src \in Sources, NEW batch \in Batches,
               StartBatch(v, src, batch)
        PROVE  BatchInv(w)'
    <2>1. CASE v = w
      <3>1. results[w] = <<>>
        BY <1>0, <1>3, <2>1 DEF BatchInv, StartBatch, Accept, Working, Applying
      <3>2. /\ at'[w] = "apply.next" /\ queue'[w] = batch /\ results'[w] = <<>>
            /\ call'[w] = [op |-> "batch", size |-> Len(batch)]
        BY <1>0, <1>3, <2>1, <3>1 DEF StartBatch
      <3>3. batch \in Seq(Definition)
        OBVIOUS
      <3>4. Len(batch) \in Nat /\ Len(<<>>) + Len(batch) = Len(batch)
        BY <3>3
      <3>5. call'[w] \in BatchCall /\ Len(results'[w]) + Len(queue'[w]) = call'[w].size
        BY <3>2, <3>4 DEF BatchCall
      <3> QED BY <3>2, <3>5 DEF BatchInv, Working
    <2>2. CASE v # w
      BY <1>0, <1>1, <1>3, <2>2 DEF StartBatch
    <2> QED BY <2>1, <2>2
  <1>4. ASSUME NEW v \in Workers, FinishBatch(v)
        PROVE  BatchInv(w)'
    <2>1. CASE v = w
      BY <1>0, <1>4, <2>1 DEF FinishBatch, applying, BatchInv, Working, Applying
    <2>2. CASE v # w
      BY <1>0, <1>1, <1>4, <2>2 DEF FinishBatch, applying
    <2> QED BY <2>1, <2>2
  <1>5. ASSUME NEW v \in Workers, Read(v) \/ ReadOn(v)
        PROVE  BatchInv(w)'
    <2> PICK stage, c : GoodRead(stage, c) /\ Reading(v, stage, c)
      BY <1>5, GoodReads
    <2>1. CASE v = w
      <3>1. at[w] \notin Working \cup {"reply"}
        BY <1>5, <2>1, GoodReads DEF Working, Applying
      <3>2. results'[w] = <<>> /\ at'[w] = stage /\ call'[w] = c
        BY <1>0, <2>1, <3>1 DEF Reading, applying, BatchInv
      <3>3. stage \notin Working /\ c.op # "batch"
        BY DEF GoodRead, Working, Applying
      <3> QED BY <3>2, <3>3 DEF BatchInv
    <2>2. CASE v # w
      BY <1>0, <1>1, <2>2 DEF Reading, applying
    <2> QED BY <2>1, <2>2
  <1>6. ASSUME NEW v \in Workers, Return(v)
        PROVE  BatchInv(w)'
    <2>1. CASE v = w
      <3>1. at'[w] = "idle" /\ results'[w] = <<>>
        BY <1>0, <1>6, <2>1 DEF Return
      <3> QED BY <3>1 DEF BatchInv, Working, Applying
    <2>2. CASE v # w
      BY <1>0, <1>1, <1>6, <2>2 DEF Return
    <2> QED BY <2>1, <2>2
  <1>7. ASSUME UNCHANGED vars \/ (\E g \in Groups, on \in BOOLEAN : SetTemplateActive(g, on))
        PROVE  BatchInv(w)'
    BY <1>1, <1>7 DEF vars, SetTemplateActive, applying
  <1>8. ASSUME Serve
        PROVE  BatchInv(w)'
    BY <1>0, <1>1, <1>8 DEF Serve, applying
  <1>9. ASSUME Crash
        PROVE  BatchInv(w)'
    BY <1>0, <1>9 DEF Crash, BatchInv, Working, Applying
  <1> QED BY <1>2, <1>3, <1>4, <1>5, <1>6, <1>7, <1>8, <1>9 DEF Next

-----------------------------------------------------------------------------
(* The tables *)

\* A commit stores a whole definition that is in the promise.
LEMMA CommittedWhole ==
    ASSUME IInv, NEW p \in Processes, ApplyCommit(p)
    PROVE  LET d == Head(queue[p])
           IN  /\ d.group \in Groups
               /\ [label |-> d.label, fields |-> buf[p]] \in Contents(d.group)
  <1>0. Head(queue[p]) \in Known /\ Head(queue[p]).group # NoGroup
        /\ Head(queue[p]).fields \in Seq(FieldRow) /\ source[p] \in Sources
    BY Current DEF ApplyCommit, Applying, IInv, TypeOK
  <1> PICK d \in Known : d = Head(queue[p])
    BY <1>0
  <1> PICK c \in Seq(FieldRow) : c = Converted(source[p], d.fields)
    BY <1>0, Conversion
  <1>1. Splits(c, <<>>, buf[p])
    BY DEF ApplyCommit, IInv, QueueInv, Inserted
  <1>2. d.group \in Groups /\ Content(source[p], d) \in Contents(d.group)
    BY <1>0, <1>1, SplitEnd, Committable
  <1>3. Content(source[p], d) = [label |-> d.label, fields |-> buf[p]]
    BY <1>1, SplitEnd DEF Content
  <1> QED BY <1>2, <1>3

\* What commits and switches do to the tables.
LEMMA TablesStep ==
    ASSUME [Next]_vars
    PROVE  \/ UNCHANGED tables
           \/ \E p \in Processes : ApplyCommit(p)
           \/ \E g \in Groups, on \in BOOLEAN : SetTemplateActive(g, on)
  BY ZenonT(60) DEF Next, vars, tables, ApplyNext, ApplyConfigTemplate, ApplyUpsert, ApplyDelete,
         ApplyField, ApplyFails, StartBatch, FinishBatch, Read, ReadOn, TemplateRow,
         DefaultsRow, ListTemplates, TemplateFields, DefaultsFields, ListActive, Reading,
         Return, Serve, Crash

LEMMA StoredStep ==
    ASSUME IInv, [Next]_vars
    PROVE  StoredWhole'
  <1>0. /\ template \in [Groups -> {NoTemplate} \cup [label : Labels, active : BOOLEAN]]
        /\ fields \in [Groups -> SUBSET FieldRow] /\ StoredWhole
    BY DEF IInv, TypeOK
  <1> SUFFICES ASSUME NEW g \in Groups, Exists(g)'
               PROVE  \E d \in Contents(g) : d.label = template'[g].label /\ d.fields = fields'[g]
    BY DEF StoredWhole
  <1>1. CASE UNCHANGED tables
    BY <1>0, <1>1 DEF tables, StoredWhole, Exists
  <1>2. ASSUME NEW p \in Processes, ApplyCommit(p)
        PROVE  \E d \in Contents(g) : d.label = template'[g].label /\ d.fields = fields'[g]
    <2> DEFINE D == Head(queue[p])
    <2> PICK k \in Groups, l \in {D.label}, b \in {buf[p]} : k = D.group
      BY <1>2, CommittedWhole
    <2> PICK a : a = IF Exists(k) THEN template[k].active ELSE TRUE
      OBVIOUS
    <2>0. /\ [label |-> l, fields |-> b] \in Contents(k)
          /\ template' = [template EXCEPT ![k] = [label |-> l, active |-> a]]
          /\ fields' = [fields EXCEPT ![k] = b]
      BY <1>2, CommittedWhole DEF ApplyCommit
    <2> HIDE DEF D
    <2>1. CASE g = k
      <3>1. template'[g].label = l /\ fields'[g] = b
        BY <1>0, <2>0, <2>1
      <3> QED BY <2>0, <2>1, <3>1
    <2>2. CASE g # k
      BY <1>0, <2>0, <2>2 DEF StoredWhole, Exists
    <2> QED BY <2>1, <2>2
  <1>3. ASSUME NEW k \in Groups, NEW on \in BOOLEAN, SetTemplateActive(k, on)
        PROVE  \E d \in Contents(g) : d.label = template'[g].label /\ d.fields = fields'[g]
    <2>1. fields' = fields
      BY <1>3 DEF SetTemplateActive
    <2>2. CASE g = k
      <3>1. template[g] \in [label : Labels, active : BOOLEAN] /\ Exists(g)
        BY <1>0, <1>3, <2>2 DEF SetTemplateActive, Exists
      <3>2. template'[g] = [template[g] EXCEPT !.active = on]
        BY <1>0, <1>3, <2>2 DEF SetTemplateActive
      <3>3. template'[g].label = template[g].label
        BY <3>1, <3>2
      <3> QED BY <1>0, <2>1, <3>1, <3>3 DEF StoredWhole
    <2>3. CASE g # k
      BY <1>0, <1>3, <2>1, <2>3 DEF SetTemplateActive, StoredWhole, Exists
    <2> QED BY <2>2, <2>3
  <1> QED BY <1>1, <1>2, <1>3, TablesStep

-----------------------------------------------------------------------------
(* The theorems *)

LEMMA InvInit == Init => IInv
  <1> SUFFICES ASSUME Init PROVE IInv
    OBVIOUS
  <1>1. <<>> \in Seq(Definition) /\ <<>> \in Seq(FieldRow) /\ <<>> \in Seq(Results)
        /\ 1 \in 1 .. MaxStarts
    OBVIOUS
  <1>2. call \in [Workers -> CallsMade]
    BY DEF Init, CallsMade
  <1>3. TypeOK
    <2>1. /\ lock \in [Groups -> Processes \cup {Nobody}] /\ at \in [Processes -> Stages]
          /\ source \in [Processes -> Sources] /\ queue \in [Processes -> Seq(Definition)]
      BY <1>1 DEF Init, Stages, Sources
    <2>2. /\ todo \in [Processes -> Seq(FieldRow)] /\ buf \in [Processes -> SUBSET FieldRow]
          /\ results \in [Processes -> Seq(Results)]
      BY <1>1 DEF Init
    <2>3. /\ template \in [Groups -> {NoTemplate} \cup [label : Labels, active : BOOLEAN]]
          /\ fields \in [Groups -> SUBSET FieldRow]
          /\ server \in {"seeding", "serving"} /\ starts \in 1 .. MaxStarts
      BY <1>1 DEF Init
    <2>4. \A w \in Workers : call[w].op = "none"
      BY DEF Init, NoCall
    <2> QED BY <2>1, <2>2, <2>3, <2>4 DEF TypeOK
  <1>4. ASSUME NEW p \in Processes PROVE QueueInv(p) /\ ResultInv(p)
    <2>1. at[p] \notin Applying /\ results[p] = <<>> /\ (queue[p] = Seeds \/ queue[p] = <<>>)
      BY DEF Init, Applying
    <2>2. Rows(Seeds) \subseteq Known /\ Rows(<<>>) = {}
      BY DEF Known, Rows
    <2> QED BY <2>1, <2>2 DEF QueueInv, ResultInv, Applying
  <1>5. ASSUME NEW w \in Workers PROVE BatchInv(w) /\ ReadInv(w) /\ at[w] = "idle"
    BY DEF Init, BatchInv, ReadInv, Working, Applying, Processes
  <1>6. StoredWhole
    BY DEF Init, StoredWhole, Exists
  <1> QED BY <1>2, <1>3, <1>4, <1>5, <1>6 DEF IInv, AnswersOfOneDefinition

LEMMA InvStep == IInv /\ [Next]_vars => IInv'
  BY TypeStep, QueueStep, ReadStep, BatchStep, StoredStep DEF IInv

\* The inductive invariant: what is queued, inserted, reported and read agrees
\* with the definitions that clients and seed files apply.
THEOREM Invariance == Spec => []IInv
  BY InvInit, InvStep, PTL DEF Spec

\* Every reachable state of the template tables and of the calls on them has
\* its type.
THEOREM Typing == Spec => []TypeOK
  <1>1. IInv => TypeOK
    BY DEF IInv
  <1> QED BY <1>1, Invariance, PTL

\* GetConfigTemplate and the default values answer with the fields of one
\* definition, though they read in two statements and it may be replaced in
\* between (template_handlers.go:129-180, config_handlers.go:425-441).
THEOREM OneDefinition == Spec => []AnswersOfOneDefinition
  <1>1. IInv => AnswersOfOneDefinition
    BY DEF IInv
  <1> QED BY <1>1, Invariance, PTL

\* What a client is told of a batch is true, whatever fails (ImportTemplate,
\* template_admin_handlers.go:119-172; loader.go:103-133).
THEOREM Truth == Spec => []ResultsAreTrue
  <1>1. IInv => ResultsAreTrue
    <2> SUFFICES ASSUME IInv PROVE ResultsAreTrue
      OBVIOUS
    <2>1. ASSUME NEW p \in Processes, NEW i \in DOMAIN results[p]
          PROVE  /\ results[p][i].status = "ok" => results[p][i].committed
                 /\ results[p][i].status = "error" /\ source[p] = "file" => i = Len(results[p])
      BY DEF IInv, ResultInv
    <2>2. ASSUME NEW w \in Workers, at[w] = "reply", call[w].op = "batch"
          PROVE  \/ Len(results[w]) = call[w].size
                 \/ source[w] = "file" /\ results[w][Len(results[w])].status = "error"
      <3>1. queue[w] = <<>> /\ results[w] \in Seq(Results)
        BY <2>2 DEF IInv, BatchInv, TypeOK, Processes
      <3>2. Len(results[w]) + Len(queue[w]) = Len(results[w])
        BY <3>1
      <3> QED BY <2>2, <3>2 DEF IInv, BatchInv
    <2> QED BY <2>1, <2>2 DEF ResultsAreTrue
  <1> QED BY <1>1, Invariance, PTL

-----------------------------------------------------------------------------
(* The refinement of TemplateRegister *)

\* The register's view of a group.
View(g) == IF Exists(g) THEN [label |-> template[g].label, fields |-> fields[g],
                              active |-> template[g].active]
           ELSE NoTemplate

LEMMA ViewIsStored ==
    ASSUME NEW l, NEW f, NEW a
    PROVE  [label |-> l, fields |-> f, active |-> a] # Registers!Absent
  <1>1. "label" \in DOMAIN [label |-> l, fields |-> f, active |-> a]
        /\ "label" \notin DOMAIN Registers!Absent
    BY DEF Registers!Absent
  <1> QED BY <1>1

LEMMA CommitRefines ==
    ASSUME IInv, NEW p \in Processes, ApplyCommit(p)
    PROVE  Registers!Next
  <1>0. /\ template \in [Groups -> {NoTemplate} \cup [label : Labels, active : BOOLEAN]]
        /\ fields \in [Groups -> SUBSET FieldRow]
    BY DEF IInv, TypeOK
  <1> DEFINE D == Head(queue[p])
  <1> PICK k, l, b, a :
        /\ k \in Groups /\ k = D.group /\ l = D.label /\ b = buf[p]
        /\ a = IF Exists(k) THEN template[k].active ELSE TRUE
    BY CommittedWhole
  <1>1. /\ [label |-> l, fields |-> b] \in Contents(k)
        /\ template' = [template EXCEPT ![k] = [label |-> l, active |-> a]]
        /\ fields' = [fields EXCEPT ![k] = b]
    BY CommittedWhole DEF ApplyCommit
  <1> HIDE DEF D
  <1>2. template'[k] = [label |-> l, active |-> a] /\ fields'[k] = b
    BY <1>0, <1>1
  <1>3. View(k)' = [label |-> l, fields |-> b, active |-> a]
    <2>1. Exists(k)'
      BY <1>2, RowExists DEF Exists
    <2>2. template'[k].label = l /\ template'[k].active = a
      BY <1>2
    <2> QED BY <1>2, <2>1, <2>2 DEF View
  <1>4. \A g \in Groups \ {k} : View(g)' = View(g)
    BY <1>0, <1>1 DEF View, Exists
  <1>5. a = (View(k) = Registers!Absent \/ View(k).active)
    <2>1. CASE Exists(k)
      <3>1. template[k].active \in BOOLEAN
        BY <1>0, <2>1 DEF Exists
      <3>2. View(k) # Registers!Absent /\ View(k).active = template[k].active /\ a = View(k).active
        BY <2>1, ViewIsStored DEF View
      <3> QED BY <3>1, <3>2
    <2>2. CASE ~Exists(k)
      <3>1. View(k) = Registers!Absent /\ a = TRUE
        BY <2>2 DEF View, Registers!Absent, NoTemplate
      <3> QED BY <3>1
    <2> QED BY <2>1, <2>2
  <1>6. [g \in Groups |-> View(g)]' = [[g \in Groups |-> View(g)] EXCEPT ![k] =
            [label |-> l, fields |-> b,
             active |-> @ = Registers!Absent \/ @.active]]
    BY <1>3, <1>4, <1>5
  <1>7. Registers!Apply(k, [label |-> l, fields |-> b])
    BY <1>6 DEF Registers!Apply, View
  <1> QED BY <1>1, <1>7 DEF Registers!Next

LEMMA SwitchRefines ==
    ASSUME IInv, NEW k \in Groups, NEW on \in BOOLEAN, SetTemplateActive(k, on)
    PROVE  Registers!Next
  <1>0. /\ template \in [Groups -> {NoTemplate} \cup [label : Labels, active : BOOLEAN]]
        /\ template[k] \in [label : Labels, active : BOOLEAN] /\ Exists(k)
        /\ fields' = fields
    BY DEF IInv, TypeOK, SetTemplateActive, Exists
  <1>1. /\ template'[k] = [template[k] EXCEPT !.active = on]
        /\ \A g \in Groups \ {k} : template'[g] = template[g]
    BY <1>0 DEF SetTemplateActive
  <1>2. template'[k] = [label |-> template[k].label, active |-> on]
    BY <1>0, <1>1
  <1>3. View(k)' = [label |-> template[k].label, fields |-> fields[k], active |-> on]
    <2>1. Exists(k)'
      BY <1>2, RowExists DEF Exists
    <2>2. template'[k].label = template[k].label /\ template'[k].active = on
      BY <1>2
    <2> QED BY <1>0, <2>1, <2>2 DEF View
  <1>4. View(k) = [label |-> template[k].label, fields |-> fields[k],
                   active |-> template[k].active]
    BY <1>0 DEF View
  <1>5. View(k)' = [View(k) EXCEPT !.active = on] /\ View(k) # Registers!Absent
    BY <1>3, <1>4, ViewIsStored
  <1>6. \A g \in Groups \ {k} : View(g)' = View(g)
    BY <1>0, <1>1 DEF View, Exists
  <1>7. [g \in Groups |-> View(g)]' = [[g \in Groups |-> View(g)] EXCEPT ![k].active = on]
    BY <1>5, <1>6
  <1>8. Registers!Switch(k, on)
    BY <1>5, <1>7 DEF Registers!Switch, View
  <1> QED BY <1>8 DEF Registers!Next

\* Whatever fails, races or crashes, a stored template is one whole definition,
\* and only the switch changes whether it is active.
THEOREM Refinement == Spec => ImplementsTemplateRegister
  <1>1. Init => Registers!Init
    BY DEF Init, Registers!Init, Registers!Absent, Exists, NoTemplate
  <1>2. IInv /\ [Next]_vars =>
            [Registers!Next]_([g \in Groups |->
                 IF Exists(g) THEN [label |-> template[g].label, fields |-> fields[g],
                                    active |-> template[g].active]
                 ELSE NoTemplate])
    <2>1. UNCHANGED tables => UNCHANGED [g \in Groups |->
                 IF Exists(g) THEN [label |-> template[g].label, fields |-> fields[g],
                                    active |-> template[g].active]
                 ELSE NoTemplate]
      BY DEF tables, Exists
    <2> QED BY <2>1, TablesStep, CommitRefines, SwitchRefines
  <1> QED BY <1>1, <1>2, Invariance, PTL DEF Spec, ImplementsTemplateRegister, Registers!Spec

-----------------------------------------------------------------------------
(* The seeds, from the start of the server to its first call *)

\* The tables hold seed i for group g.
HeldSeed(i, g) ==
    /\ Seeds[i].group = g
    /\ Content("file", Seeds[i]) = [label |-> template[g].label, fields |-> fields[g]]

\* Every group that the first n seeds are about is as the last of them says,
\* or as seed n + 1 does, whose commit may have been reported as a failure.
SeedsHeld(n) ==
    \A k \in 1 .. n :
        /\ Seeds[k].group \in Groups
        /\ \E i \in 1 .. n + 1 :
              /\ i \in DOMAIN Seeds /\ HeldSeed(i, Seeds[k].group)
              /\ \A j \in i + 1 .. n : Seeds[j].group # Seeds[k].group

\* The first n seeds went well and the others are still in the queue, or seed
\* n + 1 failed and the loader gave up.
Reached(n) ==
    /\ \A i \in 1 .. n : results[Seeder][i].status = "ok"
    /\ \/ /\ Len(results[Seeder]) = n /\ Len(queue[Seeder]) = Len(Seeds) - n
          /\ \A i \in 1 .. Len(queue[Seeder]) : queue[Seeder][i] = Seeds[n + i]
       \/ /\ Len(results[Seeder]) = n + 1 /\ n < Len(Seeds)
          /\ results[Seeder][n + 1].status = "error" /\ queue[Seeder] = <<>>

\* While the server seeds, no client's call has been accepted.
SeedInv ==
    server = "seeding" =>
        /\ at[Seeder] \in Working /\ source[Seeder] = "file"
        /\ \A w \in Workers : at[w] = "idle"
        /\ \E n \in 0 .. Len(Seeds) : Reached(n) /\ SeedsHeld(n)

\* A loader that still has a seed to apply is at the one after the last good one.
LEMMA NextSeed ==
    ASSUME IInv, NEW n \in 0 .. Len(Seeds), Reached(n), queue[Seeder] # <<>>
    PROVE  /\ n + 1 \in DOMAIN Seeds /\ Head(queue[Seeder]) = Seeds[n + 1]
           /\ Len(results[Seeder]) = n /\ Len(queue[Seeder]) = Len(Seeds) - n
           /\ \A i \in 1 .. Len(queue[Seeder]) : queue[Seeder][i] = Seeds[n + i]
  <1>1. queue[Seeder] \in Seq(Definition)
    BY DEF IInv, TypeOK, Processes
  <1> PICK q \in Seq(Definition) : q = queue[Seeder]
    BY <1>1
  <1>2. /\ Len(results[Seeder]) = n /\ Len(q) = Len(Seeds) - n
        /\ \A i \in 1 .. Len(q) : q[i] = Seeds[n + i]
    BY DEF Reached
  <1>3. Len(q) >= 1 /\ Head(q) = q[1]
    OBVIOUS
  <1>4. 1 \in 1 .. Len(q) /\ n + 1 \in 1 .. Len(Seeds) /\ DOMAIN Seeds = 1 .. Len(Seeds)
    BY <1>2, <1>3
  <1> QED BY <1>2, <1>3, <1>4

\* The end of a seed's transaction.
LEMMA SeedOutcome ==
    ASSUME IInv, NEW n \in 0 .. Len(Seeds), Reached(n), queue[Seeder] # <<>>,
           source[Seeder] = "file",
           NEW status \in {"ok", "error"}, NEW committed \in BOOLEAN,
           Outcome(Seeder, status, committed)
    PROVE  /\ at'[Seeder] = "apply.next" /\ source'[Seeder] = "file"
           /\ \A w \in Workers : at'[w] = at[w]
           /\ status = "ok" => Reached(n + 1)'
           /\ status = "error" => Reached(n)'
  <1>0. /\ at \in [Processes -> Stages] /\ results \in [Processes -> Seq(Results)]
        /\ queue \in [Processes -> Seq(Definition)] /\ Seeder \in Processes
        /\ \A w \in Workers : w \in Processes /\ w # Seeder
    BY DEF IInv, TypeOK, Processes
  <1> PICK q \in Seq(Definition) : q = queue[Seeder]
    BY <1>0
  <1> PICK r \in Seq(Results) : r = results[Seeder]
    BY <1>0
  <1> PICK e : e = [status |-> status, committed |-> committed]
    OBVIOUS
  <1>1. /\ n + 1 \in 1 .. Len(Seeds) /\ Len(r) = n /\ Len(q) = Len(Seeds) - n
        /\ \A i \in 1 .. Len(q) : q[i] = Seeds[n + i]
    BY NextSeed
  <1>2. /\ at'[Seeder] = "apply.next" /\ source' = source
        /\ \A w \in Workers : at'[w] = at[w]
        /\ results'[Seeder] = Append(r, e)
        /\ queue'[Seeder] = IF status = "error" THEN <<>> ELSE Tail(q)
    BY <1>0 DEF Outcome
  <1>3. e \in Results /\ e.status = status
    BY DEF Results
  <1>4. /\ Len(Append(r, e)) = n + 1 /\ Append(r, e)[n + 1] = e
        /\ \A i \in 1 .. n : Append(r, e)[i] = r[i]
    BY <1>1, <1>3
  <1>5. \A i \in 1 .. n : r[i].status = "ok"
    BY DEF Reached
  <1>6. ASSUME status = "ok"
        PROVE  Reached(n + 1)'
    <2>0. /\ Len(Tail(q)) = Len(q) - 1
          /\ \A i \in 1 .. Len(Tail(q)) : Tail(q)[i] = q[i + 1] /\ i + 1 \in 1 .. Len(q)
      BY QueueHead
    <2>1. Len(Tail(q)) = Len(Seeds) - (n + 1)
      BY <1>1, <2>0
    <2>2. \A i \in 1 .. Len(Tail(q)) : Tail(q)[i] = Seeds[(n + 1) + i]
      BY <1>1, <2>0
    <2>3. \A i \in 1 .. n + 1 : i \in 1 .. n \/ i = n + 1
      OBVIOUS
    <2>4. \A i \in 1 .. n + 1 : results'[Seeder][i].status = "ok"
      BY <1>2, <1>3, <1>4, <1>5, <1>6, <2>3
    <2>5. queue'[Seeder] = Tail(q) /\ Len(results'[Seeder]) = n + 1
      BY <1>2, <1>4, <1>6
    <2> QED BY <2>1, <2>2, <2>4, <2>5 DEF Reached
  <1>7. ASSUME status = "error"
        PROVE  Reached(n)'
    <2>1. /\ queue'[Seeder] = <<>> /\ Len(results'[Seeder]) = n + 1
          /\ results'[Seeder][n + 1].status = "error" /\ n < Len(Seeds)
      BY <1>1, <1>2, <1>3, <1>4, <1>7
    <2>2. \A i \in 1 .. n : results'[Seeder][i].status = "ok"
      BY <1>2, <1>4, <1>5
    <2> QED BY <2>1, <2>2 DEF Reached
  <1> QED BY <1>2, <1>6, <1>7

\* The seed that the loader commits is in the tables then, and nothing else
\* has changed.
LEMMA SeedCommit ==
    ASSUME IInv, NEW n \in 0 .. Len(Seeds), Reached(n), SeedsHeld(n),
           source[Seeder] = "file", ApplyCommit(Seeder)
    PROVE  SeedsHeld(n)' /\ SeedsHeld(n + 1)'
  <1>0. /\ template \in [Groups -> {NoTemplate} \cup [label : Labels, active : BOOLEAN]]
        /\ fields \in [Groups -> SUBSET FieldRow] /\ Seeder \in Processes
    BY DEF IInv, TypeOK, Processes
  <1>1. /\ n + 1 \in DOMAIN Seeds /\ Head(queue[Seeder]) = Seeds[n + 1]
        /\ Seeds[n + 1].group \in Groups /\ Seeds[n + 1].fields \in Seq(FieldRow)
    BY <1>0, Current, NextSeed DEF ApplyCommit, Applying
  <1> PICK D : D = Seeds[n + 1]
    OBVIOUS
  <1> PICK c \in Seq(FieldRow) : c = Converted("file", D.fields)
    BY <1>1, Conversion DEF Sources
  <1>2. buf[Seeder] = Rows(c)
    <2>1. Splits(c, <<>>, buf[Seeder])
      BY <1>0, <1>1 DEF ApplyCommit, IInv, QueueInv, Inserted
    <2> QED BY <2>1, SplitEnd
  <1> PICK h \in Groups : h = D.group
    BY <1>1
  <1> PICK a : a = IF Exists(h) THEN template[h].active ELSE TRUE
    OBVIOUS
  <1>3. /\ template' = [template EXCEPT ![h] = [label |-> D.label, active |-> a]]
        /\ fields' = [fields EXCEPT ![h] = Rows(c)]
    BY <1>1, <1>2 DEF ApplyCommit
  <1>4. template'[h].label = D.label /\ fields'[h] = Rows(c)
    BY <1>0, <1>3
  <1>5. HeldSeed(n + 1, h)'
    BY <1>4 DEF HeldSeed, Content
  <1>6. \A g \in Groups \ {h} : template'[g] = template[g] /\ fields'[g] = fields[g]
    BY <1>0, <1>3
  <1>7. ASSUME NEW k \in 1 .. n, Seeds[k].group # h
        PROVE  /\ Seeds[k].group \in Groups
               /\ \E i \in 1 .. n : /\ i \in DOMAIN Seeds /\ HeldSeed(i, Seeds[k].group)'
                                    /\ \A j \in i + 1 .. n : Seeds[j].group # Seeds[k].group
    <2>1. Seeds[k].group \in Groups
      BY DEF SeedsHeld
    <2>2. PICK i \in 1 .. n + 1 :
              /\ i \in DOMAIN Seeds /\ HeldSeed(i, Seeds[k].group)
              /\ \A j \in i + 1 .. n : Seeds[j].group # Seeds[k].group
      BY DEF SeedsHeld
    <2>3. i # n + 1
      BY <1>7, <2>2 DEF HeldSeed
    <2>4. i \in 1 .. n
      BY <2>3
    <2>5. HeldSeed(i, Seeds[k].group)'
      BY <1>6, <1>7, <2>1, <2>2 DEF HeldSeed
    <2> QED BY <2>1, <2>2, <2>4, <2>5
  <1>8. SeedsHeld(n)'
    <2> SUFFICES ASSUME NEW k \in 1 .. n
                 PROVE  /\ Seeds[k].group \in Groups
                        /\ \E i \in 1 .. n + 1 :
                              /\ i \in DOMAIN Seeds /\ HeldSeed(i, Seeds[k].group)'
                              /\ \A j \in i + 1 .. n : Seeds[j].group # Seeds[k].group
      BY DEF SeedsHeld
    <2>1. CASE Seeds[k].group = h
      <3>1. n + 1 \in 1 .. n + 1 /\ \A j \in (n + 1) + 1 .. n : FALSE
        OBVIOUS
      <3> QED BY <1>1, <1>5, <2>1, <3>1
    <2>2. CASE Seeds[k].group # h
      <3>1. \A i \in 1 .. n : i \in 1 .. n + 1
        OBVIOUS
      <3> QED BY <1>7, <2>2, <3>1
    <2> QED BY <2>1, <2>2
  <1>9. SeedsHeld(n + 1)'
    <2> SUFFICES ASSUME NEW k \in 1 .. n + 1
                 PROVE  /\ Seeds[k].group \in Groups
                        /\ \E i \in 1 .. (n + 1) + 1 :
                              /\ i \in DOMAIN Seeds /\ HeldSeed(i, Seeds[k].group)'
                              /\ \A j \in i + 1 .. n + 1 : Seeds[j].group # Seeds[k].group
      BY DEF SeedsHeld
    <2>1. CASE Seeds[k].group = h
      <3>1. n + 1 \in 1 .. (n + 1) + 1 /\ \A j \in (n + 1) + 1 .. n + 1 : FALSE
        OBVIOUS
      <3> QED BY <1>1, <1>5, <2>1, <3>1
    <2>2. CASE Seeds[k].group # h
      <3>1. k \in 1 .. n
        BY <2>2
      <3>2. PICK i \in 1 .. n :
                /\ i \in DOMAIN Seeds /\ HeldSeed(i, Seeds[k].group)'
                /\ \A j \in i + 1 .. n : Seeds[j].group # Seeds[k].group
        BY <1>7, <2>2, <3>1
      <3>3. \A j \in i + 1 .. n + 1 : j \in i + 1 .. n \/ j = n + 1
        OBVIOUS
      <3>4. i \in 1 .. (n + 1) + 1 /\ \A j \in i + 1 .. n + 1 : Seeds[j].group # Seeds[k].group
        BY <2>2, <3>2, <3>3
      <3> QED BY <1>7, <2>2, <3>1, <3>2, <3>4
    <2> QED BY <2>1, <2>2
  <1> QED BY <1>8, <1>9

\* The switch of a template leaves its contents alone.
LEMMA SeedSwitch ==
    ASSUME IInv, NEW n \in 0 .. Len(Seeds), SeedsHeld(n),
           NEW g \in Groups, NEW on \in BOOLEAN, SetTemplateActive(g, on)
    PROVE  SeedsHeld(n)'
  <1>0. /\ template \in [Groups -> {NoTemplate} \cup [label : Labels, active : BOOLEAN]]
        /\ template[g] \in [label : Labels, active : BOOLEAN]
        /\ fields' = fields
    BY DEF IInv, TypeOK, SetTemplateActive, Exists
  <1>1. template' = [template EXCEPT ![g] = [template[g] EXCEPT !.active = on]]
    BY <1>0 DEF SetTemplateActive
  <1>2. template'[g].label = template[g].label
    BY <1>0, <1>1
  <1>3. \A h \in Groups : template'[h].label = template[h].label
    BY <1>0, <1>1, <1>2
  <1> QED BY <1>0, <1>3 DEF SeedsHeld, HeldSeed

LEMMA SeedInit == Init => SeedInv
  <1> SUFFICES ASSUME Init PROVE SeedInv
    OBVIOUS
  <1>1. /\ at[Seeder] = "apply.next" /\ source[Seeder] = "file"
        /\ queue[Seeder] = Seeds /\ results[Seeder] = <<>>
        /\ \A w \in Workers : at[w] = "idle"
    BY DEF Init, Processes
  <1>2. 0 \in 0 .. Len(Seeds) /\ (\A i \in 1 .. 0 : FALSE) /\ Len(<<>>) = 0
        /\ Len(Seeds) = Len(Seeds) - 0 /\ \A i \in 1 .. Len(Seeds) : Seeds[i] = Seeds[0 + i]
    OBVIOUS
  <1>3. Reached(0) /\ SeedsHeld(0)
    BY <1>1, <1>2 DEF Reached, SeedsHeld
  <1> QED BY <1>1, <1>2, <1>3 DEF SeedInv, Working

\* The steps of the loader.
LEMMA LoaderStep ==
    ASSUME IInv, SeedInv, server = "seeding",
           ApplyNext(Seeder) \/ ApplyConfigTemplate(Seeder) \/ ApplyFails(Seeder)
    PROVE  SeedInv'
  <1>0. /\ source[Seeder] = "file" /\ \A w \in Workers : at[w] = "idle"
    BY DEF SeedInv
  <1>1. PICK n \in 0 .. Len(Seeds) : Reached(n) /\ SeedsHeld(n)
    BY DEF SeedInv
  <1>2. /\ at \in [Processes -> Stages] /\ Seeder \in Processes
        /\ \A w \in Workers : w \in Processes /\ w # Seeder
    BY DEF IInv, TypeOK, Processes
  <1>3. ASSUME Outcome(Seeder, "error", FALSE), queue[Seeder] # <<>>, UNCHANGED tables
        PROVE  SeedInv'
    <2>1. SeedsHeld(n)'
      BY <1>1, <1>3 DEF tables, SeedsHeld, HeldSeed
    <2>2. /\ at'[Seeder] = "apply.next" /\ source'[Seeder] = "file"
          /\ (\A w \in Workers : at'[w] = at[w]) /\ Reached(n)'
      BY <1>0, <1>1, <1>3, SeedOutcome
    <2> QED BY <1>0, <2>1, <2>2 DEF SeedInv, Working
  <1>4. ASSUME UNCHANGED <<tables, source, queue, results>>, NEW s \in Applying,
               at' = [at EXCEPT ![Seeder] = s]
        PROVE  SeedInv'
    <2>1. Reached(n)' /\ SeedsHeld(n)'
      BY <1>1, <1>4 DEF tables, Reached, SeedsHeld, HeldSeed
    <2>2. at'[Seeder] = s /\ \A w \in Workers : at'[w] = "idle"
      BY <1>0, <1>2, <1>4
    <2> QED BY <1>0, <1>4, <2>1, <2>2 DEF SeedInv, Working
  <1>5. CASE ApplyNext(Seeder)
    <2>1. CASE Rejected(Seeder, Head(queue[Seeder]))
      BY <1>3, <1>5, <2>1 DEF ApplyNext
    <2>2. CASE ~Rejected(Seeder, Head(queue[Seeder]))
      BY <1>4, <1>5, <2>2 DEF ApplyNext, applying, Applying
    <2> QED BY <2>1, <2>2
  <1>6. CASE ApplyUpsert(Seeder) \/ ApplyDelete(Seeder)
    BY <1>4, <1>6 DEF ApplyUpsert, ApplyDelete, Applying
  <1>7. CASE ApplyField(Seeder)
    <2>1. queue[Seeder] # <<>> /\ UNCHANGED tables /\ at[Seeder] \in Applying
      BY <1>2, <1>7, Current DEF ApplyField, Applying
    <2>2. CASE Outcome(Seeder, "error", FALSE)
      BY <1>3, <2>1, <2>2
    <2>3. CASE UNCHANGED <<lock, source, queue, results, at>>
      <3>1. at' = [at EXCEPT ![Seeder] = at[Seeder]]
        BY <1>2, <2>3
      <3> QED BY <1>4, <2>1, <2>3, <3>1
    <2> QED BY <1>7, <2>2, <2>3 DEF ApplyField
  <1>8. CASE ApplyFails(Seeder)
    <2>1. queue[Seeder] # <<>>
      BY <1>2, <1>8, Current DEF ApplyFails, Applying
    <2> QED BY <1>3, <1>8, <2>1 DEF ApplyFails
  <1>9. CASE ApplyCommit(Seeder)
    <2>1. queue[Seeder] # <<>> /\ server' = server
      BY <1>2, <1>9, Current DEF ApplyCommit, Applying
    <2>2. n + 1 \in 0 .. Len(Seeds)
      BY <1>1, <2>1, NextSeed
    <2>3. SeedsHeld(n)' /\ SeedsHeld(n + 1)'
      BY <1>0, <1>1, <1>9, SeedCommit
    <2>4. PICK status \in {"ok", "error"} : Outcome(Seeder, status, TRUE)
      BY <1>9 DEF ApplyCommit
    <2>5. /\ at'[Seeder] = "apply.next" /\ source'[Seeder] = "file"
          /\ \A w \in Workers : at'[w] = at[w]
          /\ Reached(n + 1)' \/ Reached(n)'
      BY <1>0, <1>1, <2>1, <2>4, SeedOutcome
    <2> QED BY <1>0, <2>2, <2>3, <2>5 DEF SeedInv, Working
  <1> QED BY <1>5, <1>6, <1>7, <1>8, <1>9 DEF ApplyConfigTemplate

LEMMA SeedStep == IInv /\ SeedInv /\ [Next]_vars => SeedInv'
  <1> SUFFICES ASSUME IInv, SeedInv, [Next]_vars, server' = "seeding"
               PROVE  SeedInv'
    BY DEF SeedInv
  <1>1. CASE Crash
    <2>1. /\ at'[Seeder] = "apply.next" /\ source'[Seeder] = "file"
          /\ queue'[Seeder] = Seeds /\ results'[Seeder] = <<>>
          /\ \A w \in Workers : at'[w] = "idle"
      BY <1>1 DEF Crash, Processes
    <2>2. 0 \in 0 .. Len(Seeds) /\ (\A i \in 1 .. 0 : FALSE) /\ Len(<<>>) = 0
          /\ Len(Seeds) = Len(Seeds) - 0 /\ \A i \in 1 .. Len(Seeds) : Seeds[i] = Seeds[0 + i]
      OBVIOUS
    <2>3. Reached(0)' /\ SeedsHeld(0)'
      BY <2>1, <2>2 DEF Reached, SeedsHeld
    <2> QED BY <2>1, <2>2, <2>3 DEF SeedInv, Working
  <1>2. ASSUME ~Crash
        PROVE  server = "seeding"
    BY <1>2 DEF Next, vars, ApplyNext, ApplyConfigTemplate, ApplyUpsert, ApplyDelete,
         ApplyField, ApplyCommit, ApplyFails, StartBatch, FinishBatch, Read, ReadOn,
         TemplateRow, DefaultsRow, ListTemplates, TemplateFields, DefaultsFields,
         ListActive, Reading, Return, Serve, SetTemplateActive
  <1>3. ASSUME server = "seeding"
        PROVE  \/ ApplyNext(Seeder) \/ ApplyConfigTemplate(Seeder) \/ ApplyFails(Seeder)
               \/ \E g \in Groups, on \in BOOLEAN : SetTemplateActive(g, on)
               \/ Crash
               \/ UNCHANGED vars
    <2>1. \A w \in Workers : at[w] = "idle"
      BY <1>3 DEF SeedInv
    <2>2. \A p \in Processes : p = Seeder \/ p \in Workers
      BY DEF Processes
    <2>3. ~Serve
      BY DEF Serve
    <2>4. ASSUME NEW w \in Workers
          PROVE  ~(ApplyNext(w) \/ ApplyConfigTemplate(w) \/ ApplyFails(w))
      BY <2>1 DEF ApplyNext, ApplyConfigTemplate, ApplyUpsert, ApplyDelete, ApplyField,
                  ApplyCommit, ApplyFails
    <2>5. ASSUME NEW w \in Workers
          PROVE  ~(FinishBatch(w) \/ ReadOn(w) \/ Return(w) \/ Read(w)
                   \/ \E src \in Sources, batch \in Batches : StartBatch(w, src, batch))
      BY <1>3, <2>1 DEF FinishBatch, ReadOn, TemplateFields, DefaultsFields, ListActive,
                  Return, Read, TemplateRow, DefaultsRow, ListTemplates, StartBatch, Accept
    <2> QED BY <2>2, <2>3, <2>4, <2>5 DEF Next
  <1>4. ASSUME server = "seeding", NEW g \in Groups, NEW on \in BOOLEAN, SetTemplateActive(g, on)
        PROVE  SeedInv'
    <2>1. PICK n \in 0 .. Len(Seeds) : Reached(n) /\ SeedsHeld(n)
      BY <1>4 DEF SeedInv
    <2>2. SeedsHeld(n)'
      BY <1>4, <2>1, SeedSwitch
    <2>3. Reached(n)'
      BY <1>4, <2>1 DEF Reached, SetTemplateActive, applying
    <2> QED BY <1>4, <2>2, <2>3 DEF SeedInv, SetTemplateActive, applying
  <1>5. ASSUME server = "seeding", UNCHANGED vars
        PROVE  SeedInv'
    <2>1. UNCHANGED <<server, template, fields, at, source, queue, results>>
      BY <1>5 DEF vars
    <2>2. \A n \in 0 .. Len(Seeds) : Reached(n) /\ SeedsHeld(n) => Reached(n)' /\ SeedsHeld(n)'
      BY <2>1 DEF Reached, SeedsHeld, HeldSeed
    <2> QED BY <1>5, <2>1, <2>2 DEF SeedInv
  <1> QED BY <1>1, <1>2, <1>3, <1>4, <1>5, LoaderStep

LEMMA SeedInvariance == Spec => []SeedInv
  BY SeedInit, SeedStep, Invariance, PTL DEF Spec

\* LastSeed is the one index that it describes.
LEMMA LastSeedIs ==
    ASSUME NEW g, NEW n \in 0 .. Len(Seeds), NEW i \in 1 .. n, Seeds[i].group = g,
           \A j \in i + 1 .. n : Seeds[j].group # g
    PROVE  LastSeed(g, n) = i
  <1>1. \A k \in 1 .. n : (Seeds[k].group = g /\ \A j \in k + 1 .. n : Seeds[j].group # g) => k = i
    <2> SUFFICES ASSUME NEW k \in 1 .. n, Seeds[k].group = g,
                        \A j \in k + 1 .. n : Seeds[j].group # g, k # i
                 PROVE  FALSE
      OBVIOUS
    <2>1. k \in i + 1 .. n \/ i \in k + 1 .. n
      OBVIOUS
    <2> QED BY <2>1
  <1> QED BY <1>1 DEF LastSeed

\* The greatest of the first n numbers.
LEMMA Greatest ==
    ASSUME NEW n \in Nat, NEW ok, ok = 1 .. n
    PROVE  (IF ok = {} THEN 0 ELSE CHOOSE i \in ok : \A j \in ok : j <= i) = n
  <1>1. CASE n = 0
    BY <1>1
  <1>2. CASE n # 0
    <2>1. n \in ok /\ \A j \in ok : j <= n
      BY <1>2
    <2>2. \A i \in ok : (\A j \in ok : j <= i) => i = n
      BY <2>1
    <2>3. (CHOOSE i \in ok : \A j \in ok : j <= i) = n
      BY <2>1, <2>2
    <2> QED BY <2>1, <2>3
  <1> QED BY <1>1, <1>2

\* What holds when the server begins to serve.
LEMMA ServeStep ==
    ASSUME IInv, SeedInv, [Next]_vars, server = "seeding", server' = "serving"
    PROVE  LET ok == {i \in DOMAIN results[Seeder] : results[Seeder][i].status = "ok"}
               n  == IF ok = {} THEN 0 ELSE CHOOSE i \in ok : \A j \in ok : j <= i
           IN  \A g \in {Seeds[i].group : i \in 1 .. n} :
                   \E i \in {LastSeed(g, n), n + 1} \cap DOMAIN Seeds :
                       /\ Seeds[i].group = g
                       /\ Content("file", Seeds[i]) = [label  |-> template[g].label,
                                                       fields |-> fields[g]]
  <1>1. PICK n \in 0 .. Len(Seeds) : Reached(n) /\ SeedsHeld(n)
    BY DEF SeedInv
  <1>2. results[Seeder] \in Seq(Results)
    BY DEF IInv, TypeOK, Processes
  <1> DEFINE ok == {i \in DOMAIN results[Seeder] : results[Seeder][i].status = "ok"}
  <1> DEFINE m == IF ok = {} THEN 0 ELSE CHOOSE i \in ok : \A j \in ok : j <= i
  <1>3. ok = 1 .. n
    <2> PICK r \in Seq(Results) : r = results[Seeder]
      BY <1>2
    <2>1. \A i \in 1 .. n : r[i].status = "ok"
      BY <1>1 DEF Reached
    <2>2. Len(r) = n \/ (Len(r) = n + 1 /\ r[n + 1].status = "error")
      BY <1>1 DEF Reached
    <2>3. DOMAIN r = 1 .. Len(r) /\ n \in Nat /\ Len(r) \in Nat
      OBVIOUS
    <2>4. \A i \in 1 .. n : i \in 1 .. Len(r)
      BY <2>2, <2>3
    <2>5. \A i \in 1 .. Len(r) : i \in 1 .. n \/ r[i].status # "ok"
      <3> SUFFICES ASSUME NEW i \in 1 .. Len(r), i \notin 1 .. n
                   PROVE  r[i].status # "ok"
        OBVIOUS
      <3>1. i = n + 1 /\ Len(r) = n + 1
        BY <2>2, <2>3
      <3> QED BY <2>2, <2>3, <3>1
    <2> QED BY <2>1, <2>3, <2>4, <2>5
  <1>4. m = n
    <2> HIDE DEF ok
    <2> QED BY <1>3, Greatest
  <1> HIDE DEF ok, m
  <1>5. ASSUME NEW k \in 1 .. n
        PROVE  \E i \in {LastSeed(Seeds[k].group, n), n + 1} \cap DOMAIN Seeds :
                   HeldSeed(i, Seeds[k].group)
    <2>1. PICK i \in 1 .. n + 1 :
              /\ i \in DOMAIN Seeds /\ HeldSeed(i, Seeds[k].group)
              /\ \A j \in i + 1 .. n : Seeds[j].group # Seeds[k].group
      BY <1>1 DEF SeedsHeld
    <2>2. CASE i = n + 1
      BY <2>1, <2>2
    <2>3. CASE i # n + 1
      <3>1. i \in 1 .. n /\ Seeds[i].group = Seeds[k].group
        BY <2>1, <2>3 DEF HeldSeed
      <3>2. LastSeed(Seeds[k].group, n) = i
        BY <2>1, <3>1, LastSeedIs
      <3> QED BY <2>1, <3>2
    <2> QED BY <2>2, <2>3
  <1>6. \A g \in {Seeds[i].group : i \in 1 .. m} :
            \E i \in {LastSeed(g, m), m + 1} \cap DOMAIN Seeds : HeldSeed(i, g)
    BY <1>4, <1>5
  <1> QED BY <1>6 DEF HeldSeed, ok, m

\* When the server starts to serve, the tables hold the seeds before the first
\* one that failed, and no client's call came in between (startGRPCServer,
\* main.go:90-101).
THEOREM Seeded == Spec => SeededBeforeServing
  <1>1. IInv /\ SeedInv /\ [Next]_vars =>
            [server = "seeding" /\ server' = "serving" =>
               LET ok == {i \in DOMAIN results[Seeder] : results[Seeder][i].status = "ok"}
                   n  == IF ok = {} THEN 0 ELSE CHOOSE i \in ok : \A j \in ok : j <= i
               IN  \A g \in {Seeds[i].group : i \in 1 .. n} :
                       \E i \in {LastSeed(g, n), n + 1} \cap DOMAIN Seeds :
                           /\ Seeds[i].group = g
                           /\ Content("file", Seeds[i]) = [label  |-> template[g].label,
                                                           fields |-> fields[g]]]_vars
    BY ServeStep
  <1> QED BY <1>1, Invariance, SeedInvariance, PTL DEF Spec, SeededBeforeServing
=============================================================================
