-------------------------- MODULE FrontEndsProofs --------------------------
(***************************************************************************)
(* Proofs about FrontEnds for any requests, commands, callers and faults:  *)
(* what users are told and shown is what has happened, and whatever front  *)
(* ends send, configurations change only as the service promises.          *)
(***************************************************************************)
EXTENDS FrontEnds, SequenceTheorems, FiniteSetTheorems, TLAPS

-----------------------------------------------------------------------------
(* The invariant *)

\* What is kept for each caller is a function of the callers.
FunctionsOK ==
    /\ at      = [w \in Callers |-> at[w]]
    /\ request = [w \in Callers |-> request[w]]
    /\ call    = [w \in Callers |-> call[w]]
    /\ answer  = [w \in Callers |-> answer[w]]
    /\ out     = [w \in Callers |-> out[w]]
    /\ during  = [w \in Callers |-> during[w]]

RowsOK ==
    /\ DOMAIN store \subseteq Keys
    /\ \A k \in DOMAIN store : store[k] \in Row

\* A write that is under way is about a configuration that somebody named.
WritesOK == \A w \in Callers :
    /\ "op" \in DOMAIN call[w]
    /\ at[w] = "call" /\ call[w].op \in Writes => KeyOf(call[w].id) \in Keys

\* A section that tells the truth, given the versions published meanwhile.
IsTrue(s, versions) == s.published => s.version \in versions

\* What is shown is at most two sections, and true.
Shown(sections, versions) ==
    \/ sections = <<>>
    \/ \E s : sections = <<s>> /\ IsTrue(s, versions)
    \/ \E s, t : sections = <<s, t>> /\ IsTrue(s, versions) /\ IsTrue(t, versions)

\* A caller has seen what is published since it began, what it was answered is
\* about one of those versions, and so is what it shows already.
ClaimInv(w) ==
    /\ "sections" \in DOMAIN out[w]
    /\ at[w] \in Calling => RowIn(store, KeyOf(call[w].id)).published \in during[w]
    /\ at[w] = "answered" /\ answer[w].published # 0 /\ answer[w].published = answer[w].number
          => answer[w].published \in during[w]
    /\ at[w] \in Calling \cup {"idle"} =>
          \/ out[w].sections = <<>>
          \/ \E s : out[w].sections = <<s>> /\ IsTrue(s, during[w])
    /\ at[w] = "done" => Shown(out[w].sections, during[w])

IInv == FunctionsOK /\ RowsOK /\ WritesOK /\ \A w \in Callers : ClaimInv(w)

-----------------------------------------------------------------------------
(* The rows *)

LEMMA RowOf ==
    ASSUME RowsOK, NEW k
    PROVE  RowIn(store, k) = NoRow \/ RowIn(store, k) \in Row
  BY DEF RowsOK, RowIn

\* The row of k is exchanged, and no other.
LEMMA RowSet ==
    ASSUME NEW k, NEW row, SetRow(k, row), NEW l
    PROVE  RowIn(store', l) = IF l = k THEN row ELSE RowIn(store, l)
  BY DEF SetRow, RowIn

LEMMA RowsStay ==
    ASSUME RowsOK, NEW k \in Keys, NEW row, SetRow(k, row), row = NoRow \/ row \in Row
    PROVE  RowsOK'
  BY DEF SetRow, RowsOK

\* Its callers have seen what is published then.
LEMMA SeenSet ==
    ASSUME NEW k, NEW row, SetRow(k, row), NEW w \in Callers
    PROVE  /\ during'[w] = during[w] \/ during'[w] = during[w] \cup {row.published}
           /\ at[w] \in Calling /\ KeyOf(call[w].id) = k => row.published \in during'[w]
  BY DEF SetRow

\* The row that an accepted write leaves.
LEMMA WrittenRow ==
    ASSUME NEW row, row = NoRow \/ row \in Row, NEW c, c.op \in Writes, Accepted(row, c)
    PROVE  /\ Written(row, c) \in Row
           /\ c.op = "UpdateConfig" =>
                 Written(row, c) = [latest |-> row.latest + 1, published |-> row.published]
           /\ c.op = "PublishVersion" =>
                 /\ row \in Row /\ c.number \in 1 .. row.latest
                 /\ Written(row, c) = [latest |-> row.latest, published |-> c.number]
  <1>1. CASE c.op = "UpdateConfig"
    BY <1>1 DEF Written, Row, NoRow
  <1>2. CASE c.op = "PublishVersion"
    <2>1. c.number \in 1 .. row.latest
      BY <1>2 DEF Accepted, Existing
    <2>2. row \in Row
      BY <2>1 DEF NoRow
    <2>3. Written(row, c) = [latest |-> row.latest, published |-> c.number]
      BY <1>2, <2>2 DEF Written, Row
    <2>4. Written(row, c) \in Row
      BY <2>1, <2>2, <2>3 DEF Row
    <2> QED BY <1>2, <2>1, <2>2, <2>3, <2>4
  <1> QED BY <1>1, <1>2 DEF Writes

\* What the handler of a caller's write does.
LEMMA Served ==
    ASSUME IInv, NEW w \in Callers, Serve(w)
    PROVE  LET c   == call[w]
               k   == KeyOf(c.id)
               row == RowIn(store, k)
           IN  \/ UNCHANGED <<store, during>>
               \/ /\ c.op \in Writes /\ Accepted(row, c) /\ k \in Keys
                  /\ row = NoRow \/ row \in Row
                  /\ SetRow(k, Written(row, c))
  BY RowOf DEF Serve, IInv, WritesOK

\* What the other clients do.
LEMMA Others ==
    ASSUME IInv, OthersAct
    PROVE  \E k \in Keys : LET row == RowIn(store, k) IN
             \/ SetRow(k, [latest |-> row.latest + 1, published |-> row.published])
                /\ [latest |-> row.latest + 1, published |-> row.published] \in Row
             \/ row \in Row /\ \E v \in 1 .. row.latest :
                  SetRow(k, [latest |-> row.latest, published |-> v])
             \/ row \in Row /\ SetRow(k, NoRow)
  <1> PICK k \in Shared :
          LET row == RowIn(store, k)
          IN  \/ Room(k) /\ SetRow(k, [row EXCEPT !.latest = @ + 1])
              \/ \E v \in Existing(row) \ {row.published} :
                    SetRow(k, [row EXCEPT !.published = v])
              \/ row # NoRow /\ SetRow(k, NoRow)
    BY DEF OthersAct
  <1> PICK row : row = RowIn(store, k)
    OBVIOUS
  <1>1. k \in Keys /\ (row = NoRow \/ row \in Row)
    BY RowOf DEF Keys, IInv
  <1>2. [row EXCEPT !.latest = @ + 1] = [latest |-> row.latest + 1, published |-> row.published]
        /\ [latest |-> row.latest + 1, published |-> row.published] \in Row
    BY <1>1 DEF Row, NoRow
  <1>3. \A v \in Existing(row) : row \in Row /\ v \in 1 .. row.latest
            /\ [row EXCEPT !.published = v] = [latest |-> row.latest, published |-> v]
    BY <1>1 DEF Row, NoRow, Existing
  <1>4. \/ SetRow(k, [latest |-> row.latest + 1, published |-> row.published])
        \/ row \in Row /\ \E v \in 1 .. row.latest :
               SetRow(k, [latest |-> row.latest, published |-> v])
        \/ row \in Row /\ SetRow(k, NoRow)
    <2>1. SetRow(k, [row EXCEPT !.latest = @ + 1]) =>
              SetRow(k, [latest |-> row.latest + 1, published |-> row.published])
      BY <1>2
    <2>2. \A v \in Existing(row) : SetRow(k, [row EXCEPT !.published = v]) =>
              row \in Row /\ v \in 1 .. row.latest
              /\ SetRow(k, [latest |-> row.latest, published |-> v])
      BY <1>3
    <2>3. row # NoRow => row \in Row
      BY <1>1
    <2> QED BY <2>1, <2>2, <2>3
  <1> QED BY <1>1, <1>2, <1>4

LEMMA ServiceRows ==
    ASSUME IInv, OthersAct \/ \E w \in Callers : Serve(w)
    PROVE  RowsOK'
  <1>1. CASE OthersAct
    <2> PICK k \in Keys : LET row == RowIn(store, k) IN
             \/ SetRow(k, [latest |-> row.latest + 1, published |-> row.published])
                /\ [latest |-> row.latest + 1, published |-> row.published] \in Row
             \/ row \in Row /\ \E v \in 1 .. row.latest :
                  SetRow(k, [latest |-> row.latest, published |-> v])
             \/ row \in Row /\ SetRow(k, NoRow)
      BY <1>1, Others
    <2>1. \A row \in Row : \A v \in 1 .. row.latest : [latest |-> row.latest, published |-> v] \in Row
      BY DEF Row
    <2> QED BY <2>1, RowsStay DEF IInv
  <1>2. ASSUME NEW w \in Callers, Serve(w)
        PROVE  RowsOK'
    BY <1>2, Served, WrittenRow, RowsStay DEF IInv, RowsOK
  <1> QED BY <1>1, <1>2

-----------------------------------------------------------------------------
(* What users are told *)

LEMMA NoRowIn == Init => \A k : RowIn(store, k) = NoRow
  BY DEF Init, InitService, RowIn

LEMMA InvInit == Init => IInv
  <1> SUFFICES ASSUME Init PROVE IInv
    OBVIOUS
  <1>1. FunctionsOK /\ RowsOK
    BY DEF Init, InitService, FunctionsOK, RowsOK
  <1>2. \A w \in Callers : at[w] = "idle" /\ out[w] = Silent
    BY DEF Init, InitService
  <1>3. "sections" \in DOMAIN Silent /\ Silent.sections = <<>>
    BY DEF Silent
  <1>4. WritesOK
    BY <1>2 DEF Init, InitService, WritesOK, NoCall
  <1> QED BY <1>1, <1>2, <1>3, <1>4 DEF IInv, ClaimInv, Calling

\* A caller that makes no step itself.
LEMMA Bystander ==
    ASSUME IInv, NEW w \in Callers, at'[w] = at[w], call'[w] = call[w],
           answer'[w] = answer[w], out'[w] = out[w],
           UNCHANGED <<store, during>> \/ \E k, row : SetRow(k, row)
    PROVE  ClaimInv(w)'
  <1>0. ClaimInv(w)
    BY DEF IInv
  <1>1. during[w] \subseteq during'[w]
    BY SeenSet
  <1>2. at[w] \in Calling => RowIn(store', KeyOf(call[w].id)).published \in during'[w]
    BY <1>0, <1>1, RowSet, SeenSet DEF ClaimInv
  <1>3. \A s : IsTrue(s, during[w]) => IsTrue(s, during'[w])
    BY <1>1 DEF IsTrue
  <1>4. Shown(out[w].sections, during[w]) => Shown(out[w].sections, during'[w])
    BY <1>3 DEF Shown
  <1>5. answer[w].published \in during[w] => answer[w].published \in during'[w]
    BY <1>1
  <1> QED BY <1>0, <1>2, <1>3, <1>4, <1>5 DEF ClaimInv

\* What a caller is given of a call that was lost or broke off.
Failures == {Error("Unavailable"), Error("Canceled"), Error("Internal")}

LEMMA FailureTold ==
    ASSUME NEW a \in Failures
    PROVE  /\ a \in Answer /\ a.published = 0
           /\ a.code \in {"Unavailable", "Canceled", "Internal"}
  BY DEF Failures, Error, Answer, Codes, Fields

\* An answer is about a version that was published while the call was made,
\* unless it does not claim so.
LEMMA ServeClaim ==
    ASSUME IInv, NEW w \in Callers, Serve(w)
    PROVE  ClaimInv(w)'
  <1> PICK c, k, row : c = call[w] /\ k = KeyOf(c.id) /\ row = RowIn(store, k)
    OBVIOUS
  <1>0. ClaimInv(w) /\ at[w] = "call" /\ at'[w] = "answered" /\ call' = call /\ out' = out
        /\ (row = NoRow \/ row \in Row)
    BY RowOf DEF IInv, FunctionsOK, Serve
  <1>1. answer'[w] \in Answers(row, c) \cup Failures
    BY DEF Serve, IInv, FunctionsOK, Failures, Unanswered
  <1>2. row.published \in during[w] /\ during[w] \subseteq during'[w]
    BY <1>0, Served, SeenSet DEF ClaimInv, Calling
  <1>3. RowIn(store', k).published \in during'[w]
    BY <1>0, <1>2, Served, RowSet, SeenSet DEF Calling
  <1>4. answer'[w].published # 0 /\ answer'[w].published = answer'[w].number
            => answer'[w].published \in during'[w]
    <2> PICK a : a = answer'[w]
      OBVIOUS
    <2>1. CASE \E e : a = Error(e)
      BY <2>1 DEF Error
    <2>2. CASE a \in ReadAnswers(row, c)
      BY <1>2, <2>2 DEF ReadAnswers
    <2>3. CASE a \in HistoryAnswers(row, c) \cup TemplateAnswers
      BY <2>3 DEF HistoryAnswers, TemplateAnswers, Error
    <2>4. CASE c.op \in Writes /\ ScopeId(c.id) # Missing /\ a = WriteAnswer(row, c)
      <3>1. CASE ~Accepted(row, c)
        BY <2>1, <2>4, <3>1 DEF WriteAnswer
      <3>2. CASE Accepted(row, c) /\ c.op = "UpdateConfig"
        BY <2>4, <3>2 DEF WriteAnswer
      <3>3. CASE Accepted(row, c) /\ c.op = "PublishVersion"
        <4>1. a.published = c.number
          BY <2>4, <3>3 DEF WriteAnswer
        <4>2. Written(row, c).published = c.number
          BY <1>0, <3>3, WrittenRow DEF Writes
        <4>3. SetRow(k, Written(row, c))
          BY <2>4, <3>3 DEF Serve
        <4> QED BY <1>0, <4>1, <4>2, <4>3, SeenSet DEF Calling
      <3> QED BY <2>4, <3>1, <3>2, <3>3 DEF Writes
    <2>5. a \in Answers(row, c) =>
             \/ \E e : a = Error(e)
             \/ a \in ReadAnswers(row, c)
             \/ a \in HistoryAnswers(row, c) \cup TemplateAnswers
             \/ c.op \in Writes /\ ScopeId(c.id) # Missing /\ a = WriteAnswer(row, c)
      BY DEF Answers
    <2>6. CASE a \in Failures
      BY <2>6, FailureTold
    <2> QED BY <1>1, <2>1, <2>2, <2>3, <2>4, <2>5, <2>6
  <1>5. \A s : IsTrue(s, during[w]) => IsTrue(s, during'[w])
    BY <1>2 DEF IsTrue
  <1> QED BY <1>0, <1>3, <1>4, <1>5 DEF ClaimInv, Calling

\* Callers that begin, go on or end keep to it.
LEMMA CallClaim ==
    ASSUME IInv, NEW w \in Callers, NEW c, MakeCall(w, c), NEW s, "sections" \in DOMAIN out'[w],
           out'[w].sections = <<>> \/ (out'[w].sections = <<s>> /\ IsTrue(s, during[w]))
    PROVE  ClaimInv(w)'
  <1>1. /\ at'[w] = "call" /\ call'[w] = c /\ store' = store
        /\ during'[w] = during[w] \cup {RowIn(store, KeyOf(c.id)).published}
    BY DEF MakeCall, IInv, FunctionsOK
  <1>2. IsTrue(s, during[w]) => IsTrue(s, during'[w])
    BY <1>1 DEF IsTrue
  <1> QED BY <1>1, <1>2 DEF ClaimInv, Calling

LEMMA TellClaim ==
    ASSUME IInv, NEW w \in Callers, NEW status, NEW sections, Tell(w, status, sections),
           Shown(sections, during[w])
    PROVE  ClaimInv(w)'
  <1>1. /\ at'[w] = "done" /\ during'[w] = during[w] /\ "sections" \in DOMAIN out'[w]
        /\ out'[w].sections = sections
    BY DEF Tell, IInv, FunctionsOK
  <1> QED BY <1>1 DEF ClaimInv, Calling

\* The sections that front ends make of an answer are true.
LEMMA Sections ==
    ASSUME IInv, NEW w \in Callers, at[w] = "answered"
    PROVE  /\ \/ Printed(answer[w]) = <<>>
              \/ \E s : Printed(answer[w]) = <<s>> /\ IsTrue(s, during[w])
           /\ \/ JsonSections(answer[w]) = <<>>
              \/ \E s : JsonSections(answer[w]) = <<s>> /\ IsTrue(s, during[w])
  <1>0. answer[w].published # 0 /\ answer[w].published = answer[w].number
            => answer[w].number \in during[w]
    BY DEF IInv, ClaimInv
  <1> PICK a : a = answer[w]
    OBVIOUS
  <1>1. IsTrue([version |-> a.number, published |-> a.published # 0 /\ a.published = a.number],
               during[w])
    BY <1>0 DEF IsTrue
  <1>2. a.number # 0 =>
            IsTrue([version |-> a.number, published |-> a.published = a.number], during[w])
    BY <1>0 DEF IsTrue
  <1> QED BY <1>1, <1>2 DEF Printed, JsonSections

\* The calls that front ends make.
LEMMA StartsCall ==
    ASSUME IInv, NEW w \in Callers, NEW c, MakeCall(w, c),
           (\E r \in HttpRequests : c = CallOf(r)) \/ (\E d \in Commands : c = CliCall(d))
               \/ c = [call[w] EXCEPT !.op = "GetConfig"]
    PROVE  "op" \in DOMAIN c /\ (c.op \in Writes => KeyOf(c.id) \in Keys)
  <1>1. ASSUME NEW r \in HttpRequests, c = CallOf(r)
        PROVE  "op" \in DOMAIN c /\ (c.op \in Writes => KeyOf(c.id) \in Keys)
    <2>1. c.op = Operation[r.route] /\ "op" \in DOMAIN c
      BY <1>1 DEF CallOf
    <2>2. CASE r.route = "template"
      <3>1. Operation["template"] = "GetConfigTemplate"
        BY DEF Operation
      <3> QED BY <2>1, <2>2, <3>1 DEF Writes
    <2>3. CASE r.route # "template"
      BY <1>1, <2>1, <2>3 DEF CallOf, Keys
    <2> QED BY <2>2, <2>3
  <1>2. ASSUME NEW d \in Commands, c = CliCall(d)
        PROVE  "op" \in DOMAIN c /\ (c.op \in Writes => KeyOf(c.id) \in Keys)
    BY <1>2 DEF CliCall, Keys
  <1>3. CASE c = [call[w] EXCEPT !.op = "GetConfig"]
    <2>1. "op" \in DOMAIN call[w]
      BY DEF IInv, WritesOK
    <2> QED BY <1>3, <2>1 DEF Writes
  <1> QED BY <1>1, <1>2, <1>3

\* A step of a front end itself: it makes a call, or tells its user.
Goes(w) ==
    /\ ClaimInv(w)'
    /\ request' = [request EXCEPT ![w] = request'[w]]
    /\ out' = [out EXCEPT ![w] = out'[w]]
    /\ \/ \E c : /\ MakeCall(w, c)
                 /\ "op" \in DOMAIN c /\ (c.op \in Writes => KeyOf(c.id) \in Keys)
       \/ \E status, sections : Tell(w, status, sections)

LEMMA TellGoes ==
    ASSUME IInv, NEW w \in Callers, NEW status, NEW sections, Tell(w, status, sections),
           Shown(sections, during[w]),
           NEW r, request' = [request EXCEPT ![w] = r] \/ request' = request
    PROVE  Goes(w)
  BY TellClaim DEF Goes, Tell, IInv, FunctionsOK

LEMMA CallGoes ==
    ASSUME IInv, NEW w \in Callers, NEW c, MakeCall(w, c),
           (\E r \in HttpRequests : c = CallOf(r)) \/ (\E d \in Commands : c = CliCall(d))
               \/ c = [call[w] EXCEPT !.op = "GetConfig"],
           NEW s, "sections" \in DOMAIN out'[w],
           out'[w].sections = <<>> \/ (out'[w].sections = <<s>> /\ IsTrue(s, during[w])),
           NEW r, request' = [request EXCEPT ![w] = r] \/ request' = request,
           out' = [out EXCEPT ![w] = out'[w]]
    PROVE  Goes(w)
  <1>1. ClaimInv(w)'
    BY CallClaim
  <1>2. request' = [request EXCEPT ![w] = request'[w]]
    BY DEF IInv, FunctionsOK
  <1> QED BY <1>1, <1>2, StartsCall DEF Goes

LEMMA OwnSteps ==
    ASSUME IInv, NEW w \in Callers, HttpNext(w) \/ CliNext(w)
    PROVE  Goes(w)
  <1>0. /\ FunctionsOK /\ "sections" \in DOMAIN out[w]
        /\ at[w] \in Calling \cup {"idle"} =>
              \/ out[w].sections = <<>>
              \/ \E s : out[w].sections = <<s>> /\ IsTrue(s, during[w])
    BY DEF IInv, ClaimInv
  <1>1. Shown(<<>>, during[w])
    BY DEF Shown
  <1>2. ASSUME NEW c, MakeCall(w, c), UNCHANGED out, at[w] = "idle",
               (\E r \in HttpRequests : c = CallOf(r)) \/ (\E d \in Commands : c = CliCall(d)),
               NEW r, request' = [request EXCEPT ![w] = r]
        PROVE  Goes(w)
    <2>1. out' = [out EXCEPT ![w] = out'[w]] /\ "sections" \in DOMAIN out'[w]
      BY <1>0, <1>2 DEF FunctionsOK
    <2> PICK s : out'[w].sections = <<>> \/ (out'[w].sections = <<s>> /\ IsTrue(s, during[w]))
      BY <1>0, <1>2
    <2> QED BY <1>2, <2>1, CallGoes
  <1>3. ASSUME NEW r \in HttpRequests, HttpStart(w, r)
        PROVE  Goes(w)
    <2>1. CASE Tell(w, "401", <<>>) \/ Tell(w, "500", <<>>)
      BY <1>1, <1>3, <2>1, TellGoes DEF HttpStart
    <2>2. CASE MakeCall(w, CallOf(r)) /\ UNCHANGED out
      BY <1>2, <1>3, <2>2 DEF HttpStart
    <2> QED BY <1>3, <2>1, <2>2 DEF HttpStart
  <1>4. ASSUME HttpRespond(w)
        PROVE  Goes(w)
    <2>1. Shown(JsonSections(answer[w]), during[w])
      BY <1>4, Sections DEF HttpRespond, Shown
    <2> QED BY <1>4, <2>1, TellGoes DEF HttpRespond
  <1>5. ASSUME NEW c \in Commands, CliStart(w, c)
        PROVE  Goes(w)
    <2>1. CASE Tell(w, "fatal", <<>>)
      BY <1>1, <1>5, <2>1, TellGoes DEF CliStart
    <2>2. CASE MakeCall(w, CliCall(c)) /\ UNCHANGED out
      BY <1>2, <1>5, <2>2 DEF CliStart
    <2> QED BY <1>5, <2>1, <2>2 DEF CliStart
  <1>6. ASSUME ShowLatest(w)
        PROVE  Goes(w)
    <2> PICK s : Printed(answer[w]) = <<>> \/ (Printed(answer[w]) = <<s>> /\ IsTrue(s, during[w]))
      BY <1>6, Sections DEF ShowLatest
    <2>1. /\ out' = [out EXCEPT ![w] = out'[w]]
          /\ out'[w] = [out[w] EXCEPT !.sections = Printed(answer[w])]
      BY <1>0, <1>6 DEF ShowLatest, FunctionsOK
    <2>2. "sections" \in DOMAIN out'[w] /\ out'[w].sections = Printed(answer[w])
      BY <1>0, <2>1
    <2> QED BY <1>6, <2>1, <2>2, CallGoes DEF ShowLatest
  <1>7. ASSUME ShowPublished(w)
        PROVE  Goes(w)
    <2> PICK first, second : first = out[w].sections /\ second = Printed(answer[w])
      OBVIOUS
    <2>1. /\ first = <<>> \/ \E s : first = <<s>> /\ IsTrue(s, during[w])
          /\ second = <<>> \/ \E t : second = <<t>> /\ IsTrue(t, during[w])
      BY <1>0, <1>7, Sections DEF ShowPublished, Calling
    <2>2. \A s, t : /\ <<>> \o <<>> = <<>> /\ <<>> \o <<t>> = <<t>>
                    /\ <<s>> \o <<>> = <<s>> /\ <<s>> \o <<t>> = <<s, t>>
      <3> SUFFICES ASSUME NEW s, NEW t
                   PROVE  /\ <<>> \o <<>> = <<>> /\ <<>> \o <<t>> = <<t>>
                          /\ <<s>> \o <<>> = <<s>> /\ <<s>> \o <<t>> = <<s, t>>
        OBVIOUS
      <3>1. /\ <<>> \in Seq({s, t}) /\ <<s>> \in Seq({s, t}) /\ <<t>> \in Seq({s, t})
            /\ <<s, t>> \in Seq({s, t})
        OBVIOUS
      <3>2. Append(<<s>>, t) = <<s>> \o <<t>>
        BY <3>1, AppendIsConcat
      <3>3. /\ <<>> \o <<>> = <<>> /\ <<>> \o <<t>> = <<t>>
            /\ <<s>> \o <<>> = <<s>>
        BY <3>1, ConcatEmptySeq, Zenon
      <3>4. Append(<<s>>, t) = <<s, t>>
        <4>1. /\ Append(<<s>>, t) \in Seq({s, t}) /\ Len(Append(<<s>>, t)) = 2
              /\ Append(<<s>>, t)[1] = s /\ Append(<<s>>, t)[2] = t
          BY <3>1, AppendProperties
        <4>2. \A i \in 1 .. 2 : Append(<<s>>, t)[i] = <<s, t>>[i]
          BY <4>1
        <4>3. Len(<<s, t>>) = 2
          OBVIOUS
        <4> QED BY <3>1, <4>1, <4>2, <4>3, SeqEqual
      <3> QED BY <3>2, <3>3, <3>4
    <2>3. Shown(first, during[w]) /\ Shown(first \o second, during[w])
      BY <2>1, <2>2, ZenonT(60) DEF Shown
    <2>4. Tell(w, "printed", first) \/ Tell(w, "printed", first \o second)
      BY <1>7 DEF ShowPublished
    <2> QED BY <1>7, <2>3, <2>4, TellGoes DEF ShowPublished
  <1>8. ASSUME CliFails(w)
        PROVE  Goes(w)
    BY <1>1, <1>8, TellGoes DEF CliFails
  <1>9. ASSUME CliPrints(w)
        PROVE  Goes(w)
    <2>1. Shown(Printed(answer[w]), during[w])
      BY <1>9, Sections DEF CliPrints, Shown
    <2> QED BY <1>9, <2>1, TellGoes DEF CliPrints
  <1> QED BY <1>3, <1>4, <1>5, <1>6, <1>7, <1>8, <1>9 DEF HttpNext, CliNext

LEMMA InvStep == IInv /\ [Next]_vars => IInv'
  <1> SUFFICES ASSUME IInv, [Next]_vars PROVE IInv'
    OBVIOUS
  <1>0. FunctionsOK /\ RowsOK /\ WritesOK /\ \A w \in Callers : ClaimInv(w)
    BY DEF IInv
  <1>1. CASE UNCHANGED vars
    <2>1. FunctionsOK' /\ RowsOK' /\ WritesOK'
      BY <1>0, <1>1 DEF vars, FunctionsOK, RowsOK, WritesOK
    <2>2. \A w \in Callers : ClaimInv(w)'
      BY <1>1, Bystander DEF vars
    <2> QED BY <2>1, <2>2 DEF IInv
  <1>2. CASE OthersAct
    <2>1. UNCHANGED <<at, request, call, answer, out>> /\ \E k, row : SetRow(k, row)
      BY <1>2 DEF OthersAct
    <2>2. during' = [w \in Callers |-> during'[w]]
      BY <2>1 DEF SetRow
    <2>3. FunctionsOK' /\ WritesOK'
      BY <1>0, <2>1, <2>2 DEF FunctionsOK, WritesOK
    <2>4. \A w \in Callers : ClaimInv(w)'
      BY <2>1, Bystander
    <2> QED BY <1>2, <2>3, <2>4, ServiceRows DEF IInv
  <1>3. ASSUME NEW v \in Callers, Goes(v)
        PROVE  IInv'
    <2>1. /\ UNCHANGED <<store, answer>> /\ ClaimInv(v)'
          /\ at' = [at EXCEPT ![v] = at'[v]] /\ call' = [call EXCEPT ![v] = call'[v]]
          /\ during' = [during EXCEPT ![v] = during'[v]]
          /\ request' = [request EXCEPT ![v] = request'[v]]
          /\ out' = [out EXCEPT ![v] = out'[v]]
      BY <1>0, <1>3 DEF Goes, MakeCall, Tell, FunctionsOK
    <2>2. FunctionsOK' /\ RowsOK'
      BY <1>0, <2>1 DEF FunctionsOK, RowsOK
    <2>3. WritesOK'
      BY <1>0, <1>3, <2>1 DEF Goes, MakeCall, Tell, FunctionsOK, WritesOK
    <2>4. \A w \in Callers \ {v} : ClaimInv(w)'
      BY <1>0, <2>1 DEF ClaimInv, FunctionsOK
    <2> QED BY <2>1, <2>2, <2>3, <2>4 DEF IInv
  <1>4. ASSUME NEW v \in Callers, Serve(v)
        PROVE  IInv'
    <2>1. /\ UNCHANGED <<request, call, out>>
          /\ at' = [at EXCEPT ![v] = "answered"] /\ answer' = [answer EXCEPT ![v] = answer'[v]]
          /\ UNCHANGED <<store, during>> \/ \E k, row : SetRow(k, row)
      BY <1>0, <1>4 DEF Serve, FunctionsOK
    <2>2. during' = [w \in Callers |-> during'[w]]
      BY <1>0, <2>1 DEF SetRow, FunctionsOK
    <2>3. FunctionsOK' /\ WritesOK'
      BY <1>0, <2>1, <2>2 DEF FunctionsOK, WritesOK
    <2>4. \A w \in Callers \ {v} : ClaimInv(w)'
      BY <1>0, <2>1, Bystander DEF FunctionsOK
    <2> QED BY <1>4, <2>3, <2>4, ServiceRows, ServeClaim DEF IInv
  <1>5. ASSUME NEW v \in Callers, ServeFails(v)
        PROVE  IInv'
    <2>1. /\ UNCHANGED <<store, request, call, out, during>>
          /\ at[v] = "call" /\ at' = [at EXCEPT ![v] = "answered"]
          /\ answer' = [answer EXCEPT ![v] = answer'[v]] /\ answer'[v] \in Failures
      BY <1>0, <1>5 DEF ServeFails, FunctionsOK, Failures, Unanswered
    <2>2. FunctionsOK' /\ RowsOK' /\ WritesOK'
      BY <1>0, <2>1 DEF FunctionsOK, RowsOK, WritesOK
    <2>3. \A w \in Callers : ClaimInv(w)'
      BY <1>0, <2>1, FailureTold DEF ClaimInv, FunctionsOK, Calling
    <2> QED BY <2>2, <2>3 DEF IInv
  <1>6. ASSUME NEW v \in Callers, Done(v)
        PROVE  IInv'
    <2>1. FunctionsOK' /\ RowsOK'
      BY <1>0, <1>6 DEF Done, FunctionsOK, RowsOK
    <2>2. WritesOK'
      BY <1>0, <1>6 DEF Done, FunctionsOK, WritesOK, NoCall
    <2>3. \A w \in Callers \ {v} : ClaimInv(w)'
      BY <1>0, <1>6 DEF Done, FunctionsOK, ClaimInv
    <2>4. ClaimInv(v)'
      BY <1>0, <1>6 DEF Done, FunctionsOK, ClaimInv, Silent, Calling
    <2> QED BY <2>1, <2>2, <2>3, <2>4 DEF IInv
  <1> QED BY <1>1, <1>2, <1>3, <1>4, <1>5, <1>6, OwnSteps DEF Next, Caller

\* The inductive invariant: rows are well formed, writes under way are about
\* configurations that somebody named, and what is shown is true.
THEOREM Invariance == Spec => []IInv
  BY InvInit, InvStep, PTL DEF Spec

\* A version that is shown as published was so at some moment while the
\* request was under way (converters.go:127-129, get.go:102-106).
THEOREM Claims == Spec => []ClaimsWereTrue
  <1>1. IInv => ClaimsWereTrue
    <2> SUFFICES ASSUME IInv, NEW w \in Callers, at[w] = "done",
                        NEW i \in DOMAIN out[w].sections, out[w].sections[i].published
                 PROVE  out[w].sections[i].version \in during[w]
      BY DEF ClaimsWereTrue
    <2>1. Shown(out[w].sections, during[w])
      BY DEF IInv, ClaimInv
    <2>2. \A s, t : DOMAIN <<>> = {} /\ DOMAIN <<s>> = {1} /\ DOMAIN <<s, t>> = {1, 2}
      OBVIOUS
    <2> QED BY <2>1, <2>2 DEF Shown, IsTrue
  <1> QED BY <1>1, Invariance, PTL

-----------------------------------------------------------------------------
(* The configurations as the service promises them *)

Blank(n) == [v \in 1 .. n |-> {}]
AbstractRow(row) == [versions |-> Blank(row.latest), published |-> row.published]

LEMMA AppendBlank ==
    ASSUME NEW n \in Nat
    PROVE  Append(Blank(n), {}) = Blank(n + 1) /\ Len(Blank(n)) = n
  <1>1. Blank(n) \in Seq({{}}) /\ Len(Blank(n)) = n
    BY DEF Blank
  <1>2. Blank(n + 1) \in Seq({{}}) /\ Len(Blank(n + 1)) = n + 1
    BY DEF Blank
  <1>3. /\ Append(Blank(n), {}) \in Seq({{}})
        /\ Len(Append(Blank(n), {})) = n + 1
        /\ \A i \in 1 .. n : Append(Blank(n), {})[i] = Blank(n)[i]
        /\ Append(Blank(n), {})[n + 1] = {}
    BY <1>1, AppendProperties
  <1>4. \A i \in 1 .. n + 1 : Append(Blank(n), {})[i] = Blank(n + 1)[i]
    BY <1>3 DEF Blank
  <1> QED BY <1>1, <1>2, <1>3, <1>4, SeqEqual

\* The mapped store, and how it changes with one row.
\* The configurations that FrontEnds maps its rows to.
Configurations == [k \in Keys |-> AbstractRow(RowIn(store, k))]

\* One row changes, and so does one configuration.
LEMMA MappedSet ==
    ASSUME NEW k \in Keys, NEW row, SetRow(k, row)
    PROVE  Configurations' = [Configurations EXCEPT ![k] = AbstractRow(row)]
  BY RowSet DEF Configurations, AbstractRow, Blank

LEMMA Absence == AbstractRow(NoRow) = Abstract!Absent
  BY DEF AbstractRow, NoRow, Blank, Abstract!Absent, Abstract!Unpublished

LEMMA EmptyContents == {} \in Abstract!Contents
  BY DEF Abstract!Contents

\* A new version, a publication and a deletion are steps of the promise.
LEMMA Appended ==
    ASSUME NEW k \in Keys, NEW row, row = RowIn(store, k), row = NoRow \/ row \in Row,
           SetRow(k, [latest |-> row.latest + 1, published |-> row.published])
    PROVE  Abstract!Next
  <1>1. row.latest \in Nat
    BY DEF Row, NoRow
  <1>2. Configurations' = [Configurations EXCEPT ![k] =
                              [versions  |-> Append(Blank(row.latest), {}),
                               published |-> row.published]]
    BY <1>1, MappedSet, AppendBlank DEF AbstractRow
  <1>3. Configurations' = [Configurations EXCEPT ![k].versions = Append(@, {})]
    BY <1>2 DEF Configurations, AbstractRow
  <1>4. Abstract!AddVersion(k, {})
    BY <1>3 DEF Abstract!AddVersion, Configurations, AbstractRow, Blank, Existing
  <1> QED BY <1>4, EmptyContents DEF Abstract!Next

LEMMA Published ==
    ASSUME NEW k \in Keys, NEW row \in Row, row = RowIn(store, k), NEW v \in 1 .. row.latest,
           SetRow(k, [latest |-> row.latest, published |-> v])
    PROVE  Abstract!Next
  <1>1. Len(Blank(row.latest)) = row.latest
    BY AppendBlank DEF Row
  <1>2. Configurations' = [Configurations EXCEPT ![k].published = v]
    BY MappedSet, SMTT(60) DEF Configurations, AbstractRow
  <1>3. v \in 1 .. Len(Configurations[k].versions)
    BY <1>1 DEF Configurations, AbstractRow
  <1>4. Abstract!Publish(k, v)
    BY <1>2, <1>3 DEF Abstract!Publish, Configurations, AbstractRow, Blank, Existing
  <1> QED BY <1>3, <1>4 DEF Abstract!Next, Configurations, AbstractRow, Blank, Existing

LEMMA Removed ==
    ASSUME NEW k \in Keys, RowIn(store, k) \in Row, SetRow(k, NoRow)
    PROVE  Abstract!Next
  <1> PICK row : row = RowIn(store, k)
    OBVIOUS
  <1>1. Len(Blank(row.latest)) > 0 /\ Len(<<>>) = 0
    <2>1. row.latest \in Nat /\ row.latest > 0
      BY DEF Row
    <2>2. Len(Blank(row.latest)) = row.latest
      BY <2>1, AppendBlank
    <2>3. Len(<<>>) = 0
      OBVIOUS
    <2> QED BY <2>1, <2>2, <2>3
  <1>2. Configurations[k] # Abstract!Absent
    BY <1>1 DEF Configurations, AbstractRow, Abstract!Absent
  <1>3. Configurations' = [Configurations EXCEPT ![k] = Abstract!Absent]
    BY MappedSet, Absence
  <1>4. Abstract!Remove(k)
    BY <1>2, <1>3 DEF Abstract!Remove, Configurations, AbstractRow, Blank, Existing
  <1> QED BY <1>4 DEF Abstract!Next

LEMMA StepRefines ==
    ASSUME IInv, [Next]_vars
    PROVE  Abstract!Next \/ Configurations' = Configurations
  <1>1. CASE store' = store
    BY <1>1 DEF Configurations, AbstractRow, RowIn, Blank
  <1>2. CASE OthersAct
    <2> PICK k \in Keys : LET row == RowIn(store, k) IN
             \/ SetRow(k, [latest |-> row.latest + 1, published |-> row.published])
                /\ [latest |-> row.latest + 1, published |-> row.published] \in Row
             \/ row \in Row /\ \E v \in 1 .. row.latest :
                  SetRow(k, [latest |-> row.latest, published |-> v])
             \/ row \in Row /\ SetRow(k, NoRow)
      BY <1>2, Others
    <2> QED BY RowOf, Appended, Published, Removed DEF IInv
  <1>3. ASSUME NEW w \in Callers, Serve(w), store' # store
        PROVE  Abstract!Next
    <2> PICK c, k, row : c = call[w] /\ k = KeyOf(c.id) /\ row = RowIn(store, k)
      OBVIOUS
    <2>1. /\ c.op \in Writes /\ Accepted(row, c) /\ k \in Keys
          /\ row = NoRow \/ row \in Row
          /\ SetRow(k, Written(row, c))
      BY <1>3, Served
    <2>2. CASE c.op = "UpdateConfig"
      BY <2>1, <2>2, WrittenRow, Appended
    <2>3. CASE c.op = "PublishVersion"
      BY <2>1, <2>3, WrittenRow, Published
    <2> QED BY <2>1, <2>2, <2>3 DEF Writes
  <1>4. ASSUME NEW w \in Callers, ServeFails(w) \/ Done(w)
        PROVE  store' = store
    BY <1>4 DEF ServeFails, Done
  <1>5. ASSUME NEW w \in Callers, HttpNext(w) \/ CliNext(w)
        PROVE  store' = store
    BY <1>5, OwnSteps DEF Goes, MakeCall, Tell
  <1>6. CASE UNCHANGED vars
    BY <1>1, <1>6 DEF vars
  <1> QED BY <1>1, <1>2, <1>3, <1>4, <1>5, <1>6 DEF Next, Caller

\* Whatever front ends and other clients send, a configuration only grows by a
\* version, has an existing version published, or is deleted as a whole: the
\* statements of UpdateConfig, PublishVersion and DeleteConfig as the front
\* ends reach them (config_handlers.go:189-323).
THEOREM Refinement == Spec => ImplementsVersionedConfig
  <1>1. Init => Abstract!Init
    <2> SUFFICES ASSUME Init PROVE Configurations = [k \in Keys |-> Abstract!Absent]
      BY DEF Abstract!Init, Configurations, AbstractRow, Blank, Existing
    <2> QED BY NoRowIn, Absence DEF Configurations
  <1>2. IInv /\ [Next]_vars => [Abstract!Next]_[k \in Keys |->
            [versions  |-> [v \in Existing(RowIn(store, k)) |-> {}],
             published |-> RowIn(store, k).published]]
    BY StepRefines DEF Configurations, AbstractRow, Blank, Existing
  <1> QED BY <1>1, <1>2, Invariance, PTL
        DEF Spec, ImplementsVersionedConfig, Abstract!Spec

-----------------------------------------------------------------------------
(* The messages: what conversions and handlers make of them *)

\* A number that fits is kept by the conversion to an int32, and none leaves
\* the 32 bits.
LEMMA Conversion ==
    ASSUME NEW n \in Int
    PROVE  /\ Int32(n) \in MinInt .. MaxInt /\ 0 \in MinInt .. MaxInt
           /\ Fits32(n) => Int32(n) = n
  <1> PICK m, width : m = n - MinInt /\ width = MaxInt - MinInt + 1
    OBVIOUS
  <1>1. MaxInt \in Nat \ {0} /\ MinInt \in Int /\ MinInt = 0 - MaxInt - 1
        /\ width \in Nat \ {0} /\ m \in Int
    BY NumberAssumption DEF MinInt
  <1>2. m % width \in 0 .. width - 1
    BY <1>1
  <1>3. m \in 0 .. width - 1 => m % width = m
    BY <1>1
  <1>4. Int32(n) = (m % width) + MinInt
    BY DEF Int32
  <1> QED BY <1>1, <1>2, <1>3, <1>4 DEF Fits32

\* The paths of a request, in some order.
LEMMA PathsInOrder ==
    ASSUME NEW S, IsFiniteSet(S)
    PROVE  SetToSeq(S) \in Seq(S)
  <1>1. Cardinality(S) \in Nat /\ ExistsBijection(1 .. Cardinality(S), S)
    BY FS_CardinalityType
  <1>2. PICK f \in [1 .. Cardinality(S) -> S] : IsInjective(f)
    BY <1>1 DEF ExistsBijection, Bijection, Injection
  <1>3. SetToSeq(S) \in [1 .. Cardinality(S) -> S]
    BY <1>2 DEF SetToSeq
  <1> QED BY <1>1, <1>3

LEMMA HttpCallTyped ==
    ASSUME NEW r \in HttpRequests, Valid(r)
    PROVE  CallOf(r) \in Call
  <1>0. r \in HttpRequest /\ IsFiniteSet(r.paths)
    BY RequestsAssumption
  <1>1. Operation[r.route] \in Reads \cup Writes
    BY <1>0 DEF HttpRequest, Routes, Operation, Reads, Writes
  <1>2. CallOf(r).id \in Identifier
    <2>1. CASE r.route = "template"
      BY <1>0, <2>1 DEF CallOf, NoCall, HttpRequest, Identifier, Texts
    <2>2. CASE r.route # "template"
      <3>1. r.scope \in Scopes
        BY <1>0, <2>2 DEF Valid, Identifies, Located, HttpRequest, Routes
      <3> QED BY <1>0, <2>2, <3>1 DEF CallOf, IdentifierOf, HttpRequest, Identifier
    <2> QED BY <2>1, <2>2
  <1>3. CallOf(r).number \in MinInt .. MaxInt
    BY <1>0, Conversion DEF CallOf, HttpRequest
  <1>4. CallOf(r).paths \in Seq(Paths)
    <2>1. SetToSeq(r.paths) \in Seq(r.paths) /\ r.paths \subseteq Paths
      BY <1>0, PathsInOrder DEF HttpRequest
    <2>2. SetToSeq(r.paths) \in Seq(Paths)
      BY <2>1
    <2> QED BY <2>2 DEF CallOf
  <1> QED BY <1>1, <1>2, <1>3, <1>4 DEF CallOf, Call

LEMMA CliCallTyped ==
    ASSUME NEW d \in Commands, Usable(d)
    PROVE  /\ CliCall(d) \in Call /\ d \in Command /\ Complete(d)
           /\ [CliCall(d) EXCEPT !.op = "GetConfig"] \in Call
  <1>0. d \in Command /\ Complete(d) /\ d.number \in MinInt .. MaxInt
    BY CommandsAssumption DEF Usable, Fits32
  <1>1. CliOperation(d) \in Reads \cup Writes
    <2>1. d.verb \in Verbs /\ d.number \in Int
      BY <1>0 DEF Command
    <2>2. CASE d.verb = "get"
      BY <2>1, <2>2 DEF CliOperation, Reads, Writes
    <2>3. CASE d.verb # "get"
      BY <2>1, <2>3 DEF CliOperation, Reads, Writes, Verbs
    <2> QED BY <2>2, <2>3
  <1>2. CliIdentifier(d) \in Identifier
    BY <1>0 DEF Command, Complete, CliIdentifier, Identifier, Texts
  <1>3. CliCall(d).number \in MinInt .. MaxInt
    BY <1>0, Conversion DEF CliCall
  <1>4. CliCall(d).paths \in Seq(Paths)
    <2>1. CASE d.verb = "set"
      <3>1. d.args \in Seq(Paths \cup {Malformed})
        BY <1>0 DEF Command
      <3>2. \A i \in 1 .. Len(d.args) : d.args[i] \in Paths
        BY <2>1, <3>1 DEF Usable
      <3>3. d.args \in Seq(Paths)
        BY <3>1, <3>2
      <3> QED BY <2>1, <3>3 DEF CliCall
    <2>2. CASE d.verb # "set"
      BY <2>2 DEF CliCall
    <2> QED BY <2>1, <2>2
  <1>5. "GetConfig" \in Reads
    BY DEF Reads
  <1> QED BY <1>0, <1>1, <1>2, <1>3, <1>4, <1>5 DEF CliCall, Call

\* A write that a request becomes, and is not refused for its scope, is the
\* change that its user asked for.
LEMMA HttpMeant ==
    ASSUME NEW r \in HttpRequests, Valid(r), NEW c, c = CallOf(r)
    PROVE  /\ AskedFor(r) # {} => c.op \in Writes
           /\ c.op \in Writes => AskedFor(r) =
                [op : {c.op}, key : {KeyOf(c.id)},
                 version : IF c.op = "UpdateConfig" THEN 1 .. MaxVersion ELSE {c.number}]
  <1>0. r \in HttpRequest /\ r.kind = "http" /\ r.route \in Routes
    BY RequestsAssumption DEF HttpRequest
  <1>1. CASE r.route \notin {"publish", "update"}
    <2>1. AskedFor(r) = {}
      BY <1>0, <1>1 DEF AskedFor, Routes
    <2>2. c.op \notin Writes
      BY <1>0, <1>1 DEF CallOf, Operation, Writes, Routes
    <2> QED BY <2>1, <2>2
  <1>2. CASE r.route \in {"publish", "update"}
    <2> PICK key : key = KeyOf(c.id)
      OBVIOUS
    <2>1. r.scope \in Scopes /\ c.id = IdentifierOf(r)
      BY <1>2 DEF Valid, Identifies, Located, CallOf
    <2>2. key = [service |-> r.service, scope |-> r.scope,
                 scopeId |-> [SYSTEM |-> "system", PROJECT |-> r.project,
                              STORE |-> r.store, USER |-> r.user][r.scope],
                 group |-> r.group]
      BY <2>1 DEF KeyOf, ScopeId, IdentifierOf, Scopes
    <2>3. CASE r.route = "update"
      <3>1. c.op = "UpdateConfig" /\ c.op \in Writes
        BY <2>3 DEF CallOf, Operation, Writes
      <3> QED BY <1>0, <2>2, <2>3, <3>1 DEF AskedFor
    <2>4. CASE r.route = "publish"
      <3>1. c.op = "PublishVersion" /\ c.op \in Writes
        BY <2>4 DEF CallOf, Operation, Writes
      <3>2. c.number = r.number
        BY <1>0, <2>4, Conversion DEF CallOf, Valid, HttpRequest
      <3> QED BY <1>0, <2>2, <2>4, <3>1, <3>2 DEF AskedFor
    <2> QED BY <1>2, <2>3, <2>4
  <1> QED BY <1>1, <1>2

LEMMA CliMeant ==
    ASSUME NEW d \in Commands, Usable(d), NEW c, c = CliCall(d)
    PROVE  /\ AskedFor(d) # {} => c.op \in Writes
           /\ c.op \in Writes /\ ScopeId(c.id) # Missing => AskedFor(d) =
                [op : {c.op}, key : {KeyOf(c.id)},
                 version : IF c.op = "UpdateConfig" THEN 1 .. MaxVersion ELSE {c.number}]
  <1>0. d \in Command /\ d.kind = "cli" /\ d.verb \in Verbs
        /\ d.number \in Int /\ Complete(d)
    BY CliCallTyped DEF Command
  <1>1. CASE d.verb \notin {"set", "publish", "unpublish"}
    <2>1. AskedFor(d) = {}
      BY <1>0, <1>1 DEF AskedFor, Verbs
    <2>2. c.op \notin Writes
      BY <1>0, <1>1 DEF CliCall, CliOperation, Writes, Verbs
    <2> QED BY <2>1, <2>2
  <1>2. CASE d.verb \in {"set", "publish", "unpublish"}
    <2>1. c.id = CliIdentifier(d) /\ c.op \in Writes
          /\ (c.op = "UpdateConfig" <=> d.verb = "set")
      BY <1>2 DEF CliCall, CliOperation, Writes
    <2> SUFFICES ASSUME ScopeId(c.id) # Missing
                 PROVE  AskedFor(d) =
                          [op : {c.op}, key : {KeyOf(c.id)},
                           version : IF c.op = "UpdateConfig" THEN 1 .. MaxVersion ELSE {c.number}]
      BY <2>1
    <2> PICK key : key = KeyOf(c.id)
      OBVIOUS
    <2>2. d.scope \in Scopes
      BY <1>0, <2>1 DEF Complete, ScopeId, CliIdentifier, Unspecified
    <2>3. key = [service |-> d.service, scope |-> d.scope,
                 scopeId |-> [SYSTEM |-> "system", PROJECT |-> d.project,
                              STORE |-> d.store, USER |-> d.user][d.scope],
                 group |-> d.group]
      BY <2>1, <2>2 DEF KeyOf, ScopeId, CliIdentifier, Scopes
    <2>4. CASE d.verb = "set"
      <3>1. c.op = "UpdateConfig"
        BY <2>1, <2>4
      <3> QED BY <1>0, <2>3, <2>4, <3>1 DEF AskedFor
    <2>5. CASE d.verb = "publish"
      <3>1. c.op = "PublishVersion" /\ c.number = d.number
        BY <2>5 DEF CliCall, CliOperation
      <3> QED BY <1>0, <2>3, <2>5, <3>1 DEF AskedFor
    <2>6. CASE d.verb = "unpublish"
      <3>1. c.op = "PublishVersion" /\ c.number = 0
        BY <2>6 DEF CliCall, CliOperation
      <3> QED BY <1>0, <2>3, <2>6, <3>1 DEF AskedFor
    <2> QED BY <1>2, <2>4, <2>5, <2>6
  <1> QED BY <1>1, <1>2

\* What handlers answer has the type of an answer.
LEMMA AnswersTyped ==
    ASSUME NEW row, row = NoRow \/ row \in Row, NEW c \in Call, NEW a \in Answers(row, c)
    PROVE  a \in Answer
  <1>0. row.latest \in Nat /\ row.published \in Nat /\ c.number \in Int /\ c.op \in Reads \cup Writes
    BY NumberAssumption DEF Row, NoRow, Call, MinInt
  <1>1. \A code \in Codes : Error(code) \in Answer
    BY DEF Error, Answer, Fields
  <1>2. CASE a \in ReadAnswers(row, c)
    <2>1. FetchedVersion(row, c) \in Int
      BY <1>0 DEF FetchedVersion
    <2> QED BY <1>0, <1>2, <2>1 DEF ReadAnswers, Answer, Codes, Fields
  <1>3. CASE a \in HistoryAnswers(row, c)
    BY <1>0, <1>3 DEF HistoryAnswers, Answer, Codes, Fields
  <1>4. CASE a \in TemplateAnswers
    BY <1>1, <1>4 DEF TemplateAnswers, Answer, Codes, Fields
  <1>5. CASE c.op \in Writes /\ a = WriteAnswer(row, c)
    <2>1. CASE ~Accepted(row, c)
      BY <1>1, <1>5, <2>1 DEF WriteAnswer, Codes
    <2>2. CASE Accepted(row, c) /\ c.op = "UpdateConfig"
      BY <1>0, <1>5, <2>2 DEF WriteAnswer, Answer, Codes, Fields
    <2>3. CASE Accepted(row, c) /\ c.op = "PublishVersion"
      <3>1. c.number \in Nat
        BY <1>0, <2>3 DEF Accepted, Existing
      <3> QED BY <1>5, <2>3, <3>1 DEF WriteAnswer, Answer, Codes, Fields
    <2> QED BY <1>5, <2>1, <2>2, <2>3 DEF Writes
  <1>6. CASE a = Error("InvalidArgument")
    BY <1>1, <1>6 DEF Codes
  <1> QED BY <1>2, <1>3, <1>4, <1>5, <1>6 DEF Answers

\* What an answer tells of the row: a write is answered OK when it takes effect
\* and only then, a read is of the version that was asked for.
LEMMA AnswersTell ==
    ASSUME NEW row, row = NoRow \/ row \in Row, NEW c \in Call, NEW a \in Answers(row, c)
    PROVE  /\ c.op \in Writes =>
                 (a.code = "OK" <=> ScopeId(c.id) # Missing /\ Accepted(row, c))
           /\ a.code = "OK" =>
                 /\ c.op = "GetConfig" => a.number = row.published /\ a.published = row.published
                 /\ c.op = "GetLatestConfig" =>
                       a.published = row.published /\ (a.number = 0 => row.published = 0)
                 /\ c.op = "GetConfigByVersion" /\ c.number > 0 => a.number \in {0, c.number}
  <1>0. c.number \in Int
    BY NumberAssumption DEF Call, MinInt
  <1>1. CASE c.op \in Writes
    <2>1. c.op \notin {"GetConfig", "GetLatestConfig", "GetConfigByVersion",
                       "GetConfigTemplate", "GetConfigHistory"}
      BY <1>1 DEF Writes
    <2>2. CASE ScopeId(c.id) = Missing
      <3>1. a = Error("InvalidArgument")
        BY <2>1, <2>2, <1>1 DEF Answers
      <3> QED BY <2>1, <2>2, <3>1 DEF Error
    <2>3. CASE ScopeId(c.id) # Missing
      <3>1. a = WriteAnswer(row, c)
        BY <1>1, <2>1, <2>3 DEF Answers
      <3>2. a.code = "OK" <=> Accepted(row, c)
        BY <1>1, <3>1 DEF WriteAnswer, Error, Writes
      <3> QED BY <2>1, <2>3, <3>2
    <2> QED BY <2>2, <2>3
  <1>2. CASE c.op \in {"GetConfig", "GetLatestConfig", "GetConfigByVersion"}
    <2>0. c.op \notin Writes
      BY <1>2 DEF Writes
    <2>1. CASE ScopeId(c.id) = Missing
      BY <1>2, <2>0, <2>1 DEF Answers, Error
    <2>2. CASE ScopeId(c.id) # Missing
      <3>1. a \in ReadAnswers(row, c)
        BY <1>2, <2>0, <2>2 DEF Answers
      <3>2. a.number = FetchedVersion(row, c) /\ a.published = row.published
        BY <3>1 DEF ReadAnswers
      <3>3. /\ c.op = "GetConfig" => FetchedVersion(row, c) = row.published
            /\ c.op = "GetLatestConfig" => FetchedVersion(row, c) = row.latest
            /\ c.op = "GetConfigByVersion" /\ c.number > 0 =>
                  FetchedVersion(row, c) \in {0, c.number}
        BY <1>0, <1>2 DEF FetchedVersion, NoRow, Row
      <3>4. row.latest = 0 => row.published = 0
        BY DEF NoRow, Row
      <3> QED BY <2>0, <3>2, <3>3, <3>4
    <2> QED BY <2>1, <2>2
  <1>3. CASE c.op \notin Writes /\ c.op \notin {"GetConfig", "GetLatestConfig", "GetConfigByVersion"}
    BY <1>3
  <1> QED BY <1>1, <1>2, <1>3

-----------------------------------------------------------------------------
(* The second invariant: what a caller does is what its user asked for *)

\* The call under way is the one that the request stands for.
CallsAsAsked(w) == at[w] \in Calling =>
    \/ request[w] \in HttpRequests /\ Valid(request[w]) /\ call[w] = CallOf(request[w])
    \/ /\ request[w] \in Commands /\ Usable(request[w])
       /\ \/ call[w] = CliCall(request[w])
          \/ request[w].verb = "show" /\ call[w] = [CliCall(request[w]) EXCEPT !.op = "GetConfig"]

\* A caller has written nothing, or once what it was asked to.
WritesAsAsked(w) ==
    /\ wrote[w] = {} \/ \E e \in AskedFor(request[w]) : wrote[w] = {e}
    /\ at[w] \in {"idle", "call"} => wrote[w] = {}
    /\ at[w] = "answered" /\ call[w].op \notin Writes => wrote[w] = {}

\* What an answer says of the row, and of what was written to it.
Tells(c, a, versions, effects) ==
    /\ a.code \in {"InvalidArgument", "NotFound"} => effects = {}
    /\ a.code = "OK" =>
          /\ c.op \in Writes => effects # {}
          /\ c.op = "GetConfig" => a.number = a.published /\ a.published \in versions
          /\ c.op = "GetLatestConfig" =>
                /\ a.published \in versions
                /\ a.number = 0 => a.published = 0
          /\ c.op = "GetConfigByVersion" /\ c.number > 0 => a.number \in {0, c.number}

AnswersTruly(w) == at[w] = "answered" =>
    Tells(call[w], answer[w], during[w], wrote[w])

\* The first half of show: the latest version, marked as published if it was.
HalfShown(sections, versions) ==
    \/ sections = <<>> /\ 0 \in versions
    \/ \E v \in Int, m \in versions :
          sections = <<[version |-> v, published |-> v = m]>>

\* Nothing is shown before the first answer.
BeginsBlank(w) == at[w] = "idle" => out[w].sections = <<>>

\* show: nothing, then the first half, then the published version as well.
ShowsBoth(w) == request[w] \in Commands /\ request[w].verb = "show" =>
    /\ at[w] \in Calling /\ call[w].op # "GetConfig" => out[w].sections = <<>>
    /\ at[w] \in Calling /\ call[w].op = "GetConfig" => HalfShown(out[w].sections, during[w])
    /\ at[w] = "done" /\ out[w].status = "printed" =>
          \A n \in 1 .. MaxVersion : during[w] = {n} =>
             \E i \in DOMAIN out[w].sections :
                out[w].sections[i] = [version |-> n, published |-> TRUE]

\* What the user is told at the end.
EndsAsAsked(w) == at[w] = "done" =>
    /\ out[w].status \in Refused => wrote[w] = {}
    /\ out[w].status \in Succeeded /\ AskedFor(request[w]) # {} => wrote[w] # {}
    /\ (/\ out[w].status = "200" /\ request[w] \in HttpRequests
        /\ request[w].route = "version" /\ Fits32(request[w].number))
       => out[w].sections[1].version \in {0, request[w].number}

Typed(w) ==
    /\ at[w] \in Stages
    /\ request[w] \in {NoRequest} \cup HttpRequests \cup Commands
    /\ call[w] \in Call
    /\ answer[w] \in Answer
    /\ out[w] \in [status : Statuses, sections : Seq(Section)]
    /\ during[w] \subseteq Nat

Promise(w) ==
    Typed(w) /\ CallsAsAsked(w) /\ WritesAsAsked(w) /\ AnswersTruly(w)
    /\ BeginsBlank(w) /\ ShowsBoth(w) /\ EndsAsAsked(w)

\* The updates of k under way fit within the bound.
UnderWay(k) == {w \in Callers : at[w] = "call" /\ call[w].op = "UpdateConfig"
                                              /\ KeyOf(call[w].id) = k}
Fitting(k) == RowIn(store, k).latest + Cardinality(UnderWay(k)) <= MaxVersion

WInv == /\ IInv
        /\ wrote = [w \in Callers |-> wrote[w]]
        /\ \A k \in Keys : Fitting(k)
        /\ \A w \in Callers : Promise(w)

LEMMA WInvOf ==
    ASSUME WInv, NEW w \in Callers
    PROVE  /\ IInv /\ FunctionsOK /\ RowsOK /\ Typed(w) /\ CallsAsAsked(w) /\ WritesAsAsked(w)
           /\ AnswersTruly(w) /\ BeginsBlank(w) /\ ShowsBoth(w) /\ EndsAsAsked(w)
           /\ wrote = [v \in Callers |-> wrote[v]]
  BY DEF WInv, IInv, Promise

-----------------------------------------------------------------------------
(* Updates fit within the bound *)

LEMMA UnderWayFinite ==
    ASSUME NEW k
    PROVE  IsFiniteSet(UnderWay(k)) /\ Cardinality(UnderWay(k)) \in Nat
  <1>1. UnderWay(k) \subseteq Callers
    BY DEF UnderWay
  <1> QED BY <1>1, CallersAssumption, FS_Subset, FS_CardinalityType

LEMMA LatestIsNat ==
    ASSUME RowsOK, NEW k
    PROVE  RowIn(store, k).latest \in Nat /\ RowIn(store, k).published \in Nat
  BY RowOf DEF Row, NoRow

\* No more updates of k under way, and no further version.
LEMMA StillFits ==
    ASSUME RowsOK, RowsOK', NEW k \in Keys, Fitting(k), UnderWay(k)' \subseteq UnderWay(k),
           RowIn(store', k).latest <= RowIn(store, k).latest
    PROVE  Fitting(k)'
  <1>1. IsFiniteSet(UnderWay(k)) /\ Cardinality(UnderWay(k)) \in Nat
    BY UnderWayFinite
  <1>2. Cardinality(UnderWay(k)') \in Nat /\ Cardinality(UnderWay(k)') <= Cardinality(UnderWay(k))
    BY <1>1, FS_Subset, FS_CardinalityType
  <1>3. RowIn(store, k).latest \in Nat /\ RowIn(store', k).latest \in Nat
    BY LatestIsNat, RowOf DEF RowsOK, RowIn, Row, NoRow
  <1> QED BY <1>1, <1>2, <1>3, NumberAssumption DEF Fitting

\* A caller takes up an update for which there is room.
LEMMA CallFits ==
    ASSUME WInv, NEW w \in Callers, NEW c, MakeCall(w, c), at[w] # "call", NEW k \in Keys
    PROVE  Fitting(k)'
  <1>0. FunctionsOK /\ RowsOK /\ Fitting(k)
    BY WInvOf DEF WInv
  <1>1. at' = [at EXCEPT ![w] = "call"] /\ call' = [call EXCEPT ![w] = c] /\ store' = store
    BY DEF MakeCall
  <1>2. RowsOK' /\ RowIn(store', k) = RowIn(store, k)
    BY <1>0, <1>1 DEF RowsOK
  <1>3. CASE c.op = "UpdateConfig" /\ KeyOf(c.id) = k
    <2>1. UnderWay(k)' = UnderWay(k) \cup {w} /\ w \notin UnderWay(k)
      BY <1>0, <1>1, <1>3 DEF UnderWay, FunctionsOK
    <2>2. RowIn(store, k).latest + Cardinality(UnderWay(k)) < MaxVersion
      BY <1>3 DEF MakeCall, Room, UnderWay
    <2>3. Cardinality(UnderWay(k)') = Cardinality(UnderWay(k)) + 1
      BY <2>1, UnderWayFinite, FS_AddElement
    <2>4. RowIn(store, k).latest \in Nat /\ Cardinality(UnderWay(k)) \in Nat
      BY <1>0, LatestIsNat, UnderWayFinite
    <2>5. RowIn(store, k).latest + (Cardinality(UnderWay(k)) + 1) <= MaxVersion
      BY <2>2, <2>4, NumberAssumption
    <2> QED BY <1>2, <2>3, <2>5 DEF Fitting
  <1>4. CASE ~(c.op = "UpdateConfig" /\ KeyOf(c.id) = k)
    <2>1. UnderWay(k)' \subseteq UnderWay(k)
      BY <1>0, <1>1, <1>4 DEF UnderWay, FunctionsOK
    <2>2. RowIn(store', k).latest <= RowIn(store, k).latest
      BY <1>0, <1>2, LatestIsNat
    <2> QED BY <1>0, <1>2, <2>1, <2>2, StillFits
  <1> QED BY <1>3, <1>4

\* An update that is carried out is one under way less.
LEMMA ServeFits ==
    ASSUME WInv, NEW w \in Callers, Serve(w), NEW k \in Keys
    PROVE  Fitting(k)'
  <1> PICK c, l, row : c = call[w] /\ l = KeyOf(c.id) /\ row = RowIn(store, l)
    OBVIOUS
  <1>0. FunctionsOK /\ RowsOK /\ Fitting(k) /\ IInv
    BY WInvOf DEF WInv
  <1>1. at[w] = "call" /\ at' = [at EXCEPT ![w] = "answered"] /\ call' = call /\ RowsOK'
    BY <1>0, ServiceRows DEF Serve
  <1>2. UnderWay(k)' = UnderWay(k) \ {w}
    BY <1>0, <1>1 DEF UnderWay, FunctionsOK
  <1>3. CASE RowIn(store', k).latest <= RowIn(store, k).latest
    BY <1>0, <1>1, <1>2, <1>3, StillFits
  <1>4. CASE ~(RowIn(store', k).latest <= RowIn(store, k).latest)
    <2>1. /\ c.op \in Writes /\ Accepted(row, c) /\ SetRow(l, Written(row, c))
          /\ row = NoRow \/ row \in Row
      <3>1. RowIn(store, k).latest \in Nat
        BY <1>0, LatestIsNat
      <3>2. ~UNCHANGED store
        BY <1>4, <3>1
      <3> QED BY <1>0, <3>2, Served
    <2>2. RowIn(store', k) = IF k = l THEN Written(row, c) ELSE RowIn(store, k)
      BY <2>1, RowSet
    <2>3. RowIn(store, k).latest \in Nat
      BY <1>0, LatestIsNat
    <2>4. k = l
      BY <1>4, <2>2, <2>3
    <2>5. c.op = "UpdateConfig" /\ Written(row, c).latest = row.latest + 1
      <3>1. c.op = "PublishVersion" => Written(row, c).latest = row.latest
        BY <2>1, WrittenRow
      <3>2. c.op = "UpdateConfig" => Written(row, c).latest = row.latest + 1
        BY <2>1, WrittenRow
      <3>3. Written(row, c).latest # row.latest
        BY <1>4, <2>2, <2>3, <2>4
      <3> QED BY <2>1, <3>1, <3>2, <3>3 DEF Writes
    <2>6. w \in UnderWay(k)
      BY <1>1, <2>4, <2>5 DEF UnderWay
    <2>7. Cardinality(UnderWay(k)') = Cardinality(UnderWay(k)) - 1
      BY <1>2, <2>6, UnderWayFinite, FS_RemoveElement
    <2>8. RowIn(store', k).latest = RowIn(store, k).latest + 1
      BY <2>2, <2>4, <2>5
    <2>9. Cardinality(UnderWay(k)) \in Nat
      BY UnderWayFinite
    <2> QED BY <1>0, <2>3, <2>7, <2>8, <2>9, NumberAssumption DEF Fitting
  <1> QED BY <1>3, <1>4

\* The version an accepted update writes is within the bound.
LEMMA UpdateFits ==
    ASSUME WInv, NEW w \in Callers, at[w] = "call", call[w].op = "UpdateConfig"
    PROVE  RowIn(store, KeyOf(call[w].id)).latest + 1 \in 1 .. MaxVersion
  <1> PICK k : k = KeyOf(call[w].id)
    OBVIOUS
  <1>1. k \in Keys
    BY DEF WInv, IInv, WritesOK, Writes
  <1>2. UnderWay(k) # {}
    BY DEF UnderWay
  <1>3. Cardinality(UnderWay(k)) \in Nat \ {0}
    BY <1>2, UnderWayFinite, FS_EmptySet
  <1>4. RowIn(store, k).latest \in Nat /\ Fitting(k)
    BY <1>1, WInvOf, LatestIsNat DEF WInv
  <1> QED BY <1>3, <1>4, NumberAssumption DEF Fitting

LEMMA OthersFit ==
    ASSUME WInv, OthersAct, NEW k \in Keys
    PROVE  Fitting(k)'
  <1>0. RowsOK /\ Fitting(k) /\ IInv /\ RowsOK'
    BY ServiceRows DEF WInv, IInv
  <1>1. UnderWay(k)' = UnderWay(k)
    BY DEF OthersAct, UnderWay
  <1>2. CASE RowIn(store', k).latest <= RowIn(store, k).latest
    BY <1>0, <1>1, <1>2, StillFits
  <1>3. CASE ~(RowIn(store', k).latest <= RowIn(store, k).latest)
    <2> PICK l \in Shared :
          LET row == RowIn(store, l)
          IN  \/ Room(l) /\ SetRow(l, [row EXCEPT !.latest = @ + 1])
              \/ \E v \in Existing(row) \ {row.published} :
                    SetRow(l, [row EXCEPT !.published = v])
              \/ row # NoRow /\ SetRow(l, NoRow)
      BY DEF OthersAct
    <2> PICK row : row = RowIn(store, l)
      OBVIOUS
    <2> PICK new :
          /\ SetRow(l, new)
          /\ \/ Room(l) /\ new = [row EXCEPT !.latest = @ + 1]
             \/ \E v : new = [row EXCEPT !.published = v]
             \/ new = NoRow
      OBVIOUS
    <2>0. RowIn(store, k).latest \in Nat /\ (row = NoRow \/ row \in Row)
      BY <1>0, LatestIsNat, RowOf
    <2>1. k = l /\ RowIn(store', k) = new
      <3>1. RowIn(store', k) = IF k = l THEN new ELSE RowIn(store, k)
        BY RowSet
      <3> QED BY <1>3, <2>0, <3>1
    <2>2. \A v : [row EXCEPT !.published = v].latest = row.latest
      BY <2>0 DEF Row, NoRow
    <2>3. NoRow.latest = 0
      BY DEF NoRow
    <2>4. Room(k) /\ RowIn(store', k) = [row EXCEPT !.latest = @ + 1]
      <3>1. ~(new.latest <= row.latest) /\ row.latest \in Nat
        BY <1>3, <2>0, <2>1
      <3>2. ASSUME NEW v, new = [row EXCEPT !.published = v]
            PROVE  FALSE
        <4>1. new.latest = row.latest
          BY <2>2, <3>2
        <4> QED BY <3>1, <4>1
      <3>3. new # NoRow
        BY <2>3, <3>1
      <3> QED BY <2>1, <3>2, <3>3
    <2>5. RowIn(store', k).latest = RowIn(store, k).latest + 1
      BY <2>0, <2>1, <2>4 DEF Row, NoRow
    <2>6. RowIn(store, k).latest + Cardinality(UnderWay(k)) < MaxVersion
      BY <2>4 DEF Room, UnderWay
    <2>7. Cardinality(UnderWay(k)) \in Nat
      BY UnderWayFinite
    <2>8. RowIn(store, k).latest + 1 + Cardinality(UnderWay(k)) <= MaxVersion
      BY <2>0, <2>6, <2>7, NumberAssumption
    <2> QED BY <1>1, <2>5, <2>8 DEF Fitting
  <1> QED BY <1>2, <1>3

\* Callers that end leave room.
LEMMA EndFits ==
    ASSUME WInv, store' = store, NEW w \in Callers, NEW stage, stage # "call",
           at' = [at EXCEPT ![w] = stage], call' = [call EXCEPT ![w] = call'[w]], NEW k \in Keys
    PROVE  Fitting(k)'
  <1>0. FunctionsOK /\ RowsOK /\ Fitting(k) /\ RowsOK'
    BY WInvOf DEF WInv, RowsOK
  <1>1. UnderWay(k)' \subseteq UnderWay(k)
    BY <1>0 DEF UnderWay, FunctionsOK
  <1>2. RowIn(store', k).latest <= RowIn(store, k).latest
    BY <1>0, LatestIsNat
  <1> QED BY <1>0, <1>1, <1>2, StillFits

-----------------------------------------------------------------------------
(* What each step does to the caller that takes it, and to the others *)

LEMMA Kinds ==
    /\ \A r \in HttpRequests : r.kind = "http"
    /\ \A d \in Commands : d.kind = "cli"
    /\ NoRequest.kind = "none"
  BY RequestsAssumption, CommandsAssumption DEF HttpRequest, Command, NoRequest

\* What was seen before has still been seen.
LEMMA TellsStill ==
    ASSUME NEW c, NEW a, NEW versions, NEW later, versions \subseteq later, NEW effects
    PROVE  /\ Tells(c, a, versions, effects) => Tells(c, a, later, effects)
           /\ \A s : HalfShown(s, versions) => HalfShown(s, later)
  BY DEF Tells, HalfShown

\* A caller at rest.
LEMMA RestTyped ==
    /\ NoCall \in Call /\ NoAnswer \in Answer
    /\ Silent \in [status : Statuses, sections : Seq(Section)] /\ Silent.sections = <<>>
  <1>1. NoCall \in Call
    BY Conversion DEF NoCall, Call, Reads, Identifier, Texts
  <1>2. NoAnswer \in Answer
    BY DEF NoAnswer, Error, Answer, Codes, Fields
  <1>3. Silent \in [status : Statuses, sections : Seq(Section)] /\ Silent.sections = <<>>
    BY DEF Silent, Statuses
  <1> QED BY <1>1, <1>2, <1>3

\* A caller at rest keeps to everything.
LEMMA RestKeeps ==
    ASSUME NEW w \in Callers, at[w] = "idle", request[w] = NoRequest, call[w] = NoCall,
           answer[w] = NoAnswer, out[w] = Silent, wrote[w] = {}, during[w] = {}
    PROVE  Promise(w)
  <1>1. Typed(w)
    BY RestTyped DEF Typed, Stages
  <1>2. CallsAsAsked(w) /\ WritesAsAsked(w) /\ AnswersTruly(w) /\ BeginsBlank(w) /\ EndsAsAsked(w)
    BY RestTyped DEF CallsAsAsked, WritesAsAsked, AnswersTruly, BeginsBlank, EndsAsAsked, Calling
  <1>3. ShowsBoth(w)
    BY DEF ShowsBoth, Calling
  <1> QED BY <1>1, <1>2, <1>3 DEF Promise

\* A caller that makes no step itself.
LEMMA BystanderKeeps ==
    ASSUME WInv, NEW w \in Callers, at'[w] = at[w], request'[w] = request[w],
           call'[w] = call[w], answer'[w] = answer[w], out'[w] = out[w], wrote'[w] = wrote[w],
           UNCHANGED during \/ \E k, row : SetRow(k, row) /\ row.published \in Nat
    PROVE  Promise(w)'
  <1>0. /\ Typed(w) /\ CallsAsAsked(w) /\ WritesAsAsked(w) /\ AnswersTruly(w)
        /\ BeginsBlank(w) /\ ShowsBoth(w) /\ EndsAsAsked(w)
    BY WInvOf
  <1>1. /\ during[w] \subseteq during'[w] /\ during'[w] \subseteq Nat
        /\ at[w] \notin Calling => during'[w] = during[w]
    <2>1. during[w] \subseteq Nat
      BY <1>0 DEF Typed
    <2>2. ASSUME NEW k, NEW row, SetRow(k, row), row.published \in Nat
          PROVE  /\ during[w] \subseteq during'[w] /\ during'[w] \subseteq Nat
                 /\ at[w] \notin Calling => during'[w] = during[w]
      BY <2>1, <2>2 DEF SetRow
    <2> QED BY <2>1, <2>2
  <1>2. Typed(w)'
    BY <1>0, <1>1 DEF Typed
  <1>3. CallsAsAsked(w)'
    BY <1>0 DEF CallsAsAsked
  <1>4. WritesAsAsked(w)' /\ BeginsBlank(w)'
    BY <1>0 DEF WritesAsAsked, BeginsBlank
  <1>5. AnswersTruly(w)'
    BY <1>0, <1>1, TellsStill DEF AnswersTruly
  <1>6. ShowsBoth(w)'
    <2> SUFFICES ASSUME request[w] \in Commands, request[w].verb = "show"
                 PROVE  /\ at[w] \in Calling /\ call[w].op # "GetConfig" => out[w].sections = <<>>
                        /\ at[w] \in Calling /\ call[w].op = "GetConfig" =>
                              HalfShown(out[w].sections, during'[w])
                        /\ at[w] = "done" /\ out[w].status = "printed" =>
                              \A n \in 1 .. MaxVersion : during'[w] = {n} =>
                                 \E i \in DOMAIN out[w].sections :
                                    out[w].sections[i] = [version |-> n, published |-> TRUE]
      BY DEF ShowsBoth
    <2>1. HalfShown(out[w].sections, during[w]) => HalfShown(out[w].sections, during'[w])
      BY <1>1, TellsStill
    <2>2. at[w] = "done" => during'[w] = during[w]
      BY <1>1 DEF Calling
    <2> QED BY <1>0, <2>1, <2>2 DEF ShowsBoth
  <1>7. EndsAsAsked(w)'
    BY <1>0 DEF EndsAsAsked
  <1> QED BY <1>2, <1>3, <1>4, <1>5, <1>6, <1>7 DEF Promise

\* The published version after an accepted write.
LEMMA WrittenPublished ==
    ASSUME NEW row, row = NoRow \/ row \in Row, NEW c, c.op \in Writes, Accepted(row, c)
    PROVE  Written(row, c).published \in Nat
  BY WrittenRow DEF Row

\* A handler that runs: its answer tells what it did.
LEMMA ServeKeeps ==
    ASSUME WInv, NEW w \in Callers, Serve(w)
    PROVE  Promise(w)'
  <1> PICK c, k, row : c = call[w] /\ k = KeyOf(c.id) /\ row = RowIn(store, k)
    OBVIOUS
  <1> PICK a, r : a = answer'[w] /\ r = request[w]
    OBVIOUS
  <1>0. /\ Typed(w) /\ CallsAsAsked(w) /\ WritesAsAsked(w)
        /\ BeginsBlank(w) /\ ShowsBoth(w) /\ FunctionsOK
        /\ wrote = [v \in Callers |-> wrote[v]] /\ IInv
    BY WInvOf
  <1>1. /\ at[w] = "call" /\ at' = [at EXCEPT ![w] = "answered"] /\ UNCHANGED <<request, call, out>>
        /\ answer' = [answer EXCEPT ![w] = answer'[w]]
        /\ a \in Answers(row, c) \cup Failures
    BY <1>0 DEF Serve, FunctionsOK, Failures, Unanswered
  <1>2. c \in Call /\ (row = NoRow \/ row \in Row)
    BY <1>0, RowOf DEF Typed, IInv
  <1>3. a \in Answer
    BY <1>1, <1>2, AnswersTyped, FailureTold
  <1>4. at'[w] = "answered" /\ wrote[w] = {} /\ answer'[w] = a
    BY <1>0, <1>1 DEF FunctionsOK, WritesAsAsked
  <1> DEFINE takes == c.op \in Writes /\ ScopeId(c.id) # Missing /\ Accepted(row, c)
  <1>5. \/ takes /\ SetRow(k, Written(row, c)) /\ wrote' = [wrote EXCEPT ![w] = @ \cup {Effect(w)}]
        \/ ~takes /\ UNCHANGED <<store, during, wrote>>
    BY DEF Serve
  <1>6. /\ takes => wrote'[w] = {Effect(w)}
        /\ ~takes => wrote'[w] = {}
    BY <1>0, <1>4, <1>5
  <1>7. /\ during[w] \subseteq during'[w] /\ during'[w] \subseteq Nat
        /\ row.published \in during[w]
    <2>1. row.published \in during[w]
      BY <1>0, <1>1 DEF IInv, ClaimInv, Calling
    <2>2. takes => Written(row, c).published \in Nat
      BY <1>2, WrittenPublished
    <2> QED BY <1>0, <1>5, <2>1, <2>2, SeenSet DEF Typed
  <1>8. Typed(w)'
    BY <1>0, <1>1, <1>3, <1>4, <1>7 DEF Typed, Stages, Calling
  <1>9. CallsAsAsked(w)'
    BY <1>0, <1>1 DEF CallsAsAsked, Calling
  <1>10. takes => Effect(w) \in AskedFor(r)
    <2> SUFFICES ASSUME takes PROVE Effect(w) \in AskedFor(r)
      OBVIOUS
    <2>1. Effect(w) = [op |-> c.op, key |-> k,
                       version |-> IF c.op = "UpdateConfig" THEN row.latest + 1 ELSE c.number]
      BY DEF Effect
    <2>2. AskedFor(r) = [op : {c.op}, key : {k},
                         version : IF c.op = "UpdateConfig" THEN 1 .. MaxVersion ELSE {c.number}]
      <3>1. CASE r \in HttpRequests /\ Valid(r) /\ c = CallOf(r)
        BY <3>1, HttpMeant
      <3>2. CASE r \in Commands /\ Usable(r) /\ c = CliCall(r)
        BY <3>2, CliMeant
      <3>3. c # [CliCall(r) EXCEPT !.op = "GetConfig"]
        BY DEF CliCall, Writes
      <3> QED BY <1>0, <1>1, <3>1, <3>2, <3>3 DEF CallsAsAsked, Calling
    <2>3. c.op = "UpdateConfig" => row.latest + 1 \in 1 .. MaxVersion
      BY <1>1, UpdateFits
    <2> QED BY <2>1, <2>2, <2>3
  <1>11. WritesAsAsked(w)'
    <2>1. wrote'[w] = {} \/ \E e \in AskedFor(request'[w]) : wrote'[w] = {e}
      BY <1>1, <1>6, <1>10
    <2>2. call'[w].op \notin Writes => wrote'[w] = {}
      BY <1>1, <1>6
    <2> QED BY <1>4, <2>1, <2>2 DEF WritesAsAsked
  <1>12. AnswersTruly(w)'
    <2>1. CASE a \in Failures
      <3>1. a.code \in {"Unavailable", "Canceled", "Internal"}
        BY <2>1, FailureTold
      <3> QED BY <1>1, <1>4, <3>1 DEF AnswersTruly, Tells
    <2>2. CASE a \in Answers(row, c)
      <3>1. a.code = "OK" /\ c.op \in Writes => wrote'[w] # {}
        BY <1>2, <1>6, <2>2, AnswersTell
      <3>2. a.code \in {"InvalidArgument", "NotFound"} => wrote'[w] = {}
        BY <1>2, <1>6, <2>2, AnswersTell
      <3>3. Tells(c, a, during'[w], wrote'[w])
        BY <1>2, <1>7, <2>2, <3>1, <3>2, AnswersTell DEF Tells
      <3> QED BY <1>1, <1>4, <3>3 DEF AnswersTruly
    <2> QED BY <1>1, <2>1, <2>2
  <1>13. BeginsBlank(w)' /\ EndsAsAsked(w)'
    BY <1>4 DEF BeginsBlank, EndsAsAsked
  <1>14. ShowsBoth(w)'
    <2>1. \A s : HalfShown(s, during[w]) => HalfShown(s, during'[w])
      BY <1>7, TellsStill
    <2> QED BY <1>0, <1>1, <1>4, <2>1 DEF ShowsBoth, Calling
  <1> QED BY <1>8, <1>9, <1>11, <1>12, <1>13, <1>14 DEF Promise

\* A call that fails leaves nothing behind.
LEMMA FailKeeps ==
    ASSUME WInv, NEW w \in Callers, ServeFails(w)
    PROVE  Promise(w)'
  <1>0. /\ Typed(w) /\ CallsAsAsked(w) /\ WritesAsAsked(w)
        /\ BeginsBlank(w) /\ ShowsBoth(w) /\ FunctionsOK
    BY WInvOf
  <1>1. /\ at[w] = "call" /\ at'[w] = "answered" /\ answer'[w] \in Answer
        /\ answer'[w].code \in {"Unavailable", "Canceled", "Internal"}
        /\ UNCHANGED <<request, call, out, wrote, during>>
    <2>1. answer'[w] \in Failures
      BY <1>0 DEF ServeFails, FunctionsOK, Failures, Unanswered
    <2>2. at[w] = "call" /\ at'[w] = "answered" /\ UNCHANGED <<request, call, out, wrote, during>>
      BY <1>0 DEF ServeFails, FunctionsOK
    <2> QED BY <2>1, <2>2, FailureTold
  <1>2. Typed(w)' /\ CallsAsAsked(w)' /\ WritesAsAsked(w)'
    BY <1>0, <1>1 DEF Typed, CallsAsAsked, WritesAsAsked, Calling, Stages
  <1>3. AnswersTruly(w)' /\ BeginsBlank(w)' /\ EndsAsAsked(w)'
    BY <1>1 DEF AnswersTruly, Tells, BeginsBlank, EndsAsAsked
  <1>4. ShowsBoth(w)'
    BY <1>0, <1>1 DEF ShowsBoth, Calling
  <1> QED BY <1>2, <1>3, <1>4 DEF Promise

\* A caller that makes a call has written nothing so far, and keeps to what it
\* was asked.
LEMMA CallKeeps ==
    ASSUME WInv, NEW w \in Callers, NEW c \in Call, MakeCall(w, c), NEW r,
           request'[w] = r, wrote[w] = {},
           \/ r \in HttpRequests /\ Valid(r) /\ c = CallOf(r)
           \/ /\ r \in Commands /\ Usable(r)
              /\ \/ c = CliCall(r)
                 \/ r.verb = "show" /\ c = [CliCall(r) EXCEPT !.op = "GetConfig"],
           out'[w] \in [status : Statuses, sections : Seq(Section)],
           r \in Commands /\ r.verb = "show" =>
              /\ c.op # "GetConfig" => out'[w].sections = <<>>
              /\ c.op = "GetConfig" => HalfShown(out'[w].sections, during[w])
    PROVE  Promise(w)'
  <1>0. Typed(w) /\ FunctionsOK /\ RowsOK
    BY WInvOf
  <1>1. /\ at'[w] = "call" /\ call'[w] = c /\ answer' = answer /\ wrote' = wrote
        /\ during'[w] = during[w] \cup {RowIn(store, KeyOf(c.id)).published}
    BY <1>0 DEF MakeCall, FunctionsOK
  <1>2. during'[w] \subseteq Nat /\ during[w] \subseteq during'[w]
    BY <1>0, <1>1, LatestIsNat DEF Typed
  <1>3. Typed(w)'
    BY <1>0, <1>1, <1>2 DEF Typed, Stages, Calling
  <1>4. CallsAsAsked(w)'
    BY <1>1 DEF CallsAsAsked
  <1>5. WritesAsAsked(w)' /\ AnswersTruly(w)' /\ BeginsBlank(w)' /\ EndsAsAsked(w)'
    BY <1>1 DEF WritesAsAsked, AnswersTruly, BeginsBlank, EndsAsAsked
  <1>6. ShowsBoth(w)'
    <2>1. \A s : HalfShown(s, during[w]) => HalfShown(s, during'[w])
      BY <1>2, TellsStill
    <2> QED BY <1>1, <2>1 DEF ShowsBoth
  <1> QED BY <1>3, <1>4, <1>5, <1>6 DEF Promise

\* A caller that ends has told its user the truth about what it did.
LEMMA TellKeeps ==
    ASSUME WInv, NEW w \in Callers, NEW status \in Statuses, NEW sections \in Seq(Section),
           Tell(w, status, sections), NEW r \in HttpRequests \cup Commands, request'[w] = r,
           wrote[w] = {} \/ \E e \in AskedFor(r) : wrote[w] = {e},
           status \in Refused => wrote[w] = {},
           status \in Succeeded /\ AskedFor(r) # {} => wrote[w] # {},
           (/\ status = "200" /\ r \in HttpRequests
            /\ r.route = "version" /\ Fits32(r.number))
               => sections[1].version \in {0, r.number},
           r \in Commands /\ r.verb = "show" /\ status = "printed" =>
              \A n \in 1 .. MaxVersion : during[w] = {n} =>
                 \E i \in DOMAIN sections : sections[i] = [version |-> n, published |-> TRUE]
    PROVE  Promise(w)'
  <1>0. Typed(w) /\ FunctionsOK
    BY WInvOf
  <1>1. /\ at'[w] = "done" /\ out'[w] = [status |-> status, sections |-> sections]
        /\ UNCHANGED <<call, answer, wrote, during>>
    BY <1>0 DEF Tell, FunctionsOK
  <1>2. out'[w].status = status /\ out'[w].sections = sections
    BY <1>1
  <1>3. Typed(w)'
    BY <1>0, <1>1 DEF Typed, Stages
  <1>4. CallsAsAsked(w)' /\ WritesAsAsked(w)' /\ AnswersTruly(w)' /\ BeginsBlank(w)'
    BY <1>1 DEF CallsAsAsked, WritesAsAsked, AnswersTruly, BeginsBlank, Calling
  <1>5. EndsAsAsked(w)'
    BY <1>1, <1>2 DEF EndsAsAsked
  <1>6. ShowsBoth(w)'
    BY <1>1, <1>2 DEF ShowsBoth, Calling
  <1> QED BY <1>3, <1>4, <1>5, <1>6 DEF Promise

LEMMA DoneKeeps ==
    ASSUME WInv, NEW w \in Callers, Done(w)
    PROVE  Promise(w)'
  <1>0. Typed(w) /\ FunctionsOK /\ wrote = [v \in Callers |-> wrote[v]]
    BY WInvOf
  <1>1. /\ at'[w] = "idle" /\ request'[w] = NoRequest /\ call'[w] = NoCall
        /\ answer'[w] = NoAnswer /\ out'[w] = Silent /\ wrote'[w] = {} /\ during'[w] = {}
    BY <1>0 DEF Done, FunctionsOK
  <1>2. Typed(w)'
    BY <1>1, RestTyped DEF Typed, Stages
  <1>3. CallsAsAsked(w)' /\ WritesAsAsked(w)' /\ AnswersTruly(w)' /\ BeginsBlank(w)' /\ EndsAsAsked(w)'
    BY <1>1, RestTyped DEF CallsAsAsked, WritesAsAsked, AnswersTruly, BeginsBlank, EndsAsAsked, Calling
  <1>4. ShowsBoth(w)'
    BY <1>1 DEF ShowsBoth, Calling
  <1> QED BY <1>2, <1>3, <1>4 DEF Promise

-----------------------------------------------------------------------------
(* The front ends *)

LEMMA SectionsTyped ==
    ASSUME NEW a \in Answer
    PROVE  /\ Printed(a) \in Seq(Section) /\ JsonSections(a) \in Seq(Section)
           /\ HttpStatus[a.code] \in Statuses
           /\ HttpStatus[a.code] \in Refused => a.code \in {"InvalidArgument", "NotFound"}
           /\ HttpStatus[a.code] \in Succeeded => a.code = "OK"
  <1>1. a.number \in Int /\ a.published \in Nat /\ a.code \in Codes
    BY DEF Answer
  <1>2. /\ [version |-> a.number, published |-> a.published = a.number] \in Section
        /\ [version |-> a.number, published |-> a.published # 0 /\ a.published = a.number] \in Section
    BY <1>1 DEF Section
  <1>3. \A s \in Section : <<s>> \in Seq(Section)
    OBVIOUS
  <1>4. <<>> \in Seq(Section)
    OBVIOUS
  <1>5. Printed(a) \in Seq(Section) /\ JsonSections(a) \in Seq(Section)
    BY <1>2, <1>3, <1>4 DEF Printed, JsonSections
  <1>6. HttpStatus[a.code] \in Statuses
    BY <1>1 DEF Statuses, GrpcCodes
  <1>7. /\ HttpStatus[a.code] \in Refused => a.code \in {"InvalidArgument", "NotFound"}
        /\ HttpStatus[a.code] \in Succeeded => a.code = "OK"
    BY <1>1 DEF HttpStatus, GrpcCodes, Codes, Refused, Succeeded
  <1> QED BY <1>5, <1>6, <1>7

LEMMA HttpStartKeeps ==
    ASSUME WInv, NEW w \in Callers, NEW r \in HttpRequests, HttpStart(w, r)
    PROVE  Promise(w)'
  <1>0. /\ Typed(w) /\ WritesAsAsked(w) /\ BeginsBlank(w) /\ FunctionsOK
    BY WInvOf
  <1>1. at[w] = "idle" /\ request'[w] = r /\ wrote[w] = {} /\ r \notin Commands
    BY <1>0, Kinds DEF HttpStart, FunctionsOK, WritesAsAsked
  <1>2. ASSUME NEW status \in {"401", "500"}, Tell(w, status, <<>>)
        PROVE  Promise(w)'
    <2>1. status \in Statuses /\ status \notin Succeeded /\ status # "200"
      <3>1. "500" = HttpStatus["Internal"] /\ "Internal" \in GrpcCodes
        BY DEF HttpStatus, GrpcCodes, Codes
      <3> QED BY <3>1 DEF Statuses, Succeeded
    <2>2. <<>> \in Seq(Section)
      OBVIOUS
    <2> QED BY <1>1, <1>2, <2>1, <2>2, TellKeeps
  <1>3. CASE Admitted(r) /\ Valid(r) /\ MakeCall(w, CallOf(r)) /\ UNCHANGED out
    <2>1. CallOf(r) \in Call
      BY <1>3, HttpCallTyped
    <2>2. out'[w] \in [status : Statuses, sections : Seq(Section)]
      BY <1>0, <1>3 DEF Typed
    <2> QED BY <1>1, <1>3, <2>1, <2>2, CallKeeps
  <1> QED BY <1>2, <1>3 DEF HttpStart

LEMMA HttpRespondKeeps ==
    ASSUME WInv, NEW w \in Callers, HttpRespond(w)
    PROVE  Promise(w)'
  <1> PICK r, c, a : r = request[w] /\ c = call[w] /\ a = answer[w]
    OBVIOUS
  <1>0. /\ Typed(w) /\ CallsAsAsked(w) /\ WritesAsAsked(w) /\ AnswersTruly(w)
    BY WInvOf
  <1>1. /\ at[w] = "answered" /\ r.kind = "http" /\ request'[w] = r
        /\ Tell(w, HttpStatus[a.code], JsonSections(a))
    BY DEF HttpRespond
  <1>2. r \in HttpRequests /\ r \notin Commands /\ Valid(r) /\ c = CallOf(r)
    BY <1>0, <1>1, Kinds DEF CallsAsAsked, Calling
  <1>3. a \in Answer /\ Tells(c, a, during[w], wrote[w])
    BY <1>0, <1>1 DEF Typed, AnswersTruly
  <1>4. wrote[w] = {} \/ \E e \in AskedFor(r) : wrote[w] = {e}
    BY <1>0 DEF WritesAsAsked
  <1>5. HttpStatus[a.code] \in Refused => wrote[w] = {}
    BY <1>3, SectionsTyped DEF Tells
  <1>6. HttpStatus[a.code] \in Succeeded /\ AskedFor(r) # {} => wrote[w] # {}
    BY <1>2, <1>3, SectionsTyped, HttpMeant DEF Tells
  <1>7. ASSUME HttpStatus[a.code] = "200", r.route = "version", Fits32(r.number)
        PROVE  JsonSections(a)[1].version \in {0, r.number}
    <2>1. a.code = "OK"
      BY <1>3, <1>7, SectionsTyped DEF Succeeded
    <2>2. r.number \in Int /\ r.number > 0
      BY <1>2, <1>7, RequestsAssumption DEF Valid, HttpRequest
    <2>3. c.op = "GetConfigByVersion" /\ c.number = r.number
      BY <1>2, <1>7, <2>2, Conversion DEF CallOf, Operation
    <2>4. a.number \in {0, r.number}
      BY <1>3, <2>1, <2>2, <2>3 DEF Tells
    <2>5. JsonSections(a)[1].version = a.number
      BY <2>1 DEF JsonSections
    <2> QED BY <2>4, <2>5
  <1> QED BY <1>1, <1>2, <1>3, <1>4, <1>5, <1>6, <1>7, SectionsTyped, TellKeeps

LEMMA CliStatuses ==
    /\ "fatal" \in Statuses /\ "printed" \in Statuses
    /\ "fatal" \notin Succeeded \cup Refused \cup {"200", "printed"}
    /\ "printed" \in Succeeded /\ "printed" \notin Refused
  BY DEF Statuses, Succeeded, Refused

LEMMA CliStartKeeps ==
    ASSUME WInv, NEW w \in Callers, NEW d \in Commands, CliStart(w, d)
    PROVE  Promise(w)'
  <1>0. /\ Typed(w) /\ WritesAsAsked(w) /\ BeginsBlank(w) /\ FunctionsOK
    BY WInvOf
  <1>1. at[w] = "idle" /\ request'[w] = d /\ wrote[w] = {} /\ out[w].sections = <<>>
    BY <1>0 DEF CliStart, FunctionsOK, WritesAsAsked, BeginsBlank
  <1>2. CASE Tell(w, "fatal", <<>>)
    <2>1. <<>> \in Seq(Section)
      OBVIOUS
    <2> QED BY <1>1, <1>2, <2>1, CliStatuses, TellKeeps
  <1>3. CASE Usable(d) /\ MakeCall(w, CliCall(d)) /\ UNCHANGED out
    <2>1. CliCall(d) \in Call
      BY <1>3, CliCallTyped
    <2>2. out'[w] \in [status : Statuses, sections : Seq(Section)] /\ out'[w].sections = <<>>
      BY <1>0, <1>1, <1>3 DEF Typed
    <2>3. d.verb = "show" => CliCall(d).op # "GetConfig"
      BY DEF CliCall, CliOperation
    <2> QED BY <1>1, <1>3, <2>1, <2>2, <2>3, CallKeeps
  <1> QED BY <1>2, <1>3 DEF CliStart

\* A command that has its answer.
LEMMA CliAnswered ==
    ASSUME WInv, NEW w \in Callers, at[w] = "answered", request[w].kind = "cli"
    PROVE  /\ request[w] \in Commands /\ Usable(request[w]) /\ request[w] \notin HttpRequests
           /\ \/ call[w] = CliCall(request[w])
              \/ request[w].verb = "show" /\ call[w] = [CliCall(request[w]) EXCEPT !.op = "GetConfig"]
           /\ answer[w] \in Answer /\ Tells(call[w], answer[w], during[w], wrote[w])
           /\ wrote[w] = {} \/ \E e \in AskedFor(request[w]) : wrote[w] = {e}
           /\ request[w].verb = "show" => call[w].op \notin Writes /\ wrote[w] = {}
  <1>1. CallsAsAsked(w) /\ AnswersTruly(w) /\ WritesAsAsked(w) /\ Typed(w)
    BY WInvOf
  <1>2. request[w] \in Commands /\ Usable(request[w]) /\ request[w] \notin HttpRequests
        /\ \/ call[w] = CliCall(request[w])
           \/ request[w].verb = "show" /\ call[w] = [CliCall(request[w]) EXCEPT !.op = "GetConfig"]
    BY <1>1, Kinds DEF CallsAsAsked, Calling
  <1>3. request[w].verb = "show" => call[w].op \notin Writes
    BY <1>2 DEF CliCall, CliOperation, Writes
  <1> QED BY <1>1, <1>2, <1>3 DEF AnswersTruly, WritesAsAsked, Typed

LEMMA CliFailsKeeps ==
    ASSUME WInv, NEW w \in Callers, CliFails(w)
    PROVE  Promise(w)'
  <1>1. /\ at[w] = "answered" /\ request[w].kind = "cli" /\ request'[w] = request[w]
        /\ Tell(w, "fatal", <<>>)
    BY DEF CliFails
  <1>2. <<>> \in Seq(Section)
    OBVIOUS
  <1>3. request[w] \in Commands /\ (wrote[w] = {} \/ \E e \in AskedFor(request[w]) : wrote[w] = {e})
    BY <1>1, CliAnswered
  <1> QED BY <1>1, <1>2, <1>3, CliStatuses, TellKeeps

LEMMA CliPrintsKeeps ==
    ASSUME WInv, NEW w \in Callers, CliPrints(w)
    PROVE  Promise(w)'
  <1>1. /\ at[w] = "answered" /\ answer[w].code = "OK"
        /\ request[w].kind = "cli" /\ request[w].verb # "show" /\ request'[w] = request[w]
        /\ Tell(w, "printed", Printed(answer[w]))
    BY DEF CliPrints
  <1>2. /\ request[w] \in Commands /\ Usable(request[w]) /\ request[w] \notin HttpRequests
        /\ call[w] = CliCall(request[w])
        /\ answer[w] \in Answer /\ Tells(call[w], answer[w], during[w], wrote[w])
        /\ wrote[w] = {} \/ \E e \in AskedFor(request[w]) : wrote[w] = {e}
    BY <1>1, CliAnswered
  <1>3. AskedFor(request[w]) # {} => wrote[w] # {}
    BY <1>1, <1>2, CliMeant DEF Tells
  <1>4. Printed(answer[w]) \in Seq(Section)
    BY <1>2, SectionsTyped
  <1> QED BY <1>1, <1>2, <1>3, <1>4, CliStatuses, TellKeeps

\* The first half of show.
LEMMA ShowLatestKeeps ==
    ASSUME WInv, NEW w \in Callers, ShowLatest(w)
    PROVE  Promise(w)'
  <1> PICK d, c, a : d = request[w] /\ c = call[w] /\ a = answer[w]
    OBVIOUS
  <1>0. Typed(w) /\ FunctionsOK
    BY WInvOf
  <1>1. /\ at[w] = "answered" /\ a.code = "OK" /\ d.kind = "cli" /\ d.verb = "show"
        /\ c.op = "GetLatestConfig" /\ request'[w] = d
        /\ MakeCall(w, [c EXCEPT !.op = "GetConfig"])
        /\ out' = [out EXCEPT ![w].sections = Printed(a)]
    BY DEF ShowLatest
  <1>2. /\ d \in Commands /\ Usable(d) /\ d \notin HttpRequests
        /\ \/ c = CliCall(d)
           \/ c = [CliCall(d) EXCEPT !.op = "GetConfig"]
        /\ a \in Answer /\ Tells(c, a, during[w], wrote[w]) /\ wrote[w] = {}
    BY <1>1, CliAnswered
  <1>3. c = CliCall(d)
    <2>1. [CliCall(d) EXCEPT !.op = "GetConfig"].op = "GetConfig"
      BY DEF CliCall
    <2> QED BY <1>1, <1>2, <2>1
  <1>4. [c EXCEPT !.op = "GetConfig"] \in Call /\ [c EXCEPT !.op = "GetConfig"].op = "GetConfig"
    BY <1>2, <1>3, CliCallTyped DEF CliCall
  <1>5. /\ out'[w].sections = Printed(a)
        /\ out'[w] \in [status : Statuses, sections : Seq(Section)]
    BY <1>0, <1>1, <1>2, SectionsTyped DEF Typed, FunctionsOK
  <1>6. HalfShown(Printed(a), during[w])
    <2>1. a.number \in Int /\ a.published \in during[w] /\ (a.number = 0 => a.published = 0)
      BY <1>1, <1>2 DEF Tells, Answer
    <2>2. CASE a.number = 0
      BY <2>1, <2>2 DEF Printed, HalfShown
    <2>3. CASE a.number # 0
      <3>1. Printed(a) = <<[version |-> a.number, published |-> a.number = a.published]>>
        <4>1. (a.published = a.number) = (a.number = a.published)
          OBVIOUS
        <4> QED BY <2>3, <4>1 DEF Printed
      <3> QED BY <2>1, <3>1 DEF HalfShown
    <2> QED BY <2>2, <2>3
  <1> QED BY <1>1, <1>2, <1>3, <1>4, <1>5, <1>6, CallKeeps

\* Members of short lists.
LEMMA Members ==
    \A s, t : /\ 1 \in DOMAIN <<s>> /\ <<s>>[1] = s
              /\ 2 \in DOMAIN <<s, t>> /\ <<s, t>>[2] = t
  OBVIOUS

\* Two sections in a row.
LEMMA Two ==
    ASSUME NEW s \in Section, NEW t \in Section
    PROVE  /\ <<>> \o <<t>> = <<t>> /\ <<s>> \o <<t>> = <<s, t>>
  <1>1. <<>> \in Seq(Section) /\ <<s>> \in Seq(Section) /\ <<t>> \in Seq(Section)
        /\ <<s, t>> \in Seq(Section)
    OBVIOUS
  <1>2. <<>> \o <<t>> = <<t>>
    BY <1>1, ConcatEmptySeq, Zenon
  <1>3. Append(<<s>>, t) = <<s>> \o <<t>>
    BY <1>1, AppendIsConcat
  <1>4. /\ Append(<<s>>, t) \in Seq(Section) /\ Len(Append(<<s>>, t)) = 2
        /\ Append(<<s>>, t)[1] = s /\ Append(<<s>>, t)[2] = t
    BY <1>1, AppendProperties
  <1>5. \A i \in 1 .. 2 : Append(<<s>>, t)[i] = <<s, t>>[i]
    BY <1>4
  <1>6. Len(<<s, t>>) = 2
    OBVIOUS
  <1>7. Append(<<s>>, t) = <<s, t>>
    BY <1>1, <1>4, <1>5, <1>6, SeqEqual
  <1> QED BY <1>2, <1>3, <1>7

\* Both halves of show: if n was published all along, it is among them.
LEMMA ShowPublishedKeeps ==
    ASSUME WInv, NEW w \in Callers, ShowPublished(w)
    PROVE  Promise(w)'
  <1> PICK d, c, a, first : d = request[w] /\ c = call[w] /\ a = answer[w]
                            /\ first = out[w].sections
    OBVIOUS
  <1> PICK latest : latest = IF first = <<>> THEN 0 ELSE first[1].version
    OBVIOUS
  <1> PICK shown : shown = IF a.number # latest THEN first \o Printed(a) ELSE first
    OBVIOUS
  <1>0. Typed(w) /\ ShowsBoth(w)
    BY WInvOf
  <1>1. /\ at[w] = "answered" /\ a.code = "OK" /\ d.kind = "cli" /\ d.verb = "show"
        /\ c.op = "GetConfig" /\ request'[w] = d
        /\ Tell(w, "printed", shown)
    BY DEF ShowPublished
  <1>2. /\ d \in Commands /\ Usable(d) /\ d \notin HttpRequests
        /\ c = CliCall(d) \/ c = [CliCall(d) EXCEPT !.op = "GetConfig"]
        /\ a \in Answer /\ Tells(c, a, during[w], wrote[w]) /\ wrote[w] = {}
        /\ c.op \notin Writes
    BY <1>1, CliAnswered
  <1>3. a.number = a.published /\ a.published \in during[w] /\ a.number \in Int
    BY <1>1, <1>2 DEF Tells, Answer
  <1>4. HalfShown(first, during[w])
    BY <1>0, <1>1, <1>2 DEF ShowsBoth, Calling
  <1>5. first \in Seq(Section) /\ Printed(a) \in Seq(Section)
    BY <1>0, <1>2, SectionsTyped DEF Typed
  <1>6. shown \in Seq(Section)
    BY <1>5, ConcatProperties
  <1>7. AskedFor(d) = {}
    BY <1>1 DEF AskedFor
  <1>8. ASSUME NEW n \in 1 .. MaxVersion, during[w] = {n}
        PROVE  \E i \in DOMAIN shown : shown[i] = [version |-> n, published |-> TRUE]
    <2> PICK s : s = [version |-> n, published |-> TRUE]
      OBVIOUS
    <2>0. a.number = n /\ a.published = n /\ n # 0 /\ n \in Int /\ s \in Section
      BY <1>3, <1>8, NumberAssumption DEF Section
    <2>1. Printed(a) = <<s>>
      BY <2>0 DEF Printed
    <2>2. PICK v \in Int : first = <<[version |-> v, published |-> v = n]>>
      BY <1>4, <1>8, <2>0 DEF HalfShown
    <2>3. latest = v
      BY <2>2
    <2>4. CASE v = n
      <3>1. shown = <<s>>
        BY <2>0, <2>2, <2>3, <2>4
      <3>2. 1 \in DOMAIN shown /\ shown[1] = s
        BY <3>1, Members, Zenon
      <3> QED BY <3>2
    <2>5. CASE v # n
      <3>1. PICK t \in Section : first = <<t>>
        BY <2>2 DEF Section
      <3>2. shown = <<t, s>>
        <4>1. shown = first \o Printed(a)
          BY <2>0, <2>3, <2>5
        <4>2. first \o Printed(a) = <<t>> \o <<s>>
          BY <2>1, <3>1
        <4>3. <<t>> \o <<s>> = <<t, s>>
          BY <2>0, Two
        <4> QED BY <4>1, <4>2, <4>3
      <3>3. 2 \in DOMAIN shown /\ shown[2] = s
        <4>1. 2 \in DOMAIN <<t, s>> /\ <<t, s>>[2] = s
          BY Members
        <4> QED BY <3>2, <4>1
      <3> QED BY <3>3
    <2> QED BY <2>4, <2>5
  <1>9. "printed" \in Statuses /\ "printed" # "200"
    BY CliStatuses
  <1>10. /\ Tell(w, "printed", shown) /\ d \in HttpRequests \cup Commands
         /\ wrote[w] = {} /\ d \notin HttpRequests /\ request'[w] = d
    BY <1>1, <1>2
  <1> QED BY <1>6, <1>7, <1>8, <1>9, <1>10, TellKeeps

LEMMA FrontEndKeeps ==
    ASSUME WInv, NEW w \in Callers, HttpNext(w) \/ CliNext(w)
    PROVE  Promise(w)'
  BY HttpStartKeeps, HttpRespondKeeps, CliStartKeeps, ShowLatestKeeps, ShowPublishedKeeps,
     CliFailsKeeps, CliPrintsKeeps DEF HttpNext, CliNext

-----------------------------------------------------------------------------
(* The theorems *)

LEMMA WInvInit == Init => WInv
  <1> SUFFICES ASSUME Init PROVE WInv
    OBVIOUS
  <1>1. IInv
    BY InvInit
  <1>2. wrote = [w \in Callers |-> wrote[w]]
    BY DEF Init, InitService
  <1>3. \A w \in Callers : Promise(w)
    BY RestKeeps DEF Init, InitService
  <1>4. ASSUME NEW k \in Keys PROVE Fitting(k)
    <2>1. RowIn(store, k).latest = 0
      BY NoRowIn DEF NoRow
    <2>2. UnderWay(k) = {}
      BY DEF Init, InitService, UnderWay
    <2> QED BY <2>1, <2>2, FS_EmptySet, NumberAssumption DEF Fitting
  <1> QED BY <1>1, <1>2, <1>3, <1>4 DEF WInv

LEMMA WInvStep == WInv /\ [Next]_vars => WInv'
  <1> SUFFICES ASSUME WInv, [Next]_vars PROVE WInv'
    OBVIOUS
  <1>0. /\ IInv /\ FunctionsOK /\ RowsOK /\ wrote = [w \in Callers |-> wrote[w]]
        /\ \A k \in Keys : Fitting(k)
        /\ \A w \in Callers : Promise(w)
    BY DEF WInv, IInv
  <1>i. IInv'
    BY <1>0, InvStep
  <1>1. CASE UNCHANGED vars
    <2>1. wrote' = [w \in Callers |-> wrote'[w]] /\ \A w \in Callers : Promise(w)'
      BY <1>0, <1>1, BystanderKeeps DEF vars
    <2>2. \A k \in Keys : Fitting(k)'
      BY <1>0, <1>1 DEF vars, Fitting, UnderWay, RowIn
    <2> QED BY <1>i, <2>1, <2>2 DEF WInv
  <1>2. CASE OthersAct
    <2>1. UNCHANGED <<at, request, call, answer, out, wrote>>
      BY <1>2 DEF OthersAct
    <2>2. \E k, row : SetRow(k, row) /\ row.published \in Nat
      <3> PICK k \in Keys : LET row == RowIn(store, k) IN
             \/ SetRow(k, [latest |-> row.latest + 1, published |-> row.published])
                /\ [latest |-> row.latest + 1, published |-> row.published] \in Row
             \/ row \in Row /\ \E v \in 1 .. row.latest :
                  SetRow(k, [latest |-> row.latest, published |-> v])
             \/ row \in Row /\ SetRow(k, NoRow)
        BY <1>0, <1>2, Others
      <3>1. NoRow.published \in Nat /\ \A r \in Row : r.published \in Nat /\ r.latest \in Nat
        BY DEF NoRow, Row
      <3> PICK row : row = RowIn(store, k)
        OBVIOUS
      <3>2. CASE SetRow(k, [latest |-> row.latest + 1, published |-> row.published])
                 /\ [latest |-> row.latest + 1, published |-> row.published] \in Row
        BY <3>1, <3>2
      <3>3. ASSUME NEW v \in 1 .. row.latest, row \in Row,
                   SetRow(k, [latest |-> row.latest, published |-> v])
            PROVE  \E l, new : SetRow(l, new) /\ new.published \in Nat
        <4>1. [latest |-> row.latest, published |-> v].published \in Nat
          BY <3>1, <3>3
        <4> QED BY <3>3, <4>1
      <3>4. CASE SetRow(k, NoRow)
        BY <3>1, <3>4
      <3> QED BY <3>2, <3>3, <3>4
    <2>3. \A w \in Callers : Promise(w)'
      BY <2>1, <2>2, BystanderKeeps
    <2> QED BY <1>0, <1>2, <1>i, <2>1, <2>3, OthersFit DEF WInv
  <1>3. ASSUME NEW v \in Callers, HttpNext(v) \/ CliNext(v)
        PROVE  WInv'
    <2>0. Promise(v)'
      BY <1>3, FrontEndKeeps
    <2>1. Goes(v)
      BY <1>0, <1>3, OwnSteps
    <2>2. /\ UNCHANGED <<store, answer, wrote>>
          /\ at' = [at EXCEPT ![v] = at'[v]] /\ call' = [call EXCEPT ![v] = call'[v]]
          /\ during' = [during EXCEPT ![v] = during'[v]]
          /\ request' = [request EXCEPT ![v] = request'[v]]
          /\ out' = [out EXCEPT ![v] = out'[v]]
      BY <1>0, <2>1 DEF Goes, MakeCall, Tell, FunctionsOK
    <2>3. \A w \in Callers \ {v} : Promise(w)'
      <3> SUFFICES ASSUME NEW w \in Callers \ {v} PROVE Promise(w)'
        OBVIOUS
      <3>1. /\ at'[w] = at[w] /\ request'[w] = request[w] /\ call'[w] = call[w]
            /\ answer'[w] = answer[w] /\ out'[w] = out[w] /\ wrote'[w] = wrote[w]
            /\ during'[w] = during[w]
        BY <1>0, <2>2 DEF FunctionsOK
      <3>2. /\ Typed(w) /\ CallsAsAsked(w) /\ WritesAsAsked(w) /\ AnswersTruly(w)
            /\ BeginsBlank(w) /\ ShowsBoth(w) /\ EndsAsAsked(w)
        BY WInvOf
      <3>3. Typed(w)' /\ CallsAsAsked(w)' /\ WritesAsAsked(w)' /\ AnswersTruly(w)'
        BY <3>1, <3>2 DEF Typed, CallsAsAsked, WritesAsAsked, AnswersTruly
      <3>4. BeginsBlank(w)' /\ ShowsBoth(w)' /\ EndsAsAsked(w)'
        BY <3>1, <3>2 DEF BeginsBlank, ShowsBoth, EndsAsAsked
      <3> QED BY <3>3, <3>4 DEF Promise
    <2>4. ASSUME NEW k \in Keys PROVE Fitting(k)'
      <3>1. at[v] # "call"
        BY <1>3 DEF HttpNext, HttpStart, HttpRespond, CliNext, CliStart, ShowLatest,
                    ShowPublished, CliFails, CliPrints
      <3>2. CASE \E c : MakeCall(v, c)
        BY <3>1, <3>2, CallFits
      <3>3. CASE \E status, sections : Tell(v, status, sections)
        <4>1. at' = [at EXCEPT ![v] = "done"]
          BY <3>3 DEF Tell
        <4> QED BY <2>2, <4>1, EndFits
      <3> QED BY <2>1, <3>2, <3>3 DEF Goes
    <2> QED BY <1>0, <1>i, <2>0, <2>2, <2>3, <2>4 DEF WInv
  <1>4. ASSUME NEW v \in Callers, Serve(v)
        PROVE  WInv'
    <2>1. /\ UNCHANGED <<request, call, out>>
          /\ at' = [at EXCEPT ![v] = "answered"] /\ answer' = [answer EXCEPT ![v] = answer'[v]]
          /\ wrote' = [wrote EXCEPT ![v] = wrote'[v]]
      BY <1>0, <1>4 DEF Serve, FunctionsOK
    <2>2. UNCHANGED during \/ \E k, row : SetRow(k, row) /\ row.published \in Nat
      BY <1>0, <1>4, Served, WrittenPublished
    <2>3. \A w \in Callers \ {v} : Promise(w)'
      BY <1>0, <2>1, <2>2, BystanderKeeps DEF FunctionsOK
    <2> QED BY <1>0, <1>4, <1>i, <2>1, <2>3, ServeKeeps, ServeFits DEF WInv
  <1>5. ASSUME NEW v \in Callers, ServeFails(v)
        PROVE  WInv'
    <2>1. /\ UNCHANGED <<store, request, call, out, wrote, during>>
          /\ at' = [at EXCEPT ![v] = "answered"] /\ answer' = [answer EXCEPT ![v] = answer'[v]]
      BY <1>0, <1>5 DEF ServeFails, FunctionsOK
    <2>2. \A w \in Callers \ {v} : Promise(w)'
      BY <1>0, <2>1, BystanderKeeps DEF FunctionsOK
    <2>3. call' = [call EXCEPT ![v] = call'[v]]
      BY <1>0, <2>1 DEF FunctionsOK
    <2> QED BY <1>0, <1>5, <1>i, <2>1, <2>2, <2>3, FailKeeps, EndFits DEF WInv
  <1>6. ASSUME NEW v \in Callers, Done(v)
        PROVE  WInv'
    <2>1. /\ store' = store
          /\ at' = [at EXCEPT ![v] = "idle"] /\ call' = [call EXCEPT ![v] = call'[v]]
          /\ wrote' = [wrote EXCEPT ![v] = {}]
      BY <1>0, <1>6 DEF Done, FunctionsOK
    <2>2. \A w \in Callers \ {v} : Promise(w)'
      <3> SUFFICES ASSUME NEW w \in Callers \ {v} PROVE Promise(w)'
        OBVIOUS
      <3>1. /\ at'[w] = at[w] /\ request'[w] = request[w] /\ call'[w] = call[w]
            /\ answer'[w] = answer[w] /\ out'[w] = out[w] /\ wrote'[w] = wrote[w]
            /\ during'[w] = during[w]
        BY <1>0, <1>6 DEF Done, FunctionsOK
      <3>2. /\ Typed(w) /\ CallsAsAsked(w) /\ WritesAsAsked(w) /\ AnswersTruly(w)
            /\ BeginsBlank(w) /\ ShowsBoth(w) /\ EndsAsAsked(w)
        BY WInvOf
      <3>3. Typed(w)' /\ CallsAsAsked(w)' /\ WritesAsAsked(w)' /\ AnswersTruly(w)'
        BY <3>1, <3>2 DEF Typed, CallsAsAsked, WritesAsAsked, AnswersTruly
      <3>4. BeginsBlank(w)' /\ ShowsBoth(w)' /\ EndsAsAsked(w)'
        BY <3>1, <3>2 DEF BeginsBlank, ShowsBoth, EndsAsAsked
      <3> QED BY <3>3, <3>4 DEF Promise
    <2>3. "idle" # "call"
      OBVIOUS
    <2> QED BY <1>0, <1>6, <1>i, <2>1, <2>2, <2>3, DoneKeeps, EndFits DEF WInv
  <1> QED BY <1>1, <1>2, <1>3, <1>4, <1>5, <1>6 DEF Next, Caller

\* The second inductive invariant: every call is what its request stands for,
\* every answer tells what was read or written, and there is room for the
\* updates under way.
THEOREM Faithfulness == Spec => []WInv
  BY WInvInit, WInvStep, PTL DEF Spec

\* Every variable keeps its type; in particular the conversions of both front
\* ends (handlers.go:256, ParseInt in publish.go:31) put numbers of 32 bits on
\* the wire.
THEOREM TypeCorrect == Spec => []TypeOK
  <1>1. WInv => TypeOK
    <2> SUFFICES ASSUME WInv PROVE TypeOK
      OBVIOUS
    <2>1. FunctionsOK /\ RowsOK /\ \A w \in Callers : Typed(w)
      BY DEF WInv, IInv, Promise
    <2>2. at \in [Callers -> Stages] /\ call \in [Callers -> Call] /\ answer \in [Callers -> Answer]
          /\ request \in [Callers -> {NoRequest} \cup HttpRequests \cup Commands]
          /\ out \in [Callers -> [status : Statuses, sections : Seq(Section)]]
      BY <2>1 DEF FunctionsOK, Typed
    <2> QED BY <2>1, <2>2 DEF TypeOK, RowsOK, Typed
  <1> QED BY <1>1, Faithfulness, PTL

\* A success means that exactly the change that was asked for was made, once,
\* and a refusal that nothing was, whatever call or answer was lost
\* (errors.go:24-98, and the handlers of both front ends).
THEOREM Effects == Spec => []AnswerTellsEffect
  <1>1. WInv => AnswerTellsEffect
    <2> SUFFICES ASSUME WInv, NEW w \in Callers, at[w] = "done"
                 PROVE  /\ Cardinality(wrote[w]) <= 1
                        /\ wrote[w] # {} => wrote[w] \subseteq AskedFor(request[w])
                        /\ out[w].status \in Refused => wrote[w] = {}
                        /\ out[w].status \in Succeeded /\ AskedFor(request[w]) # {} => wrote[w] # {}
      BY DEF AnswerTellsEffect
    <2>1. EndsAsAsked(w) /\ WritesAsAsked(w)
      BY WInvOf
    <2>2. wrote[w] = {} \/ \E e \in AskedFor(request[w]) : wrote[w] = {e}
      BY <2>1 DEF WritesAsAsked
    <2>3. Cardinality(wrote[w]) <= 1
      <3>1. wrote[w] = {} => Cardinality(wrote[w]) = 0
        BY FS_EmptySet
      <3>2. \A e : wrote[w] = {e} => Cardinality(wrote[w]) = 1
        BY FS_Singleton
      <3> QED BY <2>2, <3>1, <3>2
    <2> QED BY <2>1, <2>2, <2>3 DEF EndsAsAsked
  <1> QED BY <1>1, Faithfulness, PTL

\* show never hides a version that stays published while it runs
\* (show.go:35-56).
THEOREM ShowIsHonest == Spec => []ShowTellsPublished
  <1>1. WInv => ShowTellsPublished
    <2> SUFFICES ASSUME WInv, NEW w \in Callers, NEW n \in 1 .. MaxVersion,
                        at[w] = "done", out[w].status = "printed",
                        request[w].kind = "cli", request[w].verb = "show", during[w] = {n}
                 PROVE  \E i \in DOMAIN out[w].sections :
                            out[w].sections[i] = [version |-> n, published |-> TRUE]
      BY DEF ShowTellsPublished
    <2>1. Typed(w) /\ ShowsBoth(w)
      BY WInvOf
    <2>2. request[w] \in Commands
      BY <2>1, Kinds DEF Typed
    <2> QED BY <2>1, <2>2 DEF ShowsBoth
  <1> QED BY <1>1, Faithfulness, PTL

\* The answer of /versions/{version} is of the version in the path, or of no
\* version (handlers.go:231-275).
THEOREM VersionAnswered == Spec => []VersionAsAsked
  <1>1. WInv => VersionAsAsked
    <2> SUFFICES ASSUME WInv, NEW w \in Callers, at[w] = "done", out[w].status = "200",
                        request[w].kind = "http", request[w].route = "version",
                        Fits32(request[w].number)
                 PROVE  out[w].sections[1].version \in {0, request[w].number}
      BY DEF VersionAsAsked
    <2>1. Typed(w) /\ EndsAsAsked(w)
      BY WInvOf
    <2>2. request[w] \in HttpRequests
      BY <2>1, Kinds DEF Typed
    <2> QED BY <2>1, <2>2 DEF EndsAsAsked
  <1> QED BY <1>1, Faithfulness, PTL
=============================================================================
