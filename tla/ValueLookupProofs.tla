------------------------- MODULE ValueLookupProofs -------------------------
(***************************************************************************)
(* Proofs about ValueLookup for any scopes, values, templates, lookups and *)
(* number of goroutines: what the client holds is not passed over, and an  *)
(* undisturbed lookup finds what is promised or a default filled in.       *)
(***************************************************************************)
EXTENDS ValueLookup, SequenceTheorems, TLAPS

-----------------------------------------------------------------------------
(* The sources of a lookup *)

Sources(l) == {l.id, Src("PROJECT", TRUE), System, TemplateSource}

\* Every lookup asks somewhere, and nowhere but in Asked.
LEMMA ChainShape ==
    ASSUME NEW l
    PROVE  /\ Chain(l) \in Seq(Sources(l)) /\ Len(Chain(l)) > 0
           /\ Chain(l)[1] = l.id
  <1>1. /\ <<l.id>> \in Seq(Sources(l)) /\ Len(<<l.id>>) = 1 /\ <<l.id>>[1] = l.id
        /\ <<>> \in Seq(Sources(l)) /\ <<TemplateSource>> \in Seq(Sources(l))
        /\ <<System>> \in Seq(Sources(l))
        /\ <<Src("PROJECT", TRUE), System>> \in Seq(Sources(l))
    BY DEF Sources
  <1>2. (IF l.inherit THEN Parents(l.id) ELSE <<>>) \in Seq(Sources(l))
    BY <1>1 DEF Parents
  <1>3. (IF l.useDefault THEN <<TemplateSource>> ELSE <<>>) \in Seq(Sources(l))
    BY <1>1
  <1> DEFINE scopes == <<l.id>> \o (IF l.inherit THEN Parents(l.id) ELSE <<>>)
             default == IF l.useDefault THEN <<TemplateSource>> ELSE <<>>
  <1>4. scopes \in Seq(Sources(l)) /\ Len(scopes) > 0 /\ scopes[1] = l.id
    BY <1>1, <1>2, ConcatProperties
  <1>5. default \in Seq(Sources(l))
    BY <1>3
  <1>6. Chain(l) = scopes \o default
    BY DEF Chain
  <1> HIDE DEF scopes, default
  <1> QED BY <1>4, <1>5, <1>6, ConcatProperties

LEMMA ChainAsked ==
    ASSUME NEW l \in Lookups, NEW i \in DOMAIN Chain(l)
    PROVE  Chain(l)[i] \in Asked
  BY DEF Asked

LEMMA ChainInAsked ==
    ASSUME NEW l \in Lookups
    PROVE  Chain(l) \in Seq(Asked)
  <1>1. Chain(l) \in Seq(Sources(l))
    BY ChainShape
  <1>2. \A i \in 1 .. Len(Chain(l)) : Chain(l)[i] \in Asked
    BY <1>1, ChainAsked
  <1>3. Len(Chain(l)) \in Nat /\ Chain(l) = [i \in 1 .. Len(Chain(l)) |-> Chain(l)[i]]
    BY <1>1
  <1> QED BY <1>2, <1>3

-----------------------------------------------------------------------------
(* The invariant *)

FunctionsOK ==
    /\ cache  = [s \in Asked |-> cache[s]]
    /\ at     = [w \in Workers |-> at[w]]
    /\ lookup = [w \in Workers |-> lookup[w]]
    /\ rest   = [w \in Workers |-> rest[w]]
    /\ data   = [w \in Workers |-> data[w]]
    /\ result = [w \in Workers |-> result[w]]
    /\ held   = [w \in Workers |-> held[w]]
    /\ quiet  = [w \in Workers |-> quiet[w]]

\* Worker w has got nothing from the first p sources of its lookup: the client
\* does not hold a value of any, nor, undisturbed, has the server one.
Passed(w, p) ==
    LET chain == Chain(lookup[w])
    IN  /\ rest[w] \in Seq(Asked) /\ Len(rest[w]) = Len(chain) - p
        /\ \A j \in 1 .. Len(rest[w]) : rest[w][j] = chain[p + j]
        /\ \A i \in 1 .. p : chain[i] \notin held[w]
        /\ quiet[w] => \A i \in 1 .. p : ServerAnswer(chain[i]) = Nil

\* What was found is the answer of the first source that has one.
FirstAnswer(chain, value) ==
    \/ /\ value = Nil
       /\ \A i \in DOMAIN chain : ServerAnswer(chain[i]) = Nil
    \/ /\ value # Nil
       /\ \E j \in DOMAIN chain :
            /\ value = ServerAnswer(chain[j])
            /\ \A i \in 1 .. j - 1 : ServerAnswer(chain[i]) = Nil

LookupInv(w) ==
    LET chain == Chain(lookup[w])
    IN  /\ held[w] \subseteq HoldsValue(cache)
        /\ at[w] # "done" => result[w] = Nowhere
        /\ at[w] # "idle" => lookup[w] \in Lookups
        /\ at[w] \in Working => \E p \in 0 .. Len(chain) - 1 : Passed(w, p)
        /\ at[w] = "done" =>
              /\ \A i \in DOMAIN chain : chain[i] \in held[w] =>
                    \E j \in 1 .. i : result[w].from = chain[j]
              /\ quiet[w] => FirstAnswer(chain, result[w].value)

QuietOK == \A w \in Workers : quiet[w] => Coherent

IInv == FunctionsOK /\ QuietOK /\ \A w \in Workers : LookupInv(w)

-----------------------------------------------------------------------------
(* The steps *)

LEMMA InvInit == Init => IInv
  BY DEF Init, IInv, FunctionsOK, QuietOK, LookupInv, Working, HoldsValue

\* As long as the server's tables stay, so do its answers.
LEMMA SameAnswers ==
    ASSUME UNCHANGED <<conf, template>>, NEW s
    PROVE  ServerAnswer(s)' = ServerAnswer(s)
  BY DEF ServerAnswer, Defaults

LEMMA SameFirst ==
    ASSUME UNCHANGED <<conf, template>>, NEW chain, NEW value
    PROVE  FirstAnswer(chain, value)' = FirstAnswer(chain, value)
  BY SameAnswers DEF FirstAnswer

\* A worker that makes no step itself.
LEMMA Bystander ==
    ASSUME NEW w \in Workers, LookupInv(w),
           at'[w] = at[w], lookup'[w] = lookup[w], rest'[w] = rest[w], result'[w] = result[w],
           \/ held'[w] = held[w] /\ cache' = cache
           \/ held'[w] = held[w] \cap HoldsValue(cache'),
           \/ quiet'[w] = FALSE
           \/ quiet'[w] = quiet[w] /\ UNCHANGED <<conf, template>>
    PROVE  LookupInv(w)'
  <1>1. held'[w] \subseteq held[w] /\ held'[w] \subseteq HoldsValue(cache')
    BY DEF LookupInv
  <1>2. (quiet'[w] => quiet[w]) /\ (quiet'[w] => UNCHANGED <<conf, template>>)
    OBVIOUS
  <1> PICK chain : chain = Chain(lookup[w])
    OBVIOUS
  <1>3. chain = Chain(lookup[w]) /\ Chain(lookup'[w]) = chain
    OBVIOUS
  <1>4. at[w] \in Working => \E p \in 0 .. Len(chain) - 1 : Passed(w, p)'
    <2> SUFFICES ASSUME at[w] \in Working PROVE \E p \in 0 .. Len(chain) - 1 : Passed(w, p)'
      OBVIOUS
    <2> PICK p \in 0 .. Len(chain) - 1 : Passed(w, p)
      BY DEF LookupInv
    <2>1. quiet'[w] => \A i \in 1 .. p : ServerAnswer(chain[i])' = Nil
      BY <1>2, SameAnswers DEF Passed
    <2> QED BY <1>1, <2>1 DEF Passed
  <1>5. at[w] = "done" /\ quiet'[w] => FirstAnswer(chain, result[w].value)'
    BY <1>2, SameFirst DEF LookupInv
  <1>6. at[w] = "done" => \A i \in DOMAIN chain : chain[i] \in held'[w] =>
            \E j \in 1 .. i : result[w].from = chain[j]
    BY <1>1 DEF LookupInv
  <1>7. /\ at[w] # "done" => result[w] = Nowhere
        /\ at[w] # "idle" => lookup[w] \in Lookups
    BY DEF LookupInv
  <1> QED BY <1>1, <1>3, <1>4, <1>5, <1>6, <1>7 DEF LookupInv

\* The source that is asked next.
LEMMA Current ==
    ASSUME NEW w \in Workers, at[w] \in Working, LookupInv(w),
           NEW p \in 0 .. Len(Chain(lookup[w])) - 1, Passed(w, p)
    PROVE  /\ rest[w] # <<>> /\ Head(rest[w]) = Chain(lookup[w])[p + 1]
           /\ Head(rest[w]) \in Asked
  <1>1. lookup[w] \in Lookups
    BY DEF LookupInv, Working
  <1>2. Len(Chain(lookup[w])) \in Nat
    BY ChainShape
  <1>3. rest[w] \in Seq(Asked) /\ Len(rest[w]) > 0
    BY <1>2 DEF Passed
  <1>4. Head(rest[w]) = rest[w][1] /\ rest[w][1] \in Asked /\ rest[w] # <<>>
    BY <1>3
  <1> QED BY <1>3, <1>4 DEF Passed

\* Taking an answer keeps the worker's part, if a source without one is not
\* held and an undisturbed worker is given the server's answer.
LEMMA TakeKeeps ==
    ASSUME FunctionsOK, NEW w \in Workers, at[w] \in Working, LookupInv(w),
           NEW answer, Take(w, answer), UNCHANGED <<conf, template, lookup>>,
           held'[w] \subseteq held[w] \cap HoldsValue(cache'),
           answer = Nil => Head(rest[w]) \notin held'[w],
           quiet'[w] => quiet[w] /\ answer = ServerAnswer(Head(rest[w]))
    PROVE  LookupInv(w)'
  <1> PICK chain : chain = Chain(lookup[w])
    OBVIOUS
  <1> PICK p \in 0 .. Len(chain) - 1 : Passed(w, p)
    BY DEF LookupInv
  <1>0. /\ Len(chain) \in Nat /\ chain = Chain(lookup[w])
        /\ DOMAIN chain = 1 .. Len(chain) /\ Chain(lookup'[w]) = chain
    BY ChainShape
  <1>1. /\ rest[w] # <<>> /\ Head(rest[w]) = chain[p + 1]
        /\ rest[w] \in Seq(Asked) /\ Len(rest[w]) = Len(chain) - p
    BY Current DEF Passed
  <1>2. \A i \in 1 .. p : chain[i] \notin held'[w]
    BY DEF Passed
  <1>3. quiet'[w] => /\ answer = ServerAnswer(chain[p + 1])
                     /\ \A i \in 1 .. p : ServerAnswer(chain[i]) = Nil
    BY <1>1 DEF Passed
  <1>4. \A s : ServerAnswer(s)' = ServerAnswer(s)
    BY SameAnswers
  <1>5. lookup[w] \in Lookups /\ result[w] = Nowhere
    BY DEF LookupInv, Working
  <1>6. CASE answer # Nil
    <2>1. at'[w] = "done" /\ result'[w] = [value |-> answer, from |-> chain[p + 1]]
      BY <1>1, <1>6 DEF Take, FunctionsOK
    <2>2. \A i \in DOMAIN chain : chain[i] \in held'[w] =>
              \E j \in 1 .. i : result'[w].from = chain[j]
      <3> SUFFICES ASSUME NEW i \in DOMAIN chain, chain[i] \in held'[w]
                   PROVE  p + 1 \in 1 .. i
        BY <2>1
      <3> QED BY <1>0, <1>2
    <2>3. quiet'[w] => FirstAnswer(chain, answer)'
      BY <1>0, <1>3, <1>4, <1>6 DEF FirstAnswer
    <2> QED BY <1>0, <1>5, <2>1, <2>2, <2>3 DEF LookupInv, Working
  <1>7. CASE answer = Nil /\ Len(rest[w]) = 1
    <2>1. at'[w] = "done" /\ result'[w] = Nowhere
      BY <1>5, <1>7 DEF Take, FunctionsOK
    <2>0. \A i \in DOMAIN chain : i \in 1 .. p \/ i = p + 1
      <3>1. p \in Nat /\ Len(chain) - p = 1
        <4>1. Len(rest[w]) = Len(chain) - p /\ Len(rest[w]) = 1
          BY <1>1, <1>7
        <4>2. Len(chain) \in Nat
          BY <1>0
        <4>3. p \in 0 .. Len(chain) - 1
          OBVIOUS
        <4>4. p \in Nat
          BY <4>2, <4>3
        <4>5. Len(chain) - p = 1
          BY <4>1
        <4> QED BY <4>4, <4>5
      <3>2. Len(chain) = p + 1
        BY <1>0, <3>1
      <3> QED BY <1>0, <3>1, <3>2
    <2>2. \A i \in DOMAIN chain : chain[i] \notin held'[w]
      BY <1>1, <1>2, <1>7, <2>0
    <2>3. quiet'[w] => FirstAnswer(chain, Nil)'
      BY <1>3, <1>4, <1>7, <2>0 DEF FirstAnswer
    <2> QED BY <1>0, <1>5, <2>1, <2>2, <2>3 DEF LookupInv, Working, Nowhere
  <1>8. CASE answer = Nil /\ Len(rest[w]) # 1
    <2>1. at'[w] = "look" /\ result'[w] = Nowhere /\ rest'[w] = Tail(rest[w])
      BY <1>5, <1>8 DEF Take, FunctionsOK
    <2>2. p + 1 \in 0 .. Len(chain) - 1
      BY <1>0, <1>1, <1>8
    <2>3. /\ Tail(rest[w]) \in Seq(Asked) /\ Len(Tail(rest[w])) = Len(chain) - (p + 1)
          /\ \A j \in 1 .. Len(Tail(rest[w])) : Tail(rest[w])[j] = rest[w][j + 1]
      BY <1>0, <1>1, HeadTailProperties
    <2>4. \A j \in 1 .. Len(Tail(rest[w])) : Tail(rest[w])[j] = chain[p + 1 + j]
      <3> SUFFICES ASSUME NEW j \in 1 .. Len(Tail(rest[w]))
                   PROVE  Tail(rest[w])[j] = chain[p + 1 + j]
        OBVIOUS
      <3>1. j + 1 \in 1 .. Len(rest[w]) /\ p + (j + 1) = p + 1 + j
        BY <1>0, <1>1, <2>3
      <3>2. rest[w][j + 1] = chain[p + (j + 1)]
        BY <3>1 DEF Passed
      <3> QED BY <2>3, <3>1, <3>2
    <2>5. \A i \in 1 .. p + 1 : chain[i] \notin held'[w]
      BY <1>1, <1>2, <1>8
    <2>6. quiet'[w] => \A i \in 1 .. p + 1 : ServerAnswer(chain[i])' = Nil
      BY <1>3, <1>4, <1>8
    <2>7. Passed(w, p + 1)'
      BY <1>0, <2>1, <2>3, <2>4, <2>5, <2>6 DEF Passed
    <2> QED BY <1>0, <1>5, <2>1, <2>2, <2>7 DEF LookupInv, Working
  <1> QED BY <1>6, <1>7, <1>8

\* What the client holds stays what the server answers, unless tables change.
LEMMA CoherenceStays ==
    ASSUME UNCHANGED <<conf, template>>, Coherent,
           \A s \in Asked : cache'[s] \in {cache[s], NotHeld, ServerAnswer(s)},
           \A w \in Workers : at'[w] = "fetched" =>
               \/ at[w] = "fetched" /\ data'[w] = data[w] /\ rest'[w] = rest[w]
               \/ data'[w] = ServerAnswer(Head(rest'[w]))
    PROVE  Coherent'
  BY SameAnswers DEF Coherent

\* What taking an answer does to other workers, and that it leaves none waiting.
LEMMA TakeOthers ==
    ASSUME FunctionsOK, NEW w \in Workers, NEW answer, Take(w, answer)
    PROVE  /\ at'     = [v \in Workers |-> at'[v]]
           /\ rest'   = [v \in Workers |-> rest'[v]]
           /\ data'   = [v \in Workers |-> data'[v]]
           /\ result' = [v \in Workers |-> result'[v]]
           /\ \A v \in Workers \ {w} : /\ at'[v] = at[v] /\ rest'[v] = rest[v]
                                       /\ data'[v] = data[v] /\ result'[v] = result[v]
           /\ at'[w] # "fetched"
  BY DEF Take, FunctionsOK

\* The source of the current question.
LEMMA Asking ==
    ASSUME IInv, NEW w \in Workers, at[w] \in Working
    PROVE  Head(rest[w]) \in Asked
  <1>1. LookupInv(w)
    BY DEF IInv
  <1> PICK p \in 0 .. Len(Chain(lookup[w])) - 1 : Passed(w, p)
    BY <1>1 DEF LookupInv
  <1> QED BY <1>1, Current

LEMMA Starts ==
    ASSUME IInv, NEW w \in Workers, NEW l \in Lookups, GetValue(w, l)
    PROVE  IInv'
  <1>1. FunctionsOK /\ QuietOK /\ \A v \in Workers : LookupInv(v)
    BY DEF IInv
  <1>2. FunctionsOK'
    BY <1>1 DEF GetValue, FunctionsOK
  <1>3. /\ at'[w] = "look" /\ lookup'[w] = l /\ rest'[w] = Chain(l)
        /\ held'[w] = HoldsValue(cache) /\ quiet'[w] = Coherent
        /\ cache' = cache /\ result'[w] = Nowhere
    BY <1>1 DEF GetValue, FunctionsOK, LookupInv
  <1>4. QuietOK'
    <2>1. \A v \in Workers : quiet'[v] => Coherent
      BY <1>1, <1>3 DEF GetValue, FunctionsOK, QuietOK
    <2>2. Coherent => Coherent'
      <3> SUFFICES ASSUME Coherent PROVE Coherent'
        OBVIOUS
      <3>1. UNCHANGED <<conf, template, cache, data>>
        BY DEF GetValue, server
      <3>2. \A v \in Workers : at'[v] = "fetched" => at[v] = "fetched" /\ rest'[v] = rest[v]
        BY <1>1, <1>3 DEF GetValue, FunctionsOK
      <3> QED BY <3>1, <3>2, CoherenceStays
    <2> QED BY <2>1, <2>2 DEF QuietOK
  <1>5. LookupInv(w)'
    <2>1. Chain(l) \in Seq(Asked) /\ Len(Chain(l)) \in Nat /\ Len(Chain(l)) > 0
      BY ChainInAsked, ChainShape
    <2>2. Passed(w, 0)'
      BY <1>3, <2>1 DEF Passed
    <2>3. 0 \in 0 .. Len(Chain(l)) - 1
      BY <2>1
    <2> QED BY <1>3, <2>2, <2>3 DEF LookupInv, Working
  <1>6. ASSUME NEW v \in Workers \ {w}
        PROVE  LookupInv(v)'
    <2>1. /\ at'[v] = at[v] /\ lookup'[v] = lookup[v] /\ rest'[v] = rest[v]
          /\ result'[v] = result[v] /\ held'[v] = held[v] /\ cache' = cache
          /\ quiet'[v] = quiet[v] /\ UNCHANGED <<conf, template>>
      BY <1>1 DEF GetValue, FunctionsOK, server
    <2> QED BY <1>1, <2>1, Bystander
  <1> QED BY <1>2, <1>4, <1>5, <1>6 DEF IInv

LEMMA Takes ==
    ASSUME IInv, NEW w \in Workers, FromCache(w) \/ Fails(w)
    PROVE  IInv'
  <1>1. FunctionsOK /\ QuietOK /\ \A v \in Workers : LookupInv(v)
    BY DEF IInv
  <1>2. /\ at[w] \in Working /\ UNCHANGED <<conf, template, cache, lookup, held>>
        /\ quiet' = [v \in Workers |-> quiet'[v]] /\ \A v \in Workers \ {w} : quiet'[v] = quiet[v]
    BY <1>1 DEF FromCache, Fails, Working, server, FunctionsOK
  <1> PICK source : source = Head(rest[w])
    OBVIOUS
  <1>3. source \in Asked
    BY <1>2, Asking
  <1>4. \E answer : /\ Take(w, answer)
                    /\ answer = Nil => source \notin held[w]
                    /\ quiet'[w] => quiet[w] /\ answer = ServerAnswer(source)
    <2>1. cache[source] \in {NotHeld, Nil} => source \notin held[w]
      BY <1>1 DEF LookupInv, HoldsValue
    <2>2. CASE FromCache(w)
      <3>1. Take(w, cache[source]) /\ cache[source] # NotHeld /\ quiet' = quiet
        BY <2>2 DEF FromCache
      <3>2. quiet[w] => cache[source] = ServerAnswer(source)
        BY <1>1, <1>3, <3>1 DEF QuietOK, Coherent
      <3> QED BY <2>1, <3>1, <3>2
    <2>3. CASE Fails(w)
      <3>1. Take(w, IF cache[source] = NotHeld THEN Nil ELSE cache[source]) /\ quiet'[w] = FALSE
        BY <1>1, <2>3 DEF Fails, FunctionsOK
      <3> QED BY <2>1, <3>1
    <2> QED BY <2>2, <2>3
  <1> PICK answer : /\ Take(w, answer)
                    /\ answer = Nil => source \notin held[w]
                    /\ quiet'[w] => quiet[w] /\ answer = ServerAnswer(source)
    BY <1>4
  <1>5. FunctionsOK'
    BY <1>1, <1>2, TakeOthers DEF FunctionsOK
  <1>6. held[w] \subseteq HoldsValue(cache)
    BY <1>1 DEF LookupInv
  <1>7. LookupInv(w)'
    BY <1>1, <1>2, <1>6, TakeKeeps
  <1>8. QuietOK'
    <2>1. \A v \in Workers : quiet'[v] => quiet[v]
      BY <1>2
    <2>2. Coherent => Coherent'
      BY <1>1, <1>2, TakeOthers, CoherenceStays
    <2> QED BY <1>1, <2>1, <2>2 DEF QuietOK
  <1>9. \A v \in Workers \ {w} : LookupInv(v)'
    BY <1>1, <1>2, TakeOthers, Bystander
  <1> QED BY <1>5, <1>7, <1>8, <1>9 DEF IInv

LEMMA CutFetches ==
    ASSUME IInv, NEW w \in Workers, FetchCut(w)
    PROVE  IInv'
  <1>1. FunctionsOK /\ QuietOK /\ \A v \in Workers : LookupInv(v)
    BY DEF IInv
  <1>2. /\ at[w] = "look" /\ at'[w] = "fetched"
        /\ \A v \in Workers \ {w} : at'[v] = at[v] /\ data'[v] = data[v]
        /\ \A v \in Workers : quiet'[v] = FALSE
        /\ UNCHANGED <<conf, template, cache, lookup, rest, result, held>>
    BY <1>1 DEF FetchCut, server, FunctionsOK
  <1>3. FunctionsOK'
    BY <1>1, <1>2 DEF FetchCut, FunctionsOK
  <1>4. QuietOK'
    BY <1>2 DEF QuietOK
  <1>5. LookupInv(w)'
    <2>1. \A p : Passed(w, p) => Passed(w, p)'
      BY <1>2 DEF Passed
    <2> QED BY <1>1, <1>2, <2>1 DEF LookupInv, Working
  <1>6. \A v \in Workers \ {w} : LookupInv(v)'
    BY <1>1, <1>2, Bystander
  <1> QED BY <1>3, <1>4, <1>5, <1>6 DEF IInv

LEMMA Fetches ==
    ASSUME IInv, NEW w \in Workers, Fetch(w)
    PROVE  IInv'
  <1>1. FunctionsOK /\ QuietOK /\ \A v \in Workers : LookupInv(v)
    BY DEF IInv
  <1>2. /\ at[w] = "look" /\ at'[w] = "fetched" /\ data'[w] = ServerAnswer(Head(rest[w]))
        /\ \A v \in Workers \ {w} : at'[v] = at[v] /\ data'[v] = data[v]
        /\ UNCHANGED <<conf, template, cache, lookup, rest, result, held, quiet>>
    BY <1>1 DEF Fetch, server, FunctionsOK
  <1>3. FunctionsOK'
    BY <1>1, <1>2 DEF Fetch, FunctionsOK
  <1>4. QuietOK'
    <2>1. Coherent => Coherent'
      BY <1>2, CoherenceStays
    <2> QED BY <1>1, <1>2, <2>1 DEF QuietOK
  <1>5. LookupInv(w)'
    <2>1. \A p : Passed(w, p) => Passed(w, p)'
      BY <1>2, SameAnswers DEF Passed
    <2> QED BY <1>1, <1>2, <2>1 DEF LookupInv, Working
  <1>6. \A v \in Workers \ {w} : LookupInv(v)'
    BY <1>1, <1>2, Bystander
  <1> QED BY <1>3, <1>4, <1>5, <1>6 DEF IInv

LEMMA Stores ==
    ASSUME IInv, NEW w \in Workers, Store(w)
    PROVE  IInv'
  <1>1. FunctionsOK /\ QuietOK /\ \A v \in Workers : LookupInv(v)
    BY DEF IInv
  <1> PICK source : source = Head(rest[w])
    OBVIOUS
  <1>2. /\ at[w] \in Working /\ at[w] = "fetched" /\ Take(w, data[w])
        /\ cache' = [cache EXCEPT ![source] = data[w]]
        /\ held' = [v \in Workers |-> held[v] \cap HoldsValue(cache')]
        /\ UNCHANGED <<conf, template, lookup, quiet>>
    BY DEF Store, SetCache, Working, server
  <1>3. source \in Asked
    BY <1>2, Asking
  <1>4. cache'[source] = data[w] /\ \A s \in Asked \ {source} : cache'[s] = cache[s]
    BY <1>1, <1>2, <1>3 DEF FunctionsOK
  <1>5. FunctionsOK'
    BY <1>1, <1>2, <1>3, TakeOthers DEF FunctionsOK
  <1>6. LookupInv(w)'
    <2>1. data[w] = Nil => source \notin held'[w]
      BY <1>2, <1>4 DEF HoldsValue
    <2>2. quiet'[w] => quiet[w] /\ data[w] = ServerAnswer(source)
      BY <1>1, <1>2 DEF QuietOK, Coherent
    <2> QED BY <1>1, <1>2, <2>1, <2>2, TakeKeeps
  <1>7. QuietOK'
    <2>1. Coherent => Coherent'
      <3> SUFFICES ASSUME Coherent PROVE Coherent'
        OBVIOUS
      <3>1. data[w] = ServerAnswer(source)
        BY <1>2 DEF Coherent
      <3> QED BY <1>1, <1>2, <1>4, <3>1, TakeOthers, CoherenceStays
    <2> QED BY <1>1, <1>2, <2>1 DEF QuietOK
  <1>8. \A v \in Workers \ {w} : LookupInv(v)'
    BY <1>1, <1>2, TakeOthers, Bystander
  <1> QED BY <1>5, <1>6, <1>7, <1>8 DEF IInv

LEMMA Returns ==
    ASSUME IInv, NEW w \in Workers, Return(w)
    PROVE  IInv'
  <1>1. FunctionsOK /\ QuietOK /\ \A v \in Workers : LookupInv(v)
    BY DEF IInv
  <1>2. /\ at'[w] = "idle" /\ result'[w] = Nowhere /\ held'[w] = {} /\ quiet'[w] = FALSE
        /\ UNCHANGED <<conf, template, cache, rest, data>>
        /\ \A v \in Workers \ {w} : /\ at'[v] = at[v] /\ lookup'[v] = lookup[v]
                                    /\ result'[v] = result[v] /\ held'[v] = held[v]
                                    /\ quiet'[v] = quiet[v]
    BY <1>1 DEF Return, server, FunctionsOK
  <1>3. FunctionsOK'
    BY <1>1 DEF Return, FunctionsOK
  <1>4. QuietOK'
    <2>1. Coherent => Coherent'
      BY <1>2, CoherenceStays
    <2> QED BY <1>1, <1>2, <2>1 DEF QuietOK
  <1>5. LookupInv(w)'
    BY <1>2 DEF LookupInv, Working
  <1>6. \A v \in Workers \ {w} : LookupInv(v)'
    BY <1>1, <1>2, Bystander
  <1> QED BY <1>3, <1>4, <1>5, <1>6 DEF IInv

\* Invalidations, and changes of the server's tables.
LEMMA OthersAct ==
    ASSUME IInv, Forget \/ Changed
    PROVE  IInv'
  <1>1. FunctionsOK /\ QuietOK /\ \A v \in Workers : LookupInv(v)
    BY DEF IInv
  <1>2. CASE Forget
    <2>1. /\ cache' = [s \in Asked |-> cache'[s]]
          /\ \A s \in Asked : cache'[s] \in {cache[s], NotHeld}
          /\ held' = [v \in Workers |-> held[v] \cap HoldsValue(cache')]
          /\ UNCHANGED <<conf, template, at, lookup, rest, data, result, quiet>>
      BY <1>2 DEF Forget, SetCache, server
    <2>2. FunctionsOK'
      BY <1>1, <2>1 DEF FunctionsOK
    <2>3. Coherent => Coherent'
      BY <2>1, CoherenceStays
    <2>4. QuietOK'
      BY <1>1, <2>1, <2>3 DEF QuietOK
    <2>5. \A v \in Workers : LookupInv(v)'
      BY <1>1, <2>1, Bystander
    <2> QED BY <2>2, <2>4, <2>5 DEF IInv
  <1>3. CASE Changed
    <2>1. /\ quiet' = [v \in Workers |-> FALSE]
          /\ UNCHANGED <<cache, at, lookup, rest, data, result, held>>
      BY <1>3 DEF Changed
    <2>2. FunctionsOK' /\ QuietOK'
      BY <1>1, <2>1 DEF FunctionsOK, QuietOK
    <2>3. \A v \in Workers : LookupInv(v)'
      BY <1>1, <2>1, Bystander
    <2> QED BY <2>2, <2>3 DEF IInv
  <1> QED BY <1>2, <1>3

LEMMA Stutters ==
    ASSUME IInv, UNCHANGED vars
    PROVE  IInv'
  <1>1. FunctionsOK' /\ QuietOK'
    BY SameAnswers DEF vars, server, IInv, FunctionsOK, QuietOK, Coherent
  <1>2. \A v \in Workers : LookupInv(v)'
    BY Bystander DEF vars, server, IInv
  <1> QED BY <1>1, <1>2 DEF IInv

LEMMA InvStep == IInv /\ [Next]_vars => IInv'
  BY Starts, Takes, Fetches, CutFetches, Stores, Returns, OthersAct, Stutters
     DEF Next, Worker, Publish, ApplyConfigTemplate

\* The inductive invariant: what was passed over is not held, and, undisturbed,
\* the server has no value of it either.
THEOREM Invariance == Spec => []IInv
  BY InvInit, InvStep, PTL DEF Spec

\* No failure makes a lookup pass a scope of which the client holds a value
\* all the while, whatever its age (client.go:202-212 under value.go:46-68).
THEOREM HeldWins == Spec => []HeldValueWins
  <1>1. IInv => HeldValueWins
    BY DEF IInv, LookupInv, HeldValueWins
  <1> QED BY <1>1, Invariance, PTL

-----------------------------------------------------------------------------
(* What the tables say *)

Up(l)    == IF l.inherit THEN Parents(l.id) ELSE <<>>
Extra(l) == IF l.useDefault THEN <<TemplateSource>> ELSE <<>>

\* The sources one by one: the scope, u parents, and the template.
LEMMA ChainIndex ==
    ASSUME NEW l, NEW u \in Nat, u = Len(Up(l)), l.useDefault \in BOOLEAN
    PROVE  \E n \in Nat :
             /\ DOMAIN Chain(l) = 1 .. n /\ n = IF l.useDefault THEN u + 2 ELSE u + 1
             /\ Chain(l)[1] = l.id
             /\ \A i \in 1 .. u : Chain(l)[i + 1] = Up(l)[i]
             /\ l.useDefault => Chain(l)[u + 2] = TemplateSource
  <1>1. <<l.id>> \in Seq(Sources(l)) /\ Len(<<l.id>>) = 1 /\ <<l.id>>[1] = l.id
    BY DEF Sources
  <1>2. Up(l) \in Seq(Sources(l))
    <2>1. /\ <<>> \in Seq(Sources(l)) /\ <<System>> \in Seq(Sources(l))
          /\ <<Src("PROJECT", TRUE), System>> \in Seq(Sources(l))
      BY DEF Sources
    <2> QED BY <2>1 DEF Up, Parents
  <1>3. /\ Extra(l) \in Seq(Sources(l))
        /\ l.useDefault => Len(Extra(l)) = 1 /\ Extra(l)[1] = TemplateSource
        /\ ~ l.useDefault => Len(Extra(l)) = 0
    <2>1. <<>> \in Seq(Sources(l)) /\ <<TemplateSource>> \in Seq(Sources(l))
      BY DEF Sources
    <2> QED BY <2>1 DEF Extra
  <1> PICK up : up = Up(l)
    OBVIOUS
  <1> PICK extra : extra = Extra(l)
    OBVIOUS
  <1> PICK scopes : scopes = <<l.id>> \o up
    OBVIOUS
  <1>4. /\ scopes \in Seq(Sources(l)) /\ Len(scopes) = 1 + u
        /\ \A i \in 1 .. 1 + u : scopes[i] = IF i <= 1 THEN <<l.id>>[i] ELSE up[i - 1]
    BY <1>1, <1>2, ConcatProperties
  <1>5. scopes[1] = l.id /\ \A i \in 1 .. u : scopes[i + 1] = up[i]
    BY <1>1, <1>4
  <1> PICK all : all = scopes \o extra
    OBVIOUS
  <1>6. all = Chain(l)
    BY DEF Chain, Up, Extra
  <1> PICK e \in Nat : e = Len(extra)
    BY <1>3
  <1>7. /\ all \in Seq(Sources(l)) /\ Len(all) = 1 + u + e
        /\ \A i \in 1 .. 1 + u + e : all[i] = IF i <= 1 + u THEN scopes[i] ELSE extra[i - (1 + u)]
    BY <1>3, <1>4, ConcatProperties
  <1> PICK n \in Nat : n = 1 + u + e
    OBVIOUS
  <1>8. DOMAIN all = 1 .. n /\ n = IF l.useDefault THEN u + 2 ELSE u + 1
    <2>1. DOMAIN all = 1 .. n
      BY <1>7
    <2>2. CASE l.useDefault
      <3>1. e = 1
        BY <1>3, <2>2
      <3> QED BY <2>1, <2>2, <3>1
    <2>3. CASE ~ l.useDefault
      <3>1. e = 0
        BY <1>3, <2>3
      <3> QED BY <2>1, <2>3, <3>1
    <2> QED BY <2>2, <2>3
  <1>9. all[1] = l.id /\ \A i \in 1 .. u : all[i + 1] = up[i]
    BY <1>5, <1>7
  <1>10. l.useDefault => all[u + 2] = TemplateSource
    <2> SUFFICES ASSUME l.useDefault PROVE all[u + 2] = TemplateSource
      OBVIOUS
    <2>1. e = 1 /\ extra[1] = TemplateSource
      BY <1>3
    <2>2. u + 2 \in 1 .. 1 + u + e /\ (u + 2) - (1 + u) = 1 /\ ~ (u + 2 <= 1 + u)
      BY <2>1
    <2> QED BY <1>7, <2>1, <2>2
  <1> QED BY <1>6, <1>8, <1>9, <1>10

\* The value that was found is that of the first source that has one.
LEMMA FirstIs ==
    ASSUME NEW chain, NEW value, FirstAnswer(chain, value), NEW n \in Nat, DOMAIN chain = 1 .. n
    PROVE  /\ \A j \in 1 .. n :
                /\ ServerAnswer(chain[j]) # Nil
                /\ \A i \in 1 .. j - 1 : ServerAnswer(chain[i]) = Nil
                => value = ServerAnswer(chain[j])
           /\ (\A i \in 1 .. n : ServerAnswer(chain[i]) = Nil) => value = Nil
  <1> SUFFICES ASSUME NEW k \in 1 .. n, value = ServerAnswer(chain[k]), value # Nil,
                      \A i \in 1 .. k - 1 : ServerAnswer(chain[i]) = Nil,
                      NEW j \in 1 .. n, ServerAnswer(chain[j]) # Nil,
                      \A i \in 1 .. j - 1 : ServerAnswer(chain[i]) = Nil
               PROVE  value = ServerAnswer(chain[j])
    BY DEF FirstAnswer
  <1>1. ~ (j < k) /\ ~ (k < j)
    OBVIOUS
  <1> QED BY <1>1

\* The value of scope s as the server gives it out, set there or filled in.
ValueAt(s) == IF conf[s] = Unset THEN Defaults(s) ELSE conf[s]

\* What the walk over the scopes comes to, in one read of the tables.
Given(l) ==
    LET having  == {s \in Looked(l) : ValueAt(s) # Nil}
        nearest == CHOOSE s \in having : \A t \in having : s = t \/ Nearer(l, s, t)
    IN  CASE having # {} -> ValueAt(nearest)
          [] having = {} /\ l.useDefault -> template.default
          [] OTHER -> Nil

LEMMA AnswerOf ==
    ASSUME NEW s \in ScopeNames, NEW b
    PROVE  ServerAnswer(Src(s, b)) = ValueAt(s)
  BY DEF ServerAnswer, ValueAt, Src, TemplateSource, ScopeNames

LEMMA NearestOf ==
    ASSUME NEW l, l.id.scope \in ScopeNames, NEW s \in Looked(l), ValueAt(s) # Nil,
           \A t \in Looked(l) : ValueAt(t) # Nil =>
               s = t \/ s = l.id.scope \/ (s # "SYSTEM" /\ t = "SYSTEM")
    PROVE  Given(l) = ValueAt(s)
  <1> DEFINE having == {t \in Looked(l) : ValueAt(t) # Nil}
             Good(u) == \A t \in having : u = t \/ (u = l.id.scope \/ t = "SYSTEM")
  <1>1. \A t \in Looked(l) : t # l.id.scope => l.id.scope # "SYSTEM"
    BY DEF Looked, Wider
  <1>2. s \in having /\ Good(s)
    OBVIOUS
  <1>3. \A u \in having : Good(u) => u = s
    BY <1>1, <1>2
  <1>4. (CHOOSE u \in having : Good(u)) = s
    <2> HIDE DEF having, Good
    <2> QED BY <1>2, <1>3
  <1>5. Given(l) = ValueAt(CHOOSE u \in having : Good(u))
    BY <1>2 DEF Given, Nearer
  <1> QED BY <1>4, <1>5

LEMMA NoneOf ==
    ASSUME NEW l, \A t \in Looked(l) : ValueAt(t) = Nil
    PROVE  Given(l) = IF l.useDefault THEN template.default ELSE Nil
  BY DEF Given

\* A lookup that was not disturbed comes to that.
LEMMA FirstGiven ==
    ASSUME NEW l \in Lookup, NEW value, FirstAnswer(Chain(l), value)
    PROVE  value = Given(l)
  <1> PICK chain : chain = Chain(l)
    OBVIOUS
  <1> PICK up : up = Up(l)
    OBVIOUS
  <1>3. /\ l.id.scope \in ScopeNames /\ l.id = Src(l.id.scope, l.id.project)
        /\ l.id.project \in BOOLEAN /\ l.inherit \in BOOLEAN /\ l.useDefault \in BOOLEAN
    BY ScopesAssumption DEF Lookup, Source, Src
  <1> PICK u \in Nat : u = Len(up)
    BY DEF Up, Parents
  <1> PICK n \in Nat :
        /\ DOMAIN chain = 1 .. n /\ n = IF l.useDefault THEN u + 2 ELSE u + 1
        /\ chain[1] = l.id
        /\ \A i \in 1 .. u : chain[i + 1] = up[i]
        /\ l.useDefault => chain[u + 2] = TemplateSource
    BY <1>3, ChainIndex
  <1>1. n >= u + 1
    BY <1>3
  <1>2. /\ \A j \in 1 .. n :
                /\ ServerAnswer(chain[j]) # Nil
                /\ \A i \in 1 .. j - 1 : ServerAnswer(chain[i]) = Nil
                => value = ServerAnswer(chain[j])
        /\ (\A i \in 1 .. n : ServerAnswer(chain[i]) = Nil) => value = Nil
    <2>1. FirstAnswer(chain, value) /\ DOMAIN chain = 1 .. n
      OBVIOUS
    <2> QED BY <2>1, FirstIs
  <1>4. ServerAnswer(chain[1]) = ValueAt(l.id.scope)
    BY <1>1, <1>3, AnswerOf
  <1>5. CASE ValueAt(l.id.scope) # Nil
    <2>1. value = ValueAt(l.id.scope)
      BY <1>1, <1>2, <1>4, <1>5
    <2>2. Given(l) = ValueAt(l.id.scope)
      BY <1>3, <1>5, NearestOf DEF Looked
    <2> QED BY <2>1, <2>2
  <1>6. ASSUME ValueAt(l.id.scope) = Nil, \A t \in Looked(l) : ValueAt(t) = Nil,
               \A i \in 1 .. u : ServerAnswer(up[i]) = Nil
        PROVE  value = Given(l)
    <2>1. \A i \in 1 .. u + 1 : ServerAnswer(chain[i]) = Nil
      <3> SUFFICES ASSUME NEW i \in 1 .. u + 1, i # 1 PROVE ServerAnswer(chain[i]) = Nil
        BY <1>4, <1>6
      <3>1. i - 1 \in 1 .. u /\ (i - 1) + 1 = i
        OBVIOUS
      <3>2. chain[(i - 1) + 1] = up[i - 1]
        BY <3>1
      <3> QED BY <1>6, <3>1, <3>2
    <2>2. CASE l.useDefault
      <3>1. ServerAnswer(chain[u + 2]) = template.default /\ n = u + 2
        BY <2>2 DEF ServerAnswer
      <3>2. Given(l) = template.default
        BY <1>6, <2>2, NoneOf
      <3>3. CASE template.default # Nil
        <4>1. u + 2 \in 1 .. n /\ (u + 2) - 1 = u + 1
          BY <3>1
        <4> QED BY <1>2, <2>1, <3>1, <3>2, <3>3, <4>1
      <3>4. CASE template.default = Nil
        <4>1. \A i \in 1 .. n : i \in 1 .. u + 1 \/ i = u + 2
          BY <3>1
        <4> QED BY <1>2, <2>1, <3>1, <3>2, <3>4, <4>1
      <3> QED BY <3>3, <3>4
    <2>3. CASE ~ l.useDefault
      <3>1. Given(l) = Nil /\ n = u + 1
        BY <1>6, <2>3, NoneOf
      <3> QED BY <1>2, <2>1, <3>1
    <2> QED BY <2>2, <2>3
  <1>7. CASE ValueAt(l.id.scope) = Nil /\ (~ l.inherit \/ l.id.scope = "SYSTEM")
    <2>1. up = <<>> /\ Looked(l) = {l.id.scope}
      BY <1>3, <1>7 DEF Up, Parents, Looked, Wider
    <2> QED BY <1>6, <1>7, <2>1
  <1>8. CASE /\ ValueAt(l.id.scope) = Nil /\ l.inherit /\ l.id.scope # "SYSTEM"
             /\ ~ (l.id.scope = "STORE" /\ l.id.project)
    <2>1. /\ up = <<System>> /\ Len(up) = 1 /\ up[1] = System
          /\ Looked(l) = {l.id.scope, "SYSTEM"}
      BY <1>3, <1>8 DEF Up, Parents, Looked, Wider, ScopeNames
    <2>2. ServerAnswer(System) = ValueAt("SYSTEM")
      BY AnswerOf DEF System, ScopeNames
    <2>3. CASE ValueAt("SYSTEM") # Nil
      <3>1. Given(l) = ValueAt("SYSTEM")
        BY <1>3, <1>8, <2>1, <2>3, NearestOf
      <3>2. chain[2] = System /\ 2 \in 1 .. n
        <4>1. u = 1
          BY <2>1
        <4> QED BY <1>1, <2>1, <4>1
      <3>3. \A i \in 1 .. 2 - 1 : i = 1
        OBVIOUS
      <3> QED BY <1>2, <1>4, <1>8, <2>2, <2>3, <3>1, <3>2, <3>3
    <2>4. CASE ValueAt("SYSTEM") = Nil
      BY <1>6, <1>8, <2>1, <2>2, <2>4
    <2> QED BY <2>3, <2>4
  <1>9. CASE /\ ValueAt(l.id.scope) = Nil /\ l.inherit
             /\ l.id.scope = "STORE" /\ l.id.project
    <2>1. /\ up = <<Src("PROJECT", TRUE), System>> /\ Len(up) = 2
          /\ up[1] = Src("PROJECT", TRUE) /\ up[2] = System
          /\ Looked(l) = {"STORE", "PROJECT", "SYSTEM"}
      BY <1>3, <1>9 DEF Up, Parents, Looked, Wider, ScopeNames
    <2>2. /\ ServerAnswer(System) = ValueAt("SYSTEM")
          /\ ServerAnswer(Src("PROJECT", TRUE)) = ValueAt("PROJECT")
      BY AnswerOf DEF System, ScopeNames
    <2>3. /\ chain[2] = Src("PROJECT", TRUE) /\ 2 \in 1 .. n
          /\ chain[3] = System /\ 3 \in 1 .. n
      <3>1. u = 2
        BY <2>1
      <3>2. chain[1 + 1] = up[1] /\ chain[2 + 1] = up[2]
        BY <3>1
      <3>3. 2 \in 1 .. n /\ 3 \in 1 .. n
        BY <1>1, <3>1
      <3>4. chain[2] = up[1] /\ chain[3] = up[2]
        BY <3>2
      <3> QED BY <2>1, <3>3, <3>4
    <2>4. CASE ValueAt("PROJECT") # Nil
      <3>1. Given(l) = ValueAt("PROJECT")
        BY <1>3, <1>9, <2>1, <2>4, NearestOf
      <3>2. \A i \in 1 .. 2 - 1 : i = 1
        OBVIOUS
      <3> QED BY <1>2, <1>4, <1>9, <2>2, <2>3, <2>4, <3>1, <3>2
    <2>5. CASE ValueAt("PROJECT") = Nil /\ ValueAt("SYSTEM") # Nil
      <3>1. Given(l) = ValueAt("SYSTEM")
        BY <1>3, <1>9, <2>1, <2>5, NearestOf
      <3>2. \A i \in 1 .. 3 - 1 : ServerAnswer(chain[i]) = Nil
        <4>1. \A i \in 1 .. 3 - 1 : i = 1 \/ i = 2
          OBVIOUS
        <4> QED BY <1>4, <1>9, <2>2, <2>3, <2>5, <4>1
      <3>3. value = ServerAnswer(chain[3])
        BY <1>2, <2>2, <2>3, <2>5, <3>2
      <3> QED BY <2>2, <2>3, <3>1, <3>3
    <2>6. CASE ValueAt("PROJECT") = Nil /\ ValueAt("SYSTEM") = Nil
      <3>1. \A i \in 1 .. u : i = 1 \/ i = 2
        BY <2>1
      <3> QED BY <1>6, <1>9, <2>1, <2>2, <2>6, <3>1
    <2> QED BY <2>4, <2>5, <2>6
  <1> QED BY <1>3, <1>5, <1>7, <1>8, <1>9

\* Of any scopes that l looks into, one is the nearest, and no other is.
LEMMA OneNearest ==
    ASSUME NEW l, l.id.scope \in ScopeNames, NEW set \in SUBSET Looked(l), set # {}
    PROVE  \E s \in set :
              /\ \A t \in set : s = t \/ Nearer(l, s, t)
              /\ \A u \in set : (\A t \in set : u = t \/ Nearer(l, u, t)) => u = s
  <1>1. Looked(l) \subseteq {l.id.scope, "PROJECT", "SYSTEM"}
    BY DEF Looked, Wider
  <1>2. l.id.scope = "SYSTEM" => Looked(l) = {"SYSTEM"}
    BY DEF Looked, Wider
  <1>3. CASE l.id.scope \in set
    BY <1>1, <1>2, <1>3 DEF Nearer
  <1>4. CASE l.id.scope \notin set /\ "PROJECT" \in set
    BY <1>1, <1>4 DEF Nearer
  <1>5. CASE l.id.scope \notin set /\ "PROJECT" \notin set
    <2>1. set = {"SYSTEM"}
      BY <1>1, <1>5
    <2> QED BY <2>1
  <1> QED BY <1>3, <1>4, <1>5

\* What the walk comes to is what is promised, unless the server fills in.
LEMMA GivenIsPromised ==
    ASSUME NEW l, l.id.scope \in ScopeNames
    PROVE  Given(l) = Promised(l) \/ (FilledIn(l) /\ Given(l) = template.default)
  <1> PICK having : having = {s \in Looked(l) : ValueAt(s) # Nil}
    OBVIOUS
  <1> PICK set : set = {s \in Looked(l) : IsSet(s)}
    OBVIOUS
  <1>1. set \subseteq having
    BY DEF ValueAt, IsSet
  <1>2. CASE having = {}
    <2>1. set = {}
      BY <1>1, <1>2
    <2>2. Promised(l) = IF l.useDefault THEN template.default ELSE Nil
      BY <2>1 DEF Promised
    <2>3. Given(l) = IF l.useDefault THEN template.default ELSE Nil
      BY <1>2 DEF Given
    <2> QED BY <2>2, <2>3
  <1>3. CASE having # {}
    <2>1. PICK s \in having :
              /\ \A t \in having : s = t \/ Nearer(l, s, t)
              /\ \A u \in having : (\A t \in having : u = t \/ Nearer(l, u, t)) => u = s
      BY <1>3, OneNearest
    <2>2. (CHOOSE u \in having : \A t \in having : u = t \/ Nearer(l, u, t)) = s
      BY <2>1
    <2>3. Given(l) = ValueAt(s)
      BY <1>3, <2>2 DEF Given
    <2>4. CASE conf[s] = Unset
      <3>1. s \in Looked(l) /\ Defaults(s) # Nil /\ Given(l) = Defaults(s)
        BY <2>3, <2>4 DEF ValueAt
      <3>2. Given(l) = template.default
        BY <3>1 DEF Defaults
      <3>3. \A t \in Looked(l) : IsSet(t) => Nearer(l, s, t)
        BY <1>1, <2>1, <2>4 DEF IsSet
      <3> QED BY <2>4, <3>1, <3>2, <3>3 DEF FilledIn
    <2>5. CASE conf[s] # Unset
      <3>1. s \in set
        BY <2>5 DEF ValueAt, IsSet
      <3>2. \A t \in set : s = t \/ Nearer(l, s, t)
        BY <1>1, <2>1
      <3>3. PICK r \in set :
                \A u \in set : (\A t \in set : u = t \/ Nearer(l, u, t)) => u = r
        BY <3>1, OneNearest
      <3>4. (CHOOSE u \in set : \A t \in set : u = t \/ Nearer(l, u, t)) = s
        BY <3>1, <3>2, <3>3
      <3>5. Promised(l) = conf[s]
        BY <3>1, <3>4 DEF Promised
      <3> QED BY <2>3, <2>5, <3>5 DEF ValueAt
    <2> QED BY <2>4, <2>5
  <1> QED BY <1>2, <1>3

\* A lookup beside which nothing fails or changes finds the value that is set
\* at the nearest scope, else the default that was asked for, unless the
\* server has filled one in: the walk over the parents and the caches of all
\* goroutines amount to one read of the tables (GetValue, value.go:40-71).
THEOREM QuietFinds == Spec => []QuietLookup
  <1>1. IInv => QuietLookup
    <2> SUFFICES ASSUME IInv, NEW w \in Workers, at[w] = "done", quiet[w]
                 PROVE  \/ result[w].value = Promised(lookup[w])
                        \/ FilledIn(lookup[w]) /\ result[w].value = template.default
      BY DEF QuietLookup
    <2>1. lookup[w] \in Lookup /\ FirstAnswer(Chain(lookup[w]), result[w].value)
      BY LookupsAssumption DEF IInv, LookupInv
    <2>2. result[w].value = Given(lookup[w])
      BY <2>1, FirstGiven
    <2>3. lookup[w].id.scope \in ScopeNames
      BY <2>1, ScopesAssumption DEF Lookup, Source
    <2> QED BY <2>2, <2>3, GivenIsPromised
  <1> QED BY <1>1, Invariance, PTL
=============================================================================
