-------------------------- MODULE ExecutionProofs --------------------------
(***************************************************************************)
(* What holds of every operation, whatever the document selects and        *)
(* through whatever fragments, and whatever the credential: types, the     *)
(* scope check's grip on what is executed, the order of a mutation's       *)
(* fields, the directive, and the errors.                                  *)
(***************************************************************************)
EXTENDS Execution, TLAPS, SequenceTheorems

-----------------------------------------------------------------------------
(* Sequences. *)

\* What is behind the first element of a sequence was in the sequence, and what
\* was in it is the first element or behind it.
LEMMA TailElements ==
  ASSUME NEW S, NEW t \in Seq(S), t # <<>>
  PROVE  /\ \A j \in DOMAIN Tail(t) : \E k \in DOMAIN t : Tail(t)[j] = t[k]
         /\ \A k \in DOMAIN t : t[k] = Head(t) \/ \E j \in DOMAIN Tail(t) : Tail(t)[j] = t[k]
<1>1. /\ Len(t) \in Nat \ {0}
      /\ DOMAIN t = 1..Len(t)
      /\ DOMAIN Tail(t) = 1..(Len(t) - 1)
      /\ \A j \in DOMAIN Tail(t) : Tail(t)[j] = t[j + 1]
  BY HeadTailProperties, LenProperties, EmptySeq
<1>2. ASSUME NEW j \in DOMAIN Tail(t) PROVE \E k \in DOMAIN t : Tail(t)[j] = t[k]
  <2>1. j + 1 \in DOMAIN t
    BY <1>1
  <2>2. QED
    BY <1>1, <2>1
<1>3. ASSUME NEW k \in DOMAIN t, k # 1
      PROVE  \E j \in DOMAIN Tail(t) : Tail(t)[j] = t[k]
  <2>1. k - 1 \in DOMAIN Tail(t) /\ (k - 1) + 1 = k
    BY <1>1, <1>3
  <2>2. QED
    BY <1>1, <2>1
<1>4. t[1] = Head(t)
  BY <1>1
<1>5. QED
  BY <1>2, <1>3, <1>4

Holds(s, x) == \E j \in DOMAIN s : s[j] = x

\* A concatenation holds what its parts hold.
LEMMA ConcatElements ==
  ASSUME NEW S, NEW s \in Seq(S), NEW t \in Seq(S)
  PROVE  \A x : Holds(s \o t, x) <=> Holds(s, x) \/ Holds(t, x)
<1>1. /\ Len(s) \in Nat /\ DOMAIN s = 1..Len(s)
      /\ Len(t) \in Nat /\ DOMAIN t = 1..Len(t)
      /\ DOMAIN (s \o t) = 1..(Len(s) + Len(t))
      /\ \A i \in 1 .. Len(s) + Len(t) : (s \o t)[i] = IF i <= Len(s) THEN s[i] ELSE t[i - Len(s)]
  BY ConcatProperties, LenProperties
<1>2. ASSUME NEW j \in DOMAIN (s \o t)
      PROVE  \/ \E k \in DOMAIN s : (s \o t)[j] = s[k]
             \/ \E k \in DOMAIN t : (s \o t)[j] = t[k]
  <2>1. CASE j <= Len(s)
    BY <1>1, <2>1
  <2>2. CASE ~(j <= Len(s))
    <3>1. j - Len(s) \in DOMAIN t
      BY <1>1, <2>2
    <3>2. QED
      BY <1>1, <2>2, <3>1
  <2>3. QED
    BY <2>1, <2>2
<1>3. ASSUME NEW k \in DOMAIN s PROVE \E j \in DOMAIN (s \o t) : (s \o t)[j] = s[k]
  <2>1. k \in DOMAIN (s \o t) /\ k <= Len(s)
    BY <1>1
  <2>2. QED
    BY <1>1, <2>1
<1>4. ASSUME NEW k \in DOMAIN t PROVE \E j \in DOMAIN (s \o t) : (s \o t)[j] = t[k]
  <2>1. k + Len(s) \in DOMAIN (s \o t) /\ ~(k + Len(s) <= Len(s)) /\ (k + Len(s)) - Len(s) = k
    BY <1>1
  <2>2. (s \o t)[k + Len(s)] = t[k]
    BY <1>1, <2>1
  <2>3. QED
    BY <2>1, <2>2
<1>5. QED
  BY <1>2, <1>3, <1>4 DEF Holds

\* A note for every element of a sequence, one more of each.
LEMMA AppendNote ==
  ASSUME NEW S, NEW s \in Seq(S), NEW x \in S, NEW T, NEW f \in [DOMAIN s -> T], NEW y \in T
  PROVE  /\ Append(f, y) \in [DOMAIN Append(s, x) -> T]
         /\ \A i \in DOMAIN s : Append(f, y)[i] = f[i]
         /\ Append(f, y)[Len(s) + 1] = y
         /\ DOMAIN Append(s, x) = DOMAIN s \cup {Len(s) + 1}
         /\ Len(s) + 1 \notin DOMAIN s
         /\ \A i \in DOMAIN s : Append(s, x)[i] = s[i]
         /\ Append(s, x)[Len(s) + 1] = x
         /\ Append(s, x) \in Seq(S)
<1>1. Len(s) \in Nat /\ DOMAIN s = 1..Len(s)
  BY LenProperties
<1>2. f \in Seq(T) /\ Len(f) = Len(s)
  BY <1>1, SeqDef, LenProperties
<1>3. /\ Append(f, y) \in Seq(T)
      /\ Len(Append(f, y)) = Len(s) + 1
      /\ \A i \in 1..Len(s) : Append(f, y)[i] = f[i]
      /\ Append(f, y)[Len(s) + 1] = y
  BY <1>2, AppendProperties
<1>4. /\ Append(s, x) \in Seq(S)
      /\ Len(Append(s, x)) = Len(s) + 1
      /\ \A i \in 1..Len(s) : Append(s, x)[i] = s[i]
      /\ Append(s, x)[Len(s) + 1] = x
  BY AppendProperties
<1>5. DOMAIN Append(s, x) = 1..(Len(s) + 1) /\ Append(f, y) \in [1..(Len(s) + 1) -> T]
  BY <1>3, <1>4, LenProperties
<1>6. QED
  BY <1>1, <1>3, <1>4, <1>5

-----------------------------------------------------------------------------
(* Type correctness. *)

\* A fragment names a selection set.
LEMMA FragmentSet == \A x \in Selection : x.kind \in {"inline", "spread"} => x.set \in SetName
BY DEF Selection

\* What is sent, and what stands for nothing.
LEMMA DocumentTyped ==
  ASSUME TypeOK
  PROVE  doc.write \in BOOLEAN /\ doc.sets \in [SetName -> Seq(Selection)]
<1>1. NoDocument.write \in BOOLEAN /\ NoDocument.sets \in [SetName -> Seq(Selection)]
  BY EmptySeq DEF NoDocument
<1>2. ASSUME NEW d \in Document PROVE d.write \in BOOLEAN /\ d.sets \in [SetName -> Seq(Selection)]
  BY ExecutionAssumption
<1>3. QED
  BY <1>1, <1>2 DEF TypeOK

LEMMA NextTyped ==
  ASSUME TypeOK, agenda # <<>>
  PROVE  Next1 \in Selection /\ Tail(agenda) \in Seq(Selection)
BY HeadTailProperties DEF TypeOK, Next1

LEMMA ResetTyped ==
  ASSUME Reset
  PROVE  /\ fields' \in Seq(Selection) /\ step' \in [DOMAIN fields' -> Steps]
         /\ value' \in [DOMAIN fields' -> {"none", "null", "value"}]
         /\ errors' \subseteq DOMAIN fields' /\ log' \in Seq(DOMAIN fields')
BY DEF Reset

LEMMA TypeInit == Init => TypeOK
<1>1. SUFFICES ASSUME Init PROVE TypeOK
  OBVIOUS
<1>2. step \in [DOMAIN fields -> Steps] /\ value \in [DOMAIN fields -> {"none", "null", "value"}]
  BY <1>1 DEF Init
<1>3. agenda \in Seq(Selection) /\ fields \in Seq(Selection) /\ log \in Seq(DOMAIN fields)
  BY <1>1, EmptySeq DEF Init
<1>4. QED
  BY <1>1, <1>2, <1>3 DEF Init, TypeOK

\* A step of the run, and those before it.
RunStep(i) ==
  \/ AnswerTypename(i) \/ ParseArguments(i) \/ RefuseArguments(i)
  \/ PassDirective(i) \/ HideField(i) \/ RefuseField(i)
  \/ Effect(i) \/ Succeed(i) \/ AnswerNull(i) \/ Fail(i) \/ Panic(i)

LEMMA RunStepTyped == ASSUME TypeOK, NEW i \in DOMAIN fields, RunStep(i) PROVE TypeOK'
<1> DEFINE Values == {"none", "null", "value"}
<1>1. UNCHANGED <<frame, fields>>
  BY DEF RunStep, AnswerTypename, ParseArguments, RefuseArguments, PassDirective, HideField,
         RefuseField, Effect, Succeed, AnswerNull, Fail, Panic, Err
<1>2. /\ \E s \in Steps : step' = [step EXCEPT ![i] = s]
      /\ UNCHANGED value \/ \E v \in Values : value' = [value EXCEPT ![i] = v]
      /\ UNCHANGED errors \/ errors' = errors \cup {i}
      /\ UNCHANGED log \/ log' = Append(log, i)
  BY DEF RunStep, AnswerTypename, ParseArguments, RefuseArguments, PassDirective, HideField,
         RefuseField, Effect, Succeed, AnswerNull, Fail, Panic, Err, Done, Steps
<1>3. step' \in [DOMAIN fields -> Steps] /\ value' \in [DOMAIN fields -> Values]
  BY <1>2 DEF TypeOK
<1>4. errors' \subseteq DOMAIN fields
  BY <1>2 DEF TypeOK
<1>5. log' \in Seq(DOMAIN fields)
  <2>1. log \in Seq(DOMAIN fields) /\ Append(log, i) \in Seq(DOMAIN fields)
    BY AppendProperties DEF TypeOK
  <2>2. QED
    BY <1>2, <2>1
<1>6. QED
  BY <1>1, <1>3, <1>4, <1>5 DEF TypeOK, frame, walking

LEMMA TypeNext == TypeOK /\ [Next]_vars => TypeOK'
<1>1. SUFFICES ASSUME TypeOK, [Next]_vars PROVE TypeOK'
  OBVIOUS
<1> USE DEF walking, running
<1>2. CASE UNCHANGED vars
  BY <1>1, <1>2 DEF TypeOK, vars
<1>3. ASSUME NEW d \in Document, NEW a \in Credential, Send(d, a) PROVE TypeOK'
  <2>1. d.sets["op"] \in Seq(Selection) /\ "op" \in SetName
    BY ExecutionAssumption
  <2>2. QED
    BY <1>1, <1>3, <2>1 DEF Send, TypeOK
<1>4. CASE WalkField
  <2>1. agenda # <<>> /\ Next1.name \in Field
    BY <1>4 DEF WalkField, Walks
  <2>2. Tail(agenda) \in Seq(Selection)
    BY <1>1, <2>1, NextTyped
  <2>3. [RequiredScope(Next1.name) EXCEPT !.verb = IF doc.write THEN "WRITE" ELSE @] \in Scope
    BY <2>1 DEF RequiredScope, Scope, ScopeArea, Field, PlanningFields, TokenFields, AdminFields
  <2>4. QED
    BY <1>1, <1>4, <2>2, <2>3 DEF WalkField, TypeOK
<1>5. CASE WalkMeta
  <2>1. Tail(agenda) \in Seq(Selection)
    BY <1>1, <1>5, NextTyped DEF WalkMeta, Walks
  <2>2. QED
    BY <1>1, <1>5, <2>1 DEF WalkMeta, TypeOK
<1>6. CASE WalkInline \/ WalkSpread \/ CollectFragment
  <2>1. agenda # <<>> /\ Next1.kind \in {"inline", "spread"}
    BY <1>6 DEF WalkInline, WalkSpread, CollectFragment, Walks, Collects
  <2>2. Next1.set \in SetName /\ Tail(agenda) \in Seq(Selection)
    BY <1>1, <2>1, NextTyped, FragmentSet
  <2>3. doc.sets[Next1.set] \o Tail(agenda) \in Seq(Selection)
    BY <1>1, <2>2, DocumentTyped, ConcatProperties
  <2>4. QED
    BY <1>1, <1>6, <2>2, <2>3 DEF WalkInline, WalkSpread, CollectFragment, TypeOK
<1>7. CASE EnforceScopes
  <2>1. doc.sets["op"] \in Seq(Selection)
    BY <1>1, DocumentTyped, ExecutionAssumption
  <2>2. QED
    BY <1>1, <1>7, <2>1 DEF EnforceScopes, TypeOK
<1>8. CASE CollectField
  <2>1. Next1 \in Selection /\ Tail(agenda) \in Seq(Selection)
    BY <1>1, <1>8, NextTyped DEF CollectField, Collects
  <2>2. /\ fields' \in Seq(Selection) /\ step' \in [DOMAIN fields' -> Steps]
        /\ value' \in [DOMAIN fields' -> {"none", "null", "value"}]
        /\ DOMAIN fields \subseteq DOMAIN fields'
    <3>0. fields \in Seq(Selection) /\ step \in [DOMAIN fields -> Steps] /\ "todo" \in Steps
      BY <1>1 DEF TypeOK, Steps
    <3>1. /\ Append(step, "todo") \in [DOMAIN Append(fields, Next1) -> Steps]
          /\ DOMAIN fields \subseteq DOMAIN Append(fields, Next1)
          /\ Append(fields, Next1) \in Seq(Selection)
      BY <2>1, <3>0, AppendNote
    <3>2. Append(value, "none") \in [DOMAIN Append(fields, Next1) -> {"none", "null", "value"}]
      BY <1>1, <2>1, AppendNote DEF TypeOK
    <3>3. QED
      BY <1>8, <3>1, <3>2 DEF CollectField
  <2>3. log' \in Seq(DOMAIN fields')
    BY <1>1, <1>8, <2>2, SeqMonotonic DEF CollectField, TypeOK
  <2>4. QED
    BY <1>1, <1>8, <2>1, <2>2, <2>3 DEF CollectField, TypeOK
<1>9. CASE CollectNothing
  <2>1. Tail(agenda) \in Seq(Selection)
    BY <1>1, <1>9, NextTyped DEF CollectNothing
  <2>2. QED
    BY <1>1, <1>9, <2>1 DEF CollectNothing, TypeOK
<1>10. CASE RefuseScopes \/ Execute \/ Complete
  BY <1>1, <1>10 DEF RefuseScopes, Execute, Complete, TypeOK
<1>11. ASSUME NEW i \in DOMAIN fields, RunStep(i) PROVE TypeOK'
  BY <1>1, <1>11, RunStepTyped
<1>12. CASE Return
  <2>1. <<>> \in Seq(Selection)
    BY EmptySeq
  <2>2. QED
    BY <1>1, <1>12, <2>1, ResetTyped DEF Return, TypeOK
<1>13. QED
  BY <1>1, <1>2, <1>3, <1>4, <1>5, <1>6, <1>7, <1>8, <1>9, <1>10, <1>11, <1>12
     DEF Next, Proceed, RunStep

\* TypeOK of every reachable state.
THEOREM TypeCorrect == Spec => []TypeOK
BY TypeInit, TypeNext, PTL DEF Spec


-----------------------------------------------------------------------------
(* The walk finds what is executed. *)

\* A field of the document is a mutation's if the document is one.
Own(x) == x.kind = "field" /\ x.name \in Field => (x.name \in Mutation <=> doc.write)

\* What the walk has made of a selection ...
Handled(x) ==
  /\ x.kind = "field" /\ x.name \in Field => RequiredScope(x.name) \in required
  /\ x.kind # "field" => x.set \in reached

\* ... and what may be executed of it, once the scopes are enforced.
Cleared(x) ==
  /\ x.kind = "field" /\ x.name \in Field => ScopesAllow(actor, RequiredScope(x.name))
  /\ x.kind # "field" => x.set \in reached

OnAgenda(x) == \E j \in DOMAIN agenda : agenda[j] = x

Sent == stage # "idle" => doc \in Document /\ "op" \in reached
AgendaOwn == \A j \in DOMAIN agenda : Own(agenda[j])
Walked ==
  stage = "walk" =>
    \A n \in reached : \A i \in DOMAIN doc.sets[n] :
      Handled(doc.sets[n][i]) \/ OnAgenda(doc.sets[n][i])
Enforced ==
  stage = "collect" =>
    /\ \A n \in reached : \A i \in DOMAIN doc.sets[n] : Cleared(doc.sets[n][i])
    /\ \A j \in DOMAIN agenda : Cleared(agenda[j])
Collected ==
  \A i \in DOMAIN fields : fields[i].kind = "field" /\ Own(fields[i]) /\ Cleared(fields[i])
NotYet == stage \in {"idle", "walk"} => fields = <<>>
Followed == (stage = "walk" => visited \subseteq reached) /\ (stage = "idle" => visited = {})

ScopeInv ==
  /\ TypeOK
  /\ Sent
  /\ AgendaOwn
  /\ Walked
  /\ Enforced
  /\ Collected
  /\ NotYet
  /\ Followed

\* A document's own selections.
LEMMA DocumentOwn ==
  ASSUME TypeOK, doc \in Document, NEW n \in SetName, NEW i \in DOMAIN doc.sets[n]
  PROVE  Own(doc.sets[n][i])
BY ExecutionAssumption DEF Own

\* The walk asks for a field's own scope: the verb is WRITE in a mutation, and a
\* mutation's fields are the ones annotated with it.
LEMMA WalkedScope ==
  ASSUME NEW x, x.kind = "field", x.name \in Field, Own(x), doc.write \in BOOLEAN
  PROVE  [RequiredScope(x.name) EXCEPT !.verb = IF doc.write THEN "WRITE" ELSE @]
           = RequiredScope(x.name)
<1>1. doc.write => RequiredScope(x.name).verb = "WRITE"
  BY DEF Own, RequiredScope
<1>2. QED
  BY <1>1 DEF RequiredScope

\* The steps of the run leave what the scope check is about alone.
LEMMA RunStepFrame == \A i : RunStep(i) => UNCHANGED <<frame, fields>>
BY DEF RunStep, AnswerTypename, ParseArguments, RefuseArguments, PassDirective, HideField,
       RefuseField, Effect, Succeed, AnswerNull, Fail, Panic, Err

LEMMA ScopeInit == Init => ScopeInv
<1>1. SUFFICES ASSUME Init PROVE ScopeInv
  OBVIOUS
<1>2. DOMAIN <<>> = {}
  OBVIOUS
<1>3. QED
  BY <1>1, <1>2, TypeInit DEF Init, ScopeInv, Sent, AgendaOwn, Walked, Enforced, Collected, NotYet, Followed

LEMMA ScopeNext == ScopeInv /\ [Next]_vars => ScopeInv'
<1>1. SUFFICES ASSUME ScopeInv, [Next]_vars PROVE ScopeInv'
  OBVIOUS
<1>2. TypeOK /\ TypeOK'
  BY <1>1, TypeNext DEF ScopeInv
<1> DEFINE Parts == Sent' /\ AgendaOwn' /\ Walked' /\ Enforced' /\ Collected' /\ NotYet' /\ Followed'
<1>3. SUFFICES Parts
  BY <1>2 DEF ScopeInv
<1> DEFINE Sames == UNCHANGED <<stage, doc, actor, agenda, visited, required, fields, reached>>
<1> USE DEF walking, running, frame
<1>4. ASSUME Sames PROVE Parts
  BY <1>1, <1>4 DEF ScopeInv, Sent, AgendaOwn, Walked, Enforced, Collected, NotYet, Followed, Own,
     Handled, Cleared, OnAgenda
<1>5. CASE UNCHANGED vars
  <2>1. Sames
    BY <1>5 DEF vars
  <2>2. QED
    BY <1>4, <2>1
<1>6. ASSUME NEW i \in DOMAIN fields, RunStep(i) PROVE Parts
  BY <1>4, <1>6, RunStepFrame
<1>7. ASSUME NEW d \in Document, NEW a \in Credential, Send(d, a) PROVE Parts
  <2>1. /\ stage = "idle" /\ stage' = "walk" /\ doc' = d /\ agenda' = d.sets["op"]
        /\ reached' = {"op"} /\ fields' = fields /\ fields = <<>>
    BY <1>1, <1>7 DEF Send, ScopeInv, NotYet
  <2>2. AgendaOwn'
    <3>1. SUFFICES ASSUME NEW j \in DOMAIN agenda' PROVE Own(agenda[j])'
      BY DEF AgendaOwn, Own
    <3>2. QED
      BY <2>1, <3>1, ExecutionAssumption DEF Own
  <2>3. Walked'
    BY <2>1 DEF Walked, OnAgenda
  <2>4. QED
    BY <1>1, <1>7, <2>1, <2>2, <2>3
       DEF Send, ScopeInv, Sent, Enforced, Collected, NotYet, Followed
<1>8. CASE Return
  <2>1. DOMAIN agenda' = {} /\ DOMAIN fields' = {}
    BY <1>8 DEF Return, Reset
  <2>2. QED
    BY <1>8, <2>1 DEF Return, Reset, Sent, AgendaOwn, Walked, Enforced, Collected, NotYet, Followed
\* A selection leaves the agenda, handled.
<1>9. ASSUME stage = "walk", agenda # <<>>, agenda' = Tail(agenda),
             Next1.kind = "field" /\ Next1.name \in Field => RequiredScope(Next1.name) \in required',
             Next1.kind # "field" => Next1.set \in reached,
             required \subseteq required', reached' = reached, Followed',
             UNCHANGED <<stage, doc, actor, fields>>
      PROVE  Parts
  <2>1. /\ \A j \in DOMAIN Tail(agenda) : \E k \in DOMAIN agenda : Tail(agenda)[j] = agenda[k]
        /\ \A k \in DOMAIN agenda :
             agenda[k] = Next1 \/ \E j \in DOMAIN Tail(agenda) : Tail(agenda)[j] = agenda[k]
    BY <1>2, <1>9, TailElements DEF TypeOK, Next1
  <2>2. AgendaOwn'
    BY <1>1, <1>9, <2>1 DEF ScopeInv, AgendaOwn, Own
  <2>3. Walked'
    <3>1. SUFFICES ASSUME NEW n \in reached, NEW i \in DOMAIN doc.sets[n]
                   PROVE  Handled(doc.sets[n][i])' \/ OnAgenda(doc.sets[n][i])'
      BY <1>9 DEF Walked, Handled, OnAgenda
    <3>2. Handled(doc.sets[n][i]) \/ OnAgenda(doc.sets[n][i])
      BY <1>1, <1>9 DEF ScopeInv, Walked
    <3>3. CASE Handled(doc.sets[n][i])
      BY <1>9, <3>3 DEF Handled
    <3>4. CASE OnAgenda(doc.sets[n][i])
      <4>1. PICK k \in DOMAIN agenda : agenda[k] = doc.sets[n][i]
        BY <3>4 DEF OnAgenda
      <4>2. CASE agenda[k] = Next1
        BY <1>9, <4>1, <4>2 DEF Handled
      <4>3. CASE \E j \in DOMAIN Tail(agenda) : Tail(agenda)[j] = agenda[k]
        BY <1>9, <4>1, <4>3 DEF OnAgenda
      <4>4. QED
        BY <2>1, <4>2, <4>3
    <3>5. QED
      BY <3>2, <3>3, <3>4
  <2>4. QED
    BY <1>1, <1>9, <2>2, <2>3 DEF ScopeInv, Sent, Enforced, Collected, NotYet, Own, Cleared
<1>10. CASE WalkField
  <2>1. Next1.kind = "field" /\ Next1.name \in Field /\ agenda # <<>> /\ stage = "walk"
    BY <1>10 DEF WalkField, Walks
  <2>2. Own(Next1)
    <3>1. 1 \in DOMAIN agenda /\ agenda[1] = Next1
      BY <1>2, <2>1, LenProperties, EmptySeq DEF TypeOK, Next1
    <3>2. QED
      BY <1>1, <3>1 DEF ScopeInv, AgendaOwn
  <2>3. required' = required \cup {RequiredScope(Next1.name)}
    BY <1>2, <1>10, <2>1, <2>2, WalkedScope, DocumentTyped DEF WalkField
  <2>4. QED
    BY <1>1, <1>9, <1>10, <2>1, <2>3 DEF WalkField, ScopeInv, Followed
<1>11. CASE WalkMeta
  BY <1>1, <1>9, <1>11 DEF WalkMeta, Walks, ScopeInv, Followed
\* A fragment leaves the agenda and what it holds takes its place.
<1>12. ASSUME stage \in {"walk", "collect"}, agenda # <<>>, Next1.kind \in {"inline", "spread"},
              agenda' = doc.sets[Next1.set] \o Tail(agenda),
              reached' = IF stage = "walk" THEN reached \cup {Next1.set} ELSE reached,
              Followed', UNCHANGED <<stage, doc, actor, required, fields>>
       PROVE  Parts
  <2> DEFINE new == doc.sets[Next1.set]
  <2>1. /\ \A j \in DOMAIN Tail(agenda) : \E k \in DOMAIN agenda : Tail(agenda)[j] = agenda[k]
        /\ \A k \in DOMAIN agenda :
             agenda[k] = Next1 \/ \E j \in DOMAIN Tail(agenda) : Tail(agenda)[j] = agenda[k]
    BY <1>2, <1>12, TailElements DEF TypeOK, Next1
  <2>2. Next1.set \in SetName /\ new \in Seq(Selection) /\ Tail(agenda) \in Seq(Selection)
    BY <1>2, <1>12, NextTyped, FragmentSet, DocumentTyped
  <2>3. /\ \A j \in DOMAIN agenda' : \/ \E k \in DOMAIN new : agenda'[j] = new[k]
                                    \/ \E k \in DOMAIN agenda : agenda'[j] = agenda[k]
        /\ \A k \in DOMAIN new : \E j \in DOMAIN agenda' : agenda'[j] = new[k]
        /\ \A k \in DOMAIN agenda :
             agenda[k] = Next1 \/ \E j \in DOMAIN agenda' : agenda'[j] = agenda[k]
    <3>1. /\ \A j \in DOMAIN agenda' : \/ \E k \in DOMAIN new : agenda'[j] = new[k]
                                      \/ \E k \in DOMAIN Tail(agenda) : agenda'[j] = Tail(agenda)[k]
          /\ \A k \in DOMAIN new : \E j \in DOMAIN agenda' : agenda'[j] = new[k]
          /\ \A k \in DOMAIN Tail(agenda) : \E j \in DOMAIN agenda' : agenda'[j] = Tail(agenda)[k]
      <4>1. agenda' = new \o Tail(agenda)
        BY <1>12
      <4> DEFINE rest == Tail(agenda)
      <4>2. \A x : Holds(new \o rest, x) <=> Holds(new, x) \/ Holds(rest, x)
        <5>1. new \in Seq(Selection) /\ rest \in Seq(Selection)
          BY <2>2
        <5> HIDE DEF new, rest
        <5>2. QED
          BY <5>1, ConcatElements
      <4>3. \A x : Holds(agenda', x) <=> Holds(new, x) \/ Holds(rest, x)
        BY <4>1, <4>2
      <4> HIDE DEF new
      <4>4. QED
        BY <4>3 DEF Holds
    <3>2. QED
      BY <2>1, <3>1
  <2>4. doc \in Document /\ \A k \in DOMAIN new : Own(new[k])
    BY <1>1, <1>2, <1>12, <2>2, DocumentOwn DEF ScopeInv, Sent
  <2>5. AgendaOwn'
    <3>1. SUFFICES ASSUME NEW j \in DOMAIN agenda' PROVE Own(agenda[j])'
      BY DEF AgendaOwn, Own
    <3>2. Own(agenda'[j])
      BY <1>1, <2>3, <2>4 DEF ScopeInv, AgendaOwn
    <3>3. QED
      BY <1>12, <3>2 DEF Own
  <2>6. Walked'
    <3>1. SUFFICES ASSUME stage = "walk", NEW n \in reached \cup {Next1.set},
                          NEW i \in DOMAIN doc.sets[n]
                   PROVE  Handled(doc.sets[n][i])' \/ OnAgenda(doc.sets[n][i])'
      BY <1>12 DEF Walked, Handled, OnAgenda
    <3>2. CASE n = Next1.set
      BY <1>12, <2>3, <3>2 DEF OnAgenda
    <3>3. CASE Handled(doc.sets[n][i])
      BY <1>12, <3>1, <3>3 DEF Handled
    <3>4. CASE OnAgenda(doc.sets[n][i])
      <4>1. PICK k \in DOMAIN agenda : agenda[k] = doc.sets[n][i]
        BY <3>4 DEF OnAgenda
      <4>2. CASE agenda[k] = Next1
        <5>1. doc.sets[n][i].kind # "field" /\ doc.sets[n][i].set \in reached'
          BY <1>12, <3>1, <4>1, <4>2
        <5>2. QED
          BY <1>12, <5>1 DEF Handled
      <4>3. CASE \E j \in DOMAIN agenda' : agenda'[j] = agenda[k]
        BY <1>12, <4>1, <4>3 DEF OnAgenda
      <4>4. QED
        BY <2>3, <4>2, <4>3
    <3>5. Handled(doc.sets[n][i]) \/ OnAgenda(doc.sets[n][i]) \/ n = Next1.set
      BY <1>1, <3>1 DEF ScopeInv, Walked
    <3>6. QED
      BY <3>2, <3>3, <3>4, <3>5
  <2>7. Enforced'
    <3>1. SUFFICES ASSUME stage = "collect"
                   PROVE  /\ \A n \in reached : \A i \in DOMAIN doc.sets[n] : Cleared(doc.sets[n][i])
                          /\ \A j \in DOMAIN agenda' : Cleared(agenda'[j])
      BY <1>12 DEF Enforced, Cleared
    <3>2. /\ \A n \in reached : \A i \in DOMAIN doc.sets[n] : Cleared(doc.sets[n][i])
          /\ \A j \in DOMAIN agenda : Cleared(agenda[j])
      BY <1>1, <3>1 DEF ScopeInv, Enforced
    <3>3. 1 \in DOMAIN agenda /\ agenda[1] = Next1
      BY <1>2, <1>12, LenProperties, EmptySeq DEF TypeOK, Next1
    <3>4. Next1.set \in reached
      BY <1>12, <3>2, <3>3 DEF Cleared
    <3>5. QED
      BY <2>3, <3>2, <3>4
  <2>8. QED
    BY <1>1, <1>12, <2>5, <2>6, <2>7 DEF ScopeInv, Sent, Collected, NotYet, Own, Cleared
<1>13. CASE WalkInline
  <2>1. Followed'
    BY <1>1, <1>13 DEF WalkInline, Walks, ScopeInv, Followed
  <2>2. QED
    BY <1>12, <1>13, <2>1 DEF WalkInline, Walks
<1>14. CASE WalkSpread
  <2>1. Followed'
    BY <1>1, <1>14 DEF WalkSpread, Walks, ScopeInv, Followed
  <2>2. CASE Next1.set \in visited
    <3>1. Next1.set \in reached /\ reached' = reached
      BY <1>1, <1>14, <2>2 DEF WalkSpread, Walks, ScopeInv, Followed
    <3>2. QED
      BY <1>9, <1>14, <2>1, <2>2, <3>1 DEF WalkSpread, Walks
  <2>3. CASE Next1.set \notin visited
    BY <1>12, <1>14, <2>1, <2>3 DEF WalkSpread, Walks
  <2>4. QED
    BY <2>2, <2>3
<1>15. CASE EnforceScopes
  <2>1. /\ stage = "walk" /\ agenda = <<>> /\ stage' = "collect" /\ agenda' = doc.sets["op"]
        /\ UNCHANGED <<doc, actor, required, fields, reached>>
        /\ \A s \in Needed : ScopesAllow(actor, s)
        /\ doc \in Document /\ "op" \in reached /\ "op" \in SetName
    BY <1>1, <1>15, ExecutionAssumption DEF EnforceScopes, ScopeInv, Sent
  <2>2. ASSUME NEW n \in reached, NEW i \in DOMAIN doc.sets[n] PROVE Cleared(doc.sets[n][i])
    <3>1. Handled(doc.sets[n][i])
      BY <1>1, <2>1 DEF ScopeInv, Walked, OnAgenda
    <3>2. \A s \in required : ScopesAllow(actor, s)
      BY <2>1 DEF Needed
    <3>3. QED
      BY <3>1, <3>2 DEF Handled, Cleared
  <2>3. AgendaOwn'
    <3>1. SUFFICES ASSUME NEW j \in DOMAIN agenda' PROVE Own(agenda[j])'
      BY DEF AgendaOwn, Own
    <3>2. Own(doc.sets["op"][j])
      BY <1>2, <2>1, <3>1, DocumentOwn
    <3>3. QED
      BY <2>1, <3>2 DEF Own
  <2>4. Enforced'
    BY <2>1, <2>2 DEF Enforced, Cleared
  <2>5. QED
    BY <1>1, <2>1, <2>3, <2>4 DEF ScopeInv, Sent, Walked, Collected, NotYet, Followed, Own, Cleared
<1>16. CASE CollectFragment
  <2>1. Followed'
    BY <1>16 DEF CollectFragment, Collects, Followed
  <2>2. QED
    BY <1>12, <1>16, <2>1 DEF CollectFragment, Collects
\* What is collected, or passed over, leaves the agenda.
<1>17. ASSUME stage = "collect", agenda # <<>>, agenda' = Tail(agenda), Collected',
              UNCHANGED <<stage, doc, actor, required, reached>>
       PROVE  Parts
  <2>1. \A j \in DOMAIN Tail(agenda) : \E k \in DOMAIN agenda : Tail(agenda)[j] = agenda[k]
    BY <1>2, <1>17, TailElements DEF TypeOK
  <2>2. AgendaOwn'
    BY <1>1, <1>17, <2>1 DEF ScopeInv, AgendaOwn, Own
  <2>3. Enforced'
    BY <1>1, <1>17, <2>1 DEF ScopeInv, Enforced, Cleared
  <2>4. QED
    BY <1>1, <1>17, <2>2, <2>3 DEF ScopeInv, Sent, Walked, NotYet, Followed
<1>18. CASE CollectField
  <2>1. /\ fields \in Seq(Selection) /\ Next1 \in Selection /\ Next1.kind = "field"
        /\ agenda # <<>> /\ stage = "collect" /\ fields' = Append(fields, Next1)
        /\ step \in [DOMAIN fields -> Steps] /\ UNCHANGED <<doc, actor, reached>>
    BY <1>2, <1>18, NextTyped DEF CollectField, Collects, TypeOK
  <2>2. /\ DOMAIN fields' = DOMAIN fields \cup {Len(fields) + 1}
        /\ \A i \in DOMAIN fields : fields'[i] = fields[i]
        /\ fields'[Len(fields) + 1] = Next1
    <3>1. "todo" \in Steps
      BY DEF Steps
    <3>2. QED
      BY <2>1, <3>1, AppendNote
  <2>3. Own(Next1) /\ Cleared(Next1)
    <3>1. 1 \in DOMAIN agenda /\ agenda[1] = Next1
      BY <1>2, <2>1, LenProperties, EmptySeq DEF TypeOK, Next1
    <3>2. QED
      BY <1>1, <2>1, <3>1 DEF ScopeInv, AgendaOwn, Enforced
  <2>4. Collected'
    <3>1. SUFFICES ASSUME NEW i \in DOMAIN fields'
                   PROVE  fields'[i].kind = "field" /\ Own(fields'[i]) /\ Cleared(fields'[i])
      BY <2>1 DEF Collected, Own, Cleared
    <3>2. CASE i = Len(fields) + 1
      BY <2>1, <2>2, <2>3, <3>2
    <3>3. CASE i \in DOMAIN fields
      BY <1>1, <2>2, <3>3 DEF ScopeInv, Collected
    <3>4. QED
      BY <2>2, <3>2, <3>3
  <2>5. QED
    BY <1>17, <1>18, <2>1, <2>4 DEF CollectField
<1>19. CASE CollectNothing
  <2>1. Collected'
    BY <1>1, <1>19 DEF CollectNothing, ScopeInv, Collected, Own, Cleared
  <2>2. QED
    BY <1>17, <1>19, <2>1 DEF CollectNothing
<1>20. CASE RefuseScopes \/ Execute \/ Complete
  BY <1>1, <1>20 DEF RefuseScopes, Execute, Complete, ScopeInv, Sent, AgendaOwn, Walked, Enforced,
     Collected, NotYet, Followed, Own, Cleared
<1>21. QED
  BY <1>1, <1>5, <1>6, <1>7, <1>8, <1>10, <1>11, <1>13, <1>14, <1>15, <1>16, <1>18, <1>19, <1>20
     DEF Next, Proceed, RunStep

\* NothingUnchecked: the walk opens whatever the execution opens, each field it
\* meets adds its scope, and it meets them all before the scopes are enforced.
THEOREM WhatRunsIsAllowed == Spec => []NothingUnchecked
<1>1. ScopeInv => NothingUnchecked
  BY DEF ScopeInv, Collected, Cleared, NothingUnchecked, Name
<1>2. QED
  BY <1>1, ScopeInit, ScopeNext, PTL DEF Spec

-----------------------------------------------------------------------------
(* The run. *)

\* A mutation's field begins when those before it have ended ...
Sequential ==
  doc.write => \A i, j \in DOMAIN fields : j < i /\ step[i] # "todo" => step[j] = "done"

\* ... and changes the database once it has passed, and before it ends.
Logged ==
  \A k \in DOMAIN log : step[log[k]] \in {"effected", "done"} /\ Name(log[k]) \in Mutation
Passed == \A i \in DOMAIN fields : step[i] \in {"resolve", "effected"} => May(i)

\* A null that is not legal has an error, and so has a null after an effect.
Explained ==
  /\ \A i \in DOMAIN fields : value[i] = "null" => i \in errors \/ Name(i) \notin NonNull
  /\ \A k \in DOMAIN log :
       step[log[k]] = "done" => value[log[k]] = "value" \/ log[k] \in errors

\* Nothing runs before the run, nor after a refusal or the response.
Started ==
  /\ stage \in {"idle", "walk", "collect"} =>
       log = <<>> /\ \A i \in DOMAIN fields : step[i] = "todo" /\ value[i] = "none"
  /\ answer # "none" => stage = "answered"
  /\ answer = "refused" => fields = <<>> /\ log = <<>>
  /\ stage = "answered" => \A i \in DOMAIN fields : step[i] = "done"

Answered ==
  stage = "answered" =>
    /\ answer # "none"
    /\ answer = "null" => \E i \in DOMAIN fields : Name(i) \in NonNull /\ value[i] = "null"

RunInv ==
  /\ ScopeInv
  /\ Sequential
  /\ InDocumentOrder
  /\ Logged
  /\ Passed
  /\ RefusedLeaveNothing
  /\ Explained
  /\ Started
  /\ Answered

\* What a step of the run does to its field.
LEMMA RunStepMoves ==
  ASSUME NEW i \in DOMAIN fields, RunStep(i)
  PROVE  /\ step[i] # "done" /\ (step[i] = "todo" => Turn(i))
         /\ UNCHANGED <<frame, fields>>
         /\ \/ ParseArguments(i) \/ PassDirective(i) \/ Effect(i)
            \/ /\ Err(i)
            \/ /\ Done(i, "value") /\ UNCHANGED <<errors, log>>
            \/ /\ Done(i, "null") /\ UNCHANGED <<errors, log>>
               /\ step[i] \in {"gate", "resolve"} /\ Name(i) \notin NonNull
BY DEF RunStep, AnswerTypename, ParseArguments, RefuseArguments, PassDirective, HideField,
       RefuseField, Effect, Succeed, AnswerNull, Fail, Panic, Err, Turn, Resolving, NonNull,
       Mutation, SemesterMutations, TokenMutations, PersonMutations, RightsMutations

LEMMA RunStepKeeps == ASSUME RunInv, NEW i \in DOMAIN fields, RunStep(i) PROVE RunInv'
<1> USE DEF frame, walking
<1>1. /\ TypeOK /\ ScopeInv' /\ step[i] # "done" /\ (step[i] = "todo" => Turn(i))
      /\ UNCHANGED <<stage, doc, actor, answer, fields>>
  BY RunStepMoves, ScopeNext DEF RunInv, ScopeInv, Next, Proceed, RunStep
<1>2. stage = "run"
  BY <1>1 DEF RunInv, Started, Turn, TypeOK
<1>3. log \in Seq(DOMAIN fields) /\ \A k \in DOMAIN log : log[k] \in DOMAIN fields
  BY <1>1 DEF TypeOK
<1>4. DOMAIN fields \subseteq Nat
  BY <1>1, LenProperties DEF TypeOK
<1>5. /\ \A j \in DOMAIN fields : j # i => step'[j] = step[j] /\ value'[j] = value[j]
      /\ step'[i] # "todo"
  BY <1>1, RunStepMoves DEF TypeOK, ParseArguments, PassDirective, Effect, Err, Done
<1>6. Sequential'
  <2>1. SUFFICES ASSUME doc.write, NEW k \in DOMAIN fields, NEW j \in DOMAIN fields,
                        j < k, step'[k] # "todo"
                 PROVE  step'[j] = "done"
    BY <1>1 DEF Sequential
  <2>2. CASE k = i
    BY <1>1, <1>4, <1>5, <2>1, <2>2 DEF RunInv, Sequential, Turn
  <2>3. CASE k # i
    BY <1>1, <1>4, <1>5, <2>1, <2>3 DEF RunInv, Sequential
  <2>4. QED
    BY <2>2, <2>3
<1>7. CASE Effect(i)
  <2>1. /\ step[i] = "resolve" /\ Name(i) \in Mutation /\ step' = [step EXCEPT ![i] = "effected"]
        /\ log' = Append(log, i) /\ UNCHANGED <<value, errors>> /\ May(i)
    BY <1>7 DEF Effect, RunInv, Passed
  <2>2. /\ DOMAIN log' = DOMAIN log \cup {Len(log) + 1} /\ DOMAIN log = 1..Len(log)
        /\ Len(log) \in Nat
        /\ \A k \in DOMAIN log : log'[k] = log[k]
        /\ log'[Len(log) + 1] = i
    <3>1. /\ Append(log, i) \in Seq(DOMAIN fields) /\ Len(Append(log, i)) = Len(log) + 1
          /\ \A k \in 1..Len(log) : Append(log, i)[k] = log[k]
          /\ Append(log, i)[Len(log) + 1] = i
      BY <1>3, AppendProperties
    <3>2. /\ DOMAIN Append(log, i) = 1..(Len(log) + 1)
          /\ DOMAIN log = 1..Len(log) /\ Len(log) \in Nat
      BY <1>3, <3>1, LenProperties
    <3>3. QED
      BY <2>1, <3>1, <3>2
  <2>3. doc.write
    BY <2>1 DEF RunInv, ScopeInv, Collected, Own, Name, Field, Mutation, PlanningFields,
           TokenFields, AdminFields
  <2>4. ASSUME NEW k \in DOMAIN log PROVE log[k] < i
    <3>1. log[k] \in DOMAIN fields /\ log[k] # i /\ step[log[k]] # "todo"
      BY <1>3, <2>1 DEF RunInv, Logged
    <3>2. ~(i < log[k])
      BY <1>1, <2>3, <3>1 DEF RunInv, Sequential
    <3>3. QED
      BY <1>4, <3>1, <3>2
  <2>5. InDocumentOrder'
    <3>1. SUFFICES ASSUME NEW j \in DOMAIN log', NEW k \in DOMAIN log', j < k
                   PROVE  log'[j] < log'[k]
      BY DEF InDocumentOrder
    <3>2. j \in DOMAIN log
      BY <2>2, <3>1
    <3>3. CASE k \in DOMAIN log
      BY <2>2, <3>1, <3>2, <3>3 DEF RunInv, InDocumentOrder
    <3>4. CASE k = Len(log) + 1
      BY <2>2, <2>4, <3>2, <3>4
    <3>5. QED
      BY <2>2, <3>3, <3>4
  <2>6. Logged'
    <3>1. SUFFICES ASSUME NEW k \in DOMAIN log'
                   PROVE  step'[log'[k]] \in {"effected", "done"} /\ Name(log'[k]) \in Mutation
      BY <1>1 DEF Logged, Name
    <3>2. CASE k \in DOMAIN log
      <4>1. log[k] \in DOMAIN fields /\ log[k] # i
        BY <1>3, <1>4, <2>4, <3>2
      <4>2. QED
        BY <1>5, <2>2, <3>2, <4>1 DEF RunInv, Logged
    <3>3. CASE k = Len(log) + 1
      BY <1>1, <2>1, <2>2, <3>3 DEF TypeOK
    <3>4. QED
      BY <2>2, <3>2, <3>3
  <2>7. RefusedLeaveNothing'
    <3>1. SUFFICES ASSUME NEW k \in DOMAIN log', Name(log'[k]) \in InteractiveOnly
                   PROVE  actor.kind = "interactive"
      BY <1>1 DEF RefusedLeaveNothing, Name
    <3>2. CASE k \in DOMAIN log
      BY <2>2, <3>1, <3>2 DEF RunInv, RefusedLeaveNothing
    <3>3. CASE k = Len(log) + 1
      BY <2>1, <2>2, <3>1, <3>3 DEF May
    <3>4. QED
      BY <2>2, <3>2, <3>3
  <2>8. Passed'
    BY <1>1, <1>5, <2>1 DEF RunInv, Passed, May, Name, TypeOK
  <2>9. Explained'
    <3>1. \A k \in DOMAIN fields : value[k] = "null" => k \in errors \/ Name(k) \notin NonNull
      BY DEF RunInv, Explained
    <3>2. ASSUME NEW k \in DOMAIN log', step'[log'[k]] = "done"
          PROVE  value[log'[k]] = "value" \/ log'[k] \in errors
      <4>1. step'[i] # "done"
        BY <1>1, <2>1 DEF TypeOK
      <4>2. k \in DOMAIN log /\ log[k] \in DOMAIN fields /\ log[k] # i
        BY <1>3, <2>2, <3>2, <4>1
      <4>3. QED
        BY <1>5, <2>2, <3>2, <4>2 DEF RunInv, Explained
    <3>3. QED
      BY <1>1, <2>1, <3>1, <3>2 DEF Explained, Name
  <2>10. Started' /\ Answered'
    BY <1>1, <1>2 DEF RunInv, Started, Answered
  <2>11. QED
    BY <1>1, <1>6, <2>5, <2>6, <2>7, <2>8, <2>9, <2>10 DEF RunInv
<1>8. ASSUME UNCHANGED log,
             \A k \in DOMAIN log : step'[log[k]] \in {"effected", "done"},
             step'[i] \in {"resolve", "effected"} => May(i),
             value'[i] = "null" => i \in errors' \/ Name(i) \notin NonNull,
             \A k \in DOMAIN log : log[k] = i => value'[i] = "value" \/ i \in errors',
             errors \subseteq errors'
      PROVE  RunInv'
  <2>1. InDocumentOrder' /\ Logged' /\ RefusedLeaveNothing'
    BY <1>1, <1>8 DEF RunInv, InDocumentOrder, Logged, RefusedLeaveNothing, Name
  <2>2. Passed'
    BY <1>1, <1>5, <1>8 DEF RunInv, Passed, May, Name
  <2>3. Explained'
    <3>1. ASSUME NEW k \in DOMAIN fields, value'[k] = "null"
          PROVE  k \in errors' \/ Name(k) \notin NonNull
      BY <1>5, <1>8, <3>1 DEF RunInv, Explained
    <3>2. ASSUME NEW k \in DOMAIN log, step'[log[k]] = "done"
          PROVE  value'[log[k]] = "value" \/ log[k] \in errors'
      BY <1>3, <1>5, <1>8, <3>2 DEF RunInv, Explained
    <3>3. QED
      BY <1>1, <1>8, <3>1, <3>2 DEF Explained, Name
  <2>4. Started' /\ Answered'
    BY <1>1, <1>2 DEF RunInv, Started, Answered
  <2>5. QED
    BY <1>1, <1>6, <2>1, <2>2, <2>3, <2>4 DEF RunInv
<1>9. \A k \in DOMAIN log : step[log[k]] \in {"effected", "done"}
  BY DEF RunInv, Logged
<1>10. CASE ParseArguments(i) \/ PassDirective(i)
  <2>1. /\ step[i] \in {"todo", "gate"} /\ UNCHANGED <<value, errors, log>>
        /\ \E s \in {"gate", "resolve"} : step' = [step EXCEPT ![i] = s] /\ (s = "resolve" => May(i))
    BY <1>10 DEF ParseArguments, PassDirective, Turn
  <2>2. \A k \in DOMAIN log : log[k] # i
    BY <1>9, <2>1
  <2>3. /\ step'[i] \in {"resolve", "effected"} => May(i)
        /\ \A k \in DOMAIN log : step'[log[k]] \in {"effected", "done"}
    BY <1>1, <1>3, <1>5, <1>9, <2>1, <2>2 DEF TypeOK
  <2>4. value'[i] = "null" => i \in errors' \/ Name(i) \notin NonNull
    BY <2>1 DEF RunInv, Explained
  <2>5. QED
    BY <1>8, <2>1, <2>2, <2>3, <2>4
<1>11. CASE Err(i)
  <2>1. step'[i] = "done" /\ i \in errors' /\ errors \subseteq errors' /\ UNCHANGED log
    BY <1>1, <1>11 DEF Err, Done, TypeOK
  <2>2. \A k \in DOMAIN log : step'[log[k]] \in {"effected", "done"}
    BY <1>3, <1>5, <1>9, <2>1
  <2>3. QED
    BY <1>8, <2>1, <2>2
<1>12. CASE Done(i, "value") /\ UNCHANGED <<errors, log>>
  <2>1. step'[i] = "done" /\ value'[i] = "value"
    BY <1>1, <1>12 DEF Done, TypeOK
  <2>2. \A k \in DOMAIN log : step'[log[k]] \in {"effected", "done"}
    BY <1>3, <1>5, <1>9, <2>1
  <2>3. QED
    BY <1>8, <1>12, <2>1, <2>2
<1>13. CASE /\ Done(i, "null") /\ UNCHANGED <<errors, log>>
            /\ step[i] \in {"gate", "resolve"} /\ Name(i) \notin NonNull
  <2>1. step'[i] = "done" /\ \A k \in DOMAIN log : log[k] # i
    BY <1>1, <1>9, <1>13 DEF Done, TypeOK
  <2>2. \A k \in DOMAIN log : step'[log[k]] \in {"effected", "done"}
    BY <1>3, <1>5, <1>9, <2>1
  <2>3. QED
    BY <1>8, <1>13, <2>1, <2>2
<1>14. QED
  BY <1>7, <1>10, <1>11, <1>12, <1>13, RunStepMoves

LEMMA RunInit == Init => RunInv
<1>1. SUFFICES ASSUME Init PROVE RunInv
  OBVIOUS
<1>2. DOMAIN <<>> = {}
  OBVIOUS
<1>3. QED
  BY <1>1, <1>2, ScopeInit DEF Init, RunInv, Sequential, InDocumentOrder, Logged, Passed,
     RefusedLeaveNothing, Explained, Started, Answered

LEMMA RunNext == RunInv /\ [Next]_vars => RunInv'
<1>1. SUFFICES ASSUME RunInv, [Next]_vars PROVE RunInv'
  OBVIOUS
<1>2. TypeOK /\ ScopeInv'
  BY <1>1, ScopeNext DEF RunInv, ScopeInv
<1> USE DEF walking, running
\* Steps that leave the run alone.
<1>3. ASSUME UNCHANGED <<doc, actor, running>>, Started', Answered' PROVE RunInv'
  BY <1>1, <1>2, <1>3 DEF RunInv, Sequential, InDocumentOrder, Logged, Passed,
     RefusedLeaveNothing, Explained, Name, May
<1>4. CASE UNCHANGED vars
  <2>1. Started' /\ Answered'
    BY <1>1, <1>4 DEF vars, RunInv, Started, Answered, Name
  <2>2. QED
    BY <1>3, <1>4, <2>1 DEF vars
<1>5. CASE WalkField \/ WalkMeta \/ WalkInline \/ WalkSpread \/ EnforceScopes \/ CollectFragment
           \/ CollectNothing
  <2>1. /\ stage \in {"walk", "collect"} /\ stage' \in {"walk", "collect"}
        /\ UNCHANGED <<doc, actor, running, answer>>
    BY <1>5 DEF WalkField, WalkMeta, WalkInline, WalkSpread, EnforceScopes, CollectFragment,
       CollectNothing, Walks, Collects
  <2>2. QED
    BY <1>1, <1>3, <2>1 DEF RunInv, Started, Answered
<1>6. CASE RefuseScopes
  <2>1. fields = <<>> /\ log = <<>> /\ DOMAIN fields = {}
    BY <1>1, <1>6 DEF RefuseScopes, RunInv, ScopeInv, NotYet, Started
  <2>2. QED
    BY <1>3, <1>6, <2>1 DEF RefuseScopes, Started, Answered
<1>7. CASE Execute
  BY <1>1, <1>3, <1>7 DEF Execute, RunInv, Started, Answered
<1>8. CASE Complete
  <2>1. Started'
    BY <1>1, <1>8 DEF Complete, RunInv, Started
  <2>2. Answered'
    BY <1>8 DEF Complete, Answered, Name
  <2>3. QED
    BY <1>3, <1>8, <2>1, <2>2 DEF Complete
<1>9. CASE CollectField
  <2>1. /\ fields \in Seq(Selection) /\ Next1 \in Selection /\ stage = "collect"
        /\ fields' = Append(fields, Next1) /\ step' = Append(step, "todo")
        /\ value' = Append(value, "none") /\ UNCHANGED <<stage, doc, actor, errors, log, answer>>
        /\ step \in [DOMAIN fields -> Steps] /\ value \in [DOMAIN fields -> {"none", "null", "value"}]
    BY <1>2, <1>9, NextTyped DEF CollectField, Collects, TypeOK
  <2>2. /\ log = <<>> /\ DOMAIN log = {} /\ answer = "none"
        /\ \A i \in DOMAIN fields : step[i] = "todo" /\ value[i] = "none"
    BY <1>1, <2>1 DEF RunInv, Started
  <2>3. DOMAIN fields' = DOMAIN fields \cup {Len(fields) + 1}
    <3>1. "todo" \in Steps
      BY DEF Steps
    <3>2. QED
      BY <2>1, <3>1, AppendNote
  <2>4. \A i \in DOMAIN fields' : step'[i] = "todo"
    <3>1. "todo" \in Steps
      BY DEF Steps
    <3>2. (\A i \in DOMAIN fields : step'[i] = step[i]) /\ step'[Len(fields) + 1] = "todo"
      BY <2>1, <3>1, AppendNote
    <3>3. QED
      BY <2>2, <2>3, <3>2
  <2>5. \A i \in DOMAIN fields' : value'[i] = "none"
    <3>1. (\A i \in DOMAIN fields : value'[i] = value[i]) /\ value'[Len(fields) + 1] = "none"
      BY <2>1, AppendNote
    <3>2. QED
      BY <2>2, <2>3, <3>1
  <2>6. QED
    BY <1>2, <2>1, <2>2, <2>4, <2>5 DEF RunInv, Sequential, InDocumentOrder, Logged, Passed,
       RefusedLeaveNothing, Explained, Started, Answered
<1>10. CASE Return \/ \E d \in Document, a \in Credential : Send(d, a)
  <2>1. /\ fields' = <<>> /\ log' = <<>> /\ stage' \in {"idle", "walk"} /\ answer' = "none"
        /\ DOMAIN fields' = {} /\ DOMAIN log' = {}
    BY <1>1, <1>10 DEF Return, Send, Reset, RunInv, ScopeInv, NotYet, Started
  <2>2. QED
    BY <1>2, <2>1 DEF RunInv, Sequential, InDocumentOrder, Logged, Passed,
       RefusedLeaveNothing, Explained, Started, Answered
<1>11. ASSUME NEW i \in DOMAIN fields, RunStep(i) PROVE RunInv'
  BY <1>1, <1>11, RunStepKeeps
<1>12. QED
  BY <1>1, <1>4, <1>5, <1>6, <1>7, <1>8, <1>9, <1>10, <1>11 DEF Next, Proceed, RunStep

\* InDocumentOrder: a field that has begun has every earlier one behind it.
THEOREM Orderly == Spec => []InDocumentOrder
<1>1. RunInv => InDocumentOrder
  BY DEF RunInv
<1>2. QED
  BY <1>1, RunInit, RunNext, PTL DEF Spec

\* RefusedLeaveNothing: nobody resolves what the directive did not let pass.
THEOREM NothingBehindTheDirective == Spec => []RefusedLeaveNothing
<1>1. RunInv => RefusedLeaveNothing
  BY DEF RunInv
<1>2. QED
  BY <1>1, RunInit, RunNext, PTL DEF Spec

\* NothingSilent: a null where none is legal has an error, and so has the null
\* of a field with an effect.
THEOREM EffectsAreShownOrExplained == Spec => []NothingSilent
<1>1. ASSUME RunInv PROVE NothingSilent
  <2>1. SUFFICES ASSUME stage = "answered", NEW k \in DOMAIN log
                 PROVE  errors # {} \/ (answer = "data" /\ value[log[k]] = "value")
    BY DEF NothingSilent
  <2>2. log[k] \in DOMAIN fields /\ step[log[k]] = "done" /\ answer \in {"none", "refused", "null", "data"}
    BY <1>1, <2>1 DEF RunInv, ScopeInv, TypeOK, Started
  <2>3. value[log[k]] = "value" \/ log[k] \in errors
    BY <1>1, <2>1, <2>2 DEF RunInv, Explained
  <2>4. CASE answer = "null"
    BY <1>1, <2>1, <2>4 DEF RunInv, Answered, Explained
  <2>5. CASE answer = "refused"
    BY <1>1, <2>1, <2>5 DEF RunInv, Started
  <2>6. QED
    BY <1>1, <2>1, <2>2, <2>3, <2>4, <2>5 DEF RunInv, Answered
<1>2. QED
  BY <1>1, RunInit, RunNext, PTL DEF Spec
=============================================================================
