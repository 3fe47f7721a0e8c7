----------------------------- MODULE Execution -----------------------------
(***************************************************************************)
(* One GraphQL operation: the scope check's walk over the document, which  *)
(* runs before anything else, and the execution of what the document       *)
(* selects, in which the root fields are collected again, by gqlgen's      *)
(* rules, and resolved: a query's at the same time, a mutation's in turn.  *)
(*                                                                         *)
(* A document is validated before it comes here: its fields exist, its     *)
(* fragments do not go in circles, one response key means one field. What  *)
(* a resolver does is other modules' business; here it has an effect on    *)
(* the database or has none, and answers, or errs, or panics.              *)
(***************************************************************************)
EXTENDS Schema, Integers, Sequences

CONSTANTS
  SetName,    \* the selection sets of a document: "op", fragments, inline ones
  Document,   \* the documents that are sent
  Credential  \* what a principal brings: [kind, scopes]

Kind == {"interactive", "token", "none"}

\* A field is selected under a response key; "set" is what a fragment holds.
\* "on" is what its @skip and @include say.
Selection ==
  [kind : {"field"}, name : Field \cup {"__typename"}, key : STRING, on : BOOLEAN]
    \cup [kind : {"inline", "spread"}, set : SetName, on : BOOLEAN]

ASSUME ExecutionAssumption ==
  /\ "op" \in SetName
  /\ Document \subseteq [write : BOOLEAN, sets : [SetName -> Seq(Selection)]]
  /\ \A d \in Document, n \in SetName : \A i \in DOMAIN d.sets[n] :
       d.sets[n][i].kind = "field" /\ d.sets[n][i].name \in Field =>
         (d.sets[n][i].name \in Mutation <=> d.write)
  /\ Credential \subseteq [kind : Kind, scopes : SUBSET Scope]

VARIABLES
  stage,    \* {"idle", "walk", "collect", "run", "answered"}
  doc,      \* the operation
  actor,    \* its principal
  agenda,   \* the selections still to be looked at
  visited,  \* the fragments that were spread
  required, \* the scopes found
  known,    \* whether the walk recognised anything
  fields,   \* the root fields to execute, merged by response key
  step,     \* how far each has come
  value,    \* what stands in its place
  errors,   \* the fields with an error in the response
  answer,   \* "none", "refused", or the response's data: "null" or "data"
  log,      \* history: the fields that have changed the database, in order
  reached   \* history: the selection sets the walk has opened

walking == <<agenda, visited>>
running == <<fields, step, value, errors, log>>

Steps == {"todo", "gate", "resolve", "effected", "done"}

Documents == [write : BOOLEAN, sets : [SetName -> Seq(Selection)]]

NoDocument == [write |-> FALSE, sets |-> [n \in SetName |-> <<>>]]
Nobody == [kind |-> "none", scopes |-> {}]

TypeOK ==
  /\ stage \in {"idle", "walk", "collect", "run", "answered"}
  /\ doc \in Document \cup {NoDocument}
  /\ actor \in Credential \cup {Nobody}
  /\ agenda \in Seq(Selection)
  /\ visited \subseteq SetName
  /\ required \subseteq Scope
  /\ known \in BOOLEAN
  /\ fields \in Seq(Selection)
  /\ step \in [DOMAIN fields -> Steps]
  /\ value \in [DOMAIN fields -> {"none", "null", "value"}]
  /\ errors \subseteq DOMAIN fields
  /\ answer \in {"none", "refused", "null", "data"}
  /\ log \in Seq(DOMAIN fields)
  /\ reached \subseteq SetName

Init ==
  /\ stage = "idle"
  /\ doc = NoDocument
  /\ actor = Nobody
  /\ agenda = <<>>
  /\ visited = {}
  /\ required = {}
  /\ known = FALSE
  /\ fields = <<>>
  /\ step = <<>>
  /\ value = <<>>
  /\ errors = {}
  /\ answer = "none"
  /\ log = <<>>
  /\ reached = {}

Send(d, a) ==
  /\ stage = "idle"
  /\ stage' = "walk"
  /\ doc' = d
  /\ actor' = a
  /\ agenda' = d.sets["op"]
  /\ reached' = {"op"}
  /\ UNCHANGED <<visited, required, known, running, answer>>

\* An operation has an execution context of its own.
Reset ==
  /\ fields' = <<>>
  /\ step' = <<>>
  /\ value' = <<>>
  /\ log' = <<>>
  /\ errors' = {}

\* The response is written.
Return ==
  /\ stage = "answered"
  /\ stage' = "idle"
  /\ doc' = NoDocument
  /\ actor' = Nobody
  /\ agenda' = <<>>
  /\ visited' = {}
  /\ required' = {}
  /\ known' = FALSE
  /\ Reset
  /\ answer' = "none"
  /\ reached' = {}

-----------------------------------------------------------------------------
(* graph/scope.go: what does the operation need? @skip and @include are    *)
(* not looked at, and neither are response keys.                           *)

Next1 == Head(agenda)  \* the selection that is looked at
Walks(kind) == stage = "walk" /\ agenda # <<>> /\ Next1.kind = kind

\* "Not a query" is a write, whatever the annotation says.
WalkField ==
  /\ Walks("field")
  /\ Next1.name \in Field
  /\ required' = required \cup
       {[RequiredScope(Next1.name) EXCEPT !.verb = IF doc.write THEN "WRITE" ELSE @]}
  /\ known' = TRUE
  /\ agenda' = Tail(agenda)
  /\ UNCHANGED <<stage, doc, actor, visited, running, answer, reached>>

\* Introspection carries no scope.
WalkMeta ==
  /\ Walks("field")
  /\ Next1.name \notin Field
  /\ known' = TRUE
  /\ agenda' = Tail(agenda)
  /\ UNCHANGED <<stage, doc, actor, visited, required, running, answer, reached>>

\* Mutant: the fields of an inline fragment are not looked for.
WalkPastInline ==
  /\ Walks("inline")
  /\ agenda' = Tail(agenda)
  /\ UNCHANGED <<stage, doc, actor, visited, required, known, running, answer, reached>>

WalkInline ==
  /\ Walks("inline")
  /\ agenda' = doc.sets[Next1.set] \o Tail(agenda)
  /\ reached' = reached \cup {Next1.set}
  /\ UNCHANGED <<stage, doc, actor, visited, required, known, running, answer>>

\* A name is followed once.
WalkSpread ==
  /\ Walks("spread")
  /\ agenda' = IF Next1.set \in visited THEN Tail(agenda)
               ELSE doc.sets[Next1.set] \o Tail(agenda)
  /\ visited' = visited \cup {Next1.set}
  /\ reached' = reached \cup {Next1.set}
  /\ UNCHANGED <<stage, doc, actor, required, known, running, answer>>

\* Nothing found in a mutation, or nothing recognised at all: fail closed.
Needed == IF required = {} /\ (doc.write \/ ~known) THEN {ScopeFallback} ELSE required

EnforceScopes ==
  /\ stage = "walk" /\ agenda = <<>>
  /\ \A s \in Needed : ScopesAllow(actor, s)
  /\ stage' = "collect"
  /\ agenda' = doc.sets["op"]
  /\ visited' = {}
  /\ UNCHANGED <<doc, actor, required, known, running, answer, reached>>

RefuseScopes ==
  /\ stage = "walk" /\ agenda = <<>>
  /\ \E s \in Needed : ~ScopesAllow(actor, s)
  /\ stage' = "answered"
  /\ answer' = "refused"
  /\ UNCHANGED <<doc, actor, walking, required, known, running, reached>>

-----------------------------------------------------------------------------
(* graphql.CollectFields: what does the operation select? *)

Collects(kind) == stage = "collect" /\ agenda # <<>> /\ Next1.kind = kind

Keys == {fields[i].key : i \in DOMAIN fields}

CollectField ==
  /\ Collects("field")
  /\ Next1.on /\ Next1.key \notin Keys
  /\ fields' = Append(fields, Next1)
  /\ step' = Append(step, "todo")
  /\ value' = Append(value, "none")
  /\ agenda' = Tail(agenda)
  /\ UNCHANGED <<stage, doc, actor, visited, required, known, errors, log, answer, reached>>

CollectFragment ==
  /\ Collects("inline") \/ Collects("spread")
  /\ Next1.on
  /\ Next1.kind = "spread" => Next1.set \notin visited
  /\ agenda' = doc.sets[Next1.set] \o Tail(agenda)
  /\ visited' = IF Next1.kind = "spread" THEN visited \cup {Next1.set} ELSE visited
  /\ UNCHANGED <<stage, doc, actor, required, known, running, answer, reached>>

\* Skipped, merged with a field that has the key, or spread before.
CollectNothing ==
  /\ stage = "collect" /\ agenda # <<>>
  /\ \/ ~Next1.on
     \/ Next1.kind = "field" /\ Next1.key \in Keys
     \/ Next1.kind = "spread" /\ Next1.set \in visited
  /\ agenda' = Tail(agenda)
  /\ UNCHANGED <<stage, doc, actor, visited, required, known, running, answer, reached>>

Execute ==
  /\ stage = "collect" /\ agenda = <<>>
  /\ stage' = "run"
  /\ UNCHANGED <<doc, actor, walking, required, known, running, answer, reached>>

-----------------------------------------------------------------------------
(* The root fields. *)

frame == <<stage, doc, actor, walking, required, known, answer, reached>>

Name(i) == fields[i].name

\* Mutant: the fields of a mutation run like those of a query.
AnyTurn(i) == stage = "run" /\ step[i] = "todo"

\* _Mutation resolves a field in the loop, _Query in a goroutine of its own.
Turn(i) ==
  /\ stage = "run" /\ step[i] = "todo"
  /\ doc.write => \A j \in DOMAIN fields : j < i => step[j] = "done"

Done(i, v) ==
  /\ step' = [step EXCEPT ![i] = "done"]
  /\ value' = [value EXCEPT ![i] = v]

\* An error takes the field's place.
Err(i) ==
  /\ Done(i, "null")
  /\ errors' = errors \cup {i}
  /\ UNCHANGED <<frame, fields, log>>

\* __typename needs nobody.
AnswerTypename(i) ==
  /\ Turn(i)
  /\ Name(i) \notin Field
  /\ Done(i, "value")
  /\ UNCHANGED <<frame, fields, errors, log>>

ParseArguments(i) ==
  /\ Turn(i)
  /\ Name(i) \in Field
  /\ step' = [step EXCEPT ![i] = "gate"]
  /\ UNCHANGED <<frame, fields, value, errors, log>>

\* A date or a number that cannot be unmarshalled: neither the directive nor
\* the resolver gets to run.
RefuseArguments(i) == Turn(i) /\ Name(i) \in Argued /\ Err(i)

\* interactiveOnly, where the generated code wraps the field in it.
May(i) == Name(i) \in InteractiveOnly => actor.kind = "interactive"

PassDirective(i) ==
  /\ step[i] = "gate"
  /\ May(i)
  /\ step' = [step EXCEPT ![i] = "resolve"]
  /\ UNCHANGED <<frame, fields, value, errors, log>>

\* A null that is legal is all the answer there is; elsewhere it is an error.
HideField(i) ==
  /\ step[i] = "gate"
  /\ ~May(i) /\ Name(i) \notin NonNull
  /\ Done(i, "null")
  /\ UNCHANGED <<frame, fields, errors, log>>

RefuseField(i) == step[i] = "gate" /\ ~May(i) /\ Name(i) \in NonNull /\ Err(i)

Resolving(i) == step[i] \in {"resolve", "effected"}

\* The resolver's call changes the database, in one statement or in several.
Effect(i) ==
  /\ step[i] = "resolve"
  /\ Name(i) \in Mutation
  /\ step' = [step EXCEPT ![i] = "effected"]
  /\ log' = Append(log, i)
  /\ UNCHANGED <<frame, fields, value, errors>>

Succeed(i) ==
  /\ Resolving(i)
  /\ Done(i, "value")
  /\ UNCHANGED <<frame, fields, errors, log>>

\* Nobody there, or nobody signed in: null, and no error.
AnswerNull(i) ==
  /\ step[i] = "resolve"
  /\ Name(i) \in {"person", "diagnoseAccess", "semester", "me"}
  /\ Done(i, "null")
  /\ UNCHANGED <<frame, fields, errors, log>>

\* Mutant: a failure that has no code of its own is swallowed.
FailQuietly(i) ==
  /\ Resolving(i)
  /\ Done(i, "null")
  /\ UNCHANGED <<frame, fields, errors, log>>

\* The service refuses or fails, before or after it changed something: the
\* error is mapped (userFacing, peopleFacing, semesterUserFacing).
Fail(i) == Resolving(i) /\ Err(i)

\* Mutant: a resolver that panicked is called again.
PanicRetried(i) ==
  /\ step[i] = "resolve"
  /\ step' = [step EXCEPT ![i] = "todo"]
  /\ UNCHANGED <<frame, fields, value, errors, log>>

\* A panic is recovered and becomes an error of its field.
Panic(i) == Resolving(i) /\ Err(i)

Complete ==
  /\ stage = "run"
  /\ \A i \in DOMAIN fields : step[i] = "done"
  /\ stage' = "answered"
  /\ answer' = IF \E i \in DOMAIN fields : Name(i) \in NonNull /\ value[i] = "null"
               THEN "null" ELSE "data"
  /\ UNCHANGED <<doc, actor, walking, required, known, running, reached>>

-----------------------------------------------------------------------------
\* What is done for an operation once it is there.
Proceed ==
  \/ WalkField \/ WalkMeta \/ WalkInline \/ WalkSpread \/ EnforceScopes \/ RefuseScopes
  \/ CollectField \/ CollectFragment \/ CollectNothing \/ Execute
  \/ \E i \in DOMAIN fields :
       \/ AnswerTypename(i) \/ ParseArguments(i) \/ RefuseArguments(i)
       \/ PassDirective(i) \/ HideField(i) \/ RefuseField(i)
       \/ Effect(i) \/ Succeed(i) \/ AnswerNull(i) \/ Fail(i) \/ Panic(i)
  \/ Complete

Next ==
  \/ \E d \in Document, a \in Credential : Send(d, a)
  \/ Proceed
  \/ Return

vars == <<stage, doc, actor, agenda, visited, required, known, fields, step, value,
          errors, answer, log, reached>>

Spec == Init /\ [][Next]_vars

\* The goroutines are scheduled, and a statement ends.
FairSpec == Spec /\ WF_vars(Proceed)

-----------------------------------------------------------------------------
(* Properties. *)

\* No field begins to be resolved, and none changes the database, unless the
\* credential's scopes allow it: what the walk finds is all that is executed,
\* through whatever fragments, response keys, @skip and @include it is reached
\* (requiredScopes against graphql.CollectFields).
NothingUnchecked ==
  \A i \in DOMAIN fields :
    step[i] # "todo" /\ Name(i) \in Field => ScopesAllow(actor, RequiredScope(Name(i)))

\* A mutation's fields take effect in the document's order, one after another
\* and each at most once, whichever of them fail (_Mutation).
InDocumentOrder == \A j, k \in DOMAIN log : j < k => log[j] < log[k]

\* What the directive refuses leaves nothing behind: a token, and nobody, do
\* not change anything through a field that is interactive only, though their
\* scopes allow it and the other fields of the operation run (interactiveOnly).
RefusedLeaveNothing ==
  \A k \in DOMAIN log : Name(log[k]) \in InteractiveOnly => actor.kind = "interactive"

\* A mutation goes on after a field has failed, and one null takes all the data
\* with it; but whoever is not shown what a field has done is given an error
\* (_Mutation, marshalN, the error mappings).
NothingSilent ==
  stage = "answered" =>
    \A k \in DOMAIN log : errors # {} \/ (answer = "data" /\ value[log[k]] = "value")

\* Every operation is answered, whatever its resolvers do (the recovery of a
\* panic, Dispatch).
OperationsAreAnswered == stage = "walk" ~> stage = "answered"
=============================================================================
