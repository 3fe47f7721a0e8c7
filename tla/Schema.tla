------------------------------ MODULE Schema ------------------------------
(***************************************************************************)
(* The GraphQL schema: its root fields, what the generated code knows of   *)
(* each (arguments, directive, nullability), their @scope annotations, and *)
(* what a credential's scopes allow.                                       *)
(***************************************************************************)

\* graph/*.graphqls, area by area.
ProfileFields == {"me", "session"}

SemesterQueries == {"semesters", "semester"}
SemesterMutations == {"createSemester", "advanceSemesterPhase", "publishWishes"}
PlanningFields == SemesterQueries \cup SemesterMutations

TokenMutations == {"createPersonalAccessToken", "revokePersonalAccessToken"}
TokenFields == {"myTokens"} \cup TokenMutations

AdminQueries == {"people", "person", "roleGrants", "diagnoseAccess"}
PersonMutations == {"createPerson", "renamePerson"}
RightsMutations == {"setPersonRoles", "setPersonActive"}
AdminFields == AdminQueries \cup PersonMutations \cup RightsMutations

Field == {"buildInfo"} \cup ProfileFields \cup PlanningFields \cup TokenFields \cup AdminFields

Mutation == SemesterMutations \cup TokenMutations \cup PersonMutations \cup RightsMutations

\* Mutant: the annotation is missing from token management.
InteractiveOnlyButTokens == AdminFields \cup {"publishWishes"}

InteractiveOnly == TokenFields \cup AdminFields \cup {"publishWishes"}

\* The fields whose arguments have to be unmarshalled first.
ArguedQueries == {"people", "person", "roleGrants", "diagnoseAccess", "semester"}
Argued == ArguedQueries \cup Mutation

\* The fields in whose place a null is not a legal value.
NonNull == {"buildInfo", "session", "semesters"} \cup Mutation

-----------------------------------------------------------------------------
(* Scopes. *)

ScopeArea == {"PUBLIC", "PROFILE", "PLANNING", "TOKENS", "ADMIN"}
Scope == [area : ScopeArea, verb : {"READ", "WRITE"}]

\* scopeOf: the annotated area, and WRITE for whatever a mutation does.
RequiredScope(f) ==
  [area |-> CASE f = "buildInfo" -> "PUBLIC"
              [] f \in ProfileFields -> "PROFILE"
              [] f \in PlanningFields -> "PLANNING"
              [] f \in TokenFields -> "TOKENS"
              [] f \in AdminFields -> "ADMIN",
   verb |-> IF f \in Mutation THEN "WRITE" ELSE "READ"]

\* ScopeFallback: what is needed where nothing is known.
ScopeFallback == [area |-> "ADMIN", verb |-> "WRITE"]

\* Scope.Grants: WRITE implies READ, within one area.
Grants(s, want) == s.area = want.area /\ s.verb \in {want.verb, "WRITE"}

\* ScopesAllow: only tokens carry scopes, an empty list narrows nothing, and
\* PUBLIC cannot be narrowed away.
ScopesAllow(a, want) ==
  \/ a.kind # "token"
  \/ a.scopes = {}
  \/ want.area = "PUBLIC"
  \/ \E s \in a.scopes : Grants(s, want)
=============================================================================
