--------------------------- MODULE AccessProofs ---------------------------
(***************************************************************************)
(* What holds of the two doors for every number of people, tokens and      *)
(* requests, for every schema operation, header and scope list: types,     *)
(* that an answer was due, that the scope check is all or nothing, that a  *)
(* token has no successors, and what becomes of a token.                   *)
(***************************************************************************)
EXTENDS Access, TLAPS

-----------------------------------------------------------------------------
(* Type correctness, for which a request's token has to exist. *)

CredentialsExist ==
  \A r \in Request :
    /\ door[r] = "token" => who[r] \in Minted \cup {NoPerson} /\ assume[r] = Role
    /\ door[r] = "browser" => who[r] \in Person \cup {NoPerson}

Typed == TypeOK /\ CredentialsExist

LEMMA TypedInit == Init => Typed
  BY AccessAssumption
  DEF Init, Typed, TypeOK, CredentialsExist, Time, Open, Actor, Anonymous

LEMMA MutationsAreFields == Mutation \subseteq Field
  BY
  DEF Mutation, Field, PlanningFields, TokenFields, AdminFields, TokenMutations,
      SemesterQueries, SemesterMutations, AdminQueries, PersonMutations, RightsMutations

\* The actors that authentication makes, and what narrowing leaves of them.
LEMMA ActorsAreActors ==
  ASSUME TypeOK
  PROVE  /\ Anonymous \in Actor
         /\ DevelopmentActor \in Actor
         /\ \A p \in Person : Interactive(p) \in Actor
         /\ \A t \in Minted : TokenActor(t) \in Actor
<1>1. Anonymous \in Actor
  BY DEF Actor
<1>2. DevelopmentActor \in Actor
  BY DEF DevelopmentActor, Actor
<1>3. ASSUME NEW p \in Person PROVE Interactive(p) \in Actor
  <2>1. roles[p] \in SUBSET Role
    BY DEF TypeOK
  <2>2. QED
    BY <2>1 DEF Interactive, Actor
<1>4. ASSUME NEW t \in Minted PROVE TokenActor(t) \in Actor
  <2>1. owner[t] \in Person /\ scopes[t] \in SUBSET Scope
    BY DEF Minted, TypeOK
  <2>2. roles[owner[t]] \in SUBSET Role
    BY <2>1 DEF TypeOK
  <2>3. QED
    BY <2>1, <2>2 DEF TokenActor, Actor
<1>5. QED
  BY <1>1, <1>2, <1>3, <1>4

LEMMA NarrowedActor ==
  ASSUME TypeOK, NEW R,
         NEW a \in [id : Person \cup {DevUser}, roles : SUBSET Role,
                    scopes : SUBSET Scope, kind : {"interactive", "token"}]
  PROVE  Narrow(a, R) \in Actor
  BY DEF Actor, Narrow

LEMMA WindowType == ASSUME TypeOK, op' \in [Request -> SUBSET Field], Watch
                    PROVE  window' \in [Request -> SUBSET Field]
<1>1. \A r \in Request : DueTo(r)' \subseteq op'[r]
  BY DEF DueTo
<1>2. \A r \in Request :
        DueTo(r)' \cup (IF stage[r] = "idle" THEN {} ELSE window[r]) \in SUBSET Field
  BY <1>1 DEF TypeOK
<1>3. \A r \in Request :
        (IF stage'[r] = "idle" THEN {}
         ELSE DueTo(r)' \cup (IF stage[r] = "idle" THEN {} ELSE window[r])) \in SUBSET Field
  BY <1>2
<1>4. QED
  BY <1>3 DEF Watch

\* Typed, without the history variable window.
Typed0 ==
  /\ mode \in {"dev", "proxy", "off-token"}
  /\ active \in [Person -> BOOLEAN]
  /\ roles \in [Person -> SUBSET Role]
  /\ owner \in [Token -> Person \cup {NoPerson}]
  /\ scopes \in [Token -> SUBSET Scope]
  /\ expires \in [Token -> Nat]
  /\ revoked \in [Token -> Time \cup {Open}]
  /\ lastUsed \in [Token -> Time \cup {Open}]
  /\ marking \in [Token -> 0..MaxMarks]
  /\ clock \in Time
  /\ stage \in [Request -> {"idle", "arrived", "gate", "run"}]
  /\ door \in [Request -> {"browser", "token"}]
  /\ who \in [Request -> Person \cup Token \cup {NoPerson}]
  /\ assume \in [Request -> SUBSET Role]
  /\ op \in [Request -> SUBSET Field]
  /\ todo \in [Request -> SUBSET Field]
  /\ actor \in [Request -> Actor]
  /\ answered \in [Request -> SUBSET Field]
  /\ latest \in [Token -> Time \cup {Open}]
  /\ CredentialsExist

LEMMA ReturnTyped == ASSUME Typed, NEW r \in Request, Return(r) PROVE Typed0'
<1>1. Anonymous \in Actor
  BY DEF Actor
<1>2. CredentialsExist'
  BY DEF Return, Typed, TypeOK, CredentialsExist, Minted, tokens
<1>3. QED
  BY <1>1, <1>2 DEF Return, Typed, TypeOK, Typed0, people, tokens, uses

LEMMA StepTyped == ASSUME Typed, Step PROVE Typed0'
<1>. USE DEF Typed, TypeOK
<1>1. ASSUME NEW r \in Request, Arrive(r) PROVE Typed0'
  <2>1. op' \in [Request -> SUBSET Field] /\ todo' \in [Request -> SUBSET Field]
    <3>1. \A o \in Operation : o \in SUBSET Field
      BY AccessAssumption, MutationsAreFields
    <3>2. QED
      BY <1>1, <3>1 DEF Arrive
  <2>2. /\ door' \in [Request -> {"browser", "token"}]
        /\ who' \in [Request -> Person \cup Token \cup {NoPerson}]
        /\ assume' \in [Request -> SUBSET Role]
    BY <1>1, AccessAssumption DEF Arrive, Minted
  <2>3. CredentialsExist'
    BY <1>1, AccessAssumption DEF Arrive, CredentialsExist, Minted, tokens
  <2>4. QED
    BY <1>1, <2>1, <2>2, <2>3 DEF Arrive, Typed0, people, tokens, uses
<1>2. ASSUME NEW r \in Request, \/ Abandon(r) \/ Respond(r) \/ RefuseLogin(r) \/ RefuseScope(r)
      PROVE  Typed0'
  BY <1>2, ReturnTyped DEF Abandon, Respond, RefuseLogin, RefuseScope
<1>3. ASSUME NEW r \in Request, AuthenticateProxy(r) PROVE Typed0'
  <2>1. actor'[r] \in Actor
    <3>1. CASE who[r] \in Person
      <4>1. Interactive(who[r]) \in [id : Person \cup {DevUser}, roles : SUBSET Role,
               scopes : SUBSET Scope, kind : {"interactive", "token"}]
        BY <3>1 DEF Interactive
      <4>2. QED
        BY <1>3, <3>1, <4>1, NarrowedActor DEF AuthenticateProxy
    <3>2. CASE who[r] \notin Person /\ mode = "dev"
      <4>1. DevelopmentActor \in [id : Person \cup {DevUser}, roles : SUBSET Role,
               scopes : SUBSET Scope, kind : {"interactive", "token"}]
        BY DEF DevelopmentActor
      <4>2. QED
        BY <1>3, <3>2, <4>1, NarrowedActor DEF AuthenticateProxy
    <3>3. CASE who[r] \notin Person /\ mode # "dev"
      BY <1>3, <3>3 DEF AuthenticateProxy, Actor
    <3>4. QED
      BY <3>1, <3>2, <3>3
  <2>2. actor' \in [Request -> Actor]
    BY <1>3, <2>1 DEF AuthenticateProxy
  <2>3. QED
    BY <1>3, <2>2
    DEF AuthenticateProxy, Typed0, CredentialsExist, Minted, people, tokens, uses, sent
<1>4. ASSUME NEW r \in Request, AuthenticateToken(r) PROVE Typed0'
  <2>1. who[r] \in Minted
    BY <1>4 DEF AuthenticateToken, CredentialsExist
  <2>2. TokenActor(who[r]) \in Actor
    BY <2>1, ActorsAreActors
  <2>3. actor' \in [Request -> Actor]
    BY <1>4, <2>2 DEF AuthenticateToken
  <2>4. marking' \in [Token -> 0..MaxMarks]
    BY <1>4, <2>1, AccessAssumption DEF AuthenticateToken, Minted
  <2>5. QED
    BY <1>4, <2>3, <2>4
    DEF AuthenticateToken, Typed0, CredentialsExist, Minted, people, tokens, sent
<1>5. ASSUME NEW r \in Request, AuthenticateNobody(r) \/ EnforceScopes(r) PROVE Typed0'
  BY <1>5 DEF AuthenticateNobody, EnforceScopes, Typed0, CredentialsExist, Minted,
              people, tokens, uses, sent
<1>6. ASSUME NEW r \in Request, NEW f \in Field, AnswerField(r, f) \/ RefuseField(r, f)
      PROVE  Typed0'
  BY <1>6 DEF AnswerField, RefuseField, Resolved, Typed0, CredentialsExist, Minted,
              people, tokens, uses, sent
<1>7. ASSUME NEW r \in Request, NEW t \in Token, NEW S \in Scoping, NEW d \in Lifetime,
             CreateToken(r, t, S, d)
      PROVE  Typed0'
  <2>1. S \in SUBSET Scope /\ clock + d \in Nat
    BY AccessAssumption DEF Time
  <2>2. CredentialsExist'
    BY <1>7, AccessAssumption DEF CreateToken, CredentialsExist, Minted, sent
  <2>3. answered' \in [Request -> SUBSET Field]
    BY <1>7 DEF CreateToken, Resolved
  <2>4. QED
    BY <1>7, <2>1, <2>2, <2>3 DEF CreateToken, Resolved, Typed0, people, uses, sent
<1>8. ASSUME NEW r \in Request, NEW t \in Token, RevokeToken(r, t) PROVE Typed0'
  <2>1. answered' \in [Request -> SUBSET Field]
    BY <1>8 DEF RevokeToken, Resolved
  <2>2. QED
    BY <1>8, <2>1
    DEF RevokeToken, Resolved, Typed0, CredentialsExist, Minted, people, uses, sent
<1>9. ASSUME NEW p \in Person, NEW R \in SUBSET Role, ChangeActive(p) \/ ChangeRoles(p, R)
      PROVE  Typed0'
  BY <1>9 DEF ChangeActive, ChangeRoles, Typed0, CredentialsExist, Minted, tokens, uses, request
<1>10. ASSUME NEW t \in Token, MarkTokenUsed(t) \/ MarkFails(t) PROVE Typed0'
  <2>1. marking' \in [Token -> 0..MaxMarks]
    BY <1>10, AccessAssumption DEF MarkTokenUsed, MarkFails
  <2>2. QED
    BY <1>10, <2>1 DEF MarkTokenUsed, MarkFails, Typed0, CredentialsExist, Minted,
                       people, tokens, request
<1>11. ASSUME NEW m \in {"dev", "proxy", "off-token"}, Restart(m) PROVE Typed0'
  <2>1. /\ marking' \in [Token -> 0..MaxMarks]
        /\ latest' \in [Token -> Time \cup {Open}]
    BY <1>11, AccessAssumption DEF Restart
  <2>2. Anonymous \in Actor
    BY DEF Actor
  <2>3. CredentialsExist'
    BY <1>11 DEF Restart, CredentialsExist
  <2>4. QED
    BY <1>11, <2>1, <2>2, <2>3 DEF Restart, Typed0, people, tokens
<1>12. ASSUME Tick PROVE Typed0'
  <2>1. clock' \in Time
    BY <1>12, AccessAssumption DEF Tick, Time
  <2>2. QED
    BY <1>12, <2>1 DEF Tick, Typed0, CredentialsExist, Minted, people, tokens, uses, request
<1>13. QED
  BY <1>1, <1>2, <1>3, <1>4, <1>5, <1>6, <1>7, <1>8, <1>9, <1>10, <1>11, <1>12 DEF Step

LEMMA TypedNext == Typed /\ [Next]_vars => Typed'
<1>1. ASSUME Typed, Next PROVE Typed'
  <2>1. Typed0'
    BY <1>1, StepTyped DEF Next
  <2>2. window' \in [Request -> SUBSET Field]
    BY <1>1, <2>1, WindowType DEF Next, Typed, Typed0
  <2>3. QED
    BY <2>1, <2>2 DEF Typed, TypeOK, Typed0
<1>2. ASSUME Typed, UNCHANGED vars PROVE Typed'
  BY <1>2 DEF vars, Typed, TypeOK, CredentialsExist, Minted
<1>3. QED
  BY <1>1, <1>2

\* Every reachable state is well typed: an actor is a person of the table, the
\* development user or nobody, whatever authentication and narrowing make of it.
THEOREM TypeCorrect == Spec => []TypeOK
<1>1. Typed => TypeOK
  BY DEF Typed
<1>2. QED
  BY <1>1, TypedInit, TypedNext, PTL DEF Spec

-----------------------------------------------------------------------------
(* What becomes of a token. *)

LEMMA TokensStay ==
  ASSUME Typed, Next
  PROVE  \A t \in Minted :
           /\ owner'[t] = owner[t] /\ scopes'[t] = scopes[t] /\ expires'[t] = expires[t]
           /\ revoked[t] # Open => revoked'[t] = revoked[t]
<1>1. ASSUME NEW r \in Request, NEW u \in Token, NEW S \in Scoping, NEW d \in Lifetime,
             CreateToken(r, u, S, d), NEW t \in Minted
      PROVE  /\ owner'[t] = owner[t] /\ scopes'[t] = scopes[t] /\ expires'[t] = expires[t]
             /\ revoked'[t] = revoked[t]
  BY <1>1 DEF CreateToken, Typed, TypeOK, Minted
<1>2. ASSUME NEW r \in Request, NEW u \in Token, RevokeToken(r, u), NEW t \in Minted
      PROVE  /\ owner'[t] = owner[t] /\ scopes'[t] = scopes[t] /\ expires'[t] = expires[t]
             /\ revoked[t] # Open => revoked'[t] = revoked[t]
  BY <1>2 DEF RevokeToken, Typed, TypeOK, Minted
<1>3. CASE UNCHANGED tokens
  BY <1>3 DEF tokens
<1>4. QED
  BY <1>1, <1>2, <1>3
  DEF Next, Step, Arrive, Abandon, Respond, AuthenticateProxy, AuthenticateToken,
      AuthenticateNobody, RefuseLogin, EnforceScopes, RefuseScope, Return,
      AnswerField, RefuseField, ChangeRoles, ChangeActive, MarkTokenUsed, MarkFails,
      Restart, Tick

\* A token keeps its owner, its scopes and its expiry, and the moment it was
\* revoked, however many requests create and revoke tokens at once
\* (TokenService.Create, RevokeTokenOfOwner).
THEOREM FixedTokens == Spec => TokensAreFixed
<1>1. Typed /\ [Next]_vars =>
        [\A t \in Minted :
           /\ owner'[t] = owner[t] /\ scopes'[t] = scopes[t] /\ expires'[t] = expires[t]
           /\ revoked[t] # Open => revoked'[t] = revoked[t]]_vars
  BY TokensStay
<1>2. QED
  BY <1>1, TypedInit, TypedNext, PTL DEF Spec, TokensAreFixed

\* Uses are recorded in the past.
UsesArePast == \A t \in Token : latest[t] # Open => latest[t] <= clock

UseInv == Typed /\ UsesArePast /\ LastUseKnown

LEMMA UseInit == Init => UsesArePast /\ LastUseKnown
  BY DEF Init, UsesArePast, LastUseKnown

LEMMA UseNext ==
  ASSUME UseInv, Next
  PROVE  UsesArePast' /\ LastUseKnown'
<1>. USE AccessAssumption DEF UseInv, Typed, TypeOK, UsesArePast, LastUseKnown, Time, Open
<1>1. ASSUME NEW r \in Request, AuthenticateToken(r) PROVE UsesArePast' /\ LastUseKnown'
  BY <1>1 DEF AuthenticateToken
<1>2. ASSUME NEW u \in Token, MarkTokenUsed(u) PROVE UsesArePast' /\ LastUseKnown'
  <2>1. \/ lastUsed'[u] = clock
        \/ lastUsed'[u] = lastUsed[u] /\ lastUsed[u] # Open /\ clock <= lastUsed[u] + Coarse
    BY <1>2 DEF MarkTokenUsed
  <2>2. QED
    BY <1>2, <2>1 DEF MarkTokenUsed
<1>3. ASSUME NEW u \in Token, MarkFails(u) PROVE UsesArePast' /\ LastUseKnown'
  BY <1>3 DEF MarkFails
<1>4. ASSUME NEW m \in {"dev", "proxy", "off-token"}, Restart(m)
      PROVE  UsesArePast' /\ LastUseKnown'
  BY <1>4 DEF Restart
<1>5. CASE Tick
  BY <1>5 DEF Tick, uses
<1>6. CASE UNCHANGED <<uses, clock>>
  BY <1>6 DEF uses
<1>7. QED
  BY <1>1, <1>2, <1>3, <1>4, <1>5, <1>6
  DEF Next, Step, Arrive, Abandon, Respond, AuthenticateProxy, AuthenticateNobody,
      RefuseLogin, EnforceScopes, RefuseScope, Return, AnswerField, RefuseField,
      CreateToken, RevokeToken, ChangeRoles, ChangeActive

\* last_used_at is no further off than the coarseness of the UPDATE, however
\* late the goroutines of markUsed run and in whatever order.
THEOREM UseRecorded == Spec => []LastUseKnown
<1>1. UseInv /\ [Next]_vars => UseInv'
  <2>1. ASSUME UseInv, Next PROVE UseInv'
    BY <2>1, UseNext, TypedNext DEF UseInv
  <2>2. ASSUME UseInv, UNCHANGED vars PROVE UseInv'
    BY <2>2, TypedNext DEF UseInv, UsesArePast, LastUseKnown, vars
  <2>3. QED
    BY <2>1, <2>2
<1>2. Init => UseInv
  BY TypedInit, UseInit DEF UseInv
<1>3. UseInv => LastUseKnown
  BY DEF UseInv
<1>4. QED
  BY <1>1, <1>2, <1>3, PTL DEF Spec

-----------------------------------------------------------------------------
(* What a request may still be answered. From the moment it is             *)
(* authenticated, every field that its actor's scopes and the rules let    *)
(* through has been due to its credential; that is all the rest rests on,  *)
(* for nothing afterwards looks at the tables again.                       *)

Passes(r, f) == ScopesAllow(actor[r], RequiredScope(f)) /\ MayCall(actor[r], f)

\* The actor is what the credential makes it.
ActorFits(r) ==
  /\ door[r] = "token" => actor[r].kind # "interactive"
  /\ who[r] \in Token => actor[r].kind = "token" /\ actor[r].scopes = scopes[who[r]]
  /\ door[r] = "browser" => actor[r].id \in {who[r], NoPerson, DevUser}

Sound(r) ==
  /\ answered[r] \subseteq window[r]
  /\ todo[r] \subseteq op[r]
  /\ stage[r] # "run" => answered[r] = {}
  /\ stage[r] \in {"idle", "arrived"} => actor[r] = Anonymous
  /\ stage[r] \in {"gate", "run"} =>
       ActorFits(r) /\ \A f \in op[r] : Passes(r, f) => f \in window[r]
  /\ stage[r] = "run" => \A f \in op[r] : ScopesAllow(actor[r], RequiredScope(f))

RequestInv == Typed /\ \A r \in Request : Sound(r)

\* Only the public area is beyond the scopes.
LEMMA PublicField ==
  ASSUME NEW f \in Field
  PROVE  RequiredScope(f).area = "PUBLIC" <=> f = "buildInfo"
<1>1. CASE f = "buildInfo"
  BY <1>1
  DEF RequiredScope, ProfileFields, PlanningFields, TokenFields, AdminFields,
      TokenMutations, SemesterQueries, SemesterMutations, AdminQueries, PersonMutations,
      RightsMutations
<1>2. CASE f \in ProfileFields
  BY <1>2 DEF RequiredScope, ProfileFields
<1>3. CASE f \in PlanningFields
  BY <1>3 DEF RequiredScope, ProfileFields, PlanningFields, SemesterQueries, SemesterMutations
<1>4. CASE f \in TokenFields
  BY <1>4
  DEF RequiredScope, ProfileFields, PlanningFields, TokenFields, TokenMutations,
      SemesterQueries, SemesterMutations
<1>5. CASE f \in AdminFields
  BY <1>5
  DEF RequiredScope, ProfileFields, PlanningFields, TokenFields, AdminFields,
      TokenMutations, SemesterQueries, SemesterMutations, AdminQueries, PersonMutations,
      RightsMutations
<1>6. QED
  BY <1>1, <1>2, <1>3, <1>4, <1>5 DEF Field

\* The rules ask for somebody, except for the build and the profile.
LEMMA SomebodyAsked ==
  ASSUME NEW a, NEW f \in Field, MayCall(a, f), f \notin {"buildInfo"} \cup ProfileFields
  PROVE  Authenticated(a)
<1>1. CASE f \in AdminFields \cup TokenFields
  BY <1>1 DEF MayCall, MayAdministerPeople, MayReadInteractiveOnly
<1>2. CASE f \in PlanningFields
  BY <1>2
  DEF MayCall, PlanningFields, MayAdministerSemesters, MayPublishWishes, SemesterQueries,
      SemesterMutations,
              MayReadInteractiveOnly
<1>3. QED
  BY <1>1, <1>2 DEF Field

\* The roles and the kind the rules ask for.
LEMMA RolesAsked ==
  ASSUME NEW a, NEW f \in Field, MayCall(a, f)
  PROVE  /\ f \in AdminFields => "ADMIN" \in a.roles
         /\ f \in PlanningFields \cap Mutation => "DEANS_OFFICE" \in a.roles
         /\ f \in InteractiveOnly => a.kind = "interactive"
<1>1. f \in PlanningFields \cap Mutation =>
        f \in {"createSemester", "advanceSemesterPhase", "publishWishes"}
  <2>1. "semesters" \notin Mutation /\ "semester" \notin Mutation
    BY DEF Mutation, SemesterMutations, TokenMutations, PersonMutations, RightsMutations
  <2>2. QED
    BY <2>1 DEF PlanningFields, SemesterQueries, SemesterMutations
<1>2. f \in {"createSemester", "advanceSemesterPhase", "publishWishes"} => "DEANS_OFFICE" \in a.roles
  BY DEF MayCall, MayAdministerSemesters, MayPublishWishes
<1>3. QED
  BY <1>1, <1>2 DEF MayCall, MayAdministerPeople, MayReadInteractiveOnly

\* Nobody is answered only what is due to everybody.
LEMMA NobodyIsDue ==
  ASSUME Typed, NEW r \in Request, who[r] \notin Token, NEW f \in op[r], MayCall(Anonymous, f)
  PROVE  f \in DueTo(r)
<1>1. f \in Field
  BY DEF Typed, TypeOK
<1>2. f \in {"buildInfo"} \cup ProfileFields
  BY <1>1, SomebodyAsked DEF Authenticated, Anonymous
<1>3. f \notin AdminFields /\ f \notin PlanningFields /\ f \notin InteractiveOnly
  BY <1>2
  DEF ProfileFields, AdminFields, PlanningFields, InteractiveOnly, TokenFields,
      TokenMutations, SemesterQueries, SemesterMutations, AdminQueries, PersonMutations,
      RightsMutations
<1>4. QED
  BY <1>2, <1>3 DEF DueTo

LEMMA BrowserActorIsDue ==
  ASSUME Typed, NEW r \in Request, AuthenticateProxy(r),
         NEW f \in op[r], MayCall(actor'[r], f)
  PROVE  f \in DueTo(r)
<1>1. f \in Field
  BY DEF Typed, TypeOK
<1>2. door[r] = "browser" /\ who[r] \notin Token
  BY AccessAssumption DEF AuthenticateProxy, Typed, CredentialsExist
<1>3. CASE who[r] \in Person
  <2>1. who[r] \in Speaker(r)
    BY <1>2, <1>3 DEF Speaker, AuthenticateProxy
  <2>2. actor'[r].roles = roles[who[r]] \cap assume[r]
    BY <1>3 DEF AuthenticateProxy, Narrow, Interactive, Typed, TypeOK
  <2>3. QED
    BY <1>1, <1>2, <2>1, <2>2, RolesAsked DEF DueTo, HasRole
<1>4. CASE who[r] \notin Person /\ mode = "dev"
  <2>1. Developer(r)
    BY <1>2, <1>4 DEF Developer, Typed, CredentialsExist
  <2>2. actor'[r].roles = Role \cap assume[r]
    BY <1>4 DEF AuthenticateProxy, Narrow, DevelopmentActor, Typed, TypeOK
  <2>3. QED
    BY <1>1, <1>2, <2>1, <2>2, RolesAsked DEF DueTo, HasRole
<1>5. CASE who[r] \notin Person /\ mode # "dev"
  <2>1. actor'[r] = Anonymous
    BY <1>5 DEF AuthenticateProxy, Typed, TypeOK
  <2>2. QED
    BY <1>2, <2>1, NobodyIsDue
<1>6. QED
  BY <1>3, <1>4, <1>5

LEMMA TokenActorIsDue ==
  ASSUME Typed, NEW r \in Request, AuthenticateToken(r),
         NEW f \in op[r], MayCall(actor'[r], f), ScopesAllow(actor'[r], RequiredScope(f))
  PROVE  f \in DueTo(r)
<1>1. f \in Field /\ who[r] \in Minted
  BY DEF Typed, TypeOK, AuthenticateToken, CredentialsExist
<1>2. actor'[r] = TokenActor(who[r])
  BY DEF AuthenticateToken, Typed, TypeOK
<1>3. owner[who[r]] \in Person /\ owner[who[r]] \in Speaker(r)
  BY <1>1 DEF AuthenticateToken, Speaker, Good, Minted, Typed, TypeOK
<1>4. \A role \in actor'[r].roles : role \in assume[r] /\ role \in roles[owner[who[r]]]
  BY <1>1, <1>2, <1>3 DEF AuthenticateToken, Typed, TypeOK, CredentialsExist, TokenActor
<1>5. f \notin InteractiveOnly
  BY <1>1, <1>2, RolesAsked DEF TokenActor
<1>6. f \notin AdminFields
  BY <1>5 DEF InteractiveOnly
<1>7. QED
  <2>1. f \in PlanningFields \cap Mutation => HasRole(r, "DEANS_OFFICE")
    BY <1>1, <1>3, <1>4, RolesAsked DEF HasRole
  <2>2. f # "buildInfo" => \/ scopes[who[r]] = {}
                          \/ \E s \in scopes[who[r]] : Grants(s, RequiredScope(f))
    BY <1>1, <1>2, PublicField DEF TokenActor, ScopesAllow
  <2>3. QED
    BY <1>1, <1>3, <1>5, <1>6, <2>1, <2>2 DEF DueTo

-----------------------------------------------------------------------------
(* The invariant is inductive. *)

LEMMA RequestInit == Init => RequestInv
  BY TypedInit DEF Init, RequestInv, Sound

\* A step that lets go of a request leaves nothing to be unsound.
LEMMA ReturnSound ==
  ASSUME Typed, Typed', Watch, NEW r \in Request,
         stage'[r] = "idle", answered'[r] = {}, todo'[r] = {}, actor'[r] = Anonymous
  PROVE  Sound(r)'
BY DEF Sound, Watch, Typed, TypeOK

\* A step that is another's, or that only shortens what is to be done.
LEMMA Undisturbed ==
  ASSUME Typed, Typed', Watch, NEW r \in Request, Sound(r),
         stage'[r] = stage[r], door'[r] = door[r], who'[r] = who[r], op'[r] = op[r],
         actor'[r] = actor[r], todo'[r] \subseteq todo[r], answered'[r] = answered[r],
         \A t \in Minted : scopes'[t] = scopes[t]
  PROVE  Sound(r)'
<1>1. CASE stage[r] = "idle"
  BY <1>1 DEF Sound, Typed, TypeOK
<1>2. CASE stage[r] # "idle"
  <2>1. window[r] \subseteq window'[r]
    BY <1>2 DEF Watch
  <2>2. ActorFits(r) => ActorFits(r)'
    BY AccessAssumption DEF ActorFits, Typed, CredentialsExist, TypeOK, Minted
  <2>3. \A f \in op[r] : Passes(r, f) <=> Passes(r, f)'
    BY DEF Passes
  <2>4. QED
    BY <1>2, <2>1, <2>2, <2>3 DEF Sound
<1>3. QED
  BY <1>1, <1>2

\* A request that answers a field which its actor may call.
LEMMA AnsweringSound ==
  ASSUME Typed, Typed', Watch, NEW r \in Request, Sound(r),
         stage[r] = "run", stage'[r] = "run",
         door'[r] = door[r], who'[r] = who[r], op'[r] = op[r], actor'[r] = actor[r],
         NEW f \in todo[r], MayCall(actor[r], f),
         todo'[r] \subseteq todo[r], answered'[r] = answered[r] \cup {f},
         \A t \in Minted : scopes'[t] = scopes[t]
  PROVE  Sound(r)'
<1>1. window[r] \subseteq window'[r]
  BY DEF Watch
<1>2. ActorFits(r)'
  BY AccessAssumption DEF Sound, ActorFits, Typed, CredentialsExist, TypeOK, Minted
<1>3. \A g \in op[r] : Passes(r, g) <=> Passes(r, g)'
  BY DEF Passes
<1>4. f \in op[r] /\ Passes(r, f)
  BY DEF Sound, Passes
<1>5. QED
  BY <1>1, <1>2, <1>3, <1>4 DEF Sound

\* Authentication: what passes is due at this moment.
LEMMA AuthenticatedSound ==
  ASSUME Typed, Typed', Watch, NEW r \in Request, Sound(r),
         AuthenticateProxy(r) \/ AuthenticateToken(r) \/ AuthenticateNobody(r)
  PROVE  Sound(r)'
<1>0. /\ stage[r] = "arrived" /\ stage'[r] = "gate"
      /\ todo'[r] = todo[r] /\ answered'[r] = answered[r]
      /\ door'[r] = door[r] /\ who'[r] = who[r] /\ op'[r] = op[r] /\ scopes' = scopes
      /\ DueTo(r)' = DueTo(r)
  <2>1. ASSUME AuthenticateProxy(r) \/ AuthenticateToken(r) \/ AuthenticateNobody(r)
        PROVE  /\ mode' = mode /\ active' = active /\ roles' = roles /\ owner' = owner
               /\ scopes' = scopes /\ expires' = expires /\ revoked' = revoked
               /\ clock' = clock /\ door' = door /\ who' = who /\ assume' = assume /\ op' = op
               /\ todo' = todo /\ answered' = answered
               /\ stage[r] = "arrived" /\ stage'[r] = "gate"
    BY <2>1 DEF AuthenticateProxy, AuthenticateToken, AuthenticateNobody,
                people, tokens, sent, Typed, TypeOK
  <2>2. DueTo(r)' = DueTo(r)
    BY <2>1 DEF DueTo, Speaker, Good, Minted, Developer, HasRole
  <2>3. QED
    BY <2>1, <2>2
<1>1. window'[r] = DueTo(r) \cup window[r]
  BY <1>0 DEF Watch, Typed, TypeOK
<1>2. ActorFits(r)'
  <2>1. CASE AuthenticateProxy(r)
    <3>1. actor'[r].id \in {who[r], NoPerson, DevUser}
      BY <2>1 DEF AuthenticateProxy, Narrow, Interactive, DevelopmentActor, Anonymous,
                  Typed, TypeOK
    <3>2. door[r] = "browser" /\ who[r] \notin Token
      BY <2>1, AccessAssumption DEF AuthenticateProxy, Typed, CredentialsExist
    <3>3. QED
      BY <1>0, <3>1, <3>2 DEF ActorFits
  <2>2. CASE AuthenticateToken(r)
    BY <1>0, <2>2 DEF ActorFits, AuthenticateToken, TokenActor, Typed, TypeOK
  <2>3. CASE AuthenticateNobody(r)
    <3>1. actor'[r] = Anonymous /\ who[r] = NoPerson /\ door[r] = "token"
      BY <2>3 DEF AuthenticateNobody, Sound
    <3>2. QED
      BY <1>0, <3>1, AccessAssumption DEF ActorFits, Anonymous
  <2>4. QED
    BY <2>1, <2>2, <2>3
<1>3. \A f \in op[r] : Passes(r, f)' => f \in window'[r]
  <2>1. CASE AuthenticateNobody(r)
    <3>1. actor'[r] = Anonymous /\ who[r] \notin Token
      BY <2>1, AccessAssumption DEF AuthenticateNobody, Sound
    <3>2. QED
      BY <1>0, <1>1, <3>1, NobodyIsDue DEF Passes
  <2>2. CASE AuthenticateProxy(r)
    BY <1>0, <1>1, <2>2, BrowserActorIsDue DEF Passes
  <2>3. CASE AuthenticateToken(r)
    BY <1>0, <1>1, <2>3, TokenActorIsDue DEF Passes
  <2>4. QED
    BY <2>1, <2>2, <2>3
<1>4. QED
  BY <1>0, <1>1, <1>2, <1>3 DEF Sound

LEMMA StepSound ==
  ASSUME RequestInv, Next, NEW r \in Request
  PROVE  Sound(r)'
<1>. Typed /\ Typed' /\ Watch /\ Sound(r) /\ \A t \in Minted : scopes'[t] = scopes[t]
  BY TypedNext, TokensStay DEF RequestInv, Next
<1>. DEFINE Left(q) == /\ stage'[q] = stage[q] /\ door'[q] = door[q] /\ who'[q] = who[q]
                       /\ op'[q] = op[q] /\ actor'[q] = actor[q]
                       /\ todo'[q] \subseteq todo[q] /\ answered'[q] = answered[q]
<1>1. Left(r) => Sound(r)'
  BY Undisturbed
<1>2. ASSUME NEW q \in Request, Return(q) PROVE Sound(r)'
  <2>1. CASE q = r
    BY <1>2, <2>1, ReturnSound DEF Return, Typed, TypeOK
  <2>2. CASE q # r
    BY <1>1, <1>2, <2>2 DEF Return, Typed, TypeOK
  <2>3. QED
    BY <2>1, <2>2
<1>3. ASSUME NEW q \in Request, Arrive(q) PROVE Sound(r)'
  <2>1. CASE q = r
    <3>1. /\ stage[r] = "idle" /\ stage'[r] = "arrived" /\ todo'[r] = op'[r]
          /\ answered'[r] = answered[r] /\ actor'[r] = actor[r]
      BY <1>3, <2>1 DEF Arrive, Typed, TypeOK
    <3>2. QED
      BY <3>1 DEF Sound
  <2>2. CASE q # r
    <3>1. Left(r)
      BY <1>3, <2>2 DEF Arrive, Typed, TypeOK
    <3>2. QED
      BY <1>1, <3>1
  <2>3. QED
    BY <2>1, <2>2
<1>4. ASSUME NEW q \in Request,
             AuthenticateProxy(q) \/ AuthenticateToken(q) \/ AuthenticateNobody(q)
      PROVE  Sound(r)'
  <2>1. CASE q = r
    BY <1>4, <2>1, AuthenticatedSound
  <2>2. CASE q # r
    BY <1>1, <1>4, <2>2 DEF AuthenticateProxy, AuthenticateToken, AuthenticateNobody, sent,
                            Typed, TypeOK
  <2>3. QED
    BY <2>1, <2>2
<1>5. ASSUME NEW q \in Request, EnforceScopes(q) PROVE Sound(r)'
  <2>1. CASE q = r
    <3>1. /\ stage[r] = "gate" /\ stage'[r] = "run"
          /\ door'[r] = door[r] /\ who'[r] = who[r] /\ op'[r] = op[r] /\ actor'[r] = actor[r]
          /\ todo'[r] = todo[r] /\ answered'[r] = answered[r]
          /\ \A f \in op[r] : ScopesAllow(actor[r], RequiredScope(f))
      BY <1>5, <2>1 DEF EnforceScopes, sent, Typed, TypeOK
    <3>2. window[r] \subseteq window'[r]
      BY <3>1 DEF Watch
    <3>3. ActorFits(r)'
      BY <3>1, AccessAssumption DEF Sound, ActorFits, Typed, CredentialsExist, TypeOK, Minted
    <3>4. \A f \in op[r] : Passes(r, f) <=> Passes(r, f)'
      BY <3>1 DEF Passes
    <3>5. QED
      BY <3>1, <3>2, <3>3, <3>4 DEF Sound
  <2>2. CASE q # r
    BY <1>1, <1>5, <2>2 DEF EnforceScopes, sent, Typed, TypeOK
  <2>3. QED
    BY <2>1, <2>2
<1>6. ASSUME NEW q \in Request, NEW f \in Field, Resolved(q, f), MayCall(actor[q], f),
             answered' = [answered EXCEPT ![q] = @ \cup {f}], UNCHANGED <<stage, sent, actor>>
      PROVE  Sound(r)'
  <2>1. CASE q = r
    <3>1. /\ stage[r] = "run" /\ f \in todo[r] /\ todo'[r] \subseteq todo[r]
          /\ answered'[r] = answered[r] \cup {f}
      BY <1>6, <2>1 DEF Resolved, Typed, TypeOK
    <3>2. QED
      BY <1>6, <2>1, <3>1, AnsweringSound DEF sent
  <2>2. CASE q # r
    BY <1>1, <1>6, <2>2 DEF Resolved, sent, Typed, TypeOK
  <2>3. QED
    BY <2>1, <2>2
<1>7. ASSUME NEW q \in Request, NEW f \in Field, RefuseField(q, f) PROVE Sound(r)'
  BY <1>1, <1>7 DEF RefuseField, Resolved, sent, Typed, TypeOK
<1>8. ASSUME NEW m \in {"dev", "proxy", "off-token"}, Restart(m) PROVE Sound(r)'
  BY <1>8, ReturnSound DEF Restart
<1>9. CASE UNCHANGED <<request, answered>>
  BY <1>1, <1>9 DEF request
<1>10. ASSUME NEW q \in Request,
              \/ Arrive(q) \/ Abandon(q) \/ Respond(q)
              \/ AuthenticateProxy(q) \/ AuthenticateToken(q) \/ AuthenticateNobody(q)
              \/ RefuseLogin(q) \/ EnforceScopes(q) \/ RefuseScope(q)
       PROVE  Sound(r)'
  BY <1>2, <1>3, <1>4, <1>5, <1>10 DEF Abandon, Respond, RefuseLogin, RefuseScope
<1>11. ASSUME NEW q \in Request, NEW f \in Field, AnswerField(q, f) \/ RefuseField(q, f)
       PROVE  Sound(r)'
  BY <1>6, <1>7, <1>11 DEF AnswerField
<1>12. ASSUME NEW q \in Request, NEW t \in Token,
              \/ RevokeToken(q, t)
              \/ \E S \in Scoping, d \in Lifetime : CreateToken(q, t, S, d)
       PROVE  Sound(r)'
  BY <1>6, <1>12 DEF CreateToken, RevokeToken, Field, TokenFields, TokenMutations
<1>13. ASSUME \/ \E p \in Person : ChangeActive(p) \/ \E R \in SUBSET Role : ChangeRoles(p, R)
              \/ \E t \in Token : MarkTokenUsed(t) \/ MarkFails(t)
              \/ Tick
       PROVE  Sound(r)'
  BY <1>9, <1>13 DEF ChangeRoles, ChangeActive, MarkTokenUsed, MarkFails, Tick
<1>14. Step
  BY DEF Next
<1>15. QED
  BY <1>8, <1>10, <1>11, <1>12, <1>13, <1>14 DEF Step

LEMMA RequestNext == RequestInv /\ [Next]_vars => RequestInv'
<1>1. ASSUME RequestInv, Next PROVE RequestInv'
  BY <1>1, StepSound, TypedNext DEF RequestInv
<1>2. ASSUME RequestInv, UNCHANGED vars PROVE RequestInv'
  <2>1. \A r \in Request : Sound(r)'
    BY <1>2 DEF RequestInv, Sound, ActorFits, Passes, vars
  <2>2. QED
    BY <1>2, <2>1, TypedNext DEF RequestInv
<1>3. QED
  BY <1>1, <1>2

\* A field is answered only if it was due to the request's credential, by the
\* tables, at some moment since the request arrived: what is true at
\* authentication and is not looked at again (interactiveOnly, policy).
THEOREM Due == Spec => []AnswersAreDue
<1>1. RequestInv => AnswersAreDue
  BY DEF RequestInv, Sound, AnswersAreDue
<1>2. QED
  BY <1>1, RequestInit, RequestNext, PTL DEF Spec

\* A token that lacks a scope for one field of an operation is answered none
\* of them (EnforceScopes).
THEOREM WholeOperations == Spec => []AllOrNothing
<1>1. RequestInv => AllOrNothing
  <2>1. ASSUME RequestInv, NEW r \in Request, who[r] \in Token, answered[r] # {},
               NEW f \in op[r] \ {"buildInfo"}
        PROVE  scopes[who[r]] = {} \/ \E s \in scopes[who[r]] : Grants(s, RequiredScope(f))
    <3>1. /\ ScopesAllow(actor[r], RequiredScope(f))
          /\ actor[r].kind = "token" /\ actor[r].scopes = scopes[who[r]]
      BY <2>1 DEF RequestInv, Sound, ActorFits, Typed, TypeOK
    <3>2. RequiredScope(f).area # "PUBLIC"
      BY <2>1, PublicField DEF RequestInv, Typed, TypeOK
    <3>3. QED
      BY <3>1, <3>2 DEF ScopesAllow
  <2>2. QED
    BY <2>1 DEF AllOrNothing
<1>2. QED
  BY <1>1, RequestInit, RequestNext, PTL DEF Spec

\* A token is minted only in a browser request of the person it belongs to: a
\* token's actor is never interactive (interactiveOnly, TokenService.Create).
THEOREM NoToken == Spec => NoSuccessors
<1>1. ASSUME RequestInv, Next, NEW t \in Token, t \notin Minted, owner'[t] # NoPerson
      PROVE  \E r \in Request : /\ door[r] = "browser" /\ who[r] = owner'[t]
                                /\ "createPersonalAccessToken" \in todo[r] \ todo'[r]
  <2>1. PICK r \in Request, u \in Token, S \in Scoping, d \in Lifetime : CreateToken(r, u, S, d)
    <3>1. owner' # owner
      BY <1>1 DEF Minted
    <3>2. QED
      BY <1>1, <3>1
      DEF Next, Step, Arrive, Abandon, Respond, AuthenticateProxy, AuthenticateToken,
          AuthenticateNobody, RefuseLogin, EnforceScopes, RefuseScope, Return,
          AnswerField, RefuseField, RevokeToken, ChangeRoles, ChangeActive,
          MarkTokenUsed, MarkFails, Restart, Tick, tokens
  <2>2. owner'[t] = actor[r].id /\ actor[r].id \in Person
    BY <1>1, <2>1 DEF CreateToken, RequestInv, Typed, TypeOK, Minted
  <2>3. actor[r].kind = "interactive"
    <3>1. "createPersonalAccessToken" \in InteractiveOnly
      BY DEF InteractiveOnly, TokenFields, TokenMutations
    <3>2. QED
      BY <2>1, <3>1 DEF CreateToken, MayCall, MayReadInteractiveOnly
  <2>4. door[r] = "browser" /\ who[r] = actor[r].id
    BY <1>1, <2>1, <2>2, <2>3, AccessAssumption
    DEF CreateToken, Resolved, RequestInv, Sound, ActorFits, Typed, TypeOK
  <2>5. "createPersonalAccessToken" \in todo[r] \ todo'[r]
    BY <1>1, <2>1 DEF CreateToken, Resolved, RequestInv, Typed, TypeOK
  <2>6. QED
    BY <2>2, <2>4, <2>5
<1>2. RequestInv /\ [Next]_vars =>
        [\A t \in Token : t \notin Minted /\ owner'[t] # NoPerson =>
           \E r \in Request : /\ door[r] = "browser" /\ who[r] = owner'[t]
                              /\ "createPersonalAccessToken" \in todo[r] \ todo'[r]]_vars
  BY <1>1
<1>3. QED
  BY <1>2, RequestInit, RequestNext, PTL DEF Spec, NoSuccessors
=============================================================================
