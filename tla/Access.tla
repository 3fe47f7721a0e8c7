------------------------------ MODULE Access ------------------------------
(***************************************************************************)
(* The two doors and the one authorization model behind them. A request    *)
(* comes through the browser door, with the identity the proxy asserts, or *)
(* through the token door, with a Personal Access Token. It is             *)
(* authenticated once (internal/auth), which makes an actor of it; its     *)
(* operation passes the scope check (graph/scope.go) as a whole; then its  *)
(* root fields are resolved one by one, each behind @interactiveOnly and a *)
(* rule of internal/policy. Roles, accounts and tokens change meanwhile.   *)
(*                                                                         *)
(* What a field reads or writes beyond the tokens is other modules'        *)
(* business (People, Semester); here it is answered or it is refused. A    *)
(* credential that nobody was given (an unknown address or token, a wrong  *)
(* secret) is refused without a trace and does not appear.                 *)
(***************************************************************************)
EXTENDS Schema, Integers

CONSTANTS
  Person,    \* the rows of person
  NoPerson,  \* the nil id
  DevUser,   \* the development user's id, no row of person
  Token,     \* the token ids auth.Mint can draw
  Request,   \* the requests that can be under way
  Role,      \* the roles used in the run, some of policy.AllRoles
  Operation, \* the operations that are sent, each a set of root fields
  Assumable, \* the sets of X-Tallox-Assume-Roles; Role stands for no header
  Scoping,   \* the scope lists that tokens are asked for with
  Lifetime,  \* MinTokenDays..MaxTokenDays, or some of it
  Coarse,    \* the five minutes of MarkTokenUsed
  MaxMarks,  \* bound on the pending last-used writes of a token
  MaxTime    \* bound on the clock

ASSUME AccessAssumption ==
  /\ NoPerson \notin Person /\ DevUser \notin Person /\ DevUser # NoPerson
  /\ Token \cap (Person \cup {NoPerson}) = {}
  /\ Operation \subseteq (SUBSET Mutation) \cup (SUBSET (Field \ Mutation))
  /\ Assumable \subseteq SUBSET Role
  /\ Scoping \subseteq SUBSET Scope
  /\ Lifetime \subseteq Nat \ {0}
  /\ Coarse \in Nat /\ MaxMarks \in Nat /\ MaxTime \in Nat

Time == 0..MaxTime
Open == -1  \* a NULL in revoked_at or last_used_at

VARIABLES
  mode,     \* auth.Mode
  active,   \* [Person -> BOOLEAN]: person.active
  roles,    \* [Person -> SUBSET Role]: the unexpired grants
  owner,    \* [Token -> Person \cup {NoPerson}]: NoPerson is "no row"
  scopes,   \* [Token -> SUBSET Scope]
  expires,  \* [Token -> Nat]
  revoked,  \* [Token -> Time \cup {Open}]: revoked_at
  lastUsed, \* [Token -> Time \cup {Open}]: last_used_at
  marking,  \* [Token -> 0..MaxMarks]: goroutines of markUsed
  clock,
  stage,    \* [Request -> {"idle", "arrived", "gate", "run"}]
  door,     \* [Request -> {"browser", "token"}]
  who,      \* [Request -> Person \cup Token \cup {NoPerson}]: the credential
  assume,   \* [Request -> SUBSET Role]
  op,       \* [Request -> SUBSET Field]: the root fields of the operation
  todo,     \* [Request -> SUBSET Field]: those not yet resolved
  actor,    \* [Request -> Actor]: the principal in the request's context
  answered, \* history: the fields that were answered, what they do done
  window,   \* history: the fields that were due to the credential at some
            \* moment since the request arrived
  latest    \* history: [Token -> Time \cup {Open}], its last use of which the
            \* record has not been lost

people == <<active, roles>>
tokens == <<owner, scopes, expires, revoked>>
uses == <<lastUsed, marking, latest>>
sent == <<door, who, assume, op>>
request == <<stage, door, who, assume, op, todo, actor>>

-----------------------------------------------------------------------------
(* internal/principal and internal/policy: what an actor is, and may do. *)

Anonymous == [id |-> NoPerson, roles |-> {}, scopes |-> {}, kind |-> "none"]

Actor == {Anonymous} \cup
  [id : Person \cup {DevUser}, roles : SUBSET Role, scopes : SUBSET Scope,
   kind : {"interactive", "token"}]

Authenticated(a) == a.id # NoPerson

MayReadInteractiveOnly(a) == Authenticated(a) /\ a.kind = "interactive"

MayAdministerPeople(a) == MayReadInteractiveOnly(a) /\ "ADMIN" \in a.roles

MayAdministerSemesters(a) == Authenticated(a) /\ "DEANS_OFFICE" \in a.roles

MayPublishWishes(a) == MayReadInteractiveOnly(a) /\ "DEANS_OFFICE" \in a.roles

\* Narrow: held and selected.
Narrow(a, selected) == [a EXCEPT !.roles = @ \cap selected]

\* What the directive, and then the field's resolver and service, ask.
MayCall(a, f) ==
  /\ f \in InteractiveOnly => MayReadInteractiveOnly(a)
  /\ f \in AdminFields => MayAdministerPeople(a)
  /\ f \in {"createSemester", "advanceSemesterPhase"} => MayAdministerSemesters(a)
  /\ f = "publishWishes" => MayPublishWishes(a)
  /\ f \in TokenFields \cup {"semesters", "semester"} => Authenticated(a)

-----------------------------------------------------------------------------
(* What is due to a credential, by the three factors of the invariant,     *)
(* from the tables and not from an actor: role, scope, kind.               *)

Minted == {t \in Token : owner[t] # NoPerson}

Good(t) == t \in Minted /\ revoked[t] = Open /\ expires[t] > clock /\ active[owner[t]]

\* Everybody a request's credential speaks for: one person, or nobody.
Speaker(r) ==
  {p \in Person : /\ active[p]
                  /\ \/ door[r] = "browser" /\ who[r] = p
                     \/ door[r] = "token" /\ who[r] \in Token /\ Good(who[r]) /\ owner[who[r]] = p}

Developer(r) == mode = "dev" /\ door[r] = "browser" /\ who[r] = NoPerson

\* A role in force for the request.
HasRole(r, role) ==
  /\ role \in assume[r]
  /\ Developer(r) \/ \E p \in Speaker(r) : role \in roles[p]

DueTo(r) ==
  {f \in op[r] :
     /\ f \notin {"buildInfo"} \cup ProfileFields => Developer(r) \/ Speaker(r) # {}
     /\ f \in AdminFields => HasRole(r, "ADMIN")
     /\ f \in PlanningFields \cap Mutation => HasRole(r, "DEANS_OFFICE")
     /\ f \in InteractiveOnly => door[r] = "browser"
     /\ who[r] \in Token /\ f # "buildInfo" =>
          \/ scopes[who[r]] = {}
          \/ \E s \in scopes[who[r]] : Grants(s, RequiredScope(f))}

-----------------------------------------------------------------------------
TypeOK ==
  /\ mode \in {"dev", "proxy", "off-token"}
  /\ active \in [Person -> BOOLEAN]
  /\ roles \in [Person -> SUBSET Role]
  /\ owner \in [Token -> Person \cup {NoPerson}]
  /\ scopes \in [Token -> SUBSET Scope]
  /\ expires \in [Token -> Nat]
  /\ revoked \in [Token -> Time \cup {Open}]
  /\ lastUsed \in [Token -> Time \cup {Open}]
  /\ marking \in [Token -> 0..MaxMarks]
  /\ clock \in Time
  /\ stage \in [Request -> {"idle", "arrived", "gate", "run"}]
  /\ door \in [Request -> {"browser", "token"}]
  /\ who \in [Request -> Person \cup Token \cup {NoPerson}]
  /\ assume \in [Request -> SUBSET Role]
  /\ op \in [Request -> SUBSET Field]
  /\ todo \in [Request -> SUBSET Field]
  /\ actor \in [Request -> Actor]
  /\ answered \in [Request -> SUBSET Field]
  /\ window \in [Request -> SUBSET Field]
  /\ latest \in [Token -> Time \cup {Open}]

Init ==
  /\ mode \in {"dev", "proxy", "off-token"}
  /\ active \in [Person -> BOOLEAN]
  /\ roles \in [Person -> SUBSET Role]
  /\ owner = [t \in Token |-> NoPerson]
  /\ scopes = [t \in Token |-> {}]
  /\ expires = [t \in Token |-> 0]
  /\ revoked = [t \in Token |-> Open]
  /\ lastUsed = [t \in Token |-> Open]
  /\ marking = [t \in Token |-> 0]
  /\ clock = 0
  /\ stage = [r \in Request |-> "idle"]
  /\ door = [r \in Request |-> "browser"]
  /\ who = [r \in Request |-> NoPerson]
  /\ assume = [r \in Request |-> {}]
  /\ op = [r \in Request |-> {}]
  /\ todo = [r \in Request |-> {}]
  /\ actor = [r \in Request |-> Anonymous]
  /\ answered = [r \in Request |-> {}]
  /\ window = [r \in Request |-> {}]
  /\ latest = [t \in Token |-> Open]

-----------------------------------------------------------------------------
(* A request comes and goes. *)

\* The router: /api/graphql is not mounted in off-token, and the token door
\* does not look at X-Tallox-Assume-Roles.
Arrive(r) ==
  /\ stage[r] = "idle"
  /\ \E o \in Operation :
       /\ op' = [op EXCEPT ![r] = o]
       /\ todo' = [todo EXCEPT ![r] = o]
  /\ \/ \E p \in Person \cup {NoPerson}, R \in Assumable :
          /\ door' = [door EXCEPT ![r] = "browser"]
          /\ who' = [who EXCEPT ![r] = p]
          /\ assume' = [assume EXCEPT ![r] = R]
     \/ \E t \in Minted \cup {NoPerson} :
          /\ mode # "off-token"
          /\ door' = [door EXCEPT ![r] = "token"]
          /\ who' = [who EXCEPT ![r] = t]
          /\ assume' = [assume EXCEPT ![r] = Role]
  /\ stage' = [stage EXCEPT ![r] = "arrived"]
  /\ UNCHANGED <<mode, people, tokens, uses, clock, actor, answered>>

\* The response is written, or nobody waits for one any more.
Return(r) ==
  /\ stage' = [stage EXCEPT ![r] = "idle"]
  /\ door' = [door EXCEPT ![r] = "browser"]
  /\ who' = [who EXCEPT ![r] = NoPerson]
  /\ assume' = [assume EXCEPT ![r] = {}]
  /\ op' = [op EXCEPT ![r] = {}]
  /\ todo' = [todo EXCEPT ![r] = {}]
  /\ actor' = [actor EXCEPT ![r] = Anonymous]
  /\ answered' = [answered EXCEPT ![r] = {}]
  /\ UNCHANGED <<mode, people, tokens, uses, clock>>

\* The lookup fails (a 503), the client goes away, a field times out.
Abandon(r) == stage[r] # "idle" /\ Return(r)

-----------------------------------------------------------------------------
(* internal/auth: who is it? *)

DevelopmentActor ==
  [id |-> DevUser, roles |-> Role, scopes |-> {}, kind |-> "interactive"]

Interactive(p) ==
  [id |-> p, roles |-> roles[p], scopes |-> {}, kind |-> "interactive"]

\* Mutant: without a header, an actor that is nobody in particular.
AuthenticateProxyNobody(r) ==
  /\ stage[r] = "arrived" /\ door[r] = "browser"
  /\ who[r] \in Person => active[who[r]]
  /\ actor' = [actor EXCEPT ![r] =
       Narrow(IF who[r] \in Person THEN Interactive(who[r])
              ELSE [DevelopmentActor EXCEPT !.id = NoPerson], assume[r])]
  /\ stage' = [stage EXCEPT ![r] = "gate"]
  /\ UNCHANGED <<mode, people, tokens, uses, clock, sent, todo, answered>>

\* ProxyAuthenticator: the row and its roles are read in one statement.
AuthenticateProxy(r) ==
  /\ stage[r] = "arrived" /\ door[r] = "browser"
  /\ who[r] \in Person => active[who[r]]
  /\ actor' = [actor EXCEPT ![r] =
       IF who[r] \in Person THEN Narrow(Interactive(who[r]), assume[r])
       ELSE IF mode = "dev" THEN Narrow(DevelopmentActor, assume[r])
       ELSE Anonymous]
  /\ stage' = [stage EXCEPT ![r] = "gate"]
  /\ UNCHANGED <<mode, people, tokens, uses, clock, sent, todo, answered>>

TokenActor(t) ==
  [id |-> owner[t], roles |-> roles[owner[t]], scopes |-> scopes[t], kind |-> "token"]

\* Mutant: nobody asks whether the owner is still active.
AuthenticateTokenOfLeaver(r) ==
  LET t == who[r] IN
  /\ stage[r] = "arrived" /\ door[r] = "token"
  /\ t # NoPerson
  /\ revoked[t] = Open /\ expires[t] > clock
  /\ marking[t] < MaxMarks
  /\ marking' = [marking EXCEPT ![t] = @ + 1]
  /\ latest' = [latest EXCEPT ![t] = clock]
  /\ actor' = [actor EXCEPT ![r] = TokenActor(t)]
  /\ stage' = [stage EXCEPT ![r] = "gate"]
  /\ UNCHANGED <<mode, people, tokens, lastUsed, clock, sent, todo, answered>>

\* TokenAuthenticator: token, owner and the owner's roles in one statement;
\* the use is recorded by a goroutine of its own.
AuthenticateToken(r) ==
  LET t == who[r] IN
  /\ stage[r] = "arrived" /\ door[r] = "token"
  /\ t # NoPerson
  /\ revoked[t] = Open /\ expires[t] > clock /\ active[owner[t]]
  /\ marking[t] < MaxMarks
  /\ marking' = [marking EXCEPT ![t] = @ + 1]
  /\ latest' = [latest EXCEPT ![t] = clock]
  /\ actor' = [actor EXCEPT ![r] = TokenActor(t)]
  /\ stage' = [stage EXCEPT ![r] = "gate"]
  /\ UNCHANGED <<mode, people, tokens, lastUsed, clock, sent, todo, answered>>

\* No Authorization header: the anonymous actor.
AuthenticateNobody(r) ==
  /\ stage[r] = "arrived" /\ door[r] = "token"
  /\ who[r] = NoPerson
  /\ stage' = [stage EXCEPT ![r] = "gate"]
  /\ UNCHANGED <<mode, people, tokens, uses, clock, sent, todo, actor, answered>>

\* 401: ErrInactiveUser, ErrRevokedToken, ErrExpiredToken.
RefuseLogin(r) ==
  /\ stage[r] = "arrived"
  /\ \/ who[r] \in Person /\ ~active[who[r]]
     \/ who[r] \in Token /\ ~Good(who[r])
  /\ Return(r)

-----------------------------------------------------------------------------
(* graph/scope.go: is the credential in the way? *)

\* Mutant: one allowed field opens the door for the operation.
EnforceScopesOnce(r) ==
  /\ stage[r] = "gate"
  /\ \E f \in op[r] : ScopesAllow(actor[r], RequiredScope(f))
  /\ stage' = [stage EXCEPT ![r] = "run"]
  /\ UNCHANGED <<mode, people, tokens, uses, clock, sent, todo, actor, answered>>

EnforceScopes(r) ==
  /\ stage[r] = "gate"
  /\ \A f \in op[r] : ScopesAllow(actor[r], RequiredScope(f))
  /\ stage' = [stage EXCEPT ![r] = "run"]
  /\ UNCHANGED <<mode, people, tokens, uses, clock, sent, todo, actor, answered>>

\* INSUFFICIENT_SCOPE, for the whole operation.
RefuseScope(r) ==
  /\ stage[r] = "gate"
  /\ \E f \in op[r] : ~ScopesAllow(actor[r], RequiredScope(f))
  /\ Return(r)

-----------------------------------------------------------------------------
(* The fields, one by one: a query's in any order, a mutation's in turn. *)

Resolved(r, f) ==
  /\ stage[r] = "run"
  /\ f \in todo[r]
  /\ todo' = [todo EXCEPT ![r] = @ \ {f}]

\* A field that leaves the tokens alone.
AnswerField(r, f) ==
  /\ Resolved(r, f)
  /\ f \notin {"createPersonalAccessToken", "revokePersonalAccessToken"}
  /\ MayCall(actor[r], f)
  /\ answered' = [answered EXCEPT ![r] = @ \cup {f}]
  /\ UNCHANGED <<mode, people, tokens, uses, clock, stage, sent, actor>>

\* TokenService.Create: the actor is the owner. The development user has no
\* row for owner_id to refer to.
CreateToken(r, t, S, days) ==
  LET f == "createPersonalAccessToken" IN
  /\ Resolved(r, f)
  /\ MayCall(actor[r], f)
  /\ actor[r].id \in Person
  /\ t \notin Minted
  /\ owner' = [owner EXCEPT ![t] = actor[r].id]
  /\ scopes' = [scopes EXCEPT ![t] = S]
  /\ expires' = [expires EXCEPT ![t] = clock + days]
  /\ answered' = [answered EXCEPT ![r] = @ \cup {f}]
  /\ UNCHANGED <<mode, people, revoked, uses, clock, stage, sent, actor>>

\* Mutant: SET revoked_at = now(), without COALESCE.
RevokeTokenAgain(r, t) ==
  LET f == "revokePersonalAccessToken" IN
  /\ Resolved(r, f)
  /\ MayCall(actor[r], f)
  /\ t \in Minted /\ owner[t] = actor[r].id
  /\ revoked' = [revoked EXCEPT ![t] = clock]
  /\ answered' = [answered EXCEPT ![r] = @ \cup {f}]
  /\ UNCHANGED <<mode, people, owner, scopes, expires, uses, clock, stage, sent, actor>>

\* TokenService.Revoke: the caller's own, and the first moment stays.
RevokeToken(r, t) ==
  LET f == "revokePersonalAccessToken" IN
  /\ Resolved(r, f)
  /\ MayCall(actor[r], f)
  /\ t \in Minted /\ owner[t] = actor[r].id
  /\ revoked' = [revoked EXCEPT ![t] = IF @ = Open THEN clock ELSE @]
  /\ answered' = [answered EXCEPT ![r] = @ \cup {f}]
  /\ UNCHANGED <<mode, people, owner, scopes, expires, uses, clock, stage, sent, actor>>

\* An error or a null in the field's place: the directive or the rule says no,
\* or the arguments are no good. The fields after it are resolved all the same.
RefuseField(r, f) ==
  /\ Resolved(r, f)
  /\ f \in {"createPersonalAccessToken", "revokePersonalAccessToken"} \/ ~MayCall(actor[r], f)
  /\ UNCHANGED <<mode, people, tokens, uses, clock, stage, sent, actor, answered>>

Respond(r) == stage[r] = "run" /\ todo[r] = {} /\ Return(r)

-----------------------------------------------------------------------------
(* Meanwhile. *)

\* A statement of SetRoles, or a grant that runs out.
ChangeRoles(p, R) ==
  /\ R # roles[p]
  /\ roles' = [roles EXCEPT ![p] = R]
  /\ UNCHANGED <<mode, active, tokens, uses, clock, request, answered>>

ChangeActive(p) ==
  /\ active' = [active EXCEPT ![p] = ~@]
  /\ UNCHANGED <<mode, roles, tokens, uses, clock, request, answered>>

\* Mutant: only the first use is recorded.
MarkTokenUsedOnce(t) ==
  /\ marking[t] > 0
  /\ marking' = [marking EXCEPT ![t] = @ - 1]
  /\ lastUsed' = [lastUsed EXCEPT ![t] = IF @ = Open THEN clock ELSE @]
  /\ UNCHANGED <<mode, people, tokens, clock, request, answered, latest>>

\* markUsed's goroutine runs its UPDATE, whatever has become of the token.
MarkTokenUsed(t) ==
  /\ marking[t] > 0
  /\ marking' = [marking EXCEPT ![t] = @ - 1]
  /\ lastUsed' = [lastUsed EXCEPT ![t] =
                    IF @ = Open \/ @ < clock - Coarse THEN clock ELSE @]
  /\ UNCHANGED <<mode, people, tokens, clock, request, answered, latest>>

\* Its five seconds are over, or the pool is closed: nobody is told.
MarkFails(t) ==
  /\ marking[t] > 0
  /\ marking' = [marking EXCEPT ![t] = @ - 1]
  /\ latest' = [latest EXCEPT ![t] = Open]
  /\ UNCHANGED <<mode, people, tokens, clock, request, answered, lastUsed>>

\* The process ends, with what is under way, and starts with another -auth-mode.
Restart(m) ==
  /\ mode' = m
  /\ stage' = [r \in Request |-> "idle"]
  /\ door' = [r \in Request |-> "browser"]
  /\ who' = [r \in Request |-> NoPerson]
  /\ assume' = [r \in Request |-> {}]
  /\ op' = [r \in Request |-> {}]
  /\ todo' = [r \in Request |-> {}]
  /\ actor' = [r \in Request |-> Anonymous]
  /\ answered' = [r \in Request |-> {}]
  /\ marking' = [t \in Token |-> 0]
  /\ latest' = [t \in Token |-> IF marking[t] > 0 THEN Open ELSE latest[t]]
  /\ UNCHANGED <<people, tokens, lastUsed, clock>>

Tick ==
  /\ clock < MaxTime
  /\ clock' = clock + 1
  /\ UNCHANGED <<mode, people, tokens, uses, request, answered>>

-----------------------------------------------------------------------------
Step ==
  \/ \E r \in Request :
       \/ Arrive(r) \/ Abandon(r) \/ Respond(r)
       \/ AuthenticateProxy(r) \/ AuthenticateToken(r) \/ AuthenticateNobody(r)
       \/ RefuseLogin(r) \/ EnforceScopes(r) \/ RefuseScope(r)
       \/ \E f \in Field : AnswerField(r, f) \/ RefuseField(r, f)
       \/ \E t \in Token, S \in Scoping, d \in Lifetime : CreateToken(r, t, S, d)
       \/ \E t \in Token : RevokeToken(r, t)
  \/ \E p \in Person : ChangeActive(p) \/ \E R \in SUBSET Role : ChangeRoles(p, R)
  \/ \E t \in Token : MarkTokenUsed(t) \/ MarkFails(t)
  \/ \E m \in {"dev", "proxy", "off-token"} : Restart(m)
  \/ Tick

\* History: what became due to a request's credential while it was under way.
Watch ==
  window' = [r \in Request |->
    IF stage'[r] = "idle" THEN {}
    ELSE DueTo(r)' \cup (IF stage[r] = "idle" THEN {} ELSE window[r])]

Next == Step /\ Watch

vars == <<mode, active, roles, owner, scopes, expires, revoked, lastUsed, marking,
          clock, stage, door, who, assume, op, todo, actor, answered, window, latest>>

Spec == Init /\ [][Next]_vars

-----------------------------------------------------------------------------
(* Properties. *)

\* "Effective permission = role and scopes and kind", against the tables: a
\* field is answered only if, at some moment since the request arrived, it was
\* due to its credential. A role, an account or a token that was taken away
\* before a request came never answers it, whatever had been read, narrowed or
\* minted before (the authenticators, EnforceScopes, interactiveOnly, policy).
AnswersAreDue == \A r \in Request : answered[r] \subseteq window[r]

\* "A credential that cannot make the call has not made part of it": a request
\* whose token lacks a scope for one of its fields is answered none of them,
\* though the tokens' other fields would be allowed (EnforceScopes).
AllOrNothing ==
  \A r \in Request :
    who[r] \in Token /\ answered[r] # {} =>
      \A f \in op[r] \ {"buildInfo"} :
        scopes[who[r]] = {} \/ \E s \in scopes[who[r]] : Grants(s, RequiredScope(f))

\* "A leaked token cannot create its own successors": a token comes into being
\* only in a browser request of the person it belongs to, the directive being
\* all that stands between (createPersonalAccessToken, TokenService.Create).
NoSuccessors ==
  [][\A t \in Token : t \notin Minted /\ owner'[t] # NoPerson =>
       \E r \in Request : /\ door[r] = "browser" /\ who[r] = owner'[t]
                          /\ "createPersonalAccessToken" \in todo[r] \ todo'[r]]_vars

\* A token is fixed at creation, and once it is revoked it stays revoked since
\* that first moment, however many revocations race (RevokeTokenOfOwner).
TokensAreFixed ==
  [][\A t \in Minted :
       /\ owner'[t] = owner[t] /\ scopes'[t] = scopes[t] /\ expires'[t] = expires[t]
       /\ revoked[t] # Open => revoked'[t] = revoked[t]]_vars

\* last_used_at is right to within five minutes, in whatever order and however
\* late the goroutines write, unless a write was lost (markUsed, MarkTokenUsed).
LastUseKnown ==
  \A t \in Token :
    marking[t] = 0 /\ latest[t] # Open =>
      lastUsed[t] # Open /\ latest[t] <= lastUsed[t] + Coarse
=============================================================================
