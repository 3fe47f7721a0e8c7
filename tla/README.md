# Tallox, in TLA+

Specifications of `tallox.go`, the GraphQL backend of a university's teaching planning, in
Go on PostgreSQL. They are written from the code under `src/`; where a doc or a comment says
something else, the code is modelled and the difference is listed under *Findings*.

## The system

| component | state | operations | what must hold |
|---|---|---|---|
| last-administrator guard (`internal/store/people.go`, `bootstrap.go`, `db/queries/person.sql`) | `person.active`, the ADMIN rows of `person_role`, row locks | `RevokeRole(ADMIN)`, `SetPersonActive(false)` in a guarding transaction; `GrantRole`, `SetPersonActive(true)` without one; `reconcileOne` at every start | somebody can administer the installation; guards exclude each other; no call waits forever |
| user administration (`internal/domain/people.go`) | `person`, `person_role` | create, rename, (de)activate, set roles | the set that was sent is the set that is held; expiries stay |
| semester workflow (`internal/domain/semester.go`, `internal/store/semesters.go`) | `semester` | create, switch phase, publish wishes | no switch is lost or doubled; publication is once and for good |
| doors (`internal/auth`) | the auth mode, the request's actor | browser door by `X-Remote-User`, token door by bearer token | a credential is what it was at authentication, and no more |
| authorization (`graph/scope.go`, `graph/directives.go`, `internal/policy`) | none | scope check per operation, `@interactiveOnly` and a rule per field | role, scope and kind all allow what is answered |
| tokens (`internal/domain/token.go`, `internal/store/tokens.go`, `internal/auth/token.go`) | `personal_access_token` | mint, list, revoke, mark as used | fixed at creation, revoked for good, no successors; the text is read back |
| GraphQL execution (`graph/generated`, from gqlgen) | the operation's fields, values and errors | walk, collect, execute, complete | what was checked is what runs; every effect is shown or explained |
| wish visibility (`internal/policy/wish.go`, `diagnose`) | none | guard, filter, narrowing, diagnosis | they agree, narrowing narrows, nothing is hidden again |
| startup, shutdown, migrations (`bootstrap`, `internal/store/migrate.go`) | the schema version, the migration lock, the pool | configure, migrate, reconcile, serve, drain, close | in this order; whoever serves has its schema and has let its list in; it ends |

The components meet in the tables: setting roles and (de)activating go through the guard; a
start reconciles; a request is judged by the roles, the account and the token as they were
read once. Every request runs in a goroutine of its own; the statements of two requests
interleave at PostgreSQL's READ COMMITTED. Hard are therefore: statements of two
transactions in an order nobody tried, snapshots and `now()` older than the lock that was
waited for, loops of autocommitted statements that stop half way, decisions from state read
earlier, last-used writes that outlive their request, two walks over one document by
different rules, mutations of which one field fails, and starts and stops in the middle of all that.
`PROJECT.json` lists these hazards with their lines.

## The modules

| module | models |
|---|---|
| `AdminGuard` | the guard and the reconciliation, one action per SQL statement |
| `AdminRegistry` | what they promise: an atomic set of administrators |
| `Semester` | the semester workflow: a read, a conditional write, a second read |
| `SemesterProcess` | what it promises: neighbouring phases, one publication |
| `People` | creating, (de)activating, setting roles, one action per statement |
| `Schema` | the root fields, their annotations and what the generated code knows of them; scopes |
| `Access` | two doors, scope check, fields, tokens; extends `Schema` |
| `TokenText` | the text of a token, beside the tokens of `Access` |
| `Execution` | one operation: the walk of the scope check, the collection and the execution; extends `Schema` |
| `WishVisibility` | the wish rule in its two forms, narrowing and the diagnosis, over the states of `Semester` |
| `Startup` | `Serve`, in several processes at once |
| `SchemaHistory` | what migrating promises: the migrations in order, each once |
| `MC...` | the instances that are model-checked |
| `...Proofs` | theorems about the module they are named after (`WishProofs`: `WishVisibility`) |

**AdminGuard.** A connection (`Conn`) of the pool runs one transaction at a time; `stage` is
the statement it runs next: `Begin` (fixes `now()` in `since`), `StartLock`, `LockRow` and
`Locked` for `LockAdminGrants`, `CountOthers`, `CheckHarmless` or `Refuse`, `WriteRevoke` or
`WriteDeactivate`, and the commit; `Ensure`, `ReadGrants`, `ReconcileGrant`,
`CommitReconcile` for `reconcileOne`. `Rollback` can end any of them at any moment (an
error, a cancelled request, the death of the process, a deadlock's victim). PostgreSQL is modelled by what the
code relies on: a statement sees what was committed when it starts, writers wait for row
locks, `SELECT ... FOR UPDATE` locks the rows of its snapshot that still exist, in no
particular order. The row lock on an ADMIN row also stands for the key of a row about to be
inserted. Only ADMIN rows appear. `now()` is the start of a transaction wherever the SQL says
it: in a guard's count (`since`), and in the CHECK of a single `GrantRole`, which may have
waited for its row since, so that `GrantAdmin` can write an expiry that has passed.
`emptyLock` (a guard locked nothing) and `undercut` (such a late grant replaced the grant of
somebody a guard had counted) are history variables.

**Semester.** `page` is what a caller was last shown, `from`/`to` the locals of
`AdvancePhase`; `walked` and `overtaken` are history. A code that is typed is mapped to its normal
form or refused; the code's characters are not spelled out.

**People.** `toRevoke` and `toGrant` are what the two loops of `SetRoles` have left, in the
order of `policy.AllRoles`; each round is a statement of its own. Whether the guard lets a
removal of ADMIN or a deactivation through depends on locks, snapshots and other transactions
that are `AdminGuard`'s; so `People` leaves it open: `RevokeRole` and `SetActive` may remove any administrator, and
`RefuseLastAdmin` may refuse about anybody active with an ADMIN row. What it says of sets and expiries
therefore holds whatever the guard decides, and it says nothing about the last administrator.
`asked` is history: the calls that may have touched a person since nothing was under way for them.

**Access.** A request arrives through one door with one credential and an operation, a set of
root fields; it is authenticated, which makes its `actor`, passes or fails the scope check,
and its fields are answered or refused one by one. `RequiredScope`, `InteractiveOnly` and
`MayCall` are the annotations of the schema and the rules behind its fields; `DueTo` says the
same of the tables, without an actor, and `window` (history) collects what was due while a
request was under way. Roles and accounts change by `ChangeRoles` and `ChangeActive` in any
way at all: what restrains them is the other modules' matter. What a field does is modelled
for the two that write tokens.

**TokenText.** A text is a sequence of bytes, `Plaintext` what `Mint` writes, `WellFormed` and
`Parsed` what `ParseToken` takes and reads. The alphabet of the secret is every byte of the
run, the underscore among them; the one of the id is not.

**Execution.** A document is its selection sets: the operation's own, and one for each fragment.
`Walk...` is `requiredScopes`, which keeps its stack in `agenda`; `Collect...` is gqlgen's
`CollectFields` and goes through the same document by its own rules. The walk descends into
the fragments of the root only, so what lies below a root field does not appear. A field then
takes the steps of the generated code: arguments, directive, resolver; a query's fields in any
order and a mutation's in turn. A resolver has an effect or has none, before it answers, fails or
panics. `Complete` makes one null in a place that must not be null the null of all data.

**WishVisibility.** An actor is an id, roles and a kind. The rules are operators without state,
and the module says of them what holds in the states the semester workflow reaches.

**Startup.** `stage` is how far `Serve` has come in a process; `Kill` ends it anywhere, which
ends its database sessions and with them the migration lock, as goose's session-level
`pg_try_advisory_lock` is held by a connection. What the file and the flags say is
abstracted to what `Serve` decides by it: whether a report is asked for, whether the mode is
known, and the list of protected administrators, in which an entry may lack its address. A
request is a loop that takes and gives back connections; `CutOff` is the error of a closed
pool. A repair is a transaction with three steps, as in `reconcileOne`: `BeginEntry` fixes its `now()`,
`ReadEntry` locks the person row and reads the grants without locking them, `CommitEntry` grants
if none was seen and commits. Meanwhile others change the person through some server (`SetPersonActive`,
which waits for the row, `GrantAdmin`, `RevokeAdmin`), and a grant runs out (`Lapse`), though
not for a transaction that is already open (`stale`). Whether the guard lets them is left
open. `held`, `robbed`, `touched`, `gaveUp` and `cut` are history. The end of a process and of
its database sessions is one moment here; in between, PostgreSQL may hold a dead
client's lock for a while, which only makes others poll.

## The runs

`expect: pass`:

| run | instance | shows |
|---|---|---|
| `AdminExpiry` | 2 people, 2 connections, temporary grants, 2 moments | `TypeOK`, `LockSetsExclude`, `WaitsForTheOpen`, `RemovalKeepsAdmin` |
| `AdminRegistryMC` | 3 people, 2 connections, one protected, one grantable, grants without expiry | `AdminSurvives`, `RegistrySpec` (the refinement), `CallsEnd` (liveness) |
| `SemesterMC` | 1 semester, 3 callers (dean, lecturer, dean's token), 2 moments; for the wish rule 2 people and nobody, 4 roles, every kind | `TypeOK`, `NoLostSwitch`, `MovedOnIsTrue`, `UpdatedOnChange`, `ProcessSpec`; `GuardAndFilterAgree`, `NothingWidens`, `DiagnosisPredicts`, `StaysVisible` |
| `PeopleMC` | 2 people of whom one is edited, 2 calls, 2 roles, 2 moments | `TypeOK`, `ExactWhenAlone`, `Agreement`, `ExpiryKept` |
| `AccessRace` | 2 requests, 1 token, 1 person, both doors, all modes | `AnswersAreDue`, `AllOrNothing`, `TokensAreFixed` |
| `AccessTokens` | 1 request at a time, 2 tokens, 3 moments; texts of ids and secrets of 2 characters | `TypeOK`, `LastUseKnown`, `NoSuccessors`; `MintedIsRead` |
| `StartupMC` | 2 servers (an image with one migration, one with two), 1 request, lists of one person with and without a bad entry, 1 poll | `TypeOK`, `LockIsOfTheLiving`, `ServesOnItsSchema`, `OnlyRealStartsTouch`, `ListedGotIn`, `DrainsItsRequests`, `MigratesInOrder` (the refinement), `StartEnds`, `StopEnds` (liveness) |
| `ExecutionMC` | mutations of one or two selections with a fragment and an inline fragment in it, 3 queries and documents of introspection only, 6 credentials | `NothingUnchecked`, `InDocumentOrder`, `NothingSilent`, `OperationsAreAnswered` (liveness) |

The remaining four are the *Findings* below. Bounds: `MaxTime` bounds the clocks, `MaxMarks` the goroutines of one
token under way, `MaxGrant` the length of a temporary grant, and the sets in the `.cfg` files everything else. Write skew
needs two guards that overlap and, with the target of a third, three administrators; two
connections do the overlapping, since a finished one starts again. One semester is enough
because no statement touches two; of its callers the dean and the dean's token may switch it,
each between the other's read and write, and the lecturer is the one who may only look. Sets of roles and their loops need one role the guard watches and one it does
not. In `Access` two requests are needed for a token revoked while it is in use and for two
revocations; a successor needs a second token but only one request, so the two questions
have runs of their own. In `AccessTokens` the second use lies more than the coarseness of
`MarkTokenUsed` after the first. Texts of two characters with a prefix that ends in an underscore have
underscores in every place they can be in. Two servers wait for, lose and take over the lock;
the third start is a restart of the first. One request is enough to be cut off, and to
revoke on one server what the other one's repair has just read; the only thing two requests share is
a pool whose size is left out. `MaxPolls` stands for 300 and is counted, not timed: with one
poll a start waits, gets the lock late, or gives up. Two
selections in the operation and two in its fragment put every field before, behind and inside
the fragment, and let one be reached twice. The proofs below hold without these bounds. Each property has a mutant
in `PROJECT.json`: a change to a definition, marked `Mutant` in the modules, that breaks it.

Deadlock is checked in every run: there is always something to do. A group of transactions
that wait for each other is not such a deadlock but a state in which only `Rollback` goes on.

Fairness is assumed in three runs. `AdminRegistryMC`: a call that has begun goes on (its
goroutine runs), a lock that becomes free again and again is eventually given to each waiter
(PostgreSQL queues them), and of transactions that wait for each other one is aborted (its
deadlock detector). `StartupMC`: `main` is scheduled, its timers fire, and a statement ends and
gives its connection back; whoever waits for a person row gets it, since PostgreSQL queues
them (strong fairness of `ReadEntry`). A client need not take its answer, and nobody need start,
stop or kill anything, or leave a listed person alone. `ExecutionMC`: the goroutines of an operation run and a statement ends. All of it
is weak fairness but for the locks. Nobody is obliged to call anything or to cancel anything.

## What is proved

For all constants that satisfy the modules' assumptions, checked by TLAPS:

- `AdminGuardProofs`: `TypeCorrect`; `Exclusion` (`LockSetsExclude`); `Survival`
  (`AdminSurvives`, if grants do not expire), `SurvivalWithOneNew` (`SomeAdmin`),
  `ImplementsRegistry` and `ImplementsRegistryWhileLocked` (`RegistrySpec`), `RegistryKeepsAdmin`;
  `RemovalLeavesAdmin` (`RemovalKeepsAdmin`), `NoLockLeftBehind` (`WaitsForTheOpen`),
  `CountsRightly` (`CountsOnlyUnexpired`). Exclusion is not inductive. `LockInv` adds that
  the rows two guards have in their scans form a chain: a row in the scan of the earlier
  one has existed ever since, so the later snapshot holds it, and the two must meet there.
  `Survival` adds (`Safe`) that for every guard allowed to go on somebody else is standing,
  which exclusion keeps true until it commits.

  Exclusion has one hole, the guard that locked nothing (finding 1), and the theorems say how large
  it is. If at most one person can become an administrator while calls are under way (`Grantable`
  and `Protected` hold nobody else), it does not matter: beside
  a guard that locked nothing every row is that person's (`NewRowsAre`), so what both guards rely
  on is nobody's target, and `Safe` holds anyway. Whoever can become one, it does not
  matter in a behaviour in which the hole is never used. In both cases every commit and
  every single statement that grants or activates is one step of the registry and every other step
  none, and the registry keeps an administrator. These need
  `Expiry = {Never}`: a grant that runs out removes an administrator without a guard.

  `RemovalLeavesAdmin` is for any expiries, late grants included. `CountedStays` says that somebody
  whom a guard counted remains one by that guard's own `now()` unless the guard is in `undercut`: every other
  grant ends after it, a reconciliation only adds, and another removal would need a second
  guard past its lock. The exception is real: without it the run finds the grant that
  waited past its expiry and replaced the one that had been counted.
  `LocksLive` relates each row lock to a stage of its holder at which it may hold it.
  `CountsRightly` shows that finding 2 needs temporary grants.
- `SemesterProofs`: `TypeCorrect`; `EditedMeansChanged` (`UpdatedOnChange`); `SwitchesAddUp`
  (`NoLostSwitch`); `HonestRefusal` (`MovedOnIsTrue`), from: whoever was not overtaken still has the row's phase in `from`; and
  `ImplementsProcess` (`ProcessSpec`).
- `PeopleProofs`: `TypeCorrect`; `Exactness` (`ExactWhenAlone`); `Agreed` (`Agreement`);
  `ExpiriesKept` (`ExpiryKept`). The invariant relates what a person holds to what the loops
  still have to do, for a call that is alone and for the roles on which all calls agree.
  `OneSetWhenApart` (`OneOfTheSets`) is the other side of finding 4: if no two calls about one
  person are ever under way together, one call is remembered at most, and `Agreement` makes its
  set the one that is held.
- `AccessProofs`: `TypeCorrect`; `Due` (`AnswersAreDue`); `WholeOperations` (`AllOrNothing`);
  `NoToken` (`NoSuccessors`); `FixedTokens` (`TokensAreFixed`); `UseRecorded`
  (`LastUseKnown`). `Sound` says of every request that has been authenticated: whatever its
  actor's scopes and the rules let through was due at that moment. Since nothing looks at the
  tables again, this is what all later answers rest on.
- `StartupProofs`: `TypeCorrect`; `LivingHolder`; `OnItsSchema`; `Implements`
  (`MigratesInOrder`); `RealStarts`; `EverybodyGotIn`; `Drains`. `SchemaInv` says that the rows
  of the version table are a prefix of all migrations, that whoever migrates holds the lock,
  and that its plan is exactly what its image has beyond the table. The last is why the lock must be
  taken before the plan is made; since a kill gives back the lock together with the plan, and a
  migration and its row are one transaction, it survives every kill. For `EverybodyGotIn`,
  `Trusted` follows one repair: who was read to hold ADMIN still does at the commit, or somebody
  took it while the transaction was open, and then the person is in `robbed`.
- `ExecutionProofs`: `TypeCorrect`; `WhatRunsIsAllowed` (`NothingUnchecked`); `Orderly`
  (`InDocumentOrder`); `NothingBehindTheDirective`; `EffectsAreShownOrExplained`
  (`NothingSilent`). `ScopeInv` is the argument for the two walks: of every selection set the
  first one has opened, each selection was handled or is still on the agenda, so in the end all
  that can be reached from the operation has its scope among the required ones; and the second
  walk never leaves what the first has opened. `RunInv` relates each field's step, value and error
  to the log.
- `WishProofs`: `TwoFormsOfOneRule`; `NarrowedSeesNoMore`; `DiagnosisIsRight`; `NeverTakenBack`
  (`StaysVisible`), from the types of `Semester` and, for the last, from the fact that no action
  opens a publication again.
- `TokenTextProofs`: `MintedTokensAreRead` (`MintedIsRead`), for every length, alphabet and
  prefix: behind the prefix the first underscore is the separator, because the id has none.

`NothingBehindTheDirective` (`RefusedLeaveNothing`) is proved and has no run: what the directive
refuses leaves nothing behind, for every document and credential.

Only model-checked: `CallsEnd`, `StartEnds`, `StopEnds` and `OperationsAreAnswered`; liveness is
out of the prover's reach. `SomeAdmin`, `CountsOnlyUnexpired` and `OneOfTheSets` do not hold as
they stand (see *Findings*); the theorems that name them carry the condition under which they do,
and the runs show that without it they do not. The types of `Execution` are
proved (`TypeCorrect`) and not run.

## Findings

1. `AdminWriteSkew`: `LockAdminGrants` (`person.sql:154`) locks the rows of its snapshot. If
   all of them are deleted while it waits it goes on with nothing locked, guards that start
   later do not wait for it, and both can remove. `AdminSurvives` shows that, while
   grants do not expire, there is no other way for the last administrator to go, and
   `SurvivalWithOneNew` that it takes two people who become administrators meanwhile.
2. `AdminStaleNow`: `CountOtherActiveAdmins` (`person.sql:169`) uses the `now()` of a
   transaction that may have waited for the lock since, and counts grants that ran out.
3. `SemesterStalePage`: a switch made from an outdated page succeeds; `semester.graphqls`
   promises `PHASE_MOVED_ON`.
4. `PeopleMixture`: two sets sent for one person can end in a mixture;
   `administration.graphqls` says that sending whole sets avoids this race.

Smaller differences, without a run: `person.sql:102-105` and `:163` and
`domain/people.go:96-103` speak of an advisory lock, the code takes row locks. A call of
`setPersonRoles` that is refused with LAST_ADMIN has already revoked the roles before ADMIN.
The loser of two equal `createPerson` calls is told INTERNAL, not PERSON_EXISTS.
`token.graphqls:76-79` calls every mutation interactive only; `createSemester` and
`advanceSemesterPhase` are not. `tokenauth.go:41` says a graceful shutdown can wait for the
last-used writes, `:60` that it deliberately does not. Activating a person again revives
their tokens, which deactivation refuses but does not revoke. A mutation with several root
fields goes on after one has failed, and `data` can be null though others took effect: the
secret of a token minted beside a failing field is never shown to anybody, and the token stays
(`NothingSilent` says that there is at least an error). A protected administrator with a temporary grant is left
with it and loses it later (`store/bootstrap.go:132`, against `:13-14` and `:137-138`).
`reconcileOne` reads the grants without locking them (`store/bootstrap.go:107-151`), so a
revocation or an expiry between that read and the commit leaves a listed person without ADMIN on
a server that serves, and one after the commit removes them until the next start; `ListedGotIn` says that nothing else does.
`store/people.go:155` says that a grant needs no guard because it "can only ever add somebody
who may administer the installation"; a grant replaces the expiry, and one that has waited for
the row until its own moment has passed takes ADMIN away (`RemovalKeepsAdmin` names this exception).
`store/bootstrap.go:86-89` wants four of five listed people back in when the fifth entry is bad; they get their
rows, but the start fails and there is no server to sign in to. `bootstrap/config.go`'s
`validateAddr` refuses `[::1]:8080` and `:0`. `session.resolvers.go:47-51` says that
`Person.roles` means a person's own grants wherever it is asked for; `me` gives the narrowed roles.

## Not modelled

Below the root of an operation: the fields of the objects, whose resolvers only read what the
root has returned, and the nulls that climb from them. Introspection, `@defer`, the complexity
limit, cancelled operations (a cancelled call of a service is `Abandon` in the modules of the
services). Which error a caller is shown. The generated code is modelled by what it does in the
root, not for each field again.

Of startup: the size and the timeouts of the pool, idle connections, what a migration does to
the tables, `MigrateDown`, which only tests call, and goose's own creation of its version table,
which a report can cause too. Of configuration: everything `Serve` does not decide by.

Conversions (mappings, the hash of a token, descriptions, messages), build information and
helpers of the tests have no state or order that the properties are about. Renaming a person and the
queries change nothing that another step reads. Unknown addresses and tokens are refused and
leave no trace, so no request of `Access` carries one. There is no table of wishes yet: what
`WishVisibility` says is about the rules, not about statements that use them.

## Plan

1. Proofs: the safety half of the liveness properties: whoever waits in `Startup` has polls left
   or somebody to wait for, and in `AdminGuard` only a circle of transactions is stuck.
2. `Execution`: the objects below the root, and how a null climbs through them.
3. `Access` with `Execution`: the fields of an operation with their services' effects, one
   request at a time.
4. The wishes, when the code has them.
