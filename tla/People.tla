------------------------------ MODULE People ------------------------------
(***************************************************************************)
(* User administration: PeopleService of internal/domain over the          *)
(* statements of internal/store. SetRoles reads a person once and then     *)
(* revokes and grants one role at a time, each in a transaction of its     *)
(* own, so that two administrators who have the same person open           *)
(* interleave, and a refusal or a crash leaves a part of the work done.    *)
(* Whether guardingAdmins lets a removal of ADMIN through, or refuses it,  *)
(* is AdminGuard's matter: here both may happen to an administrator.       *)
(***************************************************************************)
EXTENDS Integers, FiniteSets

CONSTANTS
  Person,   \* mail addresses: the natural key of the table person
  NoPerson, \* the subject of a call that is not there
  Protected,\* the people listed under protected_admins in tallox.yaml
  Edited,   \* bound: the people whom requests are about
  Call,     \* the requests an administrator's browser can have under way
  Role,     \* the roles used in the run, some of policy.AllRoles
  Expiry,   \* the moments to which a temporary grant can be asked for
  MaxGrant, \* MaxTemporaryGrantDays
  MaxTime   \* bound on the clock

\* policy.AllRoles, by position.
AllRoles == [LECTURER |-> 1, SUBJECT_GROUP_LEAD |-> 2, PROGRAMME_LEAD |-> 3,
             DEANS_OFFICE |-> 4, ADMIN |-> 5]

ASSUME PeopleAssumption ==
  /\ NoPerson \notin Person
  /\ Call # {}
  /\ Protected \subseteq Person /\ Edited \subseteq Person
  /\ "ADMIN" \in Role /\ Role \subseteq DOMAIN AllRoles
  /\ MaxTime \in Nat /\ MaxGrant \in Nat
  /\ Expiry \subseteq 1..MaxTime

\* A row of person_role is its expiry: NoRow, a moment, or Never (NULL).
NoRow == 0
Never == MaxTime + 1
Time == 0..MaxTime
RowValue == {NoRow, Never} \cup Expiry

VARIABLES
  known,    \* the rows of person
  active,   \* [Person -> BOOLEAN]: person.active
  until,    \* [Person -> [Role -> RowValue]]: person_role
  clock,    \* the database's clock, and the server's
  stage,    \* [Call -> STRING]: where the request stands
  subject,  \* [Call -> Person \cup {NoPerson}]: whom it is about
  wanted,   \* [Call -> SUBSET Role]: the set that was sent
  expires,  \* [Call -> RowValue]: expiresAt
  toRevoke, \* [Call -> SUBSET Role]: held and not wanted, not yet revoked
  toGrant,  \* [Call -> SUBSET Role]: wanted and not held, not yet granted
  asked     \* history: [Person -> SUBSET (Call \X SUBSET Role)], the calls
            \* and their sets since nothing was under way for the person

tables == <<known, active, until>>
call == <<stage, subject, wanted, expires, toRevoke, toGrant>>
vars == <<known, active, until, clock, stage, subject, wanted, expires,
          toRevoke, toGrant, asked>>

-----------------------------------------------------------------------------
(* What the statements read. *)

\* The roles PersonByID joins: the grants that have not expired.
RolesAt(p, t) == {r \in Role : until[p][r] > t}
RolesOf(p) == RolesAt(p, clock)

ActiveAdmins == {p \in known : active[p] /\ "ADMIN" \in RolesOf(p)}

\* The loops over policy.AllRoles take the earliest role of S first.
First(S, r) == r \in S /\ \A q \in S : AllRoles[r] <= AllRoles[q]

-----------------------------------------------------------------------------
(* History. *)

Quiet(p) == \A c \in Call : subject[c] # p

\* What happened to p can no longer be told from what was asked for.
Anything == Call \X SUBSET Role

\* c is the only call about its subject since nothing was under way for it.
Alone(c) == asked[subject[c]] = {<<c, wanted[c]>>}

-----------------------------------------------------------------------------
TypeOK ==
  /\ known \subseteq Person
  /\ active \in [Person -> BOOLEAN]
  /\ until \in [Person -> [Role -> RowValue]]
  /\ clock \in Time
  /\ stage \in [Call -> {"idle", "insert", "read", "write"}]
  /\ subject \in [Call -> Person \cup {NoPerson}]
  /\ \A c \in Call : subject[c] = NoPerson <=> stage[c] = "idle"
  /\ wanted \in [Call -> SUBSET Role]
  /\ expires \in [Call -> RowValue \ {NoRow}]
  /\ toRevoke \in [Call -> SUBSET Role]
  /\ toGrant \in [Call -> SUBSET Role]
  /\ asked \in [Person -> SUBSET Anything]

Init ==
  /\ known \in SUBSET Person
  /\ active \in [Person -> BOOLEAN]
  /\ until \in [Person -> [Role -> RowValue]]
  /\ \A p \in Person \ known : active[p] /\ until[p] = [r \in Role |-> NoRow]
  /\ clock = 0
  /\ ActiveAdmins # {}
  /\ stage = [c \in Call |-> "idle"]
  /\ subject = [c \in Call |-> NoPerson]
  /\ wanted = [c \in Call |-> {}]
  /\ expires = [c \in Call |-> Never]
  /\ toRevoke = [c \in Call |-> {}]
  /\ toGrant = [c \in Call |-> {}]
  /\ asked = [p \in Person |-> Anything]

-----------------------------------------------------------------------------
(* The end of a request. *)

Return(c) ==
  /\ stage' = [stage EXCEPT ![c] = "idle"]
  /\ subject' = [subject EXCEPT ![c] = NoPerson]
  /\ wanted' = [wanted EXCEPT ![c] = {}]
  /\ expires' = [expires EXCEPT ![c] = Never]
  /\ toRevoke' = [toRevoke EXCEPT ![c] = {}]
  /\ toGrant' = [toGrant EXCEPT ![c] = {}]

\* A request that ends in an error, whatever it has written.
Fail(c) ==
  /\ Return(c)
  /\ asked' = [asked EXCEPT ![subject[c]] = Anything]
  /\ UNCHANGED <<tables, clock>>

\* The request is cancelled, the database fails, or the process dies.
Abandon(c) == stage[c] # "idle" /\ Fail(c)

-----------------------------------------------------------------------------
(* Create: look the address up, then insert. *)

CheckMail(c, p) ==
  /\ stage[c] = "idle"
  /\ ActiveAdmins # {}
  /\ p \notin known
  /\ stage' = [stage EXCEPT ![c] = "insert"]
  /\ subject' = [subject EXCEPT ![c] = p]
  /\ asked' = [asked EXCEPT ![p] = Anything]
  /\ UNCHANGED <<tables, clock, wanted, expires, toRevoke, toGrant>>

\* CreatePerson: the row is active and has no roles.
Insert(c) ==
  /\ stage[c] = "insert"
  /\ subject[c] \notin known
  /\ known' = known \cup {subject[c]}
  /\ Return(c)
  /\ UNCHANGED <<active, until, clock, asked>>

\* The unique index on mail, after somebody else's insert.
InsertMisses(c) ==
  /\ stage[c] = "insert"
  /\ subject[c] \in known
  /\ Fail(c)

-----------------------------------------------------------------------------
(* SetActive: one transaction. *)

\* Its caller administered people when the request arrived, and need not any
\* more. A deactivation that guardingAdmins refuses changes nothing.
SetActive(p, b) ==
  /\ p \in known
  /\ active' = [active EXCEPT ![p] = b]
  /\ UNCHANGED <<known, until, clock, call, asked>>

-----------------------------------------------------------------------------
(* SetRoles. *)

\* The request arrives: the caller administers people now, and the expiry, if
\* any, lies ahead and is not too far. Nothing of this is asked again.
Ask(c, p, W, e) ==
  /\ stage[c] = "idle"
  /\ ActiveAdmins # {}
  /\ e = Never \/ (e > clock /\ e <= clock + MaxGrant)
  /\ stage' = [stage EXCEPT ![c] = "read"]
  /\ subject' = [subject EXCEPT ![c] = p]
  /\ wanted' = [wanted EXCEPT ![c] = W]
  /\ expires' = [expires EXCEPT ![c] = e]
  /\ asked' = [asked EXCEPT ![p] = (IF Quiet(p) THEN {} ELSE @) \cup {<<c, W>>}]
  /\ UNCHANGED <<tables, clock, toRevoke, toGrant>>

\* Mutant: everything wanted is granted, held or not.
ReadPersonRegranting(c) ==
  LET held == RolesOf(subject[c]) IN
  /\ stage[c] = "read"
  /\ subject[c] \in known
  /\ stage' = [stage EXCEPT ![c] = "write"]
  /\ toRevoke' = [toRevoke EXCEPT ![c] = held \ wanted[c]]
  /\ toGrant' = [toGrant EXCEPT ![c] = wanted[c]]
  /\ UNCHANGED <<tables, clock, subject, wanted, expires, asked>>

\* Mutant: the held roles are read from the table, expired grants included.
ReadPersonExpiredToo(c) ==
  LET held == {r \in Role : until[subject[c]][r] # NoRow} IN
  /\ stage[c] = "read"
  /\ subject[c] \in known
  /\ stage' = [stage EXCEPT ![c] = "write"]
  /\ toRevoke' = [toRevoke EXCEPT ![c] = held \ wanted[c]]
  /\ toGrant' = [toGrant EXCEPT ![c] = wanted[c] \ held]
  /\ UNCHANGED <<tables, clock, subject, wanted, expires, asked>>

\* s.Get, and from it what to revoke and what to grant.
ReadPerson(c) ==
  LET held == RolesOf(subject[c]) IN
  /\ stage[c] = "read"
  /\ subject[c] \in known
  /\ stage' = [stage EXCEPT ![c] = "write"]
  /\ toRevoke' = [toRevoke EXCEPT ![c] = held \ wanted[c]]
  /\ toGrant' = [toGrant EXCEPT ![c] = wanted[c] \ held]
  /\ UNCHANGED <<tables, clock, subject, wanted, expires, asked>>

\* ErrNoSuchPerson.
NoSuchPerson(c) ==
  /\ stage[c] = "read"
  /\ subject[c] \notin known
  /\ Fail(c)

\* Mutant: the grant is ended instead of deleted, at a moment before the clock.
RevokeRoleByExpiry(c, r) ==
  /\ stage[c] = "write"
  /\ First(toRevoke[c], r)
  /\ until' = [until EXCEPT ![subject[c]][r] = clock - 1]
  /\ toRevoke' = [toRevoke EXCEPT ![c] = @ \ {r}]
  /\ UNCHANGED <<known, active, clock, stage, subject, wanted, expires, toGrant, asked>>

\* RevokeRole of the next role. Deleting no row is not an error.
RevokeRole(c, r) ==
  /\ stage[c] = "write"
  /\ First(toRevoke[c], r)
  /\ until' = [until EXCEPT ![subject[c]][r] = NoRow]
  /\ toRevoke' = [toRevoke EXCEPT ![c] = @ \ {r}]
  /\ UNCHANGED <<known, active, clock, stage, subject, wanted, expires, toGrant, asked>>

\* ErrLastAdmin ends the request; what was revoked before stays revoked. The
\* guard refuses only about somebody active with an ADMIN row, which need not
\* be in force any more: its now() lies before its wait for the lock.
RefuseLastAdmin(c) ==
  /\ stage[c] = "write"
  /\ First(toRevoke[c], "ADMIN")
  /\ active[subject[c]] /\ until[subject[c]]["ADMIN"] # NoRow
  /\ Fail(c)

\* GrantRole of the next role: insert, or overwrite the expiry. now() was in
\* time, but the statement may have waited for the row: then what it writes,
\* whatever it overwrites, has run out.
GrantRole(c, r) ==
  /\ stage[c] = "write"
  /\ toRevoke[c] = {}
  /\ First(toGrant[c], r)
  /\ until' = [until EXCEPT ![subject[c]][r] = expires[c]]
  /\ toGrant' = [toGrant EXCEPT ![c] = @ \ {r}]
  /\ asked' = IF expires[c] > clock THEN asked
                                    ELSE [asked EXCEPT ![subject[c]] = Anything]
  /\ UNCHANGED <<known, active, clock, stage, subject, wanted, expires, toRevoke>>

\* Mutant: the error of GrantRole is dropped.
GrantTooLateIgnored(c) ==
  /\ stage[c] = "write"
  /\ toRevoke[c] = {} /\ toGrant[c] # {}
  /\ expires[c] <= clock
  /\ toGrant' = [toGrant EXCEPT ![c] = {}]
  /\ UNCHANGED <<tables, clock, stage, subject, wanted, expires, toRevoke, asked>>

\* The CHECK on person_role wants the expiry after granted_at = now().
GrantTooLate(c) ==
  /\ stage[c] = "write"
  /\ toRevoke[c] = {} /\ toGrant[c] # {}
  /\ expires[c] <= clock
  /\ Fail(c)

\* Both loops are done.
Answer(c) ==
  /\ stage[c] = "write"
  /\ toRevoke[c] = {} /\ toGrant[c] = {}
  /\ Return(c)
  /\ UNCHANGED <<tables, clock, asked>>

\* The server is restarted: no request is under way, and every protected
\* administrator is made to exist, to be active and to hold ADMIN.
Restart ==
  /\ \A c \in Call : stage[c] = "idle"
  /\ known' = known \cup Protected
  /\ active' = [p \in Person |-> active[p] \/ p \in Protected]
  /\ until' = [p \in Person |-> [r \in Role |->
                 IF p \in Protected /\ r = "ADMIN" /\ r \notin RolesOf(p)
                   THEN Never ELSE until[p][r]]]
  /\ asked' = [p \in Person |-> IF p \in Protected THEN Anything ELSE asked[p]]
  /\ UNCHANGED <<clock, call>>

\* A grant that runs out is nobody's doing.
Tick ==
  /\ clock < MaxTime
  /\ clock' = clock + 1
  /\ asked' = [p \in Person |->
                 IF RolesAt(p, clock + 1) = RolesAt(p, clock) THEN asked[p]
                                                              ELSE Anything]
  /\ UNCHANGED <<tables, call>>

-----------------------------------------------------------------------------
Next ==
  \/ \E c \in Call :
       \/ Insert(c) \/ InsertMisses(c) \/ ReadPerson(c) \/ NoSuchPerson(c)
       \/ RefuseLastAdmin(c) \/ GrantTooLate(c) \/ Answer(c) \/ Abandon(c)
       \/ \E p \in Edited : CheckMail(c, p)
       \/ \E p \in Edited, W \in SUBSET Role, e \in Expiry \cup {Never} : Ask(c, p, W, e)
       \/ \E r \in Role : RevokeRole(c, r) \/ GrantRole(c, r)
  \/ \E p \in Person, b \in BOOLEAN : SetActive(p, b)
  \/ Restart \/ Tick

Spec == Init /\ [][Next]_vars

-----------------------------------------------------------------------------
(* Properties. *)

\* While a call is alone with its person, what the person holds is at every
\* moment what the two loops have left: no role that stays is ever missing,
\* none that was not asked for appears, and at the end it is exactly the set
\* that was sent, "exactly this set" (SetRoles).
ExactWhenAlone ==
  \A c \in Call :
    stage[c] = "write" /\ Alone(c) =>
      RolesOf(subject[c]) = (wanted[c] \ toGrant[c]) \cup toRevoke[c]

\* However calls about one person interleave: once they have all answered, the
\* person holds every role that all of them sent, and none that none of them
\* sent (SetRoles).
Agreement ==
  \A p \in Person : Quiet(p) =>
    \A r \in Role :
      /\ (\A a \in asked[p] : r \in a[2]) => r \in RolesOf(p)
      /\ (\A a \in asked[p] : r \notin a[2]) => r \notin RolesOf(p)

\* "Existing grants keep their own expiry": re-sending a set extends nothing and
\* shortens nothing, unless two calls meet (SetRoles).
ExpiryKept ==
  [][\A p \in Person, r \in Role :
       /\ r \in RolesOf(p)
       /\ until'[p][r] \notin {NoRow, until[p][r]}
       => \E c \in Call : subject[c] = p /\ ~Alone(c)]_vars

\* What the API promises of two administrators with the same person open: the
\* person ends with one of the sets they sent, not with a mixture
\* (setPersonRoles in administration.graphqls).
OneOfTheSets ==
  \A p \in Person : Quiet(p) => \E a \in asked[p] : a[2] = RolesOf(p)
=============================================================================
