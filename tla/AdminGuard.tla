---------------------------- MODULE AdminGuard ----------------------------
(***************************************************************************)
(* The last-administrator guard of internal/store, statement by statement. *)
(*                                                                         *)
(* Three kinds of work meet in the tables person and person_role:          *)
(*   - guarding transactions (guardingAdmins in people.go), which revoke   *)
(*     an ADMIN grant or deactivate a person;                              *)
(*   - reconciling transactions (reconcileOne in bootstrap.go), which make *)
(*     a protected administrator active and give them ADMIN;               *)
(*   - single autocommitted statements: GrantRole of ADMIN, and            *)
(*     SetPersonActive(true).                                              *)
(*                                                                         *)
(* PostgreSQL runs them at READ COMMITTED: every statement reads what is   *)
(* committed when it starts, now() is the start of the transaction, a      *)
(* writer waits for the row locks of others, and SELECT ... FOR UPDATE     *)
(* locks the rows of its own snapshot that still exist, one after the      *)
(* other, in an order nobody promises.                                     *)
(***************************************************************************)
EXTENDS Naturals, FiniteSets

CONSTANTS
  Person,     \* the rows of person; the code never deletes one
  Conn,       \* the pool's connections: each runs one transaction at a time
  NoConn,     \* nobody holds the lock
  NoPerson,   \* the target of a connection that runs nothing
  Protected,  \* the people listed under protected_admins in tallox.yaml
  Grantable,  \* the people to whom ADMIN may be granted during the run
  Expiry,     \* the expiries a grant of ADMIN can have
  MaxTime     \* bound on the clock

ASSUME GuardAssumption ==
  /\ NoConn \notin Conn
  /\ NoPerson \notin Person
  /\ Protected \subseteq Person
  /\ Grantable \subseteq Person
  /\ MaxTime \in Nat
  /\ Expiry \subseteq 1..(MaxTime + 1)

\* An ADMIN row of person_role is its expiry. 0 stands for "no row", and
\* Never, which no clock reaches, for "expires_at IS NULL".
NoRow == 0
Never == MaxTime + 1
Time == 0..MaxTime
RowValue == {NoRow, Never} \cup Expiry

Stage == {"idle", "begun", "locking", "count", "check", "read",
          "grant", "write", "commit"}
Op == {"none", "revoke", "deactivate", "reconcile"}

VARIABLES
  adminUntil, \* [Person -> RowValue]: the committed ADMIN rows
  active,     \* [Person -> BOOLEAN]: person.active, committed
  clock,      \* the database's clock
  rowOwner,   \* who holds the lock on a person's ADMIN row (or its key)
  personOwner,\* who holds the lock on a person's row in person
  stage,      \* [Conn -> Stage]: the statement the transaction runs next
  op,         \* [Conn -> Op]: what the transaction is for
  target,     \* [Conn -> Person \cup {NoPerson}]: whom it is about
  since,      \* [Conn -> Time]: now() inside the transaction
  scan,       \* [Conn -> SUBSET Person]: the rows LockAdminGrants saw that
              \* have not been deleted since
  others,     \* [Conn -> BOOLEAN]: guardingAdmins counted others > 0
  emptyLock,  \* history: a guard got past LockAdminGrants holding no row
  undercut    \* history: the guards of whom somebody counted was given, after
              \* the count, a grant that had run out by the guard's now()

data == <<adminUntil, active>>
locks == <<rowOwner, personOwner>>
call == <<op, target, since, undercut>>
vars == <<adminUntil, active, clock, rowOwner, personOwner, stage, op,
          target, since, scan, others, emptyLock, undercut>>

-----------------------------------------------------------------------------
(* What the statements read. *)

\* The people who hold an unexpired ADMIN grant at time t and are active:
\* the condition of CountOtherActiveAdmins, and of PersonByID's join.
ActiveAdminsAt(t) == {p \in Person : active[p] /\ adminUntil[p] > t}

\* Mutant: the count forgets "AND p.active".
OthersAtInactiveToo(p, t) == {q \in Person : adminUntil[q] > t} \ {p}

\* Mutant: the count forgets "AND pr.person_id <> $1".
OthersAtWithTarget(p, t) == ActiveAdminsAt(t)

\* CountOtherActiveAdmins, with the transaction's now().
OthersAt(p, t) == ActiveAdminsAt(t) \ {p}

\* The rows LockAdminGrants still has to lock.
Pending(c) == {p \in scan[c] : rowOwner[p] # c}

AdminRows == {p \in Person : adminUntil[p] # NoRow}

Free(owner, p, c) == owner[p] \in {NoConn, c}

Release(owner, c) == [p \in Person |-> IF owner[p] = c THEN NoConn ELSE owner[p]]

-----------------------------------------------------------------------------
TypeOK ==
  /\ adminUntil \in [Person -> RowValue]
  /\ active \in [Person -> BOOLEAN]
  /\ clock \in Time
  /\ rowOwner \in [Person -> Conn \cup {NoConn}]
  /\ personOwner \in [Person -> Conn \cup {NoConn}]
  /\ stage \in [Conn -> Stage]
  /\ op \in [Conn -> Op]
  /\ target \in [Conn -> Person \cup {NoPerson}]
  /\ \A c \in Conn : stage[c] # "idle" => target[c] \in Person
  /\ since \in [Conn -> Time]
  /\ scan \in [Conn -> SUBSET Person]
  /\ others \in [Conn -> BOOLEAN]
  /\ emptyLock \in BOOLEAN
  /\ undercut \subseteq Conn

\* An installation in service: somebody can administer it, nothing runs.
Init ==
  /\ adminUntil \in [Person -> RowValue]
  /\ active \in [Person -> BOOLEAN]
  /\ clock = 0
  /\ ActiveAdminsAt(0) # {}
  /\ rowOwner = [p \in Person |-> NoConn]
  /\ personOwner = [p \in Person |-> NoConn]
  /\ stage = [c \in Conn |-> "idle"]
  /\ op = [c \in Conn |-> "none"]
  /\ target = [c \in Conn |-> NoPerson]
  /\ since = [c \in Conn |-> 0]
  /\ scan = [c \in Conn |-> {}]
  /\ others = [c \in Conn |-> FALSE]
  /\ emptyLock = FALSE
  /\ undercut = {}

-----------------------------------------------------------------------------
(* Transactions begin and end. *)

\* tx.Begin: the transaction's now() is fixed here, before any lock.
Begin(c) ==
  /\ stage[c] = "idle"
  /\ \E p \in Person, o \in Op \ {"none"} :
       /\ o = "reconcile" => p \in Protected
       /\ op' = [op EXCEPT ![c] = o]
       /\ target' = [target EXCEPT ![c] = p]
  /\ stage' = [stage EXCEPT ![c] = "begun"]
  /\ since' = [since EXCEPT ![c] = clock]
  /\ UNCHANGED <<data, clock, locks, scan, others, emptyLock, undercut>>

\* Mutant: no deferred rollback, the connection stays in its transaction.
FinishOpen(c) ==
  /\ stage' = [stage EXCEPT ![c] = "begun"]
  /\ rowOwner' = Release(rowOwner, c)
  /\ personOwner' = Release(personOwner, c)
  /\ op' = [op EXCEPT ![c] = "none"]
  /\ target' = [target EXCEPT ![c] = NoPerson]
  /\ since' = [since EXCEPT ![c] = 0]
  /\ others' = [others EXCEPT ![c] = FALSE]
  /\ undercut' = undercut \ {c}
  /\ UNCHANGED clock

\* What ends every transaction: its locks go, and with the call its locals.
Finish(c) ==
  /\ stage' = [stage EXCEPT ![c] = "idle"]
  /\ rowOwner' = Release(rowOwner, c)
  /\ personOwner' = Release(personOwner, c)
  /\ op' = [op EXCEPT ![c] = "none"]
  /\ target' = [target EXCEPT ![c] = NoPerson]
  /\ since' = [since EXCEPT ![c] = 0]
  /\ others' = [others EXCEPT ![c] = FALSE]
  /\ undercut' = undercut \ {c}
  /\ UNCHANGED clock

\* The deferred tx.Rollback: a failing statement, a cancelled request, a lost
\* connection, the process dying, or PostgreSQL choosing a deadlock's victim.
Rollback(c) ==
  /\ stage[c] # "idle"
  /\ Finish(c)
  /\ scan' = [scan EXCEPT ![c] = {}]
  /\ UNCHANGED <<data, emptyLock>>

-----------------------------------------------------------------------------
(* guardingAdmins: lock, then read, then write. *)

\* LockAdminGrants starts: its snapshot holds the rows committed now.
StartLock(c) ==
  /\ stage[c] = "begun" /\ op[c] # "reconcile"
  /\ stage' = [stage EXCEPT ![c] = "locking"]
  /\ scan' = [scan EXCEPT ![c] = AdminRows]
  /\ UNCHANGED <<data, clock, locks, call, others, emptyLock>>

\* Mutant: FOR UPDATE replaced by a lock that others can share.
LockRowShared(c, p) ==
  /\ stage[c] = "locking"
  /\ p \in Pending(c)
  /\ rowOwner' = [rowOwner EXCEPT ![p] = c]
  /\ UNCHANGED <<data, clock, personOwner, stage, call, scan, others, emptyLock>>

\* One row of the snapshot is locked once nobody else holds it. A row that
\* was updated meanwhile is locked in its new version; a row that was deleted
\* has left the scan (see Commit) and is skipped.
LockRow(c, p) ==
  /\ stage[c] = "locking"
  /\ p \in Pending(c)
  /\ rowOwner[p] = NoConn
  /\ rowOwner' = [rowOwner EXCEPT ![p] = c]
  /\ UNCHANGED <<data, clock, personOwner, stage, call, scan, others, emptyLock>>

\* Mutant: SELECT without FOR UPDATE waits for nobody.
LockedAtOnce(c) ==
  /\ stage[c] = "locking"
  /\ stage' = [stage EXCEPT ![c] = "count"]
  /\ emptyLock' = (emptyLock \/ scan[c] = {})
  /\ UNCHANGED <<data, clock, locks, call, scan, others>>

\* LockAdminGrants returns.
Locked(c) ==
  /\ stage[c] = "locking"
  /\ Pending(c) = {}
  /\ stage' = [stage EXCEPT ![c] = "count"]
  /\ emptyLock' = (emptyLock \/ scan[c] = {})
  /\ UNCHANGED <<data, clock, locks, call, scan, others>>

\* CountOtherActiveAdmins.
CountOthers(c) ==
  /\ stage[c] = "count"
  /\ others' = [others EXCEPT ![c] = OthersAt(target[c], since[c]) # {}]
  /\ stage' = [stage EXCEPT ![c] = IF others'[c] THEN "write" ELSE "check"]
  /\ UNCHANGED <<data, clock, locks, call, scan, emptyLock>>

\* PersonByID finds that the target is no active administrator: harmless.
CheckHarmless(c) ==
  /\ stage[c] = "check"
  /\ target[c] \notin ActiveAdminsAt(since[c])
  /\ stage' = [stage EXCEPT ![c] = "write"]
  /\ UNCHANGED <<data, clock, locks, call, scan, others, emptyLock>>

\* Mutant: ErrLastAdmin returned without the deferred rollback: the call is
\* over, the pool's connection keeps its locks.
RefuseKeepingLocks(c) ==
  /\ stage[c] = "check"
  /\ target[c] \in ActiveAdminsAt(since[c])
  /\ stage' = [stage EXCEPT ![c] = "idle"]
  /\ op' = [op EXCEPT ![c] = "none"]
  /\ target' = [target EXCEPT ![c] = NoPerson]
  /\ since' = [since EXCEPT ![c] = 0]
  /\ others' = [others EXCEPT ![c] = FALSE]
  /\ undercut' = undercut \ {c}
  /\ scan' = [scan EXCEPT ![c] = {}]
  /\ UNCHANGED <<data, clock, locks, emptyLock>>

\* PersonByID finds the last one: ErrLastAdmin, and the deferred rollback.
Refuse(c) ==
  /\ stage[c] = "check"
  /\ target[c] \in ActiveAdminsAt(since[c])
  /\ Finish(c)
  /\ scan' = [scan EXCEPT ![c] = {}]
  /\ UNCHANGED <<data, emptyLock>>

\* DELETE FROM person_role. It waits for the row's lock; with no row to delete
\* it affects nothing and takes no lock, and Commit deletes nothing.
WriteRevoke(c) ==
  /\ stage[c] = "write" /\ op[c] = "revoke"
  /\ \/ /\ target[c] \in AdminRows
        /\ Free(rowOwner, target[c], c)
        /\ rowOwner' = [rowOwner EXCEPT ![target[c]] = c]
     \/ /\ target[c] \notin AdminRows
        /\ UNCHANGED rowOwner
  /\ stage' = [stage EXCEPT ![c] = "commit"]
  /\ UNCHANGED <<data, clock, personOwner, call, scan, others, emptyLock>>

\* UPDATE person SET active = false.
WriteDeactivate(c) ==
  /\ stage[c] = "write" /\ op[c] = "deactivate"
  /\ Free(personOwner, target[c], c)
  /\ personOwner' = [personOwner EXCEPT ![target[c]] = c]
  /\ stage' = [stage EXCEPT ![c] = "commit"]
  /\ UNCHANGED <<data, clock, rowOwner, call, scan, others, emptyLock>>

\* tx.Commit of a revocation. Deleting a row takes it out of the scan of every
\* LockAdminGrants that is still waiting for it.
CommitRevoke(c) ==
  /\ stage[c] = "commit" /\ op[c] = "revoke"
  /\ Finish(c)
  /\ IF rowOwner[target[c]] = c
       THEN /\ adminUntil' = [adminUntil EXCEPT ![target[c]] = NoRow]
            /\ scan' = [d \in Conn |-> IF d = c THEN {} ELSE scan[d] \ {target[c]}]
       ELSE /\ scan' = [scan EXCEPT ![c] = {}]
            /\ UNCHANGED adminUntil
  /\ UNCHANGED <<active, emptyLock>>

\* tx.Commit of a deactivation.
CommitDeactivate(c) ==
  /\ stage[c] = "commit" /\ op[c] = "deactivate"
  /\ Finish(c)
  /\ active' = [active EXCEPT ![target[c]] = FALSE]
  /\ scan' = [scan EXCEPT ![c] = {}]
  /\ UNCHANGED <<adminUntil, emptyLock>>

-----------------------------------------------------------------------------
(* reconcileOne: ensure the person, reactivate, grant what is missing. *)

\* EnsurePerson's ON CONFLICT DO UPDATE locks the person row, whatever it
\* writes; SetPersonActive(true), if needed, writes that same locked row.
Ensure(c) ==
  /\ stage[c] = "begun" /\ op[c] = "reconcile"
  /\ Free(personOwner, target[c], c)
  /\ personOwner' = [personOwner EXCEPT ![target[c]] = c]
  /\ stage' = [stage EXCEPT ![c] = "read"]
  /\ UNCHANGED <<data, clock, rowOwner, call, scan, others, emptyLock>>

\* PersonByID: an expired ADMIN counts as not held, a temporary one as held.
ReadGrants(c) ==
  /\ stage[c] = "read"
  /\ stage' = [stage EXCEPT ![c] =
                 IF adminUntil[target[c]] > since[c] THEN "commit" ELSE "grant"]
  /\ UNCHANGED <<data, clock, locks, call, scan, others, emptyLock>>

\* GrantRole inside the transaction: it waits for whoever holds the row.
ReconcileGrant(c) ==
  /\ stage[c] = "grant"
  /\ rowOwner[target[c]] = NoConn
  /\ rowOwner' = [rowOwner EXCEPT ![target[c]] = c]
  /\ stage' = [stage EXCEPT ![c] = "commit"]
  /\ UNCHANGED <<data, clock, personOwner, call, scan, others, emptyLock>>

CommitReconcile(c) ==
  /\ stage[c] = "commit" /\ op[c] = "reconcile"
  /\ Finish(c)
  /\ active' = [active EXCEPT ![target[c]] = TRUE]
  /\ adminUntil' = IF rowOwner[target[c]] = c
                     THEN [adminUntil EXCEPT ![target[c]] = Never]
                     ELSE adminUntil
  /\ UNCHANGED <<scan, emptyLock>>

-----------------------------------------------------------------------------
(* Single statements, each its own transaction, and the passing of time. *)

\* GrantRole of ADMIN: inserts the row or overwrites its expiry, whichever is
\* earlier. The CHECK constraint wants the expiry after granted_at = now(),
\* which is the moment the statement began: by the time it writes, having
\* waited for the row, the expiry may have passed.
GrantAdmin(p, e) ==
  /\ p \in Grantable
  /\ rowOwner[p] = NoConn
  /\ \E now \in 0..clock : e > now
  /\ adminUntil' = [adminUntil EXCEPT ![p] = e]
  /\ undercut' = undercut \cup
       {c \in Conn : /\ others[c] /\ p \in OthersAt(target[c], since[c])
                     /\ e <= since[c]}
  /\ UNCHANGED <<active, clock, locks, stage, op, target, since, scan, others, emptyLock>>

\* SetPersonActive(true): no guard, no transaction.
Activate(p) ==
  /\ personOwner[p] = NoConn
  /\ active' = [active EXCEPT ![p] = TRUE]
  /\ UNCHANGED <<adminUntil, clock, locks, stage, call, scan, others, emptyLock>>

Tick ==
  /\ clock < MaxTime
  /\ clock' = clock + 1
  /\ UNCHANGED <<data, locks, stage, call, scan, others, emptyLock>>

-----------------------------------------------------------------------------
\* What the connection's goroutine does of itself once the call has begun.
Step(c) ==
  \/ StartLock(c) \/ Locked(c) \/ CountOthers(c) \/ CheckHarmless(c)
  \/ Refuse(c) \/ WriteRevoke(c) \/ WriteDeactivate(c)
  \/ CommitRevoke(c) \/ CommitDeactivate(c)
  \/ Ensure(c) \/ ReadGrants(c) \/ ReconcileGrant(c) \/ CommitReconcile(c)
  \/ \E p \in Person : LockRow(c, p)

Next ==
  \/ \E c \in Conn : Begin(c) \/ Step(c) \/ Rollback(c)
  \/ \E p \in Person, e \in Expiry : GrantAdmin(p, e)
  \/ \E p \in Person : Activate(p)
  \/ Tick

Spec == Init /\ [][Next]_vars

-----------------------------------------------------------------------------
(* Waiting for locks, and the fairness PostgreSQL gives. *)

\* The locks a connection's next statement needs, and who holds them.
BlockedOn(c) ==
  LET holders ==
        CASE stage[c] = "locking" -> {rowOwner[p] : p \in Pending(c)}
          [] stage[c] = "write" /\ op[c] = "revoke" /\ target[c] \in AdminRows ->
               {rowOwner[target[c]]} \ {c}
          [] stage[c] = "grant" -> {rowOwner[target[c]]}
          [] (stage[c] = "write" /\ op[c] = "deactivate")
             \/ (stage[c] = "begun" /\ op[c] = "reconcile") ->
               {personOwner[target[c]]} \ {c}
          [] OTHER -> {}
  IN  IF NoConn \in holders THEN {} ELSE holders

\* A group of connections that wait only for each other.
WaitCircle(S) ==
  S # {} /\ \A d \in S : BlockedOn(d) # {} /\ BlockedOn(d) \subseteq S

\* c is in such a group, and does not merely wait for one.
Deadlocked(c) ==
  \E S \in SUBSET Conn :
    c \in S /\ WaitCircle(S) /\ \A T \in SUBSET S : WaitCircle(T) => T = S

\* The goroutine of a call runs on, and a waiter that could have its lock
\* again and again gets it: PostgreSQL queues waiters. Its deadlock detector
\* aborts one of a group that waits for itself. Nothing else is promised:
\* no request need come, and none need be cancelled.
Fairness ==
  /\ \A c \in Conn : SF_vars(Step(c))
  /\ WF_vars(\E c \in Conn : Deadlocked(c) /\ Rollback(c))

FairSpec == Spec /\ Fairness

-----------------------------------------------------------------------------
(* Properties. *)

PastLock(c) == /\ op[c] \in {"revoke", "deactivate"}
               /\ stage[c] \in {"count", "check", "write", "commit"}

\* LockAdminGrants serialises the guarding transactions that locked anything:
\* two of them are never both past it, however their snapshots, the grants and
\* the revocations between them interleaved (guardingAdmins, people.go).
LockSetsExclude ==
  \A c, d \in Conn :
    c # d /\ PastLock(c) /\ PastLock(d) => scan[c] = {} \/ scan[d] = {}

\* "At least one active person holds an unexpired ADMIN grant", the rule
\* LockAdminGrants names as the one to protect (person.sql).
SomeAdmin == ActiveAdminsAt(clock) # {}

\* With grants that do not expire the rule holds as long as no guard got past
\* LockAdminGrants with nothing locked (guardingAdmins, people.go).
AdminSurvives == emptyLock \/ SomeAdmin

\* With expiring grants: a removal that was allowed because another
\* administrator was counted leaves one when it commits, by the transaction's
\* now(), whatever was granted, shortened, activated, removed and reconciled
\* between the count and the commit. The exception is a grant that was itself
\* late: one that waited until its expiry lay before the guard's now(), and
\* then replaced the grant of somebody the guard had counted and not locked
\* (guardingAdmins and GrantRole, people.go).
RemovalKeepsAdmin ==
  [][\A c \in Conn :
       /\ CommitRevoke(c) \/ CommitDeactivate(c)
       /\ others[c] /\ ~emptyLock /\ c \notin undercut
       => \E p \in Person : active'[p] /\ adminUntil'[p] > since[c]]_vars

\* CountOtherActiveAdmins counts nobody whose temporary grant ran out, as its
\* comment in person.sql wants; now() is older than the wait for the lock.
CountsOnlyUnexpired ==
  [][\A c \in Conn :
       CountOthers(c) /\ others'[c] => OthersAt(target[c], clock) # {}]_vars

\* Whoever waits for a row lock waits for others whose transactions are open:
\* no refusal, rollback or commit leaves a lock behind, and nobody waits for a
\* row that is locked by the same transaction (guardingAdmins, reconcileOne).
WaitsForTheOpen ==
  \A c \in Conn : BlockedOn(c) \subseteq {d \in Conn \ {c} : stage[d] # "idle"}

\* Every call of guardingAdmins and reconcileOne ends: no row lock is waited
\* for forever, also when two of them wait for each other.
CallsEnd == \A c \in Conn : stage[c] # "idle" ~> stage[c] = "idle"

-----------------------------------------------------------------------------
(* The registry of administrators that grants without expiry implement. *)

Registry == INSTANCE AdminRegistry WITH holders <- AdminRows

\* Every commit of a statement, guard or reconciliation is one step of the
\* atomic registry, where removals happen only while somebody else remains.
RegistrySpec == Registry!Spec
=============================================================================
