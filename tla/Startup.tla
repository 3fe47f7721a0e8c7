------------------------------ MODULE Startup ------------------------------
(***************************************************************************)
(* One process after another, and several at once: bootstrap.Serve. A      *)
(* server configures itself, migrates the database under goose's session   *)
(* lock, opens its pool, restores the protected administrators, listens,   *)
(* and on SIGTERM drains and closes the pool. It may be killed at every    *)
(* step of that, another may be started meanwhile, and an older image may  *)
(* run beside a newer one.                                                 *)
(*                                                                         *)
(* What a request does is other modules' business; here it is a loop of    *)
(* statements, each on a connection of the pool, and those that matter to  *)
(* the repair are what a request on another server does to a listed        *)
(* person. The locks of the guard that lets it are AdminGuard's.           *)
(***************************************************************************)
EXTENDS Integers, Sequences

CONSTANTS
  Server,    \* the processes
  NoServer,
  Request,   \* the requests that can be under way
  Entry,     \* the entries of auth.protectedadmins
  NoMail,    \* an entry without a mail address
  Lists,     \* the lists a start can find in its file
  Carries,   \* [Server -> Nat]: the last migration embedded in its image
  Newest,    \* the last migration there is
  MaxPolls   \* lock.WithLockTimeout: 300 polls, a second apart

ASSUME StartupAssumption ==
  /\ NoServer \notin Server
  /\ NoMail \in Entry
  /\ Lists \subseteq Seq(Entry)
  /\ Newest \in Nat
  /\ Carries \in [Server -> 0..Newest]
  /\ MaxPolls \in Nat

VARIABLES
  stage,     \* [Server -> Stage]: how far Serve has come
  status,    \* [Server -> BOOLEAN]: -migrate-status was given
  usable,    \* [Server -> BOOLEAN]: auth.ParseMode knows the configured mode
  list,      \* [Server -> Lists]: auth.protectedadmins
  polls,     \* [Server -> 0..MaxPolls]: tries for the lock
  pending,   \* [Server -> SUBSET (1..Newest)]: goose's plan
  entry,     \* [Server -> Nat]: the entry to reconcile next
  bound,     \* [Server -> BOOLEAN]: ListenAndServe has its port
  lock,      \* the session that holds the advisory lock, or NoServer
  versions,  \* goose_db_version, a row for each migration that was run
  active,    \* the entries whose person is there and active
  holding,   \* the entries whose person has an ADMIN row that is in force
  stale,     \* the servers in whose open transaction a grant of the entry has
             \* run out: by its now() it is still in force
  at,        \* [Request -> Server \cup {NoServer}]: who is handling it
  using,     \* the requests that hold a connection of their server's pool
  touched,   \* history: the servers that changed the database in this life
  held,      \* history: [Server -> SUBSET Entry]: who was an administrator
             \* at some moment of its life
  robbed,    \* history: [Server -> SUBSET Entry]: whose ADMIN was revoked or
             \* ran out while the transaction that was to restore them was open
  gaveUp,    \* history: the servers whose Shutdown ran out of its 30 seconds
  cut        \* history: the servers that left a request unfinished on the way out

own == <<status, usable, list>>
progress == <<polls, pending, entry, bound>>
people == <<active, holding, stale>>
database == <<lock, versions, active, holding, stale>>
traffic == <<at, using>>
histories == <<touched, gaveUp, cut>>

Stage == {"down", "config", "status", "mode", "look", "lock", "plan", "migrate", "open",
          "reconcile", "ensure", "grant", "commit", "launch", "serve", "drain", "close"}

Starting == {"config", "mode", "look", "lock", "plan", "migrate", "open",
             "reconcile", "ensure", "grant", "commit", "launch"}
Ready == {"launch", "serve", "drain", "close"}  \* main has got past the repair

Applied == {versions[i] : i \in DOMAIN versions}
Carried(s) == 1..Carries[s]
Handled(s) == {r \in Request : at[r] = s}

\* Who can administer the installation, of the entries.
admins == active \cap holding

\* s has a transaction open for e; from EnsurePerson on it holds e's person row.
Repairs(s, e) == stage[s] \in {"ensure", "grant", "commit"} /\ list[s][entry[s]] = e
Locks(s, e) == stage[s] \in {"grant", "commit"} /\ list[s][entry[s]] = e
PersonFree(e) == \A s \in Server : ~Locks(s, e)

TypeOK ==
  /\ stage \in [Server -> Stage]
  /\ status \in [Server -> BOOLEAN]
  /\ usable \in [Server -> BOOLEAN]
  /\ list \in [Server -> Lists \cup {<<>>}]
  /\ polls \in [Server -> 0..MaxPolls]
  /\ pending \in [Server -> SUBSET (1..Newest)]
  /\ entry \in [Server -> Nat]
  /\ bound \in [Server -> BOOLEAN]
  /\ lock \in Server \cup {NoServer}
  /\ versions \in Seq(1..Newest)
  /\ active \subseteq Entry /\ holding \subseteq Entry
  /\ stale \subseteq Server
  /\ at \in [Request -> Server \cup {NoServer}]
  /\ using \subseteq Request
  /\ touched \subseteq Server
  /\ held \in [Server -> SUBSET Entry]
  /\ robbed \in [Server -> SUBSET Entry]
  /\ gaveUp \subseteq Server
  /\ cut \subseteq Server

\* Whatever images ran before, and whoever they left in charge.
Init ==
  /\ stage = [s \in Server |-> "down"]
  /\ status = [s \in Server |-> FALSE]
  /\ usable = [s \in Server |-> TRUE]
  /\ list = [s \in Server |-> <<>>]
  /\ polls = [s \in Server |-> 0]
  /\ pending = [s \in Server |-> {}]
  /\ entry = [s \in Server |-> 1]
  /\ bound = [s \in Server |-> FALSE]
  /\ lock = NoServer
  /\ \E n \in 0..Newest : versions = [v \in 1..n |-> v]
  /\ active \in SUBSET (Entry \ {NoMail}) /\ holding \in SUBSET (Entry \ {NoMail})
  /\ stale = {}
  /\ at = [r \in Request |-> NoServer]
  /\ using = {}
  /\ touched = {}
  /\ held = [s \in Server |-> {}]
  /\ robbed = [s \in Server |-> {}]
  /\ gaveUp = {}
  /\ cut = {}

-----------------------------------------------------------------------------
(* The process ends: its sessions die, and their lock with them.           *)

\* Mutant: the lock is a row of a table, which outlives the process.
EndLeavingLock(s) ==
  /\ stage' = [stage EXCEPT ![s] = "down"]
  /\ status' = [status EXCEPT ![s] = FALSE]
  /\ usable' = [usable EXCEPT ![s] = TRUE]
  /\ list' = [list EXCEPT ![s] = <<>>]
  /\ polls' = [polls EXCEPT ![s] = 0]
  /\ pending' = [pending EXCEPT ![s] = {}]
  /\ entry' = [entry EXCEPT ![s] = 1]
  /\ bound' = [bound EXCEPT ![s] = FALSE]
  /\ at' = [r \in Request |-> IF at[r] = s THEN NoServer ELSE at[r]]
  /\ using' = using \ Handled(s)
  /\ stale' = stale \ {s}
  /\ UNCHANGED <<lock, versions, active, holding, touched, gaveUp>>

End(s) ==
  /\ stage' = [stage EXCEPT ![s] = "down"]
  /\ status' = [status EXCEPT ![s] = FALSE]
  /\ usable' = [usable EXCEPT ![s] = TRUE]
  /\ list' = [list EXCEPT ![s] = <<>>]
  /\ polls' = [polls EXCEPT ![s] = 0]
  /\ pending' = [pending EXCEPT ![s] = {}]
  /\ entry' = [entry EXCEPT ![s] = 1]
  /\ bound' = [bound EXCEPT ![s] = FALSE]
  /\ lock' = IF lock = s THEN NoServer ELSE lock
  /\ at' = [r \in Request |-> IF at[r] = s THEN NoServer ELSE at[r]]
  /\ using' = using \ Handled(s)
  /\ stale' = stale \ {s}
  /\ UNCHANGED <<versions, active, holding, touched, gaveUp>>

\* SIGKILL at any time, a signal before Notify, or a log.Fatal: the database
\* cannot be reached, a migration or a statement fails (or PostgreSQL aborts it
\* to break a deadlock with a guard), the port is taken.
Kill(s) == stage[s] # "down" /\ End(s) /\ UNCHANGED cut

-----------------------------------------------------------------------------
(* Configuration. *)

Start(s, asked, known, L) ==
  /\ stage[s] = "down"
  /\ stage' = [stage EXCEPT ![s] = "config"]
  /\ status' = [status EXCEPT ![s] = asked]
  /\ usable' = [usable EXCEPT ![s] = known]
  /\ list' = [list EXCEPT ![s] = L]
  /\ touched' = touched \ {s}
  /\ gaveUp' = gaveUp \ {s}
  /\ cut' = cut \ {s}
  /\ UNCHANGED <<progress, database, traffic>>

\* The named file is missing, it has an unknown key, -addr has no usable port,
\* or TALLOX_DB_URL is empty.
RefuseConfig(s) == stage[s] = "config" /\ End(s) /\ UNCHANGED cut

\* -migrate-status is asked before the mode is.
Configure(s) ==
  /\ stage[s] = "config"
  /\ stage' = [stage EXCEPT ![s] = IF status[s] THEN "status" ELSE "mode"]
  /\ UNCHANGED <<own, progress, database, traffic, histories>>

\* reportMigrationStatus: unlocked, and it only reads.
ReportStatus(s) == stage[s] = "status" /\ End(s) /\ UNCHANGED cut

\* Mutant: the mode is looked at where it is first needed, by the router.
ParseModeLater(s) ==
  /\ stage[s] = "mode"
  /\ stage' = [stage EXCEPT ![s] = "look"]
  /\ UNCHANGED <<own, progress, database, traffic, histories>>

ParseMode(s) ==
  /\ stage[s] = "mode"
  /\ usable[s]
  /\ stage' = [stage EXCEPT ![s] = "look"]
  /\ UNCHANGED <<own, progress, database, traffic, histories>>

RefuseMode(s) == stage[s] = "mode" /\ ~usable[s] /\ End(s) /\ UNCHANGED cut

-----------------------------------------------------------------------------
(* store.MigrateUpDSN, on a connection of its own. *)

\* goose looks whether anything is pending, and takes no lock if nothing is.
LookForPending(s) ==
  /\ stage[s] = "look"
  /\ stage' = [stage EXCEPT ![s] = IF Carried(s) \subseteq Applied THEN "open" ELSE "lock"]
  /\ UNCHANGED <<own, progress, database, traffic, histories>>

\* Mutant: Migrate instead of MigrateUpDSN, which takes no lock.
TakeNoLock(s) ==
  /\ stage[s] = "lock"
  /\ stage' = [stage EXCEPT ![s] = "plan"]
  /\ UNCHANGED <<own, progress, database, traffic, histories>>

\* pg_try_advisory_lock.
TakeLock(s) ==
  /\ stage[s] = "lock"
  /\ lock = NoServer
  /\ lock' = s
  /\ stage' = [stage EXCEPT ![s] = "plan"]
  /\ UNCHANGED <<own, progress, versions, people, traffic, histories>>

\* Mutant: no ceiling.
PollLockForever(s) ==
  /\ stage[s] = "lock"
  /\ lock # NoServer
  /\ polls' = [polls EXCEPT ![s] = @ + 1]
  /\ UNCHANGED <<stage, own, pending, entry, bound, database, traffic, histories>>

PollLock(s) ==
  /\ stage[s] = "lock"
  /\ lock # NoServer
  /\ polls[s] < MaxPolls
  /\ polls' = [polls EXCEPT ![s] = @ + 1]
  /\ UNCHANGED <<stage, own, pending, entry, bound, database, traffic, histories>>

\* Mutant: a server that could not get the lock begins to poll again.
GiveUpLockNever(s) ==
  /\ stage[s] = "lock"
  /\ lock # NoServer
  /\ polls[s] = MaxPolls
  /\ polls' = [polls EXCEPT ![s] = 0]
  /\ UNCHANGED <<stage, own, pending, entry, bound, database, traffic, histories>>

GiveUpLock(s) ==
  /\ stage[s] = "lock"
  /\ lock # NoServer
  /\ polls[s] = MaxPolls
  /\ End(s)
  /\ UNCHANGED cut

\* goose compares the version table with what the image carries.
Plan(s) ==
  /\ stage[s] = "plan"
  /\ pending' = [pending EXCEPT ![s] = Carried(s) \ Applied]
  /\ stage' = [stage EXCEPT ![s] = "migrate"]
  /\ UNCHANGED <<own, polls, entry, bound, database, traffic, histories>>

\* The migration and its row in goose_db_version, in one transaction.
Migrate(s, v) ==
  /\ stage[s] = "migrate"
  /\ v \in pending[s]
  /\ \A w \in pending[s] : v <= w
  /\ versions' = Append(versions, v)
  /\ pending' = [pending EXCEPT ![s] = @ \ {v}]
  /\ touched' = touched \cup {s}
  /\ UNCHANGED <<stage, own, polls, entry, bound, lock, people, traffic, gaveUp, cut>>

\* Mutant: goose's Up is asked for one migration.
UnlockAfterOne(s) ==
  /\ stage[s] = "migrate"
  /\ pending[s] = {} \/ s \in touched
  /\ lock' = NoServer
  /\ pending' = [pending EXCEPT ![s] = {}]
  /\ stage' = [stage EXCEPT ![s] = "open"]
  /\ UNCHANGED <<own, polls, entry, bound, versions, people, traffic, histories>>

Unlock(s) ==
  /\ stage[s] = "migrate"
  /\ pending[s] = {}
  /\ lock' = NoServer
  /\ stage' = [stage EXCEPT ![s] = "open"]
  /\ UNCHANGED <<own, progress, versions, people, traffic, histories>>

-----------------------------------------------------------------------------
(* store.Open and reconcileProtectedAdmins. *)

OpenPool(s) ==
  /\ stage[s] = "open"
  /\ stage' = [stage EXCEPT ![s] = "reconcile"]
  /\ UNCHANGED <<own, progress, database, traffic, histories>>

More(s) == entry[s] <= Len(list[s])

\* reconcileOne: a transaction for each entry, which fixes its now().
BeginEntry(s) ==
  /\ stage[s] = "reconcile"
  /\ More(s)
  /\ list[s][entry[s]] # NoMail
  /\ stage' = [stage EXCEPT ![s] = "ensure"]
  /\ UNCHANGED <<own, progress, database, traffic, histories>>

\* EnsurePerson waits for the person row and keeps it locked; SetPersonActive
\* writes that row. PersonByID then reads the grants, and locks none of them.
ReadEntry(s) ==
  /\ stage[s] = "ensure"
  /\ PersonFree(list[s][entry[s]])
  /\ stage' = [stage EXCEPT ![s] =
                 IF list[s][entry[s]] \in holding \/ s \in stale THEN "commit" ELSE "grant"]
  /\ stale' = stale \ {s}
  /\ UNCHANGED <<own, progress, lock, versions, active, holding, traffic, histories>>

\* Mutant: somebody is reactivated only if ADMIN is missing too.
CommitEntryIfGranted(s) ==
  /\ stage[s] \in {"grant", "commit"}
  /\ active' = IF stage[s] = "grant" THEN active \cup {list[s][entry[s]]} ELSE active
  /\ holding' = IF stage[s] = "grant" THEN holding \cup {list[s][entry[s]]} ELSE holding
  /\ touched' = touched \cup {s}
  /\ entry' = [entry EXCEPT ![s] = @ + 1]
  /\ stage' = [stage EXCEPT ![s] = "reconcile"]
  /\ UNCHANGED <<own, polls, pending, bound, lock, versions, stale, traffic, gaveUp, cut>>

\* GrantRole, if ADMIN was read as missing, and tx.Commit.
CommitEntry(s) ==
  /\ stage[s] \in {"grant", "commit"}
  /\ active' = active \cup {list[s][entry[s]]}
  /\ holding' = IF stage[s] = "grant" THEN holding \cup {list[s][entry[s]]} ELSE holding
  /\ touched' = touched \cup {s}
  /\ entry' = [entry EXCEPT ![s] = @ + 1]
  /\ stage' = [stage EXCEPT ![s] = "reconcile"]
  /\ UNCHANGED <<own, polls, pending, bound, lock, versions, stale, traffic, gaveUp, cut>>

\* Fatal, with the entries above it committed and those below it not looked at.
RefuseEntry(s) ==
  /\ stage[s] = "reconcile"
  /\ More(s)
  /\ list[s][entry[s]] = NoMail
  /\ End(s)
  /\ UNCHANGED cut

\* The listening goroutine is started.
Launch(s) ==
  /\ stage[s] = "reconcile"
  /\ ~More(s)
  /\ stage' = [stage EXCEPT ![s] = "launch"]
  /\ UNCHANGED <<own, progress, database, traffic, histories>>

-----------------------------------------------------------------------------
(* Serving, and the way out. *)

\* The goroutine gets its port, before or after main has got to Notify. Once
\* Shutdown has begun, ListenAndServe returns without listening.
Listen(s) ==
  /\ stage[s] \in {"launch", "serve"}
  /\ ~bound[s]
  /\ bound' = [bound EXCEPT ![s] = TRUE]
  /\ UNCHANGED <<stage, own, polls, pending, entry, database, traffic, histories>>

Notify(s) ==
  /\ stage[s] = "launch"
  /\ stage' = [stage EXCEPT ![s] = "serve"]
  /\ UNCHANGED <<own, progress, database, traffic, histories>>

\* Mutant: the deferred Close runs before Shutdown is through.
TerminateAtOnce(s) ==
  /\ stage[s] = "serve"
  /\ stage' = [stage EXCEPT ![s] = "close"]
  /\ bound' = [bound EXCEPT ![s] = FALSE]
  /\ UNCHANGED <<own, polls, pending, entry, database, traffic, histories>>

\* SIGTERM or an interrupt: Shutdown closes the listener.
Terminate(s) ==
  /\ stage[s] = "serve"
  /\ stage' = [stage EXCEPT ![s] = "drain"]
  /\ bound' = [bound EXCEPT ![s] = FALSE]
  /\ UNCHANGED <<own, polls, pending, entry, database, traffic, histories>>

Drained(s) ==
  /\ stage[s] = "drain"
  /\ Handled(s) = {}
  /\ stage' = [stage EXCEPT ![s] = "close"]
  /\ UNCHANGED <<own, progress, database, traffic, histories>>

\* Mutant: Shutdown waits as long as it takes.
DrainTimesOutNever(s) ==
  /\ stage[s] = "drain"
  /\ Handled(s) = {}
  /\ gaveUp' = gaveUp \cup {s}
  /\ stage' = [stage EXCEPT ![s] = "close"]
  /\ UNCHANGED <<own, progress, database, traffic, touched, cut>>

\* The 30 seconds are over. Nobody cancels what is still under way.
DrainTimesOut(s) ==
  /\ stage[s] = "drain"
  /\ Handled(s) # {}
  /\ gaveUp' = gaveUp \cup {s}
  /\ stage' = [stage EXCEPT ![s] = "close"]
  /\ UNCHANGED <<own, progress, database, traffic, touched, cut>>

\* pool.Close returns when every connection has been given back; then main
\* returns, and what is left of the requests ends with it.
Exit(s) ==
  /\ stage[s] = "close"
  /\ Handled(s) \cap using = {}
  /\ End(s)
  /\ cut' = IF Handled(s) = {} THEN cut ELSE cut \cup {s}

-----------------------------------------------------------------------------
(* A request: a statement, another, and an answer. *)

Accept(r, s) ==
  /\ at[r] = NoServer
  /\ bound[s]
  /\ at' = [at EXCEPT ![r] = s]
  /\ UNCHANGED <<stage, own, progress, database, using, histories>>

Acquire(r) ==
  /\ at[r] # NoServer /\ r \notin using
  /\ stage[at[r]] # "close"
  /\ using' = using \cup {r}
  /\ UNCHANGED <<stage, own, progress, database, at, histories>>

\* A statement or a transaction is over, and the connection is given back.
GiveBack(r) ==
  /\ r \in using
  /\ using' = using \ {r}
  /\ UNCHANGED <<stage, own, progress, database, at, histories>>

\* "closed pool": what the request had left to do remains undone.
CutOff(r) ==
  /\ at[r] # NoServer /\ r \notin using
  /\ stage[at[r]] = "close"
  /\ cut' = cut \cup {at[r]}
  /\ at' = [at EXCEPT ![r] = NoServer]
  /\ UNCHANGED <<stage, own, progress, database, using, touched, gaveUp>>

\* The answer is written, as fast as the client takes it.
Answer(r) ==
  /\ at[r] # NoServer /\ r \notin using
  /\ at' = [at EXCEPT ![r] = NoServer]
  /\ UNCHANGED <<stage, own, progress, database, using, histories>>

-----------------------------------------------------------------------------
(* What administrators do about a listed person meanwhile, through a request *)
(* on some server, and what time does.                                       *)

Administered == \E s \in Server : Handled(s) \cap using # {}

\* setPersonActive waits for the person row.
SetPersonActive(e, b) ==
  /\ Administered /\ e # NoMail
  /\ PersonFree(e)
  /\ active' = IF b THEN active \cup {e} ELSE active \ {e}
  /\ UNCHANGED <<stage, own, progress, lock, versions, holding, stale, traffic, histories>>

GrantAdmin(e) ==
  /\ Administered /\ e # NoMail
  /\ holding' = holding \cup {e}
  /\ UNCHANGED <<stage, own, progress, lock, versions, active, stale, traffic, histories>>

\* The row is gone for every statement that begins from now on.
RevokeAdmin(e) ==
  /\ Administered /\ e # NoMail
  /\ holding' = holding \ {e}
  /\ stale' = {s \in stale : ~Repairs(s, e)}
  /\ UNCHANGED <<stage, own, progress, lock, versions, active, traffic, histories>>

\* A temporary grant runs out, though not for the transactions already open.
Lapse(e) ==
  /\ e \in holding
  /\ holding' = holding \ {e}
  /\ stale' = stale \cup {s \in Server : stage[s] = "ensure" /\ Repairs(s, e)}
  /\ UNCHANGED <<stage, own, progress, lock, versions, active, traffic, histories>>

Meanwhile(e) ==
  \/ \E b \in BOOLEAN : SetPersonActive(e, b)
  \/ GrantAdmin(e) \/ RevokeAdmin(e) \/ Lapse(e)

-----------------------------------------------------------------------------
\* The steps main takes by itself.
Proceed(s) ==
  \/ RefuseConfig(s) \/ Configure(s) \/ ReportStatus(s) \/ ParseMode(s) \/ RefuseMode(s)
  \/ LookForPending(s) \/ TakeLock(s) \/ PollLock(s) \/ GiveUpLock(s) \/ Plan(s) \/ Unlock(s)
  \/ \E v \in 1..Newest : Migrate(s, v)
  \/ OpenPool(s) \/ BeginEntry(s) \/ ReadEntry(s) \/ CommitEntry(s) \/ RefuseEntry(s)
  \/ Launch(s) \/ Notify(s)
  \/ Drained(s) \/ DrainTimesOut(s) \/ Exit(s)

Step ==
  \/ \E s \in Server :
       \/ \E asked, known \in BOOLEAN, L \in Lists : Start(s, asked, known, L)
       \/ Proceed(s) \/ Listen(s) \/ Terminate(s) \/ Kill(s)
  \/ \E r \in Request :
       \/ \E s \in Server : Accept(r, s)
       \/ Acquire(r) \/ GiveBack(r) \/ CutOff(r) \/ Answer(r)
  \/ \E e \in Entry : Meanwhile(e)

\* History: who is an administrator while a server lives, and whose ADMIN ends
\* under its hands.
Watch ==
  /\ held' = [s \in Server |-> IF stage'[s] = "down" THEN {} ELSE held[s] \cup admins']
  /\ robbed' = [s \in Server |->
                  IF stage'[s] = "down" THEN {}
                  ELSE robbed[s] \cup {e \in holding \ holding' : Repairs(s, e)}]

Next == Step /\ Watch

vars == <<stage, status, usable, list, polls, pending, entry, bound, lock, versions,
          active, holding, stale, at, using, touched, held, robbed, gaveUp, cut>>

Spec == Init /\ [][Next]_vars

\* main is scheduled, the timers fire and a statement ends. A client need not
\* read its answer, nobody need stop a server or start one. Whoever waits for a
\* person row is queued for it, however often others get it first.
Fairness ==
  /\ \A s \in Server : WF_vars(Proceed(s) /\ Watch)
  /\ \A s \in Server : SF_vars(ReadEntry(s) /\ Watch)
  /\ \A r \in Request : WF_vars(GiveBack(r) /\ Watch)

FairSpec == Spec /\ Fairness

-----------------------------------------------------------------------------
(* Properties. *)

\* "A container killed mid-migration does not leave the next one waiting for a
\* lock nobody holds": the lock's holder is alive, and about to migrate
\* (exclusively).
LockIsOfTheLiving == lock # NoServer => stage[lock] \in {"plan", "migrate"}

\* "A container that has the binary has the schema": whoever serves or listens
\* finds every migration of its image run, by it or by another, whoever was
\* killed in the middle (MigrateUpDSN before Open in Serve).
ServesOnItsSchema ==
  \A s \in Server : stage[s] \in Ready \/ bound[s] => Carried(s) \subseteq Applied

\* A server that is asked for a report, or whose authentication mode nobody
\* knows, leaves the schema and the administrators as they are (the order of
\* ApplyFlagOverrides, reportMigrationStatus, ParseMode and MigrateUpDSN).
OnlyRealStartsTouch == \A s \in touched : stage[s] # "down" => usable[s] /\ ~status[s]

\* "Restart the container" is the way back in: a server that listens has a list
\* each of whose people has been an administrator since the server was started,
\* however many of them were removed before or meanwhile, through whatever other
\* server, and however early in the list an entry failed. The one way to be left
\* out is to lose ADMIN while the very transaction is open that found it in
\* place (reconcileProtectedAdmins, reconcileOne).
ListedGotIn ==
  \A s \in Server : stage[s] \in Ready \/ bound[s] =>
    \A i \in DOMAIN list[s] : list[s][i] \in held[s] \cup robbed[s]

\* A server that was told to stop leaves no request in the middle of its
\* statements, unless it waited its 30 seconds for it (Shutdown before the
\* deferred pool.Close).
DrainsItsRequests == cut \subseteq gaveUp

\* goose and its lock, seen from the database: see SchemaHistory.
History == INSTANCE SchemaHistory
MigratesInOrder == History!Spec

\* A start comes to an end: the server serves, or it is gone. That holds while
\* others start, hold the lock and are killed again and again, because the
\* waiting has a ceiling (exclusively).
StartEnds == \A s \in Server : stage[s] \in Starting ~> stage[s] \in {"serve", "down"}

\* And so does a stop, though a client never takes its answer (the 30 seconds).
StopEnds == \A s \in Server : stage[s] = "drain" ~> stage[s] = "down"
=============================================================================
