--------------------------- MODULE StartupProofs ---------------------------
(***************************************************************************)
(* What holds of starting, serving and stopping for every number of        *)
(* servers and requests, every mix of images, every list of entries and    *)
(* every ceiling of the lock: types, the lock, the schema and its history, *)
(* who may touch the database, the repair, and the drain.                  *)
(***************************************************************************)
EXTENDS Startup, TLAPS

-----------------------------------------------------------------------------
(* Type correctness. *)

\* TypeOK, without the history variables held and robbed.
Typed0 ==
  /\ stage \in [Server -> Stage]
  /\ status \in [Server -> BOOLEAN]
  /\ usable \in [Server -> BOOLEAN]
  /\ list \in [Server -> Lists \cup {<<>>}]
  /\ polls \in [Server -> 0..MaxPolls]
  /\ pending \in [Server -> SUBSET (1..Newest)]
  /\ entry \in [Server -> Nat]
  /\ bound \in [Server -> BOOLEAN]
  /\ lock \in Server \cup {NoServer}
  /\ versions \in Seq(1..Newest)
  /\ active \subseteq Entry /\ holding \subseteq Entry
  /\ stale \subseteq Server
  /\ at \in [Request -> Server \cup {NoServer}]
  /\ using \subseteq Request
  /\ touched \subseteq Server
  /\ gaveUp \subseteq Server
  /\ cut \subseteq Server

LEMMA TypeInit == Init => TypeOK
<1>1. ASSUME NEW n \in 0..Newest PROVE [v \in 1..n |-> v] \in Seq(1..Newest)
  BY <1>1, StartupAssumption
<1>2. QED
  BY <1>1, StartupAssumption DEF Init, TypeOK, Stage

LEMMA EndTyped == ASSUME TypeOK, NEW s \in Server, End(s), cut' \subseteq Server PROVE Typed0'
  BY StartupAssumption DEF End, TypeOK, Typed0, Stage

LEMMA CarriedTyped == \A s \in Server : Carried(s) \subseteq 1..Newest
<1>1. ASSUME NEW s \in Server, NEW v \in Carried(s) PROVE v \in 1..Newest
  <2>1. Carries[s] \in 0..Newest
    BY StartupAssumption
  <2>2. QED
    BY <1>1, <2>1, StartupAssumption DEF Carried
<1>2. QED
  BY <1>1

\* An entry of a list is one of the entries.
LEMMA EntryTyped ==
  ASSUME TypeOK, NEW s \in Server, More(s), entry[s] # 0
  PROVE  list[s][entry[s]] \in Entry
<1>1. list[s] \in Seq(Entry)
  <2>1. <<>> \in Seq(Entry)
    OBVIOUS
  <2>2. QED
    BY <2>1, StartupAssumption DEF TypeOK
<1>2. entry[s] \in 1..Len(list[s])
  BY <1>1 DEF TypeOK, More
<1>3. QED
  BY <1>1, <1>2

\* The stages with a transaction open for an entry.
Restoring == {"ensure", "grant", "commit"}

\* What others do to a listed person is no server's step.
LEMMA MeanwhileFrame ==
  ASSUME NEW e \in Entry, Meanwhile(e)
  PROVE  UNCHANGED <<stage, own, progress, lock, versions, traffic, histories>>
  BY DEF Meanwhile, SetPersonActive, GrantAdmin, RevokeAdmin, Lapse

\* Every server counts its entries from one, and opens a transaction for none
\* beyond the last.
Counts == \A s \in Server : entry[s] # 0 /\ (stage[s] \in Restoring => More(s))

LEMMA StepCounts == ASSUME TypeOK, Counts, Step PROVE Counts'
<1>1. ASSUME NEW s \in Server, End(s) PROVE Counts'
  BY <1>1 DEF End, Counts, More, Restoring, TypeOK
<1>2. ASSUME NEW s \in Server, CommitEntry(s) PROVE Counts'
  BY <1>2 DEF CommitEntry, Counts, More, Restoring, TypeOK, own
<1>3. ASSUME NEW s \in Server, BeginEntry(s) \/ ReadEntry(s) PROVE Counts'
  BY <1>3 DEF BeginEntry, ReadEntry, Counts, More, Restoring, TypeOK, own, progress
<1>4. ASSUME NEW s \in Server, NEW asked \in BOOLEAN, NEW known \in BOOLEAN, NEW L \in Lists,
             Start(s, asked, known, L)
      PROVE  Counts'
  BY <1>4 DEF Start, Counts, More, Restoring, TypeOK, progress
<1>5. ASSUME NEW s \in Server,
             \/ Configure(s) \/ ParseMode(s) \/ LookForPending(s) \/ TakeLock(s) \/ Plan(s)
             \/ Unlock(s) \/ OpenPool(s) \/ Launch(s) \/ Notify(s) \/ Terminate(s)
             \/ Drained(s) \/ DrainTimesOut(s)
      PROVE  Counts'
  BY <1>5 DEF Configure, ParseMode, LookForPending, TakeLock, Plan, Unlock, OpenPool, Launch,
              Notify, Terminate, Drained, DrainTimesOut, Counts, More, Restoring, TypeOK,
              own, progress
<1>6. CASE UNCHANGED <<stage, list, entry>>
  BY <1>6 DEF Counts, More
<1>7. ASSUME \/ \E s \in Server : \/ PollLock(s) \/ Listen(s)
                                 \/ \E v \in 1..Newest : Migrate(s, v)
             \/ \E r \in Request : \/ \E s \in Server : Accept(r, s)
                                 \/ Acquire(r) \/ GiveBack(r) \/ CutOff(r) \/ Answer(r)
      PROVE  Counts'
  BY <1>6, <1>7 DEF PollLock, Listen, Migrate, Accept, Acquire, GiveBack, CutOff, Answer,
                    own, progress
<1>8. ASSUME NEW e \in Entry, Meanwhile(e) PROVE Counts'
  BY <1>6, <1>8, MeanwhileFrame DEF own, progress
<1>9. QED
  BY <1>1, <1>2, <1>3, <1>4, <1>5, <1>7, <1>8
  DEF Step, Proceed, Kill, RefuseConfig, ReportStatus, RefuseMode, GiveUpLock, RefuseEntry, Exit

LEMMA StepTyped == ASSUME TypeOK, Counts, Step PROVE Typed0'
<1>1. ASSUME NEW s \in Server, NEW asked \in BOOLEAN, NEW known \in BOOLEAN, NEW L \in Lists,
             Start(s, asked, known, L)
      PROVE  Typed0'
  BY <1>1 DEF Start, TypeOK, Typed0, Stage, progress, database, traffic
<1>2. ASSUME NEW s \in Server,
             \/ Kill(s) \/ RefuseConfig(s) \/ ReportStatus(s) \/ RefuseMode(s)
             \/ GiveUpLock(s) \/ RefuseEntry(s) \/ Exit(s)
      PROVE  Typed0'
  <2>1. End(s) /\ cut' \subseteq Server
    BY <1>2 DEF Kill, RefuseConfig, ReportStatus, RefuseMode, GiveUpLock, RefuseEntry, Exit, TypeOK
  <2>2. QED
    BY <2>1, EndTyped
<1>3. ASSUME NEW s \in Server,
             \/ Configure(s) \/ ParseMode(s) \/ LookForPending(s) \/ OpenPool(s)
             \/ BeginEntry(s) \/ Launch(s) \/ Notify(s)
      PROVE  Typed0'
  BY <1>3 DEF Configure, ParseMode, LookForPending, OpenPool, BeginEntry, Launch, Notify,
              TypeOK, Typed0, Stage, own, progress, database, traffic, histories
<1>4. ASSUME NEW s \in Server, TakeLock(s) \/ PollLock(s) \/ Unlock(s)
      PROVE  Typed0'
  <2>1. CASE TakeLock(s)
    BY <2>1 DEF TakeLock, TypeOK, Typed0, Stage, own, progress, people, traffic, histories
  <2>2. CASE PollLock(s)
    <3>1. polls[s] + 1 \in 0..MaxPolls
      BY <2>2, StartupAssumption DEF PollLock, TypeOK
    <3>2. QED
      BY <2>2, <3>1 DEF PollLock, TypeOK, Typed0, own, database, traffic, histories
  <2>3. CASE Unlock(s)
    BY <2>3 DEF Unlock, TypeOK, Typed0, Stage, own, progress, people, traffic, histories
  <2>4. QED
    BY <1>4, <2>1, <2>2, <2>3
<1>5. ASSUME NEW s \in Server, Plan(s) PROVE Typed0'
  BY <1>5, CarriedTyped
  DEF Plan, TypeOK, Typed0, Stage, own, database, traffic, histories
<1>6. ASSUME NEW s \in Server, NEW v \in 1..Newest, Migrate(s, v) PROVE Typed0'
  BY <1>6 DEF Migrate, TypeOK, Typed0, own, people, traffic
<1>7. ASSUME NEW s \in Server, ReadEntry(s) \/ CommitEntry(s) PROVE Typed0'
  <2>1. list[s][entry[s]] \in Entry
    BY <1>7, EntryTyped DEF ReadEntry, CommitEntry, Counts, Restoring
  <2>2. CASE ReadEntry(s)
    BY <2>2 DEF ReadEntry, TypeOK, Typed0, Stage, own, progress, traffic, histories
  <2>3. CASE CommitEntry(s)
    BY <2>1, <2>3 DEF CommitEntry, TypeOK, Typed0, Stage, own, traffic
  <2>4. QED
    BY <1>7, <2>2, <2>3
<1>8. ASSUME NEW s \in Server, Listen(s) \/ Terminate(s) \/ Drained(s) \/ DrainTimesOut(s)
      PROVE  Typed0'
  BY <1>8 DEF Listen, Terminate, Drained, DrainTimesOut, TypeOK, Typed0, Stage,
              own, progress, database, traffic, histories
<1>9. ASSUME NEW r \in Request,
             \/ \E s \in Server : Accept(r, s)
             \/ Acquire(r) \/ GiveBack(r) \/ CutOff(r) \/ Answer(r)
      PROVE  Typed0'
  BY <1>9 DEF Accept, Acquire, GiveBack, CutOff, Answer, TypeOK, Typed0,
              own, progress, database, histories
<1>10. ASSUME NEW e \in Entry, Meanwhile(e) PROVE Typed0'
  <2>1. active' \subseteq Entry /\ holding' \subseteq Entry /\ stale' \subseteq Server
    BY <1>10 DEF Meanwhile, SetPersonActive, GrantAdmin, RevokeAdmin, Lapse, TypeOK
  <2>2. QED
    BY <1>10, <2>1, MeanwhileFrame DEF TypeOK, Typed0, own, progress, traffic, histories
<1>11. QED
  BY <1>1, <1>2, <1>3, <1>4, <1>5, <1>6, <1>7, <1>8, <1>9, <1>10 DEF Step, Proceed

Typed == TypeOK /\ Counts

LEMMA TypedInit == Init => Typed
  BY TypeInit DEF Init, Typed, Counts, Restoring

LEMMA TypedNext == Typed /\ [Next]_vars => Typed'
<1>1. ASSUME Typed, Next PROVE Typed'
  <2>1. Typed0' /\ Counts'
    BY <1>1, StepTyped, StepCounts DEF Typed, Next
  <2>2. held' \in [Server -> SUBSET Entry] /\ robbed' \in [Server -> SUBSET Entry]
    BY <1>1, <2>1 DEF Next, Watch, Typed, TypeOK, Typed0, admins
  <2>3. QED
    BY <2>1, <2>2 DEF Typed, TypeOK, Typed0
<1>2. ASSUME Typed, UNCHANGED vars PROVE Typed'
  BY <1>2 DEF Typed, TypeOK, Counts, More, vars
<1>3. QED
  BY <1>1, <1>2

\* The model's variables keep their types: the number of polls stays within the
\* ceiling, and the version table holds versions (Serve, exclusively).
THEOREM TypeCorrect == Spec => []TypeOK
<1>1. Typed => TypeOK
  BY DEF Typed
<1>2. QED
  BY <1>1, TypedInit, TypedNext, PTL DEF Spec

-----------------------------------------------------------------------------
(* The lock, and the schema under it. *)

Migrated == {"open", "reconcile"} \cup Restoring \cup Ready

\* The version table is a row for each migration up to the last.
Rows == versions = History!UpTo(Len(versions))

\* Whoever is about to migrate holds the lock, and its plan is what the image
\* carries beyond the table.
Migrating(s) ==
  /\ stage[s] \in {"plan", "migrate"} <=> lock = s
  /\ stage[s] = "migrate" => pending[s] = (Len(versions) + 1)..Carries[s]
  /\ bound[s] => stage[s] \in {"launch", "serve"}
  /\ stage[s] \in Migrated => Carries[s] <= Len(versions)

SchemaInv == Typed /\ Rows /\ \A s \in Server : Migrating(s)

LEMMA UpToLength == ASSUME NEW n \in Nat
                    PROVE  /\ Len(History!UpTo(n)) = n
                           /\ History!UpTo(n) \in Seq(1..n)
                           /\ Append(History!UpTo(n), n + 1) = History!UpTo(n + 1)
<1>1. History!UpTo(n) = [v \in 1..n |-> v]
  BY DEF History!UpTo
<1>2. History!UpTo(n) \in Seq(1..n) /\ Len(History!UpTo(n)) = n
  BY <1>1
<1>3. History!UpTo(n + 1) = [v \in 1..(n + 1) |-> v]
  BY DEF History!UpTo
<1>4. QED
  BY <1>1, <1>2, <1>3

LEMMA AppliedRows == ASSUME Typed, Rows PROVE Applied = 1..Len(versions)
<1>1. Len(versions) \in Nat
  BY DEF Typed, TypeOK
<1>2. \A v \in 1..Len(versions) : versions[v] = v
  BY <1>1 DEF Rows, History!UpTo
<1>3. DOMAIN versions = 1..Len(versions)
  BY DEF Typed, TypeOK
<1>4. QED
  BY <1>1, <1>2, <1>3 DEF Applied

LEMMA SchemaInit == Init => SchemaInv
<1>1. SUFFICES ASSUME Init PROVE Rows /\ \A s \in Server : Migrating(s)
  BY TypedInit DEF SchemaInv
<1>2. PICK n \in 0..Newest : versions = [v \in 1..n |-> v]
  BY <1>1 DEF Init
<1>3. n \in Nat /\ versions = History!UpTo(n)
  BY <1>2, StartupAssumption DEF History!UpTo
<1>4. Rows
  BY <1>3, UpToLength DEF Rows
<1>5. \A s \in Server : Migrating(s)
  BY <1>1, StartupAssumption DEF Init, Migrating, Migrated, Restoring, Ready
<1>6. QED
  BY <1>4, <1>5

\* A server that ends leaves the others as they were.
LEMMA EndMigrating ==
  ASSUME SchemaInv, NEW s \in Server, End(s), NEW t \in Server
  PROVE  Migrating(t)'
<1>1. Migrating(s) /\ Migrating(t)
  BY DEF SchemaInv
<1>2. QED
  BY <1>1, StartupAssumption DEF SchemaInv, Typed, TypeOK, End, Migrating, Migrated, Restoring, Ready

\* A step on a server's way that neither takes the lock nor gives it back.
LEMMA QuietMigrating ==
  ASSUME SchemaInv, NEW s \in Server, NEW t \in Server,
         UNCHANGED <<lock, versions, pending>>,
         \A u \in Server : u # s => stage'[u] = stage[u] /\ bound'[u] = bound[u],
         stage'[s] \in {"plan", "migrate"} <=> stage[s] \in {"plan", "migrate"},
         stage'[s] = "migrate" => stage[s] = "migrate",
         bound'[s] => stage'[s] \in {"launch", "serve"},
         stage'[s] \in Migrated => stage[s] \in Migrated
  PROVE  Migrating(t)'
<1>1. Migrating(s) /\ Migrating(t)
  BY DEF SchemaInv
<1>2. CASE t = s
  BY <1>1, <1>2 DEF Migrating
<1>3. CASE t # s
  BY <1>1, <1>3 DEF Migrating
<1>4. QED
  BY <1>2, <1>3

LEMMA StepMigrating ==
  ASSUME SchemaInv, Step, NEW t \in Server
  PROVE  Rows' /\ Migrating(t)'
<1>. USE DEF Typed, TypeOK
<1>0. Migrating(t) /\ Rows /\ Len(versions) \in Nat
  BY DEF SchemaInv
<1>1. ASSUME NEW s \in Server,
             \/ Kill(s) \/ RefuseConfig(s) \/ ReportStatus(s) \/ RefuseMode(s)
             \/ GiveUpLock(s) \/ RefuseEntry(s) \/ Exit(s)
      PROVE  Rows' /\ Migrating(t)'
  <2>1. End(s)
    BY <1>1 DEF Kill, RefuseConfig, ReportStatus, RefuseMode, GiveUpLock, RefuseEntry, Exit
  <2>2. Rows'
    BY <1>0, <2>1 DEF End, Rows
  <2>3. QED
    BY <2>1, <2>2, EndMigrating
<1>2. ASSUME NEW s \in Server, NEW asked \in BOOLEAN, NEW known \in BOOLEAN, NEW L \in Lists,
             Start(s, asked, known, L)
      PROVE  Rows' /\ Migrating(t)'
  <2>1. Migrating(s)
    BY DEF SchemaInv
  <2>2. stage'[s] = "config" /\ bound'[s] = FALSE
    BY <1>2, <2>1 DEF Start, SchemaInv, Migrating, progress
  <2>3. QED
    BY <1>0, <1>2, <2>2, QuietMigrating
    DEF Start, SchemaInv, Rows, Migrated, Restoring, Ready, progress, database
<1>3. ASSUME NEW s \in Server, Configure(s) \/ ParseMode(s) \/ PollLock(s)
      PROVE  Rows' /\ Migrating(t)'
  <2>1. Migrating(s)
    BY DEF SchemaInv
  <2>2. stage'[s] \in {"status", "mode", "look", "lock"} /\ bound'[s] = FALSE
    BY <1>3, <2>1 DEF Configure, ParseMode, PollLock, SchemaInv, Migrating, progress
  <2>3. stage[s] \in {"config", "mode", "lock"}
    BY <1>3 DEF Configure, ParseMode, PollLock
  <2>4. /\ UNCHANGED <<lock, versions, pending>>
        /\ \A u \in Server : u # s => stage'[u] = stage[u] /\ bound'[u] = bound[u]
    BY <1>3 DEF Configure, ParseMode, PollLock, SchemaInv, progress, database
  <2>5. QED
    BY <1>0, <2>2, <2>3, <2>4, QuietMigrating DEF Rows, Migrated, Restoring, Ready
<1>4. ASSUME NEW s \in Server, TakeLock(s)
      PROVE  Rows' /\ Migrating(t)'
  <2>1. Migrating(s)
    BY DEF SchemaInv
  <2>2. QED
    BY <1>0, <1>4, <2>1, StartupAssumption
    DEF TakeLock, SchemaInv, Rows, Migrating, Migrated, Restoring, Ready, progress
<1>5. ASSUME NEW s \in Server, Plan(s)
      PROVE  Rows' /\ Migrating(t)'
  <2>1. Carries[s] \in Nat
    BY StartupAssumption
  <2>2. pending'[s] = (Len(versions) + 1)..Carries[s]
    <3>1. pending'[s] = (1..Carries[s]) \ (1..Len(versions))
      BY <1>0, <1>5, AppliedRows DEF Plan, SchemaInv, Carried
    <3>2. QED
      BY <1>0, <2>1, <3>1
  <2>3. Migrating(s)
    BY DEF SchemaInv
  <2>4. QED
    BY <1>0, <1>5, <2>2, <2>3
    DEF Plan, SchemaInv, Rows, Migrating, Migrated, Restoring, Ready, database
<1>6. ASSUME NEW s \in Server, NEW v \in 1..Newest, Migrate(s, v)
      PROVE  Rows' /\ Migrating(t)'
  <2>1. Migrating(s) /\ Carries[s] \in Nat
    BY StartupAssumption DEF SchemaInv
  <2>2. pending[s] = (Len(versions) + 1)..Carries[s]
    BY <1>6, <2>1 DEF Migrate, Migrating
  <2>3. v = Len(versions) + 1 /\ v <= Carries[s]
    BY <1>0, <1>6, <2>1, <2>2 DEF Migrate
  <2>4. Rows' /\ Len(versions') = Len(versions) + 1
    <3>1. versions' = Append(versions, Len(versions) + 1)
      BY <1>6, <2>3 DEF Migrate
    <3>2. versions' = History!UpTo(Len(versions) + 1)
      BY <1>0, <3>1, UpToLength DEF Rows
    <3>3. Len(versions') = Len(versions) + 1
      BY <1>0, <3>2, UpToLength
    <3>4. QED
      BY <3>2, <3>3 DEF Rows
  <2>5. pending'[s] = (Len(versions') + 1)..Carries[s]
    <3>1. pending'[s] = ((Len(versions) + 1)..Carries[s]) \ {Len(versions) + 1}
      BY <1>6, <2>2, <2>3 DEF Migrate, SchemaInv
    <3>2. ASSUME NEW n \in Nat, NEW m \in Nat
          PROVE  ((n + 1)..m) \ {n + 1} = (n + 2)..m
      OBVIOUS
    <3>3. pending'[s] = (Len(versions) + 2)..Carries[s]
      BY <1>0, <2>1, <3>1, <3>2
    <3>4. Len(versions') + 1 = Len(versions) + 2
      BY <1>0, <2>4
    <3>5. QED
      BY <3>3, <3>4
  <2>6. CASE t = s
    <3>1. stage'[s] = "migrate" /\ stage[s] = "migrate"
      BY <1>6 DEF Migrate
    <3>2. UNCHANGED lock /\ UNCHANGED bound
      BY <1>6 DEF Migrate
    <3>3. lock = s /\ ~bound[s]
      BY <2>1, <3>1 DEF Migrating
    <3>4. Migrating(s)'
      BY <2>5, <3>1, <3>2, <3>3 DEF Migrating, Migrated, Restoring, Ready
    <3>5. QED
      BY <2>4, <2>6, <3>4
  <2>7. CASE t # s
    <3>1. lock = s /\ lock # t /\ Carries[t] \in Nat
      BY <1>6, <2>1, <2>7, StartupAssumption DEF Migrate, Migrating
    <3>2. stage[t] \notin {"plan", "migrate"}
      BY <1>0, <3>1 DEF Migrating
    <3>3. QED
      BY <1>0, <1>6, <2>4, <3>1, <3>2 DEF Migrate, Migrating
  <2>8. QED
    BY <2>4, <2>6, <2>7
<1>7. ASSUME NEW s \in Server, Unlock(s)
      PROVE  Rows' /\ Migrating(t)'
  <2>1. Migrating(s) /\ Carries[s] \in Nat
    BY StartupAssumption DEF SchemaInv
  <2>2. Carries[s] <= Len(versions) /\ lock = s
    BY <1>0, <1>7, <2>1 DEF Unlock, Migrating
  <2>3. QED
    BY <1>0, <1>7, <2>1, <2>2, StartupAssumption
    DEF Unlock, SchemaInv, Rows, Migrating, Migrated, Restoring, Ready, progress
<1>8. ASSUME NEW s \in Server,
             OpenPool(s) \/ BeginEntry(s) \/ ReadEntry(s) \/ CommitEntry(s) \/ Launch(s)
      PROVE  Rows' /\ Migrating(t)'
  <2>1. Migrating(s)
    BY DEF SchemaInv
  <2>2. /\ stage[s] \in {"open", "reconcile"} \cup Restoring
        /\ stage'[s] \in {"reconcile", "launch"} \cup Restoring
        /\ bound'[s] = FALSE
    BY <1>8, <2>1 DEF OpenPool, BeginEntry, ReadEntry, CommitEntry, Launch, SchemaInv, Migrating,
                      Restoring, progress
  <2>3. /\ UNCHANGED <<lock, versions, pending>>
        /\ \A u \in Server : u # s => stage'[u] = stage[u] /\ bound'[u] = bound[u]
    BY <1>8 DEF OpenPool, BeginEntry, ReadEntry, CommitEntry, Launch, SchemaInv, progress, database
  <2>4. QED
    BY <1>0, <2>2, <2>3, QuietMigrating DEF Rows, Migrated, Restoring, Ready
<1>9. ASSUME NEW s \in Server,
             Listen(s) \/ Notify(s) \/ Terminate(s) \/ Drained(s) \/ DrainTimesOut(s)
      PROVE  Rows' /\ Migrating(t)'
  <2>1. Migrating(s)
    BY DEF SchemaInv
  <2>2. /\ stage[s] \in Ready /\ stage'[s] \in Ready
        /\ bound'[s] => stage'[s] \in {"launch", "serve"}
    BY <1>9, <2>1 DEF Listen, Notify, Terminate, Drained, DrainTimesOut, SchemaInv, Ready,
                      Migrating, progress
  <2>3. /\ UNCHANGED <<lock, versions, pending>>
        /\ \A u \in Server : u # s => stage'[u] = stage[u] /\ bound'[u] = bound[u]
    BY <1>9 DEF Listen, Notify, Terminate, Drained, DrainTimesOut, SchemaInv, progress, database
  <2>4. QED
    BY <1>0, <2>2, <2>3, QuietMigrating DEF Rows, Migrated, Restoring, Ready
<1>10. CASE UNCHANGED <<stage, lock, versions, pending, bound>>
  BY <1>0, <1>10 DEF Rows, Migrating
<1>11. ASSUME NEW r \in Request,
              \/ \E s \in Server : Accept(r, s)
              \/ Acquire(r) \/ GiveBack(r) \/ CutOff(r) \/ Answer(r)
       PROVE  Rows' /\ Migrating(t)'
  BY <1>10, <1>11 DEF Accept, Acquire, GiveBack, CutOff, Answer, progress, database
<1>12. ASSUME NEW e \in Entry, Meanwhile(e)
       PROVE  Rows' /\ Migrating(t)'
  BY <1>10, <1>12, MeanwhileFrame DEF progress
<1>13. ASSUME NEW s \in Server, LookForPending(s)
       PROVE  Rows' /\ Migrating(t)'
  <2>1. /\ Migrating(s) /\ Carries[s] \in Nat
        /\ Applied = 1..Len(versions) /\ Len(versions) \in Nat
    BY AppliedRows, StartupAssumption DEF SchemaInv
  <2>2. Carried(s) \subseteq Applied => Carries[s] <= Len(versions)
    <3>1. Carries[s] # 0 => Carries[s] \in Carried(s)
      BY <2>1 DEF Carried
    <3>2. QED
      BY <2>1, <3>1
  <2>3. UNCHANGED <<lock, versions, pending, bound>> /\ stage[s] = "look"
    BY <1>13 DEF LookForPending, progress, database
  <2>4. /\ stage'[s] = "lock" \/ (stage'[s] = "open" /\ Carries[s] <= Len(versions))
        /\ \A u \in Server : u # s => stage'[u] = stage[u]
    BY <1>13, <2>2 DEF LookForPending, SchemaInv
  <2>5. QED
    BY <1>0, <2>1, <2>3, <2>4 DEF Rows, Migrating, Migrated, Restoring, Ready
<1>14. QED
  BY <1>1, <1>2, <1>3, <1>4, <1>5, <1>6, <1>7, <1>8, <1>9, <1>11, <1>12, <1>13 DEF Step, Proceed

LEMMA SchemaNext == SchemaInv /\ [Next]_vars => SchemaInv'
<1>1. ASSUME SchemaInv, Next PROVE SchemaInv'
  <2>1. \A t \in Server : Rows' /\ Migrating(t)'
    BY <1>1, StepMigrating DEF Next
  <2>2. Rows'
    <3>1. CASE Server = {}
      <4>1. UNCHANGED versions
        BY <1>1, <3>1, MeanwhileFrame
        DEF Next, Step, Accept, Acquire, GiveBack, CutOff, Answer, database
      <4>2. QED
        BY <1>1, <4>1 DEF SchemaInv, Rows
    <3>2. QED
      BY <2>1, <3>1
  <2>3. QED
    BY <1>1, <2>1, <2>2, TypedNext DEF SchemaInv
<1>2. ASSUME SchemaInv, UNCHANGED vars PROVE SchemaInv'
  BY <1>2, TypedNext DEF SchemaInv, Rows, Migrating, vars
<1>3. QED
  BY <1>1, <1>2

\* The lock is never held by a server that is gone, or by one that has done
\* with the migrations (exclusively).
THEOREM LivingHolder == Spec => []LockIsOfTheLiving
<1>1. SchemaInv => LockIsOfTheLiving
  BY DEF SchemaInv, Typed, TypeOK, Migrating, LockIsOfTheLiving
<1>2. QED
  BY <1>1, SchemaInit, SchemaNext, PTL DEF Spec

\* Whoever listens or serves has every migration of its image in the table,
\* whoever ran it (MigrateUpDSN, Serve).
THEOREM OnItsSchema == Spec => []ServesOnItsSchema
<1>1. SchemaInv => ServesOnItsSchema
  <2>1. ASSUME SchemaInv, NEW s \in Server, stage[s] \in Ready \/ bound[s], NEW v \in Carried(s)
        PROVE  v \in Applied
    <3>1. /\ Migrating(s) /\ Applied = 1..Len(versions)
          /\ Carries[s] \in Nat /\ Len(versions) \in Nat
      BY <2>1, AppliedRows, StartupAssumption DEF SchemaInv, Typed, TypeOK
    <3>2. Carries[s] <= Len(versions)
      BY <2>1, <3>1 DEF Migrating, Migrated, Restoring, Ready
    <3>3. QED
      BY <2>1, <3>1, <3>2 DEF Carried
  <2>2. QED
    BY <2>1 DEF ServesOnItsSchema
<1>2. QED
  BY <1>1, SchemaInit, SchemaNext, PTL DEF Spec

\* Starting, waiting, migrating and dying implement SchemaHistory: each
\* migration once, and in order (goose's Up under the session lock).
THEOREM Implements == Spec => MigratesInOrder
<1>1. Init => History!Init
  BY DEF Init, History!Init, History!UpTo
<1>2. SchemaInv /\ [Next]_vars => [History!Next]_versions
  <2>1. ASSUME SchemaInv, NEW s \in Server, NEW v \in 1..Newest, Migrate(s, v)
        PROVE  History!Next
    <3>1. Migrating(s) /\ Carries[s] \in 0..Newest /\ Len(versions) \in Nat
      BY <2>1, StartupAssumption DEF SchemaInv, Typed, TypeOK
    <3>2. pending[s] = (Len(versions) + 1)..Carries[s]
      BY <2>1, <3>1 DEF Migrate, Migrating
    <3>3. v = Len(versions) + 1 /\ v <= Newest
      <4>1. v \in pending[s] /\ \A w \in pending[s] : v <= w
        BY <2>1 DEF Migrate
      <4>2. Carries[s] \in Nat /\ Carries[s] <= Newest
        BY <3>1, StartupAssumption
      <4>3. v \in Nat /\ Len(versions) + 1 <= v /\ v <= Carries[s]
        BY <3>1, <3>2, <4>1, <4>2
      <4>4. Len(versions) + 1 \in pending[s]
        BY <3>1, <3>2, <4>2, <4>3
      <4>5. v <= Len(versions) + 1
        BY <4>1, <4>4
      <4>6. QED
        BY <3>1, <4>2, <4>3, <4>5, StartupAssumption
    <3>4. QED
      BY <2>1, <3>1, <3>3, StartupAssumption DEF Migrate, History!Next
  <2>2. ASSUME SchemaInv, Next, versions' # versions
        PROVE  \E s \in Server, v \in 1..Newest : Migrate(s, v)
    BY <2>2, MeanwhileFrame
    DEF Next, Step, Proceed, Start, Kill, RefuseConfig, Configure, ReportStatus, ParseMode,
        RefuseMode, LookForPending, TakeLock, PollLock, GiveUpLock, Plan, Unlock, OpenPool,
        BeginEntry, ReadEntry, CommitEntry, RefuseEntry, Launch, Listen, Notify, Terminate,
        Drained, DrainTimesOut, Exit, End, Accept, Acquire, GiveBack, CutOff, Answer, database
  <2>3. QED
    BY <2>1, <2>2 DEF vars
<1>3. QED
  BY <1>1, <1>2, SchemaInit, SchemaNext, PTL DEF Spec, MigratesInOrder, History!Spec

-----------------------------------------------------------------------------
(* Who touches the database, and who got in. *)

Early == {"config", "status", "mode"}

\* A server comes past its configuration only if it was meant to and may.
Meant(s) ==
  /\ stage[s] \in Early => s \notin touched
  /\ stage[s] = "mode" => ~status[s]
  /\ stage[s] \notin Early \cup {"down"} => usable[s] /\ ~status[s]

\* The entries above the next one have been administrators, or were robbed of it.
Restored(s) ==
  /\ stage[s] \notin Ready \cup Restoring \cup {"reconcile"} => entry[s] = 1
  /\ stage[s] # "down" =>
       \A i \in DOMAIN list[s] : i < entry[s] => list[s][i] \in held[s] \cup robbed[s]
  /\ stage[s] \in Ready => entry[s] > Len(list[s])

\* Who was read to hold ADMIN still does, unless it was taken from under the
\* open transaction.
Trusted(s) ==
  /\ stage[s] = "commit" => list[s][entry[s]] \in holding \cup robbed[s]
  /\ s \in stale => stage[s] = "ensure" /\ list[s][entry[s]] \in robbed[s]

Launched(s) == Meant(s) /\ Restored(s) /\ Trusted(s)

LEMMA LaunchedInit == Init => \A s \in Server : Launched(s)
  BY DEF Init, Launched, Meant, Restored, Trusted, Early, Restoring, Ready

\* A list's indices begin with one.
LEMMA ListTyped == ASSUME Typed, NEW s \in Server
                   PROVE  list[s] \in Seq(Entry) /\ DOMAIN list[s] = 1..Len(list[s])
<1>1. <<>> \in Seq(Entry)
  OBVIOUS
<1>2. list[s] \in Seq(Entry)
  BY <1>1, StartupAssumption DEF Typed, TypeOK
<1>3. QED
  BY <1>2

LEMMA HeldGrows ==
  ASSUME Typed, Watch, NEW s \in Server, stage'[s] # "down"
  PROVE  /\ held[s] \cup admins' \subseteq held'[s]
         /\ robbed[s] \subseteq robbed'[s]
         /\ \A e \in holding \ holding' : Repairs(s, e) => e \in robbed'[s]
  BY DEF Watch

\* A server that does not move.
LEMMA Waits ==
  ASSUME Typed, Watch, NEW t \in Server, Launched(t),
         stage'[t] = stage[t], status'[t] = status[t], usable'[t] = usable[t],
         list'[t] = list[t], entry'[t] = entry[t], t \in touched' => t \in touched,
         t \in stale' => \/ t \in stale
                         \/ stage[t] = "ensure" /\ list[t][entry[t]] \in holding \ holding'
  PROVE  Launched(t)'
<1>1. stage[t] # "down" => held[t] \subseteq held'[t] /\ robbed[t] \subseteq robbed'[t]
  BY HeldGrows
<1>2. Meant(t)' /\ Restored(t)'
  BY <1>1 DEF Launched, Meant, Restored
<1>3. stage[t] \in {"ensure", "commit"} /\ list[t][entry[t]] \in holding \ holding'
        => list[t][entry[t]] \in robbed'[t]
  BY HeldGrows DEF Repairs
<1>4. Trusted(t)'
  BY <1>1, <1>3 DEF Launched, Trusted
<1>5. QED
  BY <1>2, <1>4 DEF Launched

\* A server that ends, and one that takes a step past the configuration.
LEMMA Ends ==
  ASSUME Typed, NEW s \in Server, stage'[s] = "down", entry'[s] = 1, s \notin stale'
  PROVE  Launched(s)'
  BY DEF Launched, Meant, Restored, Trusted, Early, Restoring, Ready

LEMMA Walks ==
  ASSUME Typed, Watch, NEW s \in Server, Launched(s),
         stage[s] \notin Restoring \cup {"down"}, stage'[s] \notin Restoring \cup {"down"},
         UNCHANGED <<own, entry, stale>>, s \in touched' => s \in touched,
         Meant(s)',
         stage'[s] \notin Ready \cup {"reconcile"} => stage[s] \notin Ready \cup {"reconcile"},
         stage'[s] \in Ready => stage[s] \in Ready \/ ~More(s)
  PROVE  Launched(s)'
<1>1. held[s] \subseteq held'[s] /\ robbed[s] \subseteq robbed'[s]
  BY HeldGrows
<1>2. entry[s] \in Nat /\ Len(list[s]) \in Nat
  BY ListTyped DEF Typed, TypeOK
<1>3. Restored(s)'
  BY <1>1, <1>2 DEF Launched, Restored, More, own
<1>4. Trusted(s)'
  BY DEF Launched, Trusted, Restoring
<1>5. QED
  BY <1>3, <1>4 DEF Launched

LEMMA StepLaunched ==
  ASSUME Typed, Step, Watch, NEW t \in Server, Launched(t)
  PROVE  Launched(t)'
<1>. USE DEF Typed, TypeOK
<1>1. ASSUME NEW s \in Server,
             \/ Kill(s) \/ RefuseConfig(s) \/ ReportStatus(s) \/ RefuseMode(s)
             \/ GiveUpLock(s) \/ RefuseEntry(s) \/ Exit(s)
      PROVE  Launched(t)'
  <2>1. End(s)
    BY <1>1 DEF Kill, RefuseConfig, ReportStatus, RefuseMode, GiveUpLock, RefuseEntry, Exit
  <2>2. CASE t = s
    BY <2>1, <2>2, Ends DEF End
  <2>3. CASE t # s
    BY <2>1, <2>3, Waits DEF End
  <2>4. QED
    BY <2>2, <2>3
<1>2. ASSUME NEW s \in Server, NEW asked \in BOOLEAN, NEW known \in BOOLEAN, NEW L \in Lists,
             Start(s, asked, known, L)
      PROVE  Launched(t)'
  <2>1. CASE t = s
    <3>1. entry[s] = 1 /\ entry' = entry
      BY <1>2, <2>1 DEF Start, Launched, Restored, Restoring, Ready, progress
    <3>2. stage'[s] = "config" /\ s \notin touched' /\ list'[s] = L /\ s \notin stale'
      BY <1>2, <2>1 DEF Start, Launched, Trusted, database
    <3>3. \A i \in DOMAIN L : ~(i < 1)
      <4>1. L \in Seq(Entry)
        BY StartupAssumption
      <4>2. DOMAIN L = 1..Len(L) /\ Len(L) \in Nat
        BY <4>1
      <4>3. QED
        BY <4>2
    <3>4. QED
      BY <2>1, <3>1, <3>2, <3>3
      DEF Launched, Meant, Restored, Trusted, Early, Restoring, Ready
  <2>2. CASE t # s
    BY <1>2, <2>2, Waits DEF Start, progress, database
  <2>3. QED
    BY <2>1, <2>2
<1>3. ASSUME NEW s \in Server,
             \/ Configure(s) \/ ParseMode(s) \/ LookForPending(s) \/ TakeLock(s) \/ Plan(s)
             \/ Unlock(s) \/ OpenPool(s) \/ Launch(s) \/ Notify(s) \/ Terminate(s)
             \/ Drained(s) \/ DrainTimesOut(s)
      PROVE  Launched(t)'
  <2>1. UNCHANGED <<own, entry, touched, stale>>
    BY <1>3 DEF Configure, ParseMode, LookForPending, TakeLock, Plan, Unlock, OpenPool, Launch, Notify,
                Terminate, Drained, DrainTimesOut, progress, database, people, histories
  <2>2. CASE t = s
    <3>1. stage[s] \notin Restoring \cup {"down"} /\ stage'[s] \notin Restoring \cup {"down"}
      BY <1>3 DEF Configure, ParseMode, LookForPending, TakeLock, Plan, Unlock, OpenPool, Launch, Notify,
                  Terminate, Drained, DrainTimesOut, Restoring
    <3>2. Meant(s)'
      BY <1>3, <2>1, <2>2
      DEF Configure, ParseMode, LookForPending, TakeLock, Plan, Unlock, OpenPool, Launch, Notify,
          Terminate, Drained, DrainTimesOut, Launched, Meant, Early, own
    <3>3. /\ stage'[s] \notin Ready \cup {"reconcile"} => stage[s] \notin Ready \cup {"reconcile"}
          /\ stage'[s] \in Ready => stage[s] \in Ready \/ ~More(s)
      BY <1>3 DEF Configure, ParseMode, LookForPending, TakeLock, Plan, Unlock, OpenPool, Launch, Notify,
                  Terminate, Drained, DrainTimesOut, Ready
    <3>4. QED
      BY <2>1, <2>2, <3>1, <3>2, <3>3, Walks
  <2>3. CASE t # s
    <3>1. stage'[t] = stage[t]
      BY <1>3, <2>3 DEF Configure, ParseMode, LookForPending, TakeLock, Plan, Unlock, OpenPool, Launch, Notify,
                        Terminate, Drained, DrainTimesOut
    <3>2. QED
      BY <2>1, <3>1, Waits DEF own
  <2>4. QED
    BY <2>2, <2>3
<1>4. ASSUME NEW s \in Server, NEW v \in 1..Newest, Migrate(s, v)
      PROVE  Launched(t)'
  <2>1. CASE t = s
    <3>1. held[s] \subseteq held'[s] /\ robbed[s] \subseteq robbed'[s]
      BY <1>4, HeldGrows DEF Migrate
    <3>2. QED
      BY <1>4, <2>1, <3>1
      DEF Migrate, Launched, Meant, Restored, Trusted, Early, Restoring, Ready, own, people
  <2>2. CASE t # s
    BY <1>4, <2>2, Waits DEF Migrate, own, people
  <2>3. QED
    BY <2>1, <2>2
<1>5. ASSUME NEW s \in Server, BeginEntry(s) \/ ReadEntry(s)
      PROVE  Launched(t)'
  <2>1. UNCHANGED <<own, entry, touched, holding>>
    BY <1>5 DEF BeginEntry, ReadEntry, progress, database, histories
  <2>2. CASE t = s
    <3>1. /\ held[s] \subseteq held'[s] /\ robbed[s] \subseteq robbed'[s]
          /\ stage[s] \in {"reconcile", "ensure"} /\ stage'[s] \in Restoring
      BY <1>5, HeldGrows DEF BeginEntry, ReadEntry, Restoring
    <3>2. Meant(s)' /\ Restored(s)'
      BY <2>1, <2>2, <3>1 DEF Launched, Meant, Restored, Early, Restoring, Ready, own
    <3>3. CASE BeginEntry(s)
      BY <2>2, <3>1, <3>2, <3>3 DEF BeginEntry, Launched, Trusted, database
    <3>4. CASE ReadEntry(s)
      BY <2>1, <2>2, <3>1, <3>2, <3>4 DEF ReadEntry, Launched, Trusted, own
    <3>5. QED
      BY <1>5, <3>3, <3>4
  <2>3. CASE t # s
    <3>1. stage'[t] = stage[t] /\ (t \in stale' => t \in stale)
      BY <1>5, <2>3 DEF BeginEntry, ReadEntry, database
    <3>2. QED
      BY <2>1, <3>1, Waits DEF own
  <2>4. QED
    BY <2>2, <2>3
<1>6. ASSUME NEW s \in Server, CommitEntry(s)
      PROVE  Launched(t)'
  <2>1. CASE t = s
    <3>1. held[s] \cup admins' \subseteq held'[s] /\ robbed[s] \subseteq robbed'[s]
      BY <1>6, HeldGrows DEF CommitEntry
    <3>2. list[s][entry[s]] \in held'[s] \cup robbed'[s]
      BY <1>6, <2>1, <3>1 DEF CommitEntry, Launched, Trusted, admins
    <3>3. entry[s] \in Nat /\ DOMAIN list[s] = 1..Len(list[s]) /\ Len(list[s]) \in Nat
      BY ListTyped
    <3>4. ASSUME NEW i \in DOMAIN list[s], i < entry[s] + 1
          PROVE  list[s][i] \in held'[s] \cup robbed'[s]
      <4>1. i < entry[s] \/ i = entry[s]
        BY <3>3, <3>4
      <4>2. QED
        BY <1>6, <2>1, <3>1, <3>2, <4>1 DEF CommitEntry, Launched, Restored
    <3>5. entry'[s] = entry[s] + 1 /\ list' = list /\ stage'[s] = "reconcile"
      BY <1>6 DEF CommitEntry, own
    <3>6. Restored(s)'
      BY <3>4, <3>5 DEF Restored, Ready
    <3>7. Meant(s)'
      BY <1>6, <2>1 DEF CommitEntry, Launched, Meant, Early, own
    <3>8. Trusted(s)'
      BY <1>6, <2>1, <3>5 DEF CommitEntry, Launched, Trusted
    <3>9. QED
      BY <2>1, <3>6, <3>7, <3>8 DEF Launched
  <2>2. CASE t # s
    BY <1>6, <2>2, Waits DEF CommitEntry, own
  <2>3. QED
    BY <2>1, <2>2
<1>7. ASSUME NEW e \in Entry, Meanwhile(e)
      PROVE  Launched(t)'
  <2>1. UNCHANGED <<stage, own, entry, touched>>
    BY <1>7, MeanwhileFrame DEF progress, histories
  <2>2. t \in stale' => \/ t \in stale
                        \/ stage[t] = "ensure" /\ list[t][entry[t]] \in holding \ holding'
    BY <1>7 DEF Meanwhile, SetPersonActive, GrantAdmin, RevokeAdmin, Lapse, Repairs
  <2>3. QED
    BY <2>1, <2>2, Waits DEF own
<1>8. ASSUME \/ \E s \in Server : PollLock(s) \/ Listen(s)
             \/ \E r \in Request : \/ \E s \in Server : Accept(r, s)
                                 \/ Acquire(r) \/ GiveBack(r) \/ CutOff(r) \/ Answer(r)
      PROVE  Launched(t)'
  <2>1. UNCHANGED <<stage, own, entry, touched, stale>>
    BY <1>8 DEF PollLock, Listen, Accept, Acquire, GiveBack, CutOff, Answer,
                progress, database, histories
  <2>2. QED
    BY <2>1, Waits DEF own
<1>9. QED
  BY <1>1, <1>2, <1>3, <1>4, <1>5, <1>6, <1>7, <1>8 DEF Step, Proceed

LaunchInv == SchemaInv /\ \A s \in Server : Launched(s)

LEMMA LaunchInit == Init => LaunchInv
  BY SchemaInit, LaunchedInit DEF LaunchInv

LEMMA LaunchNext == LaunchInv /\ [Next]_vars => LaunchInv'
<1>1. ASSUME LaunchInv, Next PROVE LaunchInv'
  BY <1>1, SchemaNext, StepLaunched DEF LaunchInv, SchemaInv, Next
<1>2. ASSUME LaunchInv, UNCHANGED vars PROVE LaunchInv'
  <2>1. \A s \in Server : Launched(s)'
    BY <1>2 DEF LaunchInv, Launched, Meant, Restored, Trusted, vars
  <2>2. QED
    BY <1>2, <2>1, SchemaNext DEF LaunchInv
<1>3. QED
  BY <1>1, <1>2

\* A report, or a start whose authentication mode nobody knows, changes neither
\* the schema nor an administrator (reportMigrationStatus, ParseMode).
THEOREM RealStarts == Spec => []OnlyRealStartsTouch
<1>1. LaunchInv => OnlyRealStartsTouch
  BY DEF LaunchInv, SchemaInv, Typed, TypeOK, Launched, Meant, Early, OnlyRealStartsTouch
<1>2. QED
  BY <1>1, LaunchInit, LaunchNext, PTL DEF Spec

\* A server that listens has had each person of its list as an administrator
\* since it was started, except whoever lost ADMIN while the transaction that
\* was to restore them was open (reconcileProtectedAdmins before
\* ListenAndServe).
THEOREM EverybodyGotIn == Spec => []ListedGotIn
<1>1. LaunchInv => ListedGotIn
  <2>1. ASSUME LaunchInv, NEW s \in Server, stage[s] \in Ready \/ bound[s],
               NEW i \in DOMAIN list[s]
        PROVE  list[s][i] \in held[s] \cup robbed[s]
    <3>1. Migrating(s) /\ Launched(s) /\ Typed
      BY <2>1 DEF LaunchInv, SchemaInv
    <3>2. stage[s] \in Ready
      BY <2>1, <3>1 DEF Migrating, Ready
    <3>3. i \in 1..Len(list[s]) /\ Len(list[s]) \in Nat /\ entry[s] \in Nat
      BY <2>1, <3>1, ListTyped DEF Typed, TypeOK
    <3>4. i < entry[s]
      BY <3>1, <3>2, <3>3 DEF Launched, Restored
    <3>5. QED
      BY <3>1, <3>2, <3>4 DEF Launched, Restored, Ready
  <2>2. QED
    BY <2>1 DEF ListedGotIn
<1>2. QED
  BY <1>1, LaunchInit, LaunchNext, PTL DEF Spec

-----------------------------------------------------------------------------
(* The drain. *)

\* When the pool is closed under a request, Shutdown had given up on it.
DrainInv ==
  /\ SchemaInv
  /\ \A s \in Server : stage[s] = "close" /\ Handled(s) # {} => s \in gaveUp
  /\ cut \subseteq gaveUp

LEMMA DrainInit == Init => DrainInv
  BY SchemaInit DEF Init, DrainInv

LEMMA StepDrain == ASSUME DrainInv, Step
                   PROVE  /\ \A s \in Server : stage'[s] = "close" /\ Handled(s)' # {} => s \in gaveUp'
                          /\ cut' \subseteq gaveUp'
<1>. USE DEF DrainInv, SchemaInv, Typed, TypeOK
<1>. DEFINE Waited == \A s \in Server : stage'[s] = "close" /\ Handled(s)' # {} => s \in gaveUp'
<1>1. ASSUME NEW s \in Server, End(s), cut' \subseteq cut \cup {s}, cut' = cut \/ s \in gaveUp
      PROVE  Waited /\ cut' \subseteq gaveUp'
  <2>1. ASSUME NEW t \in Server PROVE Handled(t)' \subseteq Handled(t)
    BY <1>1, StartupAssumption DEF End, Handled
  <2>2. ASSUME NEW t \in Server PROVE stage'[t] = "close" => stage[t] = "close"
    BY <1>1 DEF End
  <2>3. Waited
    BY <1>1, <2>1, <2>2 DEF End
  <2>4. QED
    BY <1>1, <2>3 DEF End
<1>2. ASSUME NEW s \in Server,
             \/ Kill(s) \/ RefuseConfig(s) \/ ReportStatus(s) \/ RefuseMode(s)
             \/ GiveUpLock(s) \/ RefuseEntry(s) \/ Exit(s)
      PROVE  Waited /\ cut' \subseteq gaveUp'
  <2>1. End(s)
    BY <1>2 DEF Kill, RefuseConfig, ReportStatus, RefuseMode, GiveUpLock, RefuseEntry, Exit
  <2>2. cut' \subseteq cut \cup {s} /\ (cut' = cut \/ s \in gaveUp)
    BY <1>2 DEF Kill, RefuseConfig, ReportStatus, RefuseMode, GiveUpLock, RefuseEntry, Exit
  <2>3. QED
    BY <1>1, <2>1, <2>2
<1>3. ASSUME NEW s \in Server, NEW asked \in BOOLEAN, NEW known \in BOOLEAN, NEW L \in Lists,
             Start(s, asked, known, L)
      PROVE  Waited /\ cut' \subseteq gaveUp'
  BY <1>3 DEF Start, Handled, traffic
<1>4. ASSUME NEW s \in Server, Drained(s) \/ DrainTimesOut(s)
      PROVE  Waited /\ cut' \subseteq gaveUp'
  BY <1>4 DEF Drained, DrainTimesOut, Handled, traffic, histories
<1>5. ASSUME NEW s \in Server,
             \/ Configure(s) \/ ParseMode(s) \/ LookForPending(s) \/ TakeLock(s) \/ PollLock(s)
             \/ Plan(s) \/ Unlock(s) \/ OpenPool(s) \/ BeginEntry(s) \/ ReadEntry(s)
             \/ CommitEntry(s) \/ Launch(s) \/ Listen(s) \/ Notify(s) \/ Terminate(s) \/ \E v \in 1..Newest : Migrate(s, v)
      PROVE  Waited /\ cut' \subseteq gaveUp'
  <2>1. UNCHANGED <<at, gaveUp, cut>>
    BY <1>5 DEF Configure, ParseMode, LookForPending, TakeLock, PollLock, Plan, Unlock, OpenPool,
                BeginEntry, ReadEntry, CommitEntry, Launch, Listen, Notify, Terminate, Migrate, traffic, histories
  <2>2. ASSUME NEW t \in Server PROVE stage'[t] = "close" => stage[t] = "close"
    BY <1>5 DEF Configure, ParseMode, LookForPending, TakeLock, PollLock, Plan, Unlock, OpenPool,
                BeginEntry, ReadEntry, CommitEntry, Launch, Listen, Notify, Terminate, Migrate
  <2>3. QED
    BY <2>1, <2>2 DEF Handled
<1>6. ASSUME NEW r \in Request, NEW s \in Server, Accept(r, s)
      PROVE  Waited /\ cut' \subseteq gaveUp'
  <2>1. stage[s] # "close"
    BY <1>6 DEF Accept, Migrating
  <2>2. ASSUME NEW t \in Server, t # s PROVE Handled(t)' = Handled(t)
    BY <1>6, <2>2, StartupAssumption DEF Accept, Handled
  <2>3. QED
    BY <1>6, <2>1, <2>2 DEF Accept, histories
<1>7. ASSUME NEW r \in Request, CutOff(r) \/ Answer(r) \/ Acquire(r) \/ GiveBack(r)
      PROVE  Waited /\ cut' \subseteq gaveUp'
  <2>1. ASSUME NEW t \in Server PROVE Handled(t)' \subseteq Handled(t)
    BY <1>7, StartupAssumption DEF CutOff, Answer, Acquire, GiveBack, Handled
  <2>2. UNCHANGED <<stage, gaveUp>>
    BY <1>7 DEF CutOff, Answer, Acquire, GiveBack, histories
  <2>3. ASSUME CutOff(r) PROVE at[r] \in gaveUp
    BY <2>3 DEF CutOff, Handled
  <2>4. cut' \subseteq gaveUp'
    BY <1>7, <2>2, <2>3 DEF CutOff, Answer, Acquire, GiveBack, histories
  <2>5. QED
    BY <2>1, <2>2, <2>4
<1>8. ASSUME NEW e \in Entry, Meanwhile(e)
      PROVE  Waited /\ cut' \subseteq gaveUp'
  BY <1>8, MeanwhileFrame DEF Handled, traffic, histories
<1>9. QED
  BY <1>2, <1>3, <1>4, <1>5, <1>6, <1>7, <1>8 DEF Step, Proceed

LEMMA DrainNext == DrainInv /\ [Next]_vars => DrainInv'
<1>1. ASSUME DrainInv, Next PROVE DrainInv'
  BY <1>1, SchemaNext, StepDrain DEF DrainInv, Next
<1>2. ASSUME DrainInv, UNCHANGED vars PROVE DrainInv'
  <2>1. UNCHANGED <<stage, at, gaveUp, cut>>
    BY <1>2 DEF vars
  <2>2. QED
    BY <1>2, <2>1, SchemaNext DEF DrainInv, Handled
<1>3. QED
  BY <1>1, <1>2

\* A request is cut off on the way out only by a server whose Shutdown waited
\* its 30 seconds for it (Shutdown before the deferred pool.Close).
THEOREM Drains == Spec => []DrainsItsRequests
<1>1. DrainInv => DrainsItsRequests
  BY DEF DrainInv, DrainsItsRequests
<1>2. QED
  BY <1>1, DrainInit, DrainNext, PTL DEF Spec
=============================================================================
