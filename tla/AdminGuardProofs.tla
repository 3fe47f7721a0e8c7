------------------------- MODULE AdminGuardProofs -------------------------
(***************************************************************************)
(* What holds of the last-administrator guard for every set of people and  *)
(* connections: types, mutual exclusion of the guards that locked a row,   *)
(* what a committed removal leaves, that no lock is left behind, and, when *)
(* grants do not expire, the survival of an administrator and the atomic   *)
(* registry that the statements implement.                                 *)
(***************************************************************************)
EXTENDS AdminGuard, TLAPS

-----------------------------------------------------------------------------
(* Type correctness. *)

\* Begin, Finish and the statements keep every variable in its type.
LEMMA TypeInit == Init => TypeOK
<1>1. SUFFICES ASSUME Init PROVE TypeOK
  OBVIOUS
<1>2. others \in [Conn -> BOOLEAN] /\ emptyLock \in BOOLEAN
  BY <1>1 DEF Init
<1>3. clock \in Time /\ since \in [Conn -> Time]
  BY <1>1, GuardAssumption DEF Init, Time
<1>4. stage \in [Conn -> Stage] /\ op \in [Conn -> Op]
  BY <1>1 DEF Init, Stage, Op
<1>5. /\ rowOwner \in [Person -> Conn \cup {NoConn}]
      /\ personOwner \in [Person -> Conn \cup {NoConn}]
      /\ target \in [Conn -> Person \cup {NoPerson}]
      /\ \A c \in Conn : stage[c] # "idle" => target[c] \in Person
      /\ scan \in [Conn -> SUBSET Person]
  BY <1>1 DEF Init
<1>6. QED
  BY <1>1, <1>2, <1>3, <1>4, <1>5 DEF Init, TypeOK

LEMMA TypeBegin ==
  ASSUME TypeOK, NEW c \in Conn, Begin(c)
  PROVE  TypeOK'
  BY DEF TypeOK, Begin, Stage, Op, data, locks

LEMMA ReleaseType ==
  ASSUME NEW owner \in [Person -> Conn \cup {NoConn}], NEW c
  PROVE  Release(owner, c) \in [Person -> Conn \cup {NoConn}]
  BY DEF Release

LEMMA FinishType ==
  ASSUME TypeOK, NEW c \in Conn, Finish(c)
  PROVE  /\ clock' \in Time
         /\ rowOwner' \in [Person -> Conn \cup {NoConn}]
         /\ personOwner' \in [Person -> Conn \cup {NoConn}]
         /\ stage' \in [Conn -> Stage]
         /\ op' \in [Conn -> Op]
         /\ target' \in [Conn -> Person \cup {NoPerson}]
         /\ \A d \in Conn : stage'[d] # "idle" => target'[d] \in Person
         /\ since' \in [Conn -> Time]
         /\ others' \in [Conn -> BOOLEAN]
         /\ undercut' \subseteq Conn
  BY ReleaseType, GuardAssumption DEF TypeOK, Finish, Stage, Op, Time

LEMMA TypeStep ==
  ASSUME TypeOK, NEW c \in Conn, Step(c)
  PROVE  TypeOK'
<1>1. CASE StartLock(c)
  BY <1>1 DEF StartLock, TypeOK, Stage, data, locks, call, AdminRows
<1>2. CASE Locked(c)
  BY <1>2 DEF Locked, TypeOK, Stage, data, locks, call
<1>3. CASE CountOthers(c)
  BY <1>3 DEF CountOthers, TypeOK, Stage, data, locks, call
<1>4. CASE CheckHarmless(c)
  BY <1>4 DEF CheckHarmless, TypeOK, Stage, data, locks, call
<1>5. CASE Refuse(c)
  BY <1>5, FinishType DEF Refuse, TypeOK, data
<1>6. CASE WriteRevoke(c)
  BY <1>6 DEF WriteRevoke, TypeOK, Stage, data, call
<1>7. CASE WriteDeactivate(c)
  BY <1>7 DEF WriteDeactivate, TypeOK, Stage, data, call
<1>8. CASE CommitRevoke(c)
  BY <1>8, FinishType DEF CommitRevoke, TypeOK, RowValue
<1>9. CASE CommitDeactivate(c)
  BY <1>9, FinishType DEF CommitDeactivate, TypeOK
<1>10. CASE Ensure(c)
  BY <1>10 DEF Ensure, TypeOK, Stage, data, call
<1>11. CASE ReadGrants(c)
  BY <1>11 DEF ReadGrants, TypeOK, Stage, data, locks, call
<1>12. CASE ReconcileGrant(c)
  BY <1>12 DEF ReconcileGrant, TypeOK, Stage, data, call
<1>13. CASE CommitReconcile(c)
  BY <1>13, FinishType DEF CommitReconcile, TypeOK, RowValue
<1>14. ASSUME NEW p \in Person, LockRow(c, p) PROVE TypeOK'
  BY <1>14 DEF LockRow, TypeOK, data, call
<1>15. QED
  BY <1>1, <1>2, <1>3, <1>4, <1>5, <1>6, <1>7, <1>8, <1>9, <1>10, <1>11,
     <1>12, <1>13, <1>14 DEF Step

LEMMA TypeNext == TypeOK /\ [Next]_vars => TypeOK'
<1>1. ASSUME TypeOK, NEW c \in Conn, Rollback(c) PROVE TypeOK'
  BY <1>1, FinishType DEF Rollback, TypeOK, data
<1>2. ASSUME TypeOK, NEW p \in Person, NEW e \in Expiry, GrantAdmin(p, e)
      PROVE  TypeOK'
  BY <1>2 DEF GrantAdmin, TypeOK, RowValue, locks, call
<1>3. ASSUME TypeOK, NEW p \in Person, Activate(p) PROVE TypeOK'
  BY <1>3 DEF Activate, TypeOK, locks, call
<1>4. ASSUME TypeOK, Tick PROVE TypeOK'
  BY <1>4, GuardAssumption DEF Tick, TypeOK, Time, data, locks, call
<1>5. ASSUME TypeOK, UNCHANGED vars PROVE TypeOK'
  BY <1>5 DEF TypeOK, vars
<1>6. QED
  BY <1>1, <1>2, <1>3, <1>4, <1>5, TypeBegin, TypeStep DEF Next

\* Every reachable state of the guard is well typed.
THEOREM TypeCorrect == Spec => []TypeOK
  BY TypeInit, TypeNext, PTL DEF Spec

-----------------------------------------------------------------------------
(* Mutual exclusion. LockSetsExclude is not inductive: what makes it so is  *)
(* that the scans of the open guards form a chain. A row in the scan of an  *)
(* earlier guard has existed without interruption since, so a later guard's *)
(* snapshot holds it too.                                                   *)

Guarding(c) == op[c] \in {"revoke", "deactivate"}

\* Which statements belong to which kind of transaction.
StageOp(c) ==
  /\ stage[c] \in {"locking", "count", "check", "write"} => Guarding(c)
  /\ stage[c] \in {"read", "grant"} => op[c] = "reconcile"
  /\ stage[c] = "begun" => op[c] # "none"

\* A scan belongs to a guard that has begun its lock, and names existing rows.
ScanLive(c) ==
  /\ scan[c] \subseteq AdminRows
  /\ stage[c] \in {"idle", "begun"} => scan[c] = {}
  /\ scan[c] # {} => Guarding(c)

Chain(c, d) == scan[c] \subseteq scan[d] \/ scan[d] \subseteq scan[c]

\* Past the lock, every row still in the scan is locked by the transaction,
\* and there is one unless the flag was raised.
Held(c) == PastLock(c) => \A p \in scan[c] : rowOwner[p] = c
NonEmpty(c) == PastLock(c) => emptyLock \/ scan[c] # {}

LockInv == \A c \in Conn :
  /\ StageOp(c) /\ ScanLive(c) /\ Held(c) /\ NonEmpty(c)
  /\ \A d \in Conn : Chain(c, d)

LEMMA LockInvInit == Init => LockInv
  BY DEF Init, LockInv, StageOp, ScanLive, Held, NonEmpty, Chain, PastLock

LEMMA LockInvExcludes == TypeOK /\ LockInv => LockSetsExclude
  BY DEF TypeOK, LockInv, Held, Chain, LockSetsExclude

\* Steps that change neither the scans, the rows nor the locks.
LEMMA LockInvQuiet ==
  ASSUME TypeOK, LockInv, NEW c \in Conn,
         \/ CountOthers(c) \/ CheckHarmless(c) \/ ReadGrants(c)
         \/ WriteDeactivate(c) \/ Ensure(c)
  PROVE  LockInv'
  BY DEF LockInv, StageOp, ScanLive, Held, NonEmpty, Chain, PastLock, TypeOK,
         Guarding, AdminRows, CountOthers, CheckHarmless, ReadGrants,
         WriteDeactivate, Ensure, data, locks, call

LEMMA LockInvBegin ==
  ASSUME TypeOK, LockInv, NEW c \in Conn, Begin(c)
  PROVE  LockInv'
  BY DEF LockInv, StageOp, ScanLive, Held, NonEmpty, Chain, PastLock, TypeOK,
         Guarding, AdminRows, Begin, data, locks

\* A later snapshot holds every row of an earlier scan.
LEMMA LockInvStartLock ==
  ASSUME TypeOK, LockInv, NEW c \in Conn, StartLock(c)
  PROVE  LockInv'
<1>1. /\ stage' = [stage EXCEPT ![c] = "locking"]
      /\ scan' = [scan EXCEPT ![c] = AdminRows]
      /\ AdminRows' = AdminRows
      /\ stage[c] = "begun" /\ op[c] # "reconcile"
      /\ UNCHANGED <<rowOwner, op, emptyLock>>
  BY DEF StartLock, data, locks, call, AdminRows
<1>2. \A d \in Conn : StageOp(d)' /\ ScanLive(d)'
  <2>1. Guarding(c)
    BY <1>1 DEF Guarding, LockInv, StageOp, TypeOK, Op
  <2>2. QED
    BY <1>1, <2>1 DEF LockInv, StageOp, ScanLive, Guarding, TypeOK
<1>3. \A d \in Conn : Held(d)' /\ NonEmpty(d)'
  BY <1>1 DEF LockInv, Held, NonEmpty, PastLock, TypeOK
<1>4. \A d, e \in Conn : Chain(d, e)'
  <2>1. \A d \in Conn : scan[d] \subseteq AdminRows
    BY DEF LockInv, ScanLive
  <2>2. QED
    BY <1>1, <2>1 DEF LockInv, Chain, TypeOK
<1>5. QED
  BY <1>2, <1>3, <1>4 DEF LockInv

LEMMA LockInvLockRow ==
  ASSUME TypeOK, LockInv, NEW c \in Conn, NEW p \in Person, LockRow(c, p)
  PROVE  LockInv'
  BY GuardAssumption
     DEF LockInv, StageOp, ScanLive, Held, NonEmpty, Chain, PastLock, TypeOK,
         Guarding, AdminRows, LockRow, data, call

LEMMA LockInvLocked ==
  ASSUME TypeOK, LockInv, NEW c \in Conn, Locked(c)
  PROVE  LockInv'
  BY DEF LockInv, StageOp, ScanLive, Held, NonEmpty, Chain, PastLock, TypeOK,
         Guarding, AdminRows, Locked, Pending, data, locks, call

LEMMA LockInvWriteRow ==
  ASSUME TypeOK, LockInv, NEW c \in Conn, WriteRevoke(c) \/ ReconcileGrant(c)
  PROVE  LockInv'
  BY GuardAssumption
     DEF LockInv, StageOp, ScanLive, Held, NonEmpty, Chain, PastLock, TypeOK,
         Guarding, AdminRows, WriteRevoke, ReconcileGrant, Free, data, call

\* What the end of a transaction does to the other transactions' locks: nothing.
LEMMA ReleaseKeeps ==
  ASSUME NEW owner \in [Person -> Conn \cup {NoConn}], NEW c, NEW p \in Person,
         owner[p] # c
  PROVE  Release(owner, c)[p] = owner[p]
  BY DEF Release

LEMMA LockInvEnd ==
  ASSUME TypeOK, LockInv, NEW c \in Conn,
         Rollback(c) \/ Refuse(c) \/ CommitDeactivate(c)
  PROVE  LockInv'
<1>1. /\ stage' = [stage EXCEPT ![c] = "idle"]
      /\ op' = [op EXCEPT ![c] = "none"]
      /\ rowOwner' = Release(rowOwner, c)
      /\ scan' = [scan EXCEPT ![c] = {}]
      /\ UNCHANGED <<adminUntil, emptyLock>>
  BY DEF Rollback, Refuse, CommitDeactivate, Finish, data
<1>2. AdminRows' = AdminRows
  BY <1>1 DEF AdminRows
<1>3. /\ stage'[c] = "idle" /\ scan'[c] = {}
      /\ \A d \in Conn : d # c =>
           stage'[d] = stage[d] /\ op'[d] = op[d] /\ scan'[d] = scan[d]
  BY <1>1 DEF TypeOK
<1>4. ASSUME NEW d \in Conn PROVE StageOp(d)' /\ ScanLive(d)'
  <2>1. StageOp(d) /\ ScanLive(d)
    BY DEF LockInv
  <2>2. QED
    BY <1>2, <1>3, <2>1 DEF StageOp, ScanLive, Guarding
<1>5. ASSUME NEW d \in Conn PROVE Held(d)' /\ NonEmpty(d)'
  <2>1. Held(d) /\ NonEmpty(d) /\ scan[d] \subseteq Person
    BY DEF LockInv, TypeOK
  <2>2. PastLock(d)' => d # c /\ PastLock(d)
    BY <1>3 DEF PastLock
  <2>3. ASSUME NEW p \in Person, rowOwner[p] = d, d # c PROVE rowOwner'[p] = d
    BY <1>1, <2>3 DEF Release
  <2>4. QED
    BY <1>1, <1>3, <2>1, <2>2, <2>3 DEF Held, NonEmpty
<1>6. ASSUME NEW d \in Conn, NEW e \in Conn PROVE Chain(d, e)'
  <2>1. Chain(d, e)
    BY DEF LockInv
  <2>2. QED
    BY <1>3, <2>1 DEF Chain
<1>7. QED
  BY <1>4, <1>5, <1>6 DEF LockInv

LEMMA LockInvCommitReconcile ==
  ASSUME TypeOK, LockInv, NEW c \in Conn, CommitReconcile(c)
  PROVE  LockInv'
  BY GuardAssumption
     DEF LockInv, StageOp, ScanLive, Held, NonEmpty, Chain, PastLock, TypeOK,
         Guarding, AdminRows, CommitReconcile, Finish, Release, NoRow, Never

\* The row a revocation deletes leaves every scan: nobody else held it.
LEMMA LockInvCommitRevoke ==
  ASSUME TypeOK, LockInv, NEW c \in Conn, CommitRevoke(c)
  PROVE  LockInv'
<1>1. /\ stage' = [stage EXCEPT ![c] = "idle"]
      /\ op' = [op EXCEPT ![c] = "none"]
      /\ rowOwner' = Release(rowOwner, c)
      /\ UNCHANGED emptyLock
      /\ target[c] \in Person
  BY DEF CommitRevoke, Finish, TypeOK
<1>2. CASE rowOwner[target[c]] = c
  <2>1. /\ adminUntil' = [adminUntil EXCEPT ![target[c]] = NoRow]
        /\ scan' = [d \in Conn |-> IF d = c THEN {} ELSE scan[d] \ {target[c]}]
    BY <1>2 DEF CommitRevoke
  <2>2. AdminRows' = AdminRows \ {target[c]}
    BY <1>1, <2>1 DEF AdminRows, TypeOK
  <2>3. \A d \in Conn : StageOp(d)' /\ ScanLive(d)'
    BY <1>1, <2>1, <2>2 DEF LockInv, StageOp, ScanLive, Guarding, TypeOK
  <2>4. ASSUME NEW d \in Conn, d # c, PastLock(d)
        PROVE  scan'[d] = scan[d]
    BY <1>2, <2>1, <2>4 DEF LockInv, Held, TypeOK
  <2>5. \A d \in Conn : PastLock(d)' => d # c /\ PastLock(d)
    BY <1>1 DEF PastLock, TypeOK
  <2>6. \A d \in Conn : Held(d)'
    BY <1>1, <2>1, <2>5 DEF LockInv, Held, Release, TypeOK
  <2>7. \A d \in Conn : NonEmpty(d)'
    BY <1>1, <2>4, <2>5 DEF LockInv, NonEmpty
  <2>8. \A d, e \in Conn : Chain(d, e)'
    BY <2>1 DEF LockInv, Chain, TypeOK
  <2>9. QED
    BY <2>3, <2>6, <2>7, <2>8 DEF LockInv
<1>3. CASE rowOwner[target[c]] # c
  <2>1. adminUntil' = adminUntil /\ scan' = [scan EXCEPT ![c] = {}]
    BY <1>3 DEF CommitRevoke
  <2>2. QED
    BY <1>1, <2>1
       DEF LockInv, StageOp, ScanLive, Held, NonEmpty, Chain, PastLock, TypeOK,
           Guarding, AdminRows, Release
<1>4. QED
  BY <1>2, <1>3

LEMMA LockInvGrantAdmin ==
  ASSUME TypeOK, LockInv, NEW p \in Person, NEW e \in Expiry, GrantAdmin(p, e)
  PROVE  LockInv'
  BY GuardAssumption
     DEF LockInv, StageOp, ScanLive, Held, NonEmpty, Chain, PastLock, TypeOK,
         Guarding, AdminRows, GrantAdmin, NoRow, locks, call

LEMMA LockInvNext == TypeOK /\ LockInv /\ [Next]_vars => LockInv'
<1>1. ASSUME TypeOK, LockInv, NEW p \in Person, Activate(p) PROVE LockInv'
  BY <1>1 DEF LockInv, StageOp, ScanLive, Held, NonEmpty, Chain, PastLock,
              Guarding, AdminRows, Activate, locks, call
<1>2. ASSUME TypeOK, LockInv, Tick \/ UNCHANGED vars PROVE LockInv'
  BY <1>2 DEF LockInv, StageOp, ScanLive, Held, NonEmpty, Chain, PastLock,
              Guarding, AdminRows, Tick, vars, data, locks, call
<1>3. ASSUME TypeOK, LockInv, NEW c \in Conn, Step(c) PROVE LockInv'
  BY <1>3, LockInvQuiet, LockInvStartLock, LockInvLockRow, LockInvLocked,
     LockInvWriteRow, LockInvEnd, LockInvCommitReconcile, LockInvCommitRevoke
     DEF Step
<1>4. QED
  BY <1>1, <1>2, <1>3, LockInvBegin, LockInvEnd, LockInvGrantAdmin DEF Next

\* Two guards that each locked a row are never both past their lock.
THEOREM Exclusion == Spec => []LockSetsExclude
<1>1. Spec => [](TypeOK /\ LockInv)
  BY TypeInit, TypeNext, LockInvInit, LockInvNext, PTL DEF Spec
<1>2. QED
  BY <1>1, LockInvExcludes, PTL

-----------------------------------------------------------------------------
(* Survival, for grants without expiry. What a guard that may still commit   *)
(* relies on is that somebody other than its target stands. Everything that  *)
(* is not a guard only adds; another guard could take that somebody away,    *)
(* unless the two are kept apart.                                            *)

Standing == {p \in Person : active[p] /\ adminUntil[p] # NoRow}

Allowed(c) == PastLock(c) /\ stage[c] \in {"write", "commit"}

Safe ==
  /\ Standing # {}
  /\ \A c \in Conn : Allowed(c) => Standing \ {target[c]} # {}

\* Of two guards that may commit, neither takes away whom the other relies on.
Apart ==
  \A c, d \in Conn : c # d /\ Allowed(c) /\ Allowed(d) =>
    Standing \ {target[c], target[d]} # {}

LEMMA PermanentGrants ==
  ASSUME Expiry = {Never}, TypeOK, NEW t \in Time
  PROVE  ActiveAdminsAt(t) = Standing
<1>1. ASSUME NEW p \in Person
      PROVE  adminUntil[p] > t <=> adminUntil[p] # NoRow
  <2>1. adminUntil[p] \in {NoRow, Never}
    BY <1>1 DEF TypeOK, RowValue
  <2>2. Never > t /\ ~(NoRow > t) /\ Never # NoRow
    BY GuardAssumption DEF Never, NoRow, Time
  <2>3. QED
    BY <2>1, <2>2
<1>2. QED
  BY <1>1 DEF ActiveAdminsAt, Standing

\* While the flag is down at most one guard is past its lock.
LEMMA Alone ==
  ASSUME TypeOK, LockInv, ~emptyLock, NEW c \in Conn, NEW d \in Conn,
         c # d, PastLock(c)
  PROVE  ~PastLock(d)
  BY LockInvExcludes DEF LockInv, NonEmpty, LockSetsExclude

\* A step that takes nobody away and allows no further removal is harmless.
LEMMA SafeGrow ==
  ASSUME Safe, Standing \subseteq Standing',
         \A c \in Conn : Allowed(c)' => Allowed(c) /\ target'[c] = target[c]
  PROVE  Safe'
  BY DEF Safe

LEMMA SafeInit == Expiry = {Never} /\ Init => Safe
<1>1. ASSUME Expiry = {Never}, Init PROVE Safe
  <2>1. 0 \in Time
    BY GuardAssumption DEF Time
  <2>2. ActiveAdminsAt(0) = Standing
    BY <1>1, <2>1, PermanentGrants, TypeInit
  <2>3. QED
    BY <1>1, <2>2 DEF Init, Safe, Allowed, PastLock
<1>2. QED
  BY <1>1

\* CountOtherActiveAdmins finds somebody else, or PersonByID finds that the
\* target is none of those who stand: either way somebody else does.
LEMMA SafeCount ==
  ASSUME Expiry = {Never}, TypeOK, Safe, NEW c \in Conn,
         CountOthers(c) \/ CheckHarmless(c)
  PROVE  Safe'
<1>1. ActiveAdminsAt(since[c]) = Standing
  BY PermanentGrants DEF TypeOK
<1>2. /\ Standing' = Standing
      /\ target' = target /\ op' = op
      /\ \A d \in Conn : d # c => stage'[d] = stage[d]
  BY DEF CountOthers, CheckHarmless, Standing, data, call, TypeOK
<1>3. ASSUME stage'[c] \in {"write", "commit"}
      PROVE  Standing \ {target[c]} # {}
  <2>1. CASE CountOthers(c)
    BY <1>1, <1>3, <2>1 DEF CountOthers, OthersAt, TypeOK
  <2>2. CASE CheckHarmless(c)
    BY <1>1, <1>3, <2>2 DEF CheckHarmless, Safe
  <2>3. QED
    BY <2>1, <2>2
<1>4. QED
  BY <1>2, <1>3 DEF Safe, Allowed, PastLock

\* A removal commits: the one it relied on stays, and so does the one whom
\* any other guard relies on.
LEMMA SafeCommit ==
  ASSUME TypeOK, Safe, Apart, NEW c \in Conn,
         CommitRevoke(c) \/ CommitDeactivate(c)
  PROVE  Safe'
<1>1. Allowed(c) /\ target[c] \in Person
  BY DEF CommitRevoke, CommitDeactivate, Allowed, PastLock, TypeOK
<1>2. Standing \ {target[c]} # {}
  BY <1>1 DEF Safe
<1>3. Standing \ {target[c]} \subseteq Standing'
  BY DEF CommitRevoke, CommitDeactivate, Standing, TypeOK
<1>4. ASSUME NEW d \in Conn, Allowed(d)' PROVE Standing' \ {target'[d]} # {}
  <2>1. d # c /\ Allowed(d) /\ target'[d] = target[d]
    BY <1>4 DEF CommitRevoke, CommitDeactivate, Finish, Allowed, PastLock, TypeOK
  <2>2. Standing \ {target[c], target[d]} # {}
    BY <1>1, <2>1 DEF Apart
  <2>3. QED
    BY <1>3, <2>1, <2>2
<1>5. QED
  BY <1>2, <1>3, <1>4 DEF Safe

\* Every other step of a connection.
LEMMA SafeStep ==
  ASSUME Expiry = {Never}, TypeOK, LockInv, Safe, Apart, NEW c \in Conn, Step(c)
  PROVE  Safe'
<1>1. CASE StartLock(c) \/ Locked(c) \/ \E p \in Person : LockRow(c, p)
  <2>1. /\ Standing' = Standing
        /\ op' = op /\ target' = target
        /\ \A d \in Conn : stage'[d] \in {"write", "commit"} => stage'[d] = stage[d]
    BY <1>1 DEF StartLock, Locked, LockRow, Standing, data, locks, call, TypeOK
  <2>2. QED
    BY <2>1, SafeGrow DEF Allowed, PastLock
<1>2. CASE WriteRevoke(c) \/ WriteDeactivate(c) \/ Ensure(c) \/ ReadGrants(c)
           \/ ReconcileGrant(c)
  <2>1. Standing' = Standing /\ target' = target
    BY <1>2 DEF WriteRevoke, WriteDeactivate, Ensure, ReadGrants, ReconcileGrant,
                Standing, data, call
  <2>2. \A d \in Conn : Allowed(d)' => Allowed(d)
    BY <1>2 DEF WriteRevoke, WriteDeactivate, Ensure, ReadGrants, ReconcileGrant,
                call, Allowed, PastLock, LockInv, StageOp, TypeOK
  <2>3. QED
    BY <2>1, <2>2, SafeGrow
<1>3. CASE Refuse(c) \/ CommitReconcile(c)
  <2>1. Standing \subseteq Standing'
    BY <1>3, GuardAssumption
       DEF Refuse, CommitReconcile, Standing, data, TypeOK, NoRow, Never
  <2>2. \A d \in Conn : Allowed(d)' => Allowed(d) /\ target'[d] = target[d]
    BY <1>3 DEF Refuse, CommitReconcile, Finish, Allowed, PastLock, TypeOK
  <2>3. QED
    BY <2>1, <2>2, SafeGrow
<1>4. QED
  BY <1>1, <1>2, <1>3, SafeCount, SafeCommit DEF Step

LEMMA SafeNext ==
  Expiry = {Never} /\ TypeOK /\ LockInv /\ Safe /\ Apart /\ [Next]_vars => Safe'
<1>. SUFFICES ASSUME Expiry = {Never}, TypeOK, LockInv, Safe, Apart, [Next]_vars
              PROVE  Safe'
  OBVIOUS
<1>1. ASSUME NEW c \in Conn, Begin(c) \/ Rollback(c) PROVE Safe'
  <2>1. Standing' = Standing
    BY <1>1 DEF Begin, Rollback, Standing, data
  <2>2. \A d \in Conn : Allowed(d)' => Allowed(d) /\ target'[d] = target[d]
    BY <1>1 DEF Begin, Rollback, Finish, Allowed, PastLock, TypeOK
  <2>3. QED
    BY <2>1, <2>2, SafeGrow
<1>2. ASSUME NEW p \in Person, NEW e \in Expiry, GrantAdmin(p, e) PROVE Safe'
  <2>1. Standing \subseteq Standing'
    BY <1>2, GuardAssumption DEF GrantAdmin, Standing, TypeOK, NoRow
  <2>2. \A d \in Conn : Allowed(d)' => Allowed(d) /\ target'[d] = target[d]
    BY <1>2 DEF GrantAdmin, locks, call, Allowed, PastLock
  <2>3. QED
    BY <2>1, <2>2, SafeGrow
<1>3. ASSUME NEW p \in Person, Activate(p) PROVE Safe'
  <2>1. Standing \subseteq Standing'
    BY <1>3 DEF Activate, Standing, TypeOK
  <2>2. \A d \in Conn : Allowed(d)' => Allowed(d) /\ target'[d] = target[d]
    BY <1>3 DEF Activate, locks, call, Allowed, PastLock
  <2>3. QED
    BY <2>1, <2>2, SafeGrow
<1>4. CASE Tick \/ UNCHANGED vars
  BY <1>4 DEF Tick, vars, data, locks, call, Safe, Standing, Allowed, PastLock
<1>5. QED
  BY <1>1, <1>2, <1>3, <1>4, SafeStep DEF Next

LEMMA FlagOnlyRises == emptyLock /\ [Next]_vars => emptyLock'
  BY DEF Next, Step, vars, Begin, Rollback, Finish, StartLock, LockRow, Locked,
     CountOthers, CheckHarmless, Refuse, WriteRevoke, WriteDeactivate, CommitRevoke,
     CommitDeactivate, Ensure, ReadGrants, ReconcileGrant, CommitReconcile,
     GrantAdmin, Activate, Tick

\* While the flag is down two guards that may commit are one and the same.
LEMMA ApartWhileLocked == TypeOK /\ LockInv /\ ~emptyLock => Apart
  BY Alone DEF Apart, Allowed

SurviveInv == ~emptyLock => Safe

LEMMA SurviveNext ==
  Expiry = {Never} /\ TypeOK /\ LockInv /\ SurviveInv /\ [Next]_vars => SurviveInv'
  BY SafeNext, FlagOnlyRises, ApartWhileLocked DEF SurviveInv

\* With permanent grants somebody can always administer the installation,
\* unless some guard got past LockAdminGrants with nothing locked.
THEOREM Survival ==
  ASSUME Expiry = {Never}
  PROVE  Spec => []AdminSurvives
<1>1. TypeOK /\ SurviveInv => AdminSurvives
  BY PermanentGrants DEF TypeOK, SurviveInv, Safe, AdminSurvives, SomeAdmin
<1>2. Init => SurviveInv
  BY SafeInit DEF SurviveInv
<1>3. TypeOK /\ LockInv /\ SurviveInv /\ [Next]_vars => SurviveInv'
  BY SurviveNext
<1>4. QED
  BY <1>1, <1>2, <1>3, TypeInit, TypeNext, LockInvInit, LockInvNext, PTL DEF Spec

-----------------------------------------------------------------------------
(* The finding of AdminWriteSkew needs two people who become administrators *)
(* while guards wait. If at most one can, an empty lock does no harm: all   *)
(* rows outside a guard's scan are that one's, so a guard without a lock    *)
(* and a guard beside it may both remove only somebody else.                *)

ReconcilesProtected == \A c \in Conn : op[c] = "reconcile" => target[c] \in Protected

\* Rows that appeared since a guard's snapshot are a's.
NewRowsAre(a) ==
  \A c \in Conn : stage[c] = "locking" \/ PastLock(c) =>
    AdminRows \subseteq scan[c] \cup {a}

GapInv(a) == ReconcilesProtected /\ NewRowsAre(a)

LEMMA ReconcilesProtectedNext ==
  TypeOK /\ ReconcilesProtected /\ [Next]_vars => ReconcilesProtected'
<1>. SUFFICES ASSUME TypeOK, ReconcilesProtected, [Next]_vars
              PROVE  ReconcilesProtected'
  OBVIOUS
<1>1. ASSUME NEW c \in Conn, Begin(c) PROVE ReconcilesProtected'
  BY <1>1 DEF Begin, ReconcilesProtected, TypeOK
<1>2. ASSUME NEW c \in Conn, Finish(c) PROVE ReconcilesProtected'
  BY <1>2 DEF Finish, ReconcilesProtected, TypeOK
<1>3. CASE UNCHANGED <<op, target>>
  BY <1>3 DEF ReconcilesProtected
<1>4. QED
  BY <1>1, <1>2, <1>3
     DEF Next, Step, Rollback, Refuse, CommitRevoke, CommitDeactivate,
         CommitReconcile, StartLock, LockRow, Locked, CountOthers, CheckHarmless,
         WriteRevoke, WriteDeactivate, Ensure, ReadGrants, ReconcileGrant,
         GrantAdmin, Activate, Tick, vars, call

LEMMA NewRowsNext ==
  ASSUME NEW a, Grantable \cup Protected \subseteq {a}, TypeOK, LockInv, GapInv(a),
         [Next]_vars
  PROVE  NewRowsAre(a)'
<1>. USE DEF GapInv
<1>1. ASSUME NEW c \in Conn, StartLock(c) PROVE NewRowsAre(a)'
  BY <1>1 DEF StartLock, NewRowsAre, PastLock, AdminRows, data, locks, call, TypeOK
<1>2. ASSUME NEW c \in Conn,
             \/ Begin(c) \/ Locked(c) \/ CountOthers(c) \/ CheckHarmless(c)
             \/ WriteRevoke(c) \/ WriteDeactivate(c) \/ Ensure(c) \/ ReadGrants(c)
             \/ ReconcileGrant(c) \/ \E p \in Person : LockRow(c, p)
      PROVE  NewRowsAre(a)'
  <2>1. AdminRows' = AdminRows /\ scan' = scan
    BY <1>2 DEF Begin, Locked, CountOthers, CheckHarmless, WriteRevoke,
                WriteDeactivate, Ensure, ReadGrants, ReconcileGrant, LockRow,
                AdminRows, data
  <2>2. \A d \in Conn : (stage[d] = "locking" \/ PastLock(d))' =>
           stage[d] = "locking" \/ PastLock(d)
    BY <1>2 DEF Begin, Locked, CountOthers, CheckHarmless, WriteRevoke,
                WriteDeactivate, Ensure, ReadGrants, ReconcileGrant, LockRow,
                PastLock, call, LockInv, StageOp, Guarding, TypeOK
  <2>3. QED
    BY <2>1, <2>2 DEF NewRowsAre
<1>3. ASSUME NEW c \in Conn, Rollback(c) \/ Refuse(c) \/ CommitDeactivate(c)
      PROVE  NewRowsAre(a)'
  <2>1. AdminRows' = AdminRows /\ scan' = [scan EXCEPT ![c] = {}]
    BY <1>3 DEF Rollback, Refuse, CommitDeactivate, AdminRows, data
  <2>2. \A d \in Conn : (stage[d] = "locking" \/ PastLock(d))' =>
           d # c /\ (stage[d] = "locking" \/ PastLock(d))
    BY <1>3 DEF Rollback, Refuse, CommitDeactivate, Finish, PastLock, TypeOK
  <2>3. QED
    BY <2>1, <2>2 DEF NewRowsAre, TypeOK
<1>4. ASSUME NEW c \in Conn, CommitRevoke(c) PROVE NewRowsAre(a)'
  <2>1. target[c] \in Person
    BY <1>4 DEF CommitRevoke, TypeOK
  <2>2. \A d \in Conn : (stage[d] = "locking" \/ PastLock(d))' =>
           d # c /\ (stage[d] = "locking" \/ PastLock(d))
    BY <1>4 DEF CommitRevoke, Finish, PastLock, TypeOK
  <2>3. CASE rowOwner[target[c]] = c
    <3>1. AdminRows' \subseteq AdminRows \ {target[c]}
      BY <1>4, <2>1, <2>3 DEF CommitRevoke, AdminRows, TypeOK
    <3>2. \A d \in Conn : d # c => scan'[d] = scan[d] \ {target[c]}
      BY <1>4, <2>3 DEF CommitRevoke
    <3>3. QED
      BY <2>2, <3>1, <3>2 DEF NewRowsAre
  <2>4. CASE rowOwner[target[c]] # c
    BY <1>4, <2>2, <2>4 DEF CommitRevoke, NewRowsAre, AdminRows, TypeOK
  <2>5. QED
    BY <2>3, <2>4
<1>5. ASSUME NEW c \in Conn, CommitReconcile(c) PROVE NewRowsAre(a)'
  <2>1. target[c] = a
    BY <1>5 DEF CommitReconcile, ReconcilesProtected
  <2>2. AdminRows' \subseteq AdminRows \cup {a}
    BY <1>5, <2>1 DEF CommitReconcile, AdminRows, TypeOK
  <2>3. \A d \in Conn : (stage[d] = "locking" \/ PastLock(d))' =>
           stage[d] = "locking" \/ PastLock(d)
    BY <1>5 DEF CommitReconcile, Finish, PastLock, TypeOK
  <2>4. scan' = scan
    BY <1>5 DEF CommitReconcile
  <2>5. QED
    BY <2>2, <2>3, <2>4 DEF NewRowsAre
<1>6. ASSUME NEW p \in Person, NEW e \in Expiry, GrantAdmin(p, e)
      PROVE  NewRowsAre(a)'
  <2>1. AdminRows' \subseteq AdminRows \cup {a}
    BY <1>6 DEF GrantAdmin, AdminRows, TypeOK
  <2>2. QED
    BY <1>6, <2>1 DEF GrantAdmin, locks, call, NewRowsAre, PastLock
<1>7. CASE Tick \/ UNCHANGED vars \/ \E p \in Person : Activate(p)
  BY <1>7 DEF Tick, vars, Activate, data, locks, call, NewRowsAre, PastLock, AdminRows
<1>8. QED
  BY <1>1, <1>2, <1>3, <1>4, <1>5, <1>6, <1>7 DEF Next, Step

\* Two guards at once: one of them has an empty scan, so every row is a's, and
\* what both rely on can only be a.
LEMMA ApartWithOneNew ==
  ASSUME NEW a, TypeOK, LockInv, Safe, NewRowsAre(a)
  PROVE  Apart
<1>. SUFFICES ASSUME NEW c \in Conn, NEW d \in Conn, c # d, Allowed(c), Allowed(d)
              PROVE  Standing \ {target[c], target[d]} # {}
  BY DEF Apart
<1>1. scan[c] = {} \/ scan[d] = {}
  BY LockInvExcludes DEF LockSetsExclude, Allowed
<1>2. Standing \subseteq {a}
  BY <1>1 DEF NewRowsAre, Allowed, Standing, AdminRows
<1>3. Standing \ {target[c]} # {} /\ Standing \ {target[d]} # {}
  BY DEF Safe
<1>4. QED
  BY <1>2, <1>3

LEMMA OneNewNext ==
  ASSUME NEW a, Grantable \cup Protected \subseteq {a}, Expiry = {Never}
  PROVE  TypeOK /\ LockInv /\ Safe /\ GapInv(a) /\ [Next]_vars => Safe' /\ GapInv(a)'
  BY SafeNext, ApartWithOneNew, NewRowsNext, ReconcilesProtectedNext DEF GapInv

LEMMA OneNewInvariance ==
  ASSUME NEW a, Grantable \cup Protected \subseteq {a}, Expiry = {Never}
  PROVE  Spec => [](TypeOK /\ LockInv /\ Safe)
<1>1. Init => Safe /\ GapInv(a)
  BY SafeInit DEF GapInv, Init, ReconcilesProtected, NewRowsAre, PastLock
<1>2. TypeOK /\ LockInv /\ Safe /\ GapInv(a) /\ [Next]_vars => Safe' /\ GapInv(a)'
  BY OneNewNext
<1>3. QED
  BY <1>1, <1>2, TypeInit, TypeNext, LockInvInit, LockInvNext, PTL DEF Spec

\* If grants do not expire and at most one person can become an administrator
\* while calls are under way, somebody can always administer the installation,
\* also when a guard locked nothing.
THEOREM SurvivalWithOneNew ==
  ASSUME NEW a, Grantable \cup Protected \subseteq {a}, Expiry = {Never}
  PROVE  Spec => []SomeAdmin
<1>1. TypeOK /\ Safe => SomeAdmin
  BY PermanentGrants DEF TypeOK, Safe, SomeAdmin
<1>2. QED
  BY <1>1, OneNewInvariance, PTL

-----------------------------------------------------------------------------
(* Refinement: every commit is one step of the registry.                    *)

LEMMA AdminsAreStanding == Registry!Admins = Standing
  BY DEF Registry!Admins, Standing, AdminRows

LEMMA RegistryInit == Expiry = {Never} /\ Init => Registry!Init
<1>. SUFFICES ASSUME Expiry = {Never}, Init PROVE Registry!Init
  OBVIOUS
<1>1. Registry!TypeOK
  BY DEF Init, Registry!TypeOK, AdminRows
<1>2. Standing # {}
  BY SafeInit DEF Safe
<1>3. QED
  BY <1>1, <1>2, AdminsAreStanding DEF Registry!Init

LEMMA RegistryCommit ==
  ASSUME TypeOK, Safe, NEW c \in Conn,
         CommitRevoke(c) \/ CommitDeactivate(c) \/ CommitReconcile(c)
  PROVE  Registry!Next \/ UNCHANGED Registry!vars
<1>1. target[c] \in Person
  BY DEF CommitRevoke, CommitDeactivate, CommitReconcile, TypeOK
<1>2. ASSUME Allowed(c) PROVE Registry!MayRemove(target[c])
  BY <1>2, AdminsAreStanding DEF Safe, Registry!MayRemove
<1>3. CASE CommitRevoke(c) /\ rowOwner[target[c]] = c
  <2>1. Registry!MayRemove(target[c])
    BY <1>2, <1>3 DEF CommitRevoke, Allowed, PastLock
  <2>2. AdminRows' = AdminRows \ {target[c]} /\ active' = active
    BY <1>1, <1>3 DEF CommitRevoke, AdminRows, TypeOK
  <2>3. QED
    BY <1>1, <2>1, <2>2 DEF Registry!Revoke, Registry!Next
<1>4. CASE CommitRevoke(c) /\ rowOwner[target[c]] # c
  BY <1>4 DEF CommitRevoke, AdminRows, Registry!vars
<1>5. CASE CommitDeactivate(c)
  <2>1. Registry!MayRemove(target[c])
    BY <1>2, <1>5 DEF CommitDeactivate, Allowed, PastLock
  <2>2. AdminRows' = AdminRows /\ active' = [active EXCEPT ![target[c]] = FALSE]
    BY <1>5 DEF CommitDeactivate, AdminRows
  <2>3. QED
    BY <1>1, <2>1, <2>2 DEF Registry!Deactivate, Registry!Next
<1>6. CASE CommitReconcile(c)
  <2>1. active' = [active EXCEPT ![target[c]] = TRUE]
    BY <1>6 DEF CommitReconcile
  <2>2. AdminRows' \in {AdminRows, AdminRows \cup {target[c]}}
    BY <1>1, <1>6, GuardAssumption
       DEF CommitReconcile, AdminRows, TypeOK, NoRow, Never
  <2>3. Registry!Restore(target[c])
    BY <2>1, <2>2 DEF Registry!Restore
  <2>4. QED
    BY <1>1, <2>3 DEF Registry!Next
<1>7. QED
  BY <1>3, <1>4, <1>5, <1>6

LEMMA RegistryStep ==
  ASSUME TypeOK, Safe, [Next]_vars
  PROVE  [Registry!Next]_(Registry!vars)
<1>1. ASSUME NEW p \in Person, NEW e \in Expiry, GrantAdmin(p, e)
      PROVE  Registry!Next
  <2>1. AdminRows' = AdminRows \cup {p} /\ active' = active
    BY <1>1, GuardAssumption DEF GrantAdmin, AdminRows, TypeOK, NoRow
  <2>2. QED
    BY <2>1 DEF Registry!Grant, Registry!Next
<1>2. ASSUME NEW p \in Person, Activate(p) PROVE Registry!Next
  BY <1>2 DEF Activate, AdminRows, Registry!Activate, Registry!Next
<1>3. CASE UNCHANGED data
  BY <1>3 DEF data, AdminRows, Registry!vars
<1>4. QED
  BY <1>1, <1>2, <1>3, RegistryCommit
     DEF Next, Step, Begin, Rollback, StartLock, LockRow, Locked, CountOthers,
         CheckHarmless, Refuse, WriteRevoke, WriteDeactivate, Ensure, ReadGrants,
         ReconcileGrant, Tick, vars, data

\* If grants do not expire and at most one person can become an administrator
\* while calls are under way, the statements, locks, snapshots and rollbacks
\* implement the atomic registry.
THEOREM ImplementsRegistry ==
  ASSUME NEW a, Grantable \cup Protected \subseteq {a}, Expiry = {Never}
  PROVE  Spec => RegistrySpec
<1>1. Init => Registry!Init
  BY RegistryInit
<1>2. TypeOK /\ Safe /\ [Next]_vars => [Registry!Next]_(Registry!vars)
  BY RegistryStep
<1>3. Spec => [](TypeOK /\ LockInv /\ Safe)
  BY OneNewInvariance
<1>4. QED
  BY <1>1, <1>2, <1>3, PTL DEF Spec, RegistrySpec, Registry!Spec

\* Whoever may become an administrator meanwhile: as long as no guard got past
\* LockAdminGrants with nothing locked, the same holds.
THEOREM ImplementsRegistryWhileLocked ==
  ASSUME Expiry = {Never}
  PROVE  Spec /\ []~emptyLock => RegistrySpec
<1>1. Init => Registry!Init
  BY RegistryInit
<1>2. TypeOK /\ SurviveInv /\ ~emptyLock /\ [Next]_vars
        => [Registry!Next]_(Registry!vars)
  BY RegistryStep DEF SurviveInv
<1>3. Init => SurviveInv
  BY SafeInit DEF SurviveInv
<1>4. TypeOK /\ LockInv /\ SurviveInv /\ [Next]_vars => SurviveInv'
  BY SurviveNext
<1>5. QED
  BY <1>1, <1>2, <1>3, <1>4, TypeInit, TypeNext, LockInvInit, LockInvNext, PTL
     DEF Spec, RegistrySpec, Registry!Spec

\* What the registry is for: in it somebody can always administer the
\* installation.
THEOREM RegistryKeepsAdmin == RegistrySpec => []Registry!KeepsAdmin
<1>. DEFINE RInv == Registry!TypeOK /\ Registry!KeepsAdmin
<1>1. Registry!Init => RInv
  BY DEF Registry!Init, Registry!KeepsAdmin
<1>2. RInv /\ [Registry!Next]_(Registry!vars) => RInv'
  BY DEF Registry!TypeOK, Registry!KeepsAdmin, Registry!Admins, Registry!Next,
         Registry!vars, Registry!Grant, Registry!Activate, Registry!Restore,
         Registry!Revoke, Registry!Deactivate, Registry!MayRemove
<1>3. QED
  BY <1>1, <1>2, PTL DEF RegistrySpec, Registry!Spec

-----------------------------------------------------------------------------
(* With grants that expire. Somebody the guard counted stays countable by    *)
(* its own now(): a grant that shortens theirs to before that now() is       *)
(* remembered, a reconciliation only adds, and another removal would need a  *)
(* guard past its lock.                                                      *)

CountedStays ==
  \A c \in Conn :
    /\ since[c] <= clock
    /\ others[c] => stage[c] \in {"write", "commit"}
    /\ ~emptyLock /\ PastLock(c) /\ others[c] /\ c \notin undercut =>
         OthersAt(target[c], since[c]) # {}

LEMMA CountedStaysInit == Init => CountedStays
  BY DEF Init, CountedStays

\* The end of c's transaction leaves what the others rely on, if it takes
\* nobody of theirs away.
LEMMA CountedStaysEnd ==
  ASSUME TypeOK, CountedStays, NEW c \in Conn, Finish(c), emptyLock' = emptyLock,
         \A d \in Conn \ {c} : ~emptyLock /\ PastLock(d) =>
           ActiveAdminsAt(since[d]) \subseteq
             {p \in Person : active'[p] /\ adminUntil'[p] > since[d]}
  PROVE  CountedStays'
<1>1. /\ since'[c] = 0 /\ others'[c] = FALSE /\ clock' = clock /\ clock \in Nat
      /\ \A d \in Conn \ {c} :
           /\ stage'[d] = stage[d] /\ op'[d] = op[d] /\ target'[d] = target[d]
           /\ since'[d] = since[d] /\ others'[d] = others[d]
           /\ d \in undercut' <=> d \in undercut
  BY DEF Finish, TypeOK, Time
<1>2. since'[c] <= clock'
  BY <1>1
<1>3. ASSUME NEW d \in Conn \ {c}, ~emptyLock, PastLock(d), others[d], d \notin undercut
      PROVE  OthersAt(target[d], since[d])' # {}
  <2>1. OthersAt(target[d], since[d]) # {}
    BY <1>3 DEF CountedStays
  <2>2. ActiveAdminsAt(since[d]) \subseteq ActiveAdminsAt(since[d])'
    BY <1>1, <1>3 DEF ActiveAdminsAt
  <2>3. target'[d] = target[d]
    BY <1>1
  <2>4. QED
    BY <2>1, <2>2, <2>3 DEF OthersAt
<1>4. QED
  BY <1>1, <1>2, <1>3 DEF CountedStays, PastLock

LEMMA CountedStaysStep ==
  ASSUME TypeOK, LockInv, CountedStays, NEW c \in Conn, Step(c) \/ Rollback(c)
  PROVE  CountedStays'
<1>1. CASE CountOthers(c)
  <2>1. /\ UNCHANGED <<adminUntil, active, clock, op, target, since, emptyLock, undercut>>
        /\ \A d \in Conn : d # c => stage'[d] = stage[d] /\ others'[d] = others[d]
        /\ others'[c] <=> OthersAt(target[c], since[c]) # {}
        /\ stage'[c] = IF others'[c] THEN "write" ELSE "check"
    BY <1>1 DEF CountOthers, data, call, TypeOK
  <2>2. \A d \in Conn : OthersAt(target[d], since[d])' = OthersAt(target[d], since[d])
    BY <2>1 DEF OthersAt, ActiveAdminsAt
  <2>3. QED
    BY <2>1, <2>2 DEF CountedStays, PastLock
<1>2. CASE \/ StartLock(c) \/ CheckHarmless(c) \/ WriteRevoke(c) \/ WriteDeactivate(c)
           \/ Ensure(c) \/ ReadGrants(c) \/ ReconcileGrant(c)
           \/ \E p \in Person : LockRow(c, p)
  <2>1. UNCHANGED <<adminUntil, active, clock, op, target, since, others, emptyLock,
                    undercut>>
    BY <1>2 DEF StartLock, CheckHarmless, WriteRevoke, WriteDeactivate, Ensure,
                ReadGrants, ReconcileGrant, LockRow, data, call
  <2>2. \A d \in Conn : /\ others[d] => stage'[d] \in {"write", "commit"}
                        /\ others[d] /\ PastLock(d)' => PastLock(d)
    BY <1>2 DEF CountedStays, StartLock, CheckHarmless, WriteRevoke, WriteDeactivate,
                Ensure, ReadGrants, ReconcileGrant, LockRow, call, PastLock, TypeOK
  <2>3. \A d \in Conn : OthersAt(target[d], since[d])' = OthersAt(target[d], since[d])
    BY <2>1 DEF OthersAt, ActiveAdminsAt
  <2>4. QED
    BY <2>1, <2>2, <2>3 DEF CountedStays
<1>3. CASE Locked(c)
  <2>1. /\ UNCHANGED <<adminUntil, active, clock, op, target, since, others, undercut>>
        /\ \A d \in Conn : d # c => stage'[d] = stage[d]
        /\ stage[c] = "locking" /\ emptyLock => emptyLock'
    BY <1>3 DEF Locked, data, locks, call, TypeOK
  <2>2. \A d \in Conn : OthersAt(target[d], since[d])' = OthersAt(target[d], since[d])
    BY <2>1 DEF OthersAt, ActiveAdminsAt
  <2>3. ~others[c] /\ \A d \in Conn : others[d] => d # c
    BY <1>3 DEF Locked, CountedStays
  <2>4. emptyLock => emptyLock'
    BY <1>3 DEF Locked
  <2>5. QED
    BY <2>1, <2>2, <2>3, <2>4 DEF CountedStays, PastLock
<1>4. CASE Refuse(c) \/ Rollback(c)
  <2>1. Finish(c) /\ UNCHANGED <<adminUntil, active, emptyLock>>
    BY <1>4 DEF Refuse, Rollback, data
  <2>2. QED
    BY <2>1, CountedStaysEnd DEF ActiveAdminsAt
<1>5. CASE CommitRevoke(c) \/ CommitDeactivate(c)
  <2>1. Finish(c) /\ emptyLock' = emptyLock /\ PastLock(c)
    BY <1>5 DEF CommitRevoke, CommitDeactivate, PastLock
  <2>2. \A d \in Conn \ {c} : ~emptyLock => ~PastLock(d)
    BY <2>1, Alone
  <2>3. QED
    BY <2>1, <2>2, CountedStaysEnd
<1>6. CASE CommitReconcile(c)
  <2>1. Finish(c) /\ emptyLock' = emptyLock
    BY <1>6 DEF CommitReconcile
  <2>2. \A t \in Time : Never > t
    BY GuardAssumption DEF Never, Time
  <2>3. \A p \in Person : (active[p] => active'[p])
                          /\ adminUntil'[p] \in {adminUntil[p], Never}
    BY <1>6 DEF CommitReconcile, TypeOK
  <2>4. \A d \in Conn : since[d] \in Time
    BY DEF TypeOK
  <2>5. QED
    BY <2>1, <2>2, <2>3, <2>4, CountedStaysEnd DEF ActiveAdminsAt
<1>7. QED
  BY <1>1, <1>2, <1>3, <1>4, <1>5, <1>6 DEF Step

LEMMA CountedStaysNext ==
  TypeOK /\ LockInv /\ CountedStays /\ [Next]_vars => CountedStays'
<1>. SUFFICES ASSUME TypeOK, LockInv, CountedStays, [Next]_vars PROVE CountedStays'
  OBVIOUS
<1>1. ASSUME NEW c \in Conn, Begin(c) PROVE CountedStays'
  <2>1. /\ UNCHANGED <<adminUntil, active, clock, others, emptyLock, undercut>>
        /\ since'[c] = clock /\ stage[c] = "idle" /\ clock \in Nat
        /\ \A d \in Conn : d # c =>
             /\ stage'[d] = stage[d] /\ op'[d] = op[d]
             /\ target'[d] = target[d] /\ since'[d] = since[d]
    BY <1>1 DEF Begin, TypeOK, Time, data
  <2>2. ~others[c]
    BY <2>1 DEF CountedStays
  <2>3. \A d \in Conn : d # c =>
          OthersAt(target[d], since[d])' = OthersAt(target[d], since[d])
    BY <2>1 DEF OthersAt, ActiveAdminsAt
  <2>4. QED
    BY <2>1, <2>2, <2>3 DEF CountedStays, PastLock
<1>2. ASSUME NEW p \in Person, NEW e \in Expiry, GrantAdmin(p, e)
      PROVE  CountedStays'
  <2>1. /\ UNCHANGED <<active, clock, stage, op, target, since, others, emptyLock>>
        /\ adminUntil' = [adminUntil EXCEPT ![p] = e]
    BY <1>2 DEF GrantAdmin, locks
  <2>2. ASSUME NEW d \in Conn, others[d], d \notin undercut'
        PROVE  /\ d \notin undercut
               /\ OthersAt(target[d], since[d]) \subseteq OthersAt(target[d], since[d])'
    <3>1. d \notin undercut /\ (p \in OthersAt(target[d], since[d]) => ~(e <= since[d]))
      BY <1>2, <2>2 DEF GrantAdmin
    <3>2. e \in Nat /\ since[d] \in Nat
      BY GuardAssumption DEF TypeOK, Time
    <3>3. QED
      BY <2>1, <3>1, <3>2 DEF OthersAt, ActiveAdminsAt, TypeOK
  <2>3. QED
    BY <2>1, <2>2 DEF CountedStays, PastLock
<1>3. ASSUME NEW p \in Person, Activate(p) PROVE CountedStays'
  <2>1. /\ UNCHANGED <<adminUntil, clock, stage, op, target, since, others, emptyLock,
                       undercut>>
        /\ active' = [active EXCEPT ![p] = TRUE]
    BY <1>3 DEF Activate, locks, call
  <2>2. \A d \in Conn : OthersAt(target[d], since[d]) \subseteq OthersAt(target[d], since[d])'
    BY <2>1 DEF OthersAt, ActiveAdminsAt, TypeOK
  <2>3. QED
    BY <2>1, <2>2 DEF CountedStays, PastLock
<1>4. CASE Tick \/ UNCHANGED vars
  <2>1. UNCHANGED <<adminUntil, active, stage, op, target, since, others, emptyLock,
                    undercut>>
    BY <1>4 DEF Tick, vars, data, call
  <2>2. \A d \in Conn : since[d] <= clock'
    BY <1>4 DEF CountedStays, Tick, vars, TypeOK, Time
  <2>3. \A d \in Conn : OthersAt(target[d], since[d])' = OthersAt(target[d], since[d])
    BY <2>1 DEF OthersAt, ActiveAdminsAt
  <2>4. QED
    BY <2>1, <2>2, <2>3 DEF CountedStays, PastLock
<1>5. QED
  BY <1>1, <1>2, <1>3, <1>4, CountedStaysStep DEF Next

\* A removal that was allowed because another administrator was counted leaves
\* one when it commits, by the guard's now(), whatever happened between the
\* count and the commit, unless a grant that had waited past its own expiry
\* replaced the one of somebody who was counted.
THEOREM RemovalLeavesAdmin == Spec => RemovalKeepsAdmin
<1>. DEFINE Keeps == \A c \in Conn :
                      /\ CommitRevoke(c) \/ CommitDeactivate(c)
                      /\ others[c] /\ ~emptyLock /\ c \notin undercut
                      => \E p \in Person : active'[p] /\ adminUntil'[p] > since[c]
<1>1. TypeOK /\ CountedStays /\ [Next]_vars => [Keeps]_vars
  <2>. SUFFICES ASSUME TypeOK, CountedStays, NEW c \in Conn,
                       CommitRevoke(c) \/ CommitDeactivate(c), others[c], ~emptyLock,
                       c \notin undercut
                PROVE  \E p \in Person : active'[p] /\ adminUntil'[p] > since[c]
    OBVIOUS
  <2>1. PastLock(c)
    BY DEF CommitRevoke, CommitDeactivate, PastLock
  <2>2. PICK p \in Person : p # target[c] /\ active[p] /\ adminUntil[p] > since[c]
    BY <2>1 DEF CountedStays, OthersAt, ActiveAdminsAt
  <2>3. active'[p] = active[p] /\ adminUntil'[p] = adminUntil[p]
    BY <2>2 DEF CommitRevoke, CommitDeactivate, TypeOK
  <2>4. QED
    BY <2>2, <2>3
<1>2. QED
  BY <1>1, CountedStaysInit, CountedStaysNext, TypeInit, TypeNext, LockInvInit,
     LockInvNext, PTL DEF Spec, RemovalKeepsAdmin

-----------------------------------------------------------------------------
(* Locks end with their transactions.                                       *)

HoldsRows(c) ==
  \A p \in Person : rowOwner[p] = c =>
    stage[c] \in {"locking", "count", "check", "write", "commit"}

HoldsPeople(c) ==
  \A p \in Person : personOwner[p] = c => stage[c] \in {"read", "grant", "commit"}

LocksLive == \A c \in Conn : HoldsRows(c) /\ HoldsPeople(c)

LEMMA LocksLiveNext ==
  TypeOK /\ LockInv /\ LocksLive /\ [Next]_vars => LocksLive'
<1>. SUFFICES ASSUME TypeOK, LockInv, LocksLive, [Next]_vars PROVE LocksLive'
  OBVIOUS
<1>. USE GuardAssumption DEF LocksLive, HoldsRows, HoldsPeople, TypeOK
<1>1. ASSUME NEW c \in Conn, Finish(c) PROVE LocksLive'
  <2>1. \A p \in Person : rowOwner'[p] # c /\ personOwner'[p] # c
    BY <1>1 DEF Finish, Release
  <2>2. \A p \in Person, d \in Conn : d # c =>
          /\ rowOwner'[p] = d => rowOwner[p] = d
          /\ personOwner'[p] = d => personOwner[p] = d
          /\ stage'[d] = stage[d]
    BY <1>1 DEF Finish, Release
  <2>3. QED
    BY <2>1, <2>2
<1>2. ASSUME NEW c \in Conn,
             \/ Begin(c) \/ StartLock(c) \/ Locked(c) \/ CountOthers(c)
             \/ CheckHarmless(c) \/ ReadGrants(c)
      PROVE  LocksLive'
  BY <1>2 DEF Begin, StartLock, Locked, CountOthers, CheckHarmless, ReadGrants,
              locks, call
<1>3. ASSUME NEW c \in Conn, NEW p \in Person, LockRow(c, p) PROVE LocksLive'
  BY <1>3 DEF LockRow, call
<1>4. ASSUME NEW c \in Conn,
             WriteRevoke(c) \/ WriteDeactivate(c) \/ Ensure(c) \/ ReconcileGrant(c)
      PROVE  LocksLive'
  BY <1>4 DEF WriteRevoke, WriteDeactivate, Ensure, ReconcileGrant, Free, call
<1>5. CASE UNCHANGED <<locks, stage>>
  BY <1>5 DEF locks
<1>6. QED
  BY <1>1, <1>2, <1>3, <1>4, <1>5
     DEF Next, Step, Rollback, Refuse, CommitRevoke, CommitDeactivate,
         CommitReconcile, GrantAdmin, Activate, Tick, vars, locks

\* Nobody waits for a lock that was left behind, or for one of their own.
THEOREM NoLockLeftBehind == Spec => []WaitsForTheOpen
<1>1. Init => LocksLive
  BY GuardAssumption DEF Init, LocksLive, HoldsRows, HoldsPeople
<1>2. TypeOK /\ LocksLive => WaitsForTheOpen
  <2>. SUFFICES ASSUME TypeOK, LocksLive, NEW c \in Conn, NEW d \in BlockedOn(c)
                PROVE  d \in Conn \ {c} /\ stage[d] # "idle"
    BY DEF WaitsForTheOpen
  <2>. USE DEF LocksLive, HoldsRows, HoldsPeople, TypeOK, BlockedOn
  <2>1. CASE stage[c] = "locking"
    BY <2>1 DEF Pending
  <2>2. CASE stage[c] = "write" /\ op[c] = "revoke" /\ target[c] \in AdminRows
    BY <2>2
  <2>3. CASE stage[c] = "grant"
    BY <2>3
  <2>4. CASE \/ stage[c] = "write" /\ op[c] = "deactivate"
             \/ stage[c] = "begun" /\ op[c] = "reconcile"
    BY <2>4
  <2>5. QED
    BY <2>1, <2>2, <2>3, <2>4
<1>3. QED
  BY <1>1, <1>2, LocksLiveNext, TypeInit, TypeNext, LockInvInit, LockInvNext, PTL
     DEF Spec

-----------------------------------------------------------------------------
(* The moment of the count. A transaction's now() is never ahead of the       *)
(* clock, and what it counts too much is temporary.                           *)

\* With grants that do not expire, it does not matter how long a guard waited
\* for LockAdminGrants: whom CountOtherActiveAdmins counts is an administrator
\* when it counts.
THEOREM CountsRightly ==
  ASSUME Expiry = {Never}
  PROVE  Spec => CountsOnlyUnexpired
<1>. DEFINE Counts == \A c \in Conn :
                        CountOthers(c) /\ others'[c] => OthersAt(target[c], clock) # {}
<1>1. TypeOK => \A t \in Time : ActiveAdminsAt(t) = ActiveAdminsAt(clock)
  BY GuardAssumption DEF TypeOK, RowValue, ActiveAdminsAt, Time, NoRow, Never
<1>2. TypeOK /\ [Next]_vars => [Counts]_vars
  BY <1>1 DEF CountOthers, OthersAt, TypeOK
<1>3. QED
  BY <1>2, TypeCorrect, PTL DEF Spec, CountsOnlyUnexpired
=============================================================================
