--------------------------- MODULE PeopleProofs ---------------------------
(***************************************************************************)
(* What holds of user administration for every number of administrators,   *)
(* people and roles: types, what a call that is alone leaves behind, and   *)
(* what calls that meet still guarantee.                                   *)
(***************************************************************************)
EXTENDS People, TLAPS

-----------------------------------------------------------------------------
(* Type correctness. *)

LEMMA TypeInit == Init => TypeOK
  BY PeopleAssumption DEF Init, TypeOK, Time, RowValue, Never, NoRow, Anything

LEMMA ReturnType ==
  ASSUME TypeOK, NEW c \in Call, Return(c)
  PROVE  /\ stage' \in [Call -> {"idle", "insert", "read", "write"}]
         /\ subject' \in [Call -> Person \cup {NoPerson}]
         /\ \A d \in Call : subject'[d] = NoPerson <=> stage'[d] = "idle"
         /\ wanted' \in [Call -> SUBSET Role]
         /\ expires' \in [Call -> RowValue \ {NoRow}]
         /\ toRevoke' \in [Call -> SUBSET Role]
         /\ toGrant' \in [Call -> SUBSET Role]
<1>1. Never \in RowValue \ {NoRow}
  BY PeopleAssumption DEF Never, NoRow, RowValue
<1>2. QED
  BY <1>1 DEF Return, TypeOK

LEMMA FailType ==
  ASSUME TypeOK, NEW c \in Call, Fail(c)
  PROVE  TypeOK'
<1>1. asked' \in [Person -> SUBSET Anything]
  BY DEF Fail, TypeOK, Anything
<1>2. QED
  BY <1>1, ReturnType DEF Fail, TypeOK, tables, Anything

LEMMA TypeNext == TypeOK /\ [Next]_vars => TypeOK'
<1>. SUFFICES ASSUME TypeOK, [Next]_vars PROVE TypeOK'
  OBVIOUS
<1>1. ASSUME NEW c \in Call,
             \/ InsertMisses(c) \/ NoSuchPerson(c) \/ RefuseLastAdmin(c)
             \/ GrantTooLate(c) \/ Abandon(c)
      PROVE  TypeOK'
  BY <1>1, FailType DEF InsertMisses, NoSuchPerson, RefuseLastAdmin, GrantTooLate, Abandon
<1>2. ASSUME NEW c \in Call, Insert(c) PROVE TypeOK'
  <2>1. known' \subseteq Person
    BY <1>2 DEF Insert, TypeOK
  <2>2. QED
    BY <1>2, <2>1, ReturnType DEF Insert, TypeOK
<1>3. ASSUME NEW c \in Call, Answer(c) PROVE TypeOK'
  BY <1>3, ReturnType DEF Answer, TypeOK, tables
<1>4. ASSUME NEW c \in Call, ReadPerson(c) PROVE TypeOK'
  BY <1>4 DEF ReadPerson, TypeOK, tables, RolesOf, RolesAt
<1>5. ASSUME NEW c \in Call, NEW p \in Person, CheckMail(c, p) PROVE TypeOK'
  BY <1>5, PeopleAssumption DEF CheckMail, TypeOK, tables, Anything
<1>6. ASSUME NEW c \in Call, NEW p \in Person, NEW W \in SUBSET Role,
             NEW e \in Expiry \cup {Never}, Ask(c, p, W, e)
      PROVE  TypeOK'
  <2>1. e \in RowValue \ {NoRow}
    BY PeopleAssumption DEF RowValue, Never, NoRow
  <2>2. <<c, W>> \in Anything
    BY DEF Anything
  <2>3. asked' \in [Person -> SUBSET Anything]
    BY <1>6, <2>2 DEF Ask, TypeOK
  <2>4. QED
    BY <1>6, <2>1, <2>3, PeopleAssumption DEF Ask, TypeOK, tables
<1>7. ASSUME NEW c \in Call, NEW r \in Role, RevokeRole(c, r) PROVE TypeOK'
  BY <1>7 DEF RevokeRole, TypeOK, RowValue
<1>8. ASSUME NEW c \in Call, NEW r \in Role, GrantRole(c, r) PROVE TypeOK'
  <2>1. asked' \in [Person -> SUBSET Anything]
    BY <1>8 DEF GrantRole, TypeOK
  <2>2. QED
    BY <1>8, <2>1 DEF GrantRole, TypeOK, Anything
<1>9. ASSUME NEW p \in Person, NEW b \in BOOLEAN, SetActive(p, b) PROVE TypeOK'
  BY <1>9 DEF SetActive, TypeOK, call
<1>10. CASE Restart
  <2>1. known' \subseteq Person /\ active' \in [Person -> BOOLEAN]
    BY <1>10, PeopleAssumption DEF Restart, TypeOK
  <2>2. until' \in [Person -> [Role -> RowValue]]
    BY <1>10 DEF Restart, TypeOK, RowValue
  <2>3. asked' \in [Person -> SUBSET Anything]
    BY <1>10 DEF Restart, TypeOK, Anything
  <2>4. QED
    BY <1>10, <2>1, <2>2, <2>3 DEF Restart, TypeOK, call, Anything
<1>11. CASE Tick
  <2>1. clock' \in Time
    BY <1>11, PeopleAssumption DEF Tick, TypeOK, Time
  <2>2. asked' \in [Person -> SUBSET Anything]
    BY <1>11 DEF Tick, TypeOK
  <2>3. QED
    BY <1>11, <2>1, <2>2 DEF Tick, TypeOK, tables, call, Anything
<1>12. CASE UNCHANGED vars
  BY <1>12 DEF vars, TypeOK, Anything
<1>13. QED
  BY <1>1, <1>2, <1>3, <1>4, <1>5, <1>6, <1>7, <1>8, <1>9, <1>10, <1>11, <1>12,
     PeopleAssumption DEF Next

\* Every reachable state is well typed; a call has a subject while it runs.
THEOREM TypeCorrect == Spec => []TypeOK
  BY TypeInit, TypeNext, PTL DEF Spec

-----------------------------------------------------------------------------
(* The inductive invariant. Every call under way is remembered in asked, so *)
(* that Alone excludes the others; what a person holds and what the loops   *)
(* still have to do are related, for a call that is alone and for the roles *)
(* on which all calls agree.                                                *)

Remembered ==
  /\ \A c \in Call : stage[c] # "idle" => <<c, wanted[c]>> \in asked[subject[c]]
  /\ \A c \in Call : stage[c] = "insert" => asked[subject[c]] = Anything

LoopsApart ==
  \A c \in Call : stage[c] = "write" =>
    /\ toRevoke[c] \cap wanted[c] = {}
    /\ toGrant[c] \subseteq wanted[c]

AllWant(p, r) == \A a \in asked[p] : r \in a[2]
NoneWants(p, r) == \A a \in asked[p] : r \notin a[2]

StillHeld ==
  \A c \in Call, r \in Role :
    stage[c] = "write" /\ AllWant(subject[c], r) =>
      /\ r \notin toRevoke[c]
      /\ r \in RolesOf(subject[c]) \cup toGrant[c]

StillGone ==
  \A c \in Call, r \in Role :
    stage[c] = "write" /\ NoneWants(subject[c], r) =>
      /\ r \notin toGrant[c]
      /\ r \notin RolesOf(subject[c]) \ toRevoke[c]

Inv == TypeOK /\ Remembered /\ LoopsApart /\ ExactWhenAlone
       /\ StillHeld /\ StillGone /\ Agreement

-----------------------------------------------------------------------------
(* Lemmas about the helpers. *)

\* The spoilt history agrees on nothing, and says of no call that it is alone.
LEMMA AnythingAgreesOnNothing ==
  /\ \A r \in Role : \E a, b \in Anything : r \in a[2] /\ r \notin b[2]
  /\ \A c, W : Anything # {<<c, W>>}
<1>. PICK d \in Call : TRUE
  BY PeopleAssumption
<1>1. ASSUME NEW r \in Role PROVE <<d, {r}>> \in Anything /\ <<d, {}>> \in Anything
  BY DEF Anything
<1>2. "ADMIN" \in Role
  BY PeopleAssumption
<1>3. {"ADMIN"} # {}
  OBVIOUS
<1>4. <<d, {"ADMIN"}>> # <<d, {}>>
  BY <1>3
<1>5. \A r \in Role : \E a, b \in Anything : r \in a[2] /\ r \notin b[2]
  <2>. TAKE r \in Role
  <2>1. <<d, {r}>> \in Anything /\ <<d, {}>> \in Anything
    BY <1>1
  <2>2. r \in <<d, {r}>>[2] /\ r \notin <<d, {}>>[2]
    OBVIOUS
  <2>3. QED
    BY <2>1, <2>2
<1>6. \A c, W : Anything # {<<c, W>>}
  BY <1>1, <1>2, <1>4
<1>7. QED
  BY <1>5, <1>6

\* Roles in force change only with the table and the clock.
LEMMA RolesStay ==
  ASSUME NEW p \in Person, until'[p] = until[p], clock' = clock
  PROVE  RolesOf(p)' = RolesOf(p)
  BY DEF RolesOf, RolesAt

LEMMA RevokeRoles ==
  ASSUME TypeOK, NEW c \in Call, NEW r \in Role, RevokeRole(c, r)
  PROVE  /\ subject[c] \in Person /\ r \in toRevoke[c]
         /\ RolesOf(subject[c])' = RolesOf(subject[c]) \ {r}
         /\ \A p \in Person : p # subject[c] => RolesOf(p)' = RolesOf(p)
<1>1. subject[c] \in Person /\ r \in toRevoke[c]
  BY DEF RevokeRole, TypeOK, First
<1>2. until'[subject[c]] = [until[subject[c]] EXCEPT ![r] = NoRow]
  BY <1>1 DEF RevokeRole, TypeOK
<1>3. \A p \in Person : p # subject[c] => until'[p] = until[p]
  BY <1>1 DEF RevokeRole, TypeOK
<1>4. clock' = clock /\ clock \in Nat /\ subject' = subject
  BY PeopleAssumption DEF RevokeRole, TypeOK, Time
<1>5. RolesOf(subject[c])' = RolesOf(subject[c]) \ {r}
  <2>1. until[subject[c]] \in [Role -> RowValue]
    BY <1>1 DEF TypeOK
  <2>2. ~(NoRow > clock)
    BY <1>4 DEF NoRow
  <2>3. \A q \in Role : until'[subject[c]][q] = IF q = r THEN NoRow ELSE until[subject[c]][q]
    BY <1>2, <2>1
  <2>4. QED
    BY <1>4, <2>2, <2>3 DEF RolesOf, RolesAt
<1>6. QED
  BY <1>1, <1>3, <1>4, <1>5, RolesStay

LEMMA GrantRoles ==
  ASSUME TypeOK, NEW c \in Call, NEW r \in Role, GrantRole(c, r)
  PROVE  /\ subject[c] \in Person /\ r \in toGrant[c]
         /\ expires[c] > clock =>
              /\ RolesOf(subject[c])' = RolesOf(subject[c]) \cup {r}
              /\ asked' = asked
         /\ ~(expires[c] > clock) => asked'[subject[c]] = Anything
         /\ \A p \in Person : p # subject[c] =>
              RolesOf(p)' = RolesOf(p) /\ asked'[p] = asked[p]
<1>1. subject[c] \in Person /\ r \in toGrant[c]
  BY DEF GrantRole, TypeOK, First
<1>2. until'[subject[c]] = [until[subject[c]] EXCEPT ![r] = expires[c]]
  BY <1>1 DEF GrantRole, TypeOK
<1>3. \A p \in Person : p # subject[c] => until'[p] = until[p] /\ asked'[p] = asked[p]
  BY <1>1 DEF GrantRole, TypeOK
<1>4. clock' = clock /\ subject' = subject
  BY DEF GrantRole
<1>5. ASSUME expires[c] > clock
      PROVE  RolesOf(subject[c])' = RolesOf(subject[c]) \cup {r} /\ asked' = asked
  <2>1. until[subject[c]] \in [Role -> RowValue]
    BY <1>1 DEF TypeOK
  <2>2. \A q \in Role : until'[subject[c]][q] = IF q = r THEN expires[c] ELSE until[subject[c]][q]
    BY <1>2, <2>1
  <2>3. RolesOf(subject[c])' = RolesOf(subject[c]) \cup {r}
    BY <1>4, <1>5, <2>2 DEF RolesOf, RolesAt
  <2>4. QED
    BY <1>5, <2>3 DEF GrantRole
<1>6. ~(expires[c] > clock) => asked'[subject[c]] = Anything
  BY <1>1 DEF GrantRole, TypeOK
<1>7. QED
  BY <1>1, <1>3, <1>4, <1>5, <1>6, RolesStay

-----------------------------------------------------------------------------
(* Steps that write no table and let no time pass. *)

LEMMA FailKeeps ==
  ASSUME Inv, NEW c \in Call, stage[c] # "idle", Fail(c)
  PROVE  Inv'
<1>1. TypeOK'
  BY FailType DEF Inv
<1>2. /\ subject[c] \in Person
      /\ asked'[subject[c]] = Anything
      /\ \A p \in Person : p # subject[c] => asked'[p] = asked[p]
      /\ stage'[c] = "idle" /\ subject'[c] = NoPerson
      /\ \A d \in Call : d # c =>
           /\ stage'[d] = stage[d] /\ subject'[d] = subject[d]
           /\ wanted'[d] = wanted[d]
           /\ toRevoke'[d] = toRevoke[d] /\ toGrant'[d] = toGrant[d]
      /\ \A d \in Call : stage[d] # "idle" => subject[d] \in Person
  BY DEF Fail, Return, Inv, TypeOK
<1>3. \A p \in Person : RolesOf(p)' = RolesOf(p)
  BY RolesStay DEF Fail, tables
<1>4. Anything' = Anything
  BY DEF Anything
<1>5. Remembered'
  BY <1>2, <1>4 DEF Remembered, Inv, TypeOK, Anything
<1>6. LoopsApart'
  BY <1>2 DEF LoopsApart, Inv
<1>7. ExactWhenAlone'
  BY <1>2, <1>3, AnythingAgreesOnNothing DEF ExactWhenAlone, Alone, Inv
<1>8. StillHeld'
  BY <1>2, <1>3, AnythingAgreesOnNothing DEF StillHeld, AllWant, Inv
<1>9. StillGone'
  BY <1>2, <1>3, AnythingAgreesOnNothing DEF StillGone, NoneWants, Inv
<1>10. Agreement'
  <2>. SUFFICES ASSUME NEW p \in Person, Quiet(p)', NEW r \in Role
                PROVE  /\ AllWant(p, r)' => r \in RolesOf(p)'
                       /\ NoneWants(p, r)' => r \notin RolesOf(p)'
    BY DEF Agreement, AllWant, NoneWants
  <2>1. CASE p = subject[c]
    BY <1>2, <2>1, AnythingAgreesOnNothing DEF AllWant, NoneWants
  <2>2. CASE p # subject[c]
    BY <1>2, <1>3, <2>2 DEF Agreement, Quiet, AllWant, NoneWants, Inv
  <2>3. QED
    BY <2>1, <2>2
<1>11. QED
  BY <1>1, <1>5, <1>6, <1>7, <1>8, <1>9, <1>10 DEF Inv

\* Insert and Answer end a call and leave its history as it is.
LEMMA ReturnKeeps ==
  ASSUME Inv, NEW c \in Call, Insert(c) \/ Answer(c)
  PROVE  Inv'
<1>1. TypeOK'
  BY TypeNext DEF Inv, Next
<1>2. /\ subject[c] \in Person /\ subject'[c] = NoPerson /\ stage'[c] = "idle"
      /\ asked' = asked
      /\ \A d \in Call : d # c =>
           /\ stage'[d] = stage[d] /\ subject'[d] = subject[d]
           /\ wanted'[d] = wanted[d]
           /\ toRevoke'[d] = toRevoke[d] /\ toGrant'[d] = toGrant[d]
      /\ \A d \in Call : stage[d] # "idle" => subject[d] \in Person
  BY DEF Insert, Answer, Return, Inv, TypeOK
<1>3. \A p \in Person : RolesOf(p)' = RolesOf(p)
  BY RolesStay DEF Insert, Answer, tables
<1>4. Remembered' /\ LoopsApart'
  BY <1>2 DEF Remembered, LoopsApart, Anything, Inv
<1>5. ExactWhenAlone'
  BY <1>2, <1>3 DEF ExactWhenAlone, Alone, Inv
<1>6. StillHeld' /\ StillGone'
  BY <1>2, <1>3 DEF StillHeld, StillGone, AllWant, NoneWants, Inv
<1>7. Agreement'
  <2>. SUFFICES ASSUME NEW p \in Person, Quiet(p)', NEW r \in Role
                PROVE  /\ AllWant(p, r) => r \in RolesOf(p)
                       /\ NoneWants(p, r) => r \notin RolesOf(p)
    BY <1>2, <1>3 DEF Agreement, AllWant, NoneWants
  <2>1. CASE p # subject[c]
    BY <1>2, <2>1 DEF Agreement, Quiet, AllWant, NoneWants, Inv
  <2>2. CASE p = subject[c] /\ Answer(c)
    BY <2>2 DEF Answer, StillHeld, StillGone, Inv
  <2>3. CASE p = subject[c] /\ Insert(c)
    BY <2>3, AnythingAgreesOnNothing DEF Insert, Remembered, AllWant, NoneWants, Inv
  <2>4. QED
    BY <2>1, <2>2, <2>3
<1>8. QED
  BY <1>1, <1>4, <1>5, <1>6, <1>7 DEF Inv

LEMMA CheckMailKeeps ==
  ASSUME Inv, NEW c \in Call, NEW p \in Edited, CheckMail(c, p)
  PROVE  Inv'
<1>1. TypeOK'
  BY TypeNext DEF Inv, Next
<1>2. /\ p \in Person /\ stage'[c] = "insert" /\ subject'[c] = p
      /\ asked'[p] = Anything
      /\ \A q \in Person : q # p => asked'[q] = asked[q]
      /\ wanted' = wanted /\ toRevoke' = toRevoke /\ toGrant' = toGrant
      /\ \A d \in Call : d # c => stage'[d] = stage[d] /\ subject'[d] = subject[d]
      /\ \A d \in Call : stage[d] # "idle" => subject[d] \in Person
      /\ subject[c] = NoPerson /\ wanted \in [Call -> SUBSET Role]
  BY PeopleAssumption DEF CheckMail, Inv, TypeOK
<1>3. \A q \in Person : RolesOf(q)' = RolesOf(q)
  BY RolesStay DEF CheckMail, tables
<1>4. Anything' = Anything /\ \A d \in Call : <<d, wanted[d]>> \in Anything
  BY <1>2 DEF Anything
<1>5. Remembered' /\ LoopsApart'
  BY <1>2, <1>4 DEF Remembered, LoopsApart, Inv
<1>6. ExactWhenAlone'
  <2>. SUFFICES ASSUME NEW d \in Call, stage'[d] = "write", Alone(d)'
                PROVE  RolesOf(subject[d]) = (wanted[d] \ toGrant[d]) \cup toRevoke[d]
    BY <1>2, <1>3 DEF ExactWhenAlone
  <2>1. /\ stage[d] = "write" /\ subject[d] \in Person /\ subject'[d] = subject[d]
        /\ asked'[subject[d]] = {<<d, wanted[d]>>}
    BY <1>2 DEF Alone
  <2>2. subject[d] # p
    BY <1>2, <2>1, AnythingAgreesOnNothing
  <2>3. QED
    BY <1>2, <2>1, <2>2 DEF ExactWhenAlone, Alone, Inv
<1>7. StillHeld' /\ StillGone'
  BY <1>2, <1>3, AnythingAgreesOnNothing
     DEF StillHeld, StillGone, AllWant, NoneWants, Inv
<1>8. Agreement'
  BY <1>2, <1>3, PeopleAssumption DEF Agreement, Quiet, Inv
<1>9. QED
  BY <1>1, <1>5, <1>6, <1>7, <1>8 DEF Inv

LEMMA AskKeeps ==
  ASSUME Inv, NEW c \in Call, NEW p \in Edited, NEW W \in SUBSET Role,
         NEW e \in Expiry \cup {Never}, Ask(c, p, W, e)
  PROVE  Inv'
<1>1. TypeOK'
  BY TypeNext DEF Inv, Next
<1>2. /\ p \in Person /\ stage[c] = "idle" /\ stage'[c] = "read" /\ subject'[c] = p
      /\ wanted'[c] = W
      /\ asked'[p] = (IF Quiet(p) THEN {} ELSE asked[p]) \cup {<<c, W>>}
      /\ \A q \in Person : q # p => asked'[q] = asked[q]
      /\ toRevoke' = toRevoke /\ toGrant' = toGrant
      /\ \A d \in Call : d # c =>
           stage'[d] = stage[d] /\ subject'[d] = subject[d] /\ wanted'[d] = wanted[d]
      /\ \A d \in Call : stage[d] # "idle" => subject[d] \in Person
      /\ subject[c] = NoPerson
  BY PeopleAssumption DEF Ask, Inv, TypeOK
<1>3. \A q \in Person : RolesOf(q)' = RolesOf(q)
  BY RolesStay DEF Ask, tables
<1>4. \A d \in Call : d # c /\ stage[d] # "idle" =>
        asked[subject[d]] \subseteq asked'[subject[d]]
  BY <1>2 DEF Quiet
<1>5. Remembered'
  <2>1. Anything' = Anything /\ <<c, W>> \in Anything
    BY DEF Anything
  <2>2. \A q \in Person : asked'[q] \subseteq Anything
    BY <1>1, <2>1 DEF TypeOK
  <2>3. <<c, wanted'[c]>> \in asked'[subject'[c]] /\ stage'[c] # "insert"
    BY <1>2
  <2>4. ASSUME NEW d \in Call, d # c, stage'[d] # "idle"
        PROVE  /\ <<d, wanted'[d]>> \in asked'[subject'[d]]
               /\ stage'[d] = "insert" => asked'[subject'[d]] = Anything
    <3>1. /\ stage[d] # "idle" /\ subject[d] \in Person
          /\ asked[subject[d]] \subseteq asked'[subject[d]]
      BY <1>2, <1>4, <2>4
    <3>2. /\ <<d, wanted[d]>> \in asked[subject[d]]
          /\ stage[d] = "insert" => asked[subject[d]] = Anything
      BY <3>1 DEF Remembered, Inv
    <3>3. stage'[d] = stage[d] /\ subject'[d] = subject[d] /\ wanted'[d] = wanted[d]
      BY <1>2, <2>4
    <3>4. QED
      BY <2>2, <3>1, <3>2, <3>3
  <2>5. QED
    BY <2>1, <2>3, <2>4 DEF Remembered
<1>6. LoopsApart'
  BY <1>2 DEF LoopsApart, Inv
<1>7. ExactWhenAlone'
  <2>. SUFFICES ASSUME NEW d \in Call, stage'[d] = "write", Alone(d)'
                PROVE  RolesOf(subject[d]) = (wanted[d] \ toGrant[d]) \cup toRevoke[d]
    BY <1>2, <1>3 DEF ExactWhenAlone
  <2>1. d # c /\ stage[d] = "write" /\ subject[d] \in Person
    BY <1>2
  <2>2. subject[d] # p
    <3>1. <<c, W>> \in asked'[p] /\ <<c, W>> # <<d, wanted'[d]>>
      BY <1>2, <2>1
    <3>2. asked'[subject[d]] = {<<d, wanted'[d]>>}
      BY <1>2, <2>1 DEF Alone
    <3>3. QED
      BY <3>1, <3>2
  <2>3. Alone(d)
    BY <1>2, <2>1, <2>2 DEF Alone
  <2>4. QED
    BY <2>1, <2>3 DEF ExactWhenAlone, Inv
<1>8. StillHeld' /\ StillGone'
  BY <1>2, <1>3, <1>4 DEF StillHeld, StillGone, AllWant, NoneWants, Inv
<1>9. Agreement'
  BY <1>2, <1>3, PeopleAssumption DEF Agreement, Quiet, Inv
<1>10. QED
  BY <1>1, <1>5, <1>6, <1>7, <1>8, <1>9 DEF Inv

-----------------------------------------------------------------------------
(* SetRoles reads, revokes, grants. *)

LEMMA ReadPersonKeeps ==
  ASSUME Inv, NEW c \in Call, ReadPerson(c)
  PROVE  Inv'
<1>1. TypeOK'
  BY TypeNext DEF Inv, Next
<1>2. /\ subject[c] \in Person /\ stage[c] = "read"
      /\ subject' = subject /\ wanted' = wanted /\ asked' = asked
      /\ stage'[c] = "write"
      /\ toRevoke'[c] = RolesOf(subject[c]) \ wanted[c]
      /\ toGrant'[c] = wanted[c] \ RolesOf(subject[c])
      /\ \A d \in Call : d # c =>
           stage'[d] = stage[d] /\ toRevoke'[d] = toRevoke[d] /\ toGrant'[d] = toGrant[d]
      /\ \A d \in Call : stage[d] # "idle" => subject[d] \in Person
  BY DEF ReadPerson, Inv, TypeOK
<1>3. \A q \in Person : RolesOf(q)' = RolesOf(q)
  BY RolesStay DEF ReadPerson, tables
<1>4. Remembered' /\ LoopsApart'
  BY <1>2 DEF Remembered, LoopsApart, Anything, Inv
<1>5. ExactWhenAlone'
  BY <1>2, <1>3 DEF ExactWhenAlone, Alone, Inv
<1>6. StillHeld' /\ StillGone'
  <2>1. <<c, wanted[c]>> \in asked[subject[c]]
    BY <1>2 DEF Remembered, Inv
  <2>2. \A r \in Role : (AllWant(subject[c], r) => r \in wanted[c])
                        /\ (NoneWants(subject[c], r) => r \notin wanted[c])
    BY <2>1 DEF AllWant, NoneWants
  <2>3. QED
    BY <1>2, <1>3, <2>2 DEF StillHeld, StillGone, AllWant, NoneWants, Inv
<1>7. Agreement'
  BY <1>2, <1>3 DEF Agreement, Quiet, Inv
<1>8. QED
  BY <1>1, <1>4, <1>5, <1>6, <1>7 DEF Inv

\* A call that writes and one that is alone with the same person are the same.
LEMMA AloneIsAlone ==
  ASSUME Inv, NEW c \in Call, NEW d \in Call, stage[c] # "idle", Alone(d),
         subject[c] = subject[d]
  PROVE  c = d
<1>1. <<c, wanted[c]>> \in {<<d, wanted[d]>>}
  BY DEF Inv, Remembered, Alone
<1>2. QED
  BY <1>1

LEMMA RevokeRoleKeeps ==
  ASSUME Inv, NEW c \in Call, NEW r \in Role, RevokeRole(c, r)
  PROVE  Inv'
<1>1. TypeOK'
  BY TypeNext DEF Inv, Next
<1>2. /\ stage[c] = "write" /\ r \in toRevoke[c] /\ subject[c] \in Person
      /\ stage' = stage /\ subject' = subject /\ wanted' = wanted /\ asked' = asked
      /\ toGrant' = toGrant
      /\ toRevoke'[c] = toRevoke[c] \ {r}
      /\ \A d \in Call : d # c => toRevoke'[d] = toRevoke[d]
      /\ \A d \in Call : stage[d] # "idle" => subject[d] \in Person
      /\ RolesOf(subject[c])' = RolesOf(subject[c]) \ {r}
      /\ \A p \in Person : p # subject[c] => RolesOf(p)' = RolesOf(p)
  BY RevokeRoles DEF RevokeRole, Inv, TypeOK
<1>3. r \notin wanted[c] /\ r \notin toGrant[c] /\ ~AllWant(subject[c], r)
  BY <1>2 DEF LoopsApart, StillHeld, Inv
<1>4. Remembered' /\ LoopsApart'
  BY <1>2 DEF Remembered, LoopsApart, Anything, Inv
<1>5. ExactWhenAlone'
  <2>. SUFFICES ASSUME NEW d \in Call, stage[d] = "write", Alone(d)
                PROVE  RolesOf(subject[d])' = (wanted[d] \ toGrant[d]) \cup toRevoke'[d]
    BY <1>2 DEF ExactWhenAlone, Alone
  <2>1. RolesOf(subject[d]) = (wanted[d] \ toGrant[d]) \cup toRevoke[d]
    BY DEF ExactWhenAlone, Inv
  <2>2. CASE d = c
    BY <1>2, <1>3, <2>1, <2>2
  <2>3. CASE d # c
    BY <1>2, <2>1, <2>3, AloneIsAlone
  <2>4. QED
    BY <2>2, <2>3
<1>6. StillHeld'
  <2>. SUFFICES ASSUME NEW d \in Call, NEW q \in Role, stage[d] = "write",
                       AllWant(subject[d], q)
                PROVE  /\ q \notin toRevoke'[d]
                       /\ q \in RolesOf(subject[d])' \cup toGrant[d]
    BY <1>2 DEF StillHeld, AllWant
  <2>1. q \notin toRevoke[d] /\ q \in RolesOf(subject[d]) \cup toGrant[d]
    BY DEF StillHeld, Inv
  <2>2. QED
    BY <1>2, <1>3, <2>1
<1>7. StillGone'
  <2>. SUFFICES ASSUME NEW d \in Call, NEW q \in Role, stage[d] = "write",
                       NoneWants(subject[d], q)
                PROVE  /\ q \notin toGrant[d]
                       /\ q \notin RolesOf(subject[d])' \ toRevoke'[d]
    BY <1>2 DEF StillGone, NoneWants
  <2>1. q \notin toGrant[d] /\ q \notin RolesOf(subject[d]) \ toRevoke[d]
    BY DEF StillGone, Inv
  <2>2. QED
    BY <1>2, <2>1
<1>8. Agreement'
  BY <1>2 DEF Agreement, Quiet, Inv
<1>9. QED
  BY <1>1, <1>4, <1>5, <1>6, <1>7, <1>8 DEF Inv

LEMMA GrantInTimeKeeps ==
  ASSUME Inv, NEW c \in Call, NEW r \in Role, GrantRole(c, r), expires[c] > clock
  PROVE  Inv'
<1>1. TypeOK'
  BY TypeNext DEF Inv, Next
<1>2. /\ stage[c] = "write" /\ r \in toGrant[c] /\ subject[c] \in Person
      /\ stage' = stage /\ subject' = subject /\ wanted' = wanted /\ asked' = asked
      /\ toRevoke' = toRevoke /\ toRevoke[c] = {}
      /\ toGrant'[c] = toGrant[c] \ {r}
      /\ \A d \in Call : d # c => toGrant'[d] = toGrant[d]
      /\ \A d \in Call : stage[d] # "idle" => subject[d] \in Person
      /\ RolesOf(subject[c])' = RolesOf(subject[c]) \cup {r}
      /\ \A p \in Person : p # subject[c] => RolesOf(p)' = RolesOf(p)
  BY GrantRoles DEF GrantRole, Inv, TypeOK
<1>3. r \in wanted[c] /\ ~NoneWants(subject[c], r)
  BY <1>2 DEF LoopsApart, StillGone, Inv
<1>4. Remembered' /\ LoopsApart'
  BY <1>2 DEF Remembered, LoopsApart, Anything, Inv
<1>5. ExactWhenAlone'
  <2>. SUFFICES ASSUME NEW d \in Call, stage[d] = "write", Alone(d)
                PROVE  RolesOf(subject[d])' = (wanted[d] \ toGrant'[d]) \cup toRevoke[d]
    BY <1>2 DEF ExactWhenAlone, Alone
  <2>1. RolesOf(subject[d]) = (wanted[d] \ toGrant[d]) \cup toRevoke[d]
    BY DEF ExactWhenAlone, Inv
  <2>2. CASE d = c
    BY <1>2, <1>3, <2>1, <2>2
  <2>3. CASE d # c
    BY <1>2, <2>1, <2>3, AloneIsAlone
  <2>4. QED
    BY <2>2, <2>3
<1>6. StillHeld'
  <2>. SUFFICES ASSUME NEW d \in Call, NEW q \in Role, stage[d] = "write",
                       AllWant(subject[d], q)
                PROVE  /\ q \notin toRevoke[d]
                       /\ q \in RolesOf(subject[d])' \cup toGrant'[d]
    BY <1>2 DEF StillHeld, AllWant
  <2>1. q \notin toRevoke[d] /\ q \in RolesOf(subject[d]) \cup toGrant[d]
    BY DEF StillHeld, Inv
  <2>2. QED
    BY <1>2, <2>1
<1>7. StillGone'
  <2>. SUFFICES ASSUME NEW d \in Call, NEW q \in Role, stage[d] = "write",
                       NoneWants(subject[d], q)
                PROVE  /\ q \notin toGrant'[d]
                       /\ q \notin RolesOf(subject[d])' \ toRevoke[d]
    BY <1>2 DEF StillGone, NoneWants
  <2>1. q \notin toGrant[d] /\ q \notin RolesOf(subject[d]) \ toRevoke[d]
    BY DEF StillGone, Inv
  <2>2. QED
    BY <1>2, <1>3, <2>1
<1>8. Agreement'
  BY <1>2 DEF Agreement, Quiet, Inv
<1>9. QED
  BY <1>1, <1>4, <1>5, <1>6, <1>7, <1>8 DEF Inv

\* A grant that was written too late spoils what is remembered of its subject,
\* and nothing else.
LEMMA GrantLateKeeps ==
  ASSUME Inv, NEW c \in Call, NEW r \in Role, GrantRole(c, r), ~(expires[c] > clock)
  PROVE  Inv'
<1>1. TypeOK'
  BY TypeNext DEF Inv, Next
<1>2. /\ stage[c] = "write" /\ subject[c] \in Person
      /\ stage' = stage /\ subject' = subject /\ wanted' = wanted
      /\ toRevoke' = toRevoke
      /\ toGrant'[c] \subseteq toGrant[c]
      /\ \A d \in Call : d # c => toGrant'[d] = toGrant[d]
      /\ \A d \in Call : stage[d] # "idle" => subject[d] \in Person
      /\ asked'[subject[c]] = Anything
      /\ \A p \in Person : p # subject[c] =>
           RolesOf(p)' = RolesOf(p) /\ asked'[p] = asked[p]
  <2>1. TypeOK /\ toGrant \in [Call -> SUBSET Role]
    BY DEF Inv, TypeOK
  <2>2. /\ stage[c] = "write"
        /\ stage' = stage /\ subject' = subject /\ wanted' = wanted
        /\ toRevoke' = toRevoke
        /\ toGrant' = [toGrant EXCEPT ![c] = @ \ {r}]
    BY DEF GrantRole
  <2>3. \A d \in Call : stage[d] # "idle" => subject[d] \in Person
    BY DEF Inv, TypeOK
  <2>4. QED
    BY <2>1, <2>2, <2>3, GrantRoles
<1>3. Anything' = Anything /\ \A d \in Call : <<d, wanted[d]>> \in Anything
  BY DEF Anything, Inv, TypeOK
<1>4. Remembered' /\ LoopsApart'
  BY <1>2, <1>3 DEF Remembered, LoopsApart, Inv
<1>5. ASSUME NEW d \in Call, stage[d] = "write", subject[d] # subject[c]
      PROVE  /\ RolesOf(subject[d])' = RolesOf(subject[d])
             /\ asked'[subject[d]] = asked[subject[d]] /\ toGrant'[d] = toGrant[d]
  BY <1>2, <1>5
<1>6. ExactWhenAlone'
  <2>. SUFFICES ASSUME NEW d \in Call, stage[d] = "write", Alone(d)'
                PROVE  RolesOf(subject[d])' = (wanted[d] \ toGrant'[d]) \cup toRevoke[d]
    BY <1>2 DEF ExactWhenAlone
  <2>1. asked'[subject[d]] = {<<d, wanted[d]>>}
    BY <1>2 DEF Alone
  <2>2. subject[d] # subject[c]
    BY <1>2, <2>1, AnythingAgreesOnNothing
  <2>3. QED
    BY <1>5, <2>1, <2>2 DEF ExactWhenAlone, Alone, Inv
<1>7. StillHeld' /\ StillGone'
  BY <1>2, <1>5, AnythingAgreesOnNothing DEF StillHeld, StillGone, AllWant, NoneWants, Inv
<1>8. Agreement'
  BY <1>2 DEF Agreement, Quiet, Inv
<1>9. QED
  BY <1>1, <1>4, <1>6, <1>7, <1>8 DEF Inv

LEMMA GrantRoleKeeps ==
  ASSUME Inv, NEW c \in Call, NEW r \in Role, GrantRole(c, r)
  PROVE  Inv'
  BY GrantInTimeKeeps, GrantLateKeeps

-----------------------------------------------------------------------------
(* Steps of others: activation, a restart, the passing of time. *)

LEMMA RestartKeeps == ASSUME Inv, Restart PROVE Inv'
<1>1. TypeOK'
  BY TypeNext DEF Inv, Next
<1>2. /\ \A c \in Call : stage'[c] = "idle"
      /\ call' = call
      /\ \A p \in Person : asked'[p] = (IF p \in Protected THEN Anything ELSE asked[p])
      /\ \A p \in Person \ Protected : RolesOf(p)' = RolesOf(p)
  <2>1. \A p \in Person \ Protected : until'[p] = until[p]
    BY DEF Restart, Inv, TypeOK
  <2>2. QED
    BY <2>1, RolesStay DEF Restart, call
<1>3. /\ Remembered' /\ LoopsApart' /\ ExactWhenAlone' /\ StillHeld' /\ StillGone'
  BY <1>2 DEF Remembered, LoopsApart, ExactWhenAlone, StillHeld, StillGone
<1>4. Agreement'
  <2>. SUFFICES ASSUME NEW p \in Person, Quiet(p)', NEW r \in Role
                PROVE  /\ AllWant(p, r)' => r \in RolesOf(p)'
                       /\ NoneWants(p, r)' => r \notin RolesOf(p)'
    BY DEF Agreement, AllWant, NoneWants
  <2>1. CASE p \in Protected
    BY <1>2, <2>1, AnythingAgreesOnNothing DEF AllWant, NoneWants
  <2>2. CASE p \notin Protected
    BY <1>2, <2>2 DEF Agreement, Quiet, AllWant, NoneWants, call, Inv
  <2>3. QED
    BY <2>1, <2>2
<1>5. QED
  BY <1>1, <1>3, <1>4 DEF Inv

LEMMA TickKeeps == ASSUME Inv, Tick PROVE Inv'
<1>1. TypeOK'
  BY TypeNext DEF Inv, Next
<1>2. /\ stage' = stage /\ subject' = subject /\ wanted' = wanted
      /\ toRevoke' = toRevoke /\ toGrant' = toGrant
      /\ \A d \in Call : stage[d] # "idle" => subject[d] \in Person
      /\ \A p \in Person :
           \/ asked'[p] = Anything
           \/ asked'[p] = asked[p] /\ RolesOf(p)' = RolesOf(p)
  <2>1. \A p \in Person : RolesAt(p, clock + 1) = RolesOf(p)'
    BY DEF Tick, tables, RolesOf, RolesAt
  <2>2. QED
    BY <2>1 DEF Tick, call, RolesOf, Inv, TypeOK
<1>3. Anything' = Anything /\ \A d \in Call : <<d, wanted[d]>> \in Anything
  BY DEF Anything, Inv, TypeOK
<1>4. Remembered' /\ LoopsApart'
  BY <1>2, <1>3 DEF Remembered, LoopsApart, Inv
<1>5. ExactWhenAlone'
  <2>. SUFFICES ASSUME NEW d \in Call, stage[d] = "write", Alone(d)'
                PROVE  RolesOf(subject[d])' = (wanted[d] \ toGrant[d]) \cup toRevoke[d]
    BY <1>2 DEF ExactWhenAlone
  <2>1. subject[d] \in Person /\ asked'[subject[d]] = {<<d, wanted[d]>>}
    BY <1>2 DEF Alone
  <2>2. asked'[subject[d]] # Anything
    BY <2>1, AnythingAgreesOnNothing
  <2>3. asked[subject[d]] = asked'[subject[d]] /\ RolesOf(subject[d])' = RolesOf(subject[d])
    BY <1>2, <2>1, <2>2
  <2>4. Alone(d)
    BY <2>1, <2>3 DEF Alone
  <2>5. QED
    BY <2>3, <2>4 DEF ExactWhenAlone, Inv
<1>6. StillHeld' /\ StillGone'
  BY <1>2, AnythingAgreesOnNothing DEF StillHeld, StillGone, AllWant, NoneWants, Inv
<1>7. Agreement'
  <2>. SUFFICES ASSUME NEW p \in Person, Quiet(p)', NEW r \in Role
                PROVE  /\ AllWant(p, r)' => r \in RolesOf(p)'
                       /\ NoneWants(p, r)' => r \notin RolesOf(p)'
    BY DEF Agreement, AllWant, NoneWants
  <2>1. CASE asked'[p] = Anything
    BY <2>1, AnythingAgreesOnNothing DEF AllWant, NoneWants
  <2>2. CASE asked'[p] = asked[p] /\ RolesOf(p)' = RolesOf(p)
    BY <1>2, <2>2 DEF Agreement, Quiet, AllWant, NoneWants, Inv
  <2>3. QED
    BY <1>2, <2>1, <2>2
<1>8. QED
  BY <1>1, <1>4, <1>5, <1>6, <1>7 DEF Inv

\* A step that only activates or deactivates, or does nothing at all.
LEMMA OthersKeep ==
  ASSUME Inv, UNCHANGED <<until, clock, call, asked>>, TypeOK'
  PROVE  Inv'
<1>1. \A p \in Person : RolesOf(p)' = RolesOf(p)
  BY RolesStay
<1>2. \A d \in Call : stage[d] # "idle" => subject[d] \in Person
  BY DEF Inv, TypeOK
<1>3. QED
  BY <1>1, <1>2 DEF Inv, Remembered, LoopsApart, ExactWhenAlone, Alone, StillHeld,
     StillGone, AllWant, NoneWants, Agreement, Quiet, Anything, call

-----------------------------------------------------------------------------
(* The theorems. *)

LEMMA InvInit == Init => Inv
<1>. SUFFICES ASSUME Init PROVE Inv
  OBVIOUS
<1>1. \A c \in Call : stage[c] = "idle"
  BY DEF Init
<1>2. Agreement
  BY AnythingAgreesOnNothing DEF Init, Agreement
<1>3. QED
  BY <1>1, <1>2, TypeInit
     DEF Inv, Remembered, LoopsApart, ExactWhenAlone, StillHeld, StillGone

LEMMA InvNext == Inv /\ [Next]_vars => Inv'
<1>. SUFFICES ASSUME Inv, [Next]_vars PROVE Inv'
  OBVIOUS
<1>1. ASSUME NEW c \in Call,
             \/ InsertMisses(c) \/ NoSuchPerson(c) \/ RefuseLastAdmin(c)
             \/ GrantTooLate(c) \/ Abandon(c)
      PROVE  Inv'
  BY <1>1, FailKeeps
     DEF InsertMisses, NoSuchPerson, RefuseLastAdmin, GrantTooLate, Abandon
<1>2. ASSUME NEW c \in Call, Insert(c) \/ Answer(c) \/ ReadPerson(c) PROVE Inv'
  BY <1>2, ReturnKeeps, ReadPersonKeeps
<1>3. ASSUME NEW c \in Call, NEW p \in Edited, CheckMail(c, p) PROVE Inv'
  BY <1>3, CheckMailKeeps
<1>4. ASSUME NEW c \in Call, NEW p \in Edited, NEW W \in SUBSET Role,
             NEW e \in Expiry \cup {Never}, Ask(c, p, W, e)
      PROVE  Inv'
  BY <1>4, AskKeeps
<1>5. ASSUME NEW c \in Call, NEW r \in Role, RevokeRole(c, r) \/ GrantRole(c, r)
      PROVE  Inv'
  BY <1>5, RevokeRoleKeeps, GrantRoleKeeps
<1>6. TypeOK'
  BY TypeNext DEF Inv
<1>7. ASSUME NEW p \in Person, NEW b \in BOOLEAN, SetActive(p, b) PROVE Inv'
  BY <1>6, <1>7, OthersKeep DEF SetActive
<1>8. CASE UNCHANGED vars
  BY <1>6, <1>8, OthersKeep DEF vars, call
<1>9. QED
  BY <1>1, <1>2, <1>3, <1>4, <1>5, <1>7, <1>8, RestartKeeps, TickKeeps DEF Next

LEMMA Invariance == Spec => []Inv
  BY InvInit, InvNext, PTL DEF Spec

\* A call that is alone with its person leaves exactly the set that was sent,
\* and between its statements exactly what its loops have left.
THEOREM Exactness == Spec => []ExactWhenAlone
<1>1. Inv => ExactWhenAlone
  BY DEF Inv
<1>2. QED
  BY <1>1, Invariance, PTL

\* Calls that meet leave what all of them sent and nothing that none sent.
THEOREM Agreed == Spec => []Agreement
<1>1. Inv => Agreement
  BY DEF Inv
<1>2. QED
  BY <1>1, Invariance, PTL

\* A grant in force keeps its expiry unless two calls meet.
THEOREM ExpiriesKept == Spec => ExpiryKept
<1>. DEFINE Kept == \A p \in Person, r \in Role :
                     /\ r \in RolesOf(p)
                     /\ until'[p][r] \notin {NoRow, until[p][r]}
                     => \E c \in Call : subject[c] = p /\ ~Alone(c)
<1>1. Inv /\ [Next]_vars => [Kept]_vars
  <2>. SUFFICES ASSUME Inv, Next, NEW p \in Person, NEW r \in Role, r \in RolesOf(p),
                       until'[p][r] \notin {NoRow, until[p][r]}
                PROVE  \E c \in Call : subject[c] = p /\ ~Alone(c)
    OBVIOUS
  <2>1. ASSUME NEW c \in Call, NEW q \in Role, RevokeRole(c, q) PROVE FALSE
    BY <2>1 DEF RevokeRole, Inv, TypeOK
  <2>2. ASSUME NEW c \in Call, NEW q \in Role, GrantRole(c, q)
        PROVE  subject[c] = p /\ ~Alone(c)
    <3>1. subject[c] = p /\ q = r
      BY <2>2 DEF GrantRole, Inv, TypeOK
    <3>2. stage[c] = "write" /\ toRevoke[c] = {} /\ r \in toGrant[c]
      BY <2>2, <3>1 DEF GrantRole, First
    <3>3. QED
      BY <3>1, <3>2 DEF ExactWhenAlone, Inv
  <2>3. CASE Restart
    BY <2>3 DEF Restart, Inv, TypeOK
  <2>4. CASE until' = until
    BY <2>4
  <2>5. QED
    BY <2>1, <2>2, <2>3, <2>4
       DEF Next, Insert, InsertMisses, ReadPerson, NoSuchPerson, RefuseLastAdmin,
           GrantTooLate, Answer, Abandon, Fail, CheckMail, Ask, SetActive, Tick, tables
<1>2. QED
  BY <1>1, Invariance, PTL DEF Spec, ExpiryKept

-----------------------------------------------------------------------------
(* Two administrators who never have the same person open. What is remembered *)
(* of a person is then nothing, or one call, and its set is what is left.      *)

NeverMeet ==
  \A c, d \in Call : subject[c] = subject[d] => c = d \/ subject[c] = NoPerson

OneRemembered ==
  \A p \in Person : asked[p] = Anything \/ \E a \in Anything : asked[p] = {a}

LEMMA OneRememberedNext ==
  TypeOK /\ OneRemembered /\ NeverMeet' /\ [Next]_vars => OneRemembered'
<1>. SUFFICES ASSUME TypeOK, OneRemembered, NeverMeet', [Next]_vars
              PROVE  OneRemembered'
  OBVIOUS
<1>1. Anything' = Anything
  BY DEF Anything
<1>2. CASE asked' = asked
  BY <1>1, <1>2 DEF OneRemembered
<1>3. ASSUME NEW c \in Call, Fail(c) PROVE OneRemembered'
  BY <1>1, <1>3 DEF Fail, OneRemembered, TypeOK
<1>4. ASSUME NEW c \in Call, NEW p \in Edited, CheckMail(c, p) PROVE OneRemembered'
  BY <1>1, <1>4 DEF CheckMail, OneRemembered, TypeOK
<1>5. ASSUME NEW c \in Call, NEW p \in Edited, NEW W \in SUBSET Role,
             NEW e \in Expiry \cup {Never}, Ask(c, p, W, e)
      PROVE  OneRemembered'
  <2>1. p \in Person /\ p # NoPerson
    BY PeopleAssumption
  <2>2. /\ subject[c] = NoPerson /\ subject'[c] = p
        /\ \A d \in Call : d # c => subject'[d] = subject[d]
    BY <1>5 DEF Ask, TypeOK
  <2>3. Quiet(p)
    BY <2>1, <2>2 DEF Quiet, NeverMeet
  <2>4. <<c, W>> \in Anything
    BY DEF Anything
  <2>5. asked'[p] = {<<c, W>>} /\ \A q \in Person : q # p => asked'[q] = asked[q]
    BY <1>5, <2>1, <2>3 DEF Ask, TypeOK
  <2>6. QED
    BY <1>1, <2>4, <2>5 DEF OneRemembered
<1>6. CASE Restart
  BY <1>1, <1>6 DEF Restart, OneRemembered
<1>7. CASE Tick
  BY <1>1, <1>7 DEF Tick, OneRemembered
<1>8. ASSUME NEW c \in Call, NEW r \in Role, GrantRole(c, r) PROVE OneRemembered'
  BY <1>1, <1>8 DEF GrantRole, OneRemembered, TypeOK
<1>9. QED
  BY <1>2, <1>3, <1>4, <1>5, <1>6, <1>7, <1>8
     DEF Next, vars, Insert, InsertMisses, ReadPerson, NoSuchPerson, RevokeRole,
         RefuseLastAdmin, GrantTooLate, Answer, Abandon, SetActive

LEMMA OneRememberedIsLeft == Inv /\ OneRemembered => OneOfTheSets
<1>. SUFFICES ASSUME Inv, OneRemembered, NEW p \in Person, Quiet(p)
              PROVE  \E a \in asked[p] : a[2] = RolesOf(p)
  BY DEF OneOfTheSets
<1>1. RolesOf(p) \in SUBSET Role
  BY DEF RolesOf, RolesAt
<1>2. CASE asked[p] = Anything
  <2>. PICK c \in Call : TRUE
    BY PeopleAssumption
  <2>1. <<c, RolesOf(p)>> \in Anything
    BY <1>1 DEF Anything
  <2>2. <<c, RolesOf(p)>>[2] = RolesOf(p)
    OBVIOUS
  <2>3. QED
    BY <1>2, <2>1, <2>2
<1>3. ASSUME NEW a \in Anything, asked[p] = {a}
      PROVE  \E b \in asked[p] : b[2] = RolesOf(p)
  <2>1. a[2] \in SUBSET Role
    BY DEF Anything
  <2>2. \A r \in Role : r \in a[2] <=> r \in RolesOf(p)
    BY <1>3 DEF Agreement, Inv
  <2>3. a[2] = RolesOf(p)
    BY <1>1, <2>1, <2>2
  <2>4. QED
    BY <1>3, <2>3
<1>4. QED
  BY <1>2, <1>3 DEF OneRemembered

\* What the API says of two administrators with the same person open is true as
\* long as they do not: if no two calls about one person are ever under way
\* together, every person ends with one of the sets that were sent.
THEOREM OneSetWhenApart == Spec /\ []NeverMeet => []OneOfTheSets
<1>1. Init => OneRemembered
  BY DEF Init, OneRemembered
<1>2. QED
  BY <1>1, OneRememberedNext, OneRememberedIsLeft, TypeInit, TypeNext, Invariance,
     PTL DEF Spec
=============================================================================
