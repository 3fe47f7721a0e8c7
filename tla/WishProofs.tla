----------------------------- MODULE WishProofs -----------------------------
(***************************************************************************)
(* What holds of wish visibility for every set of people and roles and in  *)
(* every state of a semester.                                              *)
(***************************************************************************)
EXTENDS WishVisibility, SemesterProofs

LEMMA InSemesterState ==
  ASSUME TypeOK, NEW c \in Code, phase[c] # Absent
  PROVE  State(c) \in SemesterState
BY DEF TypeOK, State, SemesterState

\* By cases on whether there is a caller, whether the wishes are published,
\* whether the caller may look early, and whose wish it is.
LEMMA Agreed ==
  ASSUME NEW a \in Actor, NEW s \in SemesterState, NEW o \in Owner
  PROVE  CanSeeWish(a, s, o) <=> Matches(WishVisibility(a, s), o)
<1>1. CASE ~Authenticated(a)
  BY <1>1 DEF CanSeeWish, WishVisibility, Matches
<1>2. CASE /\ Authenticated(a)
           /\ WishesPublished(s) \/ (IsInteractive(a) /\ MayReadUnpublishedWishes(a.roles))
  BY <1>2 DEF CanSeeWish, WishVisibility, Matches
<1>3. CASE /\ Authenticated(a)
           /\ ~(WishesPublished(s) \/ (IsInteractive(a) /\ MayReadUnpublishedWishes(a.roles)))
  <2>1. WishVisibility(a, s).scope = "own" /\ WishVisibility(a, s).owner = a.id
    BY <1>3 DEF WishVisibility
  <2>2. Matches(WishVisibility(a, s), o) <=> a.id # NoPerson /\ o = a.id
    BY <2>1 DEF Matches
  <2>3. CanSeeWish(a, s, o) <=> Owns(a, o)
    BY <1>3 DEF CanSeeWish
  <2>4. QED
    BY <2>2, <2>3 DEF Owns
<1>4. QED
  BY <1>1, <1>2, <1>3

\* Whoever holds more may look early if whoever holds less may.
LEMMA MoreRoles ==
  ASSUME NEW R, NEW S, R \subseteq S, MayReadUnpublishedWishes(R)
  PROVE  MayReadUnpublishedWishes(S)
BY DEF MayReadUnpublishedWishes, Plans

\* Every clause of the guard survives more roles and the browser.
LEMMA NotWider ==
  ASSUME NEW a \in Actor, NEW s \in SemesterState, NEW o \in Owner,
         NEW selected \in SUBSET Role, CanSeeWish(Narrow(a, selected), s, o)
  PROVE  CanSeeWish(Through("interactive", a.id, a.roles), s, o)
<1> DEFINE n == Narrow(a, selected)
           b == Through("interactive", a.id, a.roles)
<1>1. n.id = a.id /\ n.kind = a.kind /\ n.roles = a.roles \cap selected
  BY DEF Narrow, Actor
<1>2. b.id = a.id /\ b.kind = "interactive" /\ b.roles = a.roles
  BY DEF Through
<1>3. /\ Authenticated(n)
      /\ Owns(n, o) \/ WishesPublished(s) \/ MayReadUnpublishedWishes(n.roles)
  BY DEF CanSeeWish
<1>4. Authenticated(b) /\ IsInteractive(b) /\ (Owns(n, o) => Owns(b, o))
  BY <1>1, <1>2, <1>3 DEF Authenticated, IsInteractive, Owns
<1>5. MayReadUnpublishedWishes(n.roles) => MayReadUnpublishedWishes(b.roles)
  BY <1>1, <1>2, MoreRoles
<1> HIDE DEF n, b
<1>6. CanSeeWish(b, s, o)
  BY <1>3, <1>4, <1>5 DEF CanSeeWish
<1>7. QED
  BY <1>6 DEF b

\* With the wishes unpublished and another person's, the guard and the filter's
\* "all" come down to the same clause, and no phase is in it.
LEMMA Predicted ==
  ASSUME NEW p \in Person, NEW roles \in SUBSET Role, NEW o \in Person \ {p},
         NEW s \in SemesterState, s.publishedAt = Open
  PROVE  LET d == Diagnose(p, roles, TRUE)
         IN /\ d.wishesInBrowser <=> CanSeeWish(Through("interactive", p, roles), s, o)
            /\ d.wishesByToken <=> CanSeeWish(Through("token", p, roles), s, o)
<1>1. ASSUME NEW kind
      PROVE  WishVisibility(Through(kind, p, roles), NoSemesterState).scope = "all"
               <=> CanSeeWish(Through(kind, p, roles), s, o)
  <2> DEFINE a == Through(kind, p, roles)
  <2>1. a.id = p /\ Authenticated(a) /\ ~Owns(a, o)
    BY WishAssumption DEF Through, Authenticated, Owns
  <2>2. ~WishesPublished(NoSemesterState) /\ ~WishesPublished(s)
    BY DEF WishesPublished, NoSemesterState
  <2> HIDE DEF a
  <2>3. CanSeeWish(a, s, o) <=> IsInteractive(a) /\ MayReadUnpublishedWishes(a.roles)
    BY <2>1, <2>2 DEF CanSeeWish
  <2>4. WishVisibility(a, NoSemesterState).scope = "all"
          <=> IsInteractive(a) /\ MayReadUnpublishedWishes(a.roles)
    BY <2>1, <2>2 DEF WishVisibility
  <2>5. QED
    BY <2>3, <2>4 DEF a
<1>2. QED
  BY <1>1 DEF Diagnose

\* GuardAndFilterAgree: the two forms of the rule, in every state the workflow
\* brings a semester to.
THEOREM TwoFormsOfOneRule == Spec => []GuardAndFilterAgree
<1>1. SemesterState \subseteq AgreedIn
  BY Agreed DEF AgreedIn
<1>2. TypeOK => GuardAndFilterAgree
  BY <1>1, InSemesterState DEF GuardAndFilterAgree
<1>3. QED
  BY <1>2, TypeCorrect, PTL

\* NothingWidens: a narrowed caller, or a token, sees no more than its owner.
THEOREM NarrowedSeesNoMore == Spec => []NothingWidens
<1>1. SemesterState \subseteq NarrowsIn
  BY NotWider DEF NarrowsIn
<1>2. TypeOK => NothingWidens
  BY <1>1, InSemesterState DEF NothingWidens
<1>3. QED
  BY <1>2, TypeCorrect, PTL

\* DiagnosisPredicts: while the wishes of a semester are confidential.
THEOREM DiagnosisIsRight == Spec => []DiagnosisPredicts
<1>1. ASSUME NEW s \in SemesterState, s.publishedAt = Open PROVE s \in PredictedIn
  BY <1>1, Predicted DEF PredictedIn
<1>2. ASSUME TypeOK PROVE DiagnosisPredicts
  <2>1. SUFFICES ASSUME NEW c \in Code, phase[c] # Absent, published[c] = Open
                 PROVE  State(c) \in PredictedIn
    BY DEF DiagnosisPredicts
  <2>2. State(c) \in SemesterState /\ State(c).publishedAt = Open
    BY <1>2, <2>1, InSemesterState DEF State
  <2>3. QED
    BY <1>1, <2>2
<1>3. QED
  BY <1>2, TypeCorrect, PTL

\* StaysVisible: the guard does not read the phase, and what the abstract process
\* has published stays so.
THEOREM NeverTakenBack == Spec => StaysVisible
<1>1. ASSUME TypeOK, [Next]_vars, NEW s \in Code, published[s] # Open
      PROVE  published'[s] # Open
  <2>1. Process!Next \/ UNCHANGED published
    BY <1>1, ProcessStep DEF vars, Process!vars
  <2>2. ASSUME NEW c \in Code, Process!Publish(c) PROVE published'[s] # Open
    <3>1. c # s
      BY <1>1, <2>2 DEF Process!Publish, Process!Open, Open
    <3>2. QED
      BY <1>1, <2>2, <3>1 DEF Process!Publish, TypeOK
  <2>3. QED
    BY <1>1, <2>1, <2>2 DEF Process!Next, Process!Create, Process!Move
<1>2. ASSUME TypeOK, [Next]_vars, NEW s \in Code, NEW a \in Actor, NEW o \in Owner,
             CanSeeWish(a, State(s), o)
      PROVE  CanSeeWish(a, State(s)', o)
  <2>1. WishesPublished(State(s)) => WishesPublished(State(s)')
    BY <1>1, <1>2 DEF WishesPublished, State
  <2>2. QED
    BY <1>2, <2>1 DEF CanSeeWish
<1>3. TypeOK /\ [Next]_vars =>
        [\A s \in Code : phase[s] # Absent /\ State(s)' # State(s) =>
           \A a \in Actor, o \in Owner :
             CanSeeWish(a, State(s), o) => CanSeeWish(a, State(s)', o)]_vars
  BY <1>2
<1>4. QED
  BY <1>3, TypeInit, TypeNext, PTL DEF Spec, StaysVisible
=============================================================================
