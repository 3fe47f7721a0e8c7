--------------------------- MODULE WishVisibility ---------------------------
(***************************************************************************)
(* Who may read whose wishes (internal/policy/wish.go): the rule as a      *)
(* guard for a wish in hand and as a filter for a query, what narrowing    *)
(* makes of a caller, and what the access diagnosis says of it, beside the *)
(* semester workflow that ends the confidential time.                      *)
(***************************************************************************)
EXTENDS Semester

CONSTANTS
  Person,   \* the ids of person rows
  NoPerson, \* uuid.Nil: nobody's id, and an unset owner
  Role      \* the roles used in the run, some of policy.AllRoles

AllRoles == {"LECTURER", "SUBJECT_GROUP_LEAD", "PROGRAMME_LEAD", "DEANS_OFFICE", "ADMIN"}

ASSUME WishAssumption ==
  /\ NoPerson \notin Person
  /\ Role \subseteq AllRoles

Owner == Person \cup {NoPerson}

Actor == [id : Owner, roles : SUBSET Role, kind : {"none", "interactive", "token"}]

\* The semester in the form the rule takes.
SemesterState == [phase : Phase, publishedAt : Time \cup {Open}]
State(s) == [phase |-> phase[s], publishedAt |-> published[s]]

NoSemesterState == [phase |-> 0, publishedAt |-> Open]  \* the zero value

WishesPublished(s) == s.publishedAt # Open

-----------------------------------------------------------------------------
(* The caller. *)

Authenticated(a) == a.id # NoPerson
IsInteractive(a) == a.kind = "interactive"
MayReadInteractiveOnly(a) == Authenticated(a) /\ IsInteractive(a)
MayAdministerPeople(a) == MayReadInteractiveOnly(a) /\ "ADMIN" \in a.roles

Owns(a, o) == a.id # NoPerson /\ o # NoPerson /\ a.id = o

\* Mutant: the selection is taken for the roles.
NarrowToSelected(a, selected) == [a EXCEPT !.roles = selected]

\* Narrow: held and selected.
Narrow(a, selected) == [a EXCEPT !.roles = @ \cap selected]

-----------------------------------------------------------------------------
(* The rule, twice. *)

Plans(roles) == roles \cap {"SUBJECT_GROUP_LEAD", "PROGRAMME_LEAD"} # {}
MayReadUnpublishedWishes(roles) == Plans(roles) \/ "DEANS_OFFICE" \in roles

\* CanSeeWish: the guard, for a wish with owner o.
CanSeeWish(a, s, o) ==
  /\ Authenticated(a)
  /\ \/ Owns(a, o)
     \/ WishesPublished(s)
     \/ IsInteractive(a) /\ MayReadUnpublishedWishes(a.roles)

\* Mutant: the planning roles see everything through either door.
WishVisibilityAtBothDoors(a, s) ==
  [scope |-> IF ~Authenticated(a) THEN "none"
             ELSE IF WishesPublished(s) \/ MayReadUnpublishedWishes(a.roles) THEN "all"
             ELSE "own",
   owner |-> a.id]

\* WishVisibility: the filter, for the WHERE clause of a list or a count.
WishVisibility(a, s) ==
  [scope |-> IF ~Authenticated(a) THEN "none"
             ELSE IF \/ WishesPublished(s)
                     \/ IsInteractive(a) /\ MayReadUnpublishedWishes(a.roles) THEN "all"
             ELSE "own",
   owner |-> a.id]

\* Matches: "own" with an unset owner matches nothing.
Matches(f, o) == f.scope = "all" \/ (f.scope = "own" /\ f.owner # NoPerson /\ o = f.owner)

-----------------------------------------------------------------------------
(* The access diagnosis of a person: the roles they hold, through both     *)
(* doors, while the wishes are confidential.                               *)

Through(kind, id, roles) == [id |-> id, roles |-> roles, kind |-> kind]

\* Mutant: one actor for both doors.
DiagnoseOneDoor(id, roles, active) ==
  LET interactive == Through("interactive", id, roles)
      seesAll(a) == WishVisibility(a, NoSemesterState).scope = "all"
  IN [inactive |-> ~active,
      people |-> MayAdministerPeople(interactive),
      interactiveOnly |-> MayReadInteractiveOnly(interactive),
      wishesInBrowser |-> seesAll(interactive),
      wishesByToken |-> seesAll(interactive)]

\* diagnose: a decision per rule; "inactive" is the entry that comes first and
\* says that nothing below it counts.
Diagnose(id, roles, active) ==
  LET interactive == Through("interactive", id, roles)
      seesAll(a) == WishVisibility(a, NoSemesterState).scope = "all"
  IN [inactive |-> ~active,
      people |-> MayAdministerPeople(interactive),
      interactiveOnly |-> MayReadInteractiveOnly(interactive),
      wishesInBrowser |-> seesAll(interactive),
      wishesByToken |-> seesAll(Through("token", id, roles))]

-----------------------------------------------------------------------------
(* Properties. *)

\* The states of a semester in which each rule below holds; they are written as
\* images because TLC computes an image once and a subset at every test.
AgreedIn ==
  {s : s \in {t \in SemesterState : \A a \in Actor, o \in Owner :
     CanSeeWish(a, t, o) <=> Matches(WishVisibility(a, t), o)}}

NarrowsIn ==
  {s : s \in {t \in SemesterState : \A a \in Actor, o \in Owner, selected \in SUBSET Role :
     CanSeeWish(Narrow(a, selected), t, o) =>
       CanSeeWish(Through("interactive", a.id, a.roles), t, o)}}

PredictedIn ==
  {s : s \in {t \in SemesterState :
     \A p \in Person, roles \in SUBSET Role : \A o \in Person \ {p} :
       LET d == Diagnose(p, roles, TRUE) IN
       /\ d.wishesInBrowser <=> CanSeeWish(Through("interactive", p, roles), t, o)
       /\ d.wishesByToken <=> CanSeeWish(Through("token", p, roles), t, o)}}

\* The two forms of the rule are written independently and let the same wishes
\* through: a list, and the count beside it, show what the guard lets see, for
\* nobody, for a wish without an owner, and wherever the workflow takes the
\* semester (CanSeeWish, WishVisibility, Matches).
GuardAndFilterAgree == \A c \in Code : phase[c] # Absent => State(c) \in AgreedIn

\* Nobody sees a wish by being narrowed, or by using a token, which the same
\* person does not see in the browser with the roles they hold (Narrow,
\* CanSeeWish).
NothingWidens == \A c \in Code : phase[c] # Absent => State(c) \in NarrowsIn

\* The diagnosis tells of each door what happens there: as long as the wishes
\* of a semester are not published, whatever its phase, a person reads another
\* person's wish through the door if and only if the diagnosis says so, and
\* through neither of them what the diagnosis denies (diagnose).
DiagnosisPredicts ==
  \A c \in Code : phase[c] # Absent /\ published[c] = Open => State(c) \in PredictedIn

\* What a caller may read of a semester's wishes is never taken back, whatever
\* steps, back and forth, the semester goes: only a change of the caller's
\* roles or door does that (CanSeeWish does not look at the phase; AdvancePhase
\* and PublishWishes do not reopen the confidential time).
StaysVisible ==
  [][\A s \in Code : phase[s] # Absent /\ State(s)' # State(s) =>
       \A a \in Actor, o \in Owner :
         CanSeeWish(a, State(s), o) => CanSeeWish(a, State(s)', o)]_vars
=============================================================================
