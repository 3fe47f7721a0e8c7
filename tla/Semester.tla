----------------------------- MODULE Semester -----------------------------
(***************************************************************************)
(* The semester workflow of internal/domain and internal/store: create,    *)
(* advance, publish, called concurrently by people who look at pages that  *)
(* may be old. AdvancePhase is two statements, a read and a conditional    *)
(* write, with everybody else's statements between them. A refusal that    *)
(* changes nothing and ends nothing is no step of the model.               *)
(***************************************************************************)
EXTENDS Integers

CONSTANTS
  Code,        \* the semester codes: four digits and S or W
  NoCode,      \* what no code is
  Typed,       \* what people type as a code
  Normal,      \* [Typed -> Code \cup {NoCode}]: upper-cased and trimmed, if
               \* that is a code
  Caller,      \* signed-in people, or their tokens
  Dean,        \* the callers who hold DEANS_OFFICE
  Interactive, \* the callers in a browser session
  MaxTime      \* bound on the clock

ASSUME SemesterAssumption ==
  /\ NoCode \notin Code
  /\ Normal \in [Typed -> Code \cup {NoCode}]
  /\ Dean \subseteq Caller
  /\ Interactive \subseteq Caller
  /\ MaxTime \in Nat

\* A phase is its index in policy.AllPhases (DEMAND_PLANNING, WISHES,
\* ASSIGNMENT, FINAL); -1 is index()'s "not in the process" and stands here
\* for a semester without a row. Open is a NULL in wishes_published_at.
Phase == 0..3
Absent == -1
Open == -1
Time == 0..MaxTime

VARIABLES
  phase,     \* [Code -> Phase \cup {Absent}]: semester.phase
  published, \* [Code -> Time \cup {Open}]: semester.wishes_published_at
  updated,   \* [Code -> Time]: semester.updated_at
  clock,     \* the database's clock
  page,      \* [Caller -> [Code -> Phase \cup {Absent}]]: the list they see
  stage,     \* [Caller -> STRING]: where their advanceSemesterPhase stands
  about,     \* [Caller -> Code \cup {NoCode}]: the semester of that call
  from,      \* [Caller -> Phase \cup {Absent}]: current.Phase of that call
  to,        \* [Caller -> Phase]: the phase it asks for
  walked,    \* history: where the successful switches lead each semester
  overtaken  \* history: the semester was switched under a caller's call

row == <<phase, published, updated>>
call == <<stage, about, from, to>>
vars == <<phase, published, updated, clock, page, stage, about, from, to,
          walked, overtaken>>

-----------------------------------------------------------------------------
(* The rules of internal/policy the workflow asks. *)

\* Phase.MayMoveTo: one step, in either direction, inside the process.
MayMoveTo(p, q) == p \in Phase /\ q \in Phase /\ (p - q = 1 \/ q - p = 1)

MayAdministerSemesters(c) == c \in Dean
MayPublishWishes(c) == c \in Dean \cap Interactive

-----------------------------------------------------------------------------
TypeOK ==
  /\ phase \in [Code -> Phase \cup {Absent}]
  /\ published \in [Code -> Time \cup {Open}]
  /\ updated \in [Code -> Time]
  /\ clock \in Time
  /\ page \in [Caller -> [Code -> Phase \cup {Absent}]]
  /\ stage \in [Caller -> {"idle", "read", "write", "recheck"}]
  /\ about \in [Caller -> Code \cup {NoCode}]
  /\ \A c \in Caller : stage[c] # "idle" => about[c] \in Code
  /\ from \in [Caller -> Phase \cup {Absent}]
  /\ \A c \in Caller : stage[c] \in {"write", "recheck"} => MayMoveTo(from[c], to[c])
  /\ to \in [Caller -> Phase]
  /\ walked \in [Code -> Int]
  /\ overtaken \in [Caller -> BOOLEAN]

Init ==
  /\ phase \in [Code -> Phase \cup {Absent}]
  /\ published \in [Code -> {Open, 0}]
  /\ \A s \in Code : phase[s] = Absent => published[s] = Open
  /\ updated = [s \in Code |-> 0]
  /\ clock = 0
  /\ page = [c \in Caller |-> phase]
  /\ stage = [c \in Caller |-> "idle"]
  /\ about = [c \in Caller |-> NoCode]
  /\ from = [c \in Caller |-> Absent]
  /\ to = [c \in Caller |-> 0]
  /\ walked = phase
  /\ overtaken = [c \in Caller |-> FALSE]

-----------------------------------------------------------------------------
(* Queries, creation, publication: one statement each. *)

\* The semesters query: the caller's page shows what is committed now.
List(c) ==
  /\ stage[c] = "idle"
  /\ page' = [page EXCEPT ![c] = phase]
  /\ UNCHANGED <<row, clock, call, walked, overtaken>>

\* Create. A code that is taken violates the unique key: ErrSemesterExists.
Create(c, typed) ==
  LET s == Normal[typed] IN
  /\ stage[c] = "idle"
  /\ MayAdministerSemesters(c)
  /\ s \in Code /\ phase[s] = Absent
  /\ phase' = [phase EXCEPT ![s] = 0]
  /\ updated' = [updated EXCEPT ![s] = clock]
  /\ walked' = [walked EXCEPT ![s] = 0]
  /\ page' = [page EXCEPT ![c][s] = 0]
  /\ UNCHANGED <<published, clock, call, overtaken>>

\* Mutant: SET wishes_published_at = now(), without COALESCE.
PublishWishesAgain(c, s) ==
  /\ stage[c] = "idle"
  /\ MayPublishWishes(c)
  /\ phase[s] # Absent
  /\ published' = [published EXCEPT ![s] = clock]
  /\ updated' = [updated EXCEPT ![s] = clock]
  /\ page' = [page EXCEPT ![c][s] = phase[s]]
  /\ UNCHANGED <<phase, clock, call, walked, overtaken>>

\* Mutant: SET updated_at = now(), without the CASE.
PublishWishesTouching(c, s) ==
  /\ stage[c] = "idle"
  /\ MayPublishWishes(c)
  /\ phase[s] # Absent
  /\ published' = [published EXCEPT ![s] = IF @ = Open THEN clock ELSE @]
  /\ updated' = [updated EXCEPT ![s] = clock]
  /\ page' = [page EXCEPT ![c][s] = phase[s]]
  /\ UNCHANGED <<phase, clock, call, walked, overtaken>>

\* PublishWishes: COALESCE keeps the first moment, and a repeated call leaves
\* updated_at alone. The answer shows the caller the phase, too.
PublishWishes(c, s) ==
  /\ stage[c] = "idle"
  /\ MayPublishWishes(c)
  /\ phase[s] # Absent
  /\ IF published[s] = Open
       THEN /\ published' = [published EXCEPT ![s] = clock]
            /\ updated' = [updated EXCEPT ![s] = clock]
       ELSE UNCHANGED <<published, updated>>
  /\ page' = [page EXCEPT ![c][s] = phase[s]]
  /\ UNCHANGED <<phase, clock, call, walked, overtaken>>

-----------------------------------------------------------------------------
(* AdvancePhase: a read, a rule, and a compare-and-set. *)

\* The call arrives; the policy has let it pass. Any phase can be asked for.
AskAdvance(c, s, t) ==
  /\ stage[c] = "idle"
  /\ MayAdministerSemesters(c)
  /\ stage' = [stage EXCEPT ![c] = "read"]
  /\ about' = [about EXCEPT ![c] = s]
  /\ to' = [to EXCEPT ![c] = t]
  /\ UNCHANGED <<row, clock, page, from, walked, overtaken>>

\* The end of a call, whatever its answer.
Return(c) ==
  /\ stage' = [stage EXCEPT ![c] = "idle"]
  /\ about' = [about EXCEPT ![c] = NoCode]
  /\ from' = [from EXCEPT ![c] = Absent]
  /\ to' = [to EXCEPT ![c] = 0]

\* Mutant: no MayMoveTo between the read and the write.
ReadPhaseUnchecked(c) ==
  /\ stage[c] = "read"
  /\ phase[about[c]] # Absent
  /\ stage' = [stage EXCEPT ![c] = "write"]
  /\ from' = [from EXCEPT ![c] = phase[about[c]]]
  /\ overtaken' = [overtaken EXCEPT ![c] = FALSE]
  /\ UNCHANGED <<row, clock, page, about, to, walked>>

\* Mutant: the phase comes from what the caller saw, not from the row.
ReadPhaseFromPage(c) ==
  /\ stage[c] = "read"
  /\ MayMoveTo(page[c][about[c]], to[c])
  /\ stage' = [stage EXCEPT ![c] = "write"]
  /\ from' = [from EXCEPT ![c] = page[c][about[c]]]
  /\ overtaken' = [overtaken EXCEPT ![c] = FALSE]
  /\ UNCHANGED <<row, clock, page, about, to, walked>>

\* SemesterByID, and the rule: the step must lead to a neighbour.
ReadPhase(c) ==
  /\ stage[c] = "read"
  /\ MayMoveTo(phase[about[c]], to[c])
  /\ stage' = [stage EXCEPT ![c] = "write"]
  /\ from' = [from EXCEPT ![c] = phase[about[c]]]
  /\ overtaken' = [overtaken EXCEPT ![c] = FALSE]
  /\ UNCHANGED <<row, clock, page, about, to, walked>>

\* ErrNoSuchSemester or ErrPhaseNotAdjacent.
RefuseStep(c) ==
  /\ stage[c] = "read"
  /\ ~MayMoveTo(phase[about[c]], to[c])
  /\ Return(c)
  /\ UNCHANGED <<row, clock, page, walked, overtaken>>

\* Mutant: UPDATE ... WHERE id = $1, a read-then-write.
WritePhaseBlind(c) ==
  LET s == about[c] IN
  /\ stage[c] = "write"
  /\ phase' = [phase EXCEPT ![s] = to[c]]
  /\ updated' = [updated EXCEPT ![s] = clock]
  /\ page' = [page EXCEPT ![c][s] = to[c]]
  /\ walked' = [walked EXCEPT ![s] = @ + (to[c] - from[c])]
  /\ overtaken' = [d \in Caller |-> overtaken[d] \/ (d # c /\ about[d] = s)]
  /\ Return(c)
  /\ UNCHANGED <<published, clock>>

\* Mutant: a step back opens the confidential time again.
WritePhaseReopening(c) ==
  LET s == about[c] IN
  /\ stage[c] = "write"
  /\ phase[s] = from[c]
  /\ phase' = [phase EXCEPT ![s] = to[c]]
  /\ updated' = [updated EXCEPT ![s] = clock]
  /\ published' = [published EXCEPT ![s] = IF to[c] < from[c] THEN Open ELSE @]
  /\ page' = [page EXCEPT ![c][s] = to[c]]
  /\ walked' = [walked EXCEPT ![s] = @ + (to[c] - from[c])]
  /\ overtaken' = [d \in Caller |-> overtaken[d] \/ (d # c /\ about[d] = s)]
  /\ Return(c)
  /\ UNCHANGED clock

\* UPDATE ... WHERE id = $1 AND phase = $3, with a row to update.
WritePhase(c) ==
  LET s == about[c] IN
  /\ stage[c] = "write"
  /\ phase[s] = from[c]
  /\ phase' = [phase EXCEPT ![s] = to[c]]
  /\ updated' = [updated EXCEPT ![s] = clock]
  /\ page' = [page EXCEPT ![c][s] = to[c]]
  /\ walked' = [walked EXCEPT ![s] = @ + (to[c] - from[c])]
  /\ overtaken' = [d \in Caller |-> overtaken[d] \/ (d # c /\ about[d] = s)]
  /\ Return(c)
  /\ UNCHANGED <<published, clock>>

\* The UPDATE finds no row in that phase ...
WriteMisses(c) ==
  /\ stage[c] = "write"
  /\ phase[about[c]] # from[c]
  /\ stage' = [stage EXCEPT ![c] = "recheck"]
  /\ UNCHANGED <<row, clock, page, about, from, to, walked, overtaken>>

\* ... and a second read tells ErrPhaseMovedOn from ErrNoSuchSemester.
RefuseMovedOn(c) ==
  /\ stage[c] = "recheck"
  /\ Return(c)
  /\ UNCHANGED <<row, clock, page, walked, overtaken>>

\* The request is cancelled or the process dies: what was not written is not
\* written, and a write that was done stays done (its answer may be lost).
Abandon(c) ==
  /\ stage[c] # "idle"
  /\ Return(c)
  /\ UNCHANGED <<row, clock, page, walked, overtaken>>

Tick ==
  /\ clock < MaxTime
  /\ clock' = clock + 1
  /\ UNCHANGED <<row, page, call, walked, overtaken>>

-----------------------------------------------------------------------------
Next ==
  \/ \E c \in Caller :
       \/ List(c) \/ ReadPhase(c) \/ RefuseStep(c) \/ WritePhase(c)
       \/ WriteMisses(c) \/ RefuseMovedOn(c) \/ Abandon(c)
       \/ \E typed \in Typed : Create(c, typed)
       \/ \E s \in Code : PublishWishes(c, s)
       \/ \E s \in Code, t \in Phase : AskAdvance(c, s, t)
  \/ Tick

Spec == Init /\ [][Next]_vars

-----------------------------------------------------------------------------
(* Properties. *)

\* No switch is lost and none is overwritten: a semester stands where its
\* creation and the successful calls, each by the step it answered with,
\* have led it, however their reads and writes interleaved (AdvancePhase).
NoLostSwitch == phase = walked

\* PHASE_MOVED_ON is never said to a caller whom nobody overtook between the
\* read and the write of the call (AdvanceSemesterPhase, store/semesters.go).
MovedOnIsTrue == \A c \in Caller : stage[c] = "recheck" => overtaken[c]

\* updated_at moves only with the phase or the first publication: a repeated
\* publishWishes does not make the row look edited.
UpdatedOnChange ==
  [][\A s \in Code :
       updated'[s] # updated[s] =>
         phase'[s] # phase[s] \/ published'[s] # published[s]]_vars

\* The workflow is the abstract process: created at the start, one step at a
\* time, published once and for good.
Process == INSTANCE SemesterProcess
ProcessSpec == Process!Spec

\* A switch to a neighbour of the phase the caller's page showed succeeds only
\* if the semester is still there: if somebody else switched it meanwhile, "you
\* get PHASE_MOVED_ON and nothing changes" (semester.graphqls).
PageWasCurrent ==
  [][\A c \in Caller :
       WritePhase(c) /\ MayMoveTo(page[c][about[c]], to[c]) =>
         page[c][about[c]] = phase[about[c]]]_vars
=============================================================================
