-------------------------- MODULE SemesterProofs --------------------------
(***************************************************************************)
(* What holds of the semester workflow for every set of semesters and      *)
(* callers: types, no lost switch, an honest PHASE_MOVED_ON, and that it   *)
(* implements the abstract process.                                        *)
(***************************************************************************)
EXTENDS Semester, TLAPS

-----------------------------------------------------------------------------
(* Type correctness. *)

LEMMA TypeInit == Init => TypeOK
  BY SemesterAssumption DEF Init, TypeOK, Time, Phase, Absent, Open

\* The end of a call, whatever else the action does to the tables.
LEMMA ReturnType ==
  ASSUME TypeOK, NEW c \in Caller, Return(c)
  PROVE  /\ stage' \in [Caller -> {"idle", "read", "write", "recheck"}]
         /\ about' \in [Caller -> Code \cup {NoCode}]
         /\ from' \in [Caller -> Phase \cup {Absent}]
         /\ to' \in [Caller -> Phase]
         /\ \A d \in Caller : stage'[d] # "idle" => about'[d] \in Code
         /\ \A d \in Caller :
              stage'[d] \in {"write", "recheck"} => MayMoveTo(from'[d], to'[d])
<1>1. stage' \in [Caller -> {"idle", "read", "write", "recheck"}]
  BY DEF Return, TypeOK
<1>2. about' \in [Caller -> Code \cup {NoCode}]
  BY DEF Return, TypeOK
<1>3. from' \in [Caller -> Phase \cup {Absent}]
  BY DEF Return, TypeOK
<1>4. to' \in [Caller -> Phase]
  <2>1. 0 \in Phase
    BY DEF Phase
  <2>2. QED
    BY <2>1 DEF Return, TypeOK
<1>5. /\ stage'[c] = "idle"
      /\ \A d \in Caller : d # c =>
           /\ stage'[d] = stage[d] /\ about'[d] = about[d]
           /\ from'[d] = from[d] /\ to'[d] = to[d]
  BY DEF Return, TypeOK
<1>6. QED
  BY <1>1, <1>2, <1>3, <1>4, <1>5 DEF TypeOK

LEMMA TypeNext == TypeOK /\ [Next]_vars => TypeOK'
<1>. SUFFICES ASSUME TypeOK, [Next]_vars PROVE TypeOK'
  OBVIOUS
<1>1. ASSUME NEW c \in Caller, List(c) \/ WriteMisses(c) PROVE TypeOK'
  BY <1>1 DEF TypeOK, List, WriteMisses, row, call
<1>a. ASSUME NEW c \in Caller, RefuseStep(c) \/ RefuseMovedOn(c) \/ Abandon(c)
      PROVE  TypeOK'
  <2>1. Return(c) /\ UNCHANGED <<row, clock, page, walked, overtaken>>
    BY <1>a DEF RefuseStep, RefuseMovedOn, Abandon
  <2>2. QED
    BY <2>1, ReturnType DEF TypeOK, row
<1>b. ASSUME NEW c \in Caller, ReadPhase(c) PROVE TypeOK'
  <2>1. about[c] \in Code
    BY <1>b DEF ReadPhase, TypeOK
  <2>2. phase[about[c]] \in Phase \cup {Absent}
    BY <2>1 DEF TypeOK
  <2>3. /\ stage' \in [Caller -> {"idle", "read", "write", "recheck"}]
        /\ from' \in [Caller -> Phase \cup {Absent}]
        /\ overtaken' \in [Caller -> BOOLEAN]
    BY <1>b, <2>2 DEF TypeOK, ReadPhase
  <2>4. /\ MayMoveTo(from'[c], to[c])
        /\ \A d \in Caller : d # c => stage'[d] = stage[d] /\ from'[d] = from[d]
    BY <1>b DEF TypeOK, ReadPhase
  <2>5. UNCHANGED <<phase, published, updated, clock, page, about, to, walked>>
    BY <1>b DEF ReadPhase, row
  <2>6. QED
    BY <2>1, <2>3, <2>4, <2>5 DEF TypeOK
<1>2. ASSUME NEW c \in Caller, WritePhase(c) PROVE TypeOK'
  <2>1. /\ about[c] \in Code /\ to[c] \in Phase
        /\ to[c] - from[c] \in Int
    <3>1. about[c] \in Code
      BY <1>2 DEF WritePhase, TypeOK
    <3>2. to[c] \in Phase /\ from[c] \in Phase \cup {Absent}
      BY DEF TypeOK
    <3>3. QED
      BY <3>1, <3>2 DEF Phase, Absent
  <2>2. walked' \in [Code -> Int]
    BY <1>2, <2>1 DEF WritePhase, TypeOK
  <2>3. /\ stage' \in [Caller -> {"idle", "read", "write", "recheck"}]
        /\ about' \in [Caller -> Code \cup {NoCode}]
        /\ from' \in [Caller -> Phase \cup {Absent}]
        /\ to' \in [Caller -> Phase]
        /\ \A d \in Caller : stage'[d] # "idle" => about'[d] \in Code
        /\ \A d \in Caller :
             stage'[d] \in {"write", "recheck"} => MayMoveTo(from'[d], to'[d])
    BY <1>2, ReturnType DEF WritePhase
  <2>4. /\ phase' \in [Code -> Phase \cup {Absent}]
        /\ updated' \in [Code -> Time]
        /\ page' \in [Caller -> [Code -> Phase \cup {Absent}]]
        /\ overtaken' \in [Caller -> BOOLEAN]
    BY <1>2, <2>1 DEF WritePhase, TypeOK
  <2>5. QED
    BY <1>2, <2>2, <2>3, <2>4 DEF WritePhase, TypeOK
<1>3. ASSUME NEW c \in Caller, NEW typed \in Typed, Create(c, typed)
      PROVE  TypeOK'
  BY <1>3 DEF TypeOK, Create, call, Phase
<1>4. ASSUME NEW c \in Caller, NEW s \in Code, PublishWishes(c, s) PROVE TypeOK'
  BY <1>4 DEF TypeOK, PublishWishes, call
<1>5. ASSUME NEW c \in Caller, NEW s \in Code, NEW t \in Phase, AskAdvance(c, s, t)
      PROVE  TypeOK'
  BY <1>5 DEF TypeOK, AskAdvance, row
<1>6. CASE Tick
  BY <1>6, SemesterAssumption DEF TypeOK, Tick, Time, row, call
<1>7. CASE UNCHANGED vars
  BY <1>7 DEF TypeOK, vars
<1>8. QED
  BY <1>1, <1>a, <1>b, <1>2, <1>3, <1>4, <1>5, <1>6, <1>7 DEF Next

\* Every reachable state is well typed, and a call about to write asks for a
\* step the policy allows from the phase it read.
THEOREM TypeCorrect == Spec => []TypeOK
  BY TypeInit, TypeNext, PTL DEF Spec

-----------------------------------------------------------------------------
(* No switch is lost. The compare-and-set makes NoLostSwitch inductive by   *)
(* itself: a write happens only where its step begins.                      *)

LEMMA NoLostSwitchNext ==
  TypeOK /\ NoLostSwitch /\ [Next]_vars => NoLostSwitch'
<1>. SUFFICES ASSUME TypeOK, NoLostSwitch, [Next]_vars PROVE NoLostSwitch'
  OBVIOUS
<1>1. ASSUME NEW c \in Caller, WritePhase(c) PROVE NoLostSwitch'
  <2>a. phase[about[c]] = from[c]
    BY <1>1 DEF WritePhase
  <2>b. from[c] \in Phase \cup {Absent} /\ to[c] \in Phase
    BY DEF TypeOK
  <2>0. phase[about[c]] = from[c] /\ from[c] \in Int /\ to[c] \in Int
    BY <2>a, <2>b DEF Phase, Absent
  <2>1. phase[about[c]] + (to[c] - from[c]) = to[c]
    BY <2>0
  <2>2. about[c] \in Code
    BY <1>1 DEF WritePhase, TypeOK
  <2>3. QED
    BY <1>1, <2>1, <2>2 DEF WritePhase, NoLostSwitch, TypeOK
<1>2. ASSUME NEW c \in Caller, NEW typed \in Typed, Create(c, typed)
      PROVE  NoLostSwitch'
  BY <1>2 DEF Create, NoLostSwitch, TypeOK
<1>3. QED
  BY <1>1, <1>2
     DEF Next, List, ReadPhase, RefuseStep, WriteMisses, RefuseMovedOn, Abandon,
         PublishWishes, AskAdvance, Tick, vars, row, NoLostSwitch

\* A semester always stands where the successful switches led it.
THEOREM SwitchesAddUp == Spec => []NoLostSwitch
<1>1. Init => NoLostSwitch
  BY DEF Init, NoLostSwitch
<1>2. QED
  BY <1>1, TypeInit, TypeNext, NoLostSwitchNext, PTL DEF Spec

-----------------------------------------------------------------------------
(* PHASE_MOVED_ON is honest: while a call that read the phase has not been  *)
(* overtaken, the row is still in the phase it read.                        *)

Undisturbed ==
  \A c \in Caller :
    /\ stage[c] = "write" /\ ~overtaken[c] => phase[about[c]] = from[c]
    /\ stage[c] = "recheck" => overtaken[c]

LEMMA UndisturbedNext ==
  TypeOK /\ Undisturbed /\ [Next]_vars => Undisturbed'
<1>. SUFFICES ASSUME TypeOK, Undisturbed, [Next]_vars PROVE Undisturbed'
  OBVIOUS
<1>1. ASSUME NEW c \in Caller, WritePhase(c) PROVE Undisturbed'
  <2>1. about[c] \in Code
    BY <1>1 DEF WritePhase, TypeOK
  <2>2. QED
    BY <1>1, <2>1 DEF WritePhase, Return, Undisturbed, TypeOK
<1>2. ASSUME NEW c \in Caller, NEW typed \in Typed, Create(c, typed)
      PROVE  Undisturbed'
  <2>1. \A d \in Caller : stage[d] = "write" => from[d] # Absent
    BY DEF TypeOK, MayMoveTo, Phase, Absent
  <2>2. QED
    BY <1>2, <2>1 DEF Create, call, Undisturbed, TypeOK
<1>3. ASSUME NEW c \in Caller,
             \/ ReadPhase(c) \/ RefuseStep(c) \/ WriteMisses(c)
             \/ RefuseMovedOn(c) \/ Abandon(c)
      PROVE  Undisturbed'
  BY <1>3 DEF ReadPhase, RefuseStep, WriteMisses, RefuseMovedOn, Abandon, Return,
              row, Undisturbed, TypeOK
<1>4. ASSUME NEW c \in Caller, NEW s \in Code, NEW t \in Phase, AskAdvance(c, s, t)
      PROVE  Undisturbed'
  BY <1>4 DEF AskAdvance, row, Undisturbed, TypeOK
<1>5. ASSUME \/ \E c \in Caller : List(c) \/ \E s \in Code : PublishWishes(c, s)
             \/ Tick
             \/ UNCHANGED vars
      PROVE  Undisturbed'
  BY <1>5 DEF List, PublishWishes, Tick, vars, row, call, Undisturbed
<1>6. QED
  BY <1>1, <1>2, <1>3, <1>4, <1>5 DEF Next

\* Only a caller who was overtaken is told PHASE_MOVED_ON.
THEOREM HonestRefusal == Spec => []MovedOnIsTrue
<1>1. Init => Undisturbed
  BY DEF Init, Undisturbed
<1>2. Undisturbed => MovedOnIsTrue
  BY DEF Undisturbed, MovedOnIsTrue
<1>3. QED
  BY <1>1, <1>2, TypeInit, TypeNext, UndisturbedNext, PTL DEF Spec

-----------------------------------------------------------------------------
(* Refinement. *)

LEMMA ProcessStep ==
  ASSUME TypeOK, Next
  PROVE  Process!Next \/ UNCHANGED Process!vars
<1>1. ASSUME NEW c \in Caller, WritePhase(c) PROVE Process!Next
  <2>1. about[c] \in Code
    BY <1>1 DEF WritePhase, TypeOK
  <2>0. phase[about[c]] = from[c] /\ MayMoveTo(from[c], to[c])
    BY <1>1 DEF WritePhase, TypeOK
  <2>2. to[c] \in {phase[about[c]] - 1, phase[about[c]] + 1} \cap Process!Phase
    <3>1. \A p, q : MayMoveTo(p, q) => q \in Process!Phase /\ (q = p - 1 \/ q = p + 1)
      BY DEF MayMoveTo, Phase, Process!Phase
    <3>2. QED
      BY <2>0, <3>1
  <2>3. phase[about[c]] # Process!Absent
    BY <2>0 DEF MayMoveTo, Phase, Process!Absent
  <2>4. Process!Move(about[c])
    BY <1>1, <2>2, <2>3 DEF WritePhase, Process!Move
  <2>5. QED
    BY <2>1, <2>4 DEF Process!Next
<1>2. ASSUME NEW c \in Caller, NEW typed \in Typed, Create(c, typed)
      PROVE  Process!Next
  <2>1. Process!Create(Normal[typed])
    BY <1>2 DEF Create, Process!Create, Absent, Process!Absent
  <2>2. Normal[typed] \in Code
    BY <1>2 DEF Create
  <2>3. QED
    BY <2>1, <2>2 DEF Process!Next
<1>3. ASSUME NEW c \in Caller, NEW s \in Code, PublishWishes(c, s)
      PROVE  Process!Next \/ UNCHANGED Process!vars
  <2>1. CASE published[s] = Open
    <3>1. Process!Publish(s)
      BY <1>3, <2>1 DEF PublishWishes, Process!Publish, Absent, Open,
                        Process!Absent, Process!Open, TypeOK, Time
    <3>2. QED
      BY <3>1 DEF Process!Next
  <2>2. CASE published[s] # Open
    BY <1>3, <2>2 DEF PublishWishes, Process!vars
  <2>3. QED
    BY <2>1, <2>2
<1>4. ASSUME NEW c \in Caller,
             \/ List(c) \/ ReadPhase(c) \/ RefuseStep(c) \/ WriteMisses(c)
             \/ RefuseMovedOn(c) \/ Abandon(c)
             \/ \E s \in Code, t \in Phase : AskAdvance(c, s, t)
      PROVE  UNCHANGED Process!vars
  BY <1>4 DEF List, ReadPhase, RefuseStep, WriteMisses, RefuseMovedOn, Abandon,
              AskAdvance, row, Process!vars
<1>5. CASE Tick
  BY <1>5 DEF Tick, row, Process!vars
<1>6. QED
  BY <1>1, <1>2, <1>3, <1>4, <1>5 DEF Next

\* The workflow implements the abstract process: every switch is one step from
\* where the semester really was, and publication happens once.
THEOREM ImplementsProcess == Spec => ProcessSpec
<1>1. Init => Process!Init
  BY DEF Init, Process!Init, Phase, Absent, Open, Process!Phase,
         Process!Absent, Process!Open
<1>2. TypeOK /\ [Next]_vars => [Process!Next]_(Process!vars)
  <2>1. UNCHANGED vars => UNCHANGED Process!vars
    BY DEF vars, Process!vars
  <2>2. QED
    BY <2>1, ProcessStep
<1>3. QED
  BY <1>1, <1>2, TypeInit, TypeNext, PTL DEF Spec, ProcessSpec, Process!Spec

-----------------------------------------------------------------------------
(* Every statement that sets updated_at changes the row: creation writes a   *)
(* phase where there was none, a switch never leads to where it began, and   *)
(* a first publication writes a moment where there was a NULL.               *)

LEMMA UpdatedStep ==
  ASSUME TypeOK, [Next]_vars, NEW s \in Code, updated'[s] # updated[s]
  PROVE  phase'[s] # phase[s] \/ published'[s] # published[s]
<1>1. ASSUME NEW c \in Caller, WritePhase(c) PROVE phase'[s] # phase[s]
  <2>1. s = about[c]
    BY <1>1 DEF WritePhase, TypeOK
  <2>2. phase[s] = from[c] /\ phase'[s] = to[c]
    BY <1>1, <2>1 DEF WritePhase, TypeOK
  <2>3. MayMoveTo(from[c], to[c])
    BY <1>1 DEF WritePhase, TypeOK
  <2>4. QED
    BY <2>2, <2>3 DEF MayMoveTo, Phase
<1>2. ASSUME NEW c \in Caller, NEW typed \in Typed, Create(c, typed)
      PROVE  phase'[s] # phase[s]
  BY <1>2 DEF Create, TypeOK, Absent
<1>3. ASSUME NEW c \in Caller, NEW t \in Code, PublishWishes(c, t)
      PROVE  published'[s] # published[s]
  <2>1. s = t /\ published[t] = Open /\ published'[s] = clock
    BY <1>3 DEF PublishWishes, TypeOK
  <2>2. clock # Open
    BY SemesterAssumption DEF TypeOK, Time, Open
  <2>3. QED
    BY <2>1, <2>2
<1>4. QED
  BY <1>1, <1>2, <1>3
     DEF Next, List, ReadPhase, RefuseStep, WriteMisses, RefuseMovedOn, Abandon,
         AskAdvance, Tick, vars, row

\* A row that looks edited was: its phase moved or its wishes were published.
THEOREM EditedMeansChanged == Spec => UpdatedOnChange
<1>1. TypeOK /\ [Next]_vars =>
        [\A s \in Code : updated'[s] # updated[s] =>
           phase'[s] # phase[s] \/ published'[s] # published[s]]_vars
  BY UpdatedStep
<1>2. QED
  BY <1>1, TypeInit, TypeNext, PTL DEF Spec, UpdatedOnChange
=============================================================================
