-------------------------- MODULE SemesterProcess --------------------------
(***************************************************************************)
(* What the semester workflow promises, without callers, reads and races:  *)
(* a semester appears at the start of the process, walks it one phase at a *)
(* time in either direction, and its wishes are published once, for good.  *)
(***************************************************************************)
EXTENDS Integers

CONSTANTS Code,    \* the semesters' codes
          MaxTime  \* bound on the clock

\* A phase is its position in policy.AllPhases: DEMAND_PLANNING, WISHES,
\* ASSIGNMENT, FINAL. Absent stands for "no such row", Open for a NULL in
\* wishes_published_at.
Phase == 0..3
Absent == -1
Open == -1

VARIABLES phase,     \* [Code -> Phase \cup {Absent}]
          published  \* [Code -> 0..MaxTime \cup {Open}]

vars == <<phase, published>>

Init ==
  /\ phase \in [Code -> Phase \cup {Absent}]
  /\ published \in [Code -> {Open, 0}]
  /\ \A s \in Code : phase[s] = Absent => published[s] = Open

Create(s) ==
  /\ phase[s] = Absent
  /\ phase' = [phase EXCEPT ![s] = 0]
  /\ UNCHANGED published

\* One step forwards, or backwards as a correction.
Move(s) ==
  /\ phase[s] # Absent
  /\ \E to \in {phase[s] - 1, phase[s] + 1} \cap Phase :
       phase' = [phase EXCEPT ![s] = to]
  /\ UNCHANGED published

Publish(s) ==
  /\ phase[s] # Absent /\ published[s] = Open
  /\ \E t \in 0..MaxTime : published' = [published EXCEPT ![s] = t]
  /\ UNCHANGED phase

Next == \E s \in Code : Create(s) \/ Move(s) \/ Publish(s)

Spec == Init /\ [][Next]_vars
=============================================================================
