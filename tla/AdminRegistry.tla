--------------------------- MODULE AdminRegistry ---------------------------
(***************************************************************************)
(* What the last-administrator guard promises, without transactions, locks *)
(* or time: every change of who may administer the installation is atomic, *)
(* additions are unconditional, and a removal happens only while somebody  *)
(* else may administer it or it takes nothing from an administrator.       *)
(***************************************************************************)
CONSTANT Person

VARIABLES
  holders, \* the people who hold ADMIN
  active   \* [Person -> BOOLEAN]

vars == <<holders, active>>

Admins == {p \in holders : active[p]}

TypeOK == holders \subseteq Person /\ active \in [Person -> BOOLEAN]

Init == TypeOK /\ Admins # {}

Grant(p) == holders' = holders \cup {p} /\ UNCHANGED active

Activate(p) == active' = [active EXCEPT ![p] = TRUE] /\ UNCHANGED holders

\* Reconciliation of a protected administrator: ADMIN is granted if missing.
Restore(p) ==
  /\ active' = [active EXCEPT ![p] = TRUE]
  /\ holders' \in {holders, holders \cup {p}}

\* The condition both removals share.
MayRemove(p) == Admins \ {p} # {} \/ p \notin Admins

Revoke(p) == MayRemove(p) /\ holders' = holders \ {p} /\ UNCHANGED active

Deactivate(p) ==
  /\ MayRemove(p)
  /\ active' = [active EXCEPT ![p] = FALSE]
  /\ UNCHANGED holders

Next ==
  \E p \in Person : Grant(p) \/ Activate(p) \/ Restore(p) \/ Revoke(p) \/ Deactivate(p)

Spec == Init /\ [][Next]_vars

\* What the registry is for: somebody can administer the installation.
KeepsAdmin == Admins # {}
=============================================================================
