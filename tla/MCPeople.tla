----------------------------- MODULE MCPeople -----------------------------
(***************************************************************************)
(* People for TLC. Whoever is not edited holds nothing but perhaps ADMIN,  *)
(* the only role of theirs that another person's call asks about. Calls    *)
(* are interchangeable.                                                    *)
(***************************************************************************)
EXTENDS People, TLC

MCInit ==
  /\ Init
  /\ \A p \in Person \ Edited, r \in Role \ {"ADMIN"} : until[p][r] = NoRow

MCSpec == MCInit /\ [][Next]_vars

\* An installation that has just started: its protected administrators are in.
\* Whoever else is an administrator is then not the last one.
StartedInit ==
  /\ MCInit
  /\ \A p \in Protected : p \in known /\ active[p] /\ until[p]["ADMIN"] = Never

StartedSpec == StartedInit /\ [][Next]_vars

CallSymmetry == Permutations(Call)
=============================================================================
