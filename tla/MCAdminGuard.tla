--------------------------- MODULE MCAdminGuard ---------------------------
(***************************************************************************)
(* AdminGuard for TLC. Connections are interchangeable: nothing in the     *)
(* model tells one from another.                                           *)
(***************************************************************************)
EXTENDS AdminGuard, TLC

ConnSymmetry == Permutations(Conn)
=============================================================================
