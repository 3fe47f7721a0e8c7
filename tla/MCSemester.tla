---------------------------- MODULE MCSemester ----------------------------
(***************************************************************************)
(* Semester and WishVisibility for TLC: what people type, and the code it  *)
(* becomes, and the roles the rule tells apart.                            *)
(***************************************************************************)
EXTENDS WishVisibility

CONSTANT s2027

MCTyped == {"2027S", " 2027s ", "SS2027"}
MCNormal == [t \in MCTyped |-> IF t = "SS2027" THEN NoCode ELSE s2027]

MCRole == {"LECTURER", "PROGRAMME_LEAD", "DEANS_OFFICE", "ADMIN"}
=============================================================================
