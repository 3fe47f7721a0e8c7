----------------------------- MODULE MCAccess -----------------------------
(***************************************************************************)
(* Access for TLC: the operations that are sent, the headers and the scope *)
(* lists. Requests are interchangeable, and so are tokens. TokenText with  *)
(* a short alphabet and a prefix that has an underscore, like tallox_.     *)
(***************************************************************************)
EXTENDS TokenText, TLC

\* Two areas in one mutation, one of them interactive only; and a revocation.
MCOperation ==
  {{"createSemester", "createPersonalAccessToken"}, {"revokePersonalAccessToken"}}

MCAssumable == {Role}

MCScoping == {{}, {[area |-> "PLANNING", verb |-> "WRITE"]}}

MCPrefix == <<"t", "_">>

AccessSymmetry == Permutations(Request) \cup Permutations(Token)
=============================================================================
