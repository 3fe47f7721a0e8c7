----------------------------- MODULE MCStartup -----------------------------
(***************************************************************************)
(* Startup for TLC: an older image beside a newer one, and a list whose    *)
(* last entry has no mail address.                                         *)
(***************************************************************************)
EXTENDS Startup

CONSTANTS older, newer, ann

MCCarries == [s \in Server |-> IF s = newer THEN 2 ELSE 1]
MCLists == {<<ann>>, <<ann, NoMail>>}
=============================================================================
