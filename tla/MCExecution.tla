---------------------------- MODULE MCExecution ----------------------------
(***************************************************************************)
(* Execution for TLC: every short mutation whose fields may hide behind a  *)
(* fragment, a fragment in a fragment and @skip, one with no field of its  *)
(* own, and queries with a field asked twice, a fragment spread twice, and *)
(* nothing but introspection.                                              *)
(***************************************************************************)
EXTENDS Execution

F(name) == [kind |-> "field", name |-> name, key |-> name, on |-> TRUE]
Fragment(kind, set, on) == [kind |-> kind, set |-> set, on |-> on]

MCSetName == {"op", "A", "I"}

Document1(write, op, a, i) ==
  [write |-> write,
   sets |-> [n \in MCSetName |-> CASE n = "op" -> op [] n = "A" -> a [] n = "I" -> i]]

UpTo2(S) == {<<x>> : x \in S} \cup {<<x, y>> : x, y \in S}

Mutations ==
  {Document1(TRUE, op, a, i) :
     op \in UpTo2({F("createSemester"), Fragment("spread", "A", TRUE),
                   Fragment("spread", "A", FALSE), Fragment("inline", "I", TRUE)}),
     a \in UpTo2({F("createPersonalAccessToken"), Fragment("inline", "I", TRUE)}),
     i \in {<<F("publishWishes")>>, <<F("__typename"), F("setPersonRoles")>>}}

Queries ==
  {Document1(FALSE,
             <<F("semesters"), Fragment("spread", "A", TRUE), Fragment("spread", "A", TRUE)>>,
             <<F("person"), Fragment("inline", "I", TRUE), F("semesters")>>,
             <<F("me"), F("buildInfo")>>),
   Document1(FALSE, <<Fragment("inline", "I", TRUE)>>, <<>>, <<F("__typename")>>)}

MCDocument == Mutations \cup Queries \cup {Document1(TRUE, <<F("__typename")>>, <<>>, <<>>)}

Write(area) == [area |-> area, verb |-> "WRITE"]

MCCredential ==
  {[kind |-> "none", scopes |-> {}], [kind |-> "interactive", scopes |-> {}]} \cup
  {[kind |-> "token", scopes |-> S] :
     S \in {{}, {Write("PLANNING")}, {Write("PLANNING"), Write("TOKENS")},
            {Write("PLANNING"), Write("ADMIN"), [area |-> "PROFILE", verb |-> "READ"]}}}
=============================================================================
