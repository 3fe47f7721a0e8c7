--------------------------- MODULE SchemaHistory ---------------------------
(***************************************************************************)
(* What migrating promises, whoever starts, waits, dies or starts again:   *)
(* the migrations of the newest image run one after another, each once and *)
(* none before the one it builds on.                                       *)
(***************************************************************************)
EXTENDS Naturals, Sequences

CONSTANT Newest  \* the last migration of the newest image

VARIABLE versions  \* the rows of goose_db_version, in the order of insertion

UpTo(n) == [v \in 1..n |-> v]

Init == \E n \in 0..Newest : versions = UpTo(n)

Next ==
  /\ Len(versions) < Newest
  /\ versions' = Append(versions, Len(versions) + 1)

Spec == Init /\ [][Next]_versions
=============================================================================
