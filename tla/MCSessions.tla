----------------------------- MODULE MCSessions -----------------------------
(***************************************************************************)
(* Instances of Sessions for TLC.                                          *)
(***************************************************************************)
EXTENDS Sessions, FiniteSets, TLC

\* The account that administrates at the start: the first one, as the seeder makes
\* it; the others are still to be given out.
OneAdmin ==
  [u \in UserIds |-> IF u = 1 THEN [name |-> CHOOSE n \in Usernames: TRUE, role |-> "admin", password |-> TRUE]
                     ELSE None]

CONSTANT MaxSessions    \* JWTs at a time

FewSessions == Cardinality(sessions) <= MaxSessions

Symmetry == Permutations(Slots)
=============================================================================
