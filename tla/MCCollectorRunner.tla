--------------------------- MODULE MCCollectorRunner ---------------------------
(* Instances of CollectorRunner for TLC. *)
EXTENDS CollectorRunner, TLC

CONSTANTS c1, c2, c3

\* Identities only have to differ.
Symmetry == Permutations({c1, c2, c3})
=============================================================================
