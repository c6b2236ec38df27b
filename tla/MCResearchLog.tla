------------------------------ MODULE MCResearchLog ------------------------------
(***************************************************************************)
(* Instances of ResearchLog.  The producers are interchangeable.           *)
(***************************************************************************)
EXTENDS ResearchLog, TLC

Symmetry == Permutations(Producers)

===============================================================================
