---------------------------- MODULE MCDivFinder ----------------------------
(* Instances of DivFinder for TLC: every block but the first has one result. *)
EXTENDS DivFinder

OneEach == [b \in Blocks |-> IF b = First THEN 0 ELSE 1]
=============================================================================
