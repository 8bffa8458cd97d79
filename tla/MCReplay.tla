------------------------------ MODULE MCReplay ------------------------------
(* An instance of Replay for TLC. *)
EXTENDS Replay

\* A range, one walked down, a pair in the wrong order, and lists, one that names a block twice.
Calls == {<<1, 3>>, <<0, 3>>, <<3, 1>>, <<3, 1, 2>>, <<2, 1, 2>>}

\* At most one block holds something that is not plain.
OneOdd == {[b \in Blocks |-> IF b = odd THEN k ELSE "plain"] : odd \in {2}, k \in Kinds}
=============================================================================
