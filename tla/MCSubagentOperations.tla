------------------------ MODULE MCSubagentOperations ------------------------
(* An instance of SubagentOperations; children are interchangeable. *)
EXTENDS SubagentOperations, TLC

ChildSymmetry == Permutations(Child)
=============================================================================
