---------------------------- MODULE MCProcessDirs ----------------------------
(* Instances of ProcessDirs for TLC. *)
EXTENDS ProcessDirs, TLC

CONSTANTS p1, p2, p3, b1, b2, b3, l1

SameName  == [x \in Batch \cup Loose |-> CASE x = l1 -> "store" [] x = b3 -> "2" [] OTHER -> "1"]
Processes == Permutations(Pid)
=============================================================================
