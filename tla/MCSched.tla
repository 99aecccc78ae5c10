------------------------------ MODULE MCSched ------------------------------
EXTENDS Sched, TLC

CONSTANTS c1, c2

TwoCPUs == {c1, c2}

(* CPUs are interchangeable; process slots are not, scans go in order.     *)
Symmetry == Permutations(CPUs)
=============================================================================
