------------------------------- MODULE MCLog -------------------------------
(* Instances of Log for TLC. *)
EXTENDS Log

CONSTANTS p1, p2, b1, b2

Two == {p1, p2}
TwoBlocks == {b1, b2}

=============================================================================
