----------------------------- MODULE MCFileData -----------------------------
(* FileData on a disk of a few blocks of two bytes. *)
EXTENDS FileData, TLC

\* one file of one byte, or of six (all direct blocks and one indirect one)
MCImages == {<<<<1>>>>, <<<<1, 2, 3, 1, 2, 3>>>>}
Symmetry == Permutations(Procs) \cup Permutations(Files)
=============================================================================
