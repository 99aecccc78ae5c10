------------------------------ MODULE MCFileSys ------------------------------
(* Instances of FileSys for TLC. *)
EXTENDS FileSys, TLC

CONSTANTS p1, p2

TwoProcs == {p1, p2}
Downward == {<<>>, <<"a">>, <<"b">>, <<"a", "b">>}
AllCalls == {"open", "create", "mkdir", "unlink", "link", "chdir", "close"}
Symmetry == Permutations(Procs)
=============================================================================
