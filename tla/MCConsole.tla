----------------------------- MODULE MCConsole -----------------------------
(* Console with input and output buffers of a few characters. *)
EXTENDS Console

CONSTANTS r1, r2, w1, w2, k1

\* mostly input, or mostly output
MCLoads == {[keys |-> 3, active |-> {r1}], [keys |-> 2, active |-> {r1, r2}],
            [keys |-> 1, active |-> {w1, k1}], [keys |-> 0, active |-> {w1, w2}]}
=============================================================================
