---------------------------- MODULE ByteChannel ----------------------------
(***************************************************************************)
(* What a pipe promises: a bounded first-in first-out queue of bytes with  *)
(* two ends, each closed once.  No byte enters after an end is closed, and *)
(* none leaves once there is no one to read.                               *)
(***************************************************************************)
EXTENDS Integers, Sequences

CONSTANTS Bytes, Capacity

VARIABLES queue, readopen, writeopen

chvars == <<queue, readopen, writeopen>>

Init == queue = <<>> /\ readopen = 1 /\ writeopen = 1

Put ==
    /\ readopen = 1 /\ writeopen = 1
    /\ Len(queue) < Capacity
    /\ \E v \in Bytes : queue' = Append(queue, v)
    /\ UNCHANGED <<readopen, writeopen>>

Get ==
    /\ readopen = 1 /\ queue # <<>>
    /\ queue' = Tail(queue)
    /\ UNCHANGED <<readopen, writeopen>>

CloseRead == readopen = 1 /\ readopen' = 0 /\ UNCHANGED <<queue, writeopen>>

CloseWrite == writeopen = 1 /\ writeopen' = 0 /\ UNCHANGED <<queue, readopen>>

Next == Put \/ Get \/ CloseRead \/ CloseWrite

Spec == Init /\ [][Next]_chvars
=============================================================================
