----------------------------- MODULE AtomicDisk -----------------------------
(***************************************************************************)
(* What the logging layer (kernel/log.c) promises the file system: system  *)
(* calls bracketed by begin_op()/end_op() update disk blocks in memory;    *)
(* the updates of all of them become durable in one indivisible step,      *)
(* taken only while no call is in progress, and a crash loses exactly the  *)
(* updates that have not become durable.                                   *)
(***************************************************************************)
CONSTANTS Procs,    \* processes that make file system calls
          Blocks,   \* home block numbers
          Values    \* contents of a block

VARIABLES durable,  \* what a reboot would find in each block
          current,  \* what the running file system sees in each block
          active    \* processes between begin_op() and end_op()

vars == <<durable, current, active>>

Init == /\ durable \in [Blocks -> Values]
        /\ current = durable
        /\ active = {}

Begin(p) == /\ p \notin active
            /\ active' = active \cup {p}
            /\ UNCHANGED <<durable, current>>

Write(p, b, v) == /\ p \in active
                  /\ current' = [current EXCEPT ![b] = v]
                  /\ UNCHANGED <<durable, active>>

End(p) == /\ p \in active
          /\ active' = active \ {p}
          /\ UNCHANGED <<durable, current>>

Commit == /\ active = {}
          /\ durable' = current
          /\ UNCHANGED <<current, active>>

Crash == /\ current' = durable
         /\ active' = {}
         /\ UNCHANGED durable

Next == \/ \E p \in Procs : \/ Begin(p)
                            \/ End(p)
                            \/ \E b \in Blocks, v \in Values : Write(p, b, v)
        \/ Commit
        \/ Crash

Spec == Init /\ [][Next]_vars
=============================================================================
