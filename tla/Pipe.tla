-------------------------------- MODULE Pipe --------------------------------
(***************************************************************************)
(* A pipe (kernel/pipe.c) shared by several readers and writers, from the  *)
(* end of pipealloc() to the kfree() of pipeclose(), with the reference    *)
(* counts of its two struct files (fileclose in kernel/file.c).            *)
(*                                                                         *)
(* sleep() releases pi->lock and goes to sleep in one step (Sched.tla).    *)
(* kill() may come between any two iterations of a loop, lock held or not. *)
(***************************************************************************)
EXTENDS Integers, Sequences, FiniteSets

CONSTANTS
    Readers, Writers,   \* the processes that start with an end open
    Killable,           \* the processes kill() is called for
    Bytes,
    PipeSize,           \* PIPESIZE
    Counters,           \* 2^32: nread and nwrite are of type uint
    Sizes,              \* the byte counts that read and write are called with
    NoProc

Procs == Readers \cup Writers

ASSUME PipeAssumption ==
    /\ PipeSize \in Nat \ {0} /\ Counters \in Nat \ {0}
    /\ Counters % PipeSize = 0 /\ Counters > PipeSize
    /\ Sizes \subseteq Nat /\ Killable \subseteq Procs /\ NoProc \notin Procs

VARIABLES
    lock,                   \* who holds pi->lock
    data, nread, nwrite, readopen, writeopen,
    freed,                  \* 1 after kfree(pi)
    rfile, wfile,           \* the processes that refer to each struct file
    pc, i, n,               \* the call in progress and its locals i and n
    asleep,                 \* the processes in state SLEEPING
    killed

vars == <<lock, data, nread, nwrite, readopen, writeopen, freed, rfile, wfile,
          pc, i, n, asleep, killed>>

PCs == {"idle", "write", "w_loop", "w_sleep", "w_asleep",
        "read", "r_wait", "r_sleep", "r_asleep", "r_copy", "close_r", "close_w"}

TypeOK ==
    /\ lock \in Procs \cup {NoProc}
    /\ data \in [0..PipeSize - 1 -> Bytes]
    /\ nread \in 0..Counters - 1 /\ nwrite \in 0..Counters - 1
    /\ readopen \in {0, 1} /\ writeopen \in {0, 1} /\ freed \in {0, 1}
    /\ rfile \subseteq Readers /\ wfile \subseteq Writers
    /\ pc \in [Procs -> PCs]
    /\ i \in [Procs -> Nat] /\ n \in [Procs -> Sizes \cup {0}]
    /\ asleep \subseteq Procs /\ killed \subseteq Killable

Init ==
    /\ lock = NoProc
    /\ data \in [0..PipeSize - 1 -> Bytes]
    /\ nread = 0 /\ nwrite = 0
    /\ readopen = 1 /\ writeopen = 1 /\ freed = 0
    /\ rfile = Readers /\ wfile = Writers
    /\ pc = [p \in Procs |-> "idle"]
    /\ i = [p \in Procs |-> 0] /\ n = [p \in Procs |-> 0]
    /\ asleep = {} /\ killed = {}

-----------------------------------------------------------------------------
up(k) == (k + 1) % Counters
(* Mutant: pipewrite() lets one byte too many in.                          *)
full_off_by_one == nwrite = (nread + PipeSize + 1) % Counters

full == nwrite = (nread + PipeSize) % Counters
empty == nread = nwrite

(* wakeup(&pi->nread) wakes readers, wakeup(&pi->nwrite) writers.          *)
readers_asleep == {p \in asleep : pc[p] = "r_asleep"}
writers_asleep == {p \in asleep : pc[p] = "w_asleep"}

goto(p, l) == pc' = [pc EXCEPT ![p] = l]

holds(p, l) == pc[p] = l /\ lock = p

(* The end of a call: the locals die with its frame.                       *)
return(p) ==
    /\ lock' = NoProc
    /\ goto(p, "idle")
    /\ i' = [i EXCEPT ![p] = 0]
    /\ n' = [n EXCEPT ![p] = 0]

ends == <<readopen, writeopen, freed, rfile, wfile>>
buffer == <<data, nread, nwrite>>

-----------------------------------------------------------------------------
(* pipewrite().                                                            *)

write(p, k) ==
    /\ pc[p] = "idle" /\ p \in wfile /\ p \notin killed
    /\ n' = [n EXCEPT ![p] = k]
    /\ goto(p, "write")
    /\ UNCHANGED <<lock, buffer, ends, i, asleep, killed>>

(* acquire(&pi->lock), at the start or at the end of sleep().              *)
write_acquire(p) ==
    /\ pc[p] \in {"write", "w_asleep"} /\ p \notin asleep
    /\ lock = NoProc
    /\ lock' = p
    /\ goto(p, "w_loop")
    /\ UNCHANGED <<buffer, ends, i, n, asleep, killed>>

write_aborts(p) == i[p] < n[p] /\ (readopen = 0 \/ p \in killed)
write_continues(p) == i[p] < n[p] /\ readopen = 1 /\ p \notin killed

pipewrite_fails(p) ==
    /\ holds(p, "w_loop")
    /\ write_aborts(p)
    /\ return(p)
    /\ UNCHANGED <<buffer, ends, asleep, killed>>

pipewrite_full(p) ==
    /\ holds(p, "w_loop")
    /\ write_continues(p) /\ full
    /\ asleep' = asleep \ readers_asleep
    /\ goto(p, "w_sleep")
    /\ UNCHANGED <<lock, buffer, ends, i, n, killed>>

pipewrite_sleep(p) ==
    /\ holds(p, "w_sleep")
    /\ asleep' = asleep \cup {p}
    /\ lock' = NoProc
    /\ goto(p, "w_asleep")
    /\ UNCHANGED <<buffer, ends, i, n, killed>>

pipewrite_byte(p, v) ==
    /\ holds(p, "w_loop")
    /\ write_continues(p) /\ ~full
    /\ data' = [data EXCEPT ![nwrite % PipeSize] = v]
    /\ nwrite' = up(nwrite)
    /\ i' = [i EXCEPT ![p] = @ + 1]
    /\ UNCHANGED <<lock, nread, ends, pc, n, asleep, killed>>

(* The loop is done, or copyin() fails.                                    *)
pipewrite_end(p) ==
    /\ holds(p, "w_loop")
    /\ i[p] = n[p] \/ (write_continues(p) /\ ~full)
    /\ asleep' = asleep \ readers_asleep
    /\ return(p)
    /\ UNCHANGED <<buffer, ends, killed>>

-----------------------------------------------------------------------------
(* piperead().                                                             *)

read(p, k) ==
    /\ pc[p] = "idle" /\ p \in rfile /\ p \notin killed
    /\ n' = [n EXCEPT ![p] = k]
    /\ goto(p, "read")
    /\ UNCHANGED <<lock, buffer, ends, i, asleep, killed>>

read_acquire(p) ==
    /\ pc[p] \in {"read", "r_asleep"} /\ p \notin asleep
    /\ lock = NoProc
    /\ lock' = p
    /\ goto(p, "r_wait")
    /\ UNCHANGED <<buffer, ends, i, n, asleep, killed>>

read_waits == empty /\ writeopen = 1

piperead_killed(p) ==
    /\ holds(p, "r_wait")
    /\ read_waits /\ p \in killed
    /\ return(p)
    /\ UNCHANGED <<buffer, ends, asleep, killed>>

piperead_wait(p) ==
    /\ holds(p, "r_wait")
    /\ goto(p, IF read_waits THEN "r_sleep" ELSE "r_copy")
    /\ read_waits => p \notin killed
    /\ UNCHANGED <<lock, buffer, ends, i, n, asleep, killed>>

(* Mutant: the reader sleeps without giving up the lock.                   *)
piperead_sleep_locked(p) ==
    /\ holds(p, "r_sleep")
    /\ asleep' = asleep \cup {p}
    /\ goto(p, "r_asleep")
    /\ UNCHANGED <<lock, buffer, ends, i, n, killed>>

piperead_sleep(p) ==
    /\ holds(p, "r_sleep")
    /\ asleep' = asleep \cup {p}
    /\ lock' = NoProc
    /\ goto(p, "r_asleep")
    /\ UNCHANGED <<buffer, ends, i, n, killed>>

piperead_byte(p) ==
    /\ holds(p, "r_copy")
    /\ i[p] < n[p] /\ ~empty
    /\ nread' = up(nread)
    /\ i' = [i EXCEPT ![p] = @ + 1]
    /\ UNCHANGED <<lock, data, nwrite, ends, pc, n, asleep, killed>>

(* copyout() fails: the byte is gone.                                      *)
piperead_bad_address(p) ==
    /\ holds(p, "r_copy")
    /\ i[p] < n[p] /\ ~empty
    /\ nread' = up(nread)
    /\ asleep' = asleep \ writers_asleep
    /\ return(p)
    /\ UNCHANGED <<data, nwrite, ends, killed>>

piperead_end(p) ==
    /\ holds(p, "r_copy")
    /\ i[p] = n[p] \/ empty
    /\ asleep' = asleep \ writers_asleep
    /\ return(p)
    /\ UNCHANGED <<buffer, ends, killed>>

-----------------------------------------------------------------------------
(* close() and exit(): fileclose() drops a reference, and calls            *)
(* pipeclose() after the last.                                             *)

close_read(p) ==
    /\ pc[p] = "idle" /\ p \in rfile
    /\ rfile' = rfile \ {p}
    /\ goto(p, IF rfile = {p} THEN "close_r" ELSE "idle")
    /\ UNCHANGED <<lock, buffer, readopen, writeopen, freed, wfile, i, n, asleep, killed>>

close_write(p) ==
    /\ pc[p] = "idle" /\ p \in wfile
    /\ wfile' = wfile \ {p}
    /\ goto(p, IF wfile = {p} THEN "close_w" ELSE "idle")
    /\ UNCHANGED <<lock, buffer, readopen, writeopen, freed, rfile, i, n, asleep, killed>>

(* Mutant: pipeclose() frees the pipe when either end is closed.           *)
pipeclose_either(p) ==
    /\ pc[p] \in {"close_r", "close_w"}
    /\ lock = NoProc
    /\ IF pc[p] = "close_w"
       THEN writeopen' = 0 /\ asleep' = asleep \ readers_asleep /\ UNCHANGED readopen
       ELSE readopen' = 0 /\ asleep' = asleep \ writers_asleep /\ UNCHANGED writeopen
    /\ freed' = 1
    /\ goto(p, "idle")
    /\ UNCHANGED <<lock, buffer, rfile, wfile, i, n, killed>>

(* kfree() follows the release of the lock.                                *)
pipeclose(p) ==
    /\ pc[p] \in {"close_r", "close_w"}
    /\ lock = NoProc
    /\ IF pc[p] = "close_w"
       THEN writeopen' = 0 /\ asleep' = asleep \ readers_asleep /\ UNCHANGED readopen
       ELSE readopen' = 0 /\ asleep' = asleep \ writers_asleep /\ UNCHANGED writeopen
    /\ freed' = IF readopen' = 0 /\ writeopen' = 0 THEN 1 ELSE freed
    /\ goto(p, "idle")
    /\ UNCHANGED <<lock, buffer, rfile, wfile, i, n, killed>>

kill(p) ==
    /\ p \in Killable \ killed
    /\ killed' = killed \cup {p}
    /\ asleep' = asleep \ {p}
    /\ UNCHANGED <<lock, buffer, ends, pc, i, n>>

-----------------------------------------------------------------------------
pipewrite(p) ==
    \/ write_acquire(p) \/ pipewrite_fails(p) \/ pipewrite_full(p)
    \/ pipewrite_sleep(p) \/ pipewrite_end(p)
    \/ \E v \in Bytes : pipewrite_byte(p, v)

piperead(p) ==
    \/ read_acquire(p) \/ piperead_killed(p) \/ piperead_wait(p)
    \/ piperead_sleep(p) \/ piperead_byte(p)
    \/ piperead_bad_address(p) \/ piperead_end(p)

close(p) == close_read(p) \/ close_write(p)

Next ==
    \E p \in Procs :
        \/ pipewrite(p) \/ piperead(p) \/ close(p) \/ pipeclose(p) \/ kill(p)
        \/ \E k \in Sizes : write(p, k) \/ read(p, k)

Spec == Init /\ [][Next]_vars

(* A call that can go on does, a lock that is free again and again is      *)
(* taken at last, and every process closes its ends or exits some day.     *)
Fairness ==
    \A p \in Procs : /\ SF_vars(pipewrite(p) \/ piperead(p) \/ pipeclose(p))
                      /\ SF_vars(close(p))

FairSpec == Spec /\ Fairness

-----------------------------------------------------------------------------
(* Properties.                                                             *)

Buffered ==
    [k \in 1..((nwrite - nread) % Counters) |-> data[(nread + k - 1) % PipeSize]]

Channel == INSTANCE ByteChannel
    WITH queue <- Buffered, Capacity <- PipeSize,
         readopen <- readopen, writeopen <- writeopen, Bytes <- Bytes

(* The ring buffer with its wrapping counters is a first-in first-out      *)
(* queue of at most PIPESIZE bytes, whatever readers, writers, closes and  *)
(* kills do at the same time; after the last writer has closed, nothing    *)
(* is added, so an end of file is final.                                   *)
ImplementsByteChannel == Channel!Spec

(* The page of the pipe is freed only when no process is in or can start   *)
(* a call on it: neither file has a reference left.                        *)
NoUseAfterFree ==
    freed = 1 => /\ rfile = {} /\ wfile = {} /\ lock = NoProc
                 /\ \A p \in Procs : pc[p] = "idle"

(* A process that sleeps in piperead() or pipewrite() waits for something: *)
(* the wakeups of the other side and of pipeclose() are not lost, while no *)
(* writer is killed.                                                       *)
NoLostWakeup ==
    lock = NoProc =>
        /\ writers_asleep # {} => full /\ readopen = 1
        /\ readers_asleep # {} => \/ empty /\ writeopen = 1
                                  \/ killed \cap Writers # {}

(* Every read and write returns, once the processes at the other end read, *)
(* write, close or exit.                                                   *)
CallsReturn == \A p \in Procs : pc[p] # "idle" ~> pc[p] = "idle"

(* The types, counters that wrap included, with the lifetime of the pipe   *)
(* that pipeclose() ends and a reason for every sleep.                     *)
PipeConsistent == TypeOK /\ NoUseAfterFree /\ NoLostWakeup

=============================================================================
