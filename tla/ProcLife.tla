------------------------------ MODULE ProcLife ------------------------------
(***************************************************************************)
(* The life of a process (kernel/proc.c): fork, exit, wait, kill and       *)
(* reparenting to init, with wait_lock and the process table.              *)
(*                                                                         *)
(* The scheduler is abstracted: RUNNING and RUNNABLE are one state, and    *)
(* what is done to one slot under its p->lock is one step (Sched.tla shows *)
(* why that is sound).  Sections under wait_lock are split wherever kill() *)
(* or fork(), which do not take it, can come in between.                   *)
(***************************************************************************)
EXTENDS Integers, FiniteSets

CONSTANTS
    NProc,      \* NPROC
    MaxPid,     \* bound: fork() is called while nextpid is at most this
    KillPids    \* the pids that kill() is called with

ASSUME ProcAssumption ==
    NProc \in Nat \ {0} /\ MaxPid \in Nat \ {0} /\ KillPids \subseteq Nat

Procs == 1..NProc
NoProc == 0
initproc == 1

VARIABLES
    state, pid, parent, killed,     \* the fields of struct proc
    nextpid,
    wait_lock,                      \* the process that holds it, or NoProc
    pc,                             \* where the process is in its system call
    np,                             \* fork()'s local np
    asked                           \* history: the pids something asked to kill

vars == <<state, pid, parent, killed, nextpid, wait_lock, pc, np, asked>>

PCs == {"none", "user", "fork_parent", "fork_run", "exit", "exit_wakeup",
        "exit_zombie", "wait", "scan", "sleep", "asleep"}

TypeOK ==
    /\ state \in [Procs -> {"UNUSED", "USED", "SLEEPING", "RUNNABLE", "ZOMBIE"}]
    /\ pid \in [Procs -> 0..MaxPid]
    /\ parent \in [Procs -> Procs \cup {NoProc}]
    /\ killed \in [Procs -> {0, 1}]
    /\ nextpid \in 1..MaxPid + 1
    /\ wait_lock \in Procs \cup {NoProc}
    /\ pc \in [Procs -> PCs]
    /\ np \in [Procs -> Procs \cup {NoProc}]
    /\ asked \subseteq KillPids \cup 0..MaxPid

(* After userinit().                                                       *)
Init ==
    /\ state = [p \in Procs |-> IF p = initproc THEN "RUNNABLE" ELSE "UNUSED"]
    /\ pid = [p \in Procs |-> IF p = initproc THEN 1 ELSE 0]
    /\ parent = [p \in Procs |-> NoProc]
    /\ killed = [p \in Procs |-> 0]
    /\ nextpid = 2
    /\ wait_lock = NoProc
    /\ pc = [p \in Procs |-> IF p = initproc THEN "user" ELSE "none"]
    /\ np = [p \in Procs |-> NoProc]
    /\ asked = {}

-----------------------------------------------------------------------------
at(p, l) == state[p] = "RUNNABLE" /\ pc[p] = l

goto(p, l) == pc' = [pc EXCEPT ![p] = l]

(* Only p sleeps on the channel p, in wait().                              *)
woken(st, p) ==
    IF p # NoProc /\ st[p] = "SLEEPING" THEN [st EXCEPT ![p] = "RUNNABLE"] ELSE st

(* freeproc(q)'s effect on the table.                                      *)
freeproc(q) ==
    /\ pid' = [pid EXCEPT ![q] = 0]
    /\ parent' = [parent EXCEPT ![q] = NoProc]
    /\ killed' = [killed EXCEPT ![q] = 0]
    /\ state' = [state EXCEPT ![q] = "UNUSED"]

-----------------------------------------------------------------------------
(* usertrap(): a killed process starts no system call and does not return  *)
(* from one.                                                               *)
syscall(p) == at(p, "user") /\ killed[p] = 0

usertrap_killed(p) ==
    /\ at(p, "user") /\ killed[p] = 1 /\ p # initproc
    /\ goto(p, "exit")
    /\ UNCHANGED <<state, pid, parent, killed, nextpid, wait_lock, np, asked>>

(* fork(), up to release(&np->lock).  The scan of allocproc() may find any *)
(* slot that is free when it looks at it.                                  *)
fork_alloc(p, q) ==
    /\ syscall(p) /\ nextpid <= MaxPid
    /\ state[q] = "UNUSED"
    /\ pid' = [pid EXCEPT ![q] = nextpid]
    /\ nextpid' = nextpid + 1
    /\ state' = [state EXCEPT ![q] = "USED"]
    /\ np' = [np EXCEPT ![p] = q]
    /\ goto(p, "fork_parent")
    /\ UNCHANGED <<parent, killed, wait_lock, asked>>

(* kalloc(), proc_pagetable() or uvmcopy() fails: the pid is spent.        *)
fork_fails(p, q) ==
    /\ syscall(p) /\ nextpid <= MaxPid
    /\ state[q] = "UNUSED"
    /\ nextpid' = nextpid + 1
    /\ freeproc(q)
    /\ UNCHANGED <<wait_lock, pc, np, asked>>

fork_parent(p) ==
    /\ at(p, "fork_parent")
    /\ wait_lock = NoProc
    /\ parent' = [parent EXCEPT ![np[p]] = p]
    /\ goto(p, "fork_run")
    /\ UNCHANGED <<state, pid, killed, nextpid, wait_lock, np, asked>>

fork_run(p) ==
    /\ at(p, "fork_run")
    /\ state' = [state EXCEPT ![np[p]] = "RUNNABLE"]
    /\ pc' = [pc EXCEPT ![p] = "user", ![np[p]] = "user"]
    /\ np' = [np EXCEPT ![p] = NoProc]
    /\ UNCHANGED <<pid, parent, killed, nextpid, wait_lock, asked>>

(* exit(), from the point where the files are closed.                      *)
exit(p) ==
    /\ syscall(p) /\ p # initproc
    /\ goto(p, "exit")
    /\ UNCHANGED <<state, pid, parent, killed, nextpid, wait_lock, np, asked>>

(* Mutants: exit() keeps its children; it hands them over silently.        *)
reparent_nobody(p) ==
    /\ at(p, "exit")
    /\ wait_lock = NoProc
    /\ wait_lock' = p
    /\ goto(p, "exit_wakeup")
    /\ UNCHANGED <<state, pid, parent, killed, nextpid, np, asked>>

reparent_silent(p) ==
    /\ at(p, "exit")
    /\ wait_lock = NoProc
    /\ wait_lock' = p
    /\ parent' = [q \in Procs |-> IF parent[q] = p THEN initproc ELSE parent[q]]
    /\ goto(p, "exit_wakeup")
    /\ UNCHANGED <<state, pid, killed, nextpid, np, asked>>

reparent(p) ==
    /\ at(p, "exit")
    /\ wait_lock = NoProc
    /\ wait_lock' = p
    /\ parent' = [q \in Procs |-> IF parent[q] = p THEN initproc ELSE parent[q]]
    /\ state' = IF \E q \in Procs : parent[q] = p THEN woken(state, initproc) ELSE state
    /\ goto(p, "exit_wakeup")
    /\ UNCHANGED <<pid, killed, nextpid, np, asked>>

exit_wakeup(p) ==
    /\ at(p, "exit_wakeup")
    /\ state' = woken(state, parent[p])
    /\ goto(p, "exit_zombie")
    /\ UNCHANGED <<pid, parent, killed, nextpid, wait_lock, np, asked>>

exit_zombie(p) ==
    /\ at(p, "exit_zombie")
    /\ state' = [state EXCEPT ![p] = "ZOMBIE"]
    /\ wait_lock' = NoProc
    /\ goto(p, "none")
    /\ UNCHANGED <<pid, parent, killed, nextpid, np, asked>>

(* wait().                                                                 *)
wait(p) ==
    /\ syscall(p)
    /\ goto(p, "wait")
    /\ UNCHANGED <<state, pid, parent, killed, nextpid, wait_lock, np, asked>>

(* acquire(&wait_lock), at the start of wait() or at the end of sleep().   *)
wait_acquire(p) ==
    /\ at(p, "wait") \/ at(p, "asleep")
    /\ wait_lock = NoProc
    /\ wait_lock' = p
    /\ goto(p, "scan")
    /\ UNCHANGED <<state, pid, parent, killed, nextpid, np, asked>>

children(p) == {q \in Procs : parent[q] = p}

(* Mutant: wait() looks at its first child only.                           *)
zombies_first(p) ==
    {q \in children(p) : state[q] = "ZOMBIE" /\ \A r \in children(p) : q <= r}

zombies(p) == {q \in children(p) : state[q] = "ZOMBIE"}

(* The scan frees the first zombie child.                                  *)
wait_reap(p) ==
    /\ at(p, "scan")
    /\ \E q \in zombies(p) :
        /\ \A r \in zombies(p) : q <= r
        /\ freeproc(q)
    /\ wait_lock' = NoProc
    /\ goto(p, "user")
    /\ UNCHANGED <<nextpid, np, asked>>

(* copyout() of the status fails; init passes no address.                  *)
wait_bad_address(p) ==
    /\ at(p, "scan") /\ p # initproc
    /\ zombies(p) # {}
    /\ wait_lock' = NoProc
    /\ goto(p, "user")
    /\ UNCHANGED <<state, pid, parent, killed, nextpid, np, asked>>

wait_gives_up(p) ==
    /\ at(p, "scan")
    /\ zombies(p) = {}
    /\ children(p) = {} \/ killed[p] = 1
    /\ wait_lock' = NoProc
    /\ goto(p, "user")
    /\ UNCHANGED <<state, pid, parent, killed, nextpid, np, asked>>

(* Mutant: wait() does not look at p->killed.                              *)
wait_must_sleep_killed(p) ==
    /\ at(p, "scan")
    /\ zombies(p) = {} /\ children(p) # {}
    /\ goto(p, "sleep")
    /\ UNCHANGED <<state, pid, parent, killed, nextpid, wait_lock, np, asked>>

(* The decision to sleep is taken before p->lock is acquired again.        *)
wait_must_sleep(p) ==
    /\ at(p, "scan")
    /\ zombies(p) = {} /\ children(p) # {} /\ killed[p] = 0
    /\ goto(p, "sleep")
    /\ UNCHANGED <<state, pid, parent, killed, nextpid, wait_lock, np, asked>>

wait_sleep(p) ==
    /\ at(p, "sleep")
    /\ state' = [state EXCEPT ![p] = "SLEEPING"]
    /\ wait_lock' = NoProc
    /\ goto(p, "asleep")
    /\ UNCHANGED <<pid, parent, killed, nextpid, np, asked>>

-----------------------------------------------------------------------------
(* kill(n): the first slot whose pid is n.                                 *)
kill(p, n) ==
    /\ syscall(p)
    /\ \E q \in Procs :
        /\ pid[q] = n /\ \A r \in Procs : pid[r] = n => q <= r
        /\ killed' = [killed EXCEPT ![q] = 1]
        /\ state' = woken(state, q)
    /\ asked' = asked \cup {n}
    /\ UNCHANGED <<pid, parent, nextpid, wait_lock, pc, np>>

(* setkilled() after an exception in user code.                            *)
setkilled(p) ==
    /\ at(p, "user") /\ p # initproc
    /\ killed' = [killed EXCEPT ![p] = 1]
    /\ asked' = asked \cup {pid[p]}
    /\ UNCHANGED <<state, pid, parent, nextpid, wait_lock, pc, np>>

-----------------------------------------------------------------------------
(* What a process does once it is in the kernel, and what it may call.     *)
kernel(p) ==
    \/ usertrap_killed(p)
    \/ fork_parent(p) \/ fork_run(p)
    \/ reparent(p) \/ exit_wakeup(p) \/ exit_zombie(p)
    \/ wait_acquire(p) \/ wait_reap(p) \/ wait_bad_address(p)
    \/ wait_gives_up(p) \/ wait_must_sleep(p) \/ wait_sleep(p)

call(p) ==
    \/ \E q \in Procs : fork_alloc(p, q) \/ fork_fails(p, q)
    \/ exit(p) \/ wait(p) \/ setkilled(p)
    \/ \E n \in KillPids : kill(p, n)

Next == \E p \in Procs : kernel(p) \/ call(p)

Spec == Init /\ [][Next]_vars

(* A process in the kernel keeps running and gets wait_lock in its turn;   *)
(* the timer makes a killed process trap; init calls wait() for ever       *)
(* (user/init.c).                                                          *)
Fairness ==
    /\ \A p \in Procs : SF_vars(kernel(p))
    /\ SF_vars(wait(initproc))

FairSpec == Spec /\ Fairness

-----------------------------------------------------------------------------
(* Properties.                                                             *)

Live == {p \in Procs : state[p] \in {"SLEEPING", "RUNNABLE"}}

(* allocpid() and freeproc() keep pids apart: a slot in use has a pid of   *)
(* its own, which is below nextpid, and a free slot has pid 0 and no       *)
(* parent, so that kill() and wait() cannot mistake it for a process.      *)
PidsUnique ==
    \A p \in Procs :
        /\ state[p] = "UNUSED" => pid[p] = 0 /\ parent[p] = NoProc
        /\ state[p] # "UNUSED" =>
              /\ pid[p] \in 1..nextpid - 1
              /\ \A q \in Procs \ {p} : pid[q] # pid[p]

(* Every process that runs or is a zombie has a parent that can still wait *)
(* for it: reparent() leaves no child behind when its parent exits, and a  *)
(* parent is set before the child first runs.                              *)
ParentAlive ==
    \A q \in Procs \ {initproc} :
        /\ state[q] \in {"SLEEPING", "RUNNABLE", "ZOMBIE"} => parent[q] \in Live
        /\ state[q] = "USED" => parent[q] \in Live \cup {NoProc}

(* No parent sleeps in wait() while it has a zombie child: the wakeup()    *)
(* of exit() and that of reparent() are not lost.                          *)
NoSleepWithZombie ==
    \A p \in Procs : state[p] = "SLEEPING" => zombies(p) = {}

(* Only kill() with the pid of the process, or an exception of its own,    *)
(* makes a process killed (kernel/proc.c: "Kill the process with the given *)
(* pid").                                                                  *)
KilledOnlyByRequest ==
    \A p \in Live : killed[p] = 1 => pid[p] \in asked

(* A zombie that was handed to init is reaped.                             *)
InitReaps ==
    \A q \in Procs : (state[q] = "ZOMBIE" /\ parent[q] = initproc) ~> state[q] # "ZOMBIE"

(* A killed process exits, from anywhere but one place: killed after       *)
(* wait() last looked at p->killed and before it sleeps, it stays in       *)
(* wait() until one of its children exits.                                 *)
KilledExits ==
    \A p \in Procs \ {initproc} :
        (p \in Live /\ killed[p] = 1 /\ pc[p] # "sleep" /\ state[p] # "SLEEPING")
            ~> state[p] = "ZOMBIE"

(* What fork(), exit() and wait() keep true of the process table together: *)
(* its types, distinct pids, a parent for every child, and no kill that    *)
(* was meant for another.                                                  *)
FamilyConsistent == TypeOK /\ PidsUnique /\ ParentAlive /\ KilledOnlyByRequest

=============================================================================
