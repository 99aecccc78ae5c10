------------------------------- MODULE Sched -------------------------------
(***************************************************************************)
(* Context switching, sleep and wakeup (kernel/proc.c), the interrupt      *)
(* bookkeeping of spin-locks (kernel/spinlock.c), preemption by the timer  *)
(* (kernel/trap.c), with sleep-locks (kernel/sleeplock.c) as the client    *)
(* that sleeps and wakes.                                                  *)
(*                                                                         *)
(* A CPU executes either its scheduler() loop or the kernel stack of a     *)
(* process: running[c] says which.  It is not the C variable c->proc: the  *)
(* two differ around every swtch, and that window is what p->lock is held  *)
(* across.  A critical section of a spin-lock that only looks at one slot  *)
(* is one step whose guard is that the lock is free; the sections during   *)
(* which other CPUs can act (sleep, wakeup, the two swtch) are split.      *)
(***************************************************************************)
EXTENDS Integers, FiniteSets

CONSTANTS
    CPUs,       \* the harts that called scheduler()
    NProc,      \* NPROC, the length of the process table
    NoCpu       \* the holder of a free spin-lock

ASSUME SchedAssumption == NProc \in Nat \ {0} /\ NoCpu \notin CPUs /\ CPUs # {}

Procs == 1..NProc
NoProc == 0

VARIABLES
    cpu,        \* struct cpu and the interrupt-enable bit of sstatus
    running,    \* the process whose kernel stack the CPU is on, or NoProc
    idx,        \* scheduler()'s position in the process table
    at,         \* where in its loop scheduler() is
    plock,      \* the CPU that holds p->lock
    state,      \* p->state
    chan,       \* p->chan: 1 for the sleep-lock, 0 for none
    pc,         \* where the kernel thread of the process is
    trap,       \* where its timer interrupt handler is, "none" outside one
    intena,     \* the local variable intena of sched(), on the kernel stack
    next,       \* the next slot wakeup() looks at
    lk,         \* the CPU that holds the spin-lock inside the sleep-lock
    locked,     \* lk->locked of the sleep-lock
    holder      \* lk->pid of the sleep-lock

vars == <<cpu, running, idx, at, plock, state, chan, pc, trap, intena, next,
          lk, locked, holder>>

States == {"UNUSED", "SLEEPING", "RUNNABLE", "RUNNING", "ZOMBIE"}

(* "work": outside the kernel or in it with no lock; "as_acquire":         *)
(* acquiresleep spins for lk->lk; "as_test": the while loop; "sleep_rel",  *)
(* "sleep_set": inside sleep(), p->lock held, before and after release(lk);*)
(* "sched": about to swtch away; "back": after that swtch; "reacquire":    *)
(* the end of sleep(); "critical": holds the sleep-lock; "rs_acquire",     *)
(* "wakeup": releasesleep; "exiting": exit() on its last call of sched().  *)
PCs == {"forkret", "work", "as_acquire", "as_test", "sleep_rel", "sleep_set",
        "sched", "back", "reacquire", "critical", "rs_acquire", "wakeup",
        "exiting"}

TypeOK ==
    /\ cpu \in [CPUs -> [proc : Procs \cup {NoProc}, noff : 0..2,
                         intena : {0, 1}, intr : {0, 1}]]
    /\ running \in [CPUs -> Procs \cup {NoProc}]
    /\ idx \in [CPUs -> Procs]
    /\ at \in [CPUs -> {"scan", "swtch", "ran"}]
    /\ plock \in [Procs -> CPUs \cup {NoCpu}]
    /\ state \in [Procs -> States]
    /\ chan \in [Procs -> {0, 1}]
    /\ pc \in [Procs -> PCs]
    /\ trap \in [Procs -> {"none", "yield", "sched", "back", "return"}]
    /\ intena \in [Procs -> {0, 1}]
    /\ next \in [Procs -> 1..NProc + 1]
    /\ lk \in CPUs \cup {NoCpu}
    /\ locked \in {0, 1}
    /\ holder \in Procs \cup {NoProc}

Init ==
    /\ cpu = [c \in CPUs |-> [proc |-> NoProc, noff |-> 0, intena |-> 0, intr |-> 1]]
    /\ running = [c \in CPUs |-> NoProc]
    /\ idx = [c \in CPUs |-> 1]
    /\ at = [c \in CPUs |-> "scan"]
    /\ plock = [p \in Procs |-> NoCpu]
    /\ state = [p \in Procs |-> IF p = 1 THEN "RUNNABLE" ELSE "UNUSED"]
    /\ chan = [p \in Procs |-> 0]
    /\ pc = [p \in Procs |-> "forkret"]
    /\ trap = [p \in Procs |-> "none"]
    /\ intena = [p \in Procs |-> 0]
    /\ next = [p \in Procs |-> 1]
    /\ lk = NoCpu
    /\ locked = 0
    /\ holder = NoProc

-----------------------------------------------------------------------------
(* Spin-locks: what acquire() and release() do to the CPU's own record.    *)

push_off(r) ==
    [r EXCEPT !.intr = 0,
              !.intena = IF r.noff = 0 THEN r.intr ELSE @,
              !.noff = @ + 1]

pop_off(r) ==
    [r EXCEPT !.noff = @ - 1,
              !.intr = IF r.noff = 1 /\ r.intena = 1 THEN 1 ELSE @]

free(l) == l = NoCpu

-----------------------------------------------------------------------------
(* scheduler() on CPU c.                                                   *)

(* Mutant: after running a process the scan starts again at slot 1.        *)
advance_restarts(c) ==
    idx' = [idx EXCEPT ![c] = IF at[c] = "ran" \/ @ = NProc THEN 1 ELSE @ + 1]

advance(c) ==
    idx' = [idx EXCEPT ![c] = IF @ = NProc THEN 1 ELSE @ + 1]

(* The top of the outer loop turns interrupts on; wfi is left by the next  *)
(* interrupt, and the scan starts again.                                   *)
intr_on_at_wrap(c, r) ==
    IF idx[c] = NProc THEN [r EXCEPT !.intr = 1] ELSE r

scheduler_skip(c) ==
    LET p == idx[c] IN
    /\ running[c] = NoProc /\ at[c] = "scan"
    /\ free(plock[p])
    /\ state[p] # "RUNNABLE"
    /\ cpu' = [cpu EXCEPT ![c] = intr_on_at_wrap(c, pop_off(push_off(@)))]
    /\ advance(c)
    /\ UNCHANGED <<running, at, plock, state, chan, pc, trap, intena, next,
                   lk, locked, holder>>

scheduler_choose(c) ==
    LET p == idx[c] IN
    /\ running[c] = NoProc /\ at[c] = "scan"
    /\ free(plock[p])
    /\ state[p] = "RUNNABLE"
    /\ plock' = [plock EXCEPT ![p] = c]
    /\ state' = [state EXCEPT ![p] = "RUNNING"]
    /\ cpu' = [cpu EXCEPT ![c] = [push_off(@) EXCEPT !.proc = p]]
    /\ at' = [at EXCEPT ![c] = "swtch"]
    /\ UNCHANGED <<running, idx, chan, pc, trap, intena, next, lk, locked, holder>>

scheduler_swtch(c) ==
    /\ running[c] = NoProc /\ at[c] = "swtch"
    /\ running' = [running EXCEPT ![c] = cpu[c].proc]
    /\ at' = [at EXCEPT ![c] = "ran"]
    /\ UNCHANGED <<cpu, idx, plock, state, chan, pc, trap, intena, next,
                   lk, locked, holder>>

scheduler_ran(c) ==
    /\ running[c] = NoProc /\ at[c] = "ran"
    /\ plock' = [plock EXCEPT ![idx[c]] = NoCpu]
    /\ cpu' = [cpu EXCEPT ![c] =
                  intr_on_at_wrap(c, pop_off([@ EXCEPT !.proc = NoProc]))]
    /\ at' = [at EXCEPT ![c] = "scan"]
    /\ advance(c)
    /\ UNCHANGED <<running, state, chan, pc, trap, intena, next, lk, locked, holder>>

scheduler(c) ==
    scheduler_skip(c) \/ scheduler_choose(c) \/ scheduler_swtch(c) \/ scheduler_ran(c)

-----------------------------------------------------------------------------
(* The kernel thread of process p, on CPU c.                               *)

on(c, p) == running[c] = p /\ trap[p] = "none"

goto(p, l) == pc' = [pc EXCEPT ![p] = l]

(* usertrapret ends with an sret that enables interrupts.                  *)
forkret(c, p) ==
    /\ on(c, p) /\ pc[p] = "forkret"
    /\ plock' = [plock EXCEPT ![p] = NoCpu]
    /\ cpu' = [cpu EXCEPT ![c] = [pop_off(@) EXCEPT !.intr = 1]]
    /\ goto(p, "work")
    /\ UNCHANGED <<running, idx, at, state, chan, trap, intena, next, lk, locked, holder>>

(* acquire(&lk->lk): interrupts go off, then it spins.                     *)
acquiresleep(c, p) ==
    /\ on(c, p) /\ pc[p] \in {"work", "reacquire"}
    /\ cpu' = [cpu EXCEPT ![c] = push_off(@)]
    /\ goto(p, "as_acquire")
    /\ UNCHANGED <<running, idx, at, plock, state, chan, trap, intena, next,
                   lk, locked, holder>>

acquiresleep_lock(c, p) ==
    /\ on(c, p) /\ pc[p] = "as_acquire"
    /\ free(lk)
    /\ lk' = c
    /\ goto(p, "as_test")
    /\ UNCHANGED <<cpu, running, idx, at, plock, state, chan, trap, intena, next,
                   locked, holder>>

acquiresleep_take(c, p) ==
    /\ on(c, p) /\ pc[p] = "as_test"
    /\ locked = 0
    /\ locked' = 1
    /\ holder' = p
    /\ lk' = NoCpu
    /\ cpu' = [cpu EXCEPT ![c] = pop_off(@)]
    /\ goto(p, "critical")
    /\ UNCHANGED <<running, idx, at, plock, state, chan, trap, intena, next>>

sleep_lock(c, p) ==
    /\ on(c, p) /\ pc[p] = "as_test"
    /\ locked = 1
    /\ free(plock[p])
    /\ plock' = [plock EXCEPT ![p] = c]
    /\ cpu' = [cpu EXCEPT ![c] = push_off(@)]
    /\ goto(p, "sleep_rel")
    /\ UNCHANGED <<running, idx, at, state, chan, trap, intena, next, lk, locked, holder>>

sleep_release(c, p) ==
    /\ on(c, p) /\ pc[p] = "sleep_rel"
    /\ lk' = NoCpu
    /\ cpu' = [cpu EXCEPT ![c] = pop_off(@)]
    /\ goto(p, "sleep_set")
    /\ UNCHANGED <<running, idx, at, plock, state, chan, trap, intena, next, locked, holder>>

sleep_set(c, p) ==
    /\ on(c, p) /\ pc[p] = "sleep_set"
    /\ chan' = [chan EXCEPT ![p] = 1]
    /\ state' = [state EXCEPT ![p] = "SLEEPING"]
    /\ goto(p, "sched")
    /\ UNCHANGED <<cpu, running, idx, at, plock, trap, intena, next, lk, locked, holder>>

(* sched() of sleep() and of exit(): the swtch to c->context.              *)
sched(c, p) ==
    /\ on(c, p) /\ pc[p] \in {"sched", "exiting"}
    /\ intena' = [intena EXCEPT ![p] = cpu[c].intena]
    /\ running' = [running EXCEPT ![c] = NoProc]
    /\ goto(p, IF pc[p] = "sched" THEN "back" ELSE "exiting")
    /\ UNCHANGED <<cpu, idx, at, plock, state, chan, trap, next, lk, locked, holder>>

(* Mutant: intena is taken for a property of the CPU.                      *)
restore_nothing(r, saved) == r

(* What sched() does after its swtch returns, perhaps on another CPU.      *)
restore_intena(r, saved) == [r EXCEPT !.intena = saved]

sleep_return(c, p) ==
    /\ on(c, p) /\ pc[p] = "back"
    /\ chan' = [chan EXCEPT ![p] = 0]
    /\ plock' = [plock EXCEPT ![p] = NoCpu]
    /\ cpu' = [cpu EXCEPT ![c] = pop_off(restore_intena(@, intena[p]))]
    /\ goto(p, "reacquire")
    /\ UNCHANGED <<running, idx, at, state, trap, intena, next, lk, locked, holder>>

releasesleep(c, p) ==
    /\ on(c, p) /\ pc[p] = "critical"
    /\ cpu' = [cpu EXCEPT ![c] = push_off(@)]
    /\ goto(p, "rs_acquire")
    /\ UNCHANGED <<running, idx, at, plock, state, chan, trap, intena, next,
                   lk, locked, holder>>

releasesleep_lock(c, p) ==
    /\ on(c, p) /\ pc[p] = "rs_acquire"
    /\ free(lk)
    /\ lk' = c
    /\ locked' = 0
    /\ holder' = NoProc
    /\ next' = [next EXCEPT ![p] = 1]
    /\ goto(p, "wakeup")
    /\ UNCHANGED <<cpu, running, idx, at, plock, state, chan, trap, intena>>

(* Mutants: wakeup() looks at p->state without p->lock; it starts at the   *)
(* slot after the caller's.                                                *)
wakeup_no_lock(c, p) ==
    LET q == next[p] IN
    /\ on(c, p) /\ pc[p] = "wakeup"
    /\ q \in Procs
    /\ state' = IF q # cpu[c].proc /\ state[q] = "SLEEPING" /\ chan[q] = 1
                 THEN [state EXCEPT ![q] = "RUNNABLE"] ELSE state
    /\ next' = [next EXCEPT ![p] = q + 1]
    /\ UNCHANGED <<cpu, running, idx, at, plock, chan, pc, trap, intena, lk, locked, holder>>

wakeup_above(c, p) ==
    LET q == next[p] IN
    /\ on(c, p) /\ pc[p] = "wakeup"
    /\ q \in Procs
    /\ q # cpu[c].proc => free(plock[q])
    /\ state' = IF q > cpu[c].proc /\ state[q] = "SLEEPING" /\ chan[q] = 1
                 THEN [state EXCEPT ![q] = "RUNNABLE"] ELSE state
    /\ next' = [next EXCEPT ![p] = q + 1]
    /\ UNCHANGED <<cpu, running, idx, at, plock, chan, pc, trap, intena, lk, locked, holder>>

(* One iteration of wakeup(): myproc() is skipped, without its lock.       *)
wakeup(c, p) ==
    LET q == next[p] IN
    /\ on(c, p) /\ pc[p] = "wakeup"
    /\ q \in Procs
    /\ q # cpu[c].proc => free(plock[q])
    /\ state' = IF q # cpu[c].proc /\ state[q] = "SLEEPING" /\ chan[q] = 1
                 THEN [state EXCEPT ![q] = "RUNNABLE"] ELSE state
    /\ next' = [next EXCEPT ![p] = q + 1]
    /\ UNCHANGED <<cpu, running, idx, at, plock, chan, pc, trap, intena, lk, locked, holder>>

releasesleep_end(c, p) ==
    /\ on(c, p) /\ pc[p] = "wakeup" /\ next[p] = NProc + 1
    /\ lk' = NoCpu
    /\ cpu' = [cpu EXCEPT ![c] = pop_off(@)]
    /\ next' = [next EXCEPT ![p] = 1]
    /\ goto(p, "work")
    /\ UNCHANGED <<running, idx, at, plock, state, chan, trap, intena, locked, holder>>

-----------------------------------------------------------------------------
(* Process table operations that change p->state from another process.     *)

(* exit() takes p->lock before it lets go of wait_lock, and calls sched()  *)
(* with p->lock alone.  init (slot 1) never exits.                         *)
exit(c, p) ==
    /\ on(c, p) /\ pc[p] = "work" /\ p # 1
    /\ free(plock[p])
    /\ plock' = [plock EXCEPT ![p] = c]
    /\ cpu' = [cpu EXCEPT ![c] = push_off(@)]
    /\ state' = [state EXCEPT ![p] = "ZOMBIE"]
    /\ goto(p, "exiting")
    /\ UNCHANGED <<running, idx, at, chan, trap, intena, next, lk, locked, holder>>

(* wait() finds the zombie q: freeproc().                                  *)
wait(c, p, q) ==
    /\ on(c, p) /\ pc[p] = "work" /\ q # p
    /\ free(plock[q])
    /\ state[q] = "ZOMBIE"
    /\ state' = [state EXCEPT ![q] = "UNUSED"]
    /\ chan' = [chan EXCEPT ![q] = 0]
    /\ cpu' = [cpu EXCEPT ![c] = pop_off(push_off(@))]
    /\ UNCHANGED <<running, idx, at, plock, pc, trap, intena, next, lk, locked, holder>>

(* fork(): allocproc() points the new context at forkret.                  *)
fork(c, p, q) ==
    /\ on(c, p) /\ pc[p] = "work" /\ q # p
    /\ free(plock[q])
    /\ state[q] = "UNUSED"
    /\ state' = [state EXCEPT ![q] = "RUNNABLE"]
    /\ cpu' = [cpu EXCEPT ![c] = pop_off(push_off(@))]
    /\ goto(q, "forkret")
    /\ UNCHANGED <<running, idx, at, plock, chan, trap, intena, next, lk, locked, holder>>

(* kill() of a sleeping process wakes it, whatever it waits for.           *)
kill(c, p, q) ==
    /\ on(c, p) /\ pc[p] = "work"
    /\ free(plock[q])
    /\ state[q] = "SLEEPING"
    /\ state' = [state EXCEPT ![q] = "RUNNABLE"]
    /\ cpu' = [cpu EXCEPT ![c] = pop_off(push_off(@))]
    /\ UNCHANGED <<running, idx, at, plock, chan, pc, trap, intena, next, lk, locked, holder>>

-----------------------------------------------------------------------------
(* The timer interrupt: usertrap or kerneltrap, then yield().              *)

timer(c) ==
    LET p == running[c] IN
    /\ p # NoProc
    /\ trap[p] = "none"
    /\ cpu[c].intr = 1
    /\ cpu' = [cpu EXCEPT ![c].intr = 0]
    /\ trap' = [trap EXCEPT ![p] = "yield"]
    /\ UNCHANGED <<running, idx, at, plock, state, chan, pc, intena, next, lk, locked, holder>>

(* Mutant: yield() becomes RUNNABLE before it has p->lock.                 *)
yield_no_lock(c, p) ==
    /\ running[c] = p /\ trap[p] = "yield"
    /\ state' = [state EXCEPT ![p] = "RUNNABLE"]
    /\ UNCHANGED <<cpu, running, idx, at, plock, chan, pc, trap, intena, next, lk, locked, holder>>

yield(c, p) ==
    /\ running[c] = p /\ trap[p] = "yield"
    /\ free(plock[p])
    /\ plock' = [plock EXCEPT ![p] = c]
    /\ cpu' = [cpu EXCEPT ![c] = push_off(@)]
    /\ state' = [state EXCEPT ![p] = "RUNNABLE"]
    /\ trap' = [trap EXCEPT ![p] = "sched"]
    /\ UNCHANGED <<running, idx, at, chan, pc, intena, next, lk, locked, holder>>

yield_sched(c, p) ==
    /\ running[c] = p /\ trap[p] = "sched"
    /\ intena' = [intena EXCEPT ![p] = cpu[c].intena]
    /\ running' = [running EXCEPT ![c] = NoProc]
    /\ trap' = [trap EXCEPT ![p] = "back"]
    /\ UNCHANGED <<cpu, idx, at, plock, state, chan, pc, next, lk, locked, holder>>

yield_return(c, p) ==
    /\ running[c] = p /\ trap[p] = "back"
    /\ plock' = [plock EXCEPT ![p] = NoCpu]
    /\ cpu' = [cpu EXCEPT ![c] = pop_off(restore_intena(@, intena[p]))]
    /\ trap' = [trap EXCEPT ![p] = "return"]
    /\ UNCHANGED <<running, idx, at, state, chan, pc, intena, next, lk, locked, holder>>

(* The sret of kernelvec or userret, to code that had interrupts on.       *)
trap_return(c, p) ==
    /\ running[c] = p /\ trap[p] = "return"
    /\ cpu' = [cpu EXCEPT ![c].intr = 1]
    /\ trap' = [trap EXCEPT ![p] = "none"]
    /\ UNCHANGED <<running, idx, at, plock, state, chan, pc, intena, next, lk, locked, holder>>

-----------------------------------------------------------------------------
(* The steps a thread takes once begun, and those it takes if it likes.    *)
thread(c, p) ==
    \/ forkret(c, p)
    \/ pc[p] = "reacquire" /\ acquiresleep(c, p)
    \/ acquiresleep_lock(c, p) \/ acquiresleep_take(c, p)
    \/ sleep_lock(c, p) \/ sleep_release(c, p) \/ sleep_set(c, p)
    \/ sched(c, p) \/ sleep_return(c, p)
    \/ releasesleep(c, p) \/ releasesleep_lock(c, p)
    \/ wakeup(c, p) \/ releasesleep_end(c, p)

handler(c, p) ==
    \/ yield(c, p) \/ yield_sched(c, p) \/ yield_return(c, p) \/ trap_return(c, p)

call(c, p) ==
    \/ pc[p] = "work" /\ acquiresleep(c, p)
    \/ exit(c, p)
    \/ \E q \in Procs : wait(c, p, q) \/ fork(c, p, q) \/ kill(c, p, q)

Next ==
    \E c \in CPUs :
        \/ scheduler(c)
        \/ timer(c)
        \/ \E p \in Procs : thread(c, p) \/ handler(c, p) \/ call(c, p)

Spec == Init /\ [][Next]_vars

(* Every CPU keeps executing; the timer keeps interrupting, but it lets a  *)
(* thread execute between two interrupts; a CPU spinning for a lock that   *)
(* is free again and again gets it at last.                                *)
Fairness ==
    /\ \A c \in CPUs : SF_vars(scheduler(c)) /\ SF_vars(timer(c))
    /\ \A p \in Procs : /\ SF_vars(\E c \in CPUs : thread(c, p))
                         /\ SF_vars(\E c \in CPUs : handler(c, p))

FairSpec == Spec /\ Fairness

-----------------------------------------------------------------------------
(* Properties.                                                             *)

(* No panic of sched(), acquire(), release() and pop_off() is reachable:   *)
(* sched() is entered with p->lock as the only lock, a changed p->state    *)
(* and interrupts off; no CPU acquires a lock it holds or releases one it  *)
(* does not hold; and myproc() is the process whose stack is in use.       *)
NoPanic ==
    \A c \in CPUs : \A p \in Procs : running[c] = p =>
        LET l == IF trap[p] = "none" THEN pc[p] ELSE trap[p] IN
        /\ cpu[c].proc = p
        /\ l \in {"sched", "exiting"} =>
              plock[p] = c /\ cpu[c].noff = 1 /\ cpu[c].intr = 0 /\ state[p] # "RUNNING"
        /\ l \in {"back", "forkret", "sleep_rel"} => plock[p] = c /\ cpu[c].intr = 0
        /\ l \in {"yield", "work", "as_test"} => plock[p] # c
        /\ l \in {"as_acquire", "rs_acquire"} => lk # c
        /\ l \in {"as_test", "sleep_rel", "wakeup"} => lk = c /\ cpu[c].intr = 0
        /\ l = "wakeup" => \A q \in Procs : plock[q] # c

(* A kernel stack is never in use on two CPUs, and a process that is       *)
(* RUNNABLE, SLEEPING, ZOMBIE or freed for reuse is off its stack unless   *)
(* the CPU still on it holds p->lock: scheduler(), wait() and fork() can   *)
(* pick a slot up only after the swtch that leaves its stack.              *)
StackOwnership ==
    \A c \in CPUs : \A p \in Procs : running[c] = p =>
        /\ \A d \in CPUs \ {c} : running[d] # p
        /\ state[p] # "RUNNING" => plock[p] = c

(* push_off/pop_off and sched()'s saving of intena keep interrupts off     *)
(* while a CPU holds a spin-lock and until a trap handler returns, also    *)
(* across a switch to another CPU, and on again in all other code that     *)
(* runs in a process.                                                      *)
InterruptDiscipline ==
    \A c \in CPUs :
        /\ cpu[c].intr = 1 => lk # c /\ \A p \in Procs : plock[p] # c
        /\ \A p \in Procs : running[c] = p =>
              /\ trap[p] # "none" => cpu[c].intr = 0
              /\ trap[p] = "none" /\ pc[p] \in {"work", "reacquire", "critical"}
                    => cpu[c].intr = 1

(* No wakeup is lost: a process is asleep on the sleep-lock only while it  *)
(* is held, or while a releasesleep() has yet to look at its slot.         *)
NoLostWakeup ==
    \A p \in Procs : state[p] = "SLEEPING" /\ locked = 0 =>
        \E q \in Procs : pc[q] = "wakeup" /\ next[q] <= p

(* The sleep-lock excludes: whoever is between acquiresleep() and          *)
(* releasesleep() is the one holder it records, though waiters are woken   *)
(* early by kill().                                                        *)
SleepLockExcludes ==
    \A p \in Procs :
        pc[p] \in {"critical", "rs_acquire"} => locked = 1 /\ holder = p

(* Every process that is ready to run gets a CPU.                          *)
RunnableRuns ==
    \A p \in Procs : state[p] = "RUNNABLE" ~> state[p] = "RUNNING"

(* Every process that sleeps for the sleep-lock is woken.                  *)
SleeperWakes ==
    \A p \in Procs : state[p] = "SLEEPING" ~> state[p] # "SLEEPING"

(* The types, with the ownership of stacks that scheduler() and sched()    *)
(* hand over with p->lock, of the sleep-lock, and the conditions of every  *)
(* panic on the way.                                                       *)
StacksConsistent == TypeOK /\ StackOwnership /\ SleepLockExcludes /\ NoPanic

=============================================================================
