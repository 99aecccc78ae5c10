---------------------------- MODULE SchedProofs ----------------------------
(***************************************************************************)
(* Proofs about Sched, for any number of CPUs and process slots: stacks    *)
(* are not shared, interrupts are off exactly where they must be, and no   *)
(* wakeup is lost.                                                         *)
(***************************************************************************)
EXTENDS Sched, TLAPS

-----------------------------------------------------------------------------
(* The places where interrupts are on; those where the lock inside the     *)
(* sleep-lock is held; those where p->lock is.                             *)
Open == {"work", "critical", "reacquire"}
HoldsLk == {"as_test", "sleep_rel", "wakeup"}
HoldsPlock == {"forkret", "sleep_rel", "sleep_set", "sched", "exiting", "back"}

(* What holds on the CPU c of a thread at l and t (its pc and trap): the   *)
(* nesting n of push_off(), the saved e and the present i of interrupts,   *)
(* p->state s, and the holders k of p->lock and m of lk follow from the    *)
(* place.                                                                  *)
Fits(c, n, e, i, l, t, s, k, m) ==
    LET here == IF t = "none" THEN l ELSE t IN
    /\ t # "none" => l \in Open
    /\ m = c <=> here \in HoldsLk
    /\ k = c <=> here \in HoldsPlock
    /\ i = 1 <=> here \in Open
    /\ n = IF here \in Open \cup {"yield", "return"} THEN 0
           ELSE IF here = "sleep_rel" THEN 2 ELSE 1
    /\ t = "none" /\ l \notin Open \cup {"forkret", "exiting", "back"} => e = 1
    /\ t = "sched" => e = 0
    /\ s = IF here \notin {"sched", "exiting"} THEN "RUNNING"
           ELSE IF t = "sched" THEN "RUNNABLE"
           ELSE IF l = "sched" THEN "SLEEPING" ELSE "ZOMBIE"

(* The CPU c on the stack of p.                                            *)
OnStack(c, p) ==
    /\ cpu[c].proc = p /\ idx[c] = p /\ at[c] = "ran"
    /\ Fits(c, cpu[c].noff, cpu[c].intena, cpu[c].intr,
            pc[p], trap[p], state[p], plock[p], lk)

(* The CPU c in scheduler().                                               *)
InScheduler(c) ==
    /\ lk # c
    /\ at[c] = "scan" => cpu[c].proc = NoProc /\ cpu[c].noff = 0
    /\ at[c] # "scan" =>
          /\ cpu[c].proc = idx[c] /\ plock[idx[c]] = c
          /\ cpu[c].noff = 1 /\ cpu[c].intr = 0
          /\ at[c] = "swtch" <=> state[idx[c]] = "RUNNING"

CpuOk(c) == IF running[c] = NoProc THEN InScheduler(c) ELSE OnStack(c, running[c])

CpuInv == \A c \in CPUs : CpuOk(c)

(* One CPU at most is concerned with a process, and holds its lock.        *)
Owners ==
    /\ \A c, d \in CPUs : cpu[c].proc = cpu[d].proc /\ cpu[c].proc # NoProc => c = d
    /\ \A p \in Procs, c \in CPUs : plock[p] = c => cpu[c].proc = p
    /\ \A p \in Procs : state[p] = "RUNNING" => \E c \in CPUs : cpu[c].proc = p

(* A process off its stack is where swtch left it, with intena as sched()  *)
(* saved it.                                                               *)
Parked(p) ==
    /\ state[p] = "UNUSED" => trap[p] = "none" /\ pc[p] \in {"forkret", "exiting"}
    /\ state[p] = "ZOMBIE" => trap[p] = "none" /\ pc[p] = "exiting"
    /\ state[p] = "SLEEPING" => trap[p] = "none" /\ pc[p] = "back"
    /\ state[p] \in {"RUNNABLE", "RUNNING"} =>
          \/ trap[p] = "none" /\ pc[p] \in {"forkret", "back"}
          \/ trap[p] = "back" /\ pc[p] \in Open

Stacks ==
    \A p \in Procs :
        /\ (\A c \in CPUs : running[c] # p) => Parked(p)
        /\ trap[p] = "none" /\ pc[p] = "back" => intena[p] = 1
        /\ trap[p] = "back" => intena[p] = 0

(* Whoever sleeps, or is about to, will be looked at by wakeup() if the    *)
(* sleep-lock is free.                                                     *)
Wakeups ==
    /\ \A p \in Procs : pc[p] = "sleep_rel" => locked = 1
    /\ \A p \in Procs : state[p] = "SLEEPING" => chan[p] = 1
    /\ \A p \in Procs : (state[p] = "SLEEPING" \/ pc[p] = "sleep_set") /\ locked = 0 =>
          \E q \in Procs : pc[q] = "wakeup" /\ next[q] <= p

(* The inductive invariant.                                                *)
Inv == TypeOK /\ CpuInv /\ Owners /\ Stacks /\ SleepLockExcludes /\ Wakeups

-----------------------------------------------------------------------------
(* struct cpu, and the step that leaves the one of c with the values given *)
(* and those of the other CPUs alone.                                      *)
Cpu == [proc : Procs \cup {NoProc}, noff : 0..2, intena : {0, 1}, intr : {0, 1}]

Differ(r, s, noff, intena_, intr) ==
    s.proc = r.proc /\ s.noff = noff /\ s.intena = intena_ /\ s.intr = intr

Becomes(c, proc, noff, intena_, intr) ==
    /\ cpu' \in [CPUs -> Cpu]
    /\ cpu'[c].proc = proc /\ cpu'[c].noff = noff
    /\ cpu'[c].intena = intena_ /\ cpu'[c].intr = intr
    /\ \A d \in CPUs \ {c} : cpu'[d] = cpu[d]

(* The CPU c is on the stack of p, and no other is concerned with p.       *)
Alone(c, p) ==
    /\ OnStack(c, p) /\ cpu[c] \in Cpu
    /\ \A d \in CPUs \ {c} : cpu[d].proc # p /\ running[d] # p

(* What follows from the place for the CPU on the stack of p.              *)
Here(c, p) ==
    /\ cpu[c].proc = p /\ cpu[c] \in Cpu
    /\ Fits(c, cpu[c].noff, cpu[c].intena, cpu[c].intr,
            pc[p], trap[p], state[p], plock[p], lk)

(* The step is about the CPU c and the processes in S, which are no other  *)
(* CPU's.                                                                  *)
Local(c, S) ==
    /\ \A d \in CPUs \ {c} :
          /\ running'[d] = running[d] /\ cpu'[d] = cpu[d]
          /\ idx'[d] = idx[d] /\ at'[d] = at[d] /\ cpu[d].proc \notin S
          /\ lk' = d <=> lk = d
    /\ \A p \in Procs \ S :
          plock'[p] = plock[p] /\ state'[p] = state[p] /\ pc'[p] = pc[p] /\ trap'[p] = trap[p]

(* What acquire() does to the CPU's own record.                            *)
LEMMA PushOff ==
  ASSUME NEW r \in Cpu, r.noff < 2
  PROVE  /\ push_off(r) \in Cpu
         /\ Differ(r, push_off(r), r.noff + 1, IF r.noff = 0 THEN r.intr ELSE r.intena, 0)
  <1>1. PICK n : n = r.noff + 1
    OBVIOUS
  <1>2. PICK k : k = IF r.noff = 0 THEN r.intr ELSE r.intena
    OBVIOUS
  <1>3. n \in 0..2 /\ k \in {0, 1}
    BY <1>1, <1>2 DEF Cpu
  <1>4. push_off(r) = [r EXCEPT !.intr = 0, !.intena = k, !.noff = n]
    BY <1>1, <1>2 DEF push_off, Cpu
  <1>5. push_off(r) \in Cpu
    BY <1>3, <1>4, Zenon DEF Cpu
  <1>6. Differ(r, push_off(r), n, k, 0)
    BY <1>4 DEF Cpu, Differ
  <1>. QED BY <1>1, <1>2, <1>5, <1>6

(* What release() does to it.                                              *)
LEMMA PopOff ==
  ASSUME NEW r \in Cpu, r.noff > 0
  PROVE  /\ pop_off(r) \in Cpu
         /\ Differ(r, pop_off(r), r.noff - 1, r.intena,
                   IF r.noff = 1 /\ r.intena = 1 THEN 1 ELSE r.intr)
  <1>1. PICK n : n = r.noff - 1
    OBVIOUS
  <1>2. PICK k : k = IF r.noff = 1 /\ r.intena = 1 THEN 1 ELSE r.intr
    OBVIOUS
  <1>3. n \in 0..2 /\ k \in {0, 1}
    BY <1>1, <1>2 DEF Cpu
  <1>4. pop_off(r) = [r EXCEPT !.noff = n, !.intr = k]
    BY <1>1, <1>2 DEF pop_off, Cpu
  <1>5. pop_off(r) \in Cpu
    BY <1>3, <1>4, Zenon DEF Cpu
  <1>6. Differ(r, pop_off(r), n, r.intena, k)
    BY <1>4 DEF Cpu, Differ
  <1>. QED BY <1>1, <1>2, <1>5, <1>6

(* The record of a CPU has its type.                                       *)
LEMMA CpuType ==
  ASSUME Inv
  PROVE  cpu \in [CPUs -> Cpu]
  BY Zenon DEF Inv, TypeOK, Cpu

(* A step that assigns to the CPU's record.                                *)
LEMMA OneCpu ==
  ASSUME Inv, NEW c \in CPUs, NEW r \in Cpu, cpu' = [cpu EXCEPT ![c] = r]
  PROVE  Becomes(c, r.proc, r.noff, r.intena, r.intr)
  <1>1. cpu' \in [CPUs -> Cpu] /\ cpu'[c] = r /\ \A d \in CPUs \ {c} : cpu'[d] = cpu[d]
    BY CpuType, Zenon
  <1>. QED BY <1>1, Zenon DEF Becomes

(* A step of this CPU that acquires a spin-lock.                           *)
LEMMA Pushed ==
  ASSUME Inv, NEW c \in CPUs, cpu[c] \in Cpu, cpu' = [cpu EXCEPT ![c] = push_off(@)]
  PROVE  /\ cpu[c].noff = 0 => Becomes(c, cpu[c].proc, 1, cpu[c].intr, 0)
         /\ cpu[c].noff = 1 => Becomes(c, cpu[c].proc, 2, cpu[c].intena, 0)
  <1>1. PICK r : r = push_off(cpu[c])
    OBVIOUS
  <1>2. cpu' = [cpu EXCEPT ![c] = r]
    BY <1>1, CpuType, Zenon
  <1>3. CASE cpu[c].noff = 0
    <2>1. r \in Cpu /\ Differ(cpu[c], r, 1, cpu[c].intr, 0)
      BY <1>1, <1>3, PushOff DEF Differ
    <2>2. Becomes(c, r.proc, r.noff, r.intena, r.intr)
      BY <1>2, <2>1, OneCpu, Zenon
    <2>. QED BY <1>3, <2>1, <2>2 DEF Differ
  <1>4. CASE cpu[c].noff = 1
    <2>1. r \in Cpu /\ Differ(cpu[c], r, 2, cpu[c].intena, 0)
      BY <1>1, <1>4, PushOff DEF Differ
    <2>2. Becomes(c, r.proc, r.noff, r.intena, r.intr)
      BY <1>2, <2>1, OneCpu, Zenon
    <2>. QED BY <1>4, <2>1, <2>2 DEF Differ
  <1>. QED BY <1>3, <1>4

(* A step that releases one.                                               *)
LEMMA Popped ==
  ASSUME Inv, NEW c \in CPUs, cpu[c] \in Cpu, cpu' = [cpu EXCEPT ![c] = pop_off(@)]
  PROVE  /\ cpu[c].noff = 1 /\ cpu[c].intena = 1 => Becomes(c, cpu[c].proc, 0, 1, 1)
         /\ cpu[c].noff = 2 => Becomes(c, cpu[c].proc, 1, cpu[c].intena, cpu[c].intr)
  <1>1. PICK r : r = pop_off(cpu[c])
    OBVIOUS
  <1>2. cpu' = [cpu EXCEPT ![c] = r]
    BY <1>1, CpuType, Zenon
  <1>3. CASE cpu[c].noff = 1 /\ cpu[c].intena = 1
    <2>1. r \in Cpu /\ Differ(cpu[c], r, 0, 1, 1)
      BY <1>1, <1>3, PopOff DEF Differ
    <2>2. Becomes(c, r.proc, r.noff, r.intena, r.intr)
      BY <1>2, <2>1, OneCpu, Zenon
    <2>. QED BY <1>3, <2>1, <2>2 DEF Differ
  <1>4. CASE cpu[c].noff = 2
    <2>1. r \in Cpu /\ Differ(cpu[c], r, 1, cpu[c].intena, cpu[c].intr)
      BY <1>1, <1>4, PopOff DEF Differ
    <2>2. Becomes(c, r.proc, r.noff, r.intena, r.intr)
      BY <1>2, <2>1, OneCpu, Zenon
    <2>. QED BY <1>4, <2>1, <2>2 DEF Differ
  <1>. QED BY <1>3, <1>4

(* A step that takes a spin-lock and gives it back.                        *)
LEMMA PushedPopped ==
  ASSUME Inv, NEW c \in CPUs, cpu[c] \in Cpu, cpu[c].noff = 0, cpu[c].intr = 1,
         cpu' = [cpu EXCEPT ![c] = pop_off(push_off(@))]
  PROVE  Becomes(c, cpu[c].proc, 0, 1, 1)
  <1>1. PICK r : r = push_off(cpu[c])
    OBVIOUS
  <1>2. r \in Cpu /\ Differ(cpu[c], r, 1, 1, 0)
    BY <1>1, PushOff DEF Differ
  <1>3. pop_off(r) \in Cpu /\ Differ(r, pop_off(r), 0, 1, 1)
    BY <1>2, PopOff DEF Differ
  <1>4. cpu' = [cpu EXCEPT ![c] = pop_off(r)]
    BY <1>1, CpuType, Zenon
  <1>5. Becomes(c, pop_off(r).proc, pop_off(r).noff, pop_off(r).intena, pop_off(r).intr)
    BY <1>3, <1>4, OneCpu, Zenon
  <1>. QED BY <1>2, <1>3, <1>5 DEF Differ

(* A release after sched() has put intena back.                            *)
LEMMA Restored ==
  ASSUME Inv, NEW c \in CPUs, NEW p \in Procs, cpu[c] \in Cpu,
         cpu[c].noff = 1, cpu[c].intr = 0,
         cpu' = [cpu EXCEPT ![c] = pop_off(restore_intena(@, intena[p]))]
  PROVE  Becomes(c, cpu[c].proc, 0, intena[p], intena[p])
  <1>1. PICK r : r = restore_intena(cpu[c], intena[p])
    OBVIOUS
  <1>2. r \in Cpu /\ Differ(cpu[c], r, 1, intena[p], 0) /\ intena[p] \in {0, 1}
    <2>1. intena[p] \in {0, 1}
      BY Zenon DEF Inv, TypeOK
    <2>. QED BY <1>1, <2>1 DEF restore_intena, Cpu, Differ
  <1>3. pop_off(r) \in Cpu /\ Differ(r, pop_off(r), 0, intena[p], intena[p])
    BY <1>2, PopOff DEF Differ
  <1>4. cpu' = [cpu EXCEPT ![c] = pop_off(r)]
    BY <1>1, CpuType, Zenon
  <1>5. Becomes(c, pop_off(r).proc, pop_off(r).noff, pop_off(r).intena, pop_off(r).intr)
    BY <1>3, <1>4, OneCpu, Zenon
  <1>. QED BY <1>2, <1>3, <1>5 DEF Differ

(* A CPU on the stack of p is the only one concerned with p.               *)
LEMMA OnCpu ==
  ASSUME Inv, NEW c \in CPUs, NEW p \in Procs, running[c] = p
  PROVE  Alone(c, p) /\ Here(c, p)
  <1>1. \A d \in CPUs : running[d] = p => OnStack(d, p)
    <2>1. p # NoProc
      BY DEF Procs, NoProc
    <2>. QED BY <2>1, Zenon DEF Inv, CpuInv, CpuOk
  <1>2. cpu[c] \in Cpu
    BY CpuType, Zenon
  <1>3. \A d \in CPUs : running[d] = p => cpu[d].proc = p
    BY <1>1, Zenon DEF OnStack
  <1>4. \A d \in CPUs \ {c} : cpu[d].proc # p
    <2>1. p # NoProc
      BY DEF Procs, NoProc
    <2>. QED BY <1>3, <2>1, Zenon DEF Inv, Owners
  <1>. QED BY <1>1, <1>2, <1>3, <1>4, Zenon DEF Alone, Here, OnStack

(* A CPU in scheduler().                                                   *)
LEMMA OffStack ==
  ASSUME Inv, NEW c \in CPUs, running[c] = NoProc
  PROVE  InScheduler(c) /\ cpu[c] \in Cpu /\ idx[c] \in Procs
         /\ at[c] \in {"scan", "swtch", "ran"}
  <1>1. InScheduler(c)
    BY Zenon DEF Inv, CpuInv, CpuOk
  <1>2. cpu[c] \in Cpu
    BY CpuType, Zenon
  <1>3. idx[c] \in Procs /\ at[c] \in {"scan", "swtch", "ran"}
    BY Zenon DEF Inv, TypeOK
  <1>. QED BY <1>1, <1>2, <1>3

(* No CPU is concerned with a process that is not running and whose lock   *)
(* is free: it is where swtch left it.                                     *)
LEMMA Unconcerned ==
  ASSUME Inv, NEW q \in Procs, plock[q] = NoCpu, state[q] # "RUNNING"
  PROVE  Parked(q) /\ \A d \in CPUs : cpu[d].proc # q /\ running[d] # q
  <1>. USE SchedAssumption
  <1>1. ASSUME NEW d \in CPUs, running[d] = q PROVE FALSE
    <2>1. Here(d, q)
      BY <1>1, OnCpu, Zenon
    <2>. QED BY <2>1 DEF Here, Fits, HoldsPlock
  <1>2. ASSUME NEW d \in CPUs, cpu[d].proc = q PROVE FALSE
    <2>1. CASE running[d] = NoProc
      <3>1. InScheduler(d) /\ q # NoProc
        BY <2>1, OffStack DEF Procs, NoProc
      <3>2. q = idx[d] /\ plock[idx[d]] = d
        BY <1>2, <3>1, Zenon DEF InScheduler
      <3>. QED BY <3>2, Zenon
    <2>2. CASE running[d] \in Procs
      <3>1. cpu[d].proc = running[d]
        BY <2>2, OnCpu, Zenon DEF Here
      <3>. QED BY <1>1, <1>2, <3>1
    <2>3. running[d] \in Procs \cup {NoProc}
      BY Zenon DEF Inv, TypeOK
    <2>. QED BY <2>1, <2>2, <2>3
  <1>3. Parked(q)
    BY <1>1, Zenon DEF Inv, Stacks
  <1>. QED BY <1>1, <1>2, <1>3, Zenon

(* A process on its way into sleep() is on a stack and holds p->lock, and  *)
(* before release(lk) the other one too.                                   *)
LEMMA GoingToSleep ==
  ASSUME Inv, NEW q \in Procs
  PROVE  /\ pc[q] = "sleep_rel" => lk # NoCpu
         /\ pc[q] = "sleep_set" => plock[q] # NoCpu
  <1>. USE SchedAssumption DEF HoldsLk, HoldsPlock, Open
  <1>1. ASSUME NEW d \in CPUs, running[d] = q
        PROVE  /\ pc[q] = "sleep_rel" => lk = d
               /\ pc[q] = "sleep_set" => plock[q] = d
    <2>1. Here(d, q)
      BY <1>1, OnCpu, Zenon
    <2>. QED BY <2>1 DEF Here, Fits
  <1>2. CASE \A d \in CPUs : running[d] # q
    <2>1. Parked(q) /\ state[q] \in States
      BY <1>2, Zenon DEF Inv, Stacks, TypeOK
    <2>. QED BY <2>1 DEF Parked, States
  <1>. QED BY <1>1, <1>2

(* The CPUs that a step is not about stay as they were.                    *)
LEMMA Others ==
  ASSUME Inv, NEW c \in CPUs, NEW S, Local(c, S), CpuOk(c)'
  PROVE  CpuInv'
  <1>1. SUFFICES ASSUME NEW d \in CPUs \ {c} PROVE CpuOk(d)'
    BY Zenon DEF CpuInv
  <1>2. CASE running[d] = NoProc
    <2>1. InScheduler(d) /\ idx[d] \in Procs
      BY <1>2, OffStack, Zenon
    <2>2. InScheduler(d)'
      <3>1. CASE idx[d] \in S
        <4>1. at[d] = "scan"
          BY <2>1, <3>1, Zenon DEF InScheduler, Local
        <4>. QED BY <2>1, <4>1, Zenon DEF InScheduler, Local
      <3>2. CASE idx[d] \notin S
        <4>1. /\ cpu'[d] = cpu[d] /\ idx'[d] = idx[d] /\ at'[d] = at[d]
              /\ plock'[idx[d]] = plock[idx[d]] /\ state'[idx[d]] = state[idx[d]]
              /\ (lk' = d <=> lk = d)
          BY <2>1, <3>2, Zenon DEF Local
        <4>. QED BY <2>1, <4>1, ZenonT(40) DEF InScheduler
      <3>. QED BY <3>1, <3>2
    <2>. QED BY <1>2, <2>2, Zenon DEF CpuOk, Local
  <1>3. CASE running[d] # NoProc
    <2>1. PICK p \in Procs : running[d] = p
      BY <1>3, Zenon DEF Inv, TypeOK
    <2>2. OnStack(d, p)
      BY <1>3, <2>1, Zenon DEF Inv, CpuInv, CpuOk
    <2>3. p \notin S
      BY <2>2, Zenon DEF OnStack, Local
    <2>4. /\ cpu'[d] = cpu[d] /\ idx'[d] = idx[d] /\ at'[d] = at[d]
          /\ plock'[p] = plock[p] /\ state'[p] = state[p]
          /\ pc'[p] = pc[p] /\ trap'[p] = trap[p] /\ (lk' = d <=> lk = d)
      BY <2>3, Zenon DEF Local
    <2>5. OnStack(d, p)'
      BY <2>2, <2>4, Zenon DEF OnStack, Fits
    <2>. QED BY <1>3, <2>1, <2>5, Zenon DEF CpuOk, Local
  <1>. QED BY <1>2, <1>3

(* The step changes of the process table the entry of p alone.             *)
Moves(p, l, t, s, k) ==
    /\ pc'[p] = l /\ trap'[p] = t /\ state'[p] = s /\ plock'[p] = k
    /\ \A q \in Procs \ {p} :
          /\ pc'[q] = pc[q] /\ trap'[q] = trap[q] /\ state'[q] = state[q]
          /\ plock'[q] = plock[q] /\ chan'[q] = chan[q]

(* The step is one of the CPU c on the stack it is on.                     *)
Stays(c) ==
    /\ running' = running /\ intena' = intena /\ idx' = idx /\ at' = at
    /\ \A d \in CPUs \ {c} : cpu'[d] = cpu[d] /\ (lk' = d <=> lk = d)

(* The function g is f, but for the value v at p.                          *)
Sets(f, g, p, v) == (g = f /\ f[p] = v) \/ g = [f EXCEPT ![p] = v]

(* What a step on the CPU c that stays on its stack assigns: the entry of  *)
(* p in the process table, and the locks that it holds.                    *)
Changes(c, p, l, t, s, k) ==
    /\ Sets(pc, pc', p, l) /\ Sets(trap, trap', p, t)
    /\ Sets(state, state', p, s) /\ Sets(plock, plock', p, k)
    /\ (chan' = chan \/ \E h \in {0, 1} : chan' = [chan EXCEPT ![p] = h])
    /\ (next' = next \/ next' = [next EXCEPT ![p] = 1])
    /\ locked' \in {locked, 0, 1} /\ holder' \in {holder, p, NoProc}
    /\ (lk' = lk \/ (lk \in {c, NoCpu} /\ lk' \in {c, NoCpu}))
    /\ UNCHANGED <<running, intena, idx, at>>

Traps == {"none", "yield", "sched", "back", "return"}

(* Such a step keeps the types, and the rest of the process table.         *)
LEMMA Changed ==
  ASSUME Inv, NEW c \in CPUs, NEW p \in Procs, NEW l \in PCs, NEW t \in Traps,
         NEW s \in States, NEW k \in CPUs \cup {NoCpu}, Changes(c, p, l, t, s, k),
         NEW q, NEW n, NEW e, NEW i, Becomes(c, q, n, e, i)
  PROVE  TypeOK' /\ Moves(p, l, t, s, k) /\ Stays(c)
  <1>. USE SchedAssumption
  <1>1. pc' \in [Procs -> PCs] /\ pc'[p] = l /\ \A o \in Procs \ {p} : pc'[o] = pc[o]
    <2>1. pc \in [Procs -> PCs] /\ Sets(pc, pc', p, l)
      BY Zenon DEF Inv, TypeOK, Changes
    <2>. QED BY <2>1, Zenon DEF Sets
  <1>2. trap' \in [Procs -> Traps] /\ trap'[p] = t /\ \A o \in Procs \ {p} : trap'[o] = trap[o]
    <2>1. trap \in [Procs -> Traps] /\ Sets(trap, trap', p, t)
      BY Zenon DEF Inv, TypeOK, Changes, Traps
    <2>. QED BY <2>1, Zenon DEF Sets
  <1>3. state' \in [Procs -> States] /\ state'[p] = s
        /\ \A o \in Procs \ {p} : state'[o] = state[o]
    <2>1. state \in [Procs -> States] /\ Sets(state, state', p, s)
      BY Zenon DEF Inv, TypeOK, Changes
    <2>. QED BY <2>1, Zenon DEF Sets
  <1>4. plock' \in [Procs -> CPUs \cup {NoCpu}] /\ plock'[p] = k
        /\ \A o \in Procs \ {p} : plock'[o] = plock[o]
    <2>1. plock \in [Procs -> CPUs \cup {NoCpu}] /\ Sets(plock, plock', p, k)
      BY Zenon DEF Inv, TypeOK, Changes
    <2>. QED BY <2>1, Zenon DEF Sets
  <1>5. chan' \in [Procs -> {0, 1}] /\ \A o \in Procs \ {p} : chan'[o] = chan[o]
    <2>1. chan \in [Procs -> {0, 1}]
      BY Zenon DEF Inv, TypeOK
    <2>2. CASE chan' = chan
      BY <2>1, <2>2, Zenon
    <2>3. ASSUME NEW h \in {0, 1}, chan' = [chan EXCEPT ![p] = h]
          PROVE  chan' \in [Procs -> {0, 1}] /\ \A o \in Procs \ {p} : chan'[o] = chan[o]
      BY <2>1, <2>3, Zenon
    <2>. QED BY <2>2, <2>3, Zenon DEF Changes
  <1>6. next' \in [Procs -> 1..NProc + 1]
    <2>1. next \in [Procs -> 1..NProc + 1] /\ (next' = next \/ next' = [next EXCEPT ![p] = 1])
      BY Zenon DEF Inv, TypeOK, Changes
    <2>2. 1 \in 1..NProc + 1
      OBVIOUS
    <2>. QED BY <2>1, <2>2, Zenon
  <1>7. lk' \in CPUs \cup {NoCpu} /\ locked' \in {0, 1} /\ holder' \in Procs \cup {NoProc}
    BY Zenon DEF Inv, TypeOK, Changes
  <1>8. running' = running /\ intena' = intena /\ idx' = idx /\ at' = at
    BY Zenon DEF Changes
  <1>9. cpu' \in [CPUs -> Cpu] /\ \A d \in CPUs \ {c} : cpu'[d] = cpu[d]
    BY Zenon DEF Becomes
  <1>10. TypeOK'
    <2>1. /\ running' \in [CPUs -> Procs \cup {NoProc}] /\ idx' \in [CPUs -> Procs]
          /\ at' \in [CPUs -> {"scan", "swtch", "ran"}] /\ intena' \in [Procs -> {0, 1}]
      BY <1>8, Zenon DEF Inv, TypeOK
    <2>. QED BY <1>1, <1>2, <1>3, <1>4, <1>5, <1>6, <1>7, <1>9, <2>1, Zenon DEF TypeOK, Cpu, Traps
  <1>11. Moves(p, l, t, s, k)
    BY <1>1, <1>2, <1>3, <1>4, <1>5, Zenon DEF Moves
  <1>12. Stays(c)
    <2>1. \A d \in CPUs \ {c} : lk' = d <=> lk = d
      BY Zenon DEF Changes
    <2>. QED BY <1>8, <1>9, <2>1, Zenon DEF Stays
  <1>. QED BY <1>10, <1>11, <1>12

(* What p becomes is no other CPU's business and agrees with its stack.    *)
Settled(c, p, l, t, s, k) ==
    /\ \A d \in CPUs \ {c} : cpu[d].proc # p
    /\ \A d \in CPUs : k = d => cpu[d].proc = p
    /\ s = "RUNNING" => cpu[c].proc = p
    /\ (\A d \in CPUs : running[d] # p) => Parked(p)'
    /\ t = "none" /\ l = "back" => intena[p] = 1
    /\ t = "back" => intena[p] = 0

(* A step that leaves the CPUs on the stacks they are on, and no process   *)
(* but p, which is on the stack of c or on none, with another state.       *)
LEMMA SameStacks ==
  ASSUME Inv, NEW c \in CPUs, NEW p \in Procs, NEW l, NEW t, NEW s, NEW k,
         Stays(c), Moves(p, l, t, s, k), NEW o \in Procs, running[c] = o, OnStack(c, o)',
         Settled(c, p, l, t, s, k)
  PROVE  CpuInv' /\ Owners' /\ Stacks'
  <1>. USE DEF Settled
  <1>1. CpuInv'
    <2>1. CpuOk(c)'
      <3>1. running'[c] = o /\ o # NoProc
        BY DEF Stays, Procs, NoProc
      <3>. QED BY <3>1, Zenon DEF CpuOk
    <2>2. Local(c, {p})
      BY Zenon DEF Local, Stays, Moves
    <2>. QED BY <2>1, <2>2, Others, Zenon
  <1>2. \A d \in CPUs : cpu'[d].proc = cpu[d].proc
    <2>1. cpu[c].proc = o
      BY OnCpu, Zenon DEF Here
    <2>2. cpu'[c].proc = o
      BY Zenon DEF OnStack
    <2>3. \A d \in CPUs \ {c} : cpu'[d] = cpu[d]
      BY Zenon DEF Stays
    <2>. QED BY <2>1, <2>2, <2>3, Zenon
  <1>3. Owners'
    <2>1. ASSUME NEW q \in Procs
          PROVE  /\ \A d \in CPUs : plock'[q] = d => cpu'[d].proc = q
                 /\ state'[q] = "RUNNING" => \E d \in CPUs : cpu'[d].proc = q
      <3>1. CASE q = p
        BY <1>2, <3>1, Zenon DEF Moves
      <3>2. CASE q # p
        <4>1. plock'[q] = plock[q] /\ state'[q] = state[q]
          BY <3>2, Zenon DEF Moves
        <4>2. /\ \A d \in CPUs : plock[q] = d => cpu[d].proc = q
              /\ state[q] = "RUNNING" => \E d \in CPUs : cpu[d].proc = q
          BY Zenon DEF Inv, Owners
        <4>. QED BY <1>2, <4>1, <4>2, Zenon
      <3>. QED BY <3>1, <3>2
    <2>2. ASSUME NEW d \in CPUs, NEW f \in CPUs,
                 cpu'[d].proc = cpu'[f].proc, cpu'[d].proc # NoProc
          PROVE  d = f
      <3>1. cpu[d].proc = cpu[f].proc /\ cpu[d].proc # NoProc
        BY <1>2, <2>2, Zenon
      <3>. QED BY <3>1, Zenon DEF Inv, Owners
    <2>. QED BY <2>1, <2>2, Zenon DEF Owners
  <1>4. Stacks'
    <2>1. ASSUME NEW q \in Procs
          PROVE  /\ (\A d \in CPUs : running'[d] # q) => Parked(q)'
                 /\ trap'[q] = "none" /\ pc'[q] = "back" => intena'[q] = 1
                 /\ trap'[q] = "back" => intena'[q] = 0
      <3>1. running' = running /\ intena' = intena
        BY Zenon DEF Stays
      <3>2. CASE q = p
        BY <3>1, <3>2, Zenon DEF Moves
      <3>3. CASE q # p
        <4>1. pc'[q] = pc[q] /\ trap'[q] = trap[q] /\ state'[q] = state[q]
          BY <3>3, Zenon DEF Moves
        <4>2. (\A d \in CPUs : running[d] # q) => Parked(q)
          BY Zenon DEF Inv, Stacks
        <4>3. Parked(q) => Parked(q)'
          BY <4>1, Zenon DEF Parked
        <4>. QED BY <3>1, <4>1, <4>2, <4>3, Zenon DEF Inv, Stacks
      <3>. QED BY <3>2, <3>3
    <2>. QED BY <2>1, Zenon DEF Stacks
  <1>. QED BY <1>1, <1>3, <1>4

(* Where a step of the thread of p or of its handler may lead.             *)
Lands(c, p, n, e, i, l, t, s, k) ==
    /\ l \in PCs /\ t \in Traps \ {"back"} /\ s \in States /\ k \in {c, NoCpu, plock[p]}
    /\ t = "none" => l # "back"
    /\ Fits(c, n, e, i, l, t, s, k, lk')

(* A step of the thread of p or of its handler that does not leave the     *)
(* stack.                                                                  *)
LEMMA ThreadStep ==
  ASSUME Inv, NEW c \in CPUs, NEW p \in Procs, running[c] = p,
         NEW n, NEW e, NEW i, NEW l, NEW t, NEW s, NEW k,
         Becomes(c, p, n, e, i), Changes(c, p, l, t, s, k), Lands(c, p, n, e, i, l, t, s, k)
  PROVE  TypeOK' /\ Moves(p, l, t, s, k) /\ CpuInv' /\ Owners' /\ Stacks'
  <1>. USE SchedAssumption
  <1>1. Alone(c, p) /\ Here(c, p)
    BY OnCpu, Zenon
  <1>2. l \in PCs /\ t \in Traps /\ s \in States /\ k \in CPUs \cup {NoCpu}
    <2>1. plock[p] \in CPUs \cup {NoCpu}
      BY Zenon DEF Inv, TypeOK
    <2>. QED BY <2>1, Zenon DEF Lands
  <1>3. TypeOK' /\ Moves(p, l, t, s, k) /\ Stays(c)
    BY <1>2, Changed, Zenon
  <1>4. OnStack(c, p)'
    <2>1. idx'[c] = p /\ at'[c] = "ran"
      BY <1>1, <1>3, Zenon DEF Alone, OnStack, Stays
    <2>2. Fits(c, n, e, i, l, t, s, k, lk')
      BY Zenon DEF Lands
    <2>. QED BY <1>3, <2>1, <2>2, Zenon DEF OnStack, Moves, Becomes
  <1>5. /\ \A d \in CPUs \ {c} : cpu[d].proc # p
        /\ \A d \in CPUs : k = d => cpu[d].proc = p
        /\ s = "RUNNING" => cpu[c].proc = p
    <2>1. cpu[c].proc = p /\ \A d \in CPUs \ {c} : cpu[d].proc # p
      BY <1>1, Zenon DEF Alone, Here
    <2>2. \A d \in CPUs : plock[p] = d => cpu[d].proc = p
      BY Zenon DEF Inv, Owners
    <2>3. k \in {c, NoCpu, plock[p]}
      BY Zenon DEF Lands
    <2>. QED BY <2>1, <2>2, <2>3, Zenon
  <1>6. t # "back" /\ (t = "none" => l # "back")
    BY Zenon DEF Lands
  <1>7. CpuInv' /\ Owners' /\ Stacks'
    <2>1. Settled(c, p, l, t, s, k)
      BY <1>5, <1>6, Zenon DEF Settled
    <2>. QED BY <1>3, <1>4, <2>1, SameStacks, Zenon
  <1>. QED BY <1>3, <1>7, Zenon

(* A system call of p, with interrupts on, that changes the state of a     *)
(* process no CPU is concerned with.                                       *)
LEMMA CallStep ==
  ASSUME Inv, NEW c \in CPUs, NEW p \in Procs, NEW q \in Procs, running[c] = p, q # p,
         NEW l \in PCs, NEW s \in States, l = pc[q] \/ l # "back", s # "RUNNING",
         Becomes(c, p, 0, 1, 1), Changes(c, q, l, trap[q], s, NoCpu), lk' = lk,
         trap[p] = "none", pc[p] = "work",
         Moves(q, l, trap[q], s, NoCpu) => Parked(q)',
         \A d \in CPUs : cpu[d].proc # q /\ running[d] # q
  PROVE  TypeOK' /\ Moves(q, l, trap[q], s, NoCpu) /\ CpuInv' /\ Owners' /\ Stacks'
  <1>. USE SchedAssumption
  <1>1. Alone(c, p) /\ Here(c, p)
    BY OnCpu, Zenon
  <1>2. trap[q] \in Traps
    BY Zenon DEF Inv, TypeOK, Traps
  <1>3. TypeOK' /\ Moves(q, l, trap[q], s, NoCpu) /\ Stays(c)
    BY <1>2, Changed, Zenon
  <1>4. OnStack(c, p)'
    <2>1. idx'[c] = p /\ at'[c] = "ran"
      BY <1>1, <1>3, Zenon DEF Alone, OnStack, Stays
    <2>2. Fits(c, 0, 1, 1, pc[p], trap[p], state[p], plock[p], lk')
      BY <1>1 DEF Here, Fits, Open, HoldsLk, HoldsPlock
    <2>3. pc'[p] = pc[p] /\ trap'[p] = trap[p] /\ state'[p] = state[p] /\ plock'[p] = plock[p]
      BY <1>3, Zenon DEF Moves
    <2>. QED BY <2>1, <2>2, <2>3, Zenon DEF OnStack, Becomes
  <1>5. /\ trap[q] = "none" /\ l = "back" => intena[q] = 1
        /\ trap[q] = "back" => intena[q] = 0
    BY Zenon DEF Inv, Stacks
  <1>6. CpuInv' /\ Owners' /\ Stacks'
    <2>1. \A d \in CPUs : NoCpu # d
      BY SchedAssumption, Zenon
    <2>2. Settled(c, q, l, trap[q], s, NoCpu)
      BY <1>3, <1>5, <2>1, Zenon DEF Settled
    <2>. QED BY <1>3, <1>4, <2>2, SameStacks, Zenon
  <1>. QED BY <1>3, <1>6, Zenon

(* The swtch of sched() from the stack of p to scheduler().                *)
Leaves(c, p, l, t) ==
    /\ Sets(pc, pc', p, l) /\ Sets(trap, trap', p, t)
    /\ running' = [running EXCEPT ![c] = NoProc]
    /\ intena' = [intena EXCEPT ![p] = cpu[c].intena]
    /\ UNCHANGED <<cpu, idx, at, plock, state, chan, next, lk, locked, holder>>

(* Such a step, with p->lock held and p->state changed.                    *)
LEMMA LeaveStep ==
  ASSUME Inv, NEW c \in CPUs, NEW p \in Procs, running[c] = p,
         NEW l \in PCs, NEW t \in Traps, Leaves(c, p, l, t), plock[p] = c, state[p] # "RUNNING",
         Moves(p, l, t, state[p], plock[p]) => Parked(p)',
         t = "none" /\ l = "back" => cpu[c].intena = 1, t = "back" => cpu[c].intena = 0
  PROVE  TypeOK' /\ Moves(p, l, t, state[p], plock[p]) /\ CpuInv' /\ Owners' /\ Stacks'
  <1>. USE SchedAssumption
  <1>1. Alone(c, p) /\ Here(c, p)
    BY OnCpu, Zenon
  <1>2. pc' \in [Procs -> PCs] /\ pc'[p] = l /\ \A o \in Procs \ {p} : pc'[o] = pc[o]
    <2>1. pc \in [Procs -> PCs] /\ Sets(pc, pc', p, l)
      BY Zenon DEF Inv, TypeOK, Leaves
    <2>. QED BY <2>1, Zenon DEF Sets
  <1>3. trap' \in [Procs -> Traps] /\ trap'[p] = t /\ \A o \in Procs \ {p} : trap'[o] = trap[o]
    <2>1. trap \in [Procs -> Traps] /\ Sets(trap, trap', p, t)
      BY Zenon DEF Inv, TypeOK, Leaves, Traps
    <2>. QED BY <2>1, Zenon DEF Sets
  <1>4. /\ running' \in [CPUs -> Procs \cup {NoProc}]
        /\ running'[c] = NoProc /\ \A d \in CPUs \ {c} : running'[d] = running[d]
    BY Zenon DEF Leaves, Inv, TypeOK
  <1>5. /\ intena' \in [Procs -> {0, 1}]
        /\ intena'[p] = cpu[c].intena /\ \A q \in Procs \ {p} : intena'[q] = intena[q]
    <2>1. cpu[c].intena \in {0, 1}
      BY <1>1, Zenon DEF Here, Cpu
    <2>. QED BY <2>1, Zenon DEF Leaves, Inv, TypeOK
  <1>6. UNCHANGED <<cpu, idx, at, plock, state, chan, next, lk, locked, holder>>
    BY Zenon DEF Leaves
  <1>7. TypeOK'
    BY <1>2, <1>3, <1>4, <1>5, <1>6, Zenon DEF Inv, TypeOK, Traps
  <1>8. Moves(p, l, t, state[p], plock[p])
    BY <1>2, <1>3, <1>6, Zenon DEF Moves
  <1>9. CpuInv'
    <2>1. CpuOk(c)'
      <3>1. /\ lk # c /\ at[c] = "ran" /\ cpu[c].proc = p /\ idx[c] = p
            /\ cpu[c].noff = 1 /\ cpu[c].intr = 0
        <4>1. at[c] = "ran" /\ idx[c] = p
          BY <1>1, Zenon DEF Alone, OnStack
        <4>. QED BY <1>1, <4>1 DEF Here, Fits, Open, HoldsLk, HoldsPlock, Cpu
      <3>. QED BY <1>4, <1>6, <3>1 DEF CpuOk, InScheduler
    <2>2. Local(c, {p})
      BY <1>1, <1>4, <1>6, <1>8, Zenon DEF Alone, Local, Moves
    <2>. QED BY <2>1, <2>2, Others, Zenon
  <1>10. Owners'
    BY <1>6, Zenon DEF Inv, Owners
  <1>11. Stacks'
    <2>1. ASSUME NEW q \in Procs
          PROVE  /\ (\A d \in CPUs : running'[d] # q) => Parked(q)'
                 /\ trap'[q] = "none" /\ pc'[q] = "back" => intena'[q] = 1
                 /\ trap'[q] = "back" => intena'[q] = 0
      <3>1. CASE q = p
        BY <1>2, <1>3, <1>5, <1>8, <3>1, Zenon
      <3>2. CASE q # p
        <4>1. (\A d \in CPUs : running'[d] # q) => \A d \in CPUs : running[d] # q
          BY <1>4, <3>2, Zenon
        <4>2. (\A d \in CPUs : running[d] # q) => Parked(q)
          BY Zenon DEF Inv, Stacks
        <4>3. pc'[q] = pc[q] /\ trap'[q] = trap[q] /\ state'[q] = state[q]
          BY <1>2, <1>3, <1>6, <3>2, Zenon
        <4>4. Parked(q) => Parked(q)'
          BY <4>3, Zenon DEF Parked
        <4>. QED BY <1>5, <3>2, <4>1, <4>2, <4>3, <4>4, Zenon DEF Inv, Stacks
      <3>. QED BY <3>1, <3>2
    <2>. QED BY <2>1, Zenon DEF Stacks
  <1>. QED BY <1>7, <1>8, <1>9, <1>10, <1>11, Zenon

(* A step that leaves the sleep-lock alone.                                *)
LEMMA SleepLockKept ==
  ASSUME Inv, NEW p \in Procs, NEW l, NEW t, NEW s, NEW k, Moves(p, l, t, s, k),
         locked' = locked, holder' = holder,
         l \in {"critical", "rs_acquire"} => pc[p] \in {"critical", "rs_acquire"}
  PROVE  SleepLockExcludes'
  BY DEF Moves, Inv, SleepLockExcludes

(* A step that puts nobody to sleep and is not one of wakeup().            *)
LEMMA WakeupsKept ==
  ASSUME Inv, NEW p \in Procs, NEW l, NEW t, NEW s, NEW k, Moves(p, l, t, s, k),
         locked' = locked, next' = next,
         l = "sleep_rel" => pc[p] = "sleep_rel" \/ locked = 1,
         l = "sleep_set" => pc[p] \in {"sleep_rel", "sleep_set"},
         pc[p] = "wakeup" => l = "wakeup",
         s = "SLEEPING" => state[p] = "SLEEPING" /\ chan'[p] = chan[p]
  PROVE  Wakeups'
  <1>. USE DEF Procs
  <1>1. \A r \in Procs : pc'[r] = "sleep_rel" => locked' = 1
    BY DEF Moves, Inv, Wakeups
  <1>2. \A r \in Procs : state'[r] = "SLEEPING" => chan'[r] = 1
    BY DEF Moves, Inv, Wakeups
  <1>3. ASSUME NEW r \in Procs, state'[r] = "SLEEPING" \/ pc'[r] = "sleep_set", locked' = 0
        PROVE  \E q \in Procs : pc'[q] = "wakeup" /\ next'[q] <= r
    <2>1. state[r] = "SLEEPING" \/ pc[r] = "sleep_set"
      BY <1>3 DEF Moves, Inv, Wakeups
    <2>2. PICK q \in Procs : pc[q] = "wakeup" /\ next[q] <= r
      BY <1>3, <2>1, Zenon DEF Inv, Wakeups
    <2>3. pc'[q] = "wakeup"
      BY <2>2 DEF Moves
    <2>. QED BY <2>2, <2>3
  <1>. QED BY <1>1, <1>2, <1>3 DEF Wakeups

(* A step of the thread of p or of its handler that leaves the sleep-lock  *)
(* alone and puts nobody to sleep.                                         *)
Quiet(p, l, s) ==
    /\ l \in {"critical", "rs_acquire"} => pc[p] \in {"critical", "rs_acquire"}
    /\ l = "sleep_rel" => pc[p] = "sleep_rel" \/ locked = 1
    /\ l = "sleep_set" => pc[p] \in {"sleep_rel", "sleep_set"}
    /\ pc[p] # "wakeup" /\ s # "SLEEPING"

LEMMA PlainStep ==
  ASSUME Inv, NEW c \in CPUs, NEW p \in Procs, running[c] = p,
         NEW n, NEW e, NEW i, NEW l, NEW t, NEW s, NEW k,
         Becomes(c, p, n, e, i), Changes(c, p, l, t, s, k),
         Lands(c, p, n, e, i, l, t, s, k), Quiet(p, l, s),
         UNCHANGED <<locked, holder, next>>
  PROVE  Inv'
  <1>1. TypeOK' /\ Moves(p, l, t, s, k) /\ CpuInv' /\ Owners' /\ Stacks'
    BY ThreadStep, Zenon
  <1>2. SleepLockExcludes'
    BY <1>1, SleepLockKept, Zenon DEF Quiet
  <1>3. Wakeups'
    BY <1>1, WakeupsKept, Zenon DEF Quiet
  <1>. QED BY <1>1, <1>2, <1>3, Zenon DEF Inv

-----------------------------------------------------------------------------
(* One lemma per step of the code: each keeps Inv.  p->lock passes with    *)
(* the stack from sched() to scheduler() and back, so that each CPU's      *)
(* part of the invariant is its own business; wakeup() meets a process     *)
(* asleep or not yet past the test.                                        *)

(* scheduler() passes over a process that is not RUNNABLE.                 *)
LEMMA SchedulerSkipStep ==
  ASSUME Inv, NEW c \in CPUs, scheduler_skip(c)
  PROVE  Inv'
  <1>. USE SchedAssumption DEF Procs, NoProc
  <1>1. /\ running[c] = NoProc /\ at[c] = "scan" /\ InScheduler(c)
        /\ cpu[c] \in Cpu
    BY DEF scheduler_skip, Inv, CpuInv, CpuOk, TypeOK, Cpu
  <1>2. UNCHANGED <<running, at, plock, state, chan, pc, trap, intena, next, lk, locked, holder>>
    BY Zenon DEF scheduler_skip
  <1>3. \E e, i \in {0, 1} : Becomes(c, NoProc, 0, e, i)
    <2>1. PICK r : r = push_off(cpu[c])
      OBVIOUS
    <2>2. /\ r \in Cpu /\ Differ(cpu[c], r, 1, cpu[c].intr, 0)
          /\ cpu[c].proc = NoProc
      BY <1>1, <2>1, PushOff DEF Differ, InScheduler
    <2>3. PICK s : s = pop_off(r)
      OBVIOUS
    <2>4. s \in Cpu /\ s.proc = NoProc /\ s.noff = 0
      BY <2>2, <2>3, PopOff DEF Differ
    <2>5. PICK t : t = intr_on_at_wrap(c, s)
      OBVIOUS
    <2>6. t \in Cpu /\ t.proc = NoProc /\ t.noff = 0
      BY <2>4, <2>5 DEF intr_on_at_wrap, Cpu
    <2>7. cpu' = [cpu EXCEPT ![c] = t]
      BY <2>1, <2>3, <2>5 DEF scheduler_skip, Inv, TypeOK
    <2>8. Becomes(c, NoProc, 0, t.intena, t.intr)
      BY <2>6, <2>7, OneCpu, Zenon
    <2>. QED BY <2>6, <2>8 DEF Cpu
  <1>4. idx' \in [CPUs -> Procs] /\ \A d \in CPUs \ {c} : idx'[d] = idx[d]
    BY DEF scheduler_skip, advance, Inv, TypeOK
  <1>5. TypeOK'
    BY <1>2, <1>3, <1>4, Zenon DEF Becomes, Cpu, Inv, TypeOK
  <1>6. CpuInv'
    <2>1. CpuOk(c)'
      BY <1>1, <1>2, <1>3 DEF Becomes, CpuOk, InScheduler
    <2>2. Local(c, {})
      BY <1>2, <1>3, <1>4, Zenon DEF Becomes, Local
    <2>. QED BY <2>1, <2>2, Others, Zenon
  <1>7. Owners'
    <2>1. \A d \in CPUs : cpu'[d].proc = cpu[d].proc
      BY <1>1, <1>3 DEF InScheduler, Becomes
    <2>. QED BY <1>2, <2>1 DEF Inv, Owners
  <1>8. Stacks' /\ SleepLockExcludes' /\ Wakeups'
    BY <1>2, Zenon DEF Inv, Stacks, Parked, SleepLockExcludes, Wakeups
  <1>. QED BY <1>5, <1>6, <1>7, <1>8 DEF Inv

(* scheduler() takes a RUNNABLE process and p->lock.                       *)
LEMMA SchedulerChooseStep ==
  ASSUME Inv, NEW c \in CPUs, scheduler_choose(c)
  PROVE  Inv'
  <1>. USE SchedAssumption DEF Procs, NoProc
  <1>1. PICK p \in Procs : p = idx[c]
    BY DEF Inv, TypeOK
  <1>2. /\ running[c] = NoProc /\ at[c] = "scan" /\ InScheduler(c) /\ cpu[c] \in Cpu
        /\ plock[p] = NoCpu /\ state[p] = "RUNNABLE"
    BY <1>1 DEF scheduler_choose, free, Inv, CpuInv, CpuOk, TypeOK, Cpu
  <1>3. Parked(p) /\ \A d \in CPUs : cpu[d].proc # p /\ running[d] # p
    BY <1>2, Unconcerned
  <1>4. UNCHANGED <<running, idx, chan, pc, trap, intena, next, lk, locked, holder>>
    BY Zenon DEF scheduler_choose
  <1>5. \E e \in {0, 1} : Becomes(c, p, 1, e, 0)
    <2>1. PICK r : r = push_off(cpu[c])
      OBVIOUS
    <2>2. r \in Cpu /\ Differ(cpu[c], r, 1, cpu[c].intr, 0)
      BY <1>2, <2>1, PushOff DEF Differ, InScheduler
    <2>3. PICK s : s = [r EXCEPT !.proc = p]
      BY Zenon
    <2>4. s \in Cpu /\ s.proc = p /\ s.noff = 1 /\ s.intr = 0
      BY <2>2, <2>3, Zenon DEF Differ, Cpu
    <2>5. cpu' = [cpu EXCEPT ![c] = s]
      BY <1>1, <2>1, <2>3 DEF scheduler_choose, Inv, TypeOK
    <2>6. Becomes(c, p, 1, s.intena, 0)
      BY <2>4, <2>5, OneCpu, Zenon
    <2>. QED BY <2>4, <2>6 DEF Cpu
  <1>6. TypeOK'
    <2>1. /\ plock' \in [Procs -> CPUs \cup {NoCpu}] /\ state' \in [Procs -> States]
          /\ at' \in [CPUs -> {"scan", "swtch", "ran"}]
      BY DEF scheduler_choose, Inv, TypeOK, States
    <2>2. cpu' \in [CPUs -> Cpu]
      BY <1>5, Zenon DEF Becomes
    <2>. QED BY <1>4, <2>1, <2>2, Zenon DEF Cpu, Inv, TypeOK
  <1>7. Moves(p, pc[p], trap[p], "RUNNING", c)
    <2>1. plock'[p] = c /\ \A q \in Procs \ {p} : plock'[q] = plock[q]
      BY <1>1, Zenon DEF scheduler_choose, Inv, TypeOK
    <2>2. state'[p] = "RUNNING" /\ \A q \in Procs \ {p} : state'[q] = state[q]
      BY <1>1, Zenon DEF scheduler_choose, Inv, TypeOK
    <2>. QED BY <1>4, <2>1, <2>2, Zenon DEF Moves
  <1>8. at'[c] = "swtch" /\ \A d \in CPUs \ {c} : at'[d] = at[d]
    BY Zenon DEF scheduler_choose, Inv, TypeOK
  <1>9. CpuInv'
    <2>1. CpuOk(c)'
      BY <1>1, <1>2, <1>4, <1>5, <1>7, <1>8 DEF Becomes, Moves, CpuOk,
          InScheduler
    <2>2. Local(c, {p})
      BY <1>3, <1>4, <1>5, <1>7, <1>8, Zenon DEF Becomes, Moves, Local
    <2>. QED BY <2>1, <2>2, Others, Zenon
  <1>10. Owners'
    <2>1. cpu'[c].proc = p /\ \A d \in CPUs \ {c} : cpu'[d].proc = cpu[d].proc
      BY <1>5 DEF Becomes
    <2>2. cpu[c].proc = NoProc
      BY <1>2 DEF InScheduler
    <2>3. ASSUME NEW q \in Procs
          PROVE  /\ \A d \in CPUs : plock'[q] = d => cpu'[d].proc = q
                 /\ state'[q] = "RUNNING" => \E d \in CPUs : cpu'[d].proc = q
      <3>1. CASE q = p
        BY <1>7, <2>1, <3>1 DEF Moves
      <3>2. CASE q # p
        BY <1>7, <2>1, <2>2, <3>2 DEF Moves, Inv, Owners
      <3>. QED BY <3>1, <3>2
    <2>. QED BY <1>3, <2>1, <2>3 DEF Inv, Owners
  <1>11. Stacks'
    <2>1. ASSUME NEW q \in Procs, \A d \in CPUs : running'[d] # q PROVE Parked(q)'
      <3>1. CASE q = p
        BY <1>2, <1>3, <1>7, <3>1 DEF Moves, Parked
      <3>2. CASE q # p
        BY <1>4, <1>7, <2>1, <3>2, Zenon DEF Moves, Inv, Stacks, Parked
      <3>. QED BY <3>1, <3>2
    <2>. QED BY <1>4, <2>1, Zenon DEF Inv, Stacks
  <1>12. SleepLockExcludes' /\ Wakeups'
    BY <1>4, <1>7, SleepLockKept, WakeupsKept
  <1>. QED BY <1>6, <1>9, <1>10, <1>11, <1>12 DEF Inv

(* The switch onto the process's stack: p->lock goes along.                *)
LEMMA SchedulerSwtchStep ==
  ASSUME Inv, NEW c \in CPUs, scheduler_swtch(c)
  PROVE  Inv'
  <1>. USE SchedAssumption DEF Procs, NoProc
  <1>1. PICK p \in Procs : p = idx[c]
    BY DEF Inv, TypeOK
  <1>2. /\ running[c] = NoProc /\ at[c] = "swtch" /\ lk # c /\ cpu[c].proc = p
        /\ plock[p] = c /\ cpu[c].noff = 1 /\ cpu[c].intr = 0 /\ state[p] = "RUNNING"
    BY <1>1 DEF scheduler_swtch, Inv, CpuInv, CpuOk, InScheduler
  <1>3. UNCHANGED <<cpu, idx, plock, state, chan, pc, trap, intena, next, lk, locked, holder>>
    BY Zenon DEF scheduler_swtch
  <1>4. /\ running' = [running EXCEPT ![c] = p] /\ at' = [at EXCEPT ![c] = "ran"]
        /\ running'[c] = p /\ at'[c] = "ran"
        /\ \A d \in CPUs \ {c} : running'[d] = running[d] /\ at'[d] = at[d]
    BY <1>2, Zenon DEF scheduler_swtch, Inv, TypeOK
  <1>5. Parked(p)
    <2>1. \A d \in CPUs : running[d] # p
      BY <1>2 DEF Inv, CpuInv, CpuOk, OnStack, Owners
    <2>. QED BY <2>1 DEF Inv, Stacks
  <1>6. TypeOK'
    BY <1>3, <1>4, Zenon DEF Inv, TypeOK
  <1>7. CpuInv'
    <2>1. CpuOk(c)'
      <3>1. Fits(c, cpu[c].noff, cpu[c].intena, cpu[c].intr,
                 pc[p], trap[p], state[p], plock[p], lk)
        <4>1. \/ trap[p] = "none" /\ pc[p] = "forkret"
              \/ trap[p] = "none" /\ pc[p] = "back"
              \/ trap[p] = "back" /\ pc[p] \in Open
          BY <1>2, <1>5, Zenon DEF Parked
        <4>2. CASE trap[p] = "none" /\ pc[p] = "forkret"
          BY <1>2, <4>2 DEF Fits, Open, HoldsLk, HoldsPlock
        <4>3. CASE trap[p] = "none" /\ pc[p] = "back"
          BY <1>2, <4>3 DEF Fits, Open, HoldsLk, HoldsPlock
        <4>4. CASE trap[p] = "back" /\ pc[p] \in Open
          BY <1>2, <4>4 DEF Fits, Open, HoldsLk, HoldsPlock
        <4>. QED BY <4>1, <4>2, <4>3, <4>4, Zenon
      <3>2. running'[c] = p /\ p # NoProc
        BY <1>4
      <3>3. OnStack(c, p)'
        BY <1>1, <1>2, <1>3, <1>4, <3>1, Zenon DEF OnStack
      <3>. QED BY <3>2, <3>3, Zenon DEF CpuOk
    <2>2. Local(c, {})
      BY <1>3, <1>4, Zenon DEF Local
    <2>. QED BY <2>1, <2>2, Others, Zenon
  <1>8. Owners' /\ SleepLockExcludes' /\ Wakeups'
    BY <1>3, Zenon DEF Inv, Owners, SleepLockExcludes, Wakeups
  <1>9. Stacks'
    <2>1. ASSUME NEW q \in Procs, \A d \in CPUs : running'[d] # q PROVE Parked(q)'
      <3>1. \A d \in CPUs : running[d] # q
        BY <1>2, <1>4, <2>1
      <3>2. Parked(q)
        BY <3>1, Zenon DEF Inv, Stacks
      <3>. QED BY <1>3, <3>2, Zenon DEF Parked
    <2>. QED BY <1>3, <2>1, Zenon DEF Inv, Stacks
  <1>. QED BY <1>6, <1>7, <1>8, <1>9 DEF Inv

(* The process has switched back, and scheduler() lets go of p->lock.      *)
LEMMA SchedulerRanStep ==
  ASSUME Inv, NEW c \in CPUs, scheduler_ran(c)
  PROVE  Inv'
  <1>. USE SchedAssumption DEF Procs, NoProc
  <1>1. PICK p \in Procs : p = idx[c]
    BY DEF Inv, TypeOK
  <1>2. /\ running[c] = NoProc /\ at[c] = "ran" /\ lk # c /\ cpu[c] \in Cpu
        /\ cpu[c].proc = p /\ plock[p] = c /\ cpu[c].noff = 1 /\ state[p] # "RUNNING"
    BY <1>1 DEF scheduler_ran, Inv, CpuInv, CpuOk, InScheduler, TypeOK, Cpu
  <1>3. UNCHANGED <<running, state, chan, pc, trap, intena, next, lk, locked, holder>>
    BY Zenon DEF scheduler_ran
  <1>4. \E e, i \in {0, 1} : Becomes(c, NoProc, 0, e, i)
    <2>1. PICK r : r = [cpu[c] EXCEPT !.proc = NoProc]
      BY Zenon
    <2>2. r \in Cpu /\ r.proc = NoProc /\ r.noff = 1
      BY <1>2, <2>1 DEF Cpu
    <2>3. PICK s : s = pop_off(r)
      OBVIOUS
    <2>4. s \in Cpu /\ s.proc = NoProc /\ s.noff = 0
      BY <2>2, <2>3, PopOff DEF Differ
    <2>5. PICK t : t = intr_on_at_wrap(c, s)
      OBVIOUS
    <2>6. t \in Cpu /\ t.proc = NoProc /\ t.noff = 0
      BY <2>4, <2>5 DEF intr_on_at_wrap, Cpu
    <2>7. cpu' = [cpu EXCEPT ![c] = t]
      BY <2>1, <2>3, <2>5 DEF scheduler_ran, Inv, TypeOK
    <2>8. Becomes(c, NoProc, 0, t.intena, t.intr)
      BY <2>6, <2>7, OneCpu, Zenon
    <2>. QED BY <2>6, <2>8 DEF Cpu
  <1>5. idx' \in [CPUs -> Procs] /\ \A d \in CPUs \ {c} : idx'[d] = idx[d]
    BY DEF scheduler_ran, advance, Inv, TypeOK
  <1>6. at'[c] = "scan" /\ \A d \in CPUs \ {c} : at'[d] = at[d]
    BY Zenon DEF scheduler_ran, Inv, TypeOK
  <1>7. Moves(p, pc[p], trap[p], state[p], NoCpu)
    BY <1>1, <1>3, ZenonT(40) DEF scheduler_ran, Moves, Inv, TypeOK
  <1>8. TypeOK'
    BY <1>3, <1>4, <1>5, ZenonT(40) DEF scheduler_ran, Becomes, Cpu, Inv, TypeOK
  <1>9. CpuInv'
    <2>1. CpuOk(c)'
      BY <1>2, <1>3, <1>4, <1>6 DEF Becomes, CpuOk, InScheduler
    <2>2. \A d \in CPUs \ {c} : cpu[d].proc # p
      BY <1>2 DEF Inv, Owners
    <2>3. Local(c, {p})
      BY <1>3, <1>4, <1>5, <1>6, <1>7, <2>2, Zenon DEF Becomes, Moves, Local
    <2>. QED BY <2>1, <2>3, Others, Zenon
  <1>10. Owners'
    <2>1. cpu'[c].proc = NoProc /\ \A d \in CPUs \ {c} : cpu'[d].proc = cpu[d].proc
      BY <1>4 DEF Becomes
    <2>2. ASSUME NEW q \in Procs
          PROVE  /\ \A d \in CPUs : plock'[q] = d => cpu'[d].proc = q
                 /\ state'[q] = "RUNNING" => \E d \in CPUs : cpu'[d].proc = q
      <3>1. CASE q = p
        BY <1>2, <1>7, <3>1 DEF Moves
      <3>2. CASE q # p
        BY <1>2, <1>7, <2>1, <3>2 DEF Moves, Inv, Owners
      <3>. QED BY <3>1, <3>2
    <2>. QED BY <2>1, <2>2 DEF Inv, Owners
  <1>11. Stacks' /\ SleepLockExcludes' /\ Wakeups'
    BY <1>3, Zenon DEF Inv, Stacks, Parked, SleepLockExcludes, Wakeups
  <1>. QED BY <1>8, <1>9, <1>10, <1>11 DEF Inv

-----------------------------------------------------------------------------
(* The timer interrupts what runs with interrupts on.                      *)
LEMMA TimerStep ==
  ASSUME Inv, NEW c \in CPUs, NEW p \in Procs, running[c] = p, timer(c)
  PROVE  Inv'
  <1>. USE SchedAssumption DEF Open, HoldsLk, HoldsPlock
  <1>1. running[c] = p /\ trap[p] = "none" /\ cpu[c].intr = 1 /\ Here(c, p)
    BY OnCpu, Zenon DEF timer
  <1>2. cpu[c].proc = p /\ cpu[c] \in Cpu /\ cpu[c].noff = 0 /\ pc[p] \in Open
        /\ state[p] = "RUNNING"
    BY <1>1 DEF Here, Fits, Cpu
  <1>3. Becomes(c, p, 0, cpu[c].intena, 0)
    <2>1. PICK r : r = [cpu[c] EXCEPT !.intr = 0]
      BY Zenon
    <2>2. r \in Cpu /\ Differ(cpu[c], r, cpu[c].noff, cpu[c].intena, 0)
      BY <1>2, <2>1 DEF Cpu, Differ
    <2>3. cpu' = [cpu EXCEPT ![c] = r]
      BY <1>1, <2>1, CpuType, Zenon DEF timer
    <2>. QED BY <1>2, <2>2, <2>3, OneCpu, Zenon DEF Differ
  <1>4. Changes(c, p, pc[p], "yield", state[p], plock[p]) /\ lk' = lk
        /\ UNCHANGED <<locked, holder, next>>
    BY <1>1, <1>2, Zenon DEF timer, goto, free, Changes, Sets
  <1>5. Lands(c, p, 0, cpu[c].intena, 0, pc[p], "yield", state[p], plock[p])
        /\ Quiet(p, pc[p], state[p])
    <2>1. Lands(c, p, 0, cpu[c].intena, 0, pc[p], "yield", state[p], plock[p])
      <3>1. lk # c /\ plock[p] # c
        BY <1>1, <1>2 DEF Here, Fits
      <3>. QED BY <1>2, <1>4, <3>1 DEF Lands, Fits, Traps, PCs, States
    <2>2. Quiet(p, pc[p], state[p])
      BY <1>2, Zenon DEF Quiet
    <2>. QED BY <2>1, <2>2, Zenon
  <1>. QED BY <1>1, <1>3, <1>4, <1>5, PlainStep, Zenon

(* The first return of a new process gives up p->lock.                     *)
LEMMA ForkretStep ==
  ASSUME Inv, NEW c \in CPUs, NEW p \in Procs, forkret(c, p)
  PROVE  Inv'
  <1>. USE SchedAssumption DEF Open, HoldsLk, HoldsPlock
  <1>1. running[c] = p /\ trap[p] = "none" /\ pc[p] = "forkret" /\ Here(c, p)
    BY OnCpu, Zenon DEF forkret, on
  <1>2. cpu[c].proc = p /\ cpu[c] \in Cpu /\ cpu[c].noff = 1 /\ state[p] = "RUNNING"
    BY <1>1 DEF Here, Fits, Cpu
  <1>3. Becomes(c, p, 0, cpu[c].intena, 1)
    <2>1. PICK r : r = pop_off(cpu[c])
      OBVIOUS
    <2>2. r \in Cpu /\ r.proc = p /\ r.noff = 0 /\ r.intena = cpu[c].intena
      BY <1>2, <2>1, PopOff DEF Differ
    <2>3. PICK s : s = [r EXCEPT !.intr = 1]
      BY Zenon
    <2>4. s \in Cpu /\ Differ(r, s, r.noff, r.intena, 1)
      BY <2>2, <2>3 DEF Differ, Cpu
    <2>5. cpu' = [cpu EXCEPT ![c] = s]
      BY <2>1, <2>3, CpuType, Zenon DEF forkret
    <2>. QED BY <2>2, <2>4, <2>5, OneCpu, Zenon DEF Differ
  <1>4. Changes(c, p, "work", "none", state[p], NoCpu) /\ lk' = lk
        /\ UNCHANGED <<locked, holder, next>>
    BY <1>1, <1>2, Zenon DEF forkret, goto, free, Changes, Sets
  <1>5. Lands(c, p, 0, cpu[c].intena, 1, "work", "none", state[p], NoCpu)
        /\ Quiet(p, "work", state[p])
    BY <1>1, <1>2, <1>4 DEF Here, Lands, Quiet, Fits, Traps, PCs, States
  <1>. QED BY <1>1, <1>3, <1>4, <1>5, PlainStep, Zenon

(* acquiresleep() turns interrupts off and spins for lk->lk.               *)
LEMMA AcquiresleepStep ==
  ASSUME Inv, NEW c \in CPUs, NEW p \in Procs, acquiresleep(c, p)
  PROVE  Inv'
  <1>. USE SchedAssumption DEF Open, HoldsLk, HoldsPlock
  <1>1. running[c] = p /\ trap[p] = "none" /\ pc[p] \in {"work", "reacquire"} /\ Here(c, p)
    BY OnCpu, Zenon DEF acquiresleep, on
  <1>2. cpu[c].proc = p /\ cpu[c] \in Cpu /\ cpu[c].noff = 0 /\ cpu[c].intr = 1
        /\ state[p] = "RUNNING"
    BY <1>1 DEF Here, Fits, Cpu
  <1>3. Becomes(c, p, 1, 1, 0)
    BY <1>1, <1>2, Pushed, Zenon DEF acquiresleep
  <1>4. Changes(c, p, "as_acquire", "none", state[p], plock[p]) /\ lk' = lk
        /\ UNCHANGED <<locked, holder, next>>
    BY <1>1, <1>2, Zenon DEF acquiresleep, goto, free, Changes, Sets
  <1>5. Lands(c, p, 1, 1, 0, "as_acquire", "none", state[p], plock[p])
        /\ Quiet(p, "as_acquire", state[p])
    BY <1>1, <1>2, <1>4 DEF Here, Lands, Quiet, Fits, Traps, PCs, States
  <1>. QED BY <1>1, <1>3, <1>4, <1>5, PlainStep, Zenon

(* acquiresleep() gets lk->lk.                                             *)
LEMMA AcquiresleepLockStep ==
  ASSUME Inv, NEW c \in CPUs, NEW p \in Procs, acquiresleep_lock(c, p)
  PROVE  Inv'
  <1>. USE SchedAssumption DEF Open, HoldsLk, HoldsPlock
  <1>1. running[c] = p /\ trap[p] = "none" /\ pc[p] = "as_acquire" /\ Here(c, p)
    BY OnCpu, Zenon DEF acquiresleep_lock, on
  <1>2. cpu[c].proc = p /\ cpu[c] \in Cpu /\ state[p] = "RUNNING"
    BY <1>1 DEF Here, Fits, Cpu
  <1>3. Becomes(c, p, cpu[c].noff, cpu[c].intena, cpu[c].intr)
    BY <1>2, CpuType, Zenon DEF acquiresleep_lock, Becomes
  <1>4. Changes(c, p, "as_test", "none", state[p], plock[p]) /\ lk' = c
        /\ UNCHANGED <<locked, holder, next>>
    BY <1>1, <1>2, Zenon DEF acquiresleep_lock, goto, free, Changes, Sets
  <1>5. Lands(c, p, cpu[c].noff, cpu[c].intena, cpu[c].intr, "as_test", "none", state[p], plock[p])
        /\ Quiet(p, "as_test", state[p])
    BY <1>1, <1>2, <1>4, Zenon DEF Here, Lands, Quiet, Fits, Traps, PCs, States
  <1>. QED BY <1>1, <1>3, <1>4, <1>5, PlainStep, Zenon

(* acquiresleep() finds the lock free and takes it.                        *)
LEMMA AcquiresleepTakeStep ==
  ASSUME Inv, NEW c \in CPUs, NEW p \in Procs, acquiresleep_take(c, p)
  PROVE  Inv'
  <1>. USE SchedAssumption DEF Open, HoldsLk, HoldsPlock
  <1>1. running[c] = p /\ trap[p] = "none" /\ pc[p] = "as_test" /\ Here(c, p)
    BY OnCpu, Zenon DEF acquiresleep_take, on
  <1>2. /\ cpu[c].proc = p /\ cpu[c] \in Cpu /\ cpu[c].noff = 1 /\ cpu[c].intena = 1
        /\ lk = c /\ state[p] = "RUNNING"
    BY <1>1 DEF Here, Fits, Cpu
  <1>3. Becomes(c, p, 0, 1, 1)
    BY <1>1, <1>2, Popped, Zenon DEF acquiresleep_take
  <1>4. Changes(c, p, "critical", "none", state[p], plock[p]) /\ lk' = NoCpu
        /\ locked = 0 /\ locked' = 1 /\ holder' = p
    BY <1>1, <1>2, Zenon DEF acquiresleep_take, goto, Changes, Sets
  <1>5. Lands(c, p, 0, 1, 1, "critical", "none", state[p], plock[p])
    BY <1>1, <1>2, <1>4, Zenon DEF Here, Lands, Fits, Traps, PCs, States
  <1>6. /\ TypeOK' /\ Moves(p, "critical", "none", state[p], plock[p])
        /\ CpuInv' /\ Owners' /\ Stacks'
    BY <1>1, <1>3, <1>4, <1>5, ThreadStep, Zenon
  <1>7. SleepLockExcludes'
    <2>1. \A r \in Procs : pc[r] \notin {"critical", "rs_acquire"}
      <3>1. locked # 1
        BY <1>4
      <3>. QED BY <3>1, Zenon DEF Inv, SleepLockExcludes
    <2>2. \A r \in Procs \ {p} : pc'[r] = pc[r]
      BY <1>6, Zenon DEF Moves
    <2>. QED BY <1>4, <2>1, <2>2, Zenon DEF SleepLockExcludes
  <1>8. Wakeups'
    <2>1. \A r \in Procs : state'[r] = "SLEEPING" => chan'[r] = 1
      <3>1. \A r \in Procs : state[r] = "SLEEPING" => chan[r] = 1
        BY Zenon DEF Inv, Wakeups
      <3>. QED BY <1>2, <1>6, <3>1 DEF Moves
    <2>. QED BY <1>4, <2>1 DEF Wakeups
  <1>. QED BY <1>6, <1>7, <1>8, Zenon DEF Inv

(* sleep() takes p->lock before it lets go of lk.                          *)
LEMMA SleepLockStep ==
  ASSUME Inv, NEW c \in CPUs, NEW p \in Procs, sleep_lock(c, p)
  PROVE  Inv'
  <1>. USE SchedAssumption DEF Open, HoldsLk, HoldsPlock
  <1>1. running[c] = p /\ trap[p] = "none" /\ pc[p] = "as_test" /\ locked = 1 /\ Here(c, p)
    BY OnCpu, Zenon DEF sleep_lock, on
  <1>2. cpu[c].proc = p /\ cpu[c] \in Cpu /\ cpu[c].noff = 1 /\ cpu[c].intena = 1
        /\ state[p] = "RUNNING"
    BY <1>1 DEF Here, Fits, Cpu
  <1>3. Becomes(c, p, 2, 1, 0)
    BY <1>1, <1>2, Pushed, Zenon DEF sleep_lock
  <1>4. Changes(c, p, "sleep_rel", "none", state[p], c) /\ lk' = lk
        /\ UNCHANGED <<locked, holder, next>>
    BY <1>1, <1>2, Zenon DEF sleep_lock, goto, free, Changes, Sets
  <1>5. Lands(c, p, 2, 1, 0, "sleep_rel", "none", state[p], c)
        /\ Quiet(p, "sleep_rel", state[p])
    <2>1. Lands(c, p, 2, 1, 0, "sleep_rel", "none", state[p], c)
      <3>1. lk = c
        BY <1>1 DEF Here, Fits
      <3>. QED BY <1>2, <1>4, <3>1 DEF Lands, Fits, Traps, PCs, States
    <2>2. Quiet(p, "sleep_rel", state[p])
      BY <1>1, <1>2, Zenon DEF Quiet
    <2>. QED BY <2>1, <2>2, Zenon
  <1>. QED BY <1>1, <1>3, <1>4, <1>5, PlainStep, Zenon

(* sleep() lets go of lk.                                                  *)
LEMMA SleepReleaseStep ==
  ASSUME Inv, NEW c \in CPUs, NEW p \in Procs, sleep_release(c, p)
  PROVE  Inv'
  <1>. USE SchedAssumption DEF Open, HoldsLk, HoldsPlock
  <1>1. running[c] = p /\ trap[p] = "none" /\ pc[p] = "sleep_rel" /\ Here(c, p)
    BY OnCpu, Zenon DEF sleep_release, on
  <1>2. cpu[c].proc = p /\ cpu[c] \in Cpu /\ cpu[c].noff = 2 /\ cpu[c].intena = 1
        /\ cpu[c].intr = 0 /\ lk = c /\ state[p] = "RUNNING"
    BY <1>1 DEF Here, Fits, Cpu
  <1>3. Becomes(c, p, 1, 1, 0)
    BY <1>1, <1>2, Popped, Zenon DEF sleep_release
  <1>4. Changes(c, p, "sleep_set", "none", state[p], plock[p]) /\ lk' = NoCpu
        /\ UNCHANGED <<locked, holder, next>>
    BY <1>1, <1>2, Zenon DEF sleep_release, goto, free, Changes, Sets
  <1>5. Lands(c, p, 1, 1, 0, "sleep_set", "none", state[p], plock[p])
        /\ Quiet(p, "sleep_set", state[p])
    BY <1>1, <1>2, <1>4, Zenon DEF Here, Lands, Quiet, Fits, Traps, PCs, States
  <1>. QED BY <1>1, <1>3, <1>4, <1>5, PlainStep, Zenon

(* sleep() records the channel and the state.                              *)
LEMMA SleepSetStep ==
  ASSUME Inv, NEW c \in CPUs, NEW p \in Procs, sleep_set(c, p)
  PROVE  Inv'
  <1>. USE SchedAssumption DEF Open, HoldsLk, HoldsPlock
  <1>1. running[c] = p /\ trap[p] = "none" /\ pc[p] = "sleep_set" /\ Here(c, p)
    BY OnCpu, Zenon DEF sleep_set, on
  <1>2. cpu[c].proc = p /\ cpu[c] \in Cpu
    BY <1>1, Zenon DEF Here
  <1>3. Becomes(c, p, cpu[c].noff, cpu[c].intena, cpu[c].intr)
    BY <1>2, CpuType, Zenon DEF sleep_set, Becomes
  <1>4. Changes(c, p, "sched", "none", "SLEEPING", plock[p]) /\ lk' = lk
        /\ UNCHANGED <<locked, holder, next>>
    BY <1>1, <1>2, Zenon DEF sleep_set, goto, Changes, Sets
  <1>5. Lands(c, p, cpu[c].noff, cpu[c].intena, cpu[c].intr,
              "sched", "none", "SLEEPING", plock[p])
    BY <1>1, <1>4 DEF Here, Lands, Fits, Traps, PCs, States
  <1>6. /\ TypeOK' /\ Moves(p, "sched", "none", "SLEEPING", plock[p])
        /\ CpuInv' /\ Owners' /\ Stacks'
    BY <1>1, <1>3, <1>4, <1>5, ThreadStep, Zenon
  <1>7. SleepLockExcludes'
    BY <1>4, <1>6, SleepLockKept, Zenon
  <1>8. Wakeups'
    <2>1. chan'[p] = 1
      BY Zenon DEF sleep_set, Inv, TypeOK
    <2>2. /\ \A r \in Procs : pc'[r] = "sleep_rel" => locked' = 1
          /\ \A r \in Procs : state'[r] = "SLEEPING" => chan'[r] = 1
      <3>1. /\ \A r \in Procs : pc[r] = "sleep_rel" => locked = 1
            /\ \A r \in Procs : state[r] = "SLEEPING" => chan[r] = 1
        BY Zenon DEF Inv, Wakeups
      <3>. QED BY <1>4, <1>6, <2>1, <3>1, Zenon DEF Moves
    <2>3. ASSUME NEW r \in Procs, state'[r] = "SLEEPING" \/ pc'[r] = "sleep_set", locked' = 0
          PROVE  \E q \in Procs : pc'[q] = "wakeup" /\ next'[q] <= r
      <3>1. state[r] = "SLEEPING" \/ pc[r] = "sleep_set"
        BY <1>1, <1>6, <2>3, Zenon DEF Moves
      <3>2. PICK q \in Procs : pc[q] = "wakeup" /\ next[q] <= r
        BY <1>4, <2>3, <3>1, Zenon DEF Inv, Wakeups
      <3>3. pc'[q] = "wakeup"
        BY <1>1, <1>6, <3>2, Zenon DEF Moves
      <3>. QED BY <1>4, <3>2, <3>3
    <2>. QED BY <2>2, <2>3, Zenon DEF Wakeups
  <1>. QED BY <1>6, <1>7, <1>8, Zenon DEF Inv

(* sched() leaves the process's stack, p->lock held.                       *)
LEMMA SchedStep ==
  ASSUME Inv, NEW c \in CPUs, NEW p \in Procs, sched(c, p)
  PROVE  Inv'
  <1>. USE SchedAssumption DEF Open, HoldsLk, HoldsPlock
  <1>1. /\ running[c] = p /\ trap[p] = "none"
        /\ pc[p] \in {"sched", "exiting"} /\ Here(c, p)
    BY OnCpu, Zenon DEF sched, on
  <1>2. PICK l \in {"back", "exiting"} : l = IF pc[p] = "sched" THEN "back" ELSE "exiting"
    OBVIOUS
  <1>3. /\ plock[p] = c /\ cpu[c].intena \in {0, 1} /\ (l = "back" => cpu[c].intena = 1)
        /\ state[p] = IF l = "back" THEN "SLEEPING" ELSE "ZOMBIE"
    BY <1>1, <1>2 DEF Here, Fits, Cpu
  <1>4. Leaves(c, p, l, "none") /\ l \in PCs
    BY <1>1, <1>2, Zenon DEF sched, goto, Leaves, Sets, PCs
  <1>5. Moves(p, l, "none", state[p], plock[p]) => Parked(p)'
    BY <1>3 DEF Moves, Parked
  <1>6. state[p] # "RUNNING"
    BY <1>3
  <1>7. /\ TypeOK' /\ Moves(p, l, "none", state[p], plock[p])
        /\ CpuInv' /\ Owners' /\ Stacks'
    BY <1>1, <1>3, <1>4, <1>5, <1>6, LeaveStep, Zenon DEF Traps
  <1>8. SleepLockExcludes'
    BY <1>2, <1>4, <1>7, SleepLockKept, Zenon DEF Leaves
  <1>9. Wakeups'
    BY <1>1, <1>2, <1>4, <1>7, WakeupsKept, Zenon DEF Leaves
  <1>. QED BY <1>7, <1>8, <1>9, Zenon DEF Inv

(* sleep() is back and lets go of p->lock.                                 *)
LEMMA SleepReturnStep ==
  ASSUME Inv, NEW c \in CPUs, NEW p \in Procs, sleep_return(c, p)
  PROVE  Inv'
  <1>. USE SchedAssumption DEF Open, HoldsLk, HoldsPlock
  <1>1. running[c] = p /\ trap[p] = "none" /\ pc[p] = "back" /\ Here(c, p)
    BY OnCpu, Zenon DEF sleep_return, on
  <1>2. cpu[c].proc = p /\ cpu[c] \in Cpu /\ cpu[c].noff = 1 /\ cpu[c].intr = 0
        /\ state[p] = "RUNNING"
    BY <1>1 DEF Here, Fits, Cpu
  <1>3. Becomes(c, p, 0, 1, 1)
    <2>1. intena[p] = 1
      BY <1>1, Zenon DEF Inv, Stacks
    <2>. QED BY <1>1, <1>2, <2>1, Restored, Zenon DEF sleep_return
  <1>4. Changes(c, p, "reacquire", "none", state[p], NoCpu) /\ lk' = lk
        /\ UNCHANGED <<locked, holder, next>>
    BY <1>1, <1>2, Zenon DEF sleep_return, goto, free, Changes, Sets
  <1>5. Lands(c, p, 0, 1, 1, "reacquire", "none", state[p], NoCpu)
        /\ Quiet(p, "reacquire", state[p])
    BY <1>1, <1>2, <1>4, Zenon DEF Here, Lands, Quiet, Fits, Traps, PCs, States
  <1>. QED BY <1>1, <1>3, <1>4, <1>5, PlainStep, Zenon

(* releasesleep() turns interrupts off and spins for lk->lk.               *)
LEMMA ReleasesleepStep ==
  ASSUME Inv, NEW c \in CPUs, NEW p \in Procs, releasesleep(c, p)
  PROVE  Inv'
  <1>. USE SchedAssumption DEF Open, HoldsLk, HoldsPlock
  <1>1. running[c] = p /\ trap[p] = "none" /\ pc[p] = "critical" /\ Here(c, p)
    BY OnCpu, Zenon DEF releasesleep, on
  <1>2. cpu[c].proc = p /\ cpu[c] \in Cpu /\ cpu[c].noff = 0 /\ cpu[c].intr = 1
        /\ state[p] = "RUNNING"
    BY <1>1 DEF Here, Fits, Cpu
  <1>3. Becomes(c, p, 1, 1, 0)
    BY <1>1, <1>2, Pushed, Zenon DEF releasesleep
  <1>4. Changes(c, p, "rs_acquire", "none", state[p], plock[p]) /\ lk' = lk
        /\ UNCHANGED <<locked, holder, next>>
    BY <1>1, <1>2, Zenon DEF releasesleep, goto, free, Changes, Sets
  <1>5. Lands(c, p, 1, 1, 0, "rs_acquire", "none", state[p], plock[p])
        /\ Quiet(p, "rs_acquire", state[p])
    <2>1. Lands(c, p, 1, 1, 0, "rs_acquire", "none", state[p], plock[p])
      <3>1. lk # c /\ plock[p] # c /\ state[p] = "RUNNING"
        BY <1>1, Zenon DEF Here, Fits
      <3>. QED BY <1>2, <1>4, <3>1 DEF Lands, Fits, Traps, PCs, States
    <2>2. Quiet(p, "rs_acquire", state[p])
      BY <1>1, <1>2, <1>4, Zenon DEF Quiet
    <2>. QED BY <2>1, <2>2, Zenon
  <1>. QED BY <1>1, <1>3, <1>4, <1>5, PlainStep, Zenon

(* releasesleep() gets lk->lk and clears lk->locked.                       *)
LEMMA ReleasesleepLockStep ==
  ASSUME Inv, NEW c \in CPUs, NEW p \in Procs, releasesleep_lock(c, p)
  PROVE  Inv'
  <1>. USE SchedAssumption DEF Open, HoldsLk, HoldsPlock
  <1>1. running[c] = p /\ trap[p] = "none" /\ pc[p] = "rs_acquire" /\ Here(c, p)
    BY OnCpu, Zenon DEF releasesleep_lock, on
  <1>2. cpu[c].proc = p /\ cpu[c] \in Cpu /\ state[p] = "RUNNING"
    BY <1>1, Zenon DEF Here, Fits
  <1>3. Becomes(c, p, cpu[c].noff, cpu[c].intena, cpu[c].intr)
    BY <1>2, CpuType, Zenon DEF releasesleep_lock, Becomes
  <1>4. Changes(c, p, "wakeup", "none", state[p], plock[p]) /\ lk = NoCpu /\ lk' = c
        /\ locked' = 0 /\ next' = [next EXCEPT ![p] = 1] /\ chan' = chan /\ state' = state
    BY <1>1, <1>2, Zenon DEF releasesleep_lock, goto, free, Changes, Sets
  <1>5. Lands(c, p, cpu[c].noff, cpu[c].intena, cpu[c].intr,
              "wakeup", "none", state[p], plock[p])
    BY <1>1, <1>2, <1>4, Zenon DEF Here, Lands, Fits, Traps, PCs, States
  <1>6. /\ TypeOK' /\ Moves(p, "wakeup", "none", state[p], plock[p])
        /\ CpuInv' /\ Owners' /\ Stacks'
    BY <1>1, <1>3, <1>4, <1>5, ThreadStep, Zenon
  <1>7. SleepLockExcludes'
    BY <1>1, <1>6, Zenon DEF Moves, Inv, SleepLockExcludes
  <1>8. Wakeups'
    <2>1. pc'[p] = "wakeup" /\ next'[p] = 1
      BY <1>4, <1>6, Zenon DEF Moves, Inv, TypeOK
    <2>2. \A r \in Procs : next'[p] <= r
      BY <2>1 DEF Procs
    <2>3. \A r \in Procs : pc'[r] # "sleep_rel"
      <3>1. \A r \in Procs : pc[r] # "sleep_rel"
        BY <1>4, GoingToSleep, Zenon
      <3>. QED BY <1>4, <1>6, <2>1, <3>1, Zenon DEF Moves
    <2>. QED BY <1>4, <2>1, <2>2, <2>3, Zenon DEF Inv, Wakeups
  <1>. QED BY <1>6, <1>7, <1>8, Zenon DEF Inv

(* wakeup() looks at one process of the table.                             *)
LEMMA WakeupStep ==
  ASSUME Inv, NEW c \in CPUs, NEW p \in Procs, wakeup(c, p)
  PROVE  Inv'
  <1>. USE SchedAssumption DEF Open, HoldsLk, HoldsPlock
  <1>1. /\ running[c] = p /\ trap[p] = "none" /\ pc[p] = "wakeup"
        /\ Alone(c, p) /\ Here(c, p)
    BY OnCpu, Zenon DEF wakeup, on
  <1>2. cpu[c].proc = p /\ state[p] = "RUNNING" /\ plock[p] # c
    BY <1>1, Zenon DEF Here, Fits
  <1>3. PICK q \in Procs : q = next[p]
    BY Zenon DEF wakeup
  <1>4. q # p => plock[q] = NoCpu
    BY <1>2, <1>3, Zenon DEF wakeup, free
  <1>5. \/ state' = state /\ (q = p \/ state[q] # "SLEEPING")
        \/ state' = [state EXCEPT ![q] = "RUNNABLE"] /\ state[q] = "SLEEPING" /\ q # p
    <2>1. state[q] = "SLEEPING" => chan[q] = 1
      BY Zenon DEF Inv, Wakeups
    <2>. QED BY <1>2, <1>3, <2>1, Zenon DEF wakeup
  <1>6. /\ UNCHANGED <<cpu, running, idx, at, plock, chan, pc, trap, intena, lk, locked, holder>>
        /\ next' = [next EXCEPT ![p] = q + 1]
    BY <1>3, Zenon DEF wakeup
  <1>7. TypeOK'
    <2>1. state' \in [Procs -> States]
      <3>1. "RUNNABLE" \in States /\ state \in [Procs -> States]
        BY Zenon DEF States, Inv, TypeOK
      <3>. QED BY <1>5, <3>1, Zenon
    <2>2. next' \in [Procs -> 1..NProc + 1]
      <3>1. q + 1 \in 1..NProc + 1
        BY DEF Procs
      <3>. QED BY <1>6, <3>1, Zenon DEF Inv, TypeOK
    <2>. QED BY <1>6, <2>1, <2>2, Zenon DEF Inv, TypeOK
  <1>8. Stays(c) /\ state'[p] = state[p]
    <2>1. state'[p] = state[p]
      BY <1>5, Zenon DEF Inv, TypeOK
    <2>. QED BY <1>6, <2>1, Zenon DEF Stays
  <1>9. OnStack(c, p)'
    BY <1>1, <1>6, <1>8, Zenon DEF Alone, OnStack
  <1>10. CpuInv' /\ Owners' /\ Stacks'
    <2>1. CASE state' = state
      <3>1. Moves(p, pc[p], trap[p], state[p], plock[p])
        BY <1>6, <2>1, Zenon DEF Moves
      <3>2. /\ \A d \in CPUs \ {c} : cpu[d].proc # p
            /\ \A d \in CPUs : plock[p] = d => cpu[d].proc = p
        BY <1>1, Zenon DEF Alone, Inv, Owners
      <3>3. /\ trap[p] = "none" /\ pc[p] = "back" => intena[p] = 1
            /\ trap[p] = "back" => intena[p] = 0
        BY Zenon DEF Inv, Stacks
      <3>4. Settled(c, p, pc[p], trap[p], state[p], plock[p])
        BY <1>1, <1>2, <3>2, <3>3, Zenon DEF Settled
      <3>. QED BY <1>1, <1>8, <1>9, <3>1, <3>4, SameStacks, Zenon
    <2>2. CASE state' = [state EXCEPT ![q] = "RUNNABLE"] /\ state[q] = "SLEEPING" /\ q # p
      <3>1. Moves(q, pc[q], trap[q], "RUNNABLE", NoCpu)
        <4>1. state'[q] = "RUNNABLE" /\ \A o \in Procs \ {q} : state'[o] = state[o]
          BY <2>2, Zenon DEF Inv, TypeOK
        <4>. QED BY <1>4, <1>6, <2>2, <4>1, Zenon DEF Moves
      <3>2. Parked(q) /\ \A d \in CPUs : cpu[d].proc # q /\ running[d] # q
        BY <1>4, <2>2, Unconcerned, Zenon
      <3>3. Parked(q)'
        BY <2>2, <3>1, <3>2, Zenon DEF Moves, Parked
      <3>4. /\ trap[q] = "none" /\ pc[q] = "back" => intena[q] = 1
            /\ trap[q] = "back" => intena[q] = 0
        BY Zenon DEF Inv, Stacks
      <3>5. \A d \in CPUs : NoCpu # d
        BY SchedAssumption, Zenon
      <3>6. Settled(c, q, pc[q], trap[q], "RUNNABLE", NoCpu)
        BY <3>2, <3>3, <3>4, <3>5, Zenon DEF Settled
      <3>. QED BY <1>1, <1>8, <1>9, <3>1, <3>6, SameStacks, Zenon
    <2>. QED BY <1>5, <2>1, <2>2, Zenon
  <1>11. SleepLockExcludes'
    BY <1>6, Zenon DEF Inv, SleepLockExcludes
  <1>12. Wakeups'
    <2>1. \A r \in Procs : state'[r] = "SLEEPING" => state[r] = "SLEEPING" /\ r # q
      <3>1. state \in [Procs -> States]
        BY Zenon DEF Inv, TypeOK
      <3>. QED BY <1>2, <1>5, <3>1
    <2>2. \A r \in Procs : pc[r] = "sleep_set" => r # q
      BY <1>1, <1>4, GoingToSleep, Zenon
    <2>3. ASSUME NEW r \in Procs, state'[r] = "SLEEPING" \/ pc'[r] = "sleep_set", locked' = 0
          PROVE  \E w \in Procs : pc'[w] = "wakeup" /\ next'[w] <= r
      <3>1. r # q /\ (state[r] = "SLEEPING" \/ pc[r] = "sleep_set") /\ locked = 0
        BY <1>6, <2>1, <2>2, <2>3, Zenon
      <3>2. PICK w \in Procs : pc[w] = "wakeup" /\ next[w] <= r
        BY <3>1, Zenon DEF Inv, Wakeups
      <3>3. next'[p] = q + 1 /\ (w # p => next'[w] = next[w]) /\ pc'[w] = "wakeup"
        BY <1>6, <3>2, Zenon DEF Inv, TypeOK
      <3>4. next'[w] <= r
        BY <1>3, <3>1, <3>2, <3>3 DEF Procs
      <3>. QED BY <3>3, <3>4, Zenon
    <2>4. /\ \A r \in Procs : pc'[r] = "sleep_rel" => locked' = 1
          /\ \A r \in Procs : state'[r] = "SLEEPING" => chan'[r] = 1
      BY <1>6, <2>1, Zenon DEF Inv, Wakeups
    <2>. QED BY <2>3, <2>4, Zenon DEF Wakeups
  <1>. QED BY <1>7, <1>10, <1>11, <1>12, Zenon DEF Inv

(* releasesleep() has passed the whole table and lets go of lk->lk.        *)
LEMMA ReleasesleepEndStep ==
  ASSUME Inv, NEW c \in CPUs, NEW p \in Procs, releasesleep_end(c, p)
  PROVE  Inv'
  <1>. USE SchedAssumption DEF Open, HoldsLk, HoldsPlock
  <1>1. /\ running[c] = p /\ trap[p] = "none" /\ pc[p] = "wakeup"
        /\ next[p] = NProc + 1 /\ Here(c, p)
    BY OnCpu, Zenon DEF releasesleep_end, on
  <1>2. /\ cpu[c].proc = p /\ cpu[c] \in Cpu /\ cpu[c].noff = 1 /\ cpu[c].intena = 1
        /\ lk = c /\ state[p] = "RUNNING"
    BY <1>1, Zenon DEF Here, Fits, Cpu
  <1>3. Becomes(c, p, 0, 1, 1)
    BY <1>1, <1>2, Popped, Zenon DEF releasesleep_end
  <1>4. Changes(c, p, "work", "none", state[p], plock[p]) /\ lk' = NoCpu
        /\ next' = [next EXCEPT ![p] = 1] /\ UNCHANGED <<locked, holder, chan>>
    BY <1>1, <1>2, Zenon DEF releasesleep_end, goto, Changes, Sets
  <1>5. Lands(c, p, 0, 1, 1, "work", "none", state[p], plock[p])
    BY <1>1, <1>2, <1>4, Zenon DEF Here, Lands, Fits, Traps, PCs, States
  <1>6. /\ TypeOK' /\ Moves(p, "work", "none", state[p], plock[p])
        /\ CpuInv' /\ Owners' /\ Stacks'
    BY <1>1, <1>3, <1>4, <1>5, ThreadStep, Zenon
  <1>7. SleepLockExcludes'
    BY <1>4, <1>6, SleepLockKept, Zenon
  <1>8. Wakeups'
    <2>1. /\ \A r \in Procs : pc'[r] = "sleep_rel" => locked' = 1
          /\ \A r \in Procs : state'[r] = "SLEEPING" => chan'[r] = 1
      <3>1. /\ \A r \in Procs : pc[r] = "sleep_rel" => locked = 1
            /\ \A r \in Procs : state[r] = "SLEEPING" => chan[r] = 1
        BY Zenon DEF Inv, Wakeups
      <3>. QED BY <1>2, <1>4, <1>6, <3>1, Zenon DEF Moves
    <2>2. ASSUME NEW r \in Procs, state'[r] = "SLEEPING" \/ pc'[r] = "sleep_set", locked' = 0
          PROVE  \E q \in Procs : pc'[q] = "wakeup" /\ next'[q] <= r
      <3>1. state[r] = "SLEEPING" \/ pc[r] = "sleep_set"
        BY <1>2, <1>6, <2>2, Zenon DEF Moves
      <3>2. PICK q \in Procs : pc[q] = "wakeup" /\ next[q] <= r
        BY <1>4, <2>2, <3>1, Zenon DEF Inv, Wakeups
      <3>3. q # p
        BY <1>1, <3>2 DEF Procs
      <3>4. pc'[q] = "wakeup" /\ next'[q] = next[q]
        BY <1>4, <1>6, <3>2, <3>3, Zenon DEF Moves, Inv, TypeOK
      <3>. QED BY <3>2, <3>4, Zenon
    <2>. QED BY <2>1, <2>2, Zenon DEF Wakeups
  <1>. QED BY <1>6, <1>7, <1>8, Zenon DEF Inv

(* yield() takes p->lock and becomes RUNNABLE.                             *)
LEMMA YieldStep ==
  ASSUME Inv, NEW c \in CPUs, NEW p \in Procs, yield(c, p)
  PROVE  Inv'
  <1>. USE SchedAssumption DEF Open, HoldsLk, HoldsPlock
  <1>1. running[c] = p /\ trap[p] = "yield" /\ Here(c, p)
    BY OnCpu, Zenon DEF yield
  <1>2. cpu[c].proc = p /\ cpu[c] \in Cpu /\ cpu[c].noff = 0 /\ cpu[c].intr = 0
        /\ pc[p] \in Open
    BY <1>1 DEF Here, Fits, Cpu
  <1>3. Becomes(c, p, 1, 0, 0)
    BY <1>1, <1>2, Pushed, Zenon DEF yield
  <1>4. Changes(c, p, pc[p], "sched", "RUNNABLE", c) /\ lk' = lk
        /\ UNCHANGED <<locked, holder, next>>
    BY <1>1, <1>2, Zenon DEF yield, goto, free, Changes, Sets
  <1>5. Lands(c, p, 1, 0, 0, pc[p], "sched", "RUNNABLE", c) /\ Quiet(p, pc[p], "RUNNABLE")
    BY <1>1, <1>2, <1>4, Zenon DEF Here, Lands, Quiet, Fits, Traps, PCs, States
  <1>. QED BY <1>1, <1>3, <1>4, <1>5, PlainStep, Zenon

(* yield() calls sched().                                                  *)
LEMMA YieldSchedStep ==
  ASSUME Inv, NEW c \in CPUs, NEW p \in Procs, yield_sched(c, p)
  PROVE  Inv'
  <1>. USE SchedAssumption DEF Open, HoldsLk, HoldsPlock
  <1>1. running[c] = p /\ trap[p] = "sched" /\ Here(c, p)
    BY OnCpu, Zenon DEF yield_sched
  <1>2. /\ plock[p] = c /\ cpu[c].intena = 0 /\ state[p] = "RUNNABLE" /\ pc[p] \in Open
    BY <1>1, Zenon DEF Here, Fits, Cpu
  <1>3. Leaves(c, p, pc[p], "back") /\ pc[p] \in PCs
    BY Zenon DEF yield_sched, Leaves, Sets, Inv, TypeOK
  <1>4. Moves(p, pc[p], "back", state[p], plock[p]) => Parked(p)'
    BY <1>2, Zenon DEF Moves, Parked
  <1>5. /\ TypeOK' /\ Moves(p, pc[p], "back", state[p], plock[p])
        /\ CpuInv' /\ Owners' /\ Stacks'
    BY <1>1, <1>2, <1>3, <1>4, LeaveStep, Zenon DEF Traps
  <1>6. SleepLockExcludes'
    BY <1>3, <1>5, SleepLockKept, Zenon DEF Leaves
  <1>7. Wakeups'
    BY <1>2, <1>3, <1>5, WakeupsKept, Zenon DEF Leaves
  <1>. QED BY <1>5, <1>6, <1>7, Zenon DEF Inv

(* yield() is back and lets go of p->lock.                                 *)
LEMMA YieldReturnStep ==
  ASSUME Inv, NEW c \in CPUs, NEW p \in Procs, yield_return(c, p)
  PROVE  Inv'
  <1>. USE SchedAssumption DEF Open, HoldsLk, HoldsPlock
  <1>1. running[c] = p /\ trap[p] = "back" /\ Here(c, p)
    BY OnCpu, Zenon DEF yield_return
  <1>2. cpu[c].proc = p /\ cpu[c] \in Cpu /\ cpu[c].noff = 1 /\ cpu[c].intr = 0
        /\ pc[p] \in Open /\ state[p] = "RUNNING"
    BY <1>1, Zenon DEF Here, Fits, Cpu
  <1>3. Becomes(c, p, 0, 0, 0)
    <2>1. intena[p] = 0
      BY <1>1, Zenon DEF Inv, Stacks
    <2>. QED BY <1>1, <1>2, <2>1, Restored, Zenon DEF yield_return
  <1>4. Changes(c, p, pc[p], "return", state[p], NoCpu) /\ lk' = lk
        /\ UNCHANGED <<locked, holder, next>>
    BY <1>1, <1>2, Zenon DEF yield_return, goto, free, Changes, Sets
  <1>5. Lands(c, p, 0, 0, 0, pc[p], "return", state[p], NoCpu) /\ Quiet(p, pc[p], state[p])
    BY <1>1, <1>2, <1>4, Zenon DEF Here, Lands, Quiet, Fits, Traps, PCs, States
  <1>. QED BY <1>1, <1>3, <1>4, <1>5, PlainStep, Zenon

(* The trap returns to what it interrupted.                                *)
LEMMA TrapReturnStep ==
  ASSUME Inv, NEW c \in CPUs, NEW p \in Procs, trap_return(c, p)
  PROVE  Inv'
  <1>. USE SchedAssumption DEF Open, HoldsLk, HoldsPlock
  <1>1. running[c] = p /\ trap[p] = "return" /\ Here(c, p)
    BY OnCpu, Zenon DEF trap_return
  <1>2. cpu[c].proc = p /\ cpu[c] \in Cpu /\ cpu[c].noff = 0 /\ pc[p] \in Open
        /\ state[p] = "RUNNING"
    BY <1>1, Zenon DEF Here, Fits, Cpu
  <1>3. Becomes(c, p, 0, cpu[c].intena, 1)
    <2>1. PICK r : r = [cpu[c] EXCEPT !.intr = 1]
      BY Zenon
    <2>2. r \in Cpu /\ Differ(cpu[c], r, cpu[c].noff, cpu[c].intena, 1)
      BY <1>2, <2>1 DEF Cpu, Differ
    <2>3. cpu' = [cpu EXCEPT ![c] = r]
      BY <1>1, <2>1, CpuType, Zenon DEF trap_return
    <2>. QED BY <1>2, <2>2, <2>3, OneCpu, Zenon DEF Differ
  <1>4. Changes(c, p, pc[p], "none", state[p], plock[p]) /\ lk' = lk
        /\ UNCHANGED <<locked, holder, next>>
    BY <1>1, <1>2, Zenon DEF trap_return, goto, free, Changes, Sets
  <1>5. Lands(c, p, 0, cpu[c].intena, 1, pc[p], "none", state[p], plock[p])
        /\ Quiet(p, pc[p], state[p])
    BY <1>1, <1>2, <1>4, Zenon DEF Here, Lands, Quiet, Fits, Traps, PCs, States
  <1>. QED BY <1>1, <1>3, <1>4, <1>5, PlainStep, Zenon

(* exit() takes p->lock and becomes a ZOMBIE.                              *)
LEMMA ExitStep ==
  ASSUME Inv, NEW c \in CPUs, NEW p \in Procs, exit(c, p)
  PROVE  Inv'
  <1>. USE SchedAssumption DEF Open, HoldsLk, HoldsPlock
  <1>1. running[c] = p /\ trap[p] = "none" /\ pc[p] = "work" /\ Here(c, p)
    BY OnCpu, Zenon DEF exit, on
  <1>2. cpu[c].proc = p /\ cpu[c] \in Cpu /\ cpu[c].noff = 0 /\ cpu[c].intr = 1
    BY <1>1, Zenon DEF Here, Fits, Cpu
  <1>3. Becomes(c, p, 1, 1, 0)
    BY <1>1, <1>2, Pushed, Zenon DEF exit
  <1>4. Changes(c, p, "exiting", "none", "ZOMBIE", c) /\ lk' = lk
        /\ UNCHANGED <<locked, holder, next>>
    BY <1>1, <1>2, Zenon DEF exit, goto, free, Changes, Sets
  <1>5. Lands(c, p, 1, 1, 0, "exiting", "none", "ZOMBIE", c) /\ Quiet(p, "exiting", "ZOMBIE")
    <2>1. Lands(c, p, 1, 1, 0, "exiting", "none", "ZOMBIE", c)
      <3>1. lk # c /\ plock[p] # c /\ state[p] = "RUNNING"
        BY <1>1 DEF Here, Fits
      <3>. QED BY <1>2, <1>4, <3>1 DEF Lands, Fits, Traps, PCs, States
    <2>2. Quiet(p, "exiting", "ZOMBIE")
      BY <1>1, <1>2, <1>4, Zenon DEF Quiet
    <2>. QED BY <2>1, <2>2, Zenon
  <1>. QED BY <1>1, <1>3, <1>4, <1>5, PlainStep, Zenon

(* wait() frees a ZOMBIE.                                                  *)
LEMMA WaitStep ==
  ASSUME Inv, NEW c \in CPUs, NEW p \in Procs, NEW q \in Procs, wait(c, p, q)
  PROVE  Inv'
  <1>. USE SchedAssumption DEF Open, HoldsLk, HoldsPlock
  <1>1. /\ running[c] = p /\ trap[p] = "none" /\ pc[p] = "work" /\ Here(c, p)
        /\ plock[q] = NoCpu /\ state[q] = "ZOMBIE"
    BY OnCpu, Zenon DEF wait, on, free
  <1>2. Parked(q) /\ \A d \in CPUs : cpu[d].proc # q /\ running[d] # q
    BY <1>1, Unconcerned, Zenon
  <1>3. cpu[c].proc = p /\ cpu[c] \in Cpu /\ cpu[c].noff = 0 /\ cpu[c].intr = 1
    BY <1>1, Zenon DEF Here, Fits, Cpu
  <1>4. Becomes(c, p, 0, 1, 1)
    BY <1>1, <1>3, PushedPopped, Zenon DEF wait
  <1>5. Changes(c, q, pc[q], trap[q], "UNUSED", NoCpu)
        /\ UNCHANGED <<lk, locked, holder, next>>
    BY <1>1, Zenon DEF wait, goto, Changes, Sets
  <1>6. pc[q] \in PCs /\ "UNUSED" \in States
    BY Zenon DEF Inv, TypeOK, PCs, States
  <1>7. Moves(q, pc[q], trap[q], "UNUSED", NoCpu) => Parked(q)'
    BY <1>1, <1>2, Zenon DEF Moves, Parked
  <1>8. TypeOK' /\ Moves(q, pc[q], trap[q], "UNUSED", NoCpu) /\ CpuInv' /\ Owners' /\ Stacks'
    BY <1>1, <1>2, <1>4, <1>5, <1>6, <1>7, CallStep, Zenon
  <1>9. SleepLockExcludes'
    BY <1>5, <1>8, SleepLockKept, Zenon
  <1>10. Wakeups'
    <2>1. pc[q] # "wakeup"
      BY <1>1, <1>2, Zenon DEF Parked
    <2>. QED BY <1>5, <1>8, <2>1, WakeupsKept, Zenon
  <1>. QED BY <1>8, <1>9, <1>10, Zenon DEF Inv

(* fork() fills in a slot and makes it RUNNABLE.                           *)
LEMMA ForkStep ==
  ASSUME Inv, NEW c \in CPUs, NEW p \in Procs, NEW q \in Procs, fork(c, p, q)
  PROVE  Inv'
  <1>. USE SchedAssumption DEF Open, HoldsLk, HoldsPlock
  <1>1. /\ running[c] = p /\ trap[p] = "none" /\ pc[p] = "work" /\ Here(c, p)
        /\ plock[q] = NoCpu /\ state[q] = "UNUSED"
    BY OnCpu, Zenon DEF fork, on, free
  <1>2. Parked(q) /\ \A d \in CPUs : cpu[d].proc # q /\ running[d] # q
    BY <1>1, Unconcerned, Zenon
  <1>3. cpu[c].proc = p /\ cpu[c] \in Cpu /\ cpu[c].noff = 0 /\ cpu[c].intr = 1
    BY <1>1, Zenon DEF Here, Fits, Cpu
  <1>4. Becomes(c, p, 0, 1, 1)
    BY <1>1, <1>3, PushedPopped, Zenon DEF fork
  <1>5. Changes(c, q, "forkret", trap[q], "RUNNABLE", NoCpu)
        /\ UNCHANGED <<lk, locked, holder, next>>
    BY <1>1, Zenon DEF fork, goto, Changes, Sets
  <1>6. "forkret" \in PCs /\ "RUNNABLE" \in States
    BY Zenon DEF Inv, TypeOK, PCs, States
  <1>7. Moves(q, "forkret", trap[q], "RUNNABLE", NoCpu) => Parked(q)'
    BY <1>1, <1>2, Zenon DEF Moves, Parked
  <1>8. TypeOK' /\ Moves(q, "forkret", trap[q], "RUNNABLE", NoCpu) /\ CpuInv' /\ Owners' /\ Stacks'
    BY <1>1, <1>2, <1>4, <1>5, <1>6, <1>7, CallStep, Zenon
  <1>9. SleepLockExcludes'
    BY <1>5, <1>8, SleepLockKept, Zenon
  <1>10. Wakeups'
    <2>1. pc[q] # "wakeup"
      BY <1>1, <1>2, Zenon DEF Parked
    <2>. QED BY <1>5, <1>8, <2>1, WakeupsKept, Zenon
  <1>. QED BY <1>8, <1>9, <1>10, Zenon DEF Inv

(* kill() makes a sleeper RUNNABLE.                                        *)
LEMMA KillStep ==
  ASSUME Inv, NEW c \in CPUs, NEW p \in Procs, NEW q \in Procs, kill(c, p, q)
  PROVE  Inv'
  <1>. USE SchedAssumption DEF Open, HoldsLk, HoldsPlock
  <1>1. /\ running[c] = p /\ trap[p] = "none" /\ pc[p] = "work" /\ Here(c, p)
        /\ plock[q] = NoCpu /\ state[q] = "SLEEPING"
    BY OnCpu, Zenon DEF kill, on, free
  <1>2. Parked(q) /\ \A d \in CPUs : cpu[d].proc # q /\ running[d] # q
    BY <1>1, Unconcerned, Zenon
  <1>3. cpu[c].proc = p /\ cpu[c] \in Cpu /\ cpu[c].noff = 0 /\ cpu[c].intr = 1
    BY <1>1 DEF Here, Fits, Cpu
  <1>4. Becomes(c, p, 0, 1, 1)
    BY <1>1, <1>3, PushedPopped, Zenon DEF kill
  <1>5. Changes(c, q, pc[q], trap[q], "RUNNABLE", NoCpu)
        /\ UNCHANGED <<lk, locked, holder, next>>
    BY <1>1, Zenon DEF kill, goto, Changes, Sets
  <1>6. pc[q] \in PCs /\ "RUNNABLE" \in States
    BY Zenon DEF Inv, TypeOK, PCs, States
  <1>7. Moves(q, pc[q], trap[q], "RUNNABLE", NoCpu) => Parked(q)'
    BY <1>1, <1>2 DEF Moves, Parked
  <1>8. TypeOK' /\ Moves(q, pc[q], trap[q], "RUNNABLE", NoCpu) /\ CpuInv' /\ Owners' /\ Stacks'
    BY <1>1, <1>2, <1>4, <1>5, <1>6, <1>7, CallStep, Zenon
  <1>9. SleepLockExcludes'
    BY <1>5, <1>8, SleepLockKept, Zenon
  <1>10. Wakeups'
    <2>1. pc[q] # "wakeup"
      BY <1>1, <1>2, Zenon DEF Parked
    <2>. QED BY <1>5, <1>8, <2>1, WakeupsKept, Zenon
  <1>. QED BY <1>8, <1>9, <1>10, Zenon DEF Inv

(* A step that changes nothing.                                            *)
LEMMA Stutter ==
  ASSUME Inv, UNCHANGED vars
  PROVE  Inv'
  <1>1. TypeOK'
    BY Zenon DEF vars, Inv, TypeOK
  <1>2. CpuInv'
    <2>1. ASSUME NEW c \in CPUs, CpuOk(c) PROVE CpuOk(c)'
      BY <2>1, Zenon DEF vars, CpuOk, OnStack, InScheduler
    <2>. QED BY <2>1, Zenon DEF Inv, CpuInv
  <1>3. Owners' /\ Stacks'
    <2>1. Owners'
      BY Zenon DEF vars, Inv, Owners
    <2>2. \A p \in Procs : Parked(p)' <=> Parked(p)
      BY Zenon DEF vars, Parked
    <2>3. Stacks'
      BY <2>2, Zenon DEF vars, Inv, Stacks
    <2>. QED BY <2>1, <2>3, Zenon
  <1>4. SleepLockExcludes' /\ Wakeups'
    BY Zenon DEF vars, Inv, SleepLockExcludes, Wakeups
  <1>. QED BY <1>1, <1>2, <1>3, <1>4, Zenon DEF Inv

(* Every step keeps Inv.                                                   *)
LEMMA Step == Inv /\ [Next]_vars => Inv'
  <1>. SUFFICES ASSUME Inv, [Next]_vars PROVE Inv'
    OBVIOUS
  <1>1. ASSUME NEW c \in CPUs, timer(c) PROVE Inv'
    BY <1>1, TimerStep, Zenon DEF timer, Inv, TypeOK
  <1>. QED
    BY <1>1, SchedulerSkipStep, SchedulerChooseStep, SchedulerSwtchStep,
       SchedulerRanStep, ForkretStep, AcquiresleepStep, AcquiresleepLockStep,
       AcquiresleepTakeStep, SleepLockStep, SleepReleaseStep, SleepSetStep,
       SchedStep, SleepReturnStep, ReleasesleepStep, ReleasesleepLockStep,
       WakeupStep, ReleasesleepEndStep, YieldStep, YieldSchedStep, YieldReturnStep,
       TrapReturnStep, ExitStep, WaitStep, ForkStep, KillStep, Stutter, ZenonT(40)
    DEF Next, scheduler, thread, handler, call

(* Inv holds in every state: Init implies it and every step keeps it.      *)
LEMMA Invariance == Spec => []Inv
  <1>1. Init => Inv
    <2>. SUFFICES ASSUME Init PROVE Inv
      OBVIOUS
    <2>. USE SchedAssumption DEF Init, Procs, NoProc
    <2>1. TypeOK
      BY DEF TypeOK, PCs, States
    <2>2. CpuInv
      BY DEF CpuInv, CpuOk, InScheduler
    <2>3. Owners /\ Stacks /\ SleepLockExcludes /\ Wakeups
      BY DEF Owners, Stacks, Parked, SleepLockExcludes, Wakeups
    <2>. QED BY <2>1, <2>2, <2>3 DEF Inv
  <1>. QED BY <1>1, Step, PTL DEF Spec

(* No wakeup is lost, for any number of CPUs and processes: a process      *)
(* sleeps on the sleep-lock only while it is held or while a releasesleep  *)
(* has yet to look at its slot.                                            *)
THEOREM NoLostWakeupHolds == Spec => []NoLostWakeup
  <1>1. Inv => NoLostWakeup
    BY DEF Inv, Wakeups, NoLostWakeup
  <1>. QED BY <1>1, Invariance, PTL

(* Interrupts are off while a spin-lock is held and in a handler, and on   *)
(* in all other code of a process, on every CPU and across switches.       *)
THEOREM InterruptDisciplineHolds == Spec => []InterruptDiscipline
  <1>1. Inv => InterruptDiscipline
    <2>. SUFFICES ASSUME Inv, NEW c \in CPUs
                  PROVE  /\ cpu[c].intr = 1 => lk # c /\ \A p \in Procs : plock[p] # c
                         /\ \A p \in Procs : running[c] = p =>
                              /\ trap[p] # "none" => cpu[c].intr = 0
                              /\ trap[p] = "none" /\ pc[p] \in {"work", "reacquire", "critical"}
                                    => cpu[c].intr = 1
      BY DEF InterruptDiscipline
    <2>. USE SchedAssumption DEF Procs, NoProc
    <2>1. \A p \in Procs : plock[p] = c => cpu[c].proc = p
      BY DEF Inv, Owners
    <2>2. CASE running[c] = NoProc
      <3>1. InScheduler(c)
        BY <2>2 DEF Inv, CpuInv, CpuOk
      <3>2. cpu[c].intr = 1 => lk # c /\ cpu[c].proc = NoProc
        BY <3>1 DEF InScheduler
      <3>. QED BY <2>1, <2>2, <3>2
    <2>3. ASSUME NEW p \in Procs, running[c] = p
          PROVE  /\ cpu[c].intr = 1 => lk # c /\ \A q \in Procs : plock[q] # c
                 /\ trap[p] # "none" => cpu[c].intr = 0
                 /\ trap[p] = "none" /\ pc[p] \in {"work", "reacquire", "critical"}
                       => cpu[c].intr = 1
      <3>1. Alone(c, p) /\ Here(c, p)
        BY <2>3, OnCpu, Zenon
      <3>2. cpu[c].intr = 1 <=> (IF trap[p] = "none" THEN pc[p] ELSE trap[p]) \in Open
        BY <3>1 DEF Here, Fits
      <3>3. cpu[c].intr = 1 => lk # c /\ plock[p] # c
        BY <3>1 DEF Here, Fits, Open, HoldsLk, HoldsPlock
      <3>4. \A q \in Procs : plock[q] = c => q = p
        BY <2>1, <3>1, Zenon DEF Here
      <3>5. trap[p] # "none" => trap[p] \notin Open
        BY Zenon DEF Inv, TypeOK, Open
      <3>6. cpu[c].intr \in {0, 1}
        BY <3>1 DEF Here, Cpu
      <3>. QED BY <3>2, <3>3, <3>4, <3>5, <3>6 DEF Open
    <2>. QED BY <2>2, <2>3 DEF Inv, TypeOK
  <1>. QED BY <1>1, Invariance, PTL

(* A kernel stack is in use on one CPU at most and p->lock covers every    *)
(* switch, the sleep-lock excludes, and the conditions of the panics of    *)
(* sched(), acquire(), release() and pop_off() do not arise.               *)
THEOREM StacksConsistentHolds == Spec => []StacksConsistent
  <1>1. ASSUME Inv PROVE StackOwnership
    <2>. SUFFICES ASSUME NEW c \in CPUs, NEW p \in Procs, running[c] = p
                  PROVE  /\ \A d \in CPUs \ {c} : running[d] # p
                         /\ state[p] # "RUNNING" => plock[p] = c
      BY DEF StackOwnership
    <2>1. Alone(c, p) /\ Here(c, p)
      BY <1>1, OnCpu, Zenon
    <2>2. \A d \in CPUs \ {c} : running[d] # p
      BY <2>1, Zenon DEF Alone
    <2>3. state[p] # "RUNNING" => plock[p] = c
      BY <2>1 DEF Here, Fits, HoldsPlock
    <2>. QED BY <2>2, <2>3
  <1>2. ASSUME Inv PROVE NoPanic
    <2>. SUFFICES ASSUME NEW c \in CPUs, NEW p \in Procs, running[c] = p
                  PROVE  LET l == IF trap[p] = "none" THEN pc[p] ELSE trap[p] IN
                         /\ cpu[c].proc = p
                         /\ l \in {"sched", "exiting"} =>
                               /\ plock[p] = c /\ cpu[c].noff = 1 /\ cpu[c].intr = 0
                               /\ state[p] # "RUNNING"
                         /\ l \in {"back", "forkret", "sleep_rel"} => plock[p] = c /\ cpu[c].intr = 0
                         /\ l \in {"yield", "work", "as_test"} => plock[p] # c
                         /\ l \in {"as_acquire", "rs_acquire"} => lk # c
                         /\ l \in {"as_test", "sleep_rel", "wakeup"} => lk = c /\ cpu[c].intr = 0
                         /\ l = "wakeup" => \A q \in Procs : plock[q] # c
      BY Zenon DEF NoPanic
    <2>1. Here(c, p)
      BY <1>2, OnCpu, Zenon
    <2>2. \A q \in Procs : plock[q] = c => q = p
      BY <1>2, <2>1, Zenon DEF Here, Inv, Owners
    <2>. QED BY <2>1, <2>2, Zenon DEF Here, Fits, Cpu, Open, HoldsLk, HoldsPlock
  <1>3. Inv => StacksConsistent
    BY <1>1, <1>2 DEF Inv, StacksConsistent
  <1>. QED BY <1>3, Invariance, PTL
=============================================================================
