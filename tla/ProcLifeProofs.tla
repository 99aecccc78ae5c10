--------------------------- MODULE ProcLifeProofs ---------------------------
(***************************************************************************)
(* Proofs about ProcLife, for any size of the process table.               *)
(*                                                                         *)
(* The invariants of the family tree rest on what wait_lock protects.  Inv *)
(* adds to them where a process is while it holds the lock, what fork()    *)
(* has reserved, and that between the wakeup of exit() and the change to   *)
(* ZOMBIE the parent cannot go back to sleep.                              *)
(***************************************************************************)
EXTENDS ProcLife, TLAPS

-----------------------------------------------------------------------------
(* A process in the kernel is RUNNABLE, or asleep in wait().               *)
Positions ==
    \A p \in Procs :
        /\ state[p] \in {"UNUSED", "USED", "ZOMBIE"} => pc[p] = "none"
        /\ state[p] = "SLEEPING" => pc[p] = "asleep"

(* The places in exit() and wait() where wait_lock is held.                *)
Locking ==
    \A p \in Procs :
        pc[p] \in {"scan", "sleep", "exit_wakeup", "exit_zombie"} => wait_lock = p

(* init does not exit, and is nobody's child.                              *)
InitLives ==
    /\ state[initproc] \in {"SLEEPING", "RUNNABLE"}
    /\ pc[initproc] \notin {"exit", "exit_wakeup", "exit_zombie"}
    /\ parent[initproc] = NoProc

(* fork() has a slot of its own, whose parent it is about to be or is.     *)
Forking ==
    \A p \in Procs :
        pc[p] \in {"fork_parent", "fork_run"} =>
            /\ np[p] \in Procs /\ state[np[p]] = "USED"
            /\ pc[p] = "fork_parent" => parent[np[p]] = NoProc
            /\ pc[p] = "fork_run" => parent[np[p]] = p
            /\ \A q \in Procs \ {p} :
                  pc[q] \in {"fork_parent", "fork_run"} => np[q] # np[p]

(* An exiting process has no children left, and its parent does not sleep  *)
(* once it has been woken.                                                 *)
Exiting ==
    \A p \in Procs :
        /\ pc[p] \in {"exit_wakeup", "exit_zombie"} => \A q \in Procs : parent[q] # p
        /\ pc[p] = "exit_zombie" /\ parent[p] \in Procs => state[parent[p]] # "SLEEPING"

(* wait() has seen no zombie when it decides to sleep, and none comes.     *)
Sleeping ==
    \A p \in Procs :
        state[p] = "SLEEPING" \/ pc[p] = "sleep" =>
            \A q \in Procs : parent[q] = p => state[q] # "ZOMBIE"

(* The inductive invariant.                                                *)
Inv ==
    /\ TypeOK /\ Positions /\ Locking /\ InitLives /\ Forking /\ Exiting /\ Sleeping
    /\ PidsUnique /\ ParentAlive

-----------------------------------------------------------------------------
(* Every step of the kernel keeps Inv: fork() and exit() move in and out   *)
(* of their stages one at a time, and whoever changes a parent or reaps a  *)
(* child holds wait_lock.                                                  *)
LEMMA Step == Inv /\ [Next]_vars => Inv'
  <1>. SUFFICES ASSUME Inv, [Next]_vars PROVE Inv'
    OBVIOUS
  <1>. USE ProcAssumption DEF Procs, NoProc, initproc
  <1>1. ASSUME NEW p \in Procs, usertrap_killed(p) PROVE Inv'
    <2>1. TypeOK'
      BY <1>1 DEF usertrap_killed, goto, Inv, TypeOK, PCs
    <2>2. Positions' /\ Locking' /\ InitLives' /\ Forking' /\ Exiting' /\ Sleeping'
      BY <1>1, SMTT(30)
      DEF usertrap_killed, Inv, TypeOK, Positions, Locking, InitLives, Forking,
          Exiting, Sleeping, at, goto
    <2>3. UNCHANGED <<nextpid, parent, pid, state>>
      BY <1>1 DEF usertrap_killed
    <2>. QED
      BY <2>1, <2>2, <2>3 DEF Inv, PidsUnique, ParentAlive, Live
  <1>2. ASSUME NEW p \in Procs, fork_parent(p) PROVE Inv'
    <2>1. TypeOK'
      BY <1>2, Zenon DEF fork_parent, goto, Inv, TypeOK, PCs
    <2>2. Positions'
      BY <1>2 DEF fork_parent, Inv, Positions, at, goto
    <2>3. Locking'
      BY <1>2 DEF fork_parent, Inv, Locking, goto
    <2>4. InitLives'
      BY <1>2 DEF fork_parent, Inv, InitLives, at, goto, Forking
    <2>5. Forking'
      BY <1>2, SMTT(30) DEF fork_parent, Inv, Forking, at, goto, TypeOK
    <2>6. Exiting'
      BY <1>2 DEF fork_parent, Inv, Exiting, at, goto
    <2>7. Sleeping'
      BY <1>2 DEF fork_parent, Inv, Sleeping, at, goto
    <2>8. PidsUnique'
      BY <1>2 DEF fork_parent, Inv, PidsUnique, at, Forking
    <2>9. ParentAlive'
      BY <1>2 DEF fork_parent, Inv, ParentAlive, at, Live
    <2>. QED BY <2>1, <2>2, <2>3, <2>4, <2>5, <2>6, <2>7, <2>8, <2>9 DEF Inv
  <1>3. ASSUME NEW p \in Procs, fork_run(p) PROVE Inv'
    <2>1. TypeOK'
      BY <1>3, Zenon DEF fork_run, Inv, TypeOK, PCs
    <2>2. Positions'
      BY <1>3 DEF fork_run, Inv, Positions, at, TypeOK
    <2>3. Locking'
      BY <1>3 DEF fork_run, Inv, Locking, TypeOK
    <2>4. InitLives'
      BY <1>3 DEF fork_run, Inv, InitLives, TypeOK
    <2>5. Forking'
      BY <1>3, SMTT(30) DEF fork_run, Inv, Forking, at, TypeOK
    <2>6. Exiting'
      BY <1>3, Zenon DEF fork_run, Inv, Exiting, TypeOK
    <2>7. Sleeping'
      BY <1>3 DEF fork_run, Inv, Sleeping, TypeOK
    <2>8. PidsUnique'
      BY <1>3 DEF fork_run, Inv, PidsUnique, at, Forking
    <2>9. ParentAlive'
      BY <1>3 DEF fork_run, Inv, ParentAlive, at, Forking, Live
    <2>. QED BY <2>1, <2>2, <2>3, <2>4, <2>5, <2>6, <2>7, <2>8, <2>9 DEF Inv
  <1>4. ASSUME NEW p \in Procs, reparent(p) PROVE Inv'
    <2>1. TypeOK'
      BY <1>4, SMTT(30) DEF reparent, goto, woken, Inv, TypeOK, PCs
    <2>2. Positions'
      BY <1>4 DEF reparent, Inv, Positions, at, goto, woken
    <2>3. Locking'
      BY <1>4 DEF reparent, Inv, Locking, goto
    <2>4. InitLives'
      BY <1>4 DEF reparent, Inv, InitLives, at, goto, woken
    <2>5. Forking'
      BY <1>4 DEF reparent, Inv, Forking, at, goto, woken
    <2>6. Exiting'
      BY <1>4, SMTT(30) DEF reparent, Inv, Exiting, at, goto, woken, TypeOK, InitLives
    <2>7. Sleeping'
      BY <1>4 DEF reparent, Inv, Sleeping, goto, woken, TypeOK, Locking
    <2>8. PidsUnique'
      BY <1>4 DEF reparent, Inv, PidsUnique, woken
    <2>9. ParentAlive'
      BY <1>4 DEF reparent, Inv, ParentAlive, woken, InitLives, Live
    <2>. QED BY <2>1, <2>2, <2>3, <2>4, <2>5, <2>6, <2>7, <2>8, <2>9 DEF Inv
  <1>5. ASSUME NEW p \in Procs, exit_wakeup(p) PROVE Inv'
    <2>1. TypeOK'
      BY <1>5, Zenon DEF exit_wakeup, goto, woken, Inv, TypeOK, PCs
    <2>2. Positions'
      BY <1>5 DEF exit_wakeup, Inv, Positions, at, goto, woken
    <2>3. Locking'
      BY <1>5 DEF exit_wakeup, Inv, Locking, at, goto
    <2>4. InitLives'
      BY <1>5 DEF exit_wakeup, Inv, InitLives, at, goto, woken
    <2>5. Forking'
      BY <1>5 DEF exit_wakeup, Inv, Forking, goto, woken
    <2>6. Exiting'
      BY <1>5 DEF exit_wakeup, Inv, Exiting, at, goto, woken, TypeOK
    <2>7. Sleeping'
      BY <1>5 DEF exit_wakeup, Inv, Sleeping, goto, woken
    <2>8. PidsUnique'
      BY <1>5 DEF exit_wakeup, Inv, PidsUnique, woken
    <2>9. ParentAlive'
      BY <1>5 DEF exit_wakeup, Inv, ParentAlive, woken, Live
    <2>. QED BY <2>1, <2>2, <2>3, <2>4, <2>5, <2>6, <2>7, <2>8, <2>9 DEF Inv
  <1>6. ASSUME NEW p \in Procs, exit_zombie(p) PROVE Inv'
    <2>1. TypeOK'
      BY <1>6 DEF exit_zombie, goto, Inv, TypeOK, PCs
    <2>2. Positions'
      BY <1>6 DEF exit_zombie, Inv, Positions, goto, TypeOK
    <2>3. Locking'
      BY <1>6 DEF exit_zombie, Inv, Locking, at, goto, TypeOK
    <2>4. InitLives'
      BY <1>6 DEF exit_zombie, Inv, InitLives, at, goto
    <2>5. Forking'
      BY <1>6 DEF exit_zombie, Inv, Forking, at, goto
    <2>6. Exiting'
      BY <1>6 DEF exit_zombie, Inv, Exiting, goto
    <2>7. Sleeping'
      BY <1>6
      DEF exit_zombie, Inv, Sleeping, at, goto, Locking, Exiting, PidsUnique
    <2>8. PidsUnique'
      BY <1>6 DEF exit_zombie, Inv, PidsUnique, at
    <2>9. ParentAlive'
      BY <1>6 DEF exit_zombie, Inv, ParentAlive, at, Exiting, Live
    <2>. QED BY <2>1, <2>2, <2>3, <2>4, <2>5, <2>6, <2>7, <2>8, <2>9 DEF Inv
  <1>7. ASSUME NEW p \in Procs, wait_acquire(p) PROVE Inv'
    <2>1. TypeOK'
      BY <1>7 DEF wait_acquire, goto, Inv, TypeOK, PCs
    <2>2. Positions'
      BY <1>7 DEF wait_acquire, Inv, Positions, at, goto
    <2>3. Locking'
      BY <1>7 DEF wait_acquire, Inv, Locking, goto
    <2>4. InitLives'
      BY <1>7 DEF wait_acquire, Inv, InitLives, goto
    <2>5. Forking'
      BY <1>7 DEF wait_acquire, Inv, Forking, goto
    <2>6. Exiting'
      BY <1>7 DEF wait_acquire, Inv, Exiting, goto
    <2>7. Sleeping'
      BY <1>7 DEF wait_acquire, Inv, Sleeping, goto
    <2>8. UNCHANGED <<nextpid, parent, pid, state>>
      BY <1>7 DEF wait_acquire
    <2>. QED
      BY <2>1, <2>2, <2>3, <2>4, <2>5, <2>6, <2>7, <2>8
      DEF Inv, PidsUnique, ParentAlive, Live
  <1>8. ASSUME NEW p \in Procs, wait_reap(p) PROVE Inv'
    <2>1. TypeOK'
      BY <1>8 DEF wait_reap, goto, zombies, children, freeproc, Inv, TypeOK, PCs
    <2>2. Positions'
      BY <1>8 DEF wait_reap, Inv, Positions, at, goto, zombies, freeproc
    <2>3. Locking'
      BY <1>8 DEF wait_reap, Inv, Locking, at, goto, TypeOK
    <2>4. InitLives'
      BY <1>8 DEF wait_reap, Inv, InitLives, goto, zombies, freeproc
    <2>5. Forking'
      BY <1>8 DEF wait_reap, Inv, Forking, goto, zombies, freeproc
    <2>6. Exiting'
      BY <1>8 DEF wait_reap, Inv, Exiting, goto, freeproc
    <2>7. Sleeping'
      BY <1>8 DEF wait_reap, Inv, Sleeping, goto, freeproc
    <2>8. PidsUnique'
      BY <1>8 DEF wait_reap, Inv, PidsUnique, freeproc, TypeOK
    <2>9. ParentAlive'
      BY <1>8, SMTT(30)
      DEF wait_reap, Inv, ParentAlive, zombies, freeproc, TypeOK, Positions,
          Live
    <2>. QED BY <2>1, <2>2, <2>3, <2>4, <2>5, <2>6, <2>7, <2>8, <2>9 DEF Inv
  <1>9. ASSUME NEW p \in Procs, wait_bad_address(p) PROVE Inv'
    <2>1. TypeOK'
      BY <1>9 DEF wait_bad_address, goto, Inv, TypeOK, PCs
    <2>2. Positions' /\ Locking' /\ InitLives' /\ Forking' /\ Exiting' /\ Sleeping'
      BY <1>9, SMTT(30)
      DEF wait_bad_address, Inv, TypeOK, Positions, Locking, InitLives,
          Forking, Exiting, Sleeping, at, goto
    <2>3. UNCHANGED <<nextpid, parent, pid, state>>
      BY <1>9 DEF wait_bad_address
    <2>. QED
      BY <2>1, <2>2, <2>3 DEF Inv, PidsUnique, ParentAlive, Live
  <1>10. ASSUME NEW p \in Procs, wait_gives_up(p) PROVE Inv'
    <2>1. TypeOK'
      BY <1>10 DEF wait_gives_up, goto, Inv, TypeOK, PCs
    <2>2. Positions' /\ Locking' /\ InitLives' /\ Forking' /\ Exiting' /\ Sleeping'
      BY <1>10, SMTT(30)
      DEF wait_gives_up, Inv, TypeOK, Positions, Locking, InitLives, Forking,
          Exiting, Sleeping, at, goto
    <2>3. UNCHANGED <<nextpid, parent, pid, state>>
      BY <1>10 DEF wait_gives_up
    <2>. QED
      BY <2>1, <2>2, <2>3 DEF Inv, PidsUnique, ParentAlive, Live
  <1>11. ASSUME NEW p \in Procs, wait_must_sleep(p) PROVE Inv'
    <2>1. TypeOK'
      BY <1>11 DEF wait_must_sleep, goto, zombies, children, Inv, TypeOK, PCs
    <2>2. Positions'
      BY <1>11 DEF wait_must_sleep, Inv, Positions, at, goto
    <2>3. Locking'
      BY <1>11 DEF wait_must_sleep, Inv, Locking, at, goto
    <2>4. InitLives'
      BY <1>11 DEF wait_must_sleep, Inv, InitLives, goto
    <2>5. Forking'
      BY <1>11 DEF wait_must_sleep, Inv, Forking, goto
    <2>6. Exiting'
      BY <1>11 DEF wait_must_sleep, Inv, Exiting, goto
    <2>7. \A q \in Procs : parent[q] = p => state[q] # "ZOMBIE"
      BY <1>11 DEF wait_must_sleep, zombies, children
    <2>8. Sleeping'
      BY <1>11, <2>7 DEF wait_must_sleep, Inv, Sleeping, goto
    <2>9. UNCHANGED <<nextpid, parent, pid, state>>
      BY <1>11 DEF wait_must_sleep
    <2>. QED
      BY <2>1, <2>2, <2>3, <2>4, <2>5, <2>6, <2>7, <2>8, <2>9
      DEF Inv, PidsUnique, ParentAlive, Live
  <1>12. ASSUME NEW p \in Procs, wait_sleep(p) PROVE Inv'
    <2>1. TypeOK'
      BY <1>12 DEF wait_sleep, goto, Inv, TypeOK, PCs
    <2>2. Positions'
      BY <1>12 DEF wait_sleep, Inv, Positions, goto, TypeOK
    <2>3. Locking'
      BY <1>12 DEF wait_sleep, Inv, Locking, at, goto, TypeOK
    <2>4. InitLives'
      BY <1>12 DEF wait_sleep, Inv, InitLives, goto
    <2>5. Forking'
      BY <1>12 DEF wait_sleep, Inv, Forking, at, goto
    <2>6. Exiting'
      BY <1>12 DEF wait_sleep, Inv, Exiting, at, goto, Locking
    <2>7. Sleeping'
      BY <1>12 DEF wait_sleep, Inv, Sleeping, at, goto
    <2>8. PidsUnique'
      BY <1>12 DEF wait_sleep, Inv, PidsUnique, at
    <2>9. ParentAlive'
      BY <1>12 DEF wait_sleep, Inv, ParentAlive, at, Live
    <2>. QED BY <2>1, <2>2, <2>3, <2>4, <2>5, <2>6, <2>7, <2>8, <2>9 DEF Inv
  <1>13. ASSUME NEW p \in Procs, NEW q \in Procs, fork_alloc(p, q) PROVE Inv'
    <2>1. TypeOK'
      BY <1>13, SMTT(30) DEF fork_alloc, goto, Inv, TypeOK, PCs
    <2>2. Positions'
      BY <1>13 DEF fork_alloc, Inv, Positions, syscall, at, goto
    <2>3. Locking'
      BY <1>13 DEF fork_alloc, Inv, Locking, goto
    <2>4. InitLives'
      BY <1>13 DEF fork_alloc, Inv, InitLives, goto
    <2>5. Forking'
      BY <1>13, SMTT(30) DEF fork_alloc, Inv, Forking, goto, TypeOK, PidsUnique
    <2>6. Exiting'
      BY <1>13 DEF fork_alloc, Inv, Exiting, goto
    <2>7. Sleeping'
      BY <1>13 DEF fork_alloc, Inv, Sleeping, goto
    <2>8. PidsUnique'
      BY <1>13, SMTT(30) DEF fork_alloc, Inv, PidsUnique, TypeOK
    <2>9. ParentAlive'
      BY <1>13 DEF fork_alloc, Inv, ParentAlive, PidsUnique, Live
    <2>. QED BY <2>1, <2>2, <2>3, <2>4, <2>5, <2>6, <2>7, <2>8, <2>9 DEF Inv
  <1>14. ASSUME NEW p \in Procs, NEW q \in Procs, fork_fails(p, q) PROVE Inv'
    <2>1. TypeOK'
      BY <1>14, SMTT(30) DEF fork_fails, freeproc, Inv, TypeOK
    <2>2. Positions'
      BY <1>14 DEF fork_fails, Inv, Positions, freeproc
    <2>3. InitLives'
      BY <1>14 DEF fork_fails, Inv, InitLives, freeproc
    <2>4. Forking'
      BY <1>14 DEF fork_fails, Inv, Forking, freeproc
    <2>5. Exiting'
      BY <1>14 DEF fork_fails, Inv, Exiting, freeproc
    <2>6. Sleeping'
      BY <1>14 DEF fork_fails, Inv, Sleeping, freeproc
    <2>7. PidsUnique'
      BY <1>14 DEF fork_fails, Inv, PidsUnique, freeproc, TypeOK
    <2>8. ParentAlive'
      BY <1>14 DEF fork_fails, Inv, ParentAlive, freeproc, Live
    <2>9. UNCHANGED <<pc, wait_lock>>
      BY <1>14 DEF fork_fails, freeproc
    <2>. QED
      BY <2>1, <2>2, <2>3, <2>4, <2>5, <2>6, <2>7, <2>8, <2>9 DEF Inv, Locking
  <1>15. ASSUME NEW p \in Procs, exit(p) PROVE Inv'
    <2>1. TypeOK'
      BY <1>15 DEF exit, goto, Inv, TypeOK, PCs
    <2>2. Positions' /\ Locking' /\ InitLives' /\ Forking' /\ Exiting' /\ Sleeping'
      BY <1>15, SMTT(30)
      DEF exit, Inv, TypeOK, Positions, Locking, InitLives, Forking, Exiting,
          Sleeping, syscall, at, goto
    <2>3. UNCHANGED <<nextpid, parent, pid, state>>
      BY <1>15 DEF exit
    <2>. QED
      BY <2>1, <2>2, <2>3 DEF Inv, PidsUnique, ParentAlive, Live
  <1>16. ASSUME NEW p \in Procs, wait(p) PROVE Inv'
    <2>1. TypeOK'
      BY <1>16 DEF wait, goto, Inv, TypeOK, PCs
    <2>2. Positions' /\ Locking' /\ InitLives' /\ Forking' /\ Exiting' /\ Sleeping'
      BY <1>16, SMTT(30)
      DEF wait, Inv, TypeOK, Positions, Locking, InitLives, Forking, Exiting,
          Sleeping, syscall, at, goto
    <2>3. UNCHANGED <<nextpid, parent, pid, state>>
      BY <1>16 DEF wait
    <2>. QED
      BY <2>1, <2>2, <2>3 DEF Inv, PidsUnique, ParentAlive, Live
  <1>17. ASSUME NEW p \in Procs, setkilled(p) PROVE Inv'
    <2>1. pid[p] \in 0..MaxPid
      BY DEF Inv, TypeOK
    <2>2. TypeOK'
      BY <1>17, <2>1, Zenon DEF setkilled, at, Inv, TypeOK
    <2>3. UNCHANGED <<nextpid, np, parent, pc, pid, state, wait_lock>>
      BY <1>17 DEF setkilled
    <2>. QED
      BY <2>1, <2>2, <2>3
      DEF Inv, Positions, Locking, InitLives, Forking, Exiting, Sleeping,
          PidsUnique, ParentAlive, Live
  <1>18. ASSUME NEW p \in Procs, NEW n \in KillPids, kill(p, n) PROVE Inv'
    <2>1. TypeOK'
      BY <1>18, SMTT(30) DEF kill, woken, Inv, TypeOK
    <2>2. Positions'
      BY <1>18 DEF kill, Inv, Positions, woken
    <2>3. InitLives'
      BY <1>18 DEF kill, Inv, InitLives, woken
    <2>4. Forking'
      BY <1>18 DEF kill, Inv, Forking, woken
    <2>5. Exiting'
      BY <1>18 DEF kill, Inv, Exiting, woken
    <2>6. Sleeping'
      BY <1>18 DEF kill, Inv, Sleeping, woken
    <2>7. PidsUnique'
      BY <1>18 DEF kill, Inv, PidsUnique, woken
    <2>8. ParentAlive'
      BY <1>18 DEF kill, Inv, ParentAlive, woken, Live
    <2>9. UNCHANGED <<pc, wait_lock>>
      BY <1>18 DEF kill
    <2>. QED
      BY <2>1, <2>2, <2>3, <2>4, <2>5, <2>6, <2>7, <2>8, <2>9 DEF Inv, Locking
  <1>19. CASE UNCHANGED vars
    BY <1>19, SMTT(30)
    DEF vars, Inv, TypeOK, Positions, Locking, InitLives, Forking, Exiting,
        Sleeping, PidsUnique, ParentAlive, Live
  <1>. QED
    BY <1>1, <1>2, <1>3, <1>4, <1>5, <1>6, <1>7, <1>8, <1>9,
       <1>10, <1>11, <1>12, <1>13, <1>14, <1>15, <1>16, <1>17, <1>18, <1>19, Zenon
    DEF Next, kernel, call

(* Inv holds in every state: Init implies it and every step keeps it.     *)
LEMMA Invariance == Spec => []Inv
  <1>1. Init => Inv
    BY ProcAssumption
    DEF Init, Inv, TypeOK, Positions, Locking, InitLives, Forking, Exiting, Sleeping,
        PidsUnique, ParentAlive, Procs, NoProc, initproc, PCs
  <1>. QED BY <1>1, Step, PTL DEF Spec

(* No parent sleeps in wait() beside a zombie child, for any number of     *)
(* processes: exit() wakes its parent before it is a zombie, and wait_lock *)
(* keeps the parent from sleeping in between.                              *)
THEOREM NoSleepWithZombieHolds == Spec => []NoSleepWithZombie
  <1>1. Inv => NoSleepWithZombie
    BY DEF Inv, Sleeping, NoSleepWithZombie, zombies, children
  <1>. QED BY <1>1, Invariance, PTL

-----------------------------------------------------------------------------
(* A free slot is not killed, and one in use only by request.              *)
Asked ==
    \A p \in Procs :
        IF state[p] = "UNUSED" THEN killed[p] = 0 ELSE killed[p] = 1 => pid[p] \in asked

(* A slot is given back with killed cleared, so that a process starts      *)
(* without the kills of the one before it - if nobody kills the pid 0 of   *)
(* the free slots.                                                         *)
LEMMA AskedStep ==
  ASSUME 0 \notin KillPids, Inv, Asked, [Next]_vars
  PROVE  Asked'
  <1>. USE ProcAssumption DEF Procs, NoProc, initproc
  <1>1. ASSUME NEW p \in Procs, kernel(p) PROVE Asked'
    <2>1. CASE usertrap_killed(p) \/ fork_parent(p) \/ wait_acquire(p)
               \/ wait_bad_address(p) \/ wait_gives_up(p) \/ wait_must_sleep(p)
      BY <2>1 DEF usertrap_killed, fork_parent, wait_acquire, wait_bad_address,
                  wait_gives_up, wait_must_sleep, Asked
    <2>2. CASE fork_run(p)
      BY <2>2 DEF fork_run, at, Inv, TypeOK, Forking, Asked
    <2>3. CASE reparent(p) \/ exit_wakeup(p)
      BY <2>3, ZenonT(40) DEF reparent, exit_wakeup, woken, Inv, TypeOK, Asked
    <2>4. CASE exit_zombie(p) \/ wait_sleep(p)
      BY <2>4 DEF exit_zombie, wait_sleep, at, Inv, TypeOK, Asked
    <2>5. CASE wait_reap(p)
      BY <2>5 DEF wait_reap, freeproc, zombies, children, Inv, TypeOK, Asked
    <2>. QED BY <1>1, <2>1, <2>2, <2>3, <2>4, <2>5 DEF kernel
  <1>2. ASSUME NEW p \in Procs, NEW q \in Procs, fork_alloc(p, q) \/ fork_fails(p, q)
        PROVE  Asked'
    <2>1. CASE fork_alloc(p, q)
      BY <2>1 DEF fork_alloc, Inv, TypeOK, Asked
    <2>2. CASE fork_fails(p, q)
      BY <2>2 DEF fork_fails, freeproc, Inv, TypeOK, Asked
    <2>. QED BY <1>2, <2>1, <2>2
  <1>3. ASSUME NEW p \in Procs, exit(p) \/ wait(p) PROVE Asked'
    BY <1>3 DEF exit, wait, Asked
  <1>4. ASSUME NEW p \in Procs, setkilled(p) PROVE Asked'
    BY <1>4 DEF setkilled, at, Inv, TypeOK, Asked
  <1>5. ASSUME NEW p \in Procs, NEW n \in KillPids, kill(p, n) PROVE Asked'
    <2>1. PICK q \in Procs : /\ pid[q] = n
                             /\ killed' = [killed EXCEPT ![q] = 1]
                             /\ state' = woken(state, q)
      BY <1>5, Zenon DEF kill
    <2>2. state[q] # "UNUSED"
      BY <2>1 DEF Inv, PidsUnique
    <2>. QED
      BY <1>5, <2>1, <2>2, SMTT(30) DEF kill, woken, Inv, TypeOK, Asked
  <1>6. CASE UNCHANGED vars
    BY <1>6 DEF vars, Asked
  <1>. QED BY <1>1, <1>2, <1>3, <1>4, <1>5, <1>6, Zenon DEF Next, call

(* The process table is consistent for any number of processes, if nobody  *)
(* calls kill(0): pids are distinct, every child has a parent that can     *)
(* wait for it, and a process is killed only if somebody asked for it.     *)
THEOREM FamilyConsistentHolds ==
  ASSUME 0 \notin KillPids
  PROVE  Spec => []FamilyConsistent
  <1>1. Init => Asked
    BY DEF Init, Asked
  <1>2. Inv /\ Asked /\ [Next]_vars => Asked'
    BY AskedStep
  <1>3. Inv /\ Asked => FamilyConsistent
    BY DEF Inv, Asked, FamilyConsistent, KilledOnlyByRequest, Live
  <1>. QED BY <1>1, <1>2, <1>3, Invariance, PTL DEF Spec

=============================================================================
