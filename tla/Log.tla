-------------------------------- MODULE Log --------------------------------
(***************************************************************************)
(* The redo log of the file system, kernel/log.c, over a buffer cache that *)
(* may drop any block that is not pinned, on a disk that writes one block  *)
(* at a time, with crashes at every step and recovery at boot.             *)
(*                                                                         *)
(* Each action is one critical section under log.lock, or the code up to   *)
(* and including one disk write (bwrite).                                  *)
(***************************************************************************)
EXTENDS Naturals, Sequences, FiniteSets

CONSTANTS Procs,        \* processes that make file system calls
          Blocks,       \* home block numbers
          Values,       \* contents of a block
          LogSize,      \* LOGSIZE, param.h
          LogBlocks,    \* log.size = sb.nlog: blocks of the on-disk log, header included
          MaxOpBlocks,  \* MAXOPBLOCKS, param.h: what begin_op() reserves for one call
          OpBlocks,     \* distinct blocks one call really writes, at most
          MaxCrashes    \* bound on crashes

ASSUME LogAssumption ==
    /\ IsFiniteSet(Procs)
    /\ LogSize \in Nat /\ LogBlocks \in Nat /\ MaxOpBlocks \in Nat
    /\ OpBlocks \in Nat /\ MaxCrashes \in Nat
    /\ LogBlocks >= 1
    /\ OpBlocks <= MaxOpBlocks

VARIABLES
    \* memory
    outstanding, committing,  \* struct log
    lh,                       \* log.lh: block numbers, in order; log.lh.n = Len(lh)
    step, tail,               \* where commit() or recover_from_log() is, and its loop index
    pc,                       \* where each process is in its file system call
    wrote,                    \* blocks each call has written so far
    cache,                    \* what bread() returns for each home block
    pins,                     \* references bpin() holds on each block's buffer
    \* disk
    home, logd, header,       \* home blocks, log blocks, header block
    crashes                   \* crashes so far

memvars  == <<outstanding, committing, lh, step, tail, pc, wrote, cache, pins>>
diskvars == <<home, logd, header>>
vars     == <<memvars, diskvars, crashes>>

LogArea == 1..(LogBlocks - 1)

PC == {"idle", "sleep", "begin", "op", "commit"}
RecoverySteps == {"read_head", "r_install"}
CommitSteps   == {"write_log", "install", "end"}

TypeOK ==
    /\ outstanding \in Nat
    /\ committing \in {0, 1}
    /\ lh \in Seq(Blocks)
    /\ step \in {"none"} \cup RecoverySteps \cup CommitSteps
    /\ tail \in Nat
    /\ pc \in [Procs -> PC]
    /\ wrote \in [Procs -> SUBSET Blocks]
    /\ cache \in [Blocks -> Values]
    /\ pins \in [Blocks -> Nat]
    /\ home \in [Blocks -> Values]
    /\ logd \in [LogArea -> Values]
    /\ header \in Seq(Blocks)
    /\ crashes \in 0..MaxCrashes

\* mkfs writes an image whose log is all zeroes.  At boot nothing is cached
\* and recover_from_log() is about to run (initlog).
Init ==
    /\ home \in [Blocks -> Values]
    /\ logd \in {[i \in LogArea |-> v] : v \in Values}
    /\ header = <<>>
    /\ crashes = 0
    /\ outstanding = 0
    /\ committing = 0
    /\ lh = <<>>
    /\ step = "read_head"
    /\ tail = 0
    /\ pc = [p \in Procs |-> "idle"]
    /\ wrote = [p \in Procs |-> {}]
    /\ cache = home
    /\ pins = [b \in Blocks |-> 0]

-----------------------------------------------------------------------------
(* recover_from_log() *)

read_head ==
    /\ step = "read_head"
    /\ lh' = header
    /\ tail' = 1
    /\ step' = "r_install"
    /\ UNCHANGED <<outstanding, committing, pc, wrote, cache, pins, diskvars, crashes>>

\* One round of the loop of install_trans(): copy log block tail to its home.
\* Only commit() unpins the block.
install(unpin) ==
    /\ tail <= Len(lh)
    /\ home' = [home EXCEPT ![lh[tail]] = logd[tail]]
    /\ cache' = [cache EXCEPT ![lh[tail]] = logd[tail]]
    /\ pins' = IF unpin THEN [pins EXCEPT ![lh[tail]] = @ - 1] ELSE pins
    /\ tail' = tail + 1
    /\ UNCHANGED <<outstanding, committing, lh, step, pc, wrote, logd, header, crashes>>

\* Mutant: recovery unpins too, as if install_trans() did not test recovering.
r_install_unpins == step = "r_install" /\ install(TRUE)

r_install == step = "r_install" /\ install(FALSE)

\* The loop of install_trans() has ended: log.lh.n = 0; write_head().
clear(next) ==
    /\ tail > Len(lh)
    /\ lh' = <<>>
    /\ header' = <<>>
    /\ step' = next
    /\ UNCHANGED <<outstanding, committing, tail, pc, wrote, cache, pins, home, logd, crashes>>

r_clear == step = "r_install" /\ clear("none")

-----------------------------------------------------------------------------
(* begin_op() and end_op() *)

wakeup_log(pcs) == [p \in Procs |-> IF pcs[p] = "sleep" THEN "begin" ELSE pcs[p]]

\* Mutant: begin_op() does not wait for a commit.
begin_op_during_commit == Len(lh) + (outstanding + 1) * MaxOpBlocks > LogSize

begin_op_must_wait ==
    \/ committing = 1
    \/ Len(lh) + (outstanding + 1) * MaxOpBlocks > LogSize

begin_op_sleep(p) ==
    /\ step \notin RecoverySteps
    /\ pc[p] \in {"idle", "begin"}
    /\ begin_op_must_wait
    /\ pc' = [pc EXCEPT ![p] = "sleep"]
    /\ UNCHANGED <<outstanding, committing, lh, step, tail, wrote, cache, pins, diskvars, crashes>>

begin_op_enter(p) ==
    /\ step \notin RecoverySteps
    /\ pc[p] \in {"idle", "begin"}
    /\ ~begin_op_must_wait
    /\ outstanding' = outstanding + 1
    /\ pc' = [pc EXCEPT ![p] = "op"]
    /\ UNCHANGED <<committing, lh, step, tail, wrote, cache, pins, diskvars, crashes>>

end_op_last(p) ==
    /\ pc[p] = "op"
    /\ committing = 0
    /\ outstanding = 1
    /\ outstanding' = 0
    /\ committing' = 1
    /\ pc' = [pc EXCEPT ![p] = "commit"]
    /\ wrote' = [wrote EXCEPT ![p] = {}]
    /\ step' = IF Len(lh) > 0 THEN "write_log" ELSE "end"
    /\ tail' = 1
    /\ UNCHANGED <<lh, cache, pins, diskvars, crashes>>

end_op_not_last(p) ==
    /\ pc[p] = "op"
    /\ committing = 0
    /\ outstanding # 1
    /\ outstanding' = outstanding - 1
    /\ pc' = wakeup_log([pc EXCEPT ![p] = "idle"])
    /\ wrote' = [wrote EXCEPT ![p] = {}]
    /\ UNCHANGED <<committing, lh, step, tail, cache, pins, diskvars, crashes>>

\* Mutant: end_op() without the wakeup after commit().
end_op_committed_silent ==
    /\ step = "end"
    /\ committing' = 0
    /\ pc' = [p \in Procs |-> IF pc[p] = "commit" THEN "idle" ELSE pc[p]]
    /\ step' = "none"
    /\ UNCHANGED <<outstanding, lh, tail, wrote, cache, pins, diskvars, crashes>>

\* After commit() returns: log.committing = 0, wakeup(&log).
end_op_committed ==
    /\ step = "end"
    /\ committing' = 0
    /\ pc' = wakeup_log([p \in Procs |-> IF pc[p] = "commit" THEN "idle" ELSE pc[p]])
    /\ step' = "none"
    /\ UNCHANGED <<outstanding, lh, tail, wrote, cache, pins, diskvars, crashes>>

-----------------------------------------------------------------------------
(* log_write() and commit() *)

log_write_panics ==
    \/ Len(lh) >= LogSize
    \/ Len(lh) >= LogBlocks - 1
    \/ outstanding < 1

\* The caller may still write block b without exceeding its OpBlocks blocks.
may_write(p, b) ==
    /\ pc[p] = "op"
    /\ b \in wrote[p] \/ Cardinality(wrote[p]) < OpBlocks

\* The blocks log.lh names; log_write() absorbs a further write to one of them.
logged == {lh[i] : i \in 1..Len(lh)}

\* Mutant: log_write() pins a block again when it absorbs a write.
log_write_pins_again(p, b, v) ==
    /\ may_write(p, b)
    /\ ~log_write_panics
    /\ cache' = [cache EXCEPT ![b] = v]
    /\ wrote' = [wrote EXCEPT ![p] = @ \cup {b}]
    /\ lh' = IF b \in logged THEN lh ELSE Append(lh, b)
    /\ pins' = [pins EXCEPT ![b] = @ + 1]
    /\ UNCHANGED <<outstanding, committing, step, tail, pc, diskvars, crashes>>

\* bread(), modify, log_write(), brelse(): the buffer is locked throughout.
log_write(p, b, v) ==
    /\ may_write(p, b)
    /\ ~log_write_panics
    /\ cache' = [cache EXCEPT ![b] = v]
    /\ wrote' = [wrote EXCEPT ![p] = @ \cup {b}]
    /\ IF b \in logged
         THEN UNCHANGED <<lh, pins>>
         ELSE /\ lh' = Append(lh, b)
              /\ pins' = [pins EXCEPT ![b] = @ + 1]
    /\ UNCHANGED <<outstanding, committing, step, tail, pc, diskvars, crashes>>

\* One round of the loop of write_log(): copy a modified block into the log.
write_log ==
    /\ step = "write_log"
    /\ tail <= Len(lh)
    /\ logd' = [logd EXCEPT ![tail] = cache[lh[tail]]]
    /\ tail' = tail + 1
    /\ UNCHANGED <<outstanding, committing, lh, step, pc, wrote, cache, pins, home, header, crashes>>

\* Mutant: the header is written before all blocks are in the log.
write_head_early ==
    /\ step = "write_log"
    /\ header' = lh
    /\ step' = "install"
    /\ tail' = 1
    /\ UNCHANGED <<outstanding, committing, lh, pc, wrote, cache, pins, home, logd, crashes>>

\* The commit point: write_head() once write_log() has copied every block.
write_head ==
    /\ step = "write_log"
    /\ tail > Len(lh)
    /\ header' = lh
    /\ step' = "install"
    /\ tail' = 1
    /\ UNCHANGED <<outstanding, committing, lh, pc, wrote, cache, pins, home, logd, crashes>>

install_trans == step = "install" /\ install(TRUE)

clear_head == step = "install" /\ clear("end")

commit == write_log \/ write_head \/ install_trans \/ clear_head \/ end_op_committed

-----------------------------------------------------------------------------
(* The buffer cache recycles an unreferenced buffer, and a later bread()   *)
(* fetches the block from the disk again (bget, bread).                    *)
evict(b) ==
    /\ pins[b] = 0
    /\ cache' = [cache EXCEPT ![b] = home[b]]
    /\ UNCHANGED <<outstanding, committing, lh, step, tail, pc, wrote, pins, diskvars, crashes>>

\* Power fails and the machine boots again: memory is lost, the disk stays.
crash ==
    /\ crashes < MaxCrashes
    /\ crashes' = crashes + 1
    /\ outstanding' = 0
    /\ committing' = 0
    /\ lh' = <<>>
    /\ step' = "read_head"
    /\ tail' = 0
    /\ pc' = [p \in Procs |-> "idle"]
    /\ wrote' = [p \in Procs |-> {}]
    /\ cache' = home
    /\ pins' = [b \in Blocks |-> 0]
    /\ UNCHANGED diskvars

recover == read_head \/ r_install \/ r_clear

Next ==
    \/ recover
    \/ commit
    \/ \E p \in Procs : \/ begin_op_sleep(p)
                        \/ begin_op_enter(p)
                        \/ end_op_last(p)
                        \/ end_op_not_last(p)
                        \/ \E b \in Blocks, v \in Values : log_write(p, b, v)
    \/ \E b \in Blocks : evict(b)
    \/ crash

Spec == Init /\ [][Next]_vars

\* Every call reaches end_op(), every woken process runs again, and commit()
\* and recover_from_log() are straight-line code: each step is eventually
\* taken.  Nothing forces a process to start a call, to write or to crash.
Fairness ==
    /\ WF_vars(recover)
    /\ WF_vars(commit)
    /\ \A p \in Procs :
         /\ WF_vars(pc[p] = "begin" /\ (begin_op_sleep(p) \/ begin_op_enter(p)))
         /\ WF_vars(end_op_last(p) \/ end_op_not_last(p))

FairSpec == Spec /\ Fairness

-----------------------------------------------------------------------------
(* Properties *)

\* What recover_from_log() would leave in each home block if power failed now.
Recovered ==
    [b \in Blocks |->
        IF \E i \in 1..Len(header) : header[i] = b
          THEN logd[CHOOSE i \in 1..Len(header) : header[i] = b]
          ELSE home[b]]

\* What the running file system sees; during recovery, what it will see.
View == IF step \in RecoverySteps THEN Recovered ELSE cache

InOp == {p \in Procs : pc[p] = "op"}

\* The log implements atomic group commit: the header write of commit() makes
\* every finished call durable at once, and a crash at any disk write, during
\* recovery included, leaves either all of a group's blocks or none of them.
AD == INSTANCE AtomicDisk WITH
        durable <- Recovered,
        current <- View,
        active  <- InOp

ImplementsAtomicDisk == AD!Spec

\* No process that stays within its OpBlocks blocks meets a panic of
\* log_write() or end_op(): begin_op() reserved the space beforehand.
NoPanic ==
    \A p \in Procs :
        /\ (\E b \in Blocks : may_write(p, b)) => ~log_write_panics
        /\ pc[p] = "op" => committing = 0

\* The unused part of every admitted call's reservation fits in the log.
Reserved == {x \in Procs \X (1..MaxOpBlocks) :
                pc[x[1]] = "op" /\ x[2] > Cardinality(wrote[x[1]])}
ReservationFits == Len(lh) + Cardinality(Reserved) <= LogSize

\* Each block awaiting installation is pinned exactly once, every other block
\* not at all: log_write()'s bpin and install_trans()'s bunpin balance, so
\* no buffer is leaked to, or stolen from, the log.
AwaitingInstall ==
    {b \in Blocks : /\ step \notin RecoverySteps
                    /\ \E i \in 1..Len(lh) : lh[i] = b /\ (step = "install" => i >= tail)}
PinsBalance == \A b \in Blocks : pins[b] = IF b \in AwaitingInstall THEN 1 ELSE 0

\* When no call is in progress and no commit is running, every update that
\* finished calls made is on disk: the last end_op() returns after its commit.
QuiescentIsDurable ==
    step = "none" /\ outstanding = 0 => Recovered = cache

\* A process that begin_op() puts to sleep is woken: no wakeup(&log) is missed
\* between the last end_op() and the commit that frees the log.
SleepersWake == \A p \in Procs : pc[p] = "sleep" ~> pc[p] # "sleep"

==============================================================================
