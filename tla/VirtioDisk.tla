----------------------------- MODULE VirtioDisk -----------------------------
(***************************************************************************)
(* The virtio block driver (kernel/virtio_disk.c): processes in            *)
(* virtio_disk_rw(), the interrupt handler, and the device, which works    *)
(* through the rings at its own pace and may finish requests out of order. *)
(*                                                                         *)
(* The device is external: it is modelled from how the driver uses it.     *)
(* Each process has the buffer it calls with; that a buffer is in one call *)
(* at a time is the buffer's sleep-lock (BCache.tla).  Sections under      *)
(* vdisk_lock are split where the device can tell: at avail->idx += 1 and  *)
(* inside the handler.  A ring entry that its reader has passed keeps a    *)
(* stale value in memory; here it becomes None, which no property accepts  *)
(* as an entry to be read.                                                 *)
(***************************************************************************)
EXTENDS Integers, FiniteSets

CONSTANTS
    Procs,
    NUM,            \* descriptors, and entries of each ring
    Wrap,           \* 2^16: the ring indices are of type uint16
    NoProc, Intr,   \* who holds vdisk_lock: nobody, or the handler
    None            \* no descriptor

Desc == 0..NUM - 1

ASSUME VirtioAssumption ==
    /\ NUM \in Nat /\ NUM >= 3
    /\ Wrap \in Nat \ {0} /\ Wrap % NUM = 0
    /\ Intr \notin Procs /\ NoProc \notin Procs /\ NoProc # Intr /\ None \notin Desc

VARIABLES
    free,               \* the descriptors with disk.free[i] = 1
    desc,               \* where each descriptor points and links to
    info,               \* disk.info: the buffer and the status byte
    avail, avail_idx,   \* disk.avail
    used, used_ring_idx,\* disk.used, written by the device
    used_idx,           \* disk.used_idx
    busy,               \* the processes p whose buffer has b->disk = 1
    lock,               \* who holds vdisk_lock
    pc, head,           \* of each process; head is its local idx[0]
    asleep,             \* the processes that sleep
    seen,               \* device: how far it has read the avail ring
    work,               \* device: heads of the chains it is working on
    raise, isr,         \* device: interrupt to be raised; raised
    moved               \* history: transfers the device did for this call

vars == <<free, desc, info, avail, avail_idx, used, used_ring_idx, used_idx,
          busy, lock, pc, head, asleep, seen, work, raise, isr, moved>>

device == <<seen, work, raise, isr, moved, used, used_ring_idx>>

(* A descriptor refers to a command header, to the data of a buffer or to  *)
(* a status byte.  next is None when VRING_DESC_F_NEXT is clear.           *)
Descriptors ==
    [kind : {"zero", "op", "data", "status"}, of : Desc \cup Procs \cup {None},
     next : Desc \cup {None}]

Zero == [kind |-> "zero", of |-> None, next |-> None]

TypeOK ==
    /\ free \subseteq Desc
    /\ desc \in [Desc -> Descriptors]
    /\ info \in [Desc -> [b : Procs \cup {NoProc}, status : {0, 255}]]
    /\ avail \in [Desc -> Desc \cup {None}] /\ avail_idx \in 0..Wrap - 1
    /\ used \in [Desc -> Desc \cup {None}] /\ used_ring_idx \in 0..Wrap - 1
    /\ used_idx \in 0..Wrap - 1
    /\ busy \subseteq Procs /\ lock \in Procs \cup {NoProc, Intr}
    /\ pc \in [Procs -> {"idle", "alloc", "publish", "wait"}]
    /\ head \in [Procs -> Desc \cup {None}]
    /\ asleep \subseteq Procs
    /\ seen \in 0..Wrap - 1 /\ work \subseteq Desc
    /\ raise \in {0, 1} /\ isr \in {0, 1}
    /\ moved \in [Procs -> Nat]

Init ==
    /\ free = Desc
    /\ desc = [d \in Desc |-> Zero]
    /\ info = [d \in Desc |-> [b |-> NoProc, status |-> 0]]
    /\ avail = [d \in Desc |-> None] /\ avail_idx = 0
    /\ used = [d \in Desc |-> None] /\ used_ring_idx = 0 /\ used_idx = 0
    /\ busy = {} /\ lock = NoProc
    /\ pc = [p \in Procs |-> "idle"] /\ head = [p \in Procs |-> None]
    /\ asleep = {}
    /\ seen = 0 /\ work = {} /\ raise = 0 /\ isr = 0
    /\ moved = [p \in Procs |-> 0]

-----------------------------------------------------------------------------
up(k) == (k + 1) % Wrap

nexts(S) == {desc[d].next : d \in S} \ {None}

(* The chain that starts at h: three descriptors for every transfer.       *)
chain(h) == {h} \cup nexts({h}) \cup nexts(nexts({h}))

(* Sleepers on &disk.free[0], and on a buffer.                             *)
free_sleepers == {p \in asleep : pc[p] = "alloc"}

(* vdisk_lock can be taken by p, new to the call or woken from sleep().    *)
runs(p, l) == pc[p] = l /\ p \notin asleep /\ lock = NoProc

virtio_disk_rw(p) ==
    /\ pc[p] = "idle"
    /\ pc' = [pc EXCEPT ![p] = "alloc"]
    /\ moved' = [moved EXCEPT ![p] = 0]
    /\ UNCHANGED <<free, desc, info, avail, avail_idx, used, used_ring_idx, used_idx,
                   busy, lock, head, asleep, seen, work, raise, isr>>

(* alloc3_desc() gives back what it got: each free_desc() is a wakeup.     *)
alloc3_desc_fails(p) ==
    /\ runs(p, "alloc")
    /\ Cardinality(free) < 3
    /\ asleep' = (IF free = {} THEN asleep ELSE asleep \ free_sleepers) \cup {p}
    /\ UNCHANGED <<free, desc, info, avail, avail_idx, used_idx, busy, lock, pc, head,
                   device>>

(* alloc_desc() takes the lowest free descriptor, three times.             *)
lowest3(a, b, c) ==
    /\ {a, b, c} \subseteq free /\ a < b /\ b < c
    /\ \A d \in free : d <= c => d \in {a, b, c}

submit(p) ==
    /\ runs(p, "alloc")
    /\ \E a, b, c \in Desc :
        /\ lowest3(a, b, c)
        /\ free' = free \ {a, b, c}
        /\ desc' = [desc EXCEPT ![a] = [kind |-> "op", of |-> a, next |-> b],
                                ![b] = [kind |-> "data", of |-> p, next |-> c],
                                ![c] = [kind |-> "status", of |-> a, next |-> None]]
        /\ info' = [info EXCEPT ![a] = [b |-> p, status |-> 255]]
        /\ avail' = [avail EXCEPT ![avail_idx % NUM] = a]
        /\ head' = [head EXCEPT ![p] = a]
    /\ busy' = busy \cup {p}
    /\ lock' = p
    /\ pc' = [pc EXCEPT ![p] = "publish"]
    /\ UNCHANGED <<avail_idx, used_idx, asleep, device>>

(* avail->idx += 1 and the notification; then the first sleep().           *)
publish(p) ==
    /\ pc[p] = "publish"
    /\ avail_idx' = up(avail_idx)
    /\ asleep' = asleep \cup {p}
    /\ lock' = NoProc
    /\ pc' = [pc EXCEPT ![p] = "wait"]
    /\ UNCHANGED <<free, desc, info, avail, used_idx, busy, head, device>>

sleep_again(p) ==
    /\ runs(p, "wait")
    /\ p \in busy
    /\ asleep' = asleep \cup {p}
    /\ UNCHANGED <<free, desc, info, avail, avail_idx, used_idx, busy, lock, pc, head,
                   device>>

(* free_chain(), and what the call does around it.                         *)
free_chain(p) ==
    /\ info' = [info EXCEPT ![head[p]].b = NoProc]
    /\ desc' = [d \in Desc |-> IF d \in chain(head[p]) THEN Zero ELSE desc[d]]
    /\ free' = free \cup chain(head[p])
    /\ head' = [head EXCEPT ![p] = None]
    /\ pc' = [pc EXCEPT ![p] = "idle"]
    /\ UNCHANGED <<avail, avail_idx, used_idx, busy, lock, device>>

(* Mutant: virtio_disk_rw() sleeps once, with if instead of while.         *)
finish_if(p) ==
    /\ runs(p, "wait")
    /\ free_chain(p)
    /\ asleep' = asleep \ free_sleepers

(* The request has finished: free_chain() and return.                      *)
finish(p) ==
    /\ runs(p, "wait")
    /\ p \notin busy
    /\ free_chain(p)
    /\ asleep' = asleep \ free_sleepers

(* kill() wakes a sleeper early; both loops test their condition again.    *)
kill(p) ==
    /\ p \in asleep
    /\ asleep' = asleep \ {p}
    /\ UNCHANGED <<free, desc, info, avail, avail_idx, used_idx, busy, lock, pc, head,
                   device>>

-----------------------------------------------------------------------------
(* virtio_disk_intr().                                                     *)

intr_ack ==
    /\ isr = 1 /\ lock = NoProc
    /\ lock' = Intr
    /\ isr' = 0
    /\ UNCHANGED <<free, desc, info, avail, avail_idx, used_idx, busy, pc, head, asleep,
                   seen, work, raise, moved, used, used_ring_idx>>

(* Mutant: one completion is taken for the completion of all.              *)
intr_one_all ==
    /\ lock = Intr
    /\ used_idx # used_ring_idx
    /\ busy' = {}
    /\ asleep' = free_sleepers
    /\ used_idx' = up(used_idx)
    /\ used' = [used EXCEPT ![used_idx % NUM] = None]
    /\ UNCHANGED <<free, desc, info, avail, avail_idx, lock, pc, head,
                   seen, work, raise, isr, moved, used_ring_idx>>

(* Mutant: the loop does not advance disk.used_idx.                        *)
intr_one_stuck ==
    LET b == info[used[used_idx % NUM]].b IN
    /\ lock = Intr
    /\ used_idx # used_ring_idx
    /\ busy' = busy \ {b}
    /\ asleep' = asleep \ {b}
    /\ UNCHANGED <<free, desc, info, avail, avail_idx, used_idx, lock, pc, head, device>>

intr_one ==
    LET b == info[used[used_idx % NUM]].b IN
    /\ lock = Intr
    /\ used_idx # used_ring_idx
    /\ busy' = busy \ {b}
    /\ asleep' = asleep \ {b}
    /\ used_idx' = up(used_idx)
    /\ used' = [used EXCEPT ![used_idx % NUM] = None]
    /\ UNCHANGED <<free, desc, info, avail, avail_idx, lock, pc, head,
                   seen, work, raise, isr, moved, used_ring_idx>>

(* Mutant: the handler takes at most one completion.                       *)
intr_end_early ==
    /\ lock = Intr
    /\ lock' = NoProc
    /\ UNCHANGED <<free, desc, info, avail, avail_idx, used_idx, busy, pc, head, asleep,
                   device>>

intr_end ==
    /\ lock = Intr
    /\ used_idx = used_ring_idx
    /\ lock' = NoProc
    /\ UNCHANGED <<free, desc, info, avail, avail_idx, used_idx, busy, pc, head, asleep,
                   device>>

-----------------------------------------------------------------------------
(* The device.                                                             *)

dev_fetch ==
    /\ seen # avail_idx
    /\ work' = work \cup {avail[seen % NUM]}
    /\ seen' = up(seen)
    /\ avail' = [avail EXCEPT ![seen % NUM] = None]
    /\ UNCHANGED <<free, desc, info, avail_idx, used_idx, busy, lock, pc, head,
                   asleep, raise, isr, moved, used, used_ring_idx>>

dev_complete(h) ==
    LET d == desc[h].next
        b == desc[d].of
        s == desc[desc[d].next].of
    IN  /\ h \in work
        /\ moved' = [moved EXCEPT ![b] = @ + 1]
        /\ info' = [info EXCEPT ![s].status = 0]
        /\ used' = [used EXCEPT ![used_ring_idx % NUM] = h]
        /\ used_ring_idx' = up(used_ring_idx)
        /\ work' = work \ {h}
        /\ raise' = 1
        /\ UNCHANGED <<free, desc, avail, avail_idx, used_idx, busy, lock, pc, head,
                       asleep, seen, isr>>

dev_raise ==
    /\ raise = 1
    /\ raise' = 0 /\ isr' = 1
    /\ UNCHANGED <<free, desc, info, avail, avail_idx, used_idx, busy, lock, pc, head,
                   asleep, seen, work, moved, used, used_ring_idx>>

-----------------------------------------------------------------------------
rw(p) == alloc3_desc_fails(p) \/ submit(p) \/ publish(p) \/ sleep_again(p) \/ finish(p)

virtio_disk_intr == intr_ack \/ intr_one \/ intr_end

Device == dev_fetch \/ dev_raise \/ \E h \in Desc : dev_complete(h)

Next ==
    \/ \E p \in Procs : virtio_disk_rw(p) \/ rw(p) \/ kill(p)
    \/ virtio_disk_intr
    \/ Device

Spec == Init /\ [][Next]_vars

(* Processes in the call and the handler get vdisk_lock in their turn; the *)
(* device answers every request.                                           *)
Fairness ==
    /\ \A p \in Procs : SF_vars(rw(p))
    /\ SF_vars(virtio_disk_intr)
    /\ WF_vars(dev_fetch) /\ WF_vars(dev_raise)
    /\ \A h \in Desc : WF_vars(dev_complete(h))

FairSpec == Spec /\ Fairness

-----------------------------------------------------------------------------
(* Properties.                                                             *)

(* Heads that the device can still read: queued in the avail ring or in    *)
(* work.  Heads that the handler has yet to read: in the used ring.        *)
Queued == {avail[(seen + k) % NUM] : k \in 0..((avail_idx - seen) % Wrap) - 1} \cup work
Finished == {used[(used_idx + k) % NUM] : k \in 0..((used_ring_idx - used_idx) % Wrap) - 1}

(* No panic: free_chain() frees descriptors that are in use, and the       *)
(* handler finds the status byte written and a buffer to wake.             *)
NoPanic ==
    /\ \A p \in Procs : pc[p] = "wait" /\ p \notin busy =>
          chain(head[p]) \cap free = {} /\ Cardinality(chain(head[p])) = 3
    /\ \A h \in Finished : h # None /\ info[h].status = 0 /\ info[h].b \in Procs

(* What the device reads is a whole request of a call that still waits:    *)
(* its chain is intact, no two share a descriptor, none is free, and the   *)
(* buffer is not given back before the device is done with it.             *)
DeviceSeesRequests ==
    \A h \in Queued :
        /\ h # None /\ chain(h) \cap free = {}
        /\ desc[h].kind = "op"
        /\ desc[h].next # None
        /\ LET d == desc[h].next IN
              /\ desc[d].kind = "data" /\ desc[d].next # None
              /\ desc[desc[d].next] = [kind |-> "status", of |-> h, next |-> None]
              /\ LET p == desc[d].of IN
                    p \in busy /\ pc[p] = "wait" /\ head[p] = h /\ info[h].b = p
        /\ \A g \in Queued \ {h} : chain(g) \cap chain(h) = {}

(* virtio_disk_rw() returns after the device did its transfer, once.       *)
TransferredOnce ==
    \A p \in Procs :
        /\ moved[p] <= 1
        /\ pc[p] = "wait" /\ p \notin busy => moved[p] = 1

(* Nobody sleeps on an event that has passed: on descriptors when three    *)
(* are free, or on a buffer whose completion neither the device, the used  *)
(* ring with an interrupt to come, nor the handler will announce.          *)
NoLostWakeup ==
    /\ lock = NoProc /\ free_sleepers # {} => Cardinality(free) < 3
    /\ \A p \in asleep : pc[p] = "wait" => p \in busy /\ head[p] \in Queued \cup Finished
    /\ Finished # {} => raise = 1 \/ isr = 1 \/ lock = Intr

(* Every call that has its descriptors returns, whatever the order in      *)
(* which the device answers, the interrupts that merge and the kills.  A   *)
(* call still in alloc3_desc() may lose the descriptors to others for      *)
(* ever; that it is not left asleep next to free ones is NoLostWakeup.     *)
CallsReturn == \A p \in Procs : pc[p] = "publish" ~> pc[p] = "idle"

(* The types, indices that wrap included, with what virtio_disk_rw() and   *)
(* free_chain() leave in the descriptors the device has, and the           *)
(* conditions of their panics.                                             *)
RingConsistent == TypeOK /\ DeviceSeesRequests /\ NoPanic

=============================================================================
