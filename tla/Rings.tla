------------------------------- MODULE Rings -------------------------------
(***************************************************************************)
(* Rings of n slots with unsigned counters that wrap at w, a multiple of   *)
(* n, and are taken modulo n to name a slot, as kernel/pipe.c, console.c,  *)
(* uart.c and virtio_disk.c use them; and queues of numbered characters of *)
(* several writers.                                                        *)
(***************************************************************************)
EXTENDS Integers, Sequences

(* A counter after ++; how far last is ahead of first, as an unsigned      *)
(* difference; the slot of a counter.                                      *)
Advance(a, w) == (a + 1) % w
Distance(last, first, w) == (last - first) % w
Slot(x, n) == x % n

(* The elements of the ring from first up to last.                         *)
Content(ring, n, w, first, last) ==
    [k \in 1..Distance(last, first, w) |-> ring[Slot(first + k - 1, n)]]

(* The entries of a queue are pairs of a writer and a number: the numbers  *)
(* of p in it, and that they are there in their order.                     *)
Numbers(s, p) == {s[k][2] : k \in {j \in DOMAIN s : s[j][1] = p}}
InOrder(s, p) == \A j, k \in DOMAIN s : j < k /\ s[j][1] = p /\ s[k][1] = p => s[j][2] < s[k][2]
=============================================================================
