-------------------------- MODULE VirtioDiskProofs --------------------------
(***************************************************************************)
(* Proofs about VirtioDisk, for any number of processes and descriptors:   *)
(* the device only ever sees whole requests, each is transferred once, no  *)
(* panic is met and no wakeup is lost.                                     *)
(***************************************************************************)
EXTENDS VirtioDisk, RingTheorems, TLAPS

-----------------------------------------------------------------------------
(* The heads in the two rings.                                             *)
AvailHeld == Held(avail, NUM, Wrap, seen, avail_idx)
UsedHeld == Held(used, NUM, Wrap, used_idx, used_ring_idx)

Second(p) == desc[head[p]].next
Third(p) == desc[Second(p)].next

(* The three descriptors of p's request, which tell p from all others.     *)
Request(p) ==
    /\ head[p] \in Desc \ free /\ Second(p) \in Desc \ free /\ Third(p) \in Desc \ free
    /\ desc[head[p]].kind = "op"
    /\ desc[Second(p)].kind = "data" /\ desc[Second(p)].of = p
    /\ desc[Third(p)].kind = "status" /\ desc[Third(p)].of = head[p]
    /\ desc[Third(p)].next = None
    /\ info[head[p]].b = p

Requests ==
    /\ \A p \in Procs : pc[p] = "publish" <=> lock = p
    /\ \A p \in Procs : pc[p] \in {"publish", "wait"} => Request(p)
    /\ \A p \in Procs : pc[p] \in {"idle", "alloc"} => p \notin busy
    /\ \A p \in Procs : pc[p] = "publish" => p \in busy /\ avail[Slot(avail_idx, NUM)] = head[p]

(* How far the device is with the request of p.                            *)
Waiting(p) ==
    \/ /\ p \in busy /\ moved[p] = 0
       /\ head[p] \in AvailHeld \cup work /\ head[p] \notin UsedHeld
    \/ /\ p \in busy /\ moved[p] = 1
       /\ head[p] \notin AvailHeld \cup work /\ head[p] \in UsedHeld
       /\ info[head[p]].status = 0
    \/ /\ p \notin busy /\ moved[p] = 1
       /\ head[p] \notin AvailHeld \cup work \cup UsedHeld

Progress ==
    /\ \A p \in Procs : moved[p] \in {0, 1}
    /\ \A p \in Procs : pc[p] \in {"alloc", "publish"} => moved[p] = 0
    /\ \A p \in Procs : pc[p] = "wait" => Waiting(p)
    /\ \A h \in AvailHeld \cup work \cup UsedHeld :
          \E p \in Procs : pc[p] = "wait" /\ head[p] = h
    /\ AvailHeld \cap work = {}
    /\ Distinct(avail, NUM, Wrap, seen, avail_idx)
    /\ Distinct(used, NUM, Wrap, used_idx, used_ring_idx)

Sleepers ==
    /\ \A p \in asleep : pc[p] = "alloc" \/ (pc[p] = "wait" /\ p \in busy)
    /\ free_sleepers # {} => Cardinality(free) < 3
    /\ UsedHeld # {} => raise = 1 \/ isr = 1 \/ lock = Intr

Inv == TypeOK /\ Requests /\ Progress /\ Sleepers
-----------------------------------------------------------------------------
(* The rings.                                                              *)

(* The range of the indices is at least one turn of the rings.             *)
LEMMA WrapIs == Wrap >= NUM /\ NUM \in Nat \ {0}
  <1>. USE VirtioAssumption
  <1>1. ASSUME Wrap < NUM PROVE FALSE
    <2>1. Wrap % NUM = Wrap
      BY <1>1, ModSmall
    <2>. QED BY <2>1
  <1>. QED BY <1>1

(* What is assumed of the sizes of the rings and of the names.             *)
LEMMA RingsFit ==
  /\ NUM \in Nat \ {0} /\ NUM >= 3 /\ Wrap \in Nat \ {0} /\ Wrap >= NUM
  /\ Divides(NUM, Wrap)
  /\ Intr \notin Procs /\ NoProc \notin Procs /\ NoProc # Intr /\ None \notin Desc
  BY VirtioAssumption, WrapIs DEF Divides

(* What counting says.  A ring of distinct heads is shorter than NUM by    *)
(* the descriptors that are not among them, and a set with three members   *)
(* has not fewer.  The lemmas about the rings and the steps take this as   *)
(* an assumption; Counting, below, proves it.                              *)
Counted ==
  /\ \A ring : \A a, b \in 0..Wrap - 1 :
        Distinct(ring, NUM, Wrap, b, a) /\ Held(ring, NUM, Wrap, b, a) \subseteq Desc =>
          /\ Distance(a, b, Wrap) \in Nat
          /\ Distance(a, b, Wrap) <= NUM
          /\ \A x \in Desc \ Held(ring, NUM, Wrap, b, a) : Distance(a, b, Wrap) <= NUM - 1
          /\ \A x, y \in Desc \ Held(ring, NUM, Wrap, b, a) :
                x # y => Distance(a, b, Wrap) <= NUM - 2
  /\ \A F \in SUBSET Desc : \A a, b, c \in F :
        a # b /\ a # c /\ b # c => ~(Cardinality(F) < 3)
  /\ \A a, b, c : a # b /\ a # c /\ b # c => Cardinality({a, b, c}) = 3

(* A slot that is named by an index is one of the ring's.                  *)
LEMMA IndexType == \A k \in 0..Wrap - 1 : Slot(k, NUM) \in Desc /\ up(k) \in 0..Wrap - 1
                                         /\ up(k) = Advance(k, Wrap)
  <1>. USE RingsFit
  <1>. TAKE k \in 0..Wrap - 1
  <1>1. k \in Int
    OBVIOUS
  <1>2. Slot(k, NUM) \in Desc
    BY <1>1, SlotType DEF Desc
  <1>3. Advance(k, Wrap) \in 0..Wrap - 1
    BY AdvanceIs
  <1>. QED BY <1>2, <1>3, Zenon DEF up, Advance

-----------------------------------------------------------------------------
(* Requests.                                                               *)

InCall == {"publish", "wait"}

(* Two calls share no descriptor.                                          *)
LEMMA Disjoint ==
  ASSUME NEW p \in Procs, NEW q \in Procs, p # q, Request(p), Request(q)
  PROVE  {head[p], Second(p), Third(p)} \cap {head[q], Second(q), Third(q)} = {}
  BY DEF Request

(* The descriptors of a call are three.                                    *)
LEMMA Three ==
  ASSUME NEW p \in Procs, Request(p)
  PROVE  head[p] # Second(p) /\ head[p] # Third(p) /\ Second(p) # Third(p)
  BY DEF Request

(* Heads in a ring or in the device are heads of waiting calls, and so     *)
(* descriptors in use.                                                     *)
LEMMA HeadsInUse ==
  ASSUME Inv, NEW h \in AvailHeld \cup work \cup UsedHeld
  PROVE  /\ h \in Desc \ free /\ desc[h].kind = "op"
         /\ \E p \in Procs : pc[p] = "wait" /\ head[p] = h /\ Request(p) /\ info[h].b = p
  BY DEF Inv, Progress, Requests, Request

(* A call whose descriptors are left alone keeps its request.              *)
LEMMA RequestKept ==
  ASSUME NEW p \in Procs, Request(p), head'[p] = head[p],
         \A d \in {head[p], Second(p), Third(p)} : d \notin free' /\ desc'[d] = desc[d],
         info'[head[p]].b = info[head[p]].b
  PROVE  Request(p)' /\ Second(p)' = Second(p) /\ Third(p)' = Third(p)
  <1>1. Second(p)' = Second(p)
    BY DEF Second, Request
  <1>2. Third(p)' = Third(p)
    BY <1>1 DEF Third, Request
  <1>. QED BY <1>1, <1>2 DEF Request

(* The same when nothing it consists of changes.                           *)
LEMMA RequestsKept ==
  ASSUME Inv, UNCHANGED <<free, desc, head>>, NEW p \in Procs, pc[p] \in InCall,
         \A d \in Desc : info'[d].b = info[d].b
  PROVE  Request(p)'
  <1>1. Request(p)
    BY DEF Inv, Requests, InCall
  <1>. QED BY <1>1, RequestKept DEF Request

(* The range of what the rings hold.                                       *)
LEMMA HeldTypes ==
  ASSUME Inv
  PROVE  AvailHeld \subseteq Desc /\ UsedHeld \subseteq Desc
  BY HeadsInUse

-----------------------------------------------------------------------------
(* What a step does to the rings.                                          *)

(* Heads neither added to nor taken from the avail ring.                   *)
LEMMA AvailKept ==
  ASSUME UNCHANGED <<avail, avail_idx, seen>>
  PROVE  /\ AvailHeld' = AvailHeld
         /\ Distinct(avail, NUM, Wrap, seen, avail_idx)' <=>
            Distinct(avail, NUM, Wrap, seen, avail_idx)
  BY DEF AvailHeld

(* The same of the used ring.                                              *)
LEMMA UsedKept ==
  ASSUME UNCHANGED <<used, used_ring_idx, used_idx>>
  PROVE  /\ UsedHeld' = UsedHeld
         /\ Distinct(used, NUM, Wrap, used_idx, used_ring_idx)' <=>
            Distinct(used, NUM, Wrap, used_idx, used_ring_idx)
  BY DEF UsedHeld

(* submit() writes the head behind the queued ones, where the device does  *)
(* not look yet.                                                           *)
LEMMA AvailWritten ==
  ASSUME Counted, Inv, NEW a \in free, avail' = [avail EXCEPT ![Slot(avail_idx, NUM)] = a],
         UNCHANGED <<avail_idx, seen>>
  PROVE  /\ AvailHeld' = AvailHeld
         /\ Distinct(avail, NUM, Wrap, seen, avail_idx)'
         /\ avail'[Slot(avail_idx, NUM)] = a
  <1>. USE RingsFit
  <1>1. avail \in [0..NUM - 1 -> Desc \cup {None}] /\ a \in Desc
        /\ avail_idx \in 0..Wrap - 1 /\ seen \in 0..Wrap - 1
    BY DEF Inv, TypeOK, Desc
  <1>2. Distinct(avail, NUM, Wrap, seen, avail_idx)
        /\ Held(avail, NUM, Wrap, seen, avail_idx) \subseteq Desc
    BY HeldTypes DEF Inv, Progress, AvailHeld
  <1>3. a \in Desc \ Held(avail, NUM, Wrap, seen, avail_idx)
    BY <1>1, HeadsInUse DEF AvailHeld
  <1>4. Distance(avail_idx, seen, Wrap) < NUM
    <2>1. Distance(avail_idx, seen, Wrap) \in Nat
          /\ Distance(avail_idx, seen, Wrap) <= NUM - 1
      BY <1>1, <1>2, <1>3 DEF Counted
    <2>. QED BY <2>1
  <1>5. HeldKeeps(avail, NUM, Wrap, seen, avail_idx, a)
    <2>1. a \in Desc \cup {None}
      BY <1>1
    <2>. QED BY <1>1, <1>4, <2>1, HeldFrame, Zenon
  <1>6. avail'[Slot(avail_idx, NUM)] = a
    BY <1>1, IndexType DEF Desc
  <1>. QED BY <1>2, <1>5, <1>6, Zenon DEF AvailHeld, HeldKeeps

(* publish() adds the head that submit() has written.                      *)
LEMMA AvailPublished ==
  ASSUME Counted, Inv, NEW p \in Procs, pc[p] = "publish",
         avail_idx' = up(avail_idx), UNCHANGED <<avail, seen>>
  PROVE  /\ AvailHeld' = AvailHeld \cup {head[p]}
         /\ Distinct(avail, NUM, Wrap, seen, avail_idx)'
         /\ head[p] \in Desc
         /\ head[p] \notin AvailHeld \cup work \cup UsedHeld
  <1>. USE RingsFit
  <1>1. PICK h \in Desc : h = head[p] /\ avail[Slot(avail_idx, NUM)] = h
    BY DEF Inv, Requests, Request
  <1>2. avail \in [0..NUM - 1 -> Desc \cup {None}]
        /\ avail_idx \in 0..Wrap - 1 /\ seen \in 0..Wrap - 1
    BY DEF Inv, TypeOK, Desc
  <1>3. Distinct(avail, NUM, Wrap, seen, avail_idx)
        /\ Held(avail, NUM, Wrap, seen, avail_idx) \subseteq Desc
    BY HeldTypes DEF Inv, Progress, AvailHeld
  <1>4. Request(p)
    BY DEF Inv, Requests
  <1>5. h \notin AvailHeld \cup work \cup UsedHeld
    BY <1>1, <1>4, HeadsInUse DEF Request
  <1>6. Second(p) \in Desc /\ Second(p) \notin AvailHeld /\ Second(p) # h
    BY <1>1, <1>4, HeadsInUse, Three DEF Request
  <1>7. Distance(avail_idx, seen, Wrap) < NUM /\ Distance(avail_idx, seen, Wrap) + 1 < Wrap
    <2>1. Distance(avail_idx, seen, Wrap) \in Nat
          /\ Distance(avail_idx, seen, Wrap) <= NUM - 2
      BY <1>2, <1>3, <1>5, <1>6 DEF Counted, AvailHeld
    <2>. QED BY <2>1
  <1>8. HeldAdds(avail, NUM, Wrap, seen, avail_idx, h)
    <2>1. h \in Desc \cup {None} /\ h \notin Held(avail, NUM, Wrap, seen, avail_idx)
      BY <1>5 DEF AvailHeld
    <2>. QED BY <1>2, <1>3, <1>7, <2>1, HeldPut, Zenon
  <1>9. [avail EXCEPT ![Slot(avail_idx, NUM)] = h] = avail
    BY <1>1, <1>2
  <1>10. avail_idx' = Advance(avail_idx, Wrap)
    BY <1>2, IndexType
  <1>. QED BY <1>1, <1>5, <1>8, <1>9, <1>10, Zenon DEF AvailHeld, HeldAdds

(* The device takes the first head of the avail ring.                      *)
LEMMA AvailTaken ==
  ASSUME Counted, Inv, seen # avail_idx, seen' = up(seen),
         avail' = [avail EXCEPT ![Slot(seen, NUM)] = None], UNCHANGED avail_idx
  PROVE  /\ avail[Slot(seen, NUM)] \in AvailHeld
         /\ AvailHeld' = AvailHeld \ {avail[Slot(seen, NUM)]}
         /\ Distinct(avail, NUM, Wrap, seen, avail_idx)'
  <1>. USE RingsFit
  <1>1. avail \in [0..NUM - 1 -> Desc \cup {None}]
        /\ avail_idx \in 0..Wrap - 1 /\ seen \in 0..Wrap - 1
    BY DEF Inv, TypeOK, Desc
  <1>2. Distinct(avail, NUM, Wrap, seen, avail_idx)
        /\ Held(avail, NUM, Wrap, seen, avail_idx) \subseteq Desc
    BY HeldTypes DEF Inv, Progress, AvailHeld
  <1>3. Distance(avail_idx, seen, Wrap) <= NUM
    BY <1>1, <1>2 DEF Counted
  <1>4. HeldLoses(avail, NUM, Wrap, seen, avail_idx, None)
    <2>1. None \in Desc \cup {None}
      OBVIOUS
    <2>. QED BY <1>1, <1>2, <1>3, <2>1, HeldTake, Zenon
  <1>5. seen' = Advance(seen, Wrap)
    BY <1>1, IndexType
  <1>. QED BY <1>4, <1>5, Zenon DEF AvailHeld, HeldLoses

(* The handler takes the first head of the used ring.                      *)
LEMMA UsedTaken ==
  ASSUME Counted, Inv, used_idx # used_ring_idx, used_idx' = up(used_idx),
         used' = [used EXCEPT ![Slot(used_idx, NUM)] = None], UNCHANGED used_ring_idx
  PROVE  /\ used[Slot(used_idx, NUM)] \in UsedHeld
         /\ UsedHeld' = UsedHeld \ {used[Slot(used_idx, NUM)]}
         /\ Distinct(used, NUM, Wrap, used_idx, used_ring_idx)'
  <1>. USE RingsFit
  <1>1. used \in [0..NUM - 1 -> Desc \cup {None}]
        /\ used_ring_idx \in 0..Wrap - 1 /\ used_idx \in 0..Wrap - 1
    BY DEF Inv, TypeOK, Desc
  <1>2. Distinct(used, NUM, Wrap, used_idx, used_ring_idx)
        /\ Held(used, NUM, Wrap, used_idx, used_ring_idx) \subseteq Desc
    BY HeldTypes DEF Inv, Progress, UsedHeld
  <1>3. Distance(used_ring_idx, used_idx, Wrap) <= NUM
    BY <1>1, <1>2 DEF Counted
  <1>4. HeldLoses(used, NUM, Wrap, used_idx, used_ring_idx, None)
    <2>1. None \in Desc \cup {None}
      OBVIOUS
    <2>. QED BY <1>1, <1>2, <1>3, <2>1, HeldTake, Zenon
  <1>5. used_idx' = Advance(used_idx, Wrap)
    BY <1>1, IndexType
  <1>. QED BY <1>4, <1>5, Zenon DEF UsedHeld, HeldLoses

(* The device adds a head it has finished to the used ring, in which it is *)
(* new and for which there is room.                                        *)
LEMMA UsedAdded ==
  ASSUME Counted, Inv, NEW p \in Procs, pc[p] = "wait", head[p] \in work,
         used' = [used EXCEPT ![Slot(used_ring_idx, NUM)] = head[p]],
         used_ring_idx' = up(used_ring_idx), UNCHANGED used_idx
  PROVE  /\ UsedHeld' = UsedHeld \cup {head[p]}
         /\ Distinct(used, NUM, Wrap, used_idx, used_ring_idx)'
  <1>. USE RingsFit
  <1>1. Request(p) /\ Waiting(p)
    BY DEF Inv, Requests, Progress
  <1>2. PICK h \in Desc : h = head[p]
    BY <1>1 DEF Request
  <1>3. used \in [0..NUM - 1 -> Desc \cup {None}]
        /\ used_ring_idx \in 0..Wrap - 1 /\ used_idx \in 0..Wrap - 1
    BY DEF Inv, TypeOK, Desc
  <1>4. Distinct(used, NUM, Wrap, used_idx, used_ring_idx)
        /\ Held(used, NUM, Wrap, used_idx, used_ring_idx) \subseteq Desc
    BY HeldTypes DEF Inv, Progress, UsedHeld
  <1>5. h \notin UsedHeld
    BY <1>1, <1>2 DEF Waiting
  <1>6. Second(p) \in Desc /\ Second(p) \notin UsedHeld /\ Second(p) # h
    BY <1>1, <1>2, HeadsInUse, Three DEF Request
  <1>7. /\ Distance(used_ring_idx, used_idx, Wrap) < NUM
        /\ Distance(used_ring_idx, used_idx, Wrap) + 1 < Wrap
    <2>1. Distance(used_ring_idx, used_idx, Wrap) \in Nat
          /\ Distance(used_ring_idx, used_idx, Wrap) <= NUM - 2
      BY <1>3, <1>4, <1>5, <1>6 DEF Counted, UsedHeld
    <2>. QED BY <2>1
  <1>8. HeldAdds(used, NUM, Wrap, used_idx, used_ring_idx, h)
    <2>1. h \in Desc \cup {None} /\ h \notin Held(used, NUM, Wrap, used_idx, used_ring_idx)
      BY <1>5 DEF UsedHeld
    <2>. QED BY <1>3, <1>4, <1>7, <2>1, HeldPut, Zenon
  <1>9. used_ring_idx' = Advance(used_ring_idx, Wrap)
    BY <1>3, IndexType
  <1>. QED BY <1>2, <1>8, <1>9, Zenon DEF UsedHeld, HeldAdds

-----------------------------------------------------------------------------
(* One lemma per action.                                                   *)

(* A step that leaves the rings, the requests and the transfers alone: who *)
(* sleeps and who holds the lock may change.                               *)
LEMMA QuietStep ==
  ASSUME Inv,
         UNCHANGED <<free, desc, info, avail, avail_idx, used, used_ring_idx, used_idx,
                     busy, pc, head, seen, work, moved>>,
         \A p \in Procs : lock' = p <=> lock = p
  PROVE  Requests' /\ Progress' /\ UsedHeld' = UsedHeld
  <1>1. AvailHeld' = AvailHeld /\ UsedHeld' = UsedHeld
        /\ Distinct(avail, NUM, Wrap, seen, avail_idx)'
        /\ Distinct(used, NUM, Wrap, used_idx, used_ring_idx)'
    BY AvailKept, UsedKept, Zenon DEF Inv, Progress
  <1>2. \A q \in Procs : Request(q) => Request(q)'
    BY Zenon DEF Request, Second, Third
  <1>3. Requests'
    BY <1>2, Zenon DEF Inv, Requests
  <1>4. \A q \in Procs : Waiting(q) => Waiting(q)'
    BY <1>1, Zenon DEF Waiting
  <1>5. Progress'
    BY <1>1, <1>4, Zenon DEF Inv, Progress
  <1>. QED BY <1>1, <1>3, <1>5, Zenon

(* A call starts.                                                          *)
LEMMA CallStep ==
  ASSUME Inv, NEW p \in Procs, virtio_disk_rw(p)
  PROVE  Inv'
  <1>1. TypeOK'
    BY Zenon DEF virtio_disk_rw, Inv, TypeOK
  <1>2. AvailHeld' = AvailHeld /\ UsedHeld' = UsedHeld
        /\ Distinct(avail, NUM, Wrap, seen, avail_idx)'
        /\ Distinct(used, NUM, Wrap, used_idx, used_ring_idx)'
    BY AvailKept, UsedKept, Zenon DEF virtio_disk_rw, Inv, Progress
  <1>3. \A q \in Procs : Request(q) => Request(q)'
    BY Zenon DEF virtio_disk_rw, Request, Second, Third
  <1>4. \A q \in Procs : q # p => pc'[q] = pc[q] /\ moved'[q] = moved[q]
    BY Zenon DEF virtio_disk_rw, Inv, TypeOK
  <1>5. pc[p] = "idle" /\ pc'[p] = "alloc" /\ moved'[p] = 0
    BY Zenon DEF virtio_disk_rw, Inv, TypeOK
  <1>6. Requests'
    <2>1. UNCHANGED <<lock, busy, avail, avail_idx, head>>
      BY Zenon DEF virtio_disk_rw
    <2>2. lock # p /\ p \notin busy
      BY <1>5, Zenon DEF Inv, Requests
    <2>3. ASSUME NEW q \in Procs
          PROVE  /\ pc'[q] = "publish" <=> lock' = q
                 /\ pc'[q] \in {"publish", "wait"} => Request(q)'
                 /\ pc'[q] \in {"idle", "alloc"} => q \notin busy'
                 /\ pc'[q] = "publish" => q \in busy' /\ avail'[Slot(avail_idx', NUM)] = head'[q]
      <3>1. CASE q = p
        BY <1>5, <2>1, <2>2, <3>1, Zenon
      <3>2. CASE q # p
        BY <1>3, <1>4, <2>1, <3>2, Zenon DEF Inv, Requests
      <3>. QED BY <3>1, <3>2, Zenon
    <2>. QED BY <2>3, Zenon DEF Requests
  <1>7. \A q \in Procs : q # p /\ Waiting(q) => Waiting(q)'
    BY <1>2, <1>4, Zenon DEF virtio_disk_rw, Waiting
  <1>8. Progress'
    BY <1>2, <1>4, <1>5, <1>7 DEF virtio_disk_rw, Inv, Progress
  <1>9. Sleepers'
    BY <1>2, <1>4, <1>5, Zenon DEF virtio_disk_rw, Inv, TypeOK, Sleepers, free_sleepers
  <1>. QED BY <1>1, <1>6, <1>8, <1>9, Zenon DEF Inv

(* A call finds too few descriptors and sleeps.                            *)
LEMMA AllocFailsStep ==
  ASSUME Inv, NEW p \in Procs, alloc3_desc_fails(p)
  PROVE  Inv'
  <1>1. TypeOK'
    BY Zenon DEF alloc3_desc_fails, device, Inv, TypeOK, free_sleepers
  <1>2. Requests' /\ Progress' /\ UsedHeld' = UsedHeld
    BY QuietStep, Zenon DEF alloc3_desc_fails, device
  <1>3. Sleepers'
    BY <1>2, Zenon DEF alloc3_desc_fails, device, runs, Inv, Sleepers, free_sleepers
  <1>. QED BY <1>1, <1>2, <1>3, Zenon DEF Inv

(* A call finds its buffer still with the device.                          *)
LEMMA SleepAgainStep ==
  ASSUME Inv, NEW p \in Procs, sleep_again(p)
  PROVE  Inv'
  <1>1. TypeOK'
    BY Zenon DEF sleep_again, device, Inv, TypeOK
  <1>2. Requests' /\ Progress' /\ UsedHeld' = UsedHeld
    BY QuietStep, Zenon DEF sleep_again, device
  <1>3. Sleepers'
    BY <1>2, Zenon DEF sleep_again, device, runs, Inv, Sleepers, free_sleepers
  <1>. QED BY <1>1, <1>2, <1>3, Zenon DEF Inv

(* A sleeper is woken early.                                               *)
LEMMA KillStep ==
  ASSUME Inv, NEW p \in Procs, kill(p)
  PROVE  Inv'
  <1>1. TypeOK'
    BY Zenon DEF kill, device, Inv, TypeOK
  <1>2. Requests' /\ Progress' /\ UsedHeld' = UsedHeld
    BY QuietStep, Zenon DEF kill, device
  <1>3. Sleepers'
    BY <1>2, Zenon DEF kill, device, Inv, Sleepers, free_sleepers
  <1>. QED BY <1>1, <1>2, <1>3, Zenon DEF Inv

(* The handler starts, and ends with the used ring empty.                  *)
LEMMA IntrStep ==
  ASSUME Inv, intr_ack \/ intr_end
  PROVE  Inv'
  <1>. USE RingsFit
  <1>1. TypeOK'
    BY DEF intr_ack, intr_end, device, Inv, TypeOK
  <1>2. Requests' /\ Progress' /\ UsedHeld' = UsedHeld
    BY QuietStep, Zenon DEF intr_ack, intr_end, device
  <1>3. intr_end => UsedHeld = {}
    <2>. SUFFICES ASSUME intr_end PROVE UsedHeld = {}
      OBVIOUS
    <2>1. PICK k \in 0..Wrap - 1 : k = used_idx /\ k = used_ring_idx
      BY Zenon DEF intr_end, Inv, TypeOK
    <2>2. Distance(k, k, Wrap) = 0
      BY DistanceIs
    <2>. QED BY <2>1, <2>2 DEF UsedHeld, Held, Elements
  <1>4. Sleepers'
    BY <1>2, <1>3, Zenon DEF intr_ack, intr_end, device, Inv, Sleepers, free_sleepers
  <1>. QED BY <1>1, <1>2, <1>4, Zenon DEF Inv

(* The interrupt arrives.                                                  *)
LEMMA RaiseStep ==
  ASSUME Inv, dev_raise
  PROVE  Inv'
  <1>1. TypeOK'
    BY Zenon DEF dev_raise, Inv, TypeOK
  <1>2. Requests' /\ Progress' /\ UsedHeld' = UsedHeld
    BY QuietStep, Zenon DEF dev_raise
  <1>3. Sleepers'
    BY <1>2, Zenon DEF dev_raise, Inv, Sleepers, free_sleepers
  <1>. QED BY <1>1, <1>2, <1>3, Zenon DEF Inv

(* Three descriptors are taken and filled in.                              *)
LEMMA SubmitStep ==
  ASSUME Counted, Inv, NEW p \in Procs, submit(p)
  PROVE  Inv'
  <1>1. PICK a \in Desc, b \in Desc, c \in Desc :
          /\ lowest3(a, b, c)
          /\ free' = free \ {a, b, c}
          /\ desc' = [desc EXCEPT ![a] = [kind |-> "op", of |-> a, next |-> b],
                                  ![b] = [kind |-> "data", of |-> p, next |-> c],
                                  ![c] = [kind |-> "status", of |-> a, next |-> None]]
          /\ info' = [info EXCEPT ![a] = [b |-> p, status |-> 255]]
          /\ avail' = [avail EXCEPT ![Slot(avail_idx, NUM)] = a]
          /\ head' = [head EXCEPT ![p] = a]
    BY Zenon DEF submit, Slot
  <1>2. a # b /\ a # c /\ b # c /\ {a, b, c} \subseteq free
    BY <1>1 DEF lowest3, Desc
  <1>3. UNCHANGED <<avail_idx, used_idx, asleep, seen, work, raise, isr, moved, used,
                    used_ring_idx>>
        /\ busy' = busy \cup {p} /\ lock' = p /\ pc' = [pc EXCEPT ![p] = "publish"]
        /\ pc[p] = "alloc" /\ p \notin asleep /\ lock = NoProc
    BY Zenon DEF submit, device, runs
  <1>4. desc'[a] = [kind |-> "op", of |-> a, next |-> b]
        /\ desc'[b] = [kind |-> "data", of |-> p, next |-> c]
        /\ desc'[c] = [kind |-> "status", of |-> a, next |-> None]
        /\ \A d \in Desc \ {a, b, c} : desc'[d] = desc[d]
    <2>1. PICK x, y, z : /\ x = [kind |-> "op", of |-> a, next |-> b]
                         /\ y = [kind |-> "data", of |-> p, next |-> c]
                         /\ z = [kind |-> "status", of |-> a, next |-> None]
      BY Zenon
    <2>2. desc' = [desc EXCEPT ![a] = x, ![b] = y, ![c] = z]
      BY <1>1, <2>1, Zenon
    <2>3. DOMAIN desc = Desc
      BY Zenon DEF Inv, TypeOK
    <2>4. /\ desc'[a] = x /\ desc'[b] = y /\ desc'[c] = z
          /\ \A d \in Desc \ {a, b, c} : desc'[d] = desc[d]
      BY <1>2, <2>2, <2>3
    <2>. QED BY <2>1, <2>4, Zenon
  <1>5. TypeOK'
    <2>1. desc' \in [Desc -> Descriptors]
      BY <1>1, Zenon DEF Inv, TypeOK, Descriptors
    <2>2. info' \in [Desc -> [b : Procs \cup {NoProc}, status : {0, 255}]]
      BY <1>1, Zenon DEF Inv, TypeOK
    <2>3. avail' \in [Desc -> Desc \cup {None}] /\ head' \in [Procs -> Desc \cup {None}]
      BY <1>1, Zenon DEF Inv, TypeOK
    <2>4. free \subseteq Desc /\ busy \subseteq Procs
          /\ pc \in [Procs -> {"idle", "alloc", "publish", "wait"}]
      BY Zenon DEF Inv, TypeOK
    <2>5. free' \subseteq Desc
      BY <1>1, <2>4, Zenon
    <2>6. busy' \subseteq Procs /\ lock' \in Procs
          /\ pc' \in [Procs -> {"idle", "alloc", "publish", "wait"}]
      BY <1>3, <2>4, Zenon
    <2>. QED BY <1>3, <2>1, <2>2, <2>3, <2>5, <2>6, Zenon DEF Inv, TypeOK
  <1>6. AvailHeld' = AvailHeld
        /\ Distinct(avail, NUM, Wrap, seen, avail_idx)'
        /\ avail'[Slot(avail_idx, NUM)] = a
    BY <1>1, <1>2, <1>3, AvailWritten, Zenon
  <1>7. UsedHeld' = UsedHeld
        /\ Distinct(used, NUM, Wrap, used_idx, used_ring_idx)'
    BY <1>3, UsedKept, Zenon DEF Inv, Progress
  <1>8. head'[p] = a /\ pc'[p] = "publish"
        /\ \A q \in Procs : q # p => head'[q] = head[q] /\ pc'[q] = pc[q]
    BY <1>1, <1>3 DEF Inv, TypeOK
  <1>9. ASSUME NEW q \in Procs, q # p, pc[q] \in InCall
        PROVE  Request(q)' /\ info'[head[q]] = info[head[q]]
    <2>1. Request(q)
      BY <1>9, Zenon DEF Inv, Requests, InCall
    <2>2. \A d \in {head[q], Second(q), Third(q)} : d \notin free' /\ desc'[d] = desc[d]
      <3>1. \A d \in {head[q], Second(q), Third(q)} : d \in Desc \ free
        BY <2>1, Zenon DEF Request
      <3>2. \A d \in Desc \ free : d \in Desc \ {a, b, c} /\ d \notin free'
        BY <1>1, <1>2, Zenon
      <3>. QED BY <1>4, <3>1, <3>2, Zenon
    <2>3. info'[head[q]] = info[head[q]]
      BY <1>1, <1>2, <2>1 DEF Inv, TypeOK, Request
    <2>. QED BY <1>8, <1>9, <2>1, <2>2, <2>3, RequestKept, Zenon
  <1>10. Request(p)'
    <2>1. Second(p)' = b /\ Third(p)' = c
      <3>1. desc'[a].next = b /\ desc'[b].next = c
        BY <1>4
      <3>. QED BY <1>8, <3>1, Zenon DEF Second, Third
    <2>2. info'[a].b = p
      <3>1. info \in [Desc -> [b : Procs \cup {NoProc}, status : {0, 255}]]
        BY Zenon DEF Inv, TypeOK
      <3>2. info' = [info EXCEPT ![a] = [b |-> p, status |-> 255]]
        BY <1>1, Zenon
      <3>. QED BY <3>1, <3>2
    <2>3. a \in Desc \ free' /\ b \in Desc \ free' /\ c \in Desc \ free'
      BY <1>1, Zenon
    <2>4. desc'[a].kind = "op" /\ desc'[b].kind = "data" /\ desc'[b].of = p
          /\ desc'[c].kind = "status" /\ desc'[c].of = a /\ desc'[c].next = None
      BY <1>4
    <2>. QED BY <1>8, <2>1, <2>2, <2>3, <2>4, Zenon DEF Request
  <1>11. Requests'
    <2>1. \A q \in Procs : pc'[q] = "publish" <=> lock' = q
      BY RingsFit, <1>3, <1>8 DEF Inv, Requests
    <2>2. \A q \in Procs : pc'[q] \in {"publish", "wait"} => Request(q)'
      BY <1>8, <1>9, <1>10, Zenon DEF InCall
    <2>3. \A q \in Procs : pc'[q] \in {"idle", "alloc"} => q \notin busy'
      BY <1>3, <1>8, Zenon DEF Inv, Requests
    <2>4. \A q \in Procs : pc'[q] = "publish" =>
                             q \in busy' /\ avail'[Slot(avail_idx', NUM)] = head'[q]
      BY <1>3, <1>6, <1>8, <2>1, Zenon DEF Inv, Requests
    <2>. QED BY <2>1, <2>2, <2>3, <2>4, Zenon DEF Requests
  <1>12. ASSUME NEW q \in Procs, q # p, pc[q] = "wait" PROVE Waiting(q)'
    <2>1. Waiting(q)
      BY <1>12, Zenon DEF Inv, Progress
    <2>2. head'[q] = head[q] /\ info'[head[q]] = info[head[q]]
      BY <1>8, <1>9, <1>12, Zenon DEF InCall
    <2>3. (q \in busy') <=> (q \in busy)
      BY <1>3, <1>12, Zenon
    <2>. QED BY <1>3, <1>6, <1>7, <2>1, <2>2, <2>3, Zenon DEF Waiting
  <1>13. Progress'
    <2>1. Progress
      BY Zenon DEF Inv
    <2>2. moved' = moved /\ work' = work
      BY <1>3, Zenon
    <2>3. \A q \in Procs : moved'[q] \in {0, 1}
      BY <2>1, <2>2, Zenon DEF Progress
    <2>4. \A q \in Procs : pc'[q] \in {"alloc", "publish"} => moved'[q] = 0
      <3>1. pc[p] = "alloc"
        BY <1>3, Zenon
      <3>2. \A q \in Procs : pc[q] \in {"alloc", "publish"} => moved[q] = 0
        BY <2>1, Zenon DEF Progress
      <3>. QED BY <1>8, <2>2, <3>1, <3>2, Zenon
    <2>5. \A q \in Procs : pc'[q] = "wait" => Waiting(q)'
      BY <1>8, <1>12, Zenon
    <2>6. \A h \in AvailHeld \cup work \cup UsedHeld :
             \E q \in Procs : pc'[q] = "wait" /\ head'[q] = h
      <3>1. pc[p] # "wait"
        BY <1>3, Zenon
      <3>. QED BY <1>8, <2>1, <3>1, ZenonT(40) DEF Progress
    <2>. QED BY <1>6, <1>7, <2>1, <2>2, <2>3, <2>4, <2>5, <2>6, Zenon DEF Progress
  <1>14. free_sleepers = {}
    <2>1. ~(Cardinality(free) < 3)
      BY <1>2, Zenon DEF Counted, Inv, TypeOK
    <2>. QED BY <2>1, Zenon DEF Inv, Sleepers
  <1>15. Sleepers'
    <2>1. free_sleepers' = {}
      BY <1>3, <1>8, <1>14, Zenon DEF free_sleepers, Inv, TypeOK
    <2>2. \A q \in asleep' : pc'[q] = "alloc" \/ (pc'[q] = "wait" /\ q \in busy')
      <3>1. p \notin asleep' /\ asleep \subseteq Procs
        BY <1>3, Zenon DEF Inv, TypeOK
      <3>2. \A q \in asleep' : q \in asleep /\ pc'[q] = pc[q] /\ (q \in busy => q \in busy')
        BY <1>3, <1>8, <3>1, Zenon
      <3>. QED BY <3>2, Zenon DEF Inv, Sleepers
    <2>. QED BY RingsFit, <1>3, <1>7, <2>1, <2>2 DEF Inv, Sleepers
  <1>. QED BY <1>5, <1>11, <1>13, <1>15, Zenon DEF Inv

(* The request is shown to the device, and the call sleeps.                *)
LEMMA PublishStep ==
  ASSUME Counted, Inv, NEW p \in Procs, publish(p)
  PROVE  Inv'
  <1>1. UNCHANGED <<free, desc, info, avail, used_idx, busy, head, seen, work, raise, isr,
                    moved, used, used_ring_idx>>
        /\ pc[p] = "publish" /\ avail_idx' = up(avail_idx) /\ asleep' = asleep \cup {p}
        /\ lock' = NoProc /\ pc' = [pc EXCEPT ![p] = "wait"]
    BY Zenon DEF publish, device
  <1>2. TypeOK'
    BY <1>1, IndexType, Zenon DEF Inv, TypeOK
  <1>3. AvailHeld' = AvailHeld \cup {head[p]}
        /\ Distinct(avail, NUM, Wrap, seen, avail_idx)'
        /\ head[p] \in Desc
        /\ head[p] \notin AvailHeld \cup work \cup UsedHeld
    BY <1>1, AvailPublished, Zenon
  <1>4. UsedHeld' = UsedHeld
        /\ Distinct(used, NUM, Wrap, used_idx, used_ring_idx)'
    BY <1>1, UsedKept, Zenon DEF Inv, Progress
  <1>5. pc'[p] = "wait" /\ \A q \in Procs : q # p => pc'[q] = pc[q]
    BY <1>1, Zenon DEF Inv, TypeOK
  <1>6. lock = p /\ p \in busy /\ moved[p] = 0 /\ Request(p)
    BY <1>1, Zenon DEF Inv, Requests, Progress
  <1>7. \A q \in Procs : Request(q) => Request(q)'
    BY <1>1, Zenon DEF Request, Second, Third
  <1>8. Requests'
    BY RingsFit, <1>1, <1>5, <1>6, <1>7, Zenon DEF Inv, Requests
  <1>9. ASSUME NEW q \in Procs, q # p, pc[q] = "wait" PROVE Waiting(q)'
    <2>1. Request(q) /\ Waiting(q)
      BY <1>9, Zenon DEF Inv, Requests, Progress
    <2>2. head[q] # head[p]
      BY <1>6, <1>9, <2>1, Zenon DEF Request
    <2>. QED BY <1>1, <1>3, <1>4, <2>1, <2>2, Zenon DEF Waiting
  <1>10. Waiting(p)'
    BY <1>1, <1>3, <1>4, <1>6, Zenon DEF Waiting
  <1>11. Progress'
    <2>1. Progress
      BY Zenon DEF Inv
    <2>2. moved' = moved /\ work' = work /\ head' = head
      BY <1>1, Zenon
    <2>3. \A q \in Procs : moved'[q] \in {0, 1}
      BY <2>1, <2>2, Zenon DEF Progress
    <2>4. \A q \in Procs : pc'[q] \in {"alloc", "publish"} => moved'[q] = 0
      BY <1>6, <1>5, <2>1, <2>2, Zenon DEF Progress
    <2>5. \A q \in Procs : pc'[q] = "wait" => Waiting(q)'
      BY <1>5, <1>9, <1>10, Zenon
    <2>6. \A h \in AvailHeld \cup work \cup UsedHeld :
             \E q \in Procs : pc'[q] = "wait" /\ head'[q] = h
      <3>1. pc[p] # "wait"
        BY <1>1, Zenon
      <3>. QED BY <1>5, <2>1, <2>2, <3>1, Zenon DEF Progress
    <2>7. \A h \in AvailHeld' \cup work' \cup UsedHeld' :
             \E q \in Procs : pc'[q] = "wait" /\ head'[q] = h
      BY <1>3, <1>4, <1>5, <2>2, <2>6, Zenon
    <2>8. AvailHeld' \cap work' = {}
      <3>1. AvailHeld \cap work = {}
        BY <2>1, Zenon DEF Progress
      <3>. QED BY <1>3, <2>2, <3>1, Zenon
    <2>. QED BY <1>3, <1>4, <2>3, <2>4, <2>5, <2>7, <2>8, Zenon DEF Progress
  <1>12. Sleepers'
    BY RingsFit, <1>1, <1>4, <1>5, <1>6 DEF Inv, TypeOK, Sleepers, free_sleepers
  <1>. QED BY <1>2, <1>8, <1>11, <1>12, Zenon DEF Inv

(* chain() follows the three descriptors of a request.                     *)
LEMMA ChainIs ==
  ASSUME NEW p \in Procs, Request(p)
  PROVE  chain(head[p]) = {head[p], Second(p), Third(p)}
  <1>. USE RingsFit
  <1>1. nexts({head[p]}) = {Second(p)}
    BY Zenon DEF nexts, Request, Second
  <1>2. nexts({Second(p)}) = {Third(p)}
    BY Zenon DEF nexts, Request, Third
  <1>. QED BY <1>1, <1>2, Zenon DEF chain

(* The call frees its descriptors and returns.                             *)
LEMMA FinishStep ==
  ASSUME Inv, NEW p \in Procs, finish(p)
  PROVE  Inv'
  <1>1. UNCHANGED <<avail, avail_idx, used_idx, busy, lock, seen, work, raise, isr, moved,
                    used, used_ring_idx>>
        /\ pc[p] = "wait" /\ p \notin busy /\ lock = NoProc
        /\ asleep' = asleep \ free_sleepers
        /\ head' = [head EXCEPT ![p] = None] /\ pc' = [pc EXCEPT ![p] = "idle"]
    BY Zenon DEF finish, free_chain, runs, device
  <1>2. Request(p) /\ Waiting(p)
    BY <1>1, Zenon DEF Inv, Requests, Progress
  <1>3. PICK C \in SUBSET Desc : /\ C = {head[p], Second(p), Third(p)}
                                 /\ free' = free \cup C
                                 /\ desc' = [d \in Desc |-> IF d \in C THEN Zero ELSE desc[d]]
                                 /\ info' = [info EXCEPT ![head[p]].b = NoProc]
    <2>1. chain(head[p]) = {head[p], Second(p), Third(p)} /\ chain(head[p]) \in SUBSET Desc
      BY <1>2, ChainIs, Zenon DEF Request
    <2>. QED BY <2>1, Zenon DEF finish, free_chain
  <1>4. TypeOK'
    <2>1. Zero \in Descriptors
      BY Zenon DEF Zero, Descriptors
    <2>2. desc' \in [Desc -> Descriptors]
      BY <1>3, <2>1, Zenon DEF Inv, TypeOK
    <2>3. info' \in [Desc -> [b : Procs \cup {NoProc}, status : {0, 255}]]
      BY <1>2, <1>3 DEF Inv, TypeOK, Request
    <2>4. head' \in [Procs -> Desc \cup {None}]
      BY <1>1, Zenon DEF Inv, TypeOK
    <2>. QED BY <1>1, <1>3, <2>2, <2>3, <2>4, Zenon DEF Inv, TypeOK
  <1>5. AvailHeld' = AvailHeld /\ UsedHeld' = UsedHeld
        /\ Distinct(avail, NUM, Wrap, seen, avail_idx)'
        /\ Distinct(used, NUM, Wrap, used_idx, used_ring_idx)'
    BY <1>1, AvailKept, UsedKept, Zenon DEF Inv, Progress
  <1>6. pc'[p] = "idle"
        /\ \A q \in Procs : q # p => pc'[q] = pc[q] /\ head'[q] = head[q]
    BY <1>1, Zenon DEF Inv, TypeOK
  <1>7. ASSUME NEW q \in Procs, q # p, pc[q] \in InCall
        PROVE  Request(q)' /\ info'[head[q]] = info[head[q]]
    <2>1. Request(q)
      BY <1>7, Zenon DEF Inv, Requests, InCall
    <2>2. \A d \in {head[q], Second(q), Third(q)} : d \in Desc \ free /\ d \notin C
      BY <1>2, <1>3, <1>7, <2>1, Disjoint, Zenon DEF Request
    <2>3. \A d \in {head[q], Second(q), Third(q)} : d \notin free' /\ desc'[d] = desc[d]
      BY <1>3, <2>2, Zenon
    <2>4. info'[head[q]] = info[head[q]]
      BY <1>3, <2>2 DEF Inv, TypeOK
    <2>. QED BY <1>6, <1>7, <2>1, <2>3, <2>4, RequestKept, Zenon
  <1>8. Requests'
    <2>1. lock' # p /\ p \notin busy'
      BY <1>1, Zenon DEF Inv, Requests
    <2>2. ASSUME NEW q \in Procs
          PROVE  /\ pc'[q] = "publish" <=> lock' = q
                 /\ pc'[q] \in {"publish", "wait"} => Request(q)'
                 /\ pc'[q] \in {"idle", "alloc"} => q \notin busy'
                 /\ pc'[q] = "publish" => q \in busy' /\ avail'[Slot(avail_idx', NUM)] = head'[q]
      <3>1. CASE q = p
        BY <1>6, <2>1, <3>1, Zenon
      <3>2. CASE q # p
        <4>1. pc'[q] = pc[q] /\ head'[q] = head[q] /\ UNCHANGED <<avail, avail_idx, busy, lock>>
          BY <1>1, <1>6, <3>2, Zenon
        <4>2. pc[q] \in {"publish", "wait"} => Request(q)'
          BY <1>7, <3>2, Zenon DEF InCall
        <4>. QED BY <4>1, <4>2, Zenon DEF Inv, Requests
      <3>. QED BY <3>1, <3>2, Zenon
    <2>. QED BY <2>2, Zenon DEF Requests
  <1>9. ASSUME NEW q \in Procs, q # p, pc[q] = "wait" PROVE Waiting(q)'
    <2>1. Waiting(q)
      BY <1>9, Zenon DEF Inv, Progress
    <2>2. info'[head[q]] = info[head[q]] /\ head'[q] = head[q]
      BY <1>6, <1>7, <1>9, Zenon DEF InCall
    <2>3. work' = work /\ busy' = busy /\ moved'[q] = moved[q]
      BY <1>1, <1>9, Zenon DEF Inv, TypeOK
    <2>. QED BY <1>5, <2>1, <2>2, <2>3, Zenon DEF Waiting
  <1>10. head[p] \notin AvailHeld \cup work \cup UsedHeld
    BY <1>1, <1>2, Zenon DEF Waiting
  <1>11. Progress'
    BY <1>1, <1>5, <1>6, <1>9, <1>10 DEF Inv, Progress
  <1>12. Sleepers'
    <2>1. p \notin asleep
      BY Zenon DEF finish, runs
    <2>2. free_sleepers' = {}
      BY <1>1, <1>6, <2>1, Zenon DEF free_sleepers, Inv, TypeOK
    <2>. QED BY <1>1, <1>5, <1>6, <2>1, <2>2, Zenon DEF Inv, TypeOK, Sleepers
  <1>. QED BY <1>4, <1>8, <1>11, <1>12, Zenon DEF Inv

(* The handler takes one completion and wakes its call.                    *)
LEMMA IntrOneStep ==
  ASSUME Counted, Inv, intr_one
  PROVE  Inv'
  <1>1. UNCHANGED <<free, desc, info, avail, avail_idx, lock, pc, head, seen, work, raise,
                    isr, moved, used_ring_idx>>
        /\ lock = Intr /\ used_idx # used_ring_idx /\ used_idx' = up(used_idx)
        /\ used' = [used EXCEPT ![Slot(used_idx, NUM)] = None]
    BY Zenon DEF intr_one, Slot
  <1>2. used[Slot(used_idx, NUM)] \in UsedHeld
        /\ UsedHeld' = UsedHeld \ {used[Slot(used_idx, NUM)]}
        /\ Distinct(used, NUM, Wrap, used_idx, used_ring_idx)'
    BY <1>1, UsedTaken, Zenon
  <1>3. PICK h \in Desc, p \in Procs : h = used[Slot(used_idx, NUM)] /\ pc[p] = "wait" /\ head[p] = h
                                       /\ Request(p) /\ info[h].b = p
    <2>1. PICK h : h = used[Slot(used_idx, NUM)]
      BY Zenon
    <2>2. h \in AvailHeld \cup work \cup UsedHeld
      BY <1>2, <2>1, Zenon
    <2>3. h \in Desc /\ \E p \in Procs : pc[p] = "wait" /\ head[p] = h /\ Request(p) /\ info[h].b = p
      BY <2>2, HeadsInUse, Zenon
    <2>. QED BY <2>1, <2>3, Zenon
  <1>4. busy' = busy \ {p} /\ asleep' = asleep \ {p}
    BY <1>3, Zenon DEF intr_one, Slot
  <1>5. TypeOK'
    BY <1>1, <1>4, IndexType, Zenon DEF Inv, TypeOK
  <1>6. AvailHeld' = AvailHeld
        /\ Distinct(avail, NUM, Wrap, seen, avail_idx)'
    BY <1>1, AvailKept, Zenon DEF Inv, Progress
  <1>7. \A q \in Procs : Request(q) => Request(q)'
    BY <1>1, Zenon DEF Request, Second, Third
  <1>8. Requests'
    BY <1>1, <1>3, <1>4, <1>7, Zenon DEF Inv, Requests
  <1>9. Waiting(p)'
    <2>1. Waiting(p)
      BY <1>3, Zenon DEF Inv, Progress
    <2>. QED BY <1>1, <1>2, <1>3, <1>4, <1>6, <2>1, Zenon DEF Waiting
  <1>10. ASSUME NEW q \in Procs, q # p, pc[q] = "wait" PROVE Waiting(q)'
    <2>1. Request(q) /\ Waiting(q)
      BY <1>10, Zenon DEF Inv, Requests, Progress
    <2>2. head[q] # h
      BY <1>3, <1>10, <2>1, Zenon DEF Request
    <2>. QED BY <1>1, <1>2, <1>3, <1>4, <1>6, <1>10, <2>1, <2>2, Zenon DEF Waiting
  <1>11. Progress'
    BY <1>1, <1>2, <1>6, <1>9, <1>10, Zenon DEF Inv, Progress
  <1>12. Sleepers'
    BY <1>1, <1>4, Zenon DEF Inv, Sleepers, free_sleepers
  <1>. QED BY <1>5, <1>8, <1>11, <1>12, Zenon DEF Inv

(* The device takes a request.                                             *)
LEMMA FetchStep ==
  ASSUME Counted, Inv, dev_fetch
  PROVE  Inv'
  <1>1. UNCHANGED <<free, desc, info, avail_idx, used_idx, busy, lock, pc, head, asleep,
                    raise, isr, moved, used, used_ring_idx>>
        /\ seen # avail_idx /\ work' = work \cup {avail[Slot(seen, NUM)]} /\ seen' = up(seen)
        /\ avail' = [avail EXCEPT ![Slot(seen, NUM)] = None]
    BY Zenon DEF dev_fetch, Slot
  <1>2. avail[Slot(seen, NUM)] \in AvailHeld
        /\ AvailHeld' = AvailHeld \ {avail[Slot(seen, NUM)]}
        /\ Distinct(avail, NUM, Wrap, seen, avail_idx)'
    BY <1>1, AvailTaken, Zenon
  <1>3. UsedHeld' = UsedHeld
        /\ Distinct(used, NUM, Wrap, used_idx, used_ring_idx)'
    BY <1>1, UsedKept, Zenon DEF Inv, Progress
  <1>4. avail[Slot(seen, NUM)] \in Desc
    BY <1>2, HeldTypes, Zenon
  <1>5. TypeOK'
    BY <1>1, <1>4, IndexType, Zenon DEF Inv, TypeOK
  <1>6. \A q \in Procs : Request(q) => Request(q)'
    BY <1>1, Zenon DEF Request, Second, Third
  <1>7. \A q \in Procs : pc[q] = "publish" => avail'[Slot(avail_idx, NUM)] = avail[Slot(avail_idx, NUM)]
    <2>. SUFFICES ASSUME NEW q \in Procs, pc[q] = "publish"
                  PROVE  avail'[Slot(avail_idx, NUM)] = avail[Slot(avail_idx, NUM)]
      OBVIOUS
    <2>1. avail[Slot(avail_idx, NUM)] = head[q] /\ Request(q)
      BY Zenon DEF Inv, Requests
    <2>2. head[q] \notin AvailHeld
      BY <2>1, HeadsInUse DEF Request
    <2>3. Slot(avail_idx, NUM) # Slot(seen, NUM)
      BY <1>2, <2>1, <2>2, Zenon
    <2>4. Slot(avail_idx, NUM) \in Desc
      BY IndexType, Zenon DEF Inv, TypeOK
    <2>. QED BY <1>1, <2>3, <2>4, Zenon DEF Inv, TypeOK
  <1>8. Requests'
    BY <1>1, <1>6, <1>7, Zenon DEF Inv, Requests
  <1>9. \A q \in Procs : Waiting(q) => Waiting(q)'
    BY <1>1, <1>2, <1>3, Zenon DEF Waiting
  <1>10. Progress'
    BY <1>1, <1>2, <1>3, <1>9, Zenon DEF Inv, Progress
  <1>11. Sleepers'
    BY <1>1, <1>3, Zenon DEF Inv, Sleepers, free_sleepers
  <1>. QED BY <1>5, <1>8, <1>10, <1>11, Zenon DEF Inv

(* The device finishes a request.                                          *)
LEMMA CompleteStep ==
  ASSUME Counted, Inv, NEW h \in Desc, dev_complete(h)
  PROVE  Inv'
  <1>1. h \in work
    BY Zenon DEF dev_complete
  <1>2. PICK p \in Procs : pc[p] = "wait" /\ head[p] = h /\ Request(p) /\ info[h].b = p
    BY <1>1, HeadsInUse, Zenon
  <1>3. Waiting(p) /\ p \in busy /\ moved[p] = 0
    BY <1>1, <1>2, Zenon DEF Inv, Progress, Waiting
  <1>4. desc[desc[h].next].of = p /\ desc[desc[desc[h].next].next].of = h
    BY <1>2, Zenon DEF Request, Second, Third
  <1>5. UNCHANGED <<free, desc, avail, avail_idx, used_idx, busy, lock, pc, head, asleep,
                    seen, isr>>
        /\ moved' = [moved EXCEPT ![p] = @ + 1]
        /\ info' = [info EXCEPT ![h].status = 0]
        /\ used' = [used EXCEPT ![Slot(used_ring_idx, NUM)] = head[p]]
        /\ used_ring_idx' = up(used_ring_idx)
        /\ work' = work \ {h} /\ raise' = 1
    BY <1>2, <1>4, Zenon DEF dev_complete, Slot
  <1>6. UsedHeld' = UsedHeld \cup {h}
        /\ Distinct(used, NUM, Wrap, used_idx, used_ring_idx)'
    BY <1>1, <1>2, <1>5, UsedAdded, Zenon
  <1>7. AvailHeld' = AvailHeld
        /\ Distinct(avail, NUM, Wrap, seen, avail_idx)'
    BY <1>5, AvailKept, Zenon DEF Inv, Progress
  <1>8. moved'[p] = 1 /\ \A q \in Procs : q # p => moved'[q] = moved[q]
    BY <1>3, <1>5 DEF Inv, TypeOK
  <1>9. /\ info'[h].status = 0
        /\ \A d \in Desc : info'[d].b = info[d].b
        /\ \A d \in Desc \ {h} : info'[d] = info[d]
    BY <1>5 DEF Inv, TypeOK
  <1>10. TypeOK'
    <2>1. info' \in [Desc -> [b : Procs \cup {NoProc}, status : {0, 255}]]
      BY <1>5 DEF Inv, TypeOK
    <2>2. moved' \in [Procs -> Nat]
      BY <1>5 DEF Inv, TypeOK
    <2>3. used' \in [Desc -> Desc \cup {None}]
      BY <1>2, <1>5, Zenon DEF Inv, TypeOK
    <2>4. used_ring_idx' \in 0..Wrap - 1
      BY <1>5, IndexType, Zenon DEF Inv, TypeOK
    <2>. QED BY <1>5, <2>1, <2>2, <2>3, <2>4, Zenon DEF Inv, TypeOK
  <1>11. \A q \in Procs : pc[q] \in InCall => Request(q)'
    BY <1>5, <1>9, RequestsKept, Zenon
  <1>12. Requests'
    BY <1>5, <1>11, Zenon DEF Inv, Requests, InCall
  <1>13. Waiting(p)'
    <2>1. h \notin AvailHeld
      BY <1>1, Zenon DEF Inv, Progress
    <2>. QED BY <1>2, <1>3, <1>5, <1>6, <1>7, <1>8, <1>9, <2>1, Zenon DEF Waiting
  <1>14. ASSUME NEW q \in Procs, q # p, pc[q] = "wait" PROVE Waiting(q)'
    <2>1. Request(q) /\ Waiting(q)
      BY <1>14, Zenon DEF Inv, Requests, Progress
    <2>2. head[q] # h /\ head[q] \in Desc
      BY <1>2, <1>14, <2>1, Zenon DEF Request
    <2>3. /\ busy' = busy /\ head' = head /\ AvailHeld' = AvailHeld
          /\ moved'[q] = moved[q] /\ info'[head[q]] = info[head[q]]
      BY <1>5, <1>7, <1>8, <1>9, <1>14, <2>2, Zenon
    <2>4. (head[q] \in work' <=> head[q] \in work) /\ (head[q] \in UsedHeld' <=> head[q] \in UsedHeld)
      BY <1>5, <1>6, <2>2, Zenon
    <2>. QED BY <2>1, <2>3, <2>4, Zenon DEF Waiting
  <1>15. Progress'
    <2>1. \A q \in Procs : moved'[q] \in {0, 1}
      BY <1>8, Zenon DEF Inv, Progress
    <2>2. \A q \in Procs : pc'[q] \in {"alloc", "publish"} => moved'[q] = 0
      BY <1>2, <1>5, <1>8, Zenon DEF Inv, Progress
    <2>3. \A q \in Procs : pc'[q] = "wait" => Waiting(q)'
      BY <1>5, <1>13, <1>14, Zenon
    <2>4. \A g \in AvailHeld' \cup work' \cup UsedHeld' :
             \E q \in Procs : pc'[q] = "wait" /\ head'[q] = g
      BY <1>1, <1>5, <1>6, <1>7, Zenon DEF Inv, Progress
    <2>5. AvailHeld' \cap work' = {}
      BY <1>5, <1>7, Zenon DEF Inv, Progress
    <2>. QED BY <1>6, <1>7, <2>1, <2>2, <2>3, <2>4, <2>5, Zenon DEF Progress
  <1>16. Sleepers'
    BY <1>5, Zenon DEF Inv, Sleepers, free_sleepers
  <1>. QED BY <1>10, <1>12, <1>15, <1>16, Zenon DEF Inv

(* What the properties call Queued and Finished.                           *)
LEMMA RingSets ==
  ASSUME TypeOK
  PROVE  Queued = AvailHeld \cup work /\ Finished = UsedHeld
  <1>. USE RingsFit
  <1>1. ASSUME NEW ring, NEW a \in 0..Wrap - 1, NEW b \in 0..Wrap - 1
        PROVE  {ring[Slot(b + k, NUM)] : k \in 0..Distance(a, b, Wrap) - 1} =
               Held(ring, NUM, Wrap, b, a)
    <2>1. PICK d \in Nat : d = Distance(a, b, Wrap)
      BY DistanceIs
    <2>2. Held(ring, NUM, Wrap, b, a) = {ring[Slot(b + k - 1, NUM)] : k \in 1..d}
      BY <2>1, Zenon DEF Held, Elements, Content
    <2>3. \A k \in 0..d - 1 : k + 1 \in 1..d /\ b + (k + 1) - 1 = b + k
      OBVIOUS
    <2>4. \A k \in 1..d : k - 1 \in 0..d - 1 /\ b + (k - 1) = b + k - 1
      OBVIOUS
    <2>. QED BY <2>1, <2>2, <2>3, <2>4, Zenon
  <1>2. Queued = AvailHeld \cup work
    BY <1>1, Zenon DEF Queued, AvailHeld, TypeOK, Slot, Distance
  <1>3. Finished = UsedHeld
    BY <1>1, Zenon DEF Finished, UsedHeld, TypeOK, Slot, Distance
  <1>. QED BY <1>2, <1>3, Zenon

-----------------------------------------------------------------------------
(* Init implies the invariant.                                             *)
LEMMA Initially == Init => Inv
  <1>. SUFFICES ASSUME Init PROVE Inv
    OBVIOUS
  <1>. USE RingsFit
  <1>1. TypeOK
    BY DEF Init, TypeOK, Descriptors, Zero
  <1>2. 0 \in 0..Wrap - 1
    OBVIOUS
  <1>3. Distance(0, 0, Wrap) = 0
    BY <1>2, DistanceIs
  <1>4. AvailHeld = {} /\ UsedHeld = {}
        /\ Distinct(avail, NUM, Wrap, seen, avail_idx)
        /\ Distinct(used, NUM, Wrap, used_idx, used_ring_idx)
    BY <1>3 DEF Init, AvailHeld, UsedHeld, Held, Distinct, Elements, AllDifferent
  <1>5. Requests
    BY Zenon DEF Init, Requests
  <1>6. Progress
    BY <1>4, Zenon DEF Init, Progress
  <1>7. Sleepers
    BY <1>4, Zenon DEF Init, Sleepers, free_sleepers
  <1>. QED BY <1>1, <1>5, <1>6, <1>7, Zenon DEF Inv

(* Every step keeps it.                                                    *)
LEMMA Step == Counted /\ Inv /\ [Next]_vars => Inv'
  <1>. SUFFICES ASSUME Counted, Inv, [Next]_vars PROVE Inv'
    OBVIOUS
  <1>1. CASE UNCHANGED vars
    <2>1. Requests' /\ Progress' /\ UsedHeld' = UsedHeld
      BY <1>1, QuietStep DEF vars
    <2>. QED BY <1>1, <2>1 DEF vars, Inv, TypeOK, Sleepers, free_sleepers
  <1>. QED
    BY <1>1, CallStep, AllocFailsStep, SubmitStep, PublishStep, SleepAgainStep,
       FinishStep, KillStep, IntrStep, IntrOneStep, FetchStep, RaiseStep, CompleteStep,
       Zenon
    DEF Next, rw, virtio_disk_intr, Device

(* It implies what the properties say: whole requests and no panic;        *)
LEMMA SeesRequests ==
  ASSUME Counted, Inv
  PROVE  RingConsistent
  <1>. USE RingsFit
  <1>1. TypeOK /\ Queued = AvailHeld \cup work /\ Finished = UsedHeld
    BY RingSets DEF Inv
  <1>2. ASSUME NEW h \in Queued
        PROVE  /\ h # None /\ chain(h) \cap free = {}
               /\ desc[h].kind = "op"
               /\ desc[h].next # None
               /\ LET d == desc[h].next IN
                     /\ desc[d].kind = "data" /\ desc[d].next # None
                     /\ desc[desc[d].next] = [kind |-> "status", of |-> h, next |-> None]
                     /\ LET p == desc[d].of IN
                           p \in busy /\ pc[p] = "wait" /\ head[p] = h /\ info[h].b = p
               /\ \A g \in Queued \ {h} : chain(g) \cap chain(h) = {}
    <2>1. PICK p \in Procs : pc[p] = "wait" /\ head[p] = h /\ Request(p) /\ info[h].b = p
      BY <1>1, <1>2, HeadsInUse, Zenon
    <2>2. p \in busy
      BY <1>1, <1>2, <2>1, Zenon DEF Inv, Progress, Waiting
    <2>3. h # None /\ chain(h) = {h, Second(p), Third(p)} /\ chain(h) \cap free = {}
      BY <2>1, ChainIs DEF Request
    <2>4. desc[h].next = Second(p) /\ desc[Second(p)].next = Third(p)
      BY <2>1 DEF Second, Third
    <2>5. desc[Third(p)] = [kind |-> "status", of |-> h, next |-> None]
      <3>1. desc[Third(p)] \in Descriptors
        BY <2>1 DEF Inv, TypeOK, Request
      <3>. QED BY <2>1, <3>1 DEF Request, Descriptors
    <2>6. ASSUME NEW g \in Queued \ {h} PROVE chain(g) \cap chain(h) = {}
      <3>1. PICK q \in Procs : pc[q] = "wait" /\ head[q] = g /\ Request(q)
        BY <1>1, <2>6, HeadsInUse, Zenon
      <3>2. chain(g) = {g, Second(q), Third(q)} /\ q # p
        BY <2>1, <3>1, ChainIs, Zenon
      <3>. QED BY <2>1, <2>3, <3>1, <3>2, Disjoint, Zenon
    <2>. QED BY <2>1, <2>2, <2>3, <2>4, <2>5, <2>6, ZenonT(40) DEF Request
  <1>3. ASSUME NEW p \in Procs, pc[p] = "wait"
        PROVE  chain(head[p]) \cap free = {} /\ Cardinality(chain(head[p])) = 3
    <2>1. Request(p)
      BY <1>3 DEF Inv, Requests
    <2>2. PICK a, b, c : a = head[p] /\ b = Second(p) /\ c = Third(p)
      OBVIOUS
    <2>3. chain(head[p]) = {a, b, c} /\ a # b /\ a # c /\ b # c
      BY <2>1, <2>2, ChainIs, Three
    <2>4. Cardinality({a, b, c}) = 3
      BY <2>3, Zenon DEF Counted
    <2>. QED BY <2>1, <2>2, <2>3, <2>4 DEF Request
  <1>4. ASSUME NEW h \in Finished
        PROVE  h # None /\ info[h].status = 0 /\ info[h].b \in Procs
    <2>1. PICK p \in Procs : pc[p] = "wait" /\ head[p] = h /\ Request(p) /\ info[h].b = p
      BY <1>1, <1>4, HeadsInUse
    <2>2. Waiting(p)
      BY <2>1 DEF Inv, Progress
    <2>. QED BY <1>1, <1>4, <2>1, <2>2 DEF Waiting, Request
  <1>5. DeviceSeesRequests
    BY <1>2, Zenon DEF DeviceSeesRequests
  <1>6. NoPanic
    BY <1>3, <1>4 DEF NoPanic
  <1>. QED BY <1>1, <1>5, <1>6 DEF RingConsistent

(* one transfer each;                                                      *)
LEMMA Transfers ==
  ASSUME Inv
  PROVE  TransferredOnce
  <1>1. \A p \in Procs : moved[p] \in {0, 1}
    BY Zenon DEF Inv, Progress
  <1>2. \A p \in Procs : moved[p] <= 1
    BY <1>1
  <1>3. \A p \in Procs : pc[p] = "wait" /\ p \notin busy => moved[p] = 1
    BY Zenon DEF Inv, Progress, Waiting
  <1>. QED BY <1>2, <1>3, Zenon DEF TransferredOnce

(* no sleeper whose event has passed.                                      *)
LEMMA Wakes ==
  ASSUME Inv
  PROVE  NoLostWakeup
  <1>1. Queued = AvailHeld \cup work /\ Finished = UsedHeld
    BY RingSets DEF Inv
  <1>2. \A p \in asleep : pc[p] = "wait" => p \in busy /\ head[p] \in Queued \cup Finished
    BY <1>1 DEF Inv, TypeOK, Sleepers, Progress, Waiting
  <1>. QED BY <1>1, <1>2 DEF Inv, Sleepers, NoLostWakeup

-----------------------------------------------------------------------------
(* Counting.                                                               *)
INSTANCE FiniteSetTheorems

(* A ring of distinct values is no longer than the set they are from.      *)
LEMMA HeldBound ==
  ASSUME NEW n \in Nat \ {0}, NEW w \in Nat \ {0}, NEW ring,
         NEW a \in 0..w - 1, NEW b \in 0..w - 1, NEW T, IsFiniteSet(T),
         Distinct(ring, n, w, b, a), Held(ring, n, w, b, a) \subseteq T
  PROVE  Distance(a, b, w) <= Cardinality(T)
  <1>1. PICK d \in Nat : d = Distance(a, b, w)
    BY DistanceIs
  <1>2. PICK f : f = [k \in 1..d |-> Content(ring, n, w, b, a)[k]]
    BY Zenon
  <1>3. f \in Injection(1..d, T)
    <2>1. \A k \in 1..d : f[k] \in T
      BY <1>1, <1>2, Zenon DEF Held, Elements
    <2>2. \A j, k \in 1..d : f[j] = f[k] => j = k
      BY <1>1, <1>2 DEF Distinct, AllDifferent
    <2>. QED BY <1>2, <2>1, <2>2 DEF Injection, IsInjective
  <1>4. Cardinality(1..d) <= Cardinality(T)
    BY <1>3, FS_Injection
  <1>5. Cardinality(1..d) = d
    BY FS_Interval
  <1>. QED BY <1>1, <1>4, <1>5

(* Three different values are three.                                       *)
LEMMA ThreeElements ==
  ASSUME NEW a, NEW b, NEW c, a # b, a # c, b # c
  PROVE  Cardinality({a, b, c}) = 3 /\ IsFiniteSet({a, b, c})
  <1>1. Cardinality({a}) = 1 /\ IsFiniteSet({a})
    BY FS_Singleton, Zenon
  <1>2. Cardinality({a} \cup {b}) = 2 /\ IsFiniteSet({a} \cup {b})
    BY <1>1, FS_AddElement
  <1>3. Cardinality(({a} \cup {b}) \cup {c}) = 3 /\ IsFiniteSet(({a} \cup {b}) \cup {c})
    BY <1>2, FS_AddElement
  <1>4. ({a} \cup {b}) \cup {c} = {a, b, c}
    OBVIOUS
  <1>. QED BY <1>3, <1>4

(* A ring of distinct heads is shorter than NUM by the descriptors that    *)
(* are not among them.                                                     *)
LEMMA Room ==
  ASSUME NEW ring, NEW a \in 0..Wrap - 1, NEW b \in 0..Wrap - 1,
         Distinct(ring, NUM, Wrap, b, a), Held(ring, NUM, Wrap, b, a) \subseteq Desc
  PROVE  /\ Distance(a, b, Wrap) \in Nat
         /\ Distance(a, b, Wrap) <= NUM
         /\ \A x \in Desc \ Held(ring, NUM, Wrap, b, a) : Distance(a, b, Wrap) <= NUM - 1
         /\ \A x, y \in Desc \ Held(ring, NUM, Wrap, b, a) :
               x # y => Distance(a, b, Wrap) <= NUM - 2
  <1>. USE RingsFit
  <1>1. Distance(a, b, Wrap) \in Nat
    BY DistanceIs
  <1>2. IsFiniteSet(Desc) /\ Cardinality(Desc) = NUM
    <2>1. 0 \in Int /\ NUM - 1 \in Int /\ ~(0 > NUM - 1) /\ (NUM - 1) - 0 + 1 = NUM
      OBVIOUS
    <2>. QED BY <2>1, FS_Interval DEF Desc
  <1>3. Distance(a, b, Wrap) <= NUM
    BY <1>2, HeldBound
  <1>4. ASSUME NEW x \in Desc \ Held(ring, NUM, Wrap, b, a)
        PROVE  Distance(a, b, Wrap) <= NUM - 1
    <2>1. IsFiniteSet(Desc \ {x}) /\ Cardinality(Desc \ {x}) = NUM - 1
      BY <1>2, FS_RemoveElement
    <2>2. Held(ring, NUM, Wrap, b, a) \subseteq Desc \ {x}
      OBVIOUS
    <2>. QED BY <2>1, <2>2, HeldBound
  <1>5. ASSUME NEW x \in Desc \ Held(ring, NUM, Wrap, b, a),
               NEW y \in Desc \ Held(ring, NUM, Wrap, b, a), x # y
        PROVE  Distance(a, b, Wrap) <= NUM - 2
    <2>1. IsFiniteSet(Desc \ {x}) /\ Cardinality(Desc \ {x}) = NUM - 1
      BY <1>2, FS_RemoveElement
    <2>2. IsFiniteSet((Desc \ {x}) \ {y}) /\ Cardinality((Desc \ {x}) \ {y}) = NUM - 2
      BY <1>5, <2>1, FS_RemoveElement
    <2>3. Held(ring, NUM, Wrap, b, a) \subseteq (Desc \ {x}) \ {y}
      OBVIOUS
    <2>. QED BY <2>2, <2>3, HeldBound
  <1>. QED BY <1>1, <1>3, <1>4, <1>5

(* All together.                                                           *)
LEMMA Counting == Counted
  <1>1. ASSUME NEW F \in SUBSET Desc, NEW a \in F, NEW b \in F, NEW c \in F,
               a # b, a # c, b # c
        PROVE  ~(Cardinality(F) < 3)
    <2>1. Cardinality({a, b, c}) = 3 /\ IsFiniteSet({a, b, c})
      BY <1>1, ThreeElements, Zenon
    <2>2. IsFiniteSet(F)
      <3>1. IsFiniteSet(Desc)
        <4>1. 0 \in Int /\ NUM - 1 \in Int
          BY RingsFit
        <4>. QED BY <4>1, FS_Interval DEF Desc
      <3>. QED BY <3>1, FS_Subset
    <2>3. 3 <= Cardinality(F) /\ Cardinality(F) \in Nat
      BY <2>1, <2>2, FS_Subset, FS_CardinalityType
    <2>. QED BY <2>3
  <1>2. ASSUME NEW a, NEW b, NEW c, a # b, a # c, b # c
        PROVE  Cardinality({a, b, c}) = 3
    BY <1>2, ThreeElements, Zenon
  <1>. QED BY <1>1, <1>2, Room, Zenon DEF Counted

-----------------------------------------------------------------------------
(* Inv holds in every state.                                               *)
LEMMA Invariance == Spec => []Inv
  <1>1. Inv /\ [Next]_vars => Inv'
    BY Counting, Step, Zenon
  <1>. QED BY <1>1, Initially, PTL DEF Spec

(* The device reads whole requests of calls that wait, no two of which     *)
(* share a descriptor; free_chain() and the handler meet no panic; the     *)
(* indices stay in the range of their type.                                *)
THEOREM RingConsistentHolds == Spec => []RingConsistent
  <1>1. Inv => RingConsistent
    BY Counting, SeesRequests, Zenon
  <1>. QED BY <1>1, Invariance, PTL

(* virtio_disk_rw() returns after its transfer was done, once.             *)
THEOREM TransferredOnceHolds == Spec => []TransferredOnce
  <1>1. Inv => TransferredOnce
    BY Transfers, Zenon
  <1>. QED BY <1>1, Invariance, PTL

(* Nobody sleeps on an event that has passed: three free descriptors, or a *)
(* completion that nothing will announce any more.                         *)
THEOREM NoLostWakeupHolds == Spec => []NoLostWakeup
  <1>1. Inv => NoLostWakeup
    BY Wakes, Zenon
  <1>. QED BY <1>1, Invariance, PTL

=============================================================================
