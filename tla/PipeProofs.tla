----------------------------- MODULE PipeProofs -----------------------------
(***************************************************************************)
(* Proofs about Pipe, for any readers, writers and sizes: the page of a    *)
(* pipe is not used after it is freed, who sleeps has a reason to, and the *)
(* ring buffer is a first-in first-out queue.                              *)
(***************************************************************************)
EXTENDS Pipe, RingTheorems, TLAPS

-----------------------------------------------------------------------------
Writing == {"write", "w_loop", "w_sleep", "w_asleep"}
Reading == {"read", "r_wait", "r_sleep", "r_asleep", "r_copy"}

(* A call keeps its file open.  One process closes an end for good: the    *)
(* one that dropped the last reference.                                    *)
Ends ==
    /\ \A p \in Procs :
         /\ pc[p] \in Writing => p \in wfile
         /\ pc[p] \in Reading => p \in rfile
         /\ pc[p] = "close_w" => wfile = {} /\ writeopen = 1
         /\ pc[p] = "close_r" => rfile = {} /\ readopen = 1
    /\ \A p, q \in Procs : pc[p] = pc[q] /\ pc[p] \in {"close_r", "close_w"} => p = q
    /\ writeopen = 0 => wfile = {}
    /\ readopen = 0 => rfile = {}
    /\ freed = 1 => readopen = 0 /\ writeopen = 0

(* The places where pi->lock is held, and where a process can be asleep.   *)
Holding == {"w_loop", "w_sleep", "r_wait", "r_sleep", "r_copy"}

Locking ==
    /\ \A p \in Procs : pc[p] \in Holding <=> lock = p
    /\ \A p \in asleep : pc[p] \in {"r_asleep", "w_asleep"}

(* Why a process may sleep, or be about to.  While somebody holds the lock *)
(* the reason may be gone already, but then the holder is in the loop that *)
(* ends with the wakeup.                                                   *)
Reasons ==
    /\ \A p \in Procs : pc[p] = "w_sleep" => full /\ readopen = 1
    /\ \A p \in Procs : pc[p] = "r_sleep" => read_waits
    /\ writers_asleep # {} =>
         /\ readopen = 1
         /\ full \/ \E p \in Procs : pc[p] = "r_copy"
    /\ readers_asleep # {} =>
         \/ empty /\ writeopen = 1
         \/ killed \cap Writers # {}
         \/ \E p \in Procs : pc[p] = "w_loop"

(* The inductive invariant.                                                *)
Inv == TypeOK /\ Ends /\ Locking /\ Reasons

-----------------------------------------------------------------------------
(* The counters stay in the range of their type.                           *)
LEMMA UpType == \A k \in 0..Counters - 1 : up(k) \in 0..Counters - 1
  BY PipeAssumption DEF up

(* Every step keeps Inv: what one side changes under the lock it ends with *)
(* the wakeup of the other, unless it is killed.                           *)
LEMMA Step == Inv /\ [Next]_vars => Inv'
  <1>. SUFFICES ASSUME Inv, [Next]_vars PROVE Inv'
    OBVIOUS
  <1>. USE PipeAssumption DEF Procs, Holding, Writing, Reading
  <1>1. ASSUME NEW p \in Procs, NEW k \in Sizes, write(p, k) PROVE Inv'
    <2>1. TypeOK'
      BY <1>1 DEF write, Inv, TypeOK, goto, PCs, buffer, ends
    <2>2. Ends'
      BY <1>1 DEF write, Inv, Ends, goto, ends
    <2>3. Locking'
      BY <1>1 DEF write, Inv, Locking, goto
    <2>4. Reasons'
      BY <1>1
      DEF write, Inv, Reasons, goto, buffer, ends, full, empty, read_waits,
          readers_asleep, writers_asleep
    <2>. QED BY <2>1, <2>2, <2>3, <2>4 DEF Inv
  <1>2. ASSUME NEW p \in Procs, write_acquire(p) PROVE Inv'
    <2>1. TypeOK'
      BY <1>2 DEF write_acquire, Inv, TypeOK, goto, PCs, buffer, ends
    <2>2. Ends'
      BY <1>2 DEF write_acquire, Inv, Ends, goto, ends
    <2>3. Locking'
      BY <1>2 DEF write_acquire, Inv, Locking, goto, TypeOK
    <2>4. Reasons'
      BY <1>2
      DEF write_acquire, Inv, Reasons, goto, TypeOK, buffer, ends, Locking, full,
          writers_asleep
    <2>. QED BY <2>1, <2>2, <2>3, <2>4 DEF Inv
  <1>3. ASSUME NEW p \in Procs, pipewrite_fails(p) PROVE Inv'
    <2>1. TypeOK'
      BY <1>3 DEF pipewrite_fails, Inv, TypeOK, return, goto, PCs, buffer, ends
    <2>2. Ends'
      BY <1>3 DEF pipewrite_fails, Inv, Ends, return, goto, ends
    <2>3. Locking'
      BY <1>3 DEF pipewrite_fails, Inv, Locking, holds, return, goto, TypeOK
    <2>4. Reasons'
      BY <1>3
      DEF pipewrite_fails, Inv, Reasons, holds, return, goto, write_aborts, TypeOK,
          buffer, ends, Ends, Locking, full, readers_asleep, writers_asleep
    <2>. QED BY <2>1, <2>2, <2>3, <2>4 DEF Inv
  <1>4. ASSUME NEW p \in Procs, pipewrite_full(p) PROVE Inv'
    <2>1. TypeOK'
      BY <1>4 DEF pipewrite_full, Inv, TypeOK, goto, PCs, buffer, ends
    <2>2. Ends'
      BY <1>4 DEF pipewrite_full, Inv, Ends, holds, goto, ends
    <2>3. Locking'
      BY <1>4 DEF pipewrite_full, Inv, Locking, holds, goto
    <2>4. Reasons'
      BY <1>4
      DEF pipewrite_full, Inv, Reasons, holds, goto, write_continues,
          readers_asleep, buffer, ends, Locking, full
    <2>. QED BY <2>1, <2>2, <2>3, <2>4 DEF Inv
  <1>5. ASSUME NEW p \in Procs, pipewrite_sleep(p) PROVE Inv'
    <2>1. TypeOK'
      BY <1>5 DEF pipewrite_sleep, Inv, TypeOK, goto, PCs, buffer, ends
    <2>2. Ends'
      BY <1>5 DEF pipewrite_sleep, Inv, Ends, holds, goto, ends
    <2>3. Locking'
      BY <1>5 DEF pipewrite_sleep, Inv, Locking, holds, goto, TypeOK
    <2>4. Reasons'
      BY <1>5
      DEF pipewrite_sleep, Inv, Reasons, holds, goto, buffer, ends, Locking, full,
          empty, readers_asleep
    <2>. QED BY <2>1, <2>2, <2>3, <2>4 DEF Inv
  <1>6. ASSUME NEW p \in Procs, NEW v \in Bytes, pipewrite_byte(p, v) PROVE Inv'
    <2>1. TypeOK'
      <3>1. i[p] + 1 \in Nat
        BY DEF Inv, TypeOK
      <3>2. up(nwrite) \in 0..Counters - 1
        BY UpType, Zenon DEF Inv, TypeOK
      <3>. QED
        BY <1>6, <3>1, <3>2 DEF pipewrite_byte, Inv, TypeOK, ends
    <2>2. Ends'
      BY <1>6 DEF pipewrite_byte, Inv, Ends, ends
    <2>3. Locking'
      BY <1>6 DEF pipewrite_byte, Inv, Locking
    <2>4. Reasons'
      BY <1>6 DEF pipewrite_byte, Inv, Reasons, holds, Locking, writers_asleep
    <2>. QED BY <2>1, <2>2, <2>3, <2>4 DEF Inv
  <1>7. ASSUME NEW p \in Procs, pipewrite_end(p) PROVE Inv'
    <2>1. TypeOK'
      BY <1>7 DEF pipewrite_end, Inv, TypeOK, return, goto, PCs, buffer, ends
    <2>2. Ends'
      BY <1>7 DEF pipewrite_end, Inv, Ends, return, goto, ends
    <2>3. Locking'
      BY <1>7 DEF pipewrite_end, Inv, Locking, holds, return, goto, TypeOK
    <2>4. Reasons'
      BY <1>7
      DEF pipewrite_end, Inv, Reasons, holds, return, goto, readers_asleep, buffer,
          ends, Locking, full, writers_asleep
    <2>. QED BY <2>1, <2>2, <2>3, <2>4 DEF Inv
  <1>8. ASSUME NEW p \in Procs, NEW k \in Sizes, read(p, k) PROVE Inv'
    <2>1. TypeOK'
      BY <1>8 DEF read, Inv, TypeOK, goto, PCs, buffer, ends
    <2>2. Ends'
      BY <1>8 DEF read, Inv, Ends, goto, ends
    <2>3. Locking'
      BY <1>8 DEF read, Inv, Locking, goto
    <2>4. Reasons'
      BY <1>8
      DEF read, Inv, Reasons, goto, buffer, ends, full, empty, read_waits,
          readers_asleep, writers_asleep
    <2>. QED BY <2>1, <2>2, <2>3, <2>4 DEF Inv
  <1>9. ASSUME NEW p \in Procs, read_acquire(p) PROVE Inv'
    <2>1. TypeOK'
      BY <1>9 DEF read_acquire, Inv, TypeOK, goto, PCs, buffer, ends
    <2>2. Ends'
      BY <1>9 DEF read_acquire, Inv, Ends, goto, ends
    <2>3. Locking'
      BY <1>9 DEF read_acquire, Inv, Locking, goto, TypeOK
    <2>4. Reasons'
      BY <1>9
      DEF read_acquire, Inv, Reasons, goto, buffer, ends, Locking, full, empty,
          readers_asleep, writers_asleep
    <2>. QED BY <2>1, <2>2, <2>3, <2>4 DEF Inv
  <1>10. ASSUME NEW p \in Procs, piperead_killed(p) PROVE Inv'
    <2>1. TypeOK'
      BY <1>10 DEF piperead_killed, Inv, TypeOK, return, goto, PCs, buffer, ends
    <2>2. Ends'
      BY <1>10 DEF piperead_killed, Inv, Ends, return, goto, ends
    <2>3. Locking'
      BY <1>10 DEF piperead_killed, Inv, Locking, holds, return, goto, TypeOK
    <2>4. Reasons'
      BY <1>10
      DEF piperead_killed, Inv, Reasons, holds, return, goto, buffer, ends, full,
          empty, read_waits, writers_asleep
    <2>. QED BY <2>1, <2>2, <2>3, <2>4 DEF Inv
  <1>11. ASSUME NEW p \in Procs, piperead_wait(p) PROVE Inv'
    <2>1. TypeOK'
      BY <1>11 DEF piperead_wait, Inv, TypeOK, goto, PCs, buffer, ends
    <2>2. Ends'
      BY <1>11 DEF piperead_wait, Inv, Ends, holds, goto, ends
    <2>3. Locking'
      BY <1>11 DEF piperead_wait, Inv, Locking, holds, goto
    <2>4. Reasons'
      BY <1>11
      DEF piperead_wait, Inv, Reasons, holds, goto, buffer, ends, full, empty,
          read_waits, readers_asleep, writers_asleep
    <2>. QED BY <2>1, <2>2, <2>3, <2>4 DEF Inv
  <1>12. ASSUME NEW p \in Procs, piperead_sleep(p) PROVE Inv'
    <2>1. TypeOK'
      BY <1>12 DEF piperead_sleep, Inv, TypeOK, goto, PCs, buffer, ends
    <2>2. Ends'
      BY <1>12 DEF piperead_sleep, Inv, Ends, holds, goto, ends
    <2>3. Locking'
      BY <1>12 DEF piperead_sleep, Inv, Locking, holds, goto, TypeOK
    <2>4. Reasons'
      BY <1>12
      DEF piperead_sleep, Inv, Reasons, holds, goto, buffer, ends, full, empty,
          read_waits, writers_asleep
    <2>. QED BY <2>1, <2>2, <2>3, <2>4 DEF Inv
  <1>13. ASSUME NEW p \in Procs, piperead_byte(p) PROVE Inv'
    <2>1. TypeOK'
      <3>1. i[p] + 1 \in Nat
        BY DEF Inv, TypeOK
      <3>2. up(nread) \in 0..Counters - 1
        BY UpType, Zenon DEF Inv, TypeOK
      <3>. QED
        BY <1>13, <3>1, <3>2 DEF piperead_byte, Inv, TypeOK, ends
    <2>2. Ends'
      BY <1>13 DEF piperead_byte, Inv, Ends, ends
    <2>3. Locking'
      BY <1>13 DEF piperead_byte, Inv, Locking
    <2>4. Reasons'
      BY <1>13
      DEF piperead_byte, Inv, Reasons, holds, TypeOK, ends, Ends, Locking,
          readers_asleep
    <2>. QED BY <2>1, <2>2, <2>3, <2>4 DEF Inv
  <1>14. ASSUME NEW p \in Procs, piperead_bad_address(p) PROVE Inv'
    <2>1. TypeOK'
      BY <1>14, UpType, Zenon
      DEF piperead_bad_address, Inv, TypeOK, return, goto, PCs, ends
    <2>2. Ends'
      BY <1>14 DEF piperead_bad_address, Inv, Ends, return, goto, ends
    <2>3. Locking'
      BY <1>14 DEF piperead_bad_address, Inv, Locking, holds, return, goto, TypeOK
    <2>4. Reasons'
      BY <1>14
      DEF piperead_bad_address, Inv, Reasons, holds, return, goto, writers_asleep,
          Locking, readers_asleep
    <2>. QED BY <2>1, <2>2, <2>3, <2>4 DEF Inv
  <1>15. ASSUME NEW p \in Procs, piperead_end(p) PROVE Inv'
    <2>1. TypeOK'
      BY <1>15 DEF piperead_end, Inv, TypeOK, return, goto, PCs, buffer, ends
    <2>2. Ends'
      BY <1>15 DEF piperead_end, Inv, Ends, return, goto, ends
    <2>3. Locking'
      BY <1>15 DEF piperead_end, Inv, Locking, holds, return, goto, TypeOK
    <2>4. Reasons'
      BY <1>15
      DEF piperead_end, Inv, Reasons, holds, return, goto, writers_asleep, buffer,
          ends, Locking, empty, readers_asleep
    <2>. QED BY <2>1, <2>2, <2>3, <2>4 DEF Inv
  <1>16. ASSUME NEW p \in Procs, close_read(p) PROVE Inv'
    <2>1. TypeOK'
      BY <1>16 DEF close_read, Inv, TypeOK, goto, PCs, buffer
    <2>2. Ends'
      BY <1>16 DEF close_read, Inv, Ends, goto, TypeOK
    <2>3. Locking'
      BY <1>16 DEF close_read, Inv, Locking, goto
    <2>4. Reasons'
      BY <1>16
      DEF close_read, Inv, Reasons, goto, buffer, full, empty, read_waits,
          readers_asleep, writers_asleep
    <2>. QED BY <2>1, <2>2, <2>3, <2>4 DEF Inv
  <1>17. ASSUME NEW p \in Procs, close_write(p) PROVE Inv'
    <2>1. TypeOK'
      BY <1>17 DEF close_write, Inv, TypeOK, goto, PCs, buffer
    <2>2. Ends'
      BY <1>17 DEF close_write, Inv, Ends, goto, TypeOK
    <2>3. Locking'
      BY <1>17 DEF close_write, Inv, Locking, goto
    <2>4. Reasons'
      BY <1>17
      DEF close_write, Inv, Reasons, goto, buffer, full, empty, read_waits,
          readers_asleep, writers_asleep
    <2>. QED BY <2>1, <2>2, <2>3, <2>4 DEF Inv
  <1>18. ASSUME NEW p \in Procs, pipeclose(p) PROVE Inv'
    <2>1. TypeOK'
      BY <1>18 DEF pipeclose, Inv, TypeOK, goto, PCs, buffer
    <2>2. Ends'
      BY <1>18 DEF pipeclose, Inv, Ends, goto, TypeOK
    <2>3. Locking'
      BY <1>18 DEF pipeclose, Inv, Locking, goto
    <2>4. Reasons'
      BY <1>18
      DEF pipeclose, Inv, Reasons, goto, readers_asleep, writers_asleep, TypeOK,
          Ends, Locking
    <2>. QED BY <2>1, <2>2, <2>3, <2>4 DEF Inv
  <1>19. ASSUME NEW p \in Procs, kill(p) PROVE Inv'
    <2>1. TypeOK'
      BY <1>19 DEF kill, Inv, TypeOK, buffer, ends
    <2>2. Ends'
      BY <1>19 DEF kill, Inv, Ends, ends
    <2>3. Locking'
      BY <1>19 DEF kill, Inv, Locking
    <2>4. Reasons'
      BY <1>19
      DEF kill, Inv, Reasons, buffer, ends, full, empty, read_waits,
          readers_asleep, writers_asleep
    <2>. QED BY <2>1, <2>2, <2>3, <2>4 DEF Inv
  <1>20. CASE UNCHANGED vars
    BY <1>20
    DEF vars, Inv, TypeOK, Ends, Locking, Reasons, full, empty, read_waits,
        readers_asleep, writers_asleep
  <1>. QED
    BY <1>1, <1>2, <1>3, <1>4, <1>5, <1>6, <1>7, <1>8, <1>9, <1>10,
       <1>11, <1>12, <1>13, <1>14, <1>15, <1>16, <1>17, <1>18, <1>19, <1>20, Zenon
    DEF Next, pipewrite, piperead, close

(* Inv holds in every state: Init implies it and every step keeps it.     *)
LEMMA Invariance == Spec => []Inv
  <1>1. ASSUME Init PROVE Inv
    <2>. USE PipeAssumption
    <2>1. TypeOK
      BY <1>1 DEF Init, TypeOK, PCs
    <2>2. Ends /\ Locking
      BY <1>1 DEF Init, Ends, Locking, Holding, Writing, Reading, Procs
    <2>3. Reasons
      BY <1>1 DEF Init, Reasons, readers_asleep, writers_asleep
    <2>. QED BY <2>1, <2>2, <2>3 DEF Inv
  <1>. QED BY <1>1, Step, PTL DEF Spec

(* The pipe is freed only when nobody can be in it, and a process that     *)
(* sleeps in it waits for something, for any number of readers and writers *)
(* and any size of the buffer.                                             *)
THEOREM PipeConsistentHolds == Spec => []PipeConsistent
  <1>1. Inv => NoUseAfterFree
    BY PipeAssumption, SMTT(30)
    DEF Inv, TypeOK, Ends, Locking, Holding, Writing, Reading, PCs, Procs, NoUseAfterFree
  <1>2. Inv => NoLostWakeup
    BY PipeAssumption DEF Inv, Locking, Holding, Reasons, NoLostWakeup
  <1>3. Inv => PipeConsistent
    BY <1>1, <1>2 DEF Inv, PipeConsistent
  <1>. QED BY <1>3, Invariance, PTL

-----------------------------------------------------------------------------
(* The bytes of the pipe never exceed its size, and pipewrite()'s test,    *)
(* which compares counters that wrap, is true exactly at that size.        *)
Bounded == Distance(nwrite, nread, Counters) <= PipeSize

(* The counters wrap at a multiple of the ring's size, and count past it.  *)
LEMMA CountersFit ==
  /\ PipeSize \in Nat \ {0} /\ Counters \in Nat \ {0}
  /\ Divides(PipeSize, Counters) /\ Counters > PipeSize
  BY PipeAssumption DEF Divides

(* full says what it means.                                                *)
LEMMA FullIs ==
  ASSUME TypeOK, ~full
  PROVE  Distance(nwrite, nread, Counters) # PipeSize
  <1>. USE CountersFit
  <1>1. PICK a \in 0..Counters - 1, b \in 0..Counters - 1 : a = nwrite /\ b = nread
    BY DEF TypeOK
  <1>2. /\ b <= a => Distance(a, b, Counters) = a - b
        /\ a < b => Distance(a, b, Counters) = a - b + Counters
    BY DistanceIs, Zenon
  <1>3. SUFFICES ASSUME Distance(a, b, Counters) = PipeSize PROVE FALSE
    BY <1>1
  <1>4. CASE b <= a
    <2>1. b + PipeSize = a
      BY <1>2, <1>3, <1>4
    <2>2. (b + PipeSize) % Counters = a
      BY <2>1, ModSmall
    <2>. QED BY <1>1, <2>2 DEF full
  <1>5. CASE a < b
    <2>1. PICK x \in Int : /\ x = b + PipeSize /\ x - Counters = a
                           /\ Counters <= x /\ x < 2 * Counters
      BY <1>2, <1>3, <1>5
    <2>2. x % Counters = a
      BY <2>1, ModOver, Zenon
    <2>. QED BY <1>1, <2>1, <2>2, Zenon DEF full
  <1>. QED BY <1>4, <1>5

(* A byte goes to the end of the queue.                                    *)
LEMMA PutByte ==
  ASSUME Inv, Bounded, NEW p \in Procs, NEW v \in Bytes, pipewrite_byte(p, v)
  PROVE  /\ Bounded'
         /\ Channel!Put
  <1>. USE CountersFit
  <1>1. PICK a \in 0..Counters - 1, b \in 0..Counters - 1 : a = nwrite /\ b = nread
    BY DEF Inv, TypeOK
  <1>2. PICK d \in Nat : d = Distance(a, b, Counters) /\ d < PipeSize /\ d + 1 < Counters
    <2>1. Distance(a, b, Counters) \in Nat /\ Distance(a, b, Counters) <= PipeSize
      BY <1>1, DistanceIs DEF Bounded
    <2>2. ~full
      BY DEF pipewrite_byte
    <2>3. Distance(a, b, Counters) # PipeSize
      BY <1>1, <2>2, FullIs DEF Inv
    <2>. QED BY <2>1, <2>3
  <1>3. nwrite' = Advance(a, Counters) /\ nread' = b
        /\ data' = [data EXCEPT ![Slot(a, PipeSize)] = v]
    BY <1>1, Zenon DEF pipewrite_byte, up, Advance, Slot
  <1>4. Bounded'
    <2>1. Distance(Advance(a, Counters), b, Counters) = d + 1
      BY <1>2, DistancePut
    <2>. QED BY <1>2, <1>3, <2>1 DEF Bounded
  <1>5. data \in [0..PipeSize - 1 -> Bytes]
    BY DEF Inv, TypeOK
  <1>6. Buffered = Content(data, PipeSize, Counters, b, a)
    BY <1>1, Zenon DEF Buffered, Content, Distance, Slot
  <1>7. Buffered' = Content([data EXCEPT ![Slot(a, PipeSize)] = v], PipeSize, Counters, b,
                            Advance(a, Counters))
    <2>1. Buffered' = Content(data', PipeSize, Counters, nread', nwrite')
      BY Zenon DEF Buffered, Content, Distance, Slot
    <2>. QED BY <1>3, <2>1, Zenon
  <1>8. Buffered' = Append(Buffered, v)
    <2>1. Distance(a, b, Counters) < PipeSize /\ Distance(a, b, Counters) + 1 < Counters
      BY <1>2
    <2>2. Puts(data, PipeSize, Counters, b, a, v)
      BY <1>5, <2>1, ContentPut, Zenon
    <2>. QED BY <1>6, <1>7, <2>2, Zenon DEF Puts
  <1>9. Len(Buffered) < PipeSize
    <2>1. Describes(Content(data, PipeSize, Counters, b, a), data, PipeSize, Counters,
                    b, a, Bytes)
      BY <1>5, ContentIs
    <2>. QED BY <1>2, <1>6, <2>1 DEF Describes
  <1>10. readopen = 1 /\ writeopen = 1 /\ UNCHANGED <<readopen, writeopen>>
    BY DEF pipewrite_byte, write_continues, holds, ends, Inv, TypeOK, Ends, Writing
  <1>. QED BY <1>4, <1>8, <1>9, <1>10 DEF Channel!Put

(* The byte that leaves is the first of the queue.                         *)
LEMMA GetByte ==
  ASSUME Inv, Bounded, NEW p \in Procs, pc[p] = "r_copy", ~empty,
         nread' = up(nread), UNCHANGED <<data, nwrite, readopen, writeopen>>
  PROVE  /\ Bounded'
         /\ Channel!Get
  <1>. USE CountersFit
  <1>1. PICK a \in 0..Counters - 1, b \in 0..Counters - 1 : a = nwrite /\ b = nread
    BY DEF Inv, TypeOK
  <1>2. a # b
    BY <1>1 DEF empty
  <1>3. nread' = Advance(b, Counters) /\ nwrite' = a /\ data' = data
    BY <1>1 DEF up, Advance
  <1>4. Bounded'
    <2>1. Distance(a, b, Counters) \in Nat /\ Distance(a, b, Counters) <= PipeSize
      BY <1>1, DistanceIs DEF Bounded
    <2>2. Distance(a, Advance(b, Counters), Counters) = Distance(a, b, Counters) - 1
      BY <1>2, DistanceGet
    <2>. QED BY <1>3, <2>1, <2>2 DEF Bounded
  <1>5. data \in [0..PipeSize - 1 -> Bytes]
    BY DEF Inv, TypeOK
  <1>6. Buffered = Content(data, PipeSize, Counters, b, a)
    BY <1>1, Zenon DEF Buffered, Content, Distance, Slot
  <1>7. Buffered' = Content(data, PipeSize, Counters, Advance(b, Counters), a)
    BY <1>3, Zenon DEF Buffered, Content, Distance, Slot
  <1>8. Buffered # <<>> /\ Buffered' = Tail(Buffered)
    <2>1. Gets(data, PipeSize, Counters, b, a)
      BY <1>2, <1>5, ContentGet, Zenon
    <2>. QED BY <1>6, <1>7, <2>1, Zenon DEF Gets
  <1>9. readopen = 1
    BY DEF Inv, TypeOK, Ends, Reading
  <1>. QED BY <1>4, <1>8, <1>9 DEF Channel!Get

(* Every step of the pipe is a step of the queue or leaves it alone.       *)
LEMMA ChannelStep ==
  Inv /\ Bounded /\ [Next]_vars => Bounded' /\ [Channel!Next]_(Channel!chvars)
  <1>. SUFFICES ASSUME Inv, Bounded, [Next]_vars
                PROVE  Bounded' /\ [Channel!Next]_(Channel!chvars)
    OBVIOUS
  <1>1. ASSUME UNCHANGED <<data, nread, nwrite, readopen, writeopen>>
        PROVE  Bounded' /\ [Channel!Next]_(Channel!chvars)
    <2>1. Bounded'
      BY <1>1 DEF Bounded
    <2>2. Buffered' = Buffered
      BY <1>1 DEF Buffered
    <2>. QED BY <1>1, <2>1, <2>2 DEF Channel!chvars
  <1>2. ASSUME NEW p \in Procs, NEW v \in Bytes, pipewrite_byte(p, v)
        PROVE  Bounded' /\ [Channel!Next]_(Channel!chvars)
    BY <1>2, PutByte DEF Channel!Next
  <1>3. ASSUME NEW p \in Procs, piperead_byte(p) \/ piperead_bad_address(p)
        PROVE  Bounded' /\ [Channel!Next]_(Channel!chvars)
    <2>1. /\ pc[p] = "r_copy" /\ ~empty
          /\ nread' = up(nread) /\ UNCHANGED <<data, nwrite, readopen, writeopen>>
      BY <1>3 DEF piperead_byte, piperead_bad_address, holds, ends
    <2>2. Bounded' /\ Channel!Get
      BY <2>1, GetByte
    <2>. QED BY <2>2 DEF Channel!Next
  <1>4. ASSUME NEW p \in Procs, pipeclose(p)
        PROVE  Bounded' /\ [Channel!Next]_(Channel!chvars)
    <2>1. UNCHANGED <<data, nread, nwrite>>
      BY <1>4 DEF pipeclose, buffer
    <2>2. Bounded' /\ Buffered' = Buffered
      BY <2>1 DEF Bounded, Buffered
    <2>3. CASE pc[p] = "close_w"
      <3>1. writeopen = 1 /\ writeopen' = 0 /\ UNCHANGED readopen
        BY <1>4, <2>3 DEF pipeclose, Inv, Ends
      <3>. QED BY <2>2, <3>1 DEF Channel!Next, Channel!CloseWrite
    <2>4. CASE pc[p] = "close_r"
      <3>1. readopen = 1 /\ readopen' = 0 /\ UNCHANGED writeopen
        BY <1>4, <2>4 DEF pipeclose, Inv, Ends
      <3>. QED BY <2>2, <3>1 DEF Channel!Next, Channel!CloseRead
    <2>. QED BY <1>4, <2>3, <2>4 DEF pipeclose
  <1>5. ASSUME NEW p \in Procs,
               \/ write_acquire(p) \/ pipewrite_fails(p) \/ pipewrite_full(p)
               \/ pipewrite_sleep(p) \/ pipewrite_end(p)
               \/ read_acquire(p) \/ piperead_killed(p) \/ piperead_wait(p)
               \/ piperead_sleep(p) \/ piperead_end(p) \/ close(p) \/ kill(p)
               \/ \E k \in Sizes : write(p, k) \/ read(p, k)
        PROVE  UNCHANGED <<data, nread, nwrite, readopen, writeopen>>
    BY <1>5, Zenon
    DEF write_acquire, pipewrite_fails, pipewrite_full, pipewrite_sleep, pipewrite_end,
        read_acquire, piperead_killed, piperead_wait, piperead_sleep, piperead_end,
        close, close_read, close_write, kill, write, read, buffer, ends
  <1>6. CASE UNCHANGED vars
    BY <1>1, <1>6 DEF vars
  <1>. QED
    BY <1>1, <1>2, <1>3, <1>4, <1>5, <1>6, Zenon DEF Next, pipewrite, piperead

(* The ring buffer with its wrapping counters is a first-in first-out      *)
(* queue of at most PIPESIZE bytes, to which nothing is added once an end  *)
(* is closed, for every PIPESIZE that divides the range of the counters.   *)
THEOREM PipeRefinesByteChannel == Spec => ImplementsByteChannel
  <1>1. Init => Bounded /\ Channel!Init
    <2>. SUFFICES ASSUME Init PROVE Bounded /\ Channel!Init
      OBVIOUS
    <2>. USE CountersFit
    <2>1. nwrite = 0 /\ nread = 0 /\ readopen = 1 /\ writeopen = 1
      BY DEF Init
    <2>2. 0 \in 0..Counters - 1 /\ 0 - 0 = 0
      OBVIOUS
    <2>3. Distance(0, 0, Counters) = 0
      BY <2>2, DistanceIs
    <2>4. (nwrite - nread) % Counters = 0
      BY <2>1, <2>3 DEF Distance
    <2>5. Buffered = <<>>
      BY <2>4 DEF Buffered
    <2>. QED BY <2>1, <2>3, <2>5 DEF Bounded, Channel!Init
  <1>. QED
    BY <1>1, Invariance, ChannelStep, PTL DEF Spec, ImplementsByteChannel, Channel!Spec

=============================================================================
