------------------------------- MODULE BCache -------------------------------
(***************************************************************************)
(* The buffer cache, kernel/bio.c, with the sleep-lock of each buffer.     *)
(*                                                                         *)
(* Processes read blocks with bread(), modify them while they hold the     *)
(* buffer, write them with bwrite() or leave that to the log (bpin(), and  *)
(* bunpin() once they are on disk), and give the buffer back with          *)
(* brelse().  bcache.lock is not held across acquiresleep(), nor between   *)
(* the two halves of brelse(), so each of those is an action of its own.   *)
(***************************************************************************)
EXTENDS Naturals, FiniteSets

CONSTANTS Procs,    \* processes that use buffers
          Blocks,   \* block numbers
          Values,   \* contents of a block
          NBuf,     \* NBUF
          NoBlock,  \* identity of a buffer never used
          NoProc,   \* owner of a free sleep-lock
          MaxPins   \* bound on blocks pinned at once (the log's capacity)

Bufs == 1..NBuf

ASSUME BCacheAssumption ==
    /\ NBuf \in Nat \ {0}
    /\ IsFiniteSet(Procs)
    /\ NoBlock \notin Blocks
    /\ NoProc \notin Procs
    /\ MaxPins \in Nat

VARIABLES
    blockno, valid, refcnt, data,  \* fields of each buffer
    owner,                         \* holder of each buffer's sleep-lock
    lru,                           \* place of each buffer in the list: head.next is 1
    disk,                          \* contents of each block on disk
    pc, want, buf,                 \* each process: where it is, block asked for, buffer got
    pinned,                        \* blocks the log has pinned
    latest                         \* last contents given to each block

bufvars  == <<blockno, valid, refcnt, lru>>
vars     == <<blockno, valid, refcnt, data, owner, lru, disk, pc, want, buf, pinned, latest>>

TypeOK ==
    /\ blockno \in [Bufs -> Blocks \cup {NoBlock}]
    /\ valid \in [Bufs -> {0, 1}]
    /\ refcnt \in [Bufs -> Nat]
    /\ data \in [Bufs -> Values]
    /\ owner \in [Bufs -> Procs \cup {NoProc}]
    /\ lru \in [Bufs -> Bufs]
    /\ \A b, c \in Bufs : lru[b] = lru[c] => b = c
    /\ disk \in [Blocks -> Values]
    /\ pc \in [Procs -> {"idle", "acquire", "locked", "unref"}]
    /\ want \in [Procs -> Blocks \cup {NoBlock}]
    /\ buf \in [Procs -> Bufs]
    /\ pinned \in SUBSET Blocks
    /\ latest \in [Blocks -> Values]

\* binit() pushes the buffers one after the other at the head of the list.
Init ==
    /\ blockno = [b \in Bufs |-> NoBlock]
    /\ valid = [b \in Bufs |-> 0]
    /\ refcnt = [b \in Bufs |-> 0]
    /\ data \in {[b \in Bufs |-> v] : v \in Values}
    /\ owner = [b \in Bufs |-> NoProc]
    /\ lru = [b \in Bufs |-> NBuf + 1 - b]
    /\ disk \in [Blocks -> Values]
    /\ pc = [p \in Procs |-> "idle"]
    /\ want = [p \in Procs |-> NoBlock]
    /\ buf = [p \in Procs |-> 1]
    /\ pinned = {}
    /\ latest = disk

-----------------------------------------------------------------------------
cached(k, b) == blockno[b] = k

\* bget() finds the block: take a reference, then go for the sleep-lock.
bget_hit(p, k) ==
    /\ pc[p] = "idle"
    /\ \E b \in Bufs :
         /\ cached(k, b)
         /\ \A c \in Bufs : cached(k, c) => lru[b] <= lru[c]
         /\ refcnt' = [refcnt EXCEPT ![b] = @ + 1]
         /\ buf' = [buf EXCEPT ![p] = b]
    /\ want' = [want EXCEPT ![p] = k]
    /\ pc' = [pc EXCEPT ![p] = "acquire"]
    /\ UNCHANGED <<blockno, valid, data, owner, lru, disk, pinned, latest>>

\* Mutant: bget() looks at the sleep-lock instead of the reference count.
recyclable_unlocked(b) == owner[b] = NoProc /\ \A c \in Bufs : owner[c] = NoProc => lru[c] <= lru[b]

\* The least recently used buffer without references.
recyclable(b) == refcnt[b] = 0 /\ \A c \in Bufs : refcnt[c] = 0 => lru[c] <= lru[b]

\* Mutants: bget() recycles a buffer without having looked for the block; it
\* leaves the old contents valid.
bget_miss_unchecked(p, k) ==
    /\ pc[p] = "idle"
    /\ \E b \in Bufs :
         /\ recyclable(b)
         /\ blockno' = [blockno EXCEPT ![b] = k]
         /\ valid' = [valid EXCEPT ![b] = 0]
         /\ refcnt' = [refcnt EXCEPT ![b] = 1]
         /\ buf' = [buf EXCEPT ![p] = b]
    /\ want' = [want EXCEPT ![p] = k]
    /\ pc' = [pc EXCEPT ![p] = "acquire"]
    /\ UNCHANGED <<data, owner, lru, disk, pinned, latest>>

bget_miss_stale(p, k) ==
    /\ pc[p] = "idle"
    /\ \A b \in Bufs : ~cached(k, b)
    /\ \E b \in Bufs :
         /\ recyclable(b)
         /\ blockno' = [blockno EXCEPT ![b] = k]
         /\ refcnt' = [refcnt EXCEPT ![b] = 1]
         /\ buf' = [buf EXCEPT ![p] = b]
    /\ want' = [want EXCEPT ![p] = k]
    /\ pc' = [pc EXCEPT ![p] = "acquire"]
    /\ UNCHANGED <<valid, data, owner, lru, disk, pinned, latest>>

\* bget() does not find the block: recycle a buffer.
bget_miss(p, k) ==
    /\ pc[p] = "idle"
    /\ \A b \in Bufs : ~cached(k, b)
    /\ \E b \in Bufs :
         /\ recyclable(b)
         /\ blockno' = [blockno EXCEPT ![b] = k]
         /\ valid' = [valid EXCEPT ![b] = 0]
         /\ refcnt' = [refcnt EXCEPT ![b] = 1]
         /\ buf' = [buf EXCEPT ![p] = b]
    /\ want' = [want EXCEPT ![p] = k]
    /\ pc' = [pc EXCEPT ![p] = "acquire"]
    /\ UNCHANGED <<data, owner, lru, disk, pinned, latest>>

\* bget() panics: every buffer is referenced.
bget_panics(k) == /\ \A b \in Bufs : ~cached(k, b)
                  /\ \A b \in Bufs : ~recyclable(b)

\* acquiresleep(), and the rest of bread(): fetch the block if need be.
bread(p) ==
    /\ pc[p] = "acquire"
    /\ owner[buf[p]] = NoProc
    /\ owner' = [owner EXCEPT ![buf[p]] = p]
    /\ data' = IF valid[buf[p]] = 1 THEN data
               ELSE [data EXCEPT ![buf[p]] = disk[blockno[buf[p]]]]
    /\ valid' = [valid EXCEPT ![buf[p]] = 1]
    /\ pc' = [pc EXCEPT ![p] = "locked"]
    /\ UNCHANGED <<blockno, refcnt, lru, disk, want, buf, pinned, latest>>

\* The holder changes the contents.
modify(p, v) ==
    /\ pc[p] = "locked"
    /\ data' = [data EXCEPT ![buf[p]] = v]
    /\ latest' = [latest EXCEPT ![want[p]] = v]
    /\ UNCHANGED <<blockno, valid, refcnt, owner, lru, disk, pc, want, buf, pinned>>

bwrite(p) ==
    /\ pc[p] = "locked"
    /\ disk' = [disk EXCEPT ![blockno[buf[p]]] = data[buf[p]]]
    /\ UNCHANGED <<blockno, valid, refcnt, data, owner, lru, pc, want, buf, pinned, latest>>

\* log_write() pins a block it has not pinned yet.
bpin(p) ==
    /\ pc[p] = "locked"
    /\ want[p] \notin pinned
    /\ Cardinality(pinned) < MaxPins
    /\ refcnt' = [refcnt EXCEPT ![buf[p]] = @ + 1]
    /\ pinned' = pinned \cup {want[p]}
    /\ UNCHANGED <<blockno, valid, data, owner, lru, disk, pc, want, buf, latest>>

\* A block whose contents are on disk as they are in the buffer.
clean(p) == disk[want[p]] = data[buf[p]]

\* install_trans() unpins a block it has just written.
bunpin(p) ==
    /\ pc[p] = "locked"
    /\ want[p] \in pinned
    /\ clean(p)
    /\ refcnt' = [refcnt EXCEPT ![buf[p]] = @ - 1]
    /\ pinned' = pinned \ {want[p]}
    /\ UNCHANGED <<blockno, valid, data, owner, lru, disk, pc, want, buf, latest>>

\* First half of brelse(): releasesleep().  A process does not let go of a
\* block whose contents exist only in the buffer unless the log has pinned it.
brelse_unlock(p) ==
    /\ pc[p] = "locked"
    /\ clean(p) \/ want[p] \in pinned
    /\ owner' = [owner EXCEPT ![buf[p]] = NoProc]
    /\ pc' = [pc EXCEPT ![p] = "unref"]
    /\ UNCHANGED <<bufvars, data, disk, want, buf, pinned, latest>>

move_to_head(b) ==
    [c \in Bufs |-> IF c = b THEN 1 ELSE IF lru[c] < lru[b] THEN lru[c] + 1 ELSE lru[c]]

\* Second half of brelse(): drop the reference.  The process forgets its
\* buffer (want and buf take the values they had at first).
brelse_unref(p) ==
    /\ pc[p] = "unref"
    /\ refcnt' = [refcnt EXCEPT ![buf[p]] = @ - 1]
    /\ lru' = IF refcnt[buf[p]] = 1 THEN move_to_head(buf[p]) ELSE lru
    /\ pc' = [pc EXCEPT ![p] = "idle"]
    /\ want' = [want EXCEPT ![p] = NoBlock]
    /\ buf' = [buf EXCEPT ![p] = 1]
    /\ UNCHANGED <<blockno, valid, data, owner, disk, pinned, latest>>

Next ==
    \E p \in Procs :
        \/ \E k \in Blocks : bget_hit(p, k) \/ bget_miss(p, k)
        \/ bread(p)
        \/ \E v \in Values : modify(p, v)
        \/ bwrite(p)
        \/ bpin(p)
        \/ bunpin(p)
        \/ brelse_unlock(p)
        \/ brelse_unref(p)

Spec == Init /\ [][Next]_vars

-----------------------------------------------------------------------------
(* Properties *)

\* Processes that have taken a reference to b and not dropped it.
Users(b) == {p \in Procs : pc[p] # "idle" /\ buf[p] = b}
Pins(b) == IF blockno[b] \in pinned THEN 1 ELSE 0

\* A block is cached in one buffer at most: bget() never makes a second copy.
OneBufferPerBlock ==
    \A b, c \in Bufs : blockno[b] = blockno[c] /\ blockno[b] # NoBlock => b = c

\* A reference count is exactly the number of processes between bget() and the
\* end of brelse(), plus one if the log has pinned the block.
RefcntExact == \A b \in Bufs : refcnt[b] = Cardinality(Users(b)) + Pins(b)

\* From bget() on, waiting for the sleep-lock included, a process's buffer stays
\* the buffer of the block it asked for: bget() of others cannot recycle it.
BufferKeepsBlock == \A p \in Procs : pc[p] # "idle" => blockno[buf[p]] = want[p]

\* A process that holds a block sees the last contents anybody gave it, even
\* if the buffer was recycled in between.
SeesLatest == \A p \in Procs : pc[p] = "locked" => data[buf[p]] = latest[want[p]]

\* With a buffer per process on top of those the log may pin, bget() always
\* finds one.
NoPanic == \A p \in Procs, k \in Blocks : pc[p] = "idle" => ~bget_panics(k)

\* What bget(), brelse(), bpin() and bunpin() keep true of the buffers together:
\* their types, the order of the list, one buffer per block, exact counts, and so
\* a buffer for every bget().
CacheConsistent == TypeOK /\ OneBufferPerBlock /\ RefcntExact /\ NoPanic

=============================================================================
