---------------------------- MODULE BCacheProofs ----------------------------
(***************************************************************************)
(* Proofs about the buffer cache, for any number of processes, blocks and  *)
(* buffers: a buffer keeps its block while anybody uses it, and whoever    *)
(* holds a block sees its latest contents.                                 *)
(***************************************************************************)
EXTENDS BCache, FiniteSetTheorems, TLAPS

-----------------------------------------------------------------------------
(* The inductive invariant *)

\* A sleep-lock is held by the process whose bread() returned the buffer.
Owners ==
    /\ \A b \in Bufs : owner[b] # NoProc => pc[owner[b]] = "locked" /\ buf[owner[b]] = b
    /\ \A p \in Procs : pc[p] = "locked" => owner[buf[p]] = p /\ valid[buf[p]] = 1

\* A process asks for a block, and what the log has pinned is cached.
Asked ==
    /\ \A p \in Procs : pc[p] # "idle" => want[p] \in Blocks
    /\ \A k \in pinned : \E b \in Bufs : blockno[b] = k

\* A valid buffer holds the latest contents of its block; they are on disk too
\* unless the log has pinned the block or somebody is at work on it.  A block
\* without a valid buffer is up to date on disk.
Contents ==
    /\ \A b \in Bufs : valid[b] = 1 /\ blockno[b] \in Blocks =>
         /\ data[b] = latest[blockno[b]]
         /\ disk[blockno[b]] = data[b] \/ blockno[b] \in pinned \/ owner[b] # NoProc
    /\ \A k \in Blocks :
         (\A b \in Bufs : blockno[b] = k => valid[b] = 0) => disk[k] = latest[k]

\* The log's capacity bounds what it pins.
PinsBounded == IsFiniteSet(pinned) /\ Cardinality(pinned) <= MaxPins

Inv ==
    /\ TypeOK /\ OneBufferPerBlock /\ RefcntExact /\ BufferKeepsBlock
    /\ Owners /\ Asked /\ Contents /\ PinsBounded

-----------------------------------------------------------------------------
\* The processes that use a buffer are finitely many.
LEMMA UsersFinite ==
  ASSUME NEW b \in Bufs
  PROVE  IsFiniteSet(Users(b)) /\ Cardinality(Users(b)) \in Nat
  <1>1. Users(b) \in SUBSET Procs
    BY DEF Users
  <1>. QED BY <1>1, BCacheAssumption, FS_Subset, FS_CardinalityType

\* A buffer without references has no user and is not pinned.
LEMMA Unreferenced ==
  ASSUME TypeOK, RefcntExact, NEW b \in Bufs, refcnt[b] = 0
  PROVE  blockno[b] \notin pinned /\ \A p \in Procs : pc[p] # "idle" => buf[p] # b
  <1>1. Cardinality(Users(b)) + Pins(b) = 0 /\ Cardinality(Users(b)) \in Nat
    BY UsersFinite DEF RefcntExact
  <1>2. Pins(b) \in {0, 1}
    BY DEF Pins
  <1>3. Cardinality(Users(b)) = 0 /\ Pins(b) = 0
    BY <1>1, <1>2
  <1>4. Users(b) = {}
    BY <1>3, UsersFinite, FS_EmptySet
  <1>. QED BY <1>3, <1>4 DEF Users, Pins

\* A buffer that a process uses has a reference.
LEMMA Referenced ==
  ASSUME TypeOK, RefcntExact, NEW p \in Procs, pc[p] # "idle"
  PROVE  refcnt[buf[p]] >= 1
  <1>1. buf[p] \in Bufs
    BY DEF TypeOK
  <1>2. Users(buf[p]) # {}
    BY DEF Users
  <1>3. Cardinality(Users(buf[p])) # 0 /\ Cardinality(Users(buf[p])) \in Nat
    BY <1>1, <1>2, UsersFinite, FS_EmptySet
  <1>4. Pins(buf[p]) \in {0, 1}
    BY DEF Pins
  <1>. QED BY <1>1, <1>3, <1>4 DEF RefcntExact

\* A process that takes a buffer adds itself to its users.
LEMMA OneUserMore ==
  ASSUME TypeOK, NEW p \in Procs, NEW b \in Bufs, pc[p] = "idle",
         buf' = [buf EXCEPT ![p] = b], pc' = [pc EXCEPT ![p] = "acquire"]
  PROVE  /\ Cardinality(Users(b))' = Cardinality(Users(b)) + 1
         /\ \A c \in Bufs \ {b} : Users(c)' = Users(c)
  <1>1. Users(b)' = Users(b) \cup {p} /\ p \notin Users(b)
    BY DEF TypeOK, Users
  <1>2. \A c \in Bufs \ {b} : Users(c)' = Users(c)
    BY DEF TypeOK, Users
  <1>. QED BY <1>1, <1>2, UsersFinite, FS_AddElement, ZenonT(40)

\* The place of the buffer at x once the one at z has gone to the head.
Moved(x, z) == IF x = z THEN 1 ELSE IF x < z THEN x + 1 ELSE x

\* Different places stay different.
LEMMA MovedApart ==
  ASSUME NEW x \in Nat, NEW y \in Nat, NEW z \in Nat, x >= 1, y >= 1, z >= 1,
         Moved(x, z) = Moved(y, z)
  PROVE  x = y
  BY DEF Moved

-----------------------------------------------------------------------------
\* Every step keeps Inv: bget(), brelse(), bpin() and bunpin() count what they do,
\* and only a buffer without references gets another block.
LEMMA Step == Inv /\ [Next]_vars => Inv'
  <1>. SUFFICES ASSUME Inv, [Next]_vars PROVE Inv'
    OBVIOUS
  <1>. USE BCacheAssumption
  <1>1. ASSUME NEW p \in Procs, NEW k \in Blocks, bget_hit(p, k) PROVE Inv'
    <2>1. PICK b \in Bufs : /\ blockno[b] = k
                            /\ refcnt' = [refcnt EXCEPT ![b] = @ + 1]
                            /\ buf' = [buf EXCEPT ![p] = b]
      BY <1>1, Zenon DEF bget_hit, cached
    <2>2. TypeOK'
      BY <1>1, <2>1 DEF bget_hit, Inv, TypeOK
    <2>3. RefcntExact'
      <3>1. /\ Cardinality(Users(b))' = Cardinality(Users(b)) + 1
            /\ \A c \in Bufs \ {b} : Users(c)' = Users(c)
        BY <1>1, <2>1, OneUserMore, Zenon DEF bget_hit, Inv
      <3>2. \A c \in Bufs : Pins(c)' = Pins(c) /\ Pins(c) \in {0, 1}
        BY <1>1 DEF bget_hit, Pins
      <3>. QED BY <2>1, <3>1, <3>2, UsersFinite DEF Inv, TypeOK, RefcntExact
    <2>4. BufferKeepsBlock' /\ Owners' /\ Asked'
      BY <1>1, <2>1 DEF bget_hit, Inv, TypeOK, BufferKeepsBlock, Owners, Asked
    <2>5. UNCHANGED <<blockno, valid, data, owner, disk, latest, pinned>>
      BY <1>1 DEF bget_hit
    <2>. QED BY <2>2, <2>3, <2>4, <2>5 DEF Inv, OneBufferPerBlock, Contents, PinsBounded
  <1>2. ASSUME NEW p \in Procs, NEW k \in Blocks, bget_miss(p, k) PROVE Inv'
    <2>1. PICK b \in Bufs : /\ refcnt[b] = 0
                            /\ blockno' = [blockno EXCEPT ![b] = k]
                            /\ valid' = [valid EXCEPT ![b] = 0]
                            /\ refcnt' = [refcnt EXCEPT ![b] = 1]
                            /\ buf' = [buf EXCEPT ![p] = b]
      BY <1>2, Zenon DEF bget_miss, recyclable
    <2>2. \A c \in Bufs : blockno[c] # k
      BY <1>2 DEF bget_miss, cached
    <2>3. /\ blockno[b] \notin pinned
          /\ \A q \in Procs : pc[q] # "idle" => buf[q] # b
      BY <2>1, Unreferenced DEF Inv
    <2>4. owner[b] = NoProc
      BY <2>3 DEF Inv, TypeOK, Owners
    <2>5. TypeOK'
      BY <1>2, <2>1 DEF bget_miss, Inv, TypeOK
    <2>6. OneBufferPerBlock'
      BY <2>1, <2>2 DEF Inv, TypeOK, OneBufferPerBlock
    <2>7. RefcntExact'
      <3>1. /\ Cardinality(Users(b))' = Cardinality(Users(b)) + 1
            /\ \A c \in Bufs \ {b} : Users(c)' = Users(c)
        BY <1>2, <2>1, OneUserMore, Zenon DEF bget_miss, Inv
      <3>2. Users(b) = {}
        BY <2>3 DEF Users
      <3>3. Pins(b)' = 0
        BY <1>2, <2>1, <2>2 DEF bget_miss, Inv, TypeOK, Asked, Pins
      <3>4. \A c \in Bufs \ {b} : Pins(c)' = Pins(c)
        BY <1>2, <2>1 DEF bget_miss, Inv, TypeOK, Pins
      <3>. QED BY <2>1, <3>1, <3>2, <3>3, <3>4, FS_EmptySet DEF Inv, TypeOK, RefcntExact
    <2>8. BufferKeepsBlock'
      BY <1>2, <2>1, <2>3 DEF bget_miss, Inv, TypeOK, BufferKeepsBlock
    <2>9. Owners'
      BY <1>2, <2>1, <2>3, <2>4 DEF bget_miss, Inv, TypeOK, Owners
    <2>10. Asked'
      BY <1>2, <2>1, <2>3 DEF bget_miss, Inv, TypeOK, Asked
    <2>11. Contents'
      <3>1. ASSUME NEW c \in Bufs, valid'[c] = 1, blockno'[c] \in Blocks
            PROVE  /\ data'[c] = latest'[blockno'[c]]
                   /\ \/ disk'[blockno'[c]] = data'[c]
                      \/ blockno'[c] \in pinned' \/ owner'[c] # NoProc
        BY <1>2, <2>1, <3>1 DEF bget_miss, Inv, TypeOK, Contents
      <3>2. ASSUME NEW j \in Blocks, \A c \in Bufs : blockno'[c] = j => valid'[c] = 0
            PROVE  disk'[j] = latest'[j]
        <4>1. CASE j = blockno[b] /\ valid[b] = 1
          BY <1>2, <2>3, <2>4, <4>1 DEF bget_miss, Inv, Contents
        <4>2. CASE ~(j = blockno[b] /\ valid[b] = 1)
          <5>1. \A c \in Bufs : blockno[c] = j => valid[c] = 0
            BY <2>1, <3>2, <4>2 DEF Inv, TypeOK
          <5>. QED BY <1>2, <5>1 DEF bget_miss, Inv, Contents
        <4>. QED BY <4>1, <4>2
      <3>. QED BY <3>1, <3>2 DEF Contents
    <2>12. PinsBounded'
      BY <1>2 DEF bget_miss, Inv, PinsBounded
    <2>. QED
      BY <2>5, <2>6, <2>7, <2>8, <2>9, <2>10, <2>11, <2>12 DEF Inv
  <1>3. ASSUME NEW p \in Procs, bread(p) PROVE Inv'
    <2>1. TypeOK'
      BY <1>3 DEF bread, Inv, TypeOK, BufferKeepsBlock, Asked
    <2>2. \A b \in Bufs : Users(b)' = Users(b) /\ Pins(b)' = Pins(b)
      BY <1>3 DEF bread, Inv, TypeOK, Users, Pins
    <2>3. RefcntExact'
      BY <1>3, <2>2 DEF bread, Inv, RefcntExact
    <2>4. BufferKeepsBlock' /\ Asked'
      BY <1>3 DEF bread, Inv, TypeOK, BufferKeepsBlock, Asked
    <2>5. Owners'
      BY <1>3 DEF bread, Inv, TypeOK, Owners
    <2>6. Contents'
      BY <1>3 DEF bread, Inv, TypeOK, BufferKeepsBlock, Asked, OneBufferPerBlock, Contents
    <2>7. UNCHANGED <<blockno, pinned>>
      BY <1>3 DEF bread
    <2>. QED
      BY <2>1, <2>3, <2>4, <2>5, <2>6, <2>7 DEF Inv, OneBufferPerBlock, PinsBounded
  <1>4. ASSUME NEW p \in Procs, NEW v \in Values, modify(p, v) PROVE Inv'
    <2>1. buf[p] \in Bufs /\ want[p] \in Blocks /\ blockno[buf[p]] = want[p]
      BY <1>4 DEF modify, Inv, TypeOK, BufferKeepsBlock, Asked
    <2>2. TypeOK'
      BY <1>4, <2>1 DEF modify, Inv, TypeOK
    <2>3. Contents'
      BY <1>4, <2>1 DEF modify, Inv, TypeOK, Owners, OneBufferPerBlock, Contents
    <2>4. UNCHANGED <<blockno, valid, refcnt, owner, pc, want, buf, pinned>>
      BY <1>4, SMTT(30) DEF modify
    <2>. QED
      BY <2>2, <2>3, <2>4
      DEF Inv, OneBufferPerBlock, RefcntExact, Users, Pins, BufferKeepsBlock, Owners,
          Asked, PinsBounded
  <1>5. ASSUME NEW p \in Procs, bwrite(p) PROVE Inv'
    <2>1. buf[p] \in Bufs /\ want[p] \in Blocks /\ blockno[buf[p]] = want[p]
      BY <1>5 DEF bwrite, Inv, TypeOK, BufferKeepsBlock, Asked
    <2>2. TypeOK'
      BY <1>5, <2>1 DEF bwrite, Inv, TypeOK
    <2>3. Contents'
      BY <1>5, <2>1 DEF bwrite, Inv, TypeOK, Owners, OneBufferPerBlock, Contents
    <2>4. UNCHANGED <<blockno, valid, refcnt, owner, pc, want, buf, pinned>>
      BY <1>5, SMTT(30) DEF bwrite
    <2>. QED
      BY <2>2, <2>3, <2>4
      DEF Inv, OneBufferPerBlock, RefcntExact, Users, Pins, BufferKeepsBlock, Owners,
          Asked, PinsBounded
  <1>6. ASSUME NEW p \in Procs, bpin(p) PROVE Inv'
    <2>1. buf[p] \in Bufs /\ want[p] \in Blocks /\ blockno[buf[p]] = want[p]
      BY <1>6 DEF bpin, Inv, TypeOK, BufferKeepsBlock, Asked
    <2>2. TypeOK'
      BY <1>6, <2>1 DEF bpin, Inv, TypeOK
    <2>3. RefcntExact'
      <3>1. \A b \in Bufs : Users(b)' = Users(b)
        BY <1>6 DEF bpin, Users
      <3>2. Pins(buf[p])' = Pins(buf[p]) + 1
        BY <1>6, <2>1 DEF bpin, Pins
      <3>3. \A b \in Bufs \ {buf[p]} : Pins(b)' = Pins(b)
        BY <1>6, <2>1 DEF bpin, Inv, TypeOK, OneBufferPerBlock, Pins
      <3>4. Pins(buf[p]) \in {0, 1}
        BY DEF Pins
      <3>. QED
        BY <1>6, <2>1, <3>1, <3>2, <3>3, <3>4, UsersFinite
        DEF bpin, Inv, TypeOK, RefcntExact
    <2>4. Asked' /\ Contents'
      BY <1>6, <2>1 DEF bpin, Inv, TypeOK, Asked, Contents
    <2>5. PinsBounded'
      <3>1. IsFiniteSet(pinned) /\ Cardinality(pinned) \in Nat
        BY FS_CardinalityType DEF Inv, PinsBounded
      <3>2. /\ IsFiniteSet(pinned \cup {want[p]})
            /\ Cardinality(pinned \cup {want[p]}) = Cardinality(pinned) + 1
        BY <1>6, <3>1, FS_AddElement, Zenon DEF bpin
      <3>3. Cardinality(pinned) + 1 <= MaxPins /\ pinned' = pinned \cup {want[p]}
        BY <1>6, <3>1 DEF bpin
      <3>. QED BY <3>1, <3>2, <3>3, FS_CardinalityType DEF PinsBounded
    <2>6. UNCHANGED <<blockno, valid, owner, pc, want, buf>>
      BY <1>6 DEF bpin
    <2>. QED
      BY <2>2, <2>3, <2>4, <2>5, <2>6 DEF Inv, OneBufferPerBlock, BufferKeepsBlock, Owners
  <1>7. ASSUME NEW p \in Procs, bunpin(p) PROVE Inv'
    <2>1. buf[p] \in Bufs /\ want[p] \in Blocks /\ blockno[buf[p]] = want[p]
      BY <1>7 DEF bunpin, Inv, TypeOK, BufferKeepsBlock, Asked
    <2>2. refcnt[buf[p]] >= 1
      BY <1>7, Referenced DEF bunpin, Inv
    <2>3. TypeOK'
      BY <1>7, <2>1, <2>2 DEF bunpin, Inv, TypeOK
    <2>4. RefcntExact'
      <3>1. \A b \in Bufs : Users(b)' = Users(b)
        BY <1>7 DEF bunpin, Users
      <3>2. \A b \in Bufs \ {buf[p]} : Pins(b)' = Pins(b)
        BY <1>7, <2>1 DEF bunpin, Inv, TypeOK, OneBufferPerBlock, Pins
      <3>. QED
        <4>1. refcnt' = [refcnt EXCEPT ![buf[p]] = @ - 1] /\ refcnt \in [Bufs -> Nat]
              /\ \A b \in Bufs : refcnt[b] = Cardinality(Users(b)) + Pins(b)
          BY <1>7 DEF bunpin, Inv, TypeOK, RefcntExact
        <4>2. ASSUME NEW b \in Bufs
              PROVE  refcnt'[b] = Cardinality(Users(b)') + Pins(b)'
          <5>1. PICK m \in Nat : m = Cardinality(Users(b)) /\ m = Cardinality(Users(b)')
            BY <3>1, UsersFinite, Zenon
          <5>2. CASE b = buf[p]
            <6>1. Pins(b)' = 0 /\ Pins(b) = 1
              BY <1>7, <2>1, <5>2 DEF bunpin, Pins
            <6>2. refcnt'[b] = refcnt[b] - 1 /\ refcnt[b] = m + Pins(b)
              BY <4>1, <5>1, <5>2, Zenon
            <6>. QED BY <5>1, <6>1, <6>2
          <5>3. CASE b # buf[p]
            <6>1. refcnt'[b] = refcnt[b] /\ Pins(b)' = Pins(b)
              BY <3>2, <4>1, <5>3, Zenon
            <6>. QED BY <4>1, <5>1, <6>1, Zenon
          <5>. QED BY <5>2, <5>3
        <4>. QED BY <4>2 DEF RefcntExact
    <2>5. Asked' /\ Contents'
      BY <1>7, <2>1
      DEF bunpin, clean, Inv, TypeOK, OneBufferPerBlock, Owners, Asked, Contents
    <2>6. PinsBounded'
      BY <1>7, FS_RemoveElement, FS_CardinalityType DEF bunpin, Inv, PinsBounded
    <2>7. UNCHANGED <<blockno, valid, owner, pc, want, buf>>
      BY <1>7 DEF bunpin
    <2>. QED
      BY <2>3, <2>4, <2>5, <2>6, <2>7 DEF Inv, OneBufferPerBlock, BufferKeepsBlock, Owners
  <1>8. ASSUME NEW p \in Procs, brelse_unlock(p) PROVE Inv'
    <2>1. buf[p] \in Bufs /\ want[p] \in Blocks /\ blockno[buf[p]] = want[p]
      BY <1>8 DEF brelse_unlock, Inv, TypeOK, BufferKeepsBlock, Asked
    <2>2. TypeOK'
      BY <1>8 DEF brelse_unlock, bufvars, Inv, TypeOK
    <2>3. \A b \in Bufs : Users(b)' = Users(b) /\ Pins(b)' = Pins(b)
      BY <1>8 DEF brelse_unlock, bufvars, Inv, TypeOK, Users, Pins
    <2>4. RefcntExact'
      <3>1. refcnt' = refcnt
        BY <1>8, Zenon DEF brelse_unlock, bufvars
      <3>. QED BY <2>3, <3>1, Zenon DEF Inv, RefcntExact
    <2>5. Owners'
      BY <1>8 DEF brelse_unlock, bufvars, Inv, TypeOK, Owners
    <2>6. Contents'
      BY <1>8, <2>1 DEF brelse_unlock, bufvars, clean, Inv, TypeOK, Contents
    <2>7. BufferKeepsBlock' /\ Asked'
      BY <1>8 DEF brelse_unlock, bufvars, Inv, TypeOK, BufferKeepsBlock, Asked
    <2>8. UNCHANGED <<blockno, pinned>>
      BY <1>8 DEF brelse_unlock, bufvars
    <2>. QED
      BY <2>2, <2>4, <2>5, <2>6, <2>7, <2>8 DEF Inv, OneBufferPerBlock, PinsBounded
  <1>9. ASSUME NEW p \in Procs, brelse_unref(p) PROVE Inv'
    <2>1. buf[p] \in Bufs /\ refcnt[buf[p]] >= 1
      BY <1>9, Referenced DEF brelse_unref, Inv, TypeOK
    <2>2. lru' \in [Bufs -> Bufs] /\ \A b, c \in Bufs : lru'[b] = lru'[c] => b = c
      <3>1. CASE refcnt[buf[p]] # 1
        BY <1>9, <3>1 DEF brelse_unref, Inv, TypeOK
      <3>2. CASE refcnt[buf[p]] = 1
        <4>1. lru' = move_to_head(buf[p])
          BY <1>9, <3>2 DEF brelse_unref
        <4>2. \A c \in Bufs : lru[c] \in Nat /\ lru[c] >= 1 /\ lru[c] <= NBuf
          <5>1. lru \in [Bufs -> Bufs]
            BY DEF Inv, TypeOK
          <5>. QED BY <5>1 DEF Bufs
        <4>3. \A c \in Bufs : lru[c] < lru[buf[p]] => lru[c] + 1 \in Bufs
          BY <2>1, <4>2 DEF Bufs
        <4>4. 1 \in Bufs
          BY DEF Bufs
        <4>5. lru' \in [Bufs -> Bufs]
          BY <4>1, <4>3, <4>4 DEF move_to_head, Inv, TypeOK
        <4>6. ASSUME NEW b \in Bufs, NEW c \in Bufs, lru'[b] = lru'[c] PROVE b = c
          <5>1. /\ lru[b] = lru[buf[p]] <=> b = buf[p]
                /\ lru[c] = lru[buf[p]] <=> c = buf[p]
                /\ lru[b] = lru[c] => b = c
            BY <2>1 DEF Inv, TypeOK
          <5>2. /\ lru'[b] = Moved(lru[b], lru[buf[p]])
                /\ lru'[c] = Moved(lru[c], lru[buf[p]])
            BY <4>1, <5>1 DEF move_to_head, Moved
          <5>3. lru[b] = lru[c]
            BY <2>1, <4>2, <4>6, <5>2, MovedApart, Zenon
          <5>. QED BY <5>1, <5>3
        <4>. QED BY <4>5, <4>6
      <3>. QED BY <3>1, <3>2
    <2>3. TypeOK'
      <3>1. refcnt[buf[p]] - 1 \in Nat
        BY <2>1 DEF Inv, TypeOK
      <3>2. 1 \in Bufs
        BY DEF Bufs
      <3>3. refcnt' \in [Bufs -> Nat]
        BY <1>9, <3>1 DEF brelse_unref, Inv, TypeOK
      <3>. QED BY <1>9, <2>2, <3>2, <3>3 DEF brelse_unref, Inv, TypeOK
    <2>4. RefcntExact'
      <3>1. PICK b \in Bufs : b = buf[p]
        BY <2>1, Zenon
      <3>2. Users(b)' = Users(b) \ {p} /\ p \in Users(b)
        BY <1>9, <3>1, SMTT(30) DEF brelse_unref, Inv, TypeOK, Users
      <3>3. Cardinality(Users(b))' = Cardinality(Users(b)) - 1
        <4>1. PICK S : S = Users(b) /\ IsFiniteSet(S) /\ p \in S
          BY <3>2, UsersFinite
        <4>2. Cardinality(S \ {p}) = Cardinality(S) - 1
          BY <4>1, FS_RemoveElement, Zenon
        <4>. QED BY <3>2, <4>1, <4>2, Zenon
      <3>4. \A c \in Bufs \ {b} : Users(c)' = Users(c)
        BY <1>9, <3>1 DEF brelse_unref, Inv, TypeOK, Users
      <3>5. \A c \in Bufs : Pins(c)' = Pins(c) /\ Pins(c) \in {0, 1}
        BY <1>9 DEF brelse_unref, Pins
      <3>. QED
        <4>1. refcnt' = [refcnt EXCEPT ![b] = @ - 1] /\ refcnt \in [Bufs -> Nat]
              /\ \A c \in Bufs : refcnt[c] = Cardinality(Users(c)) + Pins(c)
          BY <1>9, <3>1, SMTT(30) DEF brelse_unref, Inv, TypeOK, RefcntExact
        <4>. QED BY <3>3, <3>4, <3>5, <4>1, UsersFinite DEF RefcntExact
    <2>5. BufferKeepsBlock' /\ Owners' /\ Asked'
      BY <1>9 DEF brelse_unref, Inv, TypeOK, BufferKeepsBlock, Owners, Asked
    <2>6. UNCHANGED <<blockno, valid, data, owner, disk, pinned, latest>>
      BY <1>9 DEF brelse_unref
    <2>. QED BY <2>3, <2>4, <2>5, <2>6 DEF Inv, OneBufferPerBlock, Contents, PinsBounded
  <1>10. CASE UNCHANGED vars
    <2>1. TypeOK' /\ OneBufferPerBlock' /\ BufferKeepsBlock'
      BY <1>10, Zenon DEF vars, Inv, TypeOK, OneBufferPerBlock, BufferKeepsBlock
    <2>2. RefcntExact'
      <3>1. \A b \in Bufs : Users(b)' = Users(b) /\ Pins(b)' = Pins(b)
        BY <1>10, Zenon DEF vars, Users, Pins
      <3>. QED BY <1>10, <3>1, Zenon DEF vars, Inv, RefcntExact
    <2>3. Owners' /\ Asked' /\ Contents' /\ PinsBounded'
      <3>1. Owners' /\ Asked'
        BY <1>10, Zenon DEF vars, Inv, Owners, Asked
      <3>2. Contents' /\ PinsBounded'
        BY <1>10, Zenon DEF vars, Inv, Contents, PinsBounded
      <3>. QED BY <3>1, <3>2, Zenon
    <2>. QED BY <2>1, <2>2, <2>3, Zenon DEF Inv
  <1>. QED
    BY <1>1, <1>2, <1>3, <1>4, <1>5, <1>6, <1>7, <1>8, <1>9, <1>10, Zenon DEF Next

\* Inv holds in every state: Init implies it and every step keeps it.
LEMMA Invariance == Spec => []Inv
  <1>1. ASSUME Init PROVE Inv
    <2>. USE BCacheAssumption
    <2>1. TypeOK
      BY <1>1 DEF Init, TypeOK, Bufs
    <2>2. \A b \in Bufs : Users(b) = {} /\ Pins(b) = 0
      BY <1>1 DEF Init, Users, Pins
    <2>3. RefcntExact
      <3>1. ASSUME NEW b \in Bufs PROVE refcnt[b] = Cardinality(Users(b)) + Pins(b)
        <4>1. Cardinality(Users(b)) = 0
          BY <2>2, FS_EmptySet
        <4>. QED BY <1>1, <2>2, <4>1 DEF Init
      <3>. QED BY <3>1 DEF RefcntExact
    <2>4. PinsBounded
      BY <1>1, FS_EmptySet DEF Init, PinsBounded
    <2>5. OneBufferPerBlock /\ BufferKeepsBlock /\ Owners /\ Asked /\ Contents
      BY <1>1, SMTT(30) DEF Init, OneBufferPerBlock, BufferKeepsBlock, Owners, Asked, Contents
    <2>. QED BY <2>1, <2>3, <2>4, <2>5 DEF Inv
  <1>. QED BY <1>1, Step, PTL DEF Spec

\* bget() cannot recycle a buffer that somebody uses or waits for.
THEOREM BufferKeepsBlockHolds == Spec => []BufferKeepsBlock
  <1>1. Inv => BufferKeepsBlock
    BY SMTT(30) DEF Inv
  <1>. QED BY <1>1, Invariance, PTL

\* Whoever holds a block sees the last contents anybody gave it, though its
\* buffer may have been recycled and read again any number of times.
THEOREM SeesLatestHolds == Spec => []SeesLatest
  <1>1. Inv => SeesLatest
    <2>. SUFFICES ASSUME Inv, NEW p \in Procs, pc[p] = "locked"
                  PROVE  data[buf[p]] = latest[want[p]]
      BY SMTT(30) DEF SeesLatest
    <2>1. buf[p] \in Bufs /\ blockno[buf[p]] = want[p]
      BY DEF Inv, TypeOK, BufferKeepsBlock
    <2>2. valid[buf[p]] = 1 /\ want[p] \in Blocks
      BY DEF Inv, Owners, Asked
    <2>. QED BY <2>1, <2>2, Zenon DEF Inv, Contents
  <1>. QED BY <1>1, Invariance, PTL

-----------------------------------------------------------------------------
(* bget() finds a buffer if there is one for every process and every pin. *)

\* A set of numbers has a least one.
LEMMA Least ==
  ASSUME NEW T \in SUBSET Nat, T # {}
  PROVE  \E m \in T : \A y \in T : m <= y
  <1>1. PICK m \in T : \A y \in T : ~(<<y, m>> \in OpToRel(<, Nat))
    BY NatLessThanWellFounded, WFMin, Zenon
  <1>2. ASSUME NEW y \in T PROVE m <= y
    <2>1. y < m => <<y, m>> \in OpToRel(<, Nat)
      BY DEF OpToRel
    <2>2. ~(y < m)
      BY <1>1, <2>1, Zenon
    <2>. QED BY <2>2
  <1>. QED BY <1>2

\* A set of places in the list has a last one.
LEMMA LastPlace ==
  ASSUME NEW S \in SUBSET Bufs, S # {}
  PROVE  \E x \in S : \A y \in S : y <= x
  <1>. USE BCacheAssumption
  <1>1. PICK T \in SUBSET Nat : T = {NBuf - x : x \in S}
    <2>1. \A x \in S : NBuf - x \in Nat
      BY DEF Bufs
    <2>2. {NBuf - x : x \in S} \in SUBSET Nat
      BY <2>1
    <2>. QED BY <2>2, Zenon
  <1>2. T # {}
    BY <1>1
  <1>3. PICK m \in T : \A y \in T : m <= y
    BY <1>2, Least
  <1>4. PICK x \in S : m = NBuf - x
    BY <1>1
  <1>5. ASSUME NEW y \in S PROVE y <= x
    <2>1. m <= NBuf - y
      BY <1>1, <1>3
    <2>. QED BY <1>4, <2>1 DEF Bufs
  <1>. QED BY <1>5

\* While a process has no buffer, fewer buffers are referenced than there are.
LEMMA SomeUnreferenced ==
  ASSUME Inv, NEW p \in Procs, pc[p] = "idle", NBuf >= Cardinality(Procs) + MaxPins
  PROVE  \E b \in Bufs : refcnt[b] = 0
  <1>. USE BCacheAssumption
  <1>. SUFFICES ASSUME \A b \in Bufs : refcnt[b] # 0 PROVE FALSE
    OBVIOUS
  <1>. DEFINE Q == Procs \ {p}
              A == {b \in Bufs : \E q \in Q : buf[q] = b}
              B == {b \in Bufs : blockno[b] \in pinned}
  <1>1. /\ IsFiniteSet(Q) /\ Cardinality(Q) = Cardinality(Procs) - 1
        /\ Cardinality(Procs) \in Nat
    BY FS_RemoveElement, FS_CardinalityType
  <1>2. Bufs = A \cup B
    <2>1. ASSUME NEW b \in Bufs, blockno[b] \notin pinned PROVE b \in A
      <3>1. Cardinality(Users(b)) # 0
        BY <2>1, UsersFinite DEF Inv, RefcntExact, Pins
      <3>2. Users(b) # {}
        BY <3>1, FS_EmptySet
      <3>. QED BY <3>2 DEF Users
    <2>. QED BY <2>1
  <1>3. IsFiniteSet(A) /\ Cardinality(A) <= Cardinality(Q)
    <2>. DEFINE f == [q \in Q |-> buf[q]]
    <2>1. f \in Surjection(Q, A)
      BY DEF Surjection, Inv, TypeOK
    <2>. QED BY <1>1, <2>1, FS_Surjection
  <1>4. IsFiniteSet(B) /\ Cardinality(B) <= Cardinality(pinned)
    <2>. DEFINE g == [b \in B |-> blockno[b]]
    <2>1. g \in Injection(B, pinned)
      BY DEF Injection, IsInjective, Inv, TypeOK, OneBufferPerBlock
    <2>. QED BY <2>1, FS_Injection DEF Inv, PinsBounded
  <1>5. Cardinality(Bufs) <= Cardinality(A) + Cardinality(B)
    <2>1. Cardinality(A \cup B) = Cardinality(A) + Cardinality(B) - Cardinality(A \cap B)
      BY <1>3, <1>4, FS_Union, Zenon
    <2>2. IsFiniteSet(A \cap B)
      BY <1>3, FS_Subset
    <2>3. /\ Cardinality(A) \in Nat /\ Cardinality(B) \in Nat
          /\ Cardinality(A \cap B) \in Nat
      BY <1>3, <1>4, <2>2, FS_CardinalityType
    <2>4. Cardinality(Bufs) = Cardinality(A \cup B)
      BY <1>2, Zenon
    <2>. QED BY <2>1, <2>3, <2>4
  <1>6. Cardinality(Bufs) = NBuf
    BY FS_Interval DEF Bufs
  <1>. QED
    BY <1>1, <1>3, <1>4, <1>5, <1>6, FS_CardinalityType, SMTT(30) DEF Inv, PinsBounded

\* The cache is consistent, and bget() does not panic when there is a buffer for
\* every process that may hold one and for every block the log may pin.
THEOREM CacheConsistentHolds ==
  ASSUME NBuf >= Cardinality(Procs) + MaxPins
  PROVE  Spec => []CacheConsistent
  <1>1. ASSUME Inv PROVE NoPanic
    <2>. SUFFICES ASSUME NEW p \in Procs, pc[p] = "idle"
                  PROVE  \E b \in Bufs : recyclable(b)
      BY DEF NoPanic, bget_panics
    <2>. DEFINE S == {lru[b] : b \in {c \in Bufs : refcnt[c] = 0}}
    <2>1. S \in SUBSET Bufs /\ S # {}
      <3>1. PICK b \in Bufs : refcnt[b] = 0
        BY <1>1, SomeUnreferenced
      <3>2. \A c \in Bufs : lru[c] \in Bufs
        BY <1>1 DEF Inv, TypeOK
      <3>. QED BY <3>1, <3>2
    <2>2. PICK x \in S : \A y \in S : y <= x
      BY <2>1, LastPlace, Zenon
    <2>. QED BY <2>2 DEF recyclable
  <1>2. Inv => CacheConsistent
    BY <1>1 DEF Inv, CacheConsistent
  <1>. QED BY <1>2, Invariance, PTL

=============================================================================
