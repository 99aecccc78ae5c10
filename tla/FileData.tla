------------------------------ MODULE FileData ------------------------------
(***************************************************************************)
(* The contents of files: the block bitmap, bmap, itrunc, readi and writei *)
(* (kernel/fs.c) under fileread and filewrite (kernel/file.c), on a disk   *)
(* that Mkfs built.                                                        *)
(*                                                                         *)
(* disk is the disk as the buffer cache shows it (BCache), durable what    *)
(* recovery leaves after a crash: by AtomicDisk it becomes the current     *)
(* disk when the last call in progress ends.  A step is one turn of        *)
(* writei's loop, or one half of itrunc; the inode's sleep-lock is held    *)
(* over all of them.  Names and the races of iput and iget are in FileSys: *)
(* here open, unlink and close find their inode at once.                   *)
(***************************************************************************)
EXTENDS Mkfs, FiniteSetsExt

CONSTANTS
    MAXOPBLOCKS,
    Procs, NoProc,
    Files,          \* open files; processes may share one, as after fork
    WriteSizes,     \* the n of write()
    ReadSizes,      \* the n of read()
    Images,         \* what mkfs may have been given: sequences of files
    MaxCalls,       \* bound on the number of calls
    MaxCrashes      \* bound on the number of crashes

\* One bitmap block serves the whole disk (mkfs asserts that it does for the blocks
\* it uses).  The root directory of a new image must not fill its last block:
\* fix_root would then give it a block too many, one that was never allocated.
ASSUME FileDataAssumption ==
    /\ FSSIZE <= BPB /\ MAXOPBLOCKS >= 6 /\ NoProc \notin Procs
    /\ \A files \in Images : (2 + Len(files)) % BSIZE # 0

VARIABLES
    disk, durable,
    icache,         \* the in-memory inodes: valid, and the copy c of the disk's
    lock,           \* who holds ip->lock
    file,           \* ip and off of each open file; ip = 0 if closed
    th,             \* each process's position and locals
    logged,         \* the blocks the process's call, or its last one, passed to log_write
    calls, crashes

vars == <<disk, durable, icache, lock, file, th, logged, calls, crashes>>

Limit == MAXFILE * BSIZE
Byte == 0..3
Unwritten == -1
\* the bytes of the user's buffer: byte k of a write with seed v
source(v, k) == 1 + ((v + k) % 3)

Idle == [pc |-> "user", f |-> NoProc, ip |-> 0, off |-> 0, tot |-> 0, n1 |-> 0, i |-> 0,
         n |-> 0, v |-> 0, free |-> FALSE]
NoCopy == [valid |-> FALSE, c |-> FreeInode]
Closed == [ip |-> 0, off |-> 0]

Init ==
    \E files \in Images :
        LET m == mkfs(files)
            content(i) == IF i - 1 \in DOMAIN files THEN files[i - 1] ELSE <<>>
        IN  /\ disk = [inode |-> m.inode, block |-> m.block, used |-> m.used,
                       bytes |-> [i \in Inodes |-> [k \in 0..Limit - 1 |->
                                    IF k + 1 \in DOMAIN content(i) THEN content(i)[k + 1]
                                    ELSE Unwritten]]]
            /\ durable = disk
            /\ icache = [i \in Inodes |-> NoCopy]
            /\ lock = [i \in Inodes |-> NoProc]
            /\ file = [f \in Files |-> Closed]
            /\ th = [p \in Procs |-> Idle]
            /\ logged = [p \in Procs |-> {}]
            /\ calls = 0 /\ crashes = 0

-----------------------------------------------------------------------------
(* Blocks.  m is a record of the disk, the locked inode's copy ip, the     *)
(* blocks logged so far, the block number found and whether bfree panicked.*)

balloc(m) ==
    LET unused == (0..sb.size - 1) \ m.disk.used
        b == Min(unused)
    IN  IF unused = {} THEN [m EXCEPT !.addr = 0]
        ELSE [m EXCEPT !.disk.used = @ \cup {b}, !.disk.block[b] = zeroes,
                       !.logged = @ \cup {BBLOCK(b), b}, !.addr = b]

bfree(m, b) ==
    [m EXCEPT !.disk.used = @ \ {b}, !.logged = @ \cup {BBLOCK(b)},
              !.panic = @ \/ b \notin m.disk.used]

\* bmap's direct block or indirect block, allocated if need be
bmap_slot(m, k) ==
    IF m.ip.addrs[k] # 0 THEN [m EXCEPT !.addr = m.ip.addrs[k]]
    ELSE LET a == balloc(m) IN [a EXCEPT !.ip.addrs[k] = a.addr]

bmap(m, bn) ==
    IF bn < NDIRECT THEN bmap_slot(m, bn)
    ELSE LET a == bmap_slot(m, NDIRECT)
             j == bn - NDIRECT
             b == balloc(a)
         IN  IF a.addr = 0 THEN a
             ELSE IF a.disk.block[a.addr][j] # 0
                  THEN [a EXCEPT !.addr = a.disk.block[a.addr][j]]
             ELSE IF b.addr = 0 THEN b
             ELSE [b EXCEPT !.disk.block[a.addr][j] = b.addr, !.logged = @ \cup {a.addr}]

\* Mutant: the memmove of the block numbers is missing.
iupdate_without_addrs(m, i) ==
    [m EXCEPT !.disk.inode[i] = [m.ip EXCEPT !.addrs = m.disk.inode[i].addrs],
              !.logged = @ \cup {IBLOCK(i)}]

iupdate(m, i) == [m EXCEPT !.disk.inode[i] = m.ip, !.logged = @ \cup {IBLOCK(i)}]

\* itrunc's first loop
itrunc_direct(m) ==
    LET free(x, k) == IF x.ip.addrs[k - 1] = 0 THEN x
                      ELSE [bfree(x, x.ip.addrs[k - 1]) EXCEPT !.ip.addrs[k - 1] = 0]
    IN  FoldLeft(free, m, [k \in 1..NDIRECT |-> k])

\* the rest of itrunc
itrunc_indirect(m, i) ==
    LET a == m.ip.addrs[NDIRECT]
        free(x, k) == IF x.disk.block[a][k - 1] = 0 THEN x ELSE bfree(x, x.disk.block[a][k - 1])
        m1 == IF a = 0 THEN m
              ELSE [bfree(FoldLeft(free, m, [k \in 1..NINDIRECT |-> k]), a)
                        EXCEPT !.ip.addrs[NDIRECT] = 0]
    IN  iupdate([m1 EXCEPT !.ip.size = 0,
                           !.disk.bytes[i] = [k \in DOMAIN @ |-> Unwritten]], i)

-----------------------------------------------------------------------------
(* Transactions, locks and references.                                     *)

InOp(p) == th[p].pc \in {"body", "end", "trunc", "trunc_indirect"}

\* ilock: the copy read from the disk if it is not valid
Copy(i) == IF icache[i].valid THEN icache[i].c ELSE disk.inode[i]
Working(p, i) == [disk |-> disk, ip |-> Copy(i), addr |-> 0, panic |-> FALSE,
                  logged |-> IF InOp(p) THEN logged[p] ELSE {}]

\* others that refer to inode i
Referenced(p, i) == (\E f \in Files : file'[f].ip = i) \/ (\E q \in Procs \ {p} : th[q].ip = i)

\* end_op: the last call commits
end_op(p) ==
    durable' = IF \E q \in Procs \ {p} : InOp(q) THEN durable ELSE disk'

\* the caller keeps working on m: the inode stays locked
hold(p, i, m) ==
    /\ disk' = m.disk
    /\ icache' = [icache EXCEPT ![i] = [valid |-> TRUE, c |-> m.ip]]
    /\ lock' = [lock EXCEPT ![i] = p]
    /\ logged' = [logged EXCEPT ![p] = m.logged]
    /\ UNCHANGED durable

\* the caller unlocks the inode and ends its transaction
leave(p, i, m) ==
    /\ disk' = m.disk
    /\ icache' = [icache EXCEPT ![i] = [valid |-> TRUE, c |-> m.ip]]
    /\ lock' = [lock EXCEPT ![i] = NoProc]
    /\ logged' = [logged EXCEPT ![p] = m.logged]
    /\ end_op(p)

call(p) == th[p].pc = "user" /\ calls < MaxCalls /\ calls' = calls + 1 /\ UNCHANGED crashes
inner == UNCHANGED <<calls, crashes>>

-----------------------------------------------------------------------------
(* System calls.                                                           *)

\* sys_open; a free inode is one that create() allocates
open(p, f, i, trunc) ==
    /\ call(p) /\ file[f] = Closed /\ i # ROOTINO /\ lock[i] = NoProc
    /\ Copy(i).type = 0 \/ Copy(i).nlink > 0
    /\ LET m0 == Working(p, i)
           new == [FreeInode EXCEPT !.type = T_FILE, !.nlink = 1]
           m == IF m0.ip.type # 0 THEN m0 ELSE iupdate([m0 EXCEPT !.ip = new], i)
       IN  IF trunc
           THEN /\ hold(p, i, m)
                /\ th' = [th EXCEPT ![p] = [Idle EXCEPT !.pc = "trunc", !.f = f, !.ip = i]]
           ELSE leave(p, i, m) /\ UNCHANGED th
    /\ file' = [file EXCEPT ![f] = [ip |-> i, off |-> 0]]

itrunc_1(p) ==
    /\ th[p].pc = "trunc"
    /\ LET m == itrunc_direct(Working(p, th[p].ip))
       IN  /\ hold(p, th[p].ip, m)
           /\ th' = [th EXCEPT ![p].pc = IF m.panic THEN "panic" ELSE "trunc_indirect"]
    /\ UNCHANGED file /\ inner

\* the second half; then iput frees the inode, or open returns
itrunc_2(p) ==
    /\ th[p].pc = "trunc_indirect"
    /\ LET i == th[p].ip
           m0 == itrunc_indirect(Working(p, i), i)
           m == IF th[p].free THEN iupdate([m0 EXCEPT !.ip.type = 0], i) ELSE m0
       IN  IF m.panic
           THEN hold(p, i, m) /\ th' = [th EXCEPT ![p].pc = "panic"]
           ELSE /\ disk' = m.disk
                /\ icache' = [icache EXCEPT ![i] =
                        IF th[p].free THEN NoCopy ELSE [valid |-> TRUE, c |-> m.ip]]
                /\ lock' = [lock EXCEPT ![i] = NoProc]
                /\ logged' = [logged EXCEPT ![p] = m.logged]
                /\ end_op(p)
                /\ th' = [th EXCEPT ![p] = Idle]
    /\ UNCHANGED file /\ inner

\* iput of p's reference to i at the end of a transaction in which the disk and
\* the copy became m
put(p, i, m) ==
    IF Referenced(p, i) THEN leave(p, i, m) /\ UNCHANGED th
    ELSE IF m.ip.nlink = 0
         THEN /\ hold(p, i, m)
              /\ th' = [th EXCEPT ![p] = [Idle EXCEPT !.pc = "trunc", !.ip = i, !.free = TRUE]]
    ELSE /\ disk' = m.disk
         /\ icache' = [icache EXCEPT ![i] = NoCopy]
         /\ logged' = [logged EXCEPT ![p] = m.logged]
         /\ end_op(p)
         /\ UNCHANGED <<lock, th>>

\* the last close of f: no other process is using it
close(p, f) ==
    /\ call(p) /\ file[f] # Closed /\ \A q \in Procs : th[q].f # f
    /\ lock[file[f].ip] = NoProc
    /\ file' = [file EXCEPT ![f] = Closed]
    /\ put(p, file[f].ip, Working(p, file[f].ip))

\* sys_unlink of the only name
unlink(p, i) ==
    /\ call(p) /\ i # ROOTINO /\ lock[i] = NoProc
    /\ Copy(i).type # 0 /\ Copy(i).nlink = 1
    /\ UNCHANGED file
    /\ put(p, i, iupdate([Working(p, i) EXCEPT !.ip.nlink = 0], i))

\* fileread, with readi's loop over the blocks.  It runs outside a transaction:
\* log_write panics if bmap has to allocate and no call is in progress.
readi(m, off, n) ==
    LET last == IF off + n > m.ip.size THEN m.ip.size ELSE off + n
        blocks == IF off >= last THEN {} ELSE off \div BSIZE..(last - 1) \div BSIZE
    IN  [m |-> FoldLeft(bmap, m, SetToSortSeq(blocks, <)), r |-> IF off >= last THEN 0 ELSE last - off]

read(p, f, n) ==
    /\ call(p) /\ file[f] # Closed /\ lock[file[f].ip] = NoProc
    /\ LET i == file[f].ip
           x == readi(Working(p, i), file[f].off, n)
       IN  /\ disk' = x.m.disk
           /\ icache' = [icache EXCEPT ![i] = [valid |-> TRUE, c |-> x.m.ip]]
           /\ file' = [file EXCEPT ![f].off = @ + x.r]
           /\ th' = [th EXCEPT ![p].pc =
                       IF x.m.logged # {} /\ ~\E q \in Procs : InOp(q) THEN "panic" ELSE @]
    /\ UNCHANGED <<durable, lock, logged>>

\* Mutant: the bitmap blocks are forgotten.
max_without_bitmap == (MAXOPBLOCKS - 1 - 1 - 2) * BSIZE

\* the most that filewrite passes to one writei
max == ((MAXOPBLOCKS - 1 - 1 - 2) \div 2) * BSIZE

\* filewrite: n bytes, in as many transactions as it takes
write(p, f, n, v) ==
    /\ call(p) /\ file[f] # Closed
    /\ th' = [th EXCEPT ![p] = [Idle EXCEPT !.pc = "lock", !.f = f, !.ip = file[f].ip, !.n = n, !.v = v]]
    /\ UNCHANGED <<disk, durable, icache, lock, file, logged>>

\* Mutant: writei lets a write begin behind the end of the file.
writei_lock_past_end(p) ==
    LET t == th[p]
        n1 == IF t.n - t.i > max THEN max ELSE t.n - t.i
        off == file[t.f].off
        m == Working(p, t.ip)
    IN  /\ t.pc = "lock" /\ lock[t.ip] = NoProc
        /\ IF off + n1 > MAXFILE * BSIZE
           THEN leave(p, t.ip, m) /\ th' = [th EXCEPT ![p] = Idle]
           ELSE /\ hold(p, t.ip, m)
                /\ th' = [th EXCEPT ![p].pc = "body", ![p].off = off, ![p].tot = 0, ![p].n1 = n1]
        /\ UNCHANGED file /\ inner

\* begin_op, ilock and the tests at the beginning of writei
writei_lock(p) ==
    LET t == th[p]
        n1 == IF t.n - t.i > max THEN max ELSE t.n - t.i
        off == file[t.f].off
        m == Working(p, t.ip)
    IN  /\ t.pc = "lock" /\ lock[t.ip] = NoProc
        /\ IF off > m.ip.size \/ off + n1 > MAXFILE * BSIZE
           THEN leave(p, t.ip, m) /\ th' = [th EXCEPT ![p] = Idle]
           ELSE /\ hold(p, t.ip, m)
                /\ th' = [th EXCEPT ![p].pc = "body", ![p].off = off, ![p].tot = 0, ![p].n1 = n1]
        /\ UNCHANGED file /\ inner

\* One turn of writei's loop; copied is FALSE if either_copyin fails.  It fails
\* before it has copied anything: a source buffer that crosses into an unmapped page
\* in the middle of a block is left out.
writei_body(p, copied) ==
    LET t == th[p]
        a == bmap(Working(p, t.ip), t.off \div BSIZE)
        m == Min({t.n1 - t.tot, BSIZE - (t.off % BSIZE)})
        src(k) == source(t.v, t.i + t.tot + k)
        o == t.off % BSIZE
        stored ==
            [a EXCEPT !.disk.block[a.addr] =
                        [k \in DOMAIN @ |-> IF k \in o..o + m - 1 THEN src(k - o) ELSE @[k]],
                      !.disk.bytes[t.ip] =
                        [k \in DOMAIN @ |-> IF k \in t.off..t.off + m - 1 THEN src(k - t.off) ELSE @[k]],
                      !.logged = @ \cup {a.addr}]
        fits == a.addr # 0 /\ copied
    IN  /\ t.pc = "body"
        /\ hold(p, t.ip, IF fits THEN stored ELSE a)
        /\ th' = [th EXCEPT ![p] =
                    IF fits THEN [t EXCEPT !.off = @ + m, !.tot = @ + m,
                                           !.pc = IF t.tot + m < t.n1 THEN "body" ELSE "end"]
                    ELSE [t EXCEPT !.pc = "end"]]
        /\ UNCHANGED file /\ inner

\* the end of writei, iunlock and end_op; then filewrite's next turn
writei_end(p) ==
    LET t == th[p]
        m == Working(p, t.ip)
        grown == IF t.off > m.ip.size THEN [m EXCEPT !.ip.size = t.off] ELSE m
    IN  /\ t.pc = "end"
        /\ leave(p, t.ip, iupdate(grown, t.ip))
        /\ file' = [file EXCEPT ![t.f].off = @ + t.tot]
        /\ th' = [th EXCEPT ![p] =
                    IF t.tot # t.n1 \/ t.i + t.tot = t.n THEN Idle
                    ELSE [t EXCEPT !.pc = "lock", !.i = @ + t.tot]]
        /\ inner

\* The machine stops; recovery brings back the last committed disk, and memory is
\* empty.
crash ==
    /\ crashes < MaxCrashes /\ crashes' = crashes + 1
    /\ disk' = durable
    /\ icache' = [i \in Inodes |-> NoCopy]
    /\ lock' = [i \in Inodes |-> NoProc]
    /\ file' = [f \in Files |-> Closed]
    /\ th' = [p \in Procs |-> Idle]
    /\ logged' = [p \in Procs |-> {}]
    /\ UNCHANGED <<durable, calls>>

Next ==
    \/ crash
    \/ \E p \in Procs :
        \/ \E f \in Files, i \in Inodes, t \in BOOLEAN : open(p, f, i, t)
        \/ \E f \in Files : close(p, f)
        \/ \E i \in Inodes : unlink(p, i)
        \/ \E f \in Files, n \in ReadSizes : read(p, f, n)
        \/ \E f \in Files, n \in WriteSizes : write(p, f, n, calls)
        \/ writei_lock(p) \/ (\E ok \in BOOLEAN : writei_body(p, ok)) \/ writei_end(p)
        \/ itrunc_1(p) \/ itrunc_2(p)

Spec == Init /\ [][Next]_vars

-----------------------------------------------------------------------------
(* Properties.                                                             *)

\* the places of an image that hold the number of a block
Places(inode) == {<<i, k>> : i \in Inodes, k \in 0..MAXFILE}
\* the block number at a place: k < NDIRECT direct, NDIRECT the indirect block,
\* above it the entries of the indirect block
At(inode, block, pl) ==
    LET a == inode[pl[1]].addrs
        k == pl[2]
    IN  IF k <= NDIRECT THEN a[k]
        ELSE IF a[NDIRECT] = 0 THEN 0 ELSE block[a[NDIRECT]][k - NDIRECT - 1]

\* Every block that the bitmap marks is one of the layout's or is named in exactly
\* one place of one inode, and every block that is named is marked.
OwnedOnce(inode, d) ==
    LET held == {pl \in Places(inode) : At(inode, d.block, pl) # 0}
        num(pl) == At(inode, d.block, pl)
    IN  /\ \A pl, ql \in held : num(pl) = num(ql) => pl = ql
        /\ d.used = (0..nmeta - 1) \cup {num(pl) : pl \in held}
        /\ \A pl \in held : num(pl) \in DataBlocks

View == [i \in Inodes |-> Copy(i)]

DinodeType == [type : {0, T_FILE, T_DIR}, nlink : 0..1, size : 0..Limit,
               addrs : [0..NDIRECT -> 0..FSSIZE - 1]]

TypeOK ==
    /\ disk.inode \in [Inodes -> DinodeType]
    /\ \A i \in Inodes : icache[i].c \in DinodeType /\ lock[i] \in Procs \cup {NoProc}
    /\ \A b \in DataBlocks, k \in 0..Width - 1 : disk.block[b][k] \in 0..FSSIZE - 1
    /\ \A i \in Inodes, k \in 0..Limit - 1 : disk.bytes[i][k] \in Byte \cup {Unwritten}
    /\ \A f \in Files : file[f].ip \in Inodes \cup {0} /\ file[f].off \in 0..Limit

\* With the in-memory inodes the bitmap is exact in every state, also while a call
\* is half done or the disk is full: balloc, bmap and itrunc neither lose a block
\* nor give one away twice, and bfree never meets a free block.  What a crash leaves
\* is exact as well: bitmap, indirect blocks and inodes on the disk agree, because
\* each call puts all it changed into one transaction and calls iupdate before it
\* ends.
BlocksConsistent ==
    /\ TypeOK
    /\ OwnedOnce(View, disk)
    /\ OwnedOnce(durable.inode, durable)
    /\ \A p \in Procs : th[p].pc # "panic"

Holds(inode, d, files) ==
    \A i \in files, k \in 0..Limit - 1 :
        k < inode[i].size =>
            LET bn == k \div BSIZE
                b == At(inode, d.block, <<i, IF bn < NDIRECT THEN bn ELSE bn + 1>>)
            IN  b # 0 /\ d.bytes[i][k] # Unwritten /\ d.block[b][k % BSIZE] = d.bytes[i][k]

\* Every byte below a file's size, when nobody has the inode locked, is the one last
\* written at its offset: writei's
\* loop and bmap put and find it in the same block, nobody else writes there, and a
\* file has no holes.  It holds of the disk that a crash leaves too.
FileHoldsWhatWasWritten ==
    /\ Holds(View, disk, {i \in Inodes \ {ROOTINO} : lock[i] = NoProc})
    /\ Holds(durable.inode, durable, Inodes \ {ROOTINO})

\* No call passes more than MAXOPBLOCKS - 2 blocks to log_write, which is what the
\* log needs (NoPanicHolds in LogProofs): filewrite's max is small enough.
TransactionFits == \A p \in Procs : Cardinality(logged[p]) <= MAXOPBLOCKS - 2
=============================================================================
