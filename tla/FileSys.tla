------------------------------ MODULE FileSys ------------------------------
(***************************************************************************)
(* Inodes and directories: the inode table with its reference counts and   *)
(* locks, allocation and freeing of inodes (kernel/fs.c), and the system   *)
(* calls that make and remove names (kernel/sysfile.c).                    *)
(*                                                                         *)
(* An action is the code between two points where another process can      *)
(* come in: a sleep-lock that may be held, or a critical section under     *)
(* itable.lock.  What a section does to an inode it has locked is one step *)
(* with the acquiring of the lock.  File contents are left out; a          *)
(* directory's are a function from names to inode numbers.  The call is in *)
(* a transaction of the log from its first step to its last.               *)
(***************************************************************************)
EXTENDS Naturals, Sequences, FiniteSets

CONSTANTS
    Procs,
    NInum,      \* sb.ninodes - 1: inodes of the disk, 1 is the root
    NInode,     \* NINODE: slots of the inode table
    Names,      \* names of files and directories
    Paths,      \* the relative paths calls are made with, sequences of names
    Calls,      \* the system calls that are made
    MaxCalls    \* bound: how many are made in all

ROOTINO == 1
DotDot == ".."
Nil == 0        \* the null pointer, and the inode number of an empty entry
Inums == 1..NInum
Slots == 1..NInode

ASSUME FileSysAssumption ==
    /\ NInum \in Nat \ {0} /\ NInode \in Nat /\ MaxCalls \in Nat
    /\ NInum <= NInode      \* the table never runs out of slots
    /\ Nil \notin Procs
    /\ DotDot \notin Names /\ Paths \subseteq Seq(Names \cup {DotDot})

VARIABLES
    dinode,     \* on disk: type and nlink of each inode
    dir,        \* the entries of each directory
    itable,     \* the inode table
    cwd, file,  \* of each process: current directory, its one open file
    th,         \* the thread of each process in its system call
    calls       \* system calls made so far

vars == <<dinode, dir, itable, cwd, file, th, calls>>

Types == {"FREE", "FILE", "DIR"}
Free == [type |-> "FREE", nlink |-> 0]
Entries == Names \cup {DotDot}
Empty == [n \in Entries |-> Nil]

(* An entry of the inode table without references.                         *)
Unused == [inum |-> Nil, ref |-> 0, valid |-> 0, type |-> "FREE", nlink |-> 0, lock |-> Nil]

(* path: what namex() has yet to walk; link: the second path of link();    *)
(* cur: the inode namex() is at; ip, dp: the pointers of the system call;  *)
(* puts: inodes it is about to iput(), next: where it goes then.           *)
Idle == [pc |-> "idle", call |-> "none", path |-> <<>>, link |-> <<>>, cur |-> Nil,
         ip |-> Nil, dp |-> Nil, puts |-> <<>>, next |-> "idle"]

PCs == {"idle", "namex", "open", "open_file", "create", "create_exists", "create_init",
        "create_failed", "mkdir_end", "unlink", "unlink_ip", "unlink_end", "link",
        "link_dp", "link_bad", "chdir", "chdir_end", "iput", "itrunc", "iput_unlock",
        "iput_end"}

TypeOK ==
    /\ dinode \in [Inums -> [type : Types, nlink : Nat]]
    /\ dir \in [Inums -> [Entries -> Inums \cup {Nil}]]
    /\ itable \in [Slots -> [inum : Inums \cup {Nil}, ref : Nat, valid : {0, 1},
                             type : Types, nlink : Nat, lock : Procs \cup {Nil}]]
    /\ calls \in 0..MaxCalls
    /\ cwd \in [Procs -> Slots]
    /\ file \in [Procs -> Slots \cup {Nil}]
    /\ th \in [Procs -> [pc : PCs, call : Calls \cup {"none"}, path : Seq(Entries),
                         link : Seq(Entries), cur : Slots \cup {Nil}, ip : Slots \cup {Nil},
                         dp : Slots \cup {Nil}, puts : Seq(Slots), next : PCs]]

(* A file system with a root directory, in which every process stands.     *)
Init ==
    /\ dinode = [i \in Inums |-> IF i = ROOTINO THEN [type |-> "DIR", nlink |-> 1] ELSE Free]
    /\ dir = [i \in Inums |-> IF i = ROOTINO THEN [Empty EXCEPT ![DotDot] = ROOTINO] ELSE Empty]
    /\ itable = [s \in Slots |->
         IF s = 1 THEN [Unused EXCEPT !.inum = ROOTINO, !.ref = Cardinality(Procs)] ELSE Unused]
    /\ cwd = [p \in Procs |-> 1]
    /\ file = [p \in Procs |-> Nil]
    /\ th = [p \in Procs |-> Idle]
    /\ calls = 0

-----------------------------------------------------------------------------
(* The inode table.                                                        *)

(* The slot iget() returns: the inode's own, else the first empty one.     *)
held(i) == {s \in Slots : itable[s].ref > 0 /\ itable[s].inum = i}
unused == {s \in Slots : itable[s].ref = 0}
slot(i) ==
    IF held(i) # {} THEN CHOOSE s \in held(i) : TRUE
    ELSE CHOOSE s \in unused : \A t \in unused : s <= t

(* tab after iget() of inode i.                                            *)
iget(tab, i) ==
    IF held(i) # {} THEN [tab EXCEPT ![slot(i)].ref = @ + 1]
    ELSE [tab EXCEPT ![slot(i)] = [@ EXCEPT !.inum = i, !.ref = 1, !.valid = 0]]

idup(tab, s) == [tab EXCEPT ![s].ref = @ + 1]

(* The entry after ilock() by p: read from the disk if it is not valid.    *)
ilock(p, s) ==
    LET e == itable[s] IN
    [e EXCEPT !.lock = p, !.valid = 1,
              !.type = IF e.valid = 1 THEN @ ELSE dinode[e.inum].type,
              !.nlink = IF e.valid = 1 THEN @ ELSE dinode[e.inum].nlink]

iunlock(e) == [e EXCEPT !.lock = Nil]

(* ilock() does not block.                                                 *)
lockable(s) == itable[s].lock = Nil

(* The disk after iupdate() of an entry.                                   *)
iupdate(d, e) == [d EXCEPT ![e.inum] = [type |-> e.type, nlink |-> e.nlink]]

(* ialloc(): the inodes it can take, and the disk after it took inode i.   *)
unallocated == {i \in Inums : dinode[i].type = "FREE"}
ialloc(i, t) == [dinode EXCEPT ![i] = [type |-> t, nlink |-> 0]]

(* The inode number an entry has under a name, and the directories after   *)
(* it got another.                                                         *)
dirlookup(e, n) == dir[e.inum][n]
dirlink(e, n, i) == [dir EXCEPT ![e.inum][n] = i]

(* The thread of p goes to l; it does so after iput() of the inodes in s.  *)
to(p, l) == [th EXCEPT ![p].pc = l]
after_iput(p, s, l) == [th EXCEPT ![p].pc = "iput", ![p].puts = s, ![p].next = l]
return_iput(p, s) == [th EXCEPT ![p] = [Idle EXCEPT !.pc = "iput", !.puts = s]]

-----------------------------------------------------------------------------
(* iput().                                                                 *)

(* The last reference to an inode without links: truncate and free.        *)
frees(s) == itable[s].ref = 1 /\ itable[s].valid = 1 /\ itable[s].nlink = 0

iput_last(p) ==
    LET s == Head(th[p].puts) IN
    /\ th[p].pc = "iput"
    /\ frees(s)
    /\ lockable(s)
    /\ itable' = [itable EXCEPT ![s].lock = p]
    /\ th' = to(p, "itrunc")
    /\ UNCHANGED <<dinode, dir, cwd, file, calls>>

(* itrunc(ip); ip->type = 0; iupdate(ip)                                   *)
itrunc(p) ==
    LET s == Head(th[p].puts)
        e == [itable[s] EXCEPT !.type = "FREE"]
    IN  /\ th[p].pc = "itrunc"
        /\ itable' = [itable EXCEPT ![s] = e]
        /\ dinode' = iupdate(dinode, e)
        /\ dir' = [dir EXCEPT ![e.inum] = Empty]
        /\ th' = to(p, "iput_unlock")
        /\ UNCHANGED <<cwd, file, calls>>

iput_unlock(p) ==
    LET s == Head(th[p].puts) IN
    /\ th[p].pc = "iput_unlock"
    /\ itable' = [itable EXCEPT ![s].valid = 0, ![s].lock = Nil]
    /\ th' = to(p, "iput_end")
    /\ UNCHANGED <<dinode, dir, cwd, file, calls>>

(* ip->ref--, and on to the next inode to put or to what follows.  What is *)
(* left in an entry without references is never read again, and forgotten. *)
iput_drop(p) ==
    LET s == Head(th[p].puts)
        rest == Tail(th[p].puts)
    IN  /\ th[p].pc = "iput_end" \/ (th[p].pc = "iput" /\ ~frees(s))
        /\ itable' = [itable EXCEPT ![s] = IF @.ref = 1 THEN Unused ELSE [@ EXCEPT !.ref = @ - 1]]
        /\ th' = IF rest # <<>> THEN [th EXCEPT ![p].pc = "iput", ![p].puts = rest]
                 ELSE IF th[p].next = "idle" THEN [th EXCEPT ![p] = Idle]
                 ELSE [th EXCEPT ![p].pc = th[p].next, ![p].puts = <<>>, ![p].next = "idle"]
        /\ UNCHANGED <<dinode, dir, cwd, file, calls>>

iput(p) == iput_last(p) \/ itrunc(p) \/ iput_unlock(p) \/ iput_drop(p)

-----------------------------------------------------------------------------
(* Path names.                                                             *)

(* Which calls stop namex() one level early, where they go with the inode  *)
(* it finds, and where they go if it finds none.                           *)
nameiparent(p) == th[p].call \in {"create", "mkdir", "unlink"} \/ th[p].ip # Nil
found(p) == IF th[p].ip # Nil THEN "link_dp"
            ELSE IF th[p].call = "mkdir" THEN "create" ELSE th[p].call
missing(p) == IF th[p].ip # Nil THEN "link_bad" ELSE "idle"

(* A system call with a path starts: begin_op(), and namex() takes a       *)
(* reference to the current directory.                                     *)
syscall(p) ==
    /\ th[p].pc = "idle"
    /\ calls < MaxCalls /\ calls' = calls + 1
    /\ itable' = idup(itable, cwd[p])
    /\ \E c \in Calls \ {"close"}, from \in Paths :
          \E to_ \in IF c = "link" THEN Paths ELSE {<<>>} :
             th' = [th EXCEPT ![p] = [Idle EXCEPT !.pc = "namex", !.call = c, !.path = from,
                                                  !.link = to_, !.cur = cwd[p]]]
    /\ UNCHANGED <<dinode, dir, cwd, file>>

(* skipelem(): the next element of the path.                               *)
name(p) == Head(th[p].path)

(* The path is used up.                                                    *)
namex_end(p) ==
    LET s == th[p].cur IN
    /\ th[p].pc = "namex" /\ th[p].path = <<>>
    /\ IF nameiparent(p)
         THEN th' = [after_iput(p, <<s>>, missing(p)) EXCEPT ![p].cur = Nil]
         ELSE th' = [to(p, found(p)) EXCEPT ![p].cur = Nil, ![p].ip = s]
    /\ UNCHANGED <<dinode, dir, itable, cwd, file, calls>>

(* One element: ilock(), then one of a non-directory, the directory that   *)
(* nameiparent() asks for, no such name, or a step to the inode named.     *)
namex(p) ==
    LET s == th[p].cur
        e == iunlock(ilock(p, s))
        locked == [itable EXCEPT ![s] = e]
        i == dirlookup(e, name(p))
    IN  /\ th[p].pc = "namex" /\ th[p].path # <<>>
        /\ lockable(s)
        /\ \/ /\ e.type # "DIR" \/ (i = Nil /\ ~(nameiparent(p) /\ Len(th[p].path) = 1))
              /\ itable' = locked
              /\ th' = [after_iput(p, <<s>>, missing(p)) EXCEPT ![p].cur = Nil]
           \/ /\ e.type = "DIR" /\ nameiparent(p) /\ Len(th[p].path) = 1
              /\ itable' = locked
              /\ th' = [to(p, found(p)) EXCEPT ![p].cur = Nil, ![p].dp = s]
           \/ /\ e.type = "DIR" /\ ~(nameiparent(p) /\ Len(th[p].path) = 1) /\ i # Nil
              /\ itable' = iget(locked, i)
              /\ th' = [after_iput(p, <<s>>, "namex") EXCEPT
                          ![p].cur = slot(i), ![p].path = Tail(@)]
        /\ UNCHANGED <<dinode, dir, cwd, file, calls>>

-----------------------------------------------------------------------------
(* open(), and the end of open() with O_CREATE.                            *)

open(p) ==
    LET s == th[p].ip
        e == ilock(p, s)
    IN  /\ th[p].pc = "open"
        /\ lockable(s)
        /\ \/ /\ itable' = [itable EXCEPT ![s] = e]
              /\ th' = to(p, "open_file")
           \/ /\ e.type = "DIR"         \* for writing
              /\ itable' = [itable EXCEPT ![s] = iunlock(e)]
              /\ th' = return_iput(p, <<s>>)
        /\ UNCHANGED <<dinode, dir, cwd, file, calls>>

(* Mutant: when they fail, ip is unlocked and not put.                     *)
open_file_leaks(p) ==
    /\ th[p].pc = "open_file"
    /\ itable' = [itable EXCEPT ![th[p].ip].lock = Nil]
    /\ file' = [file EXCEPT ![p] = IF @ = Nil THEN th[p].ip ELSE @]
    /\ th' = [th EXCEPT ![p] = Idle]
    /\ UNCHANGED <<dinode, dir, cwd, calls>>

(* filealloc() and fdalloc() succeed, or one of them fails.                *)
open_file(p) ==
    LET s == th[p].ip IN
    /\ th[p].pc = "open_file"
    /\ itable' = [itable EXCEPT ![s].lock = Nil]
    /\ \/ /\ file[p] = Nil
          /\ file' = [file EXCEPT ![p] = s]
          /\ th' = [th EXCEPT ![p] = Idle]
       \/ /\ file[p] # Nil
          /\ th' = return_iput(p, <<s>>)
          /\ UNCHANGED file
    /\ UNCHANGED <<dinode, dir, cwd, calls>>

(* fileclose() of the last reference to an open file.                      *)
close(p) ==
    /\ th[p].pc = "idle" /\ "close" \in Calls
    /\ calls < MaxCalls /\ calls' = calls + 1
    /\ file[p] # Nil
    /\ file' = [file EXCEPT ![p] = Nil]
    /\ th' = return_iput(p, <<file[p]>>)
    /\ UNCHANGED <<dinode, dir, itable, cwd>>

-----------------------------------------------------------------------------
(* create(), for open() and mkdir().                                       *)

type(p) == IF th[p].call = "mkdir" THEN "DIR" ELSE "FILE"

(* dp is locked: the name exists, or there is no free inode, or ialloc()   *)
(* takes the first.  In the last case dp stays locked.                     *)
create(p) ==
    LET s == th[p].dp
        e == ilock(p, s)
        i == dirlookup(e, name(p))
    IN  /\ th[p].pc = "create"
        /\ lockable(s)
        /\ \/ /\ i # Nil
              /\ itable' = iget([itable EXCEPT ![s] = iunlock(e)], i)
              /\ th' = [after_iput(p, <<s>>, "create_exists") EXCEPT
                          ![p].ip = slot(i), ![p].dp = Nil]
              /\ UNCHANGED dinode
           \/ /\ i = Nil /\ unallocated = {}
              /\ itable' = [itable EXCEPT ![s] = iunlock(e)]
              /\ th' = return_iput(p, <<s>>)
              /\ UNCHANGED dinode
           \/ /\ i = Nil
              /\ \E j \in unallocated :
                    /\ \A k \in unallocated : j <= k
                    /\ dinode' = ialloc(j, type(p))
                    /\ itable' = iget([itable EXCEPT ![s] = e], j)
                    /\ th' = [to(p, "create_init") EXCEPT ![p].ip = slot(j)]
        /\ UNCHANGED <<dir, cwd, file, calls>>

create_exists(p) ==
    LET s == th[p].ip
        e == ilock(p, s)
    IN  /\ th[p].pc = "create_exists"
        /\ lockable(s)
        /\ IF th[p].call = "create" /\ e.type = "FILE"
             THEN /\ itable' = [itable EXCEPT ![s] = e]
                  /\ th' = to(p, "open_file")
             ELSE /\ itable' = [itable EXCEPT ![s] = iunlock(e)]
                  /\ th' = return_iput(p, <<s>>)
        /\ UNCHANGED <<dinode, dir, cwd, file, calls>>

(* The new inode gets its link count and, if a directory, its entries; it  *)
(* is entered in dp, and dp is unlocked.                                   *)
create_init(p) ==
    LET s == th[p].ip
        d == th[p].dp
        e == [ilock(p, s) EXCEPT !.nlink = 1]
        parent == IF type(p) = "DIR" THEN [itable[d] EXCEPT !.nlink = @ + 1] ELSE itable[d]
    IN  /\ th[p].pc = "create_init"
        /\ lockable(s)
        /\ itable' = [itable EXCEPT ![s] = e, ![d] = iunlock(parent)]
        /\ dinode' = iupdate(iupdate(dinode, e), parent)
        /\ dir' = [dir EXCEPT
             ![e.inum] = IF type(p) = "DIR" THEN [Empty EXCEPT ![DotDot] = parent.inum] ELSE @,
             ![parent.inum][name(p)] = e.inum]
        /\ th' = [after_iput(p, <<d>>, IF type(p) = "DIR" THEN "mkdir_end" ELSE "open_file")
                    EXCEPT ![p].dp = Nil]
        /\ UNCHANGED <<cwd, file, calls>>

(* A dirlink() fails for want of disk space: the inode is put with no      *)
(* link, while dp is still locked.                                         *)
create_fails(p) ==
    LET s == th[p].ip
        e == [ilock(p, s) EXCEPT !.nlink = 0]
    IN  /\ th[p].pc = "create_init"
        /\ lockable(s)
        /\ itable' = [itable EXCEPT ![s] = iunlock(e)]
        /\ dinode' = iupdate(dinode, e)
        /\ th' = [after_iput(p, <<s>>, "create_failed") EXCEPT ![p].ip = Nil]
        /\ UNCHANGED <<dir, cwd, file, calls>>

(* Mutant: dp is put, and stays locked.                                    *)
create_failed_locked(p) ==
    /\ th[p].pc = "create_failed"
    /\ th' = return_iput(p, <<th[p].dp>>)
    /\ UNCHANGED <<dinode, dir, itable, cwd, file, calls>>

(* The end of a create() that failed, and of an unlink() at its bad label. *)
create_failed(p) ==
    LET d == th[p].dp IN
    /\ th[p].pc = "create_failed"
    /\ itable' = [itable EXCEPT ![d].lock = Nil]
    /\ th' = return_iput(p, <<d>>)
    /\ UNCHANGED <<dinode, dir, cwd, file, calls>>

mkdir_end(p) ==
    LET s == th[p].ip IN
    /\ th[p].pc = "mkdir_end"
    /\ itable' = [itable EXCEPT ![s].lock = Nil]
    /\ th' = return_iput(p, <<s>>)
    /\ UNCHANGED <<dinode, dir, cwd, file, calls>>

-----------------------------------------------------------------------------
(* unlink().                                                               *)

(* The name is "..", or unknown, or dp stays locked while ip is locked.    *)
unlink(p) ==
    LET s == th[p].dp
        e == ilock(p, s)
        i == dirlookup(e, name(p))
    IN  /\ th[p].pc = "unlink"
        /\ lockable(s)
        /\ IF name(p) = DotDot \/ i = Nil
             THEN /\ itable' = [itable EXCEPT ![s] = iunlock(e)]
                  /\ th' = return_iput(p, <<s>>)
             ELSE /\ itable' = iget([itable EXCEPT ![s] = e], i)
                  /\ th' = [to(p, "unlink_ip") EXCEPT ![p].ip = slot(i)]
        /\ UNCHANGED <<dinode, dir, cwd, file, calls>>

isdirempty(i) == \A n \in Names : dir[i][n] = Nil

unlink_not_empty(p) ==
    LET s == th[p].ip
        e == ilock(p, s)
    IN  /\ th[p].pc = "unlink_ip"
        /\ lockable(s)
        /\ e.type = "DIR" /\ ~isdirempty(e.inum)
        /\ itable' = [itable EXCEPT ![s] = iunlock(e)]
        /\ th' = [after_iput(p, <<s>>, "create_failed") EXCEPT ![p].ip = Nil]
        /\ UNCHANGED <<dinode, dir, cwd, file, calls>>

(* The entry is cleared and dp put; ip stays locked.                       *)
unlink_ip(p) ==
    LET s == th[p].ip
        d == th[p].dp
        e == ilock(p, s)
        parent == IF e.type = "DIR" THEN [itable[d] EXCEPT !.nlink = @ - 1] ELSE itable[d]
    IN  /\ th[p].pc = "unlink_ip"
        /\ lockable(s)
        /\ e.type # "DIR" \/ isdirempty(e.inum)
        /\ itable' = [itable EXCEPT ![s] = e, ![d] = iunlock(parent)]
        /\ dinode' = iupdate(dinode, parent)
        /\ dir' = dirlink(parent, name(p), Nil)
        /\ th' = [after_iput(p, <<d>>, "unlink_end") EXCEPT ![p].dp = Nil]
        /\ UNCHANGED <<cwd, file, calls>>

unlink_end(p) ==
    LET s == th[p].ip
        e == [itable[s] EXCEPT !.nlink = @ - 1]
    IN  /\ th[p].pc = "unlink_end"
        /\ itable' = [itable EXCEPT ![s] = iunlock(e)]
        /\ dinode' = iupdate(dinode, e)
        /\ th' = return_iput(p, <<s>>)
        /\ UNCHANGED <<dir, cwd, file, calls>>

-----------------------------------------------------------------------------
(* link().                                                                 *)

(* Mutant: the link is made without being counted.                         *)
link_uncounted(p) ==
    LET s == th[p].ip
        e == iunlock(ilock(p, s))
    IN  /\ th[p].pc = "link"
        /\ lockable(s)
        /\ IF e.type = "DIR"
             THEN /\ itable' = [itable EXCEPT ![s] = e]
                  /\ th' = return_iput(p, <<s>>)
             ELSE /\ itable' = idup([itable EXCEPT ![s] = e], cwd[p])
                  /\ th' = [to(p, "namex") EXCEPT ![p].cur = cwd[p], ![p].path = th[p].link]
        /\ UNCHANGED <<dinode, dir, cwd, file, calls>>

(* The count goes up first; then namex() looks for the new parent.         *)
link(p) ==
    LET s == th[p].ip
        e == ilock(p, s)
        more == [e EXCEPT !.nlink = @ + 1]
    IN  /\ th[p].pc = "link"
        /\ lockable(s)
        /\ IF e.type = "DIR"
             THEN /\ itable' = [itable EXCEPT ![s] = iunlock(e)]
                  /\ th' = return_iput(p, <<s>>)
                  /\ UNCHANGED dinode
             ELSE /\ itable' = idup([itable EXCEPT ![s] = iunlock(more)], cwd[p])
                  /\ dinode' = iupdate(dinode, more)
                  /\ th' = [to(p, "namex") EXCEPT ![p].cur = cwd[p], ![p].path = th[p].link]
        /\ UNCHANGED <<dir, cwd, file, calls>>

(* dirlink() enters the name, or fails: the name exists, or the disk is    *)
(* full.  The reference dirlookup() takes to what the name stands for is   *)
(* dropped at once, and that inode has a link: the two cancel out.         *)
link_dp(p) ==
    LET s == th[p].dp
        e == ilock(p, s)
    IN  /\ th[p].pc = "link_dp"
        /\ lockable(s)
        /\ itable' = [itable EXCEPT ![s] = iunlock(e)]
        /\ \/ /\ dirlookup(e, name(p)) = Nil
              /\ dir' = dirlink(e, name(p), itable[th[p].ip].inum)
              /\ th' = return_iput(p, <<s, th[p].ip>>)
           \/ /\ th' = [after_iput(p, <<s>>, "link_bad") EXCEPT ![p].dp = Nil]
              /\ UNCHANGED dir
        /\ UNCHANGED <<dinode, cwd, file, calls>>

link_bad(p) ==
    LET s == th[p].ip
        e == [ilock(p, s) EXCEPT !.nlink = @ - 1]
    IN  /\ th[p].pc = "link_bad"
        /\ lockable(s)
        /\ itable' = [itable EXCEPT ![s] = iunlock(e)]
        /\ dinode' = iupdate(dinode, e)
        /\ th' = return_iput(p, <<s>>)
        /\ UNCHANGED <<dir, cwd, file, calls>>

-----------------------------------------------------------------------------
(* chdir(): the old directory is put before p->cwd is set to the new one.  *)

chdir(p) ==
    LET s == th[p].ip
        e == ilock(p, s)
    IN  /\ th[p].pc = "chdir"
        /\ lockable(s)
        /\ itable' = [itable EXCEPT ![s] = iunlock(e)]
        /\ th' = IF e.type = "DIR" THEN after_iput(p, <<cwd[p]>>, "chdir_end")
                 ELSE return_iput(p, <<s>>)
        /\ UNCHANGED <<dinode, dir, cwd, file, calls>>

chdir_end(p) ==
    /\ th[p].pc = "chdir_end"
    /\ cwd' = [cwd EXCEPT ![p] = th[p].ip]
    /\ th' = [th EXCEPT ![p] = Idle]
    /\ UNCHANGED <<dinode, dir, itable, file, calls>>

-----------------------------------------------------------------------------
Next ==
    \E p \in Procs :
        \/ syscall(p) \/ close(p)
        \/ namex_end(p) \/ namex(p)
        \/ open(p) \/ open_file(p)
        \/ create(p) \/ create_exists(p) \/ create_init(p) \/ create_fails(p)
        \/ create_failed(p) \/ mkdir_end(p)
        \/ unlink(p) \/ unlink_not_empty(p) \/ unlink_ip(p) \/ unlink_end(p)
        \/ link(p) \/ link_dp(p) \/ link_bad(p)
        \/ chdir(p) \/ chdir_end(p)
        \/ iput(p)

Spec == Init /\ [][Next]_vars

-----------------------------------------------------------------------------
(* Properties.                                                             *)

(* What p points at: its current directory (until chdir() has put it), its *)
(* file, and the inodes of its call.                                       *)
Pointers(p) ==
    <<IF "chdir_end" \in {th[p].next, th[p].pc} THEN Nil ELSE cwd[p],
      file[p], th[p].cur, th[p].ip, th[p].dp>> \o th[p].puts
References(s) ==
    UNION {LET q == Pointers(p) IN {p} \X {k \in DOMAIN q : q[k] = s} : p \in Procs}

(* ip->ref counts the pointers to the inode, as the comment on the inode   *)
(* table says; an entry no pointer is left to can be recycled.             *)
RefExact == \A s \in Slots : itable[s].ref = Cardinality(References(s))

(* iget() never makes a second entry of an inode, so that its sleep-lock   *)
(* excludes all its users.                                                 *)
OneEntryPerInode ==
    \A s, t \in Slots :
        itable[s].ref > 0 /\ itable[t].ref > 0 /\ itable[s].inum = itable[t].inum => s = t

(* The inodes threads are about to lock.                                   *)
ToLock(p) ==
    CASE th[p].pc = "namex" /\ th[p].path # <<>> -> {th[p].cur}
      [] th[p].pc \in {"open", "create_exists", "create_init", "unlink_ip", "link",
                       "link_bad", "chdir"} -> {th[p].ip}
      [] th[p].pc \in {"create", "unlink", "link_dp"} -> {th[p].dp}
      [] OTHER -> {}

(* ilock() and unlink() do not panic: an inode is allocated when it is     *)
(* locked, and what unlink() takes a link from has one.                    *)
NoPanic ==
    \A p \in Procs :
        /\ \A s \in ToLock(p) :
              /\ itable[s].ref > 0
              /\ lockable(s) => ilock(p, s).type # "FREE"
        /\ th[p].pc = "unlink_ip" /\ lockable(th[p].ip) => ilock(p, th[p].ip).nlink >= 1

(* Names in directories never dangle: what a directory names is allocated  *)
(* and counts at least the names it has, whatever create(), link() and     *)
(* unlink() are in progress.                                               *)
Naming(i) ==
    {<<d, n>> \in {d \in Inums : dinode[d].type = "DIR"} \X Names : dir[d][n] = i}
NamesAreCounted ==
    \A i \in Inums :
        LET names == Naming(i) IN
        names # {} => dinode[i].type # "FREE" /\ dinode[i].nlink >= Cardinality(names)

(* "Must be called after every change": an inode nobody has locked is the  *)
(* same in the table and on disk.                                          *)
TableAgreesWithDisk ==
    \A s \in Slots :
        LET e == itable[s] IN
        e.ref > 0 /\ e.valid = 1 /\ e.lock = Nil =>
            dinode[e.inum] = [type |-> e.type, nlink |-> e.nlink]

(* "ip->ref == 1 means no other process can have ip locked, so this        *)
(* acquiresleep() won't block (or deadlock)": iput() never waits.          *)
IputDoesNotBlock ==
    \A p \in Procs : th[p].pc = "iput" /\ frees(Head(th[p].puts)) => lockable(Head(th[p].puts))

(* Threads do not wait for each other in a circle, though unlink() and     *)
(* create() lock an inode while they hold that of its directory: one of    *)
(* the threads that are in a call can go on, and iput() never waits.       *)
Waits(p) ==
    \/ \E s \in ToLock(p) : ~lockable(s)
    \/ th[p].pc = "iput" /\ frees(Head(th[p].puts)) /\ ~lockable(Head(th[p].puts))
NoDeadlock ==
    /\ IputDoesNotBlock
    /\ (\E p \in Procs : th[p].pc # "idle") => \E p \in Procs : th[p].pc # "idle" /\ ~Waits(p)

(* What iget(), idup() and iput() keep true of the inode table together:   *)
(* its types, one entry per inode, exact reference counts, agreement with  *)
(* the disk, and so no panic of ilock() or unlink().                       *)
TableConsistent == TypeOK /\ OneEntryPerInode /\ RefExact /\ TableAgreesWithDisk /\ NoPanic

=============================================================================
