-------------------------------- MODULE Mkfs --------------------------------
(***************************************************************************)
(* The file system image that mkfs/mkfs.c builds: the layout of the disk,  *)
(* one inode per file, a root directory with an entry for each, and the    *)
(* bitmap.  An image is a record; mkfs's functions are operators that      *)
(* return the image as they leave it.                                      *)
(*                                                                         *)
(* A block is a function on 0..Width-1: BSIZE bytes when it holds data,    *)
(* NINDIRECT block numbers when it is an indirect block.  A directory      *)
(* entry takes one byte, the number of its inode; names are in FileSys.    *)
(***************************************************************************)
EXTENDS Integers, Sequences, FiniteSets, SequencesExt

CONSTANTS
    FSSIZE,             \* blocks of the file system
    LOGSIZE,            \* blocks of the log
    NINODES,            \* inodes, number 0 included
    BSIZE,              \* bytes of a block
    NDIRECT, NINDIRECT, \* block numbers in an inode, and in an indirect block
    IPB, BPB            \* inodes, and bits of the bitmap, per block

MAXFILE == NDIRECT + NINDIRECT

nbitmap == FSSIZE \div BPB + 1
ninodeblocks == NINODES \div IPB + 1
nmeta == 2 + LOGSIZE + ninodeblocks + nbitmap

sb == [size |-> FSSIZE, ninodes |-> NINODES, nlog |-> LOGSIZE, logstart |-> 2,
       inodestart |-> 2 + LOGSIZE, bmapstart |-> 2 + LOGSIZE + ninodeblocks]

IBLOCK(i) == i \div IPB + sb.inodestart
BBLOCK(b) == b \div BPB + sb.bmapstart

T_DIR == 1
T_FILE == 2
ROOTINO == 1
Inodes == 1..NINODES - 1
DataBlocks == nmeta..FSSIZE - 1
Width == IF BSIZE > NINDIRECT THEN BSIZE ELSE NINDIRECT
zeroes == [k \in 0..Width - 1 |-> 0]

FreeInode == [type |-> 0, nlink |-> 0, size |-> 0, addrs |-> [k \in 0..NDIRECT |-> 0]]

\* the disk after every sector has been written with zeroes
Blank == [inode |-> [i \in Inodes |-> FreeInode], block |-> [b \in DataBlocks |-> zeroes],
          used |-> {}, freeinode |-> 1, freeblock |-> nmeta]

ialloc(m, type) ==
    [m EXCEPT !.inode[m.freeinode] = [FreeInode EXCEPT !.type = type, !.nlink = 1],
              !.freeinode = @ + 1]

\* The block that holds byte off of inode i; taken from the free ones if the
\* inode has none yet.  Returns the image and the block.
append_block(m, i, off) ==
    LET fbn == off \div BSIZE
        entry(d) == IF fbn < NDIRECT THEN d.inode[i].addrs[fbn]
                    ELSE d.block[d.inode[i].addrs[NDIRECT]][fbn - NDIRECT]
        slot == IF fbn < NDIRECT THEN fbn ELSE NDIRECT
        m1 == IF m.inode[i].addrs[slot] # 0 THEN m
              ELSE [m EXCEPT !.inode[i].addrs[slot] = m.freeblock, !.freeblock = @ + 1]
        m2 == IF entry(m1) # 0 THEN m1
              ELSE [m1 EXCEPT !.block[m1.inode[i].addrs[NDIRECT]][fbn - NDIRECT] = m1.freeblock,
                              !.freeblock = @ + 1]
    IN  [image |-> m2, at |-> entry(m2)]

\* iappend: the loop copies up to the end of a block at a time, here a byte
iappend(m, i, bytes) ==
    LET put(d, c) ==
            LET off == d.inode[i].size
                x == append_block(d, i, off)
            IN  [x.image EXCEPT !.block[x.at][off % BSIZE] = c, !.inode[i].size = off + 1]
    IN  FoldLeft(put, m, bytes)

balloc_first(m, used) == [m EXCEPT !.used = 0..used - 1]

\* the size of the root directory becomes a multiple of BSIZE
fix_root(m) == [m EXCEPT !.inode[ROOTINO].size = (@ \div BSIZE + 1) * BSIZE]

\* mkfs's main: the image with one file for each element of files
mkfs(files) ==
    LET root == iappend(ialloc(Blank, T_DIR), ROOTINO, <<ROOTINO, ROOTINO>>)
        add(m, contents) ==
            iappend(iappend(ialloc(m, T_FILE), ROOTINO, <<m.freeinode>>), m.freeinode, contents)
        m == fix_root(FoldLeft(add, root, files))
    IN  balloc_first(m, m.freeblock)
=============================================================================
