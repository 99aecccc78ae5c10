--------------------------- MODULE PrivateMemory ---------------------------
(***************************************************************************)
(* What the kernel promises about user memory: every process has its own   *)
(* sequence of pages, changed only by its own stores and system calls.     *)
(* A call takes effect as a whole or not at all.                           *)
(***************************************************************************)
EXTENDS Naturals, Sequences

CONSTANTS
    Slots,      \* places for processes
    NoImage,    \* the image of a free slot
    Boot,       \* the images with which the first process may start
    Loadable,   \* the images that exec can load
    Fresh       \* a new page of the heap

VARIABLE image  \* image[s] is a sequence of pages: contents and access rights

Init == image \in Boot

Store(s) ==
    /\ image[s] # NoImage
    /\ image'[s] # NoImage /\ Len(image'[s]) = Len(image[s])
    /\ \A k \in 1..Len(image[s]) :
        \/ image'[s][k] = image[s][k]
        \/ {"U", "W"} \subseteq image[s][k].perm /\ image'[s][k].perm = image[s][k].perm

Grow(s) ==
    /\ image[s] # NoImage /\ image'[s] # NoImage
    /\ \E n \in 1..Len(image'[s]) : image'[s] = image[s] \o [k \in 1..n |-> Fresh]

Shrink(s) ==
    /\ image[s] # NoImage
    /\ \E n \in 0..Len(image[s]) : image'[s] = SubSeq(image[s], 1, n)

Exec(s) == image[s] # NoImage /\ image'[s] \in Loadable

Fork(s) == image[s] = NoImage /\ \E p \in Slots \ {s} : image'[s] = image[p] /\ image[p] # NoImage

Free(s) == image[s] # NoImage /\ image'[s] = NoImage

Next ==
    \E s \in Slots :
        /\ \A r \in Slots \ {s} : image'[r] = image[r]
        /\ DOMAIN image' = Slots
        /\ Store(s) \/ Grow(s) \/ Shrink(s) \/ Exec(s) \/ Fork(s) \/ Free(s)

Spec == Init /\ [][Next]_image
=============================================================================
