------------------------------- MODULE Memory -------------------------------
(***************************************************************************)
(* Physical memory and user address spaces: kernel/kalloc.c, the user part *)
(* of kernel/vm.c, kernel/exec.c, and what proc.c, sysproc.c and sysfile.c *)
(* do with pages.                                                          *)
(*                                                                         *)
(* An action is a whole system call.  Calls of different processes share   *)
(* nothing but kmem.freelist, and after the first kalloc that fails a call *)
(* only gives pages back: what another process takes in the meantime has   *)
(* the same effect as if it had taken it before.                           *)
(*                                                                         *)
(* Pages of physical memory are numbers from 1; which free page kalloc     *)
(* returns makes no difference, so it is the least.  A page holds one      *)
(* value: "junk" from kfree or kalloc, "zero", or what was written last.   *)
(* A page table is a record of its root page, its interior pages (by level *)
(* and virtual address) and its leaf entries (by virtual page number).     *)
(* A word is one unit of address.                                          *)
(***************************************************************************)
EXTENDS Integers, Sequences, FiniteSets, SequencesExt

CONSTANTS
    Slots, initproc,    \* the process table, and the slot of the first process
    NPAGES,             \* pages between end and PHYSTOP
    PGSIZE,
    FAN,                \* entries of a page-table page
    Wrap,               \* 2^64: addresses are taken modulo Wrap
    USERSTACK, MAXARG,
    ALIGN,              \* alignment of the stack pointer
    Increments,         \* the n of sbrk
    ExecCalls,          \* calls of exec: the file (magic, program headers), argv (the array's
                        \* address, the strings' addresses and lengths), and short
    Buffers,            \* user buffers of other calls: address and length
    MaxKernelPages      \* bound on the pages held by pipes

VARIABLES
    free,               \* kmem.freelist
    data,               \* what each page holds
    proc,               \* state, sz, trapframe and pagetable of each slot
    pipes,              \* pages that pipealloc has taken
    panicked

vars == <<free, data, proc, pipes, panicked>>

Pages == 1..NPAGES
MAXVA == FAN * FAN * FAN
TRAMPOLINE == MAXVA - 1
TRAPFRAME == TRAMPOLINE - 1
trampoline == 0         \* the kernel's page with trampoline.S

\* There is too little memory to reach TRAPFRAME by sbrk or exec.
ASSUME MemoryAssumption ==
    /\ initproc \in Slots /\ NPAGES < TRAPFRAME /\ MAXVA * PGSIZE < Wrap

PGROUNDUP(a) == ((a + PGSIZE - 1) \div PGSIZE) * PGSIZE
PageOf(a) == a \div PGSIZE

NoTable == [root |-> 0]
Unused == [state |-> "UNUSED", sz |-> 0, trapframe |-> 0, table |-> NoTable]

-----------------------------------------------------------------------------
(* kalloc.c and vm.c.  x is a record of the free pages, their contents,    *)
(* the page table t under construction, the page pa that kalloc returned,  *)
(* whether the last operation succeeded, and whether a panic was met.      *)

Machine(t) == [free |-> free, data |-> data, t |-> t, pa |-> 0, ok |-> TRUE, panic |-> FALSE]

panic(x) == [x EXCEPT !.panic = TRUE, !.ok = FALSE]

kalloc(x) ==
    IF x.free = {} THEN [x EXCEPT !.ok = FALSE, !.pa = 0]
    ELSE [x EXCEPT !.pa = Min(x.free), !.free = @ \ {Min(@)}, !.data[Min(x.free)] = "junk",
                   !.ok = TRUE]

kfree(x, pa) ==
    IF pa \notin Pages \/ pa \in x.free THEN panic(x)
    ELSE [x EXCEPT !.free = @ \cup {pa}, !.data[pa] = "junk"]

memset(x) == [x EXCEPT !.data[x.pa] = "zero"]

\* the page-table pages on the way to the entry of va, from the root down
Interior(va) == <<<<1, va \div (FAN * FAN)>>, <<0, va \div FAN>>>>

walk(x, va, alloc) ==
    LET level(y, key) ==
            LET z == kalloc(y)
            IN  IF ~y.ok \/ key \in DOMAIN y.t.node THEN y
                ELSE IF ~alloc \/ ~z.ok THEN [y EXCEPT !.ok = FALSE]
                ELSE [memset(z) EXCEPT !.t.node = @ @@ (key :> z.pa)]
    IN  IF va >= MAXVA THEN panic(x) ELSE FoldLeft(level, [x EXCEPT !.ok = TRUE], Interior(va))

\* user pages only: 0 if va has no entry that the user may use
walkaddr(t, va) ==
    IF va < MAXVA /\ va \in DOMAIN t.leaf /\ "U" \in t.leaf[va].perm THEN t.leaf[va].pa ELSE 0

\* one page, as in every call for a user page table
mappages(x, va, pa, perm) ==
    LET y == walk(x, va, TRUE)
    IN  IF ~y.ok THEN y
        ELSE IF va \in DOMAIN y.t.leaf THEN panic(y)
        ELSE [y EXCEPT !.t.leaf = @ @@ (va :> [pa |-> pa, perm |-> perm])]

uvmunmap(x, va, npages, do_free) ==
    LET unmap(y, k) ==
            LET a == va + k - 1
                z == IF do_free THEN kfree(y, y.t.leaf[a].pa) ELSE y
            IN  IF a \notin DOMAIN y.t.leaf THEN panic(y)
                ELSE [z EXCEPT !.t.leaf = Restrict(@, DOMAIN @ \ {a})]
    IN  FoldLeft(unmap, x, [k \in 1..npages |-> k])

uvmcreate(x) ==
    LET y == kalloc(x)
    IN  IF ~y.ok THEN y
        ELSE [memset(y) EXCEPT !.t = [root |-> y.pa, node |-> <<>>, leaf |-> <<>>]]

uvmdealloc(x, oldsz, newsz) ==
    IF newsz >= oldsz THEN [x |-> x, sz |-> oldsz]
    ELSE LET from == PageOf(PGROUNDUP(newsz))
             n == PageOf(PGROUNDUP(oldsz)) - from
         IN  [x |-> IF n > 0 THEN uvmunmap(x, from, n, TRUE) ELSE x, sz |-> newsz]

\* Mutant: the page is not given back when there is none for the page table.
uvmalloc_leaks(x, oldsz, newsz, xperm) ==
    LET first == PageOf(PGROUNDUP(oldsz))
        count == PageOf(PGROUNDUP(newsz)) - first
        undo(y, a) == uvmdealloc(y, a * PGSIZE, first * PGSIZE).x
        grow(y, k) ==
            LET a == first + k - 1
                z == kalloc(y)
                m == mappages(memset(z), a, z.pa, {"R", "U"} \cup xperm)
            IN  IF ~y.ok THEN y
                ELSE IF ~z.ok THEN [undo(y, a) EXCEPT !.ok = FALSE]
                ELSE IF ~m.ok THEN [undo(m, a) EXCEPT !.ok = FALSE]
                ELSE m
        r == FoldLeft(grow, [x EXCEPT !.ok = TRUE], [k \in 1..count |-> k])
    IN  IF newsz < oldsz THEN [x |-> x, sz |-> oldsz]
        ELSE [x |-> r, sz |-> IF r.ok THEN newsz ELSE 0]

\* returns the machine and the new size, 0 on error
uvmalloc(x, oldsz, newsz, xperm) ==
    LET first == PageOf(PGROUNDUP(oldsz))
        count == PageOf(PGROUNDUP(newsz)) - first
        undo(y, a) == uvmdealloc(y, a * PGSIZE, first * PGSIZE).x
        grow(y, k) ==
            LET a == first + k - 1
                z == kalloc(y)
                m == mappages(memset(z), a, z.pa, {"R", "U"} \cup xperm)
            IN  IF ~y.ok THEN y
                ELSE IF ~z.ok THEN [undo(y, a) EXCEPT !.ok = FALSE]
                ELSE IF ~m.ok THEN [undo(kfree(m, z.pa), a) EXCEPT !.ok = FALSE]
                ELSE m
        r == FoldLeft(grow, [x EXCEPT !.ok = TRUE], [k \in 1..count |-> k])
    IN  IF newsz < oldsz THEN [x |-> x, sz |-> oldsz]
        ELSE [x |-> r, sz |-> IF r.ok THEN newsz ELSE 0]

freewalk(x) ==
    LET pages == SetToSeq(Range(x.t.node) \cup {x.t.root})
    IN  IF DOMAIN x.t.leaf # {} THEN panic(x)
        ELSE [FoldLeft(kfree, x, pages) EXCEPT !.t = NoTable]

uvmfree(x, sz) == freewalk(uvmunmap(x, 0, PageOf(PGROUNDUP(sz)), TRUE))

\* Mutant: the entry gets the rights of an ordinary page, not those of the parent.
uvmcopy_drops_flags(x, old, sz) ==
    LET copy(y, k) ==
            LET i == k - 1
                z == kalloc(y)
                filled == [z EXCEPT !.data[z.pa] = y.data[old.leaf[i].pa]]
                m == mappages(filled, i, z.pa, {"R", "W", "X", "U"})
                err(w) == [uvmunmap(w, 0, i, TRUE) EXCEPT !.ok = FALSE]
            IN  IF ~y.ok THEN y
                ELSE IF i \notin DOMAIN old.leaf THEN panic(y)
                ELSE IF ~z.ok THEN err(y)
                ELSE IF ~m.ok THEN err(kfree(m, z.pa))
                ELSE m
    IN  FoldLeft(copy, [x EXCEPT !.ok = TRUE], [k \in 1..PageOf(PGROUNDUP(sz)) |-> k])

\* old is the parent's table, x.t the child's
uvmcopy(x, old, sz) ==
    LET copy(y, k) ==
            LET i == k - 1
                z == kalloc(y)
                filled == [z EXCEPT !.data[z.pa] = y.data[old.leaf[i].pa]]
                m == mappages(filled, i, z.pa, old.leaf[i].perm)
                err(w) == [uvmunmap(w, 0, i, TRUE) EXCEPT !.ok = FALSE]
            IN  IF ~y.ok THEN y
                ELSE IF i \notin DOMAIN old.leaf THEN panic(y)
                ELSE IF ~z.ok THEN err(y)
                ELSE IF ~m.ok THEN err(kfree(m, z.pa))
                ELSE m
    IN  FoldLeft(copy, [x EXCEPT !.ok = TRUE], [k \in 1..PageOf(PGROUNDUP(sz)) |-> k])

uvmclear(x, va) ==
    IF va \notin DOMAIN x.t.leaf THEN panic(x) ELSE [x EXCEPT !.t.leaf[va].perm = @ \ {"U"}]

\* the pages of len bytes at va
Touched(va, len) == [k \in 1..PageOf(va + len - 1) - PageOf(va) + 1 |-> PageOf(va) + k - 1]

copyout(x, dstva, len, v) ==
    LET put(y, a) ==
            IF ~y.ok THEN y
            ELSE IF walkaddr(y.t, a) = 0 \/ "W" \notin y.t.leaf[a].perm THEN [y EXCEPT !.ok = FALSE]
            ELSE [y EXCEPT !.data[y.t.leaf[a].pa] = v]
    IN  FoldLeft(put, [x EXCEPT !.ok = TRUE], Touched(dstva, len))

\* whether copyin or copyinstr of len bytes at srcva succeeds
copyin(t, srcva, len) == \A k \in DOMAIN Touched(srcva, len) : walkaddr(t, Touched(srcva, len)[k]) # 0

-----------------------------------------------------------------------------
(* proc.c: page tables of processes.                                       *)

\* y: after uvmcreate, after the first mappages, after the second
proc_pagetable_mapped(y) ==
    IF y.ok THEN y
    ELSE [uvmfree(uvmunmap(y, TRAMPOLINE, 1, FALSE), 0) EXCEPT !.ok = FALSE]

proc_pagetable_map(y, trapframe) ==
    IF y.ok THEN proc_pagetable_mapped(mappages(y, TRAPFRAME, trapframe, {"R", "W"}))
    ELSE [uvmfree(y, 0) EXCEPT !.ok = FALSE]

proc_pagetable_created(y, trapframe) ==
    IF y.ok THEN proc_pagetable_map(mappages(y, TRAMPOLINE, trampoline, {"R", "X"}), trapframe)
    ELSE y

proc_pagetable(x, trapframe) == proc_pagetable_created(uvmcreate(x), trapframe)

proc_freepagetable(x, sz) ==
    uvmfree(uvmunmap(uvmunmap(x, TRAMPOLINE, 1, FALSE), TRAPFRAME, 1, FALSE), sz)

\* freeproc of a process with this trapframe and x.t as its page table
freeproc(x, trapframe, sz) ==
    LET y == IF trapframe # 0 THEN kfree(x, trapframe) ELSE x
    IN  IF x.t # NoTable THEN proc_freepagetable(y, sz) ELSE y

\* allocproc's pages: returns the machine and the trapframe
allocproc_table(z, trapframe) ==
    IF z.ok THEN [x |-> z, trapframe |-> trapframe]
    ELSE [x |-> [freeproc(z, trapframe, 0) EXCEPT !.ok = FALSE], trapframe |-> 0]

allocproc(x) ==
    LET y == kalloc(x)
    IN  IF y.ok THEN allocproc_table(proc_pagetable(y, y.pa), y.pa)
        ELSE [x |-> y, trapframe |-> 0]

-----------------------------------------------------------------------------
(* exec.c.                                                                 *)

flags2perm(flags) == flags \cap {"W", "X"}

\* the pages of the segment are loaded through their physical addresses; short is
\* whether readi comes back with less
loadseg(x, ph, short) ==
    LET first == PageOf(ph.vaddr)
        load(y, k) ==
            LET pa == walkaddr(y.t, first + k - 1)
            IN  IF pa = 0 THEN panic(y) ELSE [y EXCEPT !.data[pa] = ph.text]
    IN  IF ph.filesz = 0 THEN x
        ELSE IF short THEN [x EXCEPT !.ok = FALSE]
        ELSE FoldLeft(load, x, [k \in 1..PageOf(PGROUNDUP(ph.filesz)) |-> k])

\* the loop over the program headers; e is the machine and sz
exec_segment(e, ph, short) ==
    LET end == (ph.vaddr + ph.memsz) % Wrap
        load(a) == IF a.sz = 0 THEN [e EXCEPT !.x = [a.x EXCEPT !.ok = FALSE]]
                   ELSE [x |-> loadseg(a.x, ph, short), sz |-> a.sz]
    IN  IF ~e.x.ok \/ ph.type # "LOAD" THEN e
        ELSE IF ph.memsz < ph.filesz \/ end < ph.vaddr \/ ph.vaddr % PGSIZE # 0
        THEN [e EXCEPT !.x.ok = FALSE]
        ELSE load(uvmalloc(e.x, e.sz, end, flags2perm(ph.flags)))

\* the argument strings and the array of pointers to them; e also holds sp
exec_stack(e, lens, stackbase) ==
    LET push(y, len) ==
            LET sp0 == y.sp - len
                sp == sp0 - (sp0 % ALIGN)
            IN  IF ~y.x.ok THEN y
                ELSE IF sp < stackbase THEN [y EXCEPT !.x.ok = FALSE]
                ELSE [y EXCEPT !.sp = sp, !.x = copyout(y.x, sp, len, "args")]
    IN  IF Len(lens) > MAXARG THEN [e EXCEPT !.x.ok = FALSE]
        ELSE FoldLeft(push, [x |-> e.x, sz |-> e.sz, sp |-> e.sz], Append(lens, Len(lens) + 1))

exec_bad(x, sz) == [x |-> [proc_freepagetable(x, sz) EXCEPT !.ok = FALSE], sz |-> 0]

exec_commit(e, sz) == IF e.x.ok THEN [x |-> e.x, sz |-> sz] ELSE exec_bad(e.x, sz)

\* the guard page and the user stack; a is what uvmalloc returned
exec_stacked(a, sz, lens) ==
    LET guarded == [a EXCEPT !.x = uvmclear(@, PageOf(a.sz) - (USERSTACK + 1))]
    IN  IF a.sz = 0 THEN exec_bad(a.x, sz)
        ELSE exec_commit(exec_stack(guarded, lens, a.sz - USERSTACK * PGSIZE), a.sz)

exec_loaded(e, lens) ==
    LET sz == PGROUNDUP(e.sz)
    IN  IF ~e.x.ok THEN exec_bad(e.x, e.sz)
        ELSE exec_stacked(uvmalloc(e.x, sz, sz + (USERSTACK + 1) * PGSIZE, {"W"}), sz, lens)

exec_load(x, program, lens, short) ==
    LET segment(e, ph) == exec_segment(e, ph, short)
    IN  IF ~x.ok THEN [x |-> x, sz |-> 0]
        ELSE exec_loaded(FoldLeft(segment, [x |-> x, sz |-> 0], program.ph), lens)

\* returns the machine with the new table, its size, and ok; on failure the new
\* table has been freed
exec(x, trapframe, program, lens, short) ==
    IF ~program.magic THEN [x |-> [x EXCEPT !.ok = FALSE], sz |-> 0]
    ELSE exec_load(proc_pagetable(x, trapframe), program, lens, short)

-----------------------------------------------------------------------------
(* System calls.                                                           *)

Live == {s \in Slots : proc[s].state = "USED"}

commit(x, s, p) ==
    /\ free' = x.free /\ data' = x.data
    /\ panicked' = x.panic
    /\ proc' = [proc EXCEPT ![s] = p]

\* the machine, and the new p->sz: the old one if there is no memory
growproc(p, n) ==
    LET newsz == (p.sz + n) % Wrap
        kept(r) == [r EXCEPT !.sz = IF r.sz = 0 THEN p.sz ELSE r.sz]
    IN  IF n > 0 THEN kept(uvmalloc(Machine(p.table), p.sz, newsz, {"W"}))
        ELSE uvmdealloc(Machine(p.table), p.sz, newsz)

sys_sbrk(s, n) ==
    /\ s \in Live
    /\ \E r \in {growproc(proc[s], n)} :
          commit(r.x, s, [proc[s] EXCEPT !.table = r.x.t, !.sz = r.sz])
    /\ UNCHANGED pipes

\* s forks into the free slot c
fork(s, c) ==
    /\ s \in Live /\ c \notin Live
    /\ \E a \in {allocproc(Machine(NoTable))} :
          \/ ~a.x.ok /\ commit(a.x, c, Unused)
          \/ /\ a.x.ok
             /\ \E u \in {uvmcopy(a.x, proc[s].table, proc[s].sz)} :
                   IF ~u.ok THEN commit(freeproc(u, a.trapframe, 0), c, Unused)
                   ELSE commit(u, c, [state |-> "USED", sz |-> proc[s].sz,
                                      trapframe |-> a.trapframe, table |-> u.t])
    /\ UNCHANGED pipes

\* exit, and the wait of the parent that frees the process
exit_wait(s) ==
    LET x == freeproc(Machine(proc[s].table), proc[s].trapframe, proc[s].sz)
    IN  s \in Live \ {initproc} /\ commit(x, s, Unused) /\ UNCHANGED pipes

\* fetchaddr: the word at addr lies below p->sz
fetchaddr(p, addr) == addr < p.sz /\ addr + 1 <= p.sz /\ copyin(p.table, addr, 1)

\* fetchstr: a string of len bytes, its end included, fits in the page
fetchstr(p, arg) == arg.len <= PGSIZE /\ copyin(p.table, arg.va, arg.len)

\* The argument strings are copied to pages of the kernel's first: a record of the
\* machine and of the pages taken.
sys_exec_args(x, p, argv) ==
    LET take(y, k) ==
            LET z == kalloc(y.x)
            IN  IF ~y.x.ok THEN y
                ELSE IF k > MAXARG \/ ~fetchaddr(p, argv.at + k - 1) THEN [y EXCEPT !.x.ok = FALSE]
                ELSE IF k > Len(argv.arg) THEN y
                ELSE IF ~z.ok THEN [y EXCEPT !.x = z]
                ELSE [x |-> [z EXCEPT !.ok = fetchstr(p, argv.arg[k])], taken |-> Append(y.taken, z.pa)]
    IN  FoldLeft(take, [x |-> x, taken |-> <<>>], [k \in 1..Len(argv.arg) + 1 |-> k])

sys_exec(s, c) ==
    LET p == proc[s]
        lens == [k \in DOMAIN c.argv.arg |-> c.argv.arg[k].len]
        \* the old page table, which exec frees when nothing can fail any more
        old(x) == proc_freepagetable([x EXCEPT !.t = p.table], p.sz)
    IN  /\ s \in Live
        /\ \E a \in {sys_exec_args(Machine(NoTable), p, c.argv)} :
              \/ ~a.x.ok /\ commit(FoldLeft(kfree, a.x, a.taken), s, p)
              \/ /\ a.x.ok
                 /\ \E e \in {exec(a.x, p.trapframe, c.file, lens, c.short)} :
                       IF e.x.ok
                       THEN commit(FoldLeft(kfree, old(e.x), a.taken), s,
                                   [p EXCEPT !.table = e.x.t, !.sz = e.sz])
                       ELSE commit(FoldLeft(kfree, e.x, a.taken), s, p)
        /\ UNCHANGED pipes

\* a call, such as read, that writes to a buffer of its caller
copyout_call(s, b) ==
    LET x == copyout(Machine(proc[s].table), b.va, b.len, "data")
    IN  s \in Live /\ commit(x, s, proc[s]) /\ UNCHANGED pipes

pipealloc ==
    /\ Cardinality(pipes) < MaxKernelPages /\ free # {}
    /\ LET x == kalloc(Machine(NoTable))
       IN free' = x.free /\ data' = x.data /\ pipes' = pipes \cup {x.pa}
    /\ UNCHANGED <<proc, panicked>>

pipeclose(pi) ==
    LET x == kfree(Machine(NoTable), pi)
    IN  free' = x.free /\ data' = x.data /\ pipes' = pipes \ {pi} /\ panicked' = x.panic /\ UNCHANGED proc

\* kinit has freed all pages; userinit made the first process
Init ==
    LET boot == [free |-> Pages, data |-> [a \in Pages |-> "junk"], t |-> NoTable, pa |-> 0,
                 ok |-> TRUE, panic |-> FALSE]
        uvmfirst(y) == mappages([y EXCEPT !.data[y.pa] = "initcode"], 0, y.pa, {"R", "W", "X", "U"})
    IN  /\ \E a \in {allocproc(boot)} : \E x \in {uvmfirst(kalloc(a.x))} :
             /\ free = x.free /\ data = x.data /\ panicked = x.panic
             /\ proc = [s \in Slots |-> IF s # initproc THEN Unused
                                        ELSE [state |-> "USED", sz |-> PGSIZE,
                                              trapframe |-> a.trapframe, table |-> x.t]]
        /\ pipes = {}

Next ==
    /\ ~panicked
    /\ \/ \E s \in Slots :
            \/ \E n \in Increments : sys_sbrk(s, n)
            \/ \E c \in Slots : fork(s, c)
            \/ exit_wait(s)
            \/ \E c \in ExecCalls : sys_exec(s, c)
            \/ \E b \in Buffers : copyout_call(s, b)
       \/ pipealloc
       \/ \E pi \in pipes : pipeclose(pi)

Spec == Init /\ [][Next]_vars

-----------------------------------------------------------------------------
(* Properties.                                                             *)

UserPages(s) == PageOf(PGROUNDUP(proc[s].sz))

\* who holds physical page a
Owners(a) ==
    {<<"free">> : z \in {a} \cap free}
    \cup {<<"pipe">> : z \in {a} \cap pipes}
    \cup {<<"trapframe", s>> : s \in {r \in Live : proc[r].trapframe = a}}
    \cup {<<"root", s>> : s \in {r \in Live : proc[r].table.root = a}}
    \cup UNION {{<<"node", s, key>> : key \in {k \in DOMAIN proc[s].table.node :
                                                proc[s].table.node[k] = a}} : s \in Live}
    \cup UNION {{<<"user", s, va>> : va \in {v \in 0..UserPages(s) - 1 :
                                                proc[s].table.leaf[v].pa = a}} : s \in Live}

\* Between system calls every page of memory is free or belongs to one owner, and a
\* page table maps exactly the pages below p->sz, the trapframe and the trampoline,
\* the last two out of the user's reach: whatever allocation fails in the middle of
\* fork, exec or sbrk, and whatever panic of kfree, walk, mappages, uvmunmap and
\* freewalk guards against, no page is lost, shared or freed twice.
MemoryConsistent ==
    /\ ~panicked
    /\ \A s \in Slots : proc[s].state \in {"USED", "UNUSED"} /\ (s \notin Live => proc[s] = Unused)
    /\ \A s \in Live :
        LET t == proc[s].table
        IN  /\ DOMAIN t.leaf = 0..UserPages(s) - 1 \cup {TRAPFRAME, TRAMPOLINE}
            /\ \A va \in DOMAIN t.leaf : Range(Interior(va)) \subseteq DOMAIN t.node
            /\ t.leaf[TRAPFRAME] = [pa |-> proc[s].trapframe, perm |-> {"R", "W"}]
            /\ t.leaf[TRAMPOLINE] = [pa |-> trampoline, perm |-> {"R", "X"}]
    /\ \A a \in Pages : Cardinality(Owners(a)) = 1

Page(d, perm) == [data |-> d, perm |-> perm]

\* the image that a program's headers describe
ImageOf(g) ==
    LET seg == SelectSeq(g.ph, LAMBDA ph : ph.type = "LOAD")
        end(i) == PageOf(PGROUNDUP(seg[i].vaddr + seg[i].memsz))
        Covers(i, k) == seg[i].vaddr <= k * PGSIZE /\ k * PGSIZE < seg[i].vaddr + seg[i].filesz
        size == Max({0} \cup {end(i) : i \in DOMAIN seg})
        content(k) == LET c == {i \in DOMAIN seg : Covers(i, k)}
                      IN  IF c = {} THEN "zero" ELSE seg[Max(c)].text
        flags(k) == seg[Min({i \in DOMAIN seg : end(i) > k})].flags
    IN  [k \in 1..size |-> Page(content(k - 1), {"R", "U"} \cup (flags(k - 1) \cap {"W", "X"}))]

Valid(g) ==
    /\ g.magic
    /\ \A i \in DOMAIN g.ph : g.ph[i].type = "LOAD" =>
        g.ph[i].memsz >= g.ph[i].filesz /\ g.ph[i].vaddr % PGSIZE = 0

\* a guard page that the user cannot use lies below the stack; the arguments are at
\* the top of the stack
Loadable ==
    {ImageOf(g) \o <<Page("zero", {"R", "W"})>> \o [k \in 1..USERSTACK |-> Page(stack[k], {"R", "U", "W"})] :
        g \in {c.file : c \in {d \in ExecCalls : Valid(d.file)}},
        stack \in {f \in [1..USERSTACK -> {"zero", "args"}] : f[USERSTACK] = "args"}}

NoImage == <<Page("none", {})>>

image ==
    [s \in Slots |->
        IF s \notin Live THEN NoImage
        ELSE [k \in 1..UserPages(s) |->
                Page(data[proc[s].table.leaf[k - 1].pa], proc[s].table.leaf[k - 1].perm)]]

PM == INSTANCE PrivateMemory WITH
        Boot <- {[s \in Slots |-> IF s = initproc THEN <<Page("initcode", {"R", "W", "X", "U"})>>
                                  ELSE NoImage]},
        Fresh <- Page("zero", {"R", "U", "W"})

\* Page tables and kalloc implement private memories: fork copies contents and
\* rights, sbrk adds zeroed pages, exec loads the program's image with its guard
\* page or leaves the old one, a failed call changes nothing, and nobody sees
\* another's pages or the junk of a freed one.
ImplementsPrivateMemory == PM!Spec
=============================================================================
