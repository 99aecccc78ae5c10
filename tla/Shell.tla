------------------------------- MODULE Shell -------------------------------
(***************************************************************************)
(* init, the shell and the programs it starts (user/init.c, sh.c, echo.c,  *)
(* cat.c) on the descriptors of kernel/sysfile.c, the file table of        *)
(* kernel/file.c and the pipes of kernel/pipe.c.                           *)
(*                                                                         *)
(* A process is the sequence of the system calls it has still to make, one *)
(* step each; runcmd unfolds a command into such a sequence.  The first    *)
(* descriptor of p[] is p[1] here.  A pipe, a file and the console hold    *)
(* sequences of words, a word being what one write() of echo carries; the  *)
(* messages on descriptor 2 are left out.  The console gives the shell the *)
(* lines of input and every other reader an end of file.  What happens     *)
(* inside a call is the subject of the other modules: Pipe for a blocked   *)
(* reader or writer, ProcLife for fork, exit and wait, Memory for exec.    *)
(***************************************************************************)
EXTENDS Integers, FiniteSets, ShellParser

CONSTANTS NPROC, NOFILE, NFILE, NPIPE, PIPESIZE,
          Lines,      \* the lines typed, as tokens
          Files,      \* the files there are at first, with their contents
          MaxFaults   \* calls that may fail for want of memory

ASSUME ShellAssumption ==
    /\ {NPROC, NOFILE, NFILE, NPIPE, PIPESIZE} \subseteq Nat \ {0}
    /\ MaxFaults \in Nat

VARIABLES proc,    \* the process table
          kern,    \* the file table and the pipes
          disk,    \* the contents of the files
          screen,  \* what programs wrote to the console
          input,   \* what the console has still to give the shell
          line,    \* the line typed in this behaviour, and parsecmd of it
          faults,  \* the calls that failed for want of memory
          short    \* a call failed because a table was full

vars == <<proc, kern, disk, screen, input, line, faults, short>>

Slots == 1..NPROC
Fds == 0..NOFILE-1
initproc == 1
EOF_ == <<>>     \* an empty read

-----------------------------------------------------------------------------
(***************************************************************************)
(* kernel/file.c, kernel/pipe.c and the descriptor calls of sysfile.c, on  *)
(* the tables t and a process's descriptors o (0 for a closed one).        *)
(***************************************************************************)
FD_NONE == [ref |-> 0, type |-> "NONE", pipe |-> 0, name |-> "", writable |-> FALSE, off |-> 0]
NoPipe == [open |-> {}, data |-> <<>>]   \* open: TRUE for the write end
Closed == [d \in Fds |-> 0]

First(S) == IF S = {} THEN -1 ELSE Min(S)

filealloc(t) == First({e \in 1..NFILE : t.file[e].ref = 0})
fdalloc(o) == First({d \in Fds : o[d] = 0})

filedup(t, e) == [t EXCEPT !.file[e].ref = @ + 1]

(* The ends in the set given are closed; the page is freed with the last. *)
pipeclose(pi, ends) ==
    IF pi.open \subseteq ends THEN NoPipe ELSE [pi EXCEPT !.open = @ \ ends]

fileclose(t, e) ==
    LET f == t.file[e]
    IN  IF f.ref > 1 THEN [t EXCEPT !.file[e].ref = @ - 1]
        ELSE [file |-> [t.file EXCEPT ![e] = FD_NONE],
              pipe |-> IF f.type # "PIPE" THEN t.pipe
                       ELSE [t.pipe EXCEPT ![f.pipe] = pipeclose(@, {f.writable})]]

(* pipealloc: two files and a page, or nothing. *)
pipealloc(t) ==
    LET e0 == filealloc(t)
        t0 == [t EXCEPT !.file[e0].ref = 1]
        e1 == filealloc(t0)
        pi == First({i \in 1..NPIPE : t.pipe[i].open = {}})
        End(w) == [FD_NONE EXCEPT !.ref = 1, !.type = "PIPE", !.pipe = pi, !.writable = w]
    IN  IF e0 = -1 THEN [ok |-> FALSE, t |-> t]
        ELSE IF e1 = -1 \/ pi = -1 THEN [ok |-> FALSE, t |-> fileclose(t0, e0)]
        ELSE [ok |-> TRUE, e |-> <<e0, e1>>,
              t |-> [file |-> [t.file EXCEPT ![e0] = End(FALSE), ![e1] = End(TRUE)],
                     pipe |-> [t.pipe EXCEPT ![pi].open = BOOLEAN]]]

sys_pipe(t, o) ==
    LET a == pipealloc(t)
        fd0 == fdalloc(o)
        o0 == [o EXCEPT ![fd0] = a.e[1]]
        fd1 == fdalloc(o0)
    IN  IF ~a.ok THEN [ok |-> FALSE, t |-> a.t, o |-> o]
        ELSE IF fd0 = -1 \/ fd1 = -1
          THEN [ok |-> FALSE, t |-> fileclose(fileclose(a.t, a.e[1]), a.e[2]), o |-> o]
        ELSE [ok |-> TRUE, t |-> a.t, o |-> [o0 EXCEPT ![fd1] = a.e[2]], p |-> <<fd0, fd1>>]

(* Mutant: the new descriptor is not counted. *)
sys_dup_uncounted(t, o, d) ==
    LET fd == fdalloc(o)
    IN  IF o[d] = 0 \/ fd = -1 THEN [t |-> t, o |-> o]
        ELSE [t |-> t, o |-> [o EXCEPT ![fd] = o[d]]]

sys_dup(t, o, d) ==
    LET fd == fdalloc(o)
    IN  IF o[d] = 0 \/ fd = -1 THEN [t |-> t, o |-> o]
        ELSE [t |-> filedup(t, o[d]), o |-> [o EXCEPT ![fd] = o[d]]]

sys_close(t, o, d) ==
    IF o[d] = 0 THEN [t |-> t, o |-> o]
    ELSE [t |-> fileclose(t, o[d]), o |-> [o EXCEPT ![d] = 0]]

(***************************************************************************)
(* sys_open on the files dk: O_CREATE makes the file before the file       *)
(* structure and the descriptor are found, O_TRUNC empties it after.       *)
(***************************************************************************)
sys_open(t, o, dk, name, m) ==
    LET exists == name \in DOMAIN dk
        d1 == IF m.create /\ ~exists THEN dk @@ (name :> <<>>) ELSE dk
        e == filealloc(t)
        fd == fdalloc(o)
        f == [FD_NONE EXCEPT !.ref = 1, !.type = IF name = "console" THEN "DEVICE" ELSE "INODE",
                             !.name = name, !.writable = m.write]
    IN  IF name \notin DOMAIN d1 THEN [fd |-> -1, full |-> FALSE, t |-> t, o |-> o, disk |-> d1]
        ELSE IF e = -1 \/ fd = -1 THEN [fd |-> -1, full |-> TRUE, t |-> t, o |-> o, disk |-> d1]
        ELSE [fd |-> fd, full |-> FALSE,
              t |-> [t EXCEPT !.file[e] = f], o |-> [o EXCEPT ![fd] = e],
              disk |-> IF m.trunc THEN [d1 EXCEPT ![name] = <<>>] ELSE d1]

O_RDONLY == [write |-> FALSE, create |-> FALSE, trunc |-> FALSE]
O_RDWR == [write |-> TRUE, create |-> FALSE, trunc |-> FALSE]

(* fileclose of every descriptor in o, as exit() does it: n(e) of them name e. *)
CloseAll(t, o) ==
    LET n(e) == Cardinality({d \in Fds : o[d] = e})
        gone == {e \in 1..NFILE : n(e) > 0 /\ t.file[e].ref = n(e)}
        Ends(i) == {t.file[e].writable : e \in {g \in gone : t.file[g].type = "PIPE" /\ t.file[g].pipe = i}}
    IN  [file |-> [e \in 1..NFILE |-> IF e \in gone THEN FD_NONE ELSE [t.file[e] EXCEPT !.ref = @ - n(e)]],
         pipe |-> [i \in 1..NPIPE |-> IF Ends(i) = {} THEN t.pipe[i] ELSE pipeclose(t.pipe[i], Ends(i))]]

-----------------------------------------------------------------------------
(***************************************************************************)
(* What the user programs do, as sequences of calls.                       *)
(***************************************************************************)
exit_ == <<"exit">>

(***************************************************************************)
(* runcmd: one level of a command; "runcmd" unfolds the next one.          *)
(***************************************************************************)
runcmd_exec(c) == IF c.argv = <<>> THEN <<exit_>> ELSE <<<<"exec", c.argv>>, exit_>>

runcmd_redir(c) ==
    <<<<"close", c.fd>>,
      <<"open", c.file, [write |-> c.fd = 1, create |-> c.fd = 1, trunc |-> c.trunc]>>,
      <<"runcmd", c.cmd>>>>

(* Mutant: the right side does not wait for the left. *)
runcmd_list_no_wait(c) == <<<<"fork1", <<<<"runcmd", c.left>>>>>>, <<"runcmd", c.right>>>>

runcmd_list(c) ==
    <<<<"fork1", <<<<"runcmd", c.left>>>>>>, <<"wait">>, <<"runcmd", c.right>>>>

(* A child of a pipe: its end takes the place of descriptor fd. *)
PipeChild(fd, end, cmd) ==
    <<<<"close", fd>>, <<"dup_p", end>>, <<"close_p", 1>>, <<"close_p", 2>>, <<"runcmd", cmd>>>>

(* Mutants: the right child keeps the write end; the parent waits before it closes. *)
runcmd_pipe_keeps_end(c) ==
    <<<<"pipe">>, <<"fork1", PipeChild(1, 2, c.left)>>,
      <<"fork1", <<<<"close", 0>>, <<"dup_p", 1>>, <<"close_p", 1>>, <<"runcmd", c.right>>>>>>,
      <<"close_p", 1>>, <<"close_p", 2>>, <<"wait">>, <<"wait">>, exit_>>
runcmd_pipe_waits_first(c) ==
    <<<<"pipe">>, <<"fork1", PipeChild(1, 2, c.left)>>, <<"fork1", PipeChild(0, 1, c.right)>>,
      <<"wait">>, <<"wait">>, <<"close_p", 1>>, <<"close_p", 2>>, exit_>>

runcmd_pipe(c) ==
    <<<<"pipe">>, <<"fork1", PipeChild(1, 2, c.left)>>, <<"fork1", PipeChild(0, 1, c.right)>>,
      <<"close_p", 1>>, <<"close_p", 2>>, <<"wait">>, <<"wait">>, exit_>>

runcmd_back(c) == <<<<"fork1", <<<<"runcmd", c.cmd>>>>>>, exit_>>

runcmd(c) ==
    CASE c.type = "EXEC" -> runcmd_exec(c)
      [] c.type = "REDIR" -> runcmd_redir(c)
      [] c.type = "LIST" -> runcmd_list(c)
      [] c.type = "PIPE" -> runcmd_pipe(c)
      [] c.type = "BACK" -> runcmd_back(c)

sh_main == <<<<"sh_open">>, <<"getcmd">>>>

init_main == <<<<"init_open">>, <<"dup", 0>>, <<"dup", 0>>, <<"init_fork">>>>

echo_main(argv) == [i \in 1..Len(argv) |-> IF i = Len(argv) THEN exit_ ELSE <<"echo", argv[i + 1]>>]

(* cat with no argument copies descriptor 0; else each file in turn. *)
cat_main(argv) ==
    IF Len(argv) = 1 THEN <<<<"cat", 0>>, exit_>>
    ELSE FlattenSeq([i \in 1..Len(argv)-1 |-> <<<<"cat_open", argv[i + 1]>>, <<"cat", 3>>, <<"close", 3>>>>])
         \o <<exit_>>

Programs == {"sh", "echo", "cat"}

(* The code exec() loads for argv[0]. *)
Image(argv) ==
    CASE argv[1] = "sh" -> sh_main
      [] argv[1] = "echo" -> echo_main(argv)
      [] argv[1] = "cat" -> cat_main(argv)

-----------------------------------------------------------------------------
Unused == [state |-> "UNUSED", parent |-> 0, ofile |-> Closed, code |-> <<>>,
           p |-> <<0, 0>>, prog |-> FALSE]

Init ==
    /\ proc = [s \in Slots |-> IF s # initproc THEN Unused
                               ELSE [Unused EXCEPT !.state = "USED", !.code = init_main]]
    /\ kern = [file |-> [e \in 1..NFILE |-> FD_NONE], pipe |-> [i \in 1..NPIPE |-> NoPipe]]
    /\ disk = Files
    /\ screen = <<>>
    /\ \E l \in Lines : line = [tokens |-> l, parse |-> parsecmd(l)]
    /\ input = <<line.tokens, EOF_>>
    /\ faults = 0
    /\ short = FALSE

(* Process s is about to make the call named op. *)
At(s, op) == proc[s].state = "USED" /\ Head(proc[s].code)[1] = op
Op(s) == Head(proc[s].code)
Next_(s) == Tail(proc[s].code)

(* s goes on with code, its descriptors and the tables being o and t. *)
Goes(s, t, o, code) ==
    /\ kern' = t
    /\ proc' = [proc EXCEPT ![s].ofile = o, ![s].code = code]

(* A call of s that needs memory fails; init is past its calls by then. *)
Fault(s) == s # initproc /\ faults < MaxFaults /\ faults' = faults + 1

close(s) ==
    /\ At(s, "close") \/ At(s, "close_p")
    /\ LET d == IF Op(s)[1] = "close" THEN Op(s)[2] ELSE proc[s].p[Op(s)[2]]
           r == sys_close(kern, proc[s].ofile, d)
       IN  Goes(s, r.t, r.o, Next_(s))
    /\ UNCHANGED <<disk, screen, input, line, faults, short>>

dup(s) ==
    /\ At(s, "dup") \/ At(s, "dup_p")
    /\ LET d == IF Op(s)[1] = "dup" THEN Op(s)[2] ELSE proc[s].p[Op(s)[2]]
           r == sys_dup(kern, proc[s].ofile, d)
       IN  Goes(s, r.t, r.o, Next_(s))
    /\ UNCHANGED <<disk, screen, input, line, faults, short>>

(* open in runcmd, and in cat's main: a failure ends the process. *)
open(s) ==
    /\ At(s, "open") \/ At(s, "cat_open")
    /\ LET r == sys_open(kern, proc[s].ofile, disk, Op(s)[2],
                         IF Op(s)[1] = "open" THEN Op(s)[3] ELSE O_RDONLY)
       IN  /\ Goes(s, r.t, r.o, IF r.fd = -1 THEN <<exit_>> ELSE Next_(s))
           /\ disk' = r.disk
           /\ short' = (short \/ r.full)
    /\ UNCHANGED <<screen, input, line, faults>>

(* init's first call: the device is made if it is not there. *)
init_open(s) ==
    /\ At(s, "init_open")
    /\ LET dk == IF "console" \in DOMAIN disk THEN disk ELSE disk @@ ("console" :> <<>>)
           r == sys_open(kern, proc[s].ofile, dk, "console", O_RDWR)
       IN  Goes(s, r.t, r.o, Next_(s)) /\ disk' = r.disk
    /\ UNCHANGED <<screen, input, line, faults, short>>

(* The shell opens the console until three descriptors are open. *)
sh_open(s) ==
    /\ At(s, "sh_open")
    /\ LET r == sys_open(kern, proc[s].ofile, disk, "console", O_RDWR)
           c == sys_close(r.t, r.o, r.fd)
       IN  IF r.fd = -1 THEN Goes(s, r.t, r.o, Next_(s)) /\ short' = TRUE
           ELSE IF r.fd >= 3 THEN Goes(s, c.t, c.o, Next_(s)) /\ UNCHANGED short
           ELSE Goes(s, r.t, r.o, proc[s].code) /\ UNCHANGED short
    /\ UNCHANGED <<disk, screen, input, line, faults>>

(* pipe in runcmd: panic("pipe") if it fails. *)
pipe(s) ==
    /\ At(s, "pipe")
    /\ LET r == sys_pipe(kern, proc[s].ofile)
       IN  \/ /\ kern' = r.t
              /\ proc' = IF r.ok
                         THEN [proc EXCEPT ![s].ofile = r.o, ![s].p = r.p, ![s].code = Next_(s)]
                         ELSE [proc EXCEPT ![s].code = <<exit_>>]
              /\ short' = (short \/ ~r.ok)
              /\ UNCHANGED faults
           \/ /\ Fault(s)
              /\ Goes(s, kern, proc[s].ofile, <<exit_>>)
              /\ UNCHANGED short
    /\ UNCHANGED <<disk, screen, input, line>>

(***************************************************************************)
(* fork(): the child c has the parent's descriptors, each file counted     *)
(* once more, and its p[].                                                 *)
(***************************************************************************)
forked(s, c, code) ==
    LET o == proc[s].ofile
        Uses(e) == Cardinality({d \in Fds : o[d] = e})
    IN  /\ kern' = [kern EXCEPT !.file = [e \in 1..NFILE |-> [@[e] EXCEPT !.ref = @ + Uses(e)]]]
        /\ proc' = [proc EXCEPT
              ![c] = [Unused EXCEPT !.state = "USED", !.parent = s, !.ofile = o, !.code = code,
                                    !.p = proc[s].p],
              ![s].code = IF s = initproc THEN <<<<"init_wait">>>> ELSE Next_(s),
              ![s].p = IF s = initproc THEN <<c, 0>> ELSE @]

FreeSlot == First({c \in Slots : proc[c].state = "UNUSED"})

(* fork1: panic("fork") if fork fails, which ends the shell that called it. *)
fork1(s) ==
    /\ At(s, "fork1")
    /\ \/ /\ FreeSlot # -1
          /\ forked(s, FreeSlot, Op(s)[2])
          /\ UNCHANGED <<faults, short>>
       \/ /\ FreeSlot = -1
          /\ Goes(s, kern, proc[s].ofile, <<exit_>>)
          /\ short' = TRUE
          /\ UNCHANGED faults
       \/ /\ Fault(s)
          /\ Goes(s, kern, proc[s].ofile, <<exit_>>)
          /\ UNCHANGED short
    /\ UNCHANGED <<disk, screen, input, line>>

(* init forks the shell and remembers it (in p[1]). *)
init_fork(s) ==
    /\ At(s, "init_fork")
    /\ FreeSlot # -1
    /\ forked(s, FreeSlot, <<<<"exec", <<"sh">>>>, exit_>>)
    /\ UNCHANGED <<disk, screen, input, line, faults, short>>

Children(s) == {c \in Slots : proc[c].state # "UNUSED" /\ proc[c].parent = s}
Zombies(s) == {c \in Children(s) : proc[c].state = "ZOMBIE"}

(* wait(0) in the shell, its result ignored: a zombie is freed, or there is no child. *)
wait(s) ==
    /\ At(s, "wait")
    /\ \/ /\ Zombies(s) # {}
          /\ proc' = [proc EXCEPT ![Min(Zombies(s))] = Unused, ![s].code = Next_(s)]
       \/ /\ Children(s) = {}
          /\ proc' = [proc EXCEPT ![s].code = Next_(s)]
    /\ UNCHANGED <<kern, disk, screen, input, line, faults, short>>

(* init waits for the shell it started, freeing orphans meanwhile. *)
init_wait(s) ==
    /\ At(s, "init_wait")
    /\ Zombies(s) # {}
    /\ LET c == Min(Zombies(s))
       IN  proc' = [proc EXCEPT ![c] = Unused,
                       ![s].code = IF c = proc[s].p[1] THEN <<<<"init_fork">>>> ELSE @]
    /\ UNCHANGED <<kern, disk, screen, input, line, faults, short>>

(***************************************************************************)
(* exit: the descriptors are closed, the children given to init.           *)
(***************************************************************************)
exit(s) ==
    /\ At(s, "exit")
    /\ kern' = CloseAll(kern, proc[s].ofile)
    /\ proc' = [c \in Slots |->
          IF c = s THEN [Unused EXCEPT !.state = "ZOMBIE", !.parent = proc[s].parent]
          ELSE IF c \in Children(s) THEN [proc[c] EXCEPT !.parent = initproc]
          ELSE proc[c]]
    /\ UNCHANGED <<disk, screen, input, line, faults, short>>

(* exec: the program of argv[0], or the code after the call if it fails. *)
exec(s) ==
    /\ At(s, "exec")
    /\ LET argv == Op(s)[2]
       IN  \/ /\ proc' = [proc EXCEPT ![s].code = IF argv[1] \in Programs THEN Image(argv) ELSE Next_(s),
                                      ![s].prog = argv[1] \in Programs,
                                      ![s].p = <<0, 0>>]
              /\ UNCHANGED faults
           \/ /\ Fault(s)
              /\ proc' = [proc EXCEPT ![s].code = Next_(s)]
    /\ UNCHANGED <<kern, disk, screen, input, line, short>>

run(s) ==
    /\ At(s, "runcmd")
    /\ Goes(s, kern, proc[s].ofile, runcmd(Op(s)[2]))
    /\ UNCHANGED <<disk, screen, input, line, faults, short>>

(***************************************************************************)
(* The shell's main loop: end of file ends the shell; cd is done by the    *)
(* shell itself; any other line is parsed and run by a child it waits for, *)
(* a syntax error ending the child.                                        *)
(***************************************************************************)
getcmd(s) ==
    /\ At(s, "getcmd")
    /\ input # <<>>
    /\ input' = Tail(input)
    /\ LET buf == Head(input)
           body == IF line.parse.ok THEN <<<<"runcmd", line.parse.cmd>>>> ELSE <<exit_>>
       IN  Goes(s, kern, proc[s].ofile,
                IF buf = EOF_ THEN <<exit_>>
                ELSE IF buf[1] = "cd" THEN proc[s].code
                ELSE <<<<"fork1", body>>, <<"wait">>, <<"getcmd">>>>)
    /\ UNCHANGED <<disk, screen, line, faults, short>>

(***************************************************************************)
(* read() and write() of a word by a program, through descriptor d: kind   *)
(* says what happened ("block" when the caller must sleep).                *)
(***************************************************************************)
readable(s, d) ==
    LET f == kern.file[proc[s].ofile[d]]
        pi == kern.pipe[f.pipe]
    IN  IF proc[s].ofile[d] = 0 \/ (f.writable /\ f.type # "DEVICE") THEN [kind |-> "error"]
        ELSE CASE f.type = "DEVICE" -> [kind |-> "eof"]
               [] f.type = "INODE" -> IF f.off >= Len(disk[f.name]) THEN [kind |-> "eof"]
                                      ELSE [kind |-> "data", word |-> disk[f.name][f.off + 1]]
               [] f.type = "PIPE" -> IF pi.data # <<>> THEN [kind |-> "data", word |-> Head(pi.data)]
                                     ELSE IF TRUE \in pi.open THEN [kind |-> "block"]
                                     ELSE [kind |-> "eof"]

Consumed(s, d) ==
    LET e == proc[s].ofile[d]
    IN  IF kern.file[e].type = "PIPE" THEN [kern EXCEPT !.pipe[kern.file[e].pipe].data = Tail(@)]
        ELSE [kern EXCEPT !.file[e].off = @ + 1]

(* cat's loop: one read, whose word is then to be written; end of file ends it. *)
cat(s) ==
    /\ At(s, "cat")
    /\ LET d == Op(s)[2]
           r == readable(s, d)
       IN  /\ r.kind # "block"
           /\ IF r.kind = "data"
              THEN Goes(s, Consumed(s, d), proc[s].ofile, <<<<"cat_write", r.word>>>> \o proc[s].code)
              ELSE Goes(s, kern, proc[s].ofile, IF r.kind = "eof" THEN Next_(s) ELSE <<exit_>>)
    /\ UNCHANGED <<disk, screen, input, line, faults, short>>

(* The sequence q with w put at offset i (at most its length). *)
PutAt(q, i, w) == IF i = Len(q) THEN Append(q, w) ELSE [q EXCEPT ![i + 1] = w]

(***************************************************************************)
(* write(1, word): a failed write ends cat; echo does not look.            *)
(***************************************************************************)
write(s) ==
    /\ At(s, "echo") \/ At(s, "cat_write")
    /\ LET e == proc[s].ofile[1]
           f == kern.file[e]
           w == Op(s)[2]
           failed == IF Op(s)[1] = "echo" THEN Next_(s) ELSE <<exit_>>
       IN  \/ /\ e = 0 \/ ~f.writable
              /\ Goes(s, kern, proc[s].ofile, failed)
              /\ UNCHANGED <<disk, screen>>
           \/ /\ e # 0 /\ f.type = "DEVICE"
              /\ Goes(s, kern, proc[s].ofile, Next_(s))
              /\ screen' = Append(screen, w)
              /\ UNCHANGED disk
           \/ /\ e # 0 /\ f.type = "INODE" /\ f.writable
              /\ Goes(s, [kern EXCEPT !.file[e].off = @ + 1], proc[s].ofile, Next_(s))
              /\ disk' = [disk EXCEPT ![f.name] = PutAt(@, f.off, w)]
              /\ UNCHANGED screen
           \/ /\ e # 0 /\ f.type = "PIPE" /\ f.writable
              /\ \/ /\ FALSE \notin kern.pipe[f.pipe].open
                    /\ Goes(s, kern, proc[s].ofile, failed)
                 \/ /\ FALSE \in kern.pipe[f.pipe].open
                    /\ Len(kern.pipe[f.pipe].data) < PIPESIZE
                    /\ Goes(s, [kern EXCEPT !.pipe[f.pipe].data = Append(@, w)],
                            proc[s].ofile, Next_(s))
              /\ UNCHANGED <<disk, screen>>
    /\ UNCHANGED <<input, line, faults, short>>

Step(s) ==
    \/ close(s) \/ dup(s) \/ open(s) \/ pipe(s) \/ fork1(s) \/ wait(s) \/ exit(s) \/ exec(s)
    \/ run(s) \/ getcmd(s) \/ cat(s) \/ write(s)
    \/ sh_open(s) \/ init_open(s) \/ init_fork(s) \/ init_wait(s)

Next == \E s \in Slots : Step(s)

(* Every process is scheduled again and again; one that can run does. *)
Fairness == \A s \in Slots : WF_vars(Step(s))

Spec == Init /\ [][Next]_vars /\ Fairness

-----------------------------------------------------------------------------
(***************************************************************************)
(* The reference for a line without &: what the command, given the words   *)
(* of its standard input and the files, writes to its standard output and  *)
(* leaves in the files and of the input.                                   *)
(***************************************************************************)
Overwrite(q, out) == out \o SubSeq(q, Len(out) + 1, Len(q))

RECURSIVE CatFiles(_, _)
CatFiles(names, fs) ==
    IF names = <<>> THEN <<>>
    ELSE IF Head(names) \notin DOMAIN fs THEN <<>>
    ELSE fs[Head(names)] \o CatFiles(Tail(names), fs)

RECURSIVE Meaning(_, _, _)
Meaning(c, in, fs) ==
    CASE c.type = "EXEC" ->
            IF c.argv = <<>> THEN [out |-> <<>>, in |-> in, fs |-> fs]
            ELSE IF c.argv[1] = "echo" THEN [out |-> Tail(c.argv), in |-> in, fs |-> fs]
            ELSE IF c.argv[1] # "cat" THEN [out |-> <<>>, in |-> in, fs |-> fs]
            ELSE IF Len(c.argv) = 1 THEN [out |-> in, in |-> <<>>, fs |-> fs]
            ELSE [out |-> CatFiles(Tail(c.argv), fs), in |-> in, fs |-> fs]
      [] c.type = "REDIR" ->
            IF c.fd = 0
            THEN IF c.file \notin DOMAIN fs THEN [out |-> <<>>, in |-> in, fs |-> fs]
                 ELSE [Meaning(c.cmd, fs[c.file], fs) EXCEPT !.in = in]
            ELSE LET old == IF c.trunc \/ c.file \notin DOMAIN fs THEN <<>> ELSE fs[c.file]
                     r == Meaning(c.cmd, in, (c.file :> old) @@ fs)
                 IN  [out |-> <<>>, in |-> r.in, fs |-> [r.fs EXCEPT ![c.file] = Overwrite(@, r.out)]]
      [] c.type = "LIST" ->
            LET l == Meaning(c.left, in, fs)
                r == Meaning(c.right, l.in, l.fs)
            IN  [r EXCEPT !.out = l.out \o @]
      [] c.type = "PIPE" ->
            LET l == Meaning(c.left, in, fs) IN [Meaning(c.right, l.out, l.fs) EXCEPT !.in = l.in]

RECURSIVE HasBack(_)
HasBack(c) ==
    CASE c.type = "EXEC" -> FALSE
      [] c.type = "REDIR" -> HasBack(c.cmd)
      [] c.type = "BACK" -> TRUE
      [] OTHER -> HasBack(c.left) \/ HasBack(c.right)

-----------------------------------------------------------------------------
OpenFds(s) == {d \in Fds : proc[s].ofile[d] # 0}

(***************************************************************************)
(* The file table is exact: an entry's count is the number of descriptors  *)
(* of all processes that name it (a free entry is named by none), a pipe's *)
(* end is open exactly while some file is that end, and a closed pipe      *)
(* holds nothing.  (filedup and fileclose in dup, fork, close and exit;    *)
(* pipeclose.)                                                             *)
(***************************************************************************)
FilesExact ==
    /\ \A e \in 1..NFILE :
          kern.file[e].ref = Cardinality({u \in Slots \X Fds : proc[u[1]].ofile[u[2]] = e})
    /\ \A i \in 1..NPIPE : \A w \in BOOLEAN :
          (w \in kern.pipe[i].open)
          <=> \E e \in 1..NFILE : kern.file[e].type = "PIPE" /\ kern.file[e].pipe = i
                                  /\ kern.file[e].writable = w
    /\ \A i \in 1..NPIPE : kern.pipe[i].open = {} => kern.pipe[i].data = <<>>

(***************************************************************************)
(* A program the shell starts has its three standard descriptors and no    *)
(* other (but the file cat itself opens, at 3): no end of a pipe of the    *)
(* command line, or of an enclosing one, leaks into it, whatever calls     *)
(* failed.  The same holds of the shell when it prompts.  (The closes and  *)
(* dups of runcmd, main's loop over open("console").)                      *)
(***************************************************************************)
NoLeakedDescriptors ==
    \A s \in Slots : proc[s].state = "USED" /\ proc[s].prog =>
        /\ 0..2 \subseteq OpenFds(s)
        /\ \A d \in OpenFds(s) \ (0..2) : d = 3 /\ kern.file[proc[s].ofile[d]].type = "INODE"

(* The first shell has done with the line and nothing else runs. *)
LineDone == Len(input) = 1 /\ (\E s \in Slots : At(s, "getcmd"))

(***************************************************************************)
(* When the shell prompts again after a line without &, and no call        *)
(* failed for want of memory or room, the screen and the files are what    *)
(* the command means: every word went through the pipes and redirections   *)
(* the line names, in order, and nothing was written after the prompt.     *)
(***************************************************************************)
OutcomeAsWritten ==
    LET c == line.parse
    IN  LineDone /\ faults = 0 /\ ~short /\ c.ok /\ line.tokens[1] # "cd" =>
           (~HasBack(c.cmd) =>
              LET m == Meaning(c.cmd, <<>>, Files @@ ("console" :> <<>>))
              IN  screen = m.out /\ disk = m.fs)

(***************************************************************************)
(* Whatever the line and whichever call fails, the shell comes back to its *)
(* prompt (init starting it again when it ended) with every process reaped,*)
(* every pipe gone and only the console open: no reader waits for a writer *)
(* that never closes, no wait() for a child that never exits.              *)
(***************************************************************************)
AtRest ==
    /\ input = <<>>
    /\ \E s \in Slots \ {initproc} :
          /\ At(s, "getcmd")
          /\ \A u \in Slots \ {initproc, s} : proc[u].state = "UNUSED"
    /\ \A i \in 1..NPIPE : kern.pipe[i] = NoPipe
    /\ Cardinality({e \in 1..NFILE : kern.file[e].ref > 0}) = 1

PromptReturns == <>AtRest

=============================================================================
