------------------------------ MODULE Console ------------------------------
(***************************************************************************)
(* The console: kernel/console.c over kernel/uart.c, with the interrupt    *)
(* path (kernel/plic.c and devintr in kernel/trap.c) and kernel printf.    *)
(*                                                                         *)
(* Readers and writers are processes in consoleread and consolewrite,      *)
(* printers are CPUs in printf, and intr is the one CPU that has claimed   *)
(* the UART's interrupt from the PLIC.  Steps of different actors          *)
(* interleave wherever no spinlock excludes them; in particular the status *)
(* register is read in one step and the character written in the next.     *)
(* The three characters that rub out one on the screen are sent as one.    *)
(* Buffer entries that cannot be read any more are reset to none.          *)
(***************************************************************************)
EXTENDS Integers, Sequences, FiniteSets, Rings

CONSTANTS
    Readers, Writers, Printers,
    intr, Nobody,
    INPUT_BUF_SIZE, UART_TX_BUF_SIZE,
    FIFO,           \* characters that the UART's transmitter holds
    UintSize,       \* the counters are taken modulo UintSize
    Starts,         \* values of the counters to begin with
    ReadSizes, WriteSize, MessageSize,
    Loads           \* who is active, and a bound on the keys that are typed

plain == "a"
newline == "\n"
eof == "^D"
kill_line == "^U"
backspace == "^H"
procdump == "^P"
Keys == {plain, newline, eof, kill_line, backspace, procdump}
Chars == {plain, newline, eof}
none == "none"

ASSUME ConsoleAssumption ==
    /\ INPUT_BUF_SIZE \in Nat \ {0} /\ UART_TX_BUF_SIZE \in Nat \ {0} /\ UintSize \in Nat
    /\ UintSize % INPUT_BUF_SIZE = 0 /\ UintSize > INPUT_BUF_SIZE
    /\ UintSize % UART_TX_BUF_SIZE = 0 /\ UintSize > UART_TX_BUF_SIZE
    /\ Starts \subseteq 0..UintSize - 1
    /\ ReadSizes \subseteq Nat /\ WriteSize \in Nat /\ MessageSize \in Nat
    /\ Readers \cap Writers = {} /\ Readers \cap Printers = {} /\ Writers \cap Printers = {}
    /\ intr \notin Readers \cup Writers \cup Printers
    /\ Nobody \notin Readers \cup Writers \cup Printers \cup {intr}
    \* the CPUs that may have seen the transmitter idle: one in uartstart, the
    \* others in uartputc_sync
    /\ IsFiniteSet(Printers) /\ FIFO \in Nat /\ FIFO >= 2 + Cardinality(Printers)

VARIABLES
    cons,           \* cons.buf, r, w, e
    tx,             \* uart_tx_buf, uart_tx_r, uart_tx_w
    lock,           \* holders of cons.lock, uart_tx_lock and pr.lock
    th,             \* position and locals of every actor
    killed,
    fifo, thre,     \* the UART's transmitter, and its interrupt
    rx,             \* the UART's receiver
    claimed,        \* the PLIC has given the interrupt to a CPU
    typed, load,    \* the keys typed, and the member of Loads that limits them
    sent            \* how many of each writer's characters have left the UART

kernel == <<cons, tx, lock, th, killed>>
device == <<fifo, thre, rx, claimed, typed, load, sent>>
vars == <<kernel, device>>

Actors == Readers \cup Writers \cup Printers \cup {intr}

Minus(a, b) == Distance(a, b, UintSize)
Inc(a) == Advance(a, UintSize)
Idle == [pc |-> "idle", n |-> 0, i |-> 0, c |-> none, got |-> <<>>]

Init ==
    /\ \E s \in Starts :
        /\ cons = [buf |-> [k \in 0..INPUT_BUF_SIZE - 1 |-> none], r |-> s, w |-> s, e |-> s]
        /\ tx = [buf |-> [k \in 0..UART_TX_BUF_SIZE - 1 |-> <<none, 0>>], r |-> s, w |-> s]
    /\ lock = [cons |-> Nobody, tx |-> Nobody, pr |-> Nobody]
    /\ th = [q \in Actors |-> Idle]
    /\ killed = {}
    /\ fifo = <<>> /\ thre = FALSE /\ rx = none /\ claimed = FALSE
    /\ typed = 0 /\ load \in Loads
    /\ sent = [p \in Writers |-> 0]

Goto(q, pc) == th' = [th EXCEPT ![q].pc = pc]
Free(l, q) == lock[l] \in {Nobody, q}
Hold(l, q) == lock' = [lock EXCEPT ![l] = q]

\* wakeup() of the sleepers at pc, who then go on at next
Woken(f, pc, next) == [q \in Actors |-> IF f[q].pc = pc THEN [f[q] EXCEPT !.pc = next] ELSE f[q]]

-----------------------------------------------------------------------------
(* The UART and the PLIC.                                                  *)

uart_receive(c) ==
    /\ typed < load.keys /\ rx = none
    /\ rx' = c /\ typed' = typed + 1
    /\ UNCHANGED <<kernel, fifo, thre, claimed, load, sent>>

uart_transmit ==
    /\ fifo # <<>>
    /\ fifo' = Tail(fifo)
    /\ thre' = (Tail(fifo) = <<>>)
    /\ sent' = [p \in Writers |-> IF p = Head(fifo)[1] THEN Head(fifo)[2] ELSE sent[p]]
    /\ UNCHANGED <<kernel, rx, claimed, typed, load>>

LSR_TX_IDLE == fifo = <<>>

\* WriteReg(THR, c); c is the k-th character of q.  One that does not fit is lost.
WriteTHR(q, k) ==
    /\ fifo' = IF Len(fifo) < FIFO THEN Append(fifo, <<q, k>>) ELSE fifo
    /\ thre' = FALSE
    /\ UNCHANGED <<rx, claimed, typed, load, sent>>

-----------------------------------------------------------------------------
(* uart.c.                                                                 *)

\* uartputc_sync, in two steps: the status register shows an empty transmitter,
\* the character is written.  i counts the characters q has put, n those to go.
uartputc_sync_wait(q) ==
    /\ th[q].pc = "sync" /\ LSR_TX_IDLE
    /\ Goto(q, "sync_put")
    /\ UNCHANGED <<cons, tx, lock, killed, device>>

uartputc_sync_put(q, next) ==
    /\ th[q].pc = "sync_put"
    /\ WriteTHR(q, 0)
    /\ th' = [th EXCEPT ![q].n = @ - 1, ![q].pc = IF th[q].n = 1 THEN next ELSE "sync"]
    /\ UNCHANGED <<cons, tx, lock, killed>>

\* Mutant: the status register is not read.
uartstart_test_blind(q, next) ==
    /\ th[q].pc = "start"
    /\ IF tx.w # tx.r
       THEN Goto(q, "start_put") /\ UNCHANGED <<lock, thre>>
       ELSE /\ thre' = FALSE
            /\ lock' = [lock EXCEPT !.tx = Nobody]
            /\ Goto(q, next)
    /\ UNCHANGED <<cons, tx, killed, fifo, rx, claimed, typed, load, sent>>

\* uartstart, the caller holding uart_tx_lock: its tests, and the rest of its loop
uartstart_test(q, next) ==
    /\ th[q].pc = "start"
    /\ IF tx.w # tx.r /\ LSR_TX_IDLE
       THEN Goto(q, "start_put") /\ UNCHANGED <<lock, thre>>
       ELSE /\ thre' = IF tx.w = tx.r THEN FALSE ELSE thre     \* ReadReg(ISR)
            /\ lock' = [lock EXCEPT !.tx = Nobody]
            /\ Goto(q, next)
    /\ UNCHANGED <<cons, tx, killed, fifo, rx, claimed, typed, load, sent>>

uartstart_put(q) ==
    LET x == tx.buf[tx.r % UART_TX_BUF_SIZE]
    IN  /\ th[q].pc = "start_put"
        /\ tx' = [tx EXCEPT !.r = Inc(@), !.buf[tx.r % UART_TX_BUF_SIZE] = <<none, 0>>]
        /\ th' = Woken([th EXCEPT ![q].pc = "start"], "tx_sleep", "putc")
        /\ WriteTHR(x[1], x[2])
        /\ UNCHANGED <<cons, lock, killed>>

\* consolewrite, and uartputc of its i-th character
consolewrite(p) ==
    /\ th[p].pc = "idle" /\ p \in load.active
    /\ th' = [th EXCEPT ![p] = [Idle EXCEPT !.pc = "putc", !.n = WriteSize, !.i = 1]]
    /\ UNCHANGED <<cons, tx, lock, killed, device>>

\* either_copyin fails
consolewrite_break(p) ==
    /\ th[p].pc = "putc" /\ th[p].c = none
    /\ Goto(p, "done")
    /\ UNCHANGED <<cons, tx, lock, killed, device>>

uartputc(p) ==
    /\ th[p].pc = "putc" /\ lock.tx = Nobody
    /\ IF Minus(tx.w, tx.r) = UART_TX_BUF_SIZE
       THEN /\ th' = [th EXCEPT ![p].pc = "tx_sleep", ![p].c = plain]
            /\ UNCHANGED <<tx, lock>>
       ELSE /\ tx' = [tx EXCEPT !.buf[tx.w % UART_TX_BUF_SIZE] = <<p, th[p].i>>, !.w = Inc(@)]
            /\ Hold("tx", p)
            /\ th' = [th EXCEPT ![p].pc = "start", ![p].c = none, ![p].i = @ + 1]
    /\ UNCHANGED <<cons, killed, device>>

\* uartputc has returned
consolewrite_next(p) ==
    /\ th[p].pc = "next"
    /\ Goto(p, IF th[p].i > th[p].n THEN "done" ELSE "putc")
    /\ UNCHANGED <<cons, tx, lock, killed, device>>

-----------------------------------------------------------------------------
(* console.c: readers.                                                     *)

Returned(p) == [Idle EXCEPT !.pc = IF p \in killed THEN "dead" ELSE "idle"]

consoleread(p, n) ==
    /\ th[p].pc = "idle" /\ p \in load.active
    /\ th' = [th EXCEPT ![p] = [Idle EXCEPT !.pc = "read", !.n = n]]
    /\ UNCHANGED <<cons, tx, lock, killed, device>>

\* nothing to read: the call of a killed process ends, another sleeps
consoleread_sleep(p) ==
    /\ th[p].pc = "read" /\ Free("cons", p) /\ cons.r = cons.w
    /\ th' = [th EXCEPT ![p] = IF p \in killed THEN Returned(p) ELSE [@ EXCEPT !.pc = "cons_sleep"]]
    /\ Hold("cons", Nobody)
    /\ UNCHANGED <<cons, tx, killed, device>>

Consumed == [cons EXCEPT !.r = Inc(@), !.buf[cons.r % INPUT_BUF_SIZE] = none]

\* Mutant: an end of file is not saved for the next call.
consoleread_char_eats_eof(p, copied) ==
    LET c == cons.buf[cons.r % INPUT_BUF_SIZE]
        t == th[p]
        ends == c = eof \/ ~copied \/ c = newline \/ t.n = 1
    IN  /\ t.pc = "read" /\ Free("cons", p) /\ cons.r # cons.w
        /\ cons' = Consumed
        /\ th' = [th EXCEPT ![p] =
                    IF ~ends THEN [t EXCEPT !.n = @ - 1, !.got = Append(@, c)]
                    ELSE IF c = eof \/ ~copied THEN Returned(p)
                    ELSE [t EXCEPT !.pc = "return", !.got = Append(@, c)]]
        /\ Hold("cons", IF ends THEN Nobody ELSE p)
        /\ UNCHANGED <<tx, killed, device>>

\* one character; copied is FALSE if either_copyout fails
consoleread_char(p, copied) ==
    LET c == cons.buf[cons.r % INPUT_BUF_SIZE]
        t == th[p]
        ends == c = eof \/ ~copied \/ c = newline \/ t.n = 1
    IN  /\ t.pc = "read" /\ Free("cons", p) /\ cons.r # cons.w
        /\ cons' = IF c = eof /\ t.got # <<>> THEN cons ELSE Consumed
        /\ th' = [th EXCEPT ![p] =
                    IF ~ends THEN [t EXCEPT !.n = @ - 1, !.got = Append(@, c)]
                    ELSE IF c = eof \/ ~copied THEN Returned(p)
                    ELSE [t EXCEPT !.pc = "return", !.got = Append(@, c)]]
        /\ Hold("cons", IF ends THEN Nobody ELSE p)
        /\ UNCHANGED <<tx, killed, device>>

consoleread_return(p) ==
    /\ th[p].pc = "return"
    /\ th' = [th EXCEPT ![p] = Returned(p)]
    /\ UNCHANGED <<cons, tx, lock, killed, device>>

\* kill() of a reader
kill(p) ==
    /\ p \notin killed /\ th[p].pc # "idle"
    /\ killed' = killed \cup {p}
    /\ Goto(p, IF th[p].pc = "cons_sleep" THEN "read" ELSE th[p].pc)
    /\ UNCHANGED <<cons, tx, lock, device>>

-----------------------------------------------------------------------------
(* The interrupt: devintr, uartintr and consoleintr.                       *)

\* plic_claim
devintr ==
    /\ ~claimed /\ (rx # none \/ thre)
    /\ claimed' = TRUE
    /\ Goto(intr, "getc")
    /\ UNCHANGED <<cons, tx, lock, killed, fifo, thre, rx, typed, load, sent>>

\* Mutant: uartintr returns when no input is left, without sending.
uartgetc_returns ==
    /\ th[intr].pc = "getc"
    /\ rx' = none
    /\ th' = [th EXCEPT ![intr].pc = IF rx = none THEN "next" ELSE "cons", ![intr].c = rx]
    /\ UNCHANGED <<cons, tx, lock, killed, fifo, thre, claimed, typed, load, sent>>

uartgetc ==
    /\ th[intr].pc = "getc"
    /\ rx' = none
    /\ th' = [th EXCEPT ![intr].pc = IF rx = none THEN "tx" ELSE "cons", ![intr].c = rx]
    /\ UNCHANGED <<cons, tx, lock, killed, fifo, thre, claimed, typed, load, sent>>

\* the characters that consputc sends: a backspace is overwritten with a space
consputc(c) == IF c = backspace THEN 3 ELSE 1

\* the length of the line being edited, which ^U erases up to a newline
Edited == Minus(cons.e, cons.w)
kill_count ==
    LET at(k) == cons.buf[Minus(cons.e, k) % INPUT_BUF_SIZE]
    IN  CHOOSE k \in 0..Edited :
            (\A j \in 1..k : at(j) # newline) /\ (k < Edited => at(k + 1) = newline)

\* consoleintr up to the echo: k characters are erased, or c will be stored
consoleintr(k, n, next) ==
    /\ cons' = [cons EXCEPT !.e = Minus(@, k),
                            !.buf = [j \in DOMAIN @ |-> IF \E m \in 1..k : j = Minus(cons.e, m) % INPUT_BUF_SIZE
                                                        THEN none ELSE @[j]]]
    /\ Hold("cons", intr)
    /\ th' = [th EXCEPT ![intr].n = n, ![intr].pc = IF n = 0 THEN next ELSE "sync"]
    /\ UNCHANGED <<tx, killed, device>>

consoleintr_key ==
    LET c == th[intr].c
        room == Minus(cons.e, cons.r) < INPUT_BUF_SIZE
        erased == IF c = kill_line THEN kill_count ELSE IF Edited > 0 THEN 1 ELSE 0
    IN  /\ th[intr].pc = "cons" /\ lock.cons = Nobody
        /\ \/ c = procdump /\ consoleintr(0, 0, "procdump")
           \/ c \in {kill_line, backspace} /\ consoleintr(erased, erased * consputc(backspace), "unlock")
           \/ c \in Chars /\ room /\ consoleintr(0, consputc(c), "unlock")
           \/ c \in Chars /\ ~room /\ consoleintr(0, 0, "full")

\* procdump() prints, with cons.lock held
consoleintr_procdump ==
    /\ th[intr].pc = "procdump" /\ lock.pr = Nobody
    /\ Hold("pr", intr)
    /\ th' = [th EXCEPT ![intr].n = MessageSize, ![intr].pc = "sync"]
    /\ UNCHANGED <<cons, tx, killed, device>>

\* after the echo: c is stored; a whole line wakes the readers; cons.lock (and
\* printf's lock) are released
consoleintr_store ==
    LET c == th[intr].c
        e == Inc(cons.e)
        commits == c \in {newline, eof} \/ Minus(e, cons.r) = INPUT_BUF_SIZE
        next == [th EXCEPT ![intr] = [Idle EXCEPT !.pc = "getc"]]
    IN  /\ th[intr].pc = "unlock"
        /\ IF c \in Chars
           THEN /\ cons' = [cons EXCEPT !.buf[cons.e % INPUT_BUF_SIZE] = c, !.e = e,
                                        !.w = IF commits THEN e ELSE @]
                /\ th' = IF commits THEN Woken(next, "cons_sleep", "read") ELSE next
           ELSE cons' = cons /\ th' = next
        /\ lock' = [l \in DOMAIN lock |-> IF lock[l] = intr THEN Nobody ELSE lock[l]]
        /\ UNCHANGED <<tx, killed, device>>

\* the buffer is full: c is dropped
consoleintr_full ==
    /\ th[intr].pc = "full"
    /\ th' = [th EXCEPT ![intr] = [Idle EXCEPT !.pc = "getc"]]
    /\ Hold("cons", Nobody)
    /\ UNCHANGED <<cons, tx, killed, device>>

\* uartintr's second part
uartintr_start ==
    /\ th[intr].pc = "tx" /\ lock.tx = Nobody
    /\ Hold("tx", intr) /\ Goto(intr, "start")
    /\ UNCHANGED <<cons, tx, killed, device>>

plic_complete ==
    /\ th[intr].pc = "next"
    /\ claimed' = FALSE /\ th' = [th EXCEPT ![intr] = Idle]
    /\ UNCHANGED <<cons, tx, lock, killed, fifo, thre, rx, typed, load, sent>>

-----------------------------------------------------------------------------
(* printf.c.                                                               *)

printf(q) ==
    /\ th[q].pc = "idle" /\ q \in load.active /\ lock.pr = Nobody
    /\ Hold("pr", q)
    /\ th' = [th EXCEPT ![q].n = MessageSize, ![q].pc = "sync"]
    /\ UNCHANGED <<cons, tx, killed, device>>

printf_return(q) ==
    /\ th[q].pc = "unlock" /\ q # intr
    /\ Hold("pr", Nobody) /\ Goto(q, "done")
    /\ UNCHANGED <<cons, tx, killed, device>>

-----------------------------------------------------------------------------
Read(p) == consoleread_sleep(p) \/ (\E ok \in BOOLEAN : consoleread_char(p, ok)) \/ consoleread_return(p)
Write(p) ==
    \/ consolewrite_break(p) \/ uartputc(p) \/ consolewrite_next(p)
    \/ uartstart_test(p, "next") \/ uartstart_put(p)
Interrupt ==
    \/ devintr \/ uartgetc \/ consoleintr_key \/ consoleintr_procdump \/ consoleintr_store
    \/ consoleintr_full \/ uartintr_start \/ plic_complete
    \/ uartputc_sync_wait(intr) \/ uartputc_sync_put(intr, "unlock")
    \/ uartstart_test(intr, "next") \/ uartstart_put(intr)
Printing(q) == uartputc_sync_wait(q) \/ uartputc_sync_put(q, "unlock") \/ printf_return(q)

Next ==
    \/ \E c \in Keys : uart_receive(c)
    \/ uart_transmit
    \/ Interrupt
    \/ \E p \in Readers : (\E n \in ReadSizes : consoleread(p, n)) \/ Read(p) \/ kill(p)
    \/ \E p \in Writers : consolewrite(p) \/ Write(p)
    \/ \E q \in Printers : printf(q) \/ Printing(q)

\* Processes and CPUs in the kernel go on, the UART transmits and its interrupt is
\* taken by some CPU; nobody has to type, to call or to kill.
Fairness ==
    /\ WF_vars(uart_transmit)
    /\ WF_vars(Interrupt)
    /\ \A p \in Readers : WF_vars(Read(p))
    /\ \A p \in Writers : WF_vars(Write(p))
    /\ \A q \in Printers : WF_vars(Printing(q))

Spec == Init /\ [][Next]_vars /\ Fairness

-----------------------------------------------------------------------------
(* Properties.                                                             *)

Ring == Content(tx.buf, UART_TX_BUF_SIZE, UintSize, tx.r, tx.w)

\* the last character of p that has been put
Written(p) == IF th[p].pc = "idle" THEN 0 ELSE th[p].i - 1

\* Neither ring is ever overfull, and of each writer's characters exactly the ones
\* between the last sent and the last put are, in order, in the transmitter and the
\* buffer: neither the interrupt nor echo and printf, which write to the transmitter
\* without uart_tx_lock, make it lose or reorder one.  A writer sleeps only while
\* the buffer is full.
OutputInOrder ==
    LET out == fifo \o Ring
    IN  /\ Minus(tx.w, tx.r) <= UART_TX_BUF_SIZE
        /\ Minus(cons.w, cons.r) <= Minus(cons.e, cons.r) /\ Minus(cons.e, cons.r) <= INPUT_BUF_SIZE
        /\ \A p \in Writers :
            /\ InOrder(out, p)
            /\ Numbers(out, p) = sent[p] + 1..Written(p) /\ sent[p] <= Written(p)
            /\ th[p].pc = "tx_sleep" => Minus(tx.w, tx.r) = UART_TX_BUF_SIZE

Between(a, b) == Content(cons.buf, INPUT_BUF_SIZE, UintSize, a, b)

LD == INSTANCE LineDiscipline WITH
        Capacity <- INPUT_BUF_SIZE,
        committed <- Between(cons.r, cons.w),
        pending <- Between(cons.w, cons.e),
        got <- [p \in Readers |-> th[p].got]

\* The ring with its three wrapping indices implements the line discipline.
ImplementsLineDiscipline == LD!Spec

\* Whatever happens, the console comes to rest again: every write and printf has
\* returned, all characters have been sent, and a reader is asleep only when
\* everything handed over has been read.  So the transmitter's interrupt is never
\* lost, nobody spins for ever and no two wait for each other's locks.
ComesToRest ==
    []<>(/\ \A q \in Writers \cup Printers : th[q].pc \in {"idle", "done"}
         /\ \A p \in Readers : th[p].pc \in {"idle", "dead"} \/ (th[p].pc = "cons_sleep" /\ cons.r = cons.w)
         /\ th[intr].pc = "idle" /\ rx = none /\ fifo = <<>> /\ tx.r = tx.w)
=============================================================================
