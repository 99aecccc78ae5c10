--------------------------- MODULE ConsoleProofs ---------------------------
(***************************************************************************)
(* Proofs about Console, for any readers, writers, printers and sizes: no  *)
(* character of a writer is lost or overtaken, and the input buffer with   *)
(* its three counters is the line discipline.                              *)
(***************************************************************************)
EXTENDS Console, RingSteps, TLAPS

-----------------------------------------------------------------------------
(* The inductive invariant.                                                *)

Counters == 0..UintSize - 1
Letters == Chars \cup {none}
Entries == (Actors \cup {none}) \X Nat
Holders == Actors \cup {Nobody}
Inputs == [0..INPUT_BUF_SIZE - 1 -> Letters]
Outputs == [0..UART_TX_BUF_SIZE - 1 -> Entries]

ReaderAt == {"idle", "read", "cons_sleep", "return", "dead"}
WriterAt == {"idle", "putc", "tx_sleep", "start", "start_put", "next", "done"}
PrinterAt == {"idle", "sync", "sync_put", "unlock", "done"}
InterruptAt == {"idle", "getc", "cons", "procdump", "sync", "sync_put", "unlock", "full",
                "tx", "start", "start_put", "next"}
Labels == ReaderAt \cup WriterAt \cup PrinterAt \cup InterruptAt
Threads == [pc : Labels, n : Int, i : Nat, c : Keys \cup {none}, got : Seq(Letters)]

\* where an actor may be
Here(q, l) ==
    /\ q \in Readers => l \in ReaderAt
    /\ q \in Writers => l \in WriterAt
    /\ q \in Printers => l \in PrinterAt
    /\ q = intr => l \in InterruptAt

InputType == cons \in [buf : Inputs, r : Counters, w : Counters, e : Counters]
OutputType == tx \in [buf : Outputs, r : Counters, w : Counters]
LockType == lock \in [cons : Holders, tx : Holders, pr : Holders]
ThreadType == th \in [Actors -> Threads] /\ \A q \in Actors : Here(q, th[q].pc)
DeviceType == rx \in Keys \cup {none} /\ fifo \in Seq(Entries) /\ sent \in [Writers -> Nat]

\* the locks that an actor holds where it is
Locked(q, l) ==
    /\ l \in {"start", "start_put"} => lock.tx = q
    /\ q = intr /\ l \in {"procdump", "sync", "sync_put", "unlock", "full"} => lock.cons = intr
Locks == \A q \in Actors : Locked(q, th[q].pc)

\* r, w and e are in this order, and the line being edited has no newline yet
Input ==
    /\ Between3(INPUT_BUF_SIZE, UintSize, cons.r, cons.w, cons.e)
    /\ \A k \in 1..Minus(cons.e, cons.w) : Between(cons.w, cons.e)[k] # newline

\* a call has at most one line, and there is room for the character echoed
Line(l, got) ==
    /\ l \in {"read", "cons_sleep"} => got = <<>> \/ got[Len(got)] # newline
    /\ l = "idle" => got = <<>>
Calls == \A p \in Readers : Line(th[p].pc, th[p].got)
Echoes == th[intr].c \in Chars /\ th[intr].pc \in {"procdump", "sync", "sync_put", "unlock"}
Room == Echoes => Minus(cons.e, cons.r) < INPUT_BUF_SIZE

\* those that have seen an idle transmitter and are about to write to it
Putting == {"sync_put", "start_put"}
InPut == {q \in Actors : th[q].pc \in Putting}
Fits == Len(fifo) + Cardinality(InPut) <= 2 + Cardinality(Printers)

\* the buffer is full while a writer sleeps, and not empty when uartstart reads it
Buffer(l) ==
    /\ l = "tx_sleep" => Minus(tx.w, tx.r) = UART_TX_BUF_SIZE
    /\ l = "start_put" => tx.w # tx.r
Buffers == Minus(tx.w, tx.r) <= UART_TX_BUF_SIZE /\ \A q \in Actors : Buffer(th[q].pc)
Order == \A p \in Writers : Queue(fifo, Ring, p, sent[p], Written(p))

TypeOK == InputType /\ OutputType /\ LockType /\ ThreadType /\ DeviceType
Inv == TypeOK /\ Locks /\ Input /\ Calls /\ Room /\ Fits /\ Buffers /\ Order

(* A step of q: nobody else moves, except that sleepers wake up.           *)
Moves(q) ==
    /\ th' \in [Actors -> Threads]
    /\ \A o \in Actors \ {q} :
        /\ th'[o].i = th[o].i /\ th'[o].c = th[o].c /\ th'[o].got = th[o].got
        /\ \/ th'[o].pc = th[o].pc
           \/ th[o].pc = "tx_sleep" /\ th'[o].pc = "putc"
           \/ th[o].pc = "cons_sleep" /\ th'[o].pc = "read"
Jumps(q, l) ==
    /\ Moves(q)
    /\ th'[q].pc = l /\ th'[q].i = th[q].i /\ th'[q].c = th[q].c /\ th'[q].got = th[q].got

(* What a step of q may do to the locks.                                   *)
Locking(q) ==
    /\ LockType'
    /\ lock'.tx = lock.tx \/ lock.tx \in {Nobody, q}
    /\ lock'.cons = lock.cons \/ lock.cons \in {Nobody, q}
    /\ Locked(q, th[q].pc)'

(* The line discipline that the input implements.                          *)
Committed == Between(cons.r, cons.w)
Pending == Between(cons.w, cons.e)
Got == [p \in Readers |-> th[p].got]
Refines == [LD!Next]_(LD!vars)

(* What the proofs use about cardinalities, counters, the two rings and    *)
(* the queues of characters; it follows from ConsoleAssumption, as the end *)
(* of this module shows.                                                   *)

(* The cardinalities of the sets of actors that write to the transmitter.  *)
Counts == \A x \in Holders : \A S \in SUBSET (Printers \cup {intr, x}) :
    /\ Cardinality(S) \in Nat /\ Cardinality(S) <= 2 + Cardinality(Printers)
    /\ \A T \in SUBSET S : Cardinality(T) \in Nat /\ Cardinality(T) <= Cardinality(S)
    /\ \A y \in S : Cardinality(S \ {y}) + 1 = Cardinality(S)

(* With those about counters, rings and queues, for the two buffers.       *)
Facts ==
    /\ Counts
    /\ CounterFacts(UintSize)
    /\ RingFacts(UART_TX_BUF_SIZE, UintSize, Entries)
    /\ QueueFacts(Entries, Writers)
    /\ LineFacts(INPUT_BUF_SIZE, UintSize, Letters)

(* Few actors may write to the transmitter at once.                         *)
Few(S, x) ==
    /\ S \in SUBSET (Printers \cup {intr, x})
    /\ Cardinality(S) \in Nat /\ Cardinality(S) <= 2 + Cardinality(Printers)

(* The facts, one by one.                                                  *)
LEMMA CounterIs ==
  ASSUME Facts, NEW a \in Counters, NEW b \in Counters
  PROVE  /\ Advance(a, UintSize) \in Counters /\ Distance(a, a, UintSize) = 0
         /\ Distance(a, b, UintSize) \in Nat /\ Distance(a, b, UintSize) < UintSize
  BY Zenon DEF Facts, CounterFacts, Counters

(* Storing a character in the output buffer.                               *)
LEMMA RingPut ==
  ASSUME Facts, NEW b \in Outputs, NEW r \in Counters, NEW w \in Counters, NEW v \in Entries,
         Distance(w, r, UintSize) < UART_TX_BUF_SIZE
  PROVE  RingPuts(UART_TX_BUF_SIZE, UintSize, b, r, w, v)
  BY Zenon DEF Facts, RingFacts, Outputs, Counters

(* Taking the first character of the output buffer.                        *)
LEMMA RingTake ==
  ASSUME Facts, NEW b \in Outputs, NEW r \in Counters, NEW w \in Counters, NEW v \in Entries,
         r # w, Distance(w, r, UintSize) <= UART_TX_BUF_SIZE
  PROVE  RingTakes(UART_TX_BUF_SIZE, UintSize, b, r, w, v)
  BY Zenon DEF Facts, RingFacts, Outputs, Counters

(* A character leaves the transmitter.                                     *)
LEMMA QueueSends ==
  ASSUME Facts, NEW F \in Seq(Entries), F # <<>>, NEW R \in Seq(Entries), NEW p \in Writers,
         NEW a \in Nat, NEW w \in Int, Queue(F, R, p, a, w)
  PROVE  Sends(F, R, p, a, w)
  BY Zenon DEF Facts, QueueFacts

(* p puts its next character into the buffer.                              *)
LEMMA QueuePuts ==
  ASSUME Facts, NEW F \in Seq(Entries), NEW R \in Seq(Entries), NEW p \in Writers,
         NEW a \in Nat, NEW w \in Int, Queue(F, R, p, a, w), NEW x \in Entries, x[1] = p, x[2] = w + 1
  PROVE  Queue(F, Append(R, x), p, a, w + 1)
  BY Zenon DEF Facts, QueueFacts

(* A character moves from the buffer to the transmitter.                   *)
LEMMA QueueMoves ==
  ASSUME Facts, NEW F \in Seq(Entries), NEW R \in Seq(Entries), R # <<>>, NEW p \in Writers,
         NEW a, NEW w, Queue(F, R, p, a, w)
  PROVE  Queue(Append(F, Head(R)), Tail(R), p, a, w)
  BY Zenon DEF Facts, QueueFacts

(* Another's character is added.                                           *)
LEMMA QueueOthers ==
  ASSUME Facts, NEW F \in Seq(Entries), NEW R \in Seq(Entries), NEW p \in Writers,
         NEW a, NEW w, Queue(F, R, p, a, w), NEW x \in Entries, x[1] # p
  PROVE  Queue(Append(F, x), R, p, a, w) /\ Queue(F, Append(R, x), p, a, w)
  BY Zenon DEF Facts, QueueFacts

-----------------------------------------------------------------------------
(* Steps of one actor.                                                     *)

(* The actors are different from each other and from nobody.               *)
LEMMA ActorsDiffer ==
  /\ \A p \in Readers : p \in Actors /\ p \notin Writers /\ p \notin Printers /\ p # intr
  /\ \A p \in Writers : p \in Actors /\ p \notin Readers /\ p \notin Printers /\ p # intr
  /\ \A p \in Printers : p \in Actors /\ p \notin Readers /\ p \notin Writers /\ p # intr
  /\ intr \in Actors /\ intr \notin Readers /\ intr \notin Writers /\ intr \notin Printers
  /\ Nobody \notin Actors /\ Actors \subseteq Holders /\ Nobody \in Holders
  BY ConsoleAssumption, Zenon DEF Actors, Holders

(* Setting the record of one actor.                                        *)
LEMMA SetThread ==
  ASSUME ThreadType, NEW q \in Actors, NEW t \in Threads, th' = [th EXCEPT ![q] = t]
  PROVE  Moves(q) /\ th'[q] = t
  BY Zenon DEF ThreadType, Moves

(* Setting the position of one actor.                                      *)
LEMMA GotoIs ==
  ASSUME ThreadType, NEW q \in Actors, NEW l \in Labels, Goto(q, l)
  PROVE  Jumps(q, l)
  <1>1. th \in [Actors -> Threads] /\ th[q] \in Threads
    BY Zenon DEF ThreadType
  <1>2. PICK t : t = [th[q] EXCEPT !.pc = l]
    BY Zenon
  <1>3. t \in Threads /\ t.pc = l /\ t.i = th[q].i /\ t.c = th[q].c /\ t.got = th[q].got
    BY <1>1, <1>2, Zenon DEF Threads
  <1>4. th' = [th EXCEPT ![q] = t]
    BY <1>2, Zenon DEF Goto
  <1>5. Moves(q) /\ th'[q] = t
    BY <1>3, <1>4, SetThread, Zenon
  <1>. QED BY <1>3, <1>5, Zenon DEF Jumps

(* Setting the position and the count of one actor.                        *)
LEMMA CountIs ==
  ASSUME ThreadType, NEW q \in Actors, NEW l \in Labels, NEW x \in Int,
         th' = [th EXCEPT ![q].n = x, ![q].pc = l]
  PROVE  Jumps(q, l)
  <1>1. th \in [Actors -> Threads] /\ th[q] \in Threads
    BY Zenon DEF ThreadType
  <1>2. PICK t : t = [th[q] EXCEPT !.n = x, !.pc = l]
    BY Zenon
  <1>3. t \in Threads /\ t.pc = l /\ t.i = th[q].i /\ t.c = th[q].c /\ t.got = th[q].got
    BY <1>1, <1>2, Zenon DEF Threads
  <1>4. th' = [th EXCEPT ![q] = t]
    BY <1>1, <1>2, Zenon
  <1>5. Moves(q) /\ th'[q] = t
    BY <1>3, <1>4, SetThread, Zenon
  <1>. QED BY <1>3, <1>5, Zenon DEF Jumps

(* Everybody stays where they may be.                                      *)
LEMMA ThreadsKept ==
  ASSUME ThreadType, NEW q \in Actors, Moves(q), Here(q, th'[q].pc)
  PROVE  ThreadType'
  <1>1. ASSUME NEW o \in Actors, o # q PROVE Here(o, th'[o].pc)
    <2>1. Here(o, th[o].pc)
      BY Zenon DEF ThreadType
    <2>2. \/ th'[o].pc = th[o].pc
          \/ th[o].pc = "tx_sleep" /\ th'[o].pc = "putc"
          \/ th[o].pc = "cons_sleep" /\ th'[o].pc = "read"
      BY <1>1, Zenon DEF Moves
    <2>. QED BY <2>1, <2>2, Zenon DEF Here, ReaderAt, WriterAt, PrinterAt, InterruptAt
  <1>. QED BY <1>1, Zenon DEF ThreadType, Moves

(* The lock holders.                                                       *)
LEMMA LocksKept ==
  ASSUME Locks, NEW q \in Actors, Moves(q), Locking(q)
  PROVE  Locks' /\ LockType'
  <1>1. ASSUME NEW o \in Actors, o # q PROVE Locked(o, th[o].pc)'
    <2>1. Locked(o, th[o].pc)
      BY Zenon DEF Locks
    <2>2. \/ th'[o].pc = th[o].pc
          \/ th[o].pc = "tx_sleep" /\ th'[o].pc = "putc"
          \/ th[o].pc = "cons_sleep" /\ th'[o].pc = "read"
      BY <1>1, Zenon DEF Moves
    <2>3. o # Nobody /\ (lock.tx = o => lock'.tx = o) /\ (lock.cons = o => lock'.cons = o)
      BY <1>1, ActorsDiffer, Zenon DEF Locking
    <2>. QED BY <2>1, <2>2, <2>3, Zenon DEF Locked
  <1>. QED BY <1>1, Zenon DEF Locks, Locking

(* The calls of the readers.                                               *)
LEMMA CallsKept ==
  ASSUME Calls, NEW q \in Actors, Moves(q), q \in Readers => Line(th'[q].pc, th'[q].got)
  PROVE  Calls'
  <1>1. ASSUME NEW p \in Readers, p # q PROVE Line(th'[p].pc, th'[p].got)
    <2>1. Line(th[p].pc, th[p].got) /\ p \in Actors
      BY ActorsDiffer, Zenon DEF Calls
    <2>2. th'[p].got = th[p].got
      BY <1>1, <2>1, Zenon DEF Moves
    <2>3. \/ th'[p].pc = th[p].pc
          \/ th[p].pc = "tx_sleep" /\ th'[p].pc = "putc"
          \/ th[p].pc = "cons_sleep" /\ th'[p].pc = "read"
      BY <1>1, <2>1, Zenon DEF Moves
    <2>. QED BY <2>1, <2>2, <2>3, Zenon DEF Line
  <1>. QED BY <1>1, Zenon DEF Calls

(* The room for the character that is echoed.                              *)
LEMMA RoomKept ==
  ASSUME Room, NEW q \in Actors, Moves(q), Minus(cons.e, cons.r)' = Minus(cons.e, cons.r),
         q = intr => (Echoes' => Echoes)
  PROVE  Room'
  <1>1. CASE q = intr
    BY <1>1, Zenon DEF Room
  <1>2. CASE q # intr
    <2>1. /\ th'[intr].c = th[intr].c
          /\ th'[intr].pc = th[intr].pc \/ th'[intr].pc \in {"putc", "read"}
      BY <1>2, ActorsDiffer, Zenon DEF Moves
    <2>2. Echoes' => Echoes
      BY <2>1, Zenon DEF Echoes
    <2>. QED BY <2>2, Zenon DEF Room
  <1>. QED BY <1>1, <1>2, Zenon

(* The state of the output buffer that positions depend on.                *)
LEMMA BuffersKept ==
  ASSUME Buffers, NEW q \in Actors, Moves(q), tx' = tx, Buffer(th'[q].pc)
  PROVE  Buffers'
  <1>1. ASSUME NEW o \in Actors, o # q PROVE Buffer(th'[o].pc)
    <2>1. Buffer(th[o].pc)
      BY Zenon DEF Buffers
    <2>2. \/ th'[o].pc = th[o].pc
          \/ th[o].pc = "tx_sleep" /\ th'[o].pc = "putc"
          \/ th[o].pc = "cons_sleep" /\ th'[o].pc = "read"
      BY <1>1, Zenon DEF Moves
    <2>. QED BY <2>1, <2>2, Zenon DEF Buffer
  <1>2. \A o \in Actors : Buffer(th'[o].pc)
    BY <1>1, Zenon
  <1>. QED BY <1>2, Zenon DEF Buffers, Buffer, Minus

(* A writer's characters put.                                              *)
LEMMA OrderKept ==
  ASSUME Order, NEW q \in Actors, Moves(q), tx' = tx, fifo' = fifo, sent' = sent,
         q \in Writers => Written(q)' = Written(q)
  PROVE  Order'
  <1>1. Ring' = Ring
    BY Zenon DEF Ring, Minus
  <1>2. ASSUME NEW p \in Writers PROVE Written(p)' = Written(p)
    <2>1. CASE p = q
      BY <2>1, Zenon
    <2>2. CASE p # q
      <3>1. /\ th'[p].i = th[p].i
            /\ \/ th'[p].pc = th[p].pc
               \/ th[p].pc = "tx_sleep" /\ th'[p].pc = "putc"
               \/ th[p].pc = "cons_sleep" /\ th'[p].pc = "read"
        <4>1. p \in Actors \ {q}
          BY <2>2, ActorsDiffer, Zenon
        <4>. QED BY <4>1, Zenon DEF Moves
      <3>. QED BY <3>1, Zenon DEF Written
    <2>. QED BY <2>1, <2>2, Zenon
  <1>3. ASSUME NEW p \in Writers PROVE Queue(fifo, Ring, p, sent[p], Written(p))'
    <2>1. Queue(fifo, Ring, p, sent[p], Written(p))
      BY Zenon DEF Order
    <2>. QED BY <1>1, <1>2, <2>1, Zenon DEF Queue
  <1>. QED BY <1>3, Zenon DEF Order

(* Those that are about to write to the transmitter, f telling where       *)
(* everybody is and h holding uart_tx_lock.                                *)
LEMMA InPutBound ==
  ASSUME Facts, NEW f, NEW h \in Holders, \A q \in Actors : Here(q, f[q].pc),
         \A q \in Actors : f[q].pc = "start_put" => h = q,
         NEW S, S = {q \in Actors : f[q].pc \in Putting}
  PROVE  Few(S, h)
  <1>1. ASSUME NEW q \in S PROVE q \in Printers \cup {intr, h}
    <2>1. q \in Actors /\ f[q].pc \in {"sync_put", "start_put"}
      BY <1>1, Zenon DEF Putting
    <2>2. CASE f[q].pc = "start_put"
      BY <2>1, <2>2, Zenon
    <2>3. CASE f[q].pc = "sync_put"
      <3>1. Here(q, "sync_put")
        BY <2>1, <2>3, Zenon
      <3>2. q \notin Readers /\ q \notin Writers
        BY <3>1, Zenon DEF Here, ReaderAt, WriterAt
      <3>. QED BY <2>1, <3>2, Zenon DEF Actors
    <2>. QED BY <2>1, <2>2, <2>3, Zenon
  <1>2. S \in SUBSET (Printers \cup {intr, h})
    BY <1>1, Zenon
  <1>. QED BY <1>2, Zenon DEF Facts, Counts, Few

(* The transmitter overflows neither while nobody new is about to write to *)
(* it, nor when it is empty, nor when one that was about to write does.    *)
LEMMA FitsKept ==
  ASSUME Facts, LockType, ThreadType, Locks, Fits, fifo \in Seq(Entries),
         LockType', ThreadType', Locks', NEW q \in Actors, Moves(q)
  PROVE  /\ fifo' = fifo /\ (th'[q].pc \in Putting => th[q].pc \in Putting) => Fits'
         /\ fifo' = <<>> => Fits'
         /\ th[q].pc \in Putting => Len(fifo) < FIFO
         /\ th[q].pc \in Putting /\ th'[q].pc \notin Putting /\ Len(fifo') = Len(fifo) + 1 => Fits'
  <1>1. PICK x \in Holders : InPut \in SUBSET (Printers \cup {intr, x})
    <2>1. PICK x \in Holders : x = lock.tx
      BY DEF LockType
    <2>2. (\A o \in Actors : Here(o, th[o].pc))
          /\ \A o \in Actors : th[o].pc = "start_put" => x = o
      BY <2>1, Zenon DEF ThreadType, Locks, Locked
    <2>3. InPut = {o \in Actors : th[o].pc \in Putting}
      BY Zenon DEF InPut
    <2>4. Few(InPut, x)
      BY <2>2, <2>3, InPutBound, Zenon
    <2>. QED BY <2>4, Zenon DEF Few
  <1>2. /\ Cardinality(InPut) \in Nat
        /\ \A T \in SUBSET InPut : Cardinality(T) \in Nat /\ Cardinality(T) <= Cardinality(InPut)
        /\ \A y \in InPut : Cardinality(InPut \ {y}) + 1 = Cardinality(InPut)
    BY <1>1, Zenon DEF Facts, Counts
  <1>3. Cardinality(InPut') \in Nat /\ Cardinality(InPut') <= 2 + Cardinality(Printers)
    <2>1. PICK y \in Holders : y = lock'.tx
      BY DEF LockType
    <2>2. (\A o \in Actors : Here(o, th'[o].pc))
          /\ \A o \in Actors : th'[o].pc = "start_put" => y = o
      BY <2>1, Zenon DEF ThreadType, Locks, Locked
    <2>3. InPut' = {o \in Actors : th'[o].pc \in Putting}
      BY Zenon DEF InPut
    <2>4. Few(InPut', y)
      BY <2>2, <2>3, InPutBound, Zenon
    <2>. QED BY <2>4, Zenon DEF Few
  <1>4. ASSUME NEW o \in InPut', o # q PROVE o \in InPut
    <2>1. o \in Actors /\ th'[o].pc \in {"sync_put", "start_put"}
      BY <1>4, Zenon DEF InPut, Putting
    <2>2. th'[o].pc = th[o].pc
      BY <1>4, <2>1, Zenon DEF Moves
    <2>. QED BY <2>1, <2>2, Zenon DEF InPut, Putting
  <1>5. Len(fifo) \in Nat /\ Cardinality(Printers) \in Nat
    <2>1. Cardinality({}) \in Nat /\ Printers \in SUBSET (Printers \cup {intr, x})
      BY <1>2, Zenon
    <2>2. Cardinality(Printers) \in Nat
      BY <2>1, Zenon DEF Facts, Counts
    <2>3. Len(fifo) \in Nat
      OBVIOUS
    <2>. QED BY <2>2, <2>3, Zenon
  <1>6. PICK f \in Nat, g \in Nat, h \in Nat, m \in Nat :
          f = Len(fifo) /\ g = Cardinality(InPut) /\ h = Cardinality(InPut') /\ m = Cardinality(Printers)
    BY <1>2, <1>3, <1>5, Zenon
  <1>7. f + g <= 2 + m /\ h <= 2 + m
    BY <1>3, <1>6, Zenon DEF Fits
  <1>8. ASSUME fifo' = fifo, th'[q].pc \in Putting => th[q].pc \in Putting PROVE Fits'
    <2>1. InPut' \in SUBSET InPut
      BY <1>4, <1>8, Zenon DEF InPut
    <2>2. h <= g
      BY <1>2, <1>6, <2>1, Zenon
    <2>3. f + h <= 2 + m
      BY <1>7, <2>2
    <2>. QED BY <1>6, <1>8, <2>3, Zenon DEF Fits
  <1>9. ASSUME fifo' = <<>> PROVE Fits'
    <2>1. Len(fifo') = 0 /\ 0 + h <= 2 + m
      BY <1>7, <1>9
    <2>. QED BY <1>6, <2>1, Zenon DEF Fits
  <1>10. ASSUME th[q].pc \in Putting PROVE g >= 1 /\ Len(fifo) < FIFO
    <2>1. q \in InPut
      BY <1>10, Zenon DEF InPut
    <2>2. PICK k : k = Cardinality(InPut \ {q}) /\ k \in Nat /\ k + 1 = g
      <3>1. InPut \ {q} \in SUBSET InPut
        BY Zenon
      <3>. QED BY <1>2, <1>6, <2>1, <3>1, Zenon
    <2>3. FIFO \in Nat /\ FIFO >= 2 + m
      BY <1>6, ConsoleAssumption, Zenon
    <2>4. f < FIFO /\ g >= 1
      BY <1>7, <2>2, <2>3
    <2>. QED BY <1>6, <2>4, Zenon
  <1>11. ASSUME th[q].pc \in Putting, th'[q].pc \notin Putting, Len(fifo') = Len(fifo) + 1
         PROVE  Fits'
    <2>1. q \in InPut
      BY <1>11, Zenon DEF InPut
    <2>2. InPut' \in SUBSET (InPut \ {q})
      BY <1>4, <1>11, Zenon DEF InPut
    <2>3. InPut \ {q} \in SUBSET (Printers \cup {intr, x})
      BY <1>1, Zenon
    <2>4. PICK k : k = Cardinality(InPut \ {q}) /\ k \in Nat /\ k + 1 = g
      <3>1. InPut \ {q} \in SUBSET InPut
        BY Zenon
      <3>. QED BY <1>2, <1>6, <2>1, <3>1, Zenon
    <2>5. h <= k
      BY <1>6, <2>2, <2>3, <2>4, Zenon DEF Facts, Counts
    <2>6. (f + 1) + h <= 2 + m
      BY <1>7, <2>4, <2>5
    <2>. QED BY <1>6, <1>11, <2>6, Zenon DEF Fits
  <1>. QED BY <1>8, <1>9, <1>10, <1>11, Zenon

(* The input alone, a call may end: a step of the line discipline, or none.*)
LEMMA Quiet ==
  ASSUME cons' = cons, NEW q \in Actors, Moves(q), q \in Readers => th'[q].got \in {th[q].got, <<>>}
  PROVE  Refines
  <1>1. Committed' = Committed /\ Pending' = Pending
    BY Zenon DEF Committed, Pending, Between, Minus
  <1>2. \A p \in Readers : p \in Actors
    BY ActorsDiffer, Zenon
  <1>3. CASE q \in Readers /\ th'[q].got # th[q].got
    <2>1. Got[q] # <<>> /\ Got' = [Got EXCEPT ![q] = <<>>]
      BY <1>2, <1>3, Zenon DEF Got, Moves
    <2>2. LD!Return(q)
      BY <1>1, <2>1, Zenon DEF LD!Return, Committed, Pending, Got
    <2>. QED BY <1>3, <2>2, Zenon DEF Refines, LD!Next
  <1>4. CASE ~(q \in Readers /\ th'[q].got # th[q].got)
    <2>1. Got' = Got
      BY <1>2, <1>4, Zenon DEF Got, Moves
    <2>. QED BY <1>1, <2>1, Zenon DEF Refines, LD!vars, Committed, Pending, Got
  <1>. QED BY <1>3, <1>4, Zenon

(* A step of q that leaves both buffers, the transmitter and the           *)
(* characters sent alone.                                                  *)
LEMMA Step ==
  ASSUME Facts, Inv, NEW q \in Actors, Moves(q), Here(q, th'[q].pc), Locking(q),
         cons' = cons, tx' = tx, fifo' = fifo, sent' = sent, rx' \in Keys \cup {none},
         q \in Readers => Line(th'[q].pc, th'[q].got) /\ th'[q].got \in {th[q].got, <<>>},
         q \in Writers => Written(q)' = Written(q),
         q = intr => (Echoes' => Echoes),
         Buffer(th'[q].pc),
         th'[q].pc \in Putting => th[q].pc \in Putting \/ fifo = <<>>
  PROVE  Inv' /\ Refines
  <1>1. /\ InputType /\ OutputType /\ LockType /\ ThreadType /\ DeviceType
        /\ Locks /\ Input /\ Calls /\ Room /\ Fits /\ Buffers /\ Order
    BY Zenon DEF Inv, TypeOK
  <1>2. InputType' /\ Input' /\ OutputType' /\ DeviceType'
    BY <1>1, Zenon DEF InputType, Input, Between3, Between, Minus, Distance, OutputType, DeviceType
  <1>3. ThreadType'
    BY <1>1, ThreadsKept, Zenon
  <1>4. Locks' /\ LockType'
    BY <1>1, LocksKept, Zenon
  <1>5. Calls'
    BY <1>1, CallsKept, Zenon
  <1>6. Room'
    <2>1. Minus(cons.e, cons.r)' = Minus(cons.e, cons.r)
      BY Zenon DEF Minus
    <2>. QED BY <1>1, <2>1, RoomKept, Zenon
  <1>7. Buffers'
    BY <1>1, BuffersKept, Zenon
  <1>8. Order'
    BY <1>1, OrderKept, Zenon
  <1>9. Fits'
    <2>1. fifo \in Seq(Entries)
      BY <1>1, Zenon DEF DeviceType
    <2>2. /\ (th'[q].pc \in Putting => th[q].pc \in Putting) => Fits'
          /\ fifo' = <<>> => Fits'
      BY <1>1, <1>3, <1>4, <2>1, FitsKept, Zenon
    <2>. QED BY <2>2, Zenon
  <1>10. Inv'
    BY <1>2, <1>3, <1>4, <1>5, <1>6, <1>7, <1>8, <1>9, Zenon DEF Inv, TypeOK
  <1>. QED BY <1>10, Quiet, Zenon

(* Taking and releasing a lock.                                            *)
LEMMA HoldIs ==
  ASSUME LockType, NEW x \in Holders
  PROVE  /\ Hold("cons", x) => LockType' /\ lock'.cons = x /\ lock'.tx = lock.tx
         /\ Hold("tx", x) => LockType' /\ lock'.cons = lock.cons /\ lock'.tx = x
         /\ Hold("pr", x) => LockType' /\ lock'.cons = lock.cons /\ lock'.tx = lock.tx
  BY Zenon DEF LockType, Hold

(* The parts of the invariant.                                             *)
LEMMA InvParts ==
  ASSUME Inv
  PROVE  /\ InputType /\ OutputType /\ LockType /\ ThreadType /\ DeviceType
         /\ Locks /\ Input /\ Calls /\ Room /\ Fits /\ Buffers /\ Order
  BY Zenon DEF Inv, TypeOK

(* The step of a reader that takes nothing.                                *)
LEMMA ReaderStep ==
  ASSUME Facts, Inv, NEW p \in Readers, Moves(p), th'[p].pc \in ReaderAt,
         Line(th'[p].pc, th'[p].got), th'[p].got \in {th[p].got, <<>>}, LockType', lock'.tx = lock.tx,
         lock'.cons = lock.cons \/ lock.cons \in {Nobody, p},
         cons' = cons, tx' = tx, fifo' = fifo, sent' = sent, rx' = rx
  PROVE  Inv' /\ Refines
  <1>1. p \in Actors /\ p \notin Writers /\ p \notin Printers /\ p # intr
    BY ActorsDiffer, Zenon
  <1>2. Here(p, th'[p].pc)
    BY <1>1, Zenon DEF Here
  <1>3. th'[p].pc \notin {"start", "start_put", "sync_put", "tx_sleep"}
    BY Zenon DEF ReaderAt
  <1>4. Locking(p)
    BY <1>1, <1>3, Zenon DEF Locking, Locked
  <1>5. Buffer(th'[p].pc)
    BY <1>3, Zenon DEF Buffer
  <1>6. th'[p].pc \notin Putting
    BY <1>3, Zenon DEF Putting
  <1>7. rx' \in Keys \cup {none}
    BY InvParts, Zenon DEF DeviceType
  <1>. QED BY <1>1, <1>2, <1>4, <1>5, <1>6, <1>7, Step, Zenon

(* The step of a writer that puts nothing into the buffer.                 *)
LEMMA WriterStep ==
  ASSUME Facts, Inv, NEW p \in Writers, Moves(p), NEW l \in WriterAt, th'[p].pc = l,
         Written(p)' = Written(p), LockType', lock'.cons = lock.cons,
         lock'.tx = lock.tx \/ lock.tx \in {Nobody, p},
         l \in {"start", "start_put"} => lock'.tx = p, Buffer(l),
         l = "start_put" => fifo = <<>>,
         cons' = cons, tx' = tx, fifo' = fifo, sent' = sent, rx' = rx
  PROVE  Inv' /\ Refines
  <1>1. p \in Actors /\ p \notin Readers /\ p \notin Printers /\ p # intr
    BY ActorsDiffer, Zenon
  <1>2. Here(p, th'[p].pc)
    BY <1>1, Zenon DEF Here
  <1>3. l # "sync_put"
    BY Zenon DEF WriterAt
  <1>4. Locking(p)
    BY <1>1, Zenon DEF Locking, Locked
  <1>5. Buffer(th'[p].pc)
    BY Zenon
  <1>6. th'[p].pc \in Putting => fifo = <<>>
    BY <1>3, Zenon DEF Putting
  <1>7. rx' \in Keys \cup {none}
    BY InvParts, Zenon DEF DeviceType
  <1>. QED BY <1>1, <1>2, <1>4, <1>5, <1>6, <1>7, Step, Zenon

(* The step of a printer that writes nothing.                              *)
LEMMA PrinterStep ==
  ASSUME Facts, Inv, NEW q \in Printers, Moves(q), NEW l \in PrinterAt, th'[q].pc = l,
         LockType', lock'.cons = lock.cons, lock'.tx = lock.tx, l = "sync_put" => fifo = <<>>,
         cons' = cons, tx' = tx, fifo' = fifo, sent' = sent, rx' = rx
  PROVE  Inv' /\ Refines
  <1>1. q \in Actors /\ q \notin Readers /\ q \notin Writers /\ q # intr
    BY ActorsDiffer, Zenon
  <1>2. Here(q, th'[q].pc)
    BY <1>1, Zenon DEF Here
  <1>3. l \notin {"start", "start_put", "tx_sleep"}
    BY Zenon DEF PrinterAt
  <1>4. Locking(q)
    BY <1>1, <1>3, Zenon DEF Locking, Locked
  <1>5. Buffer(th'[q].pc)
    BY <1>3, Zenon DEF Buffer
  <1>6. th'[q].pc \in Putting => fifo = <<>>
    BY <1>3, Zenon DEF Putting
  <1>7. rx' \in Keys \cup {none}
    BY InvParts, Zenon DEF DeviceType
  <1>. QED BY <1>1, <1>2, <1>4, <1>5, <1>6, <1>7, Step, Zenon

(* The step of the interrupt handler that changes neither buffer and       *)
(* writes nothing.                                                         *)
LEMMA InterruptStep ==
  ASSUME Facts, Inv, Moves(intr), NEW l \in InterruptAt, th'[intr].pc = l,
         LockType', lock'.cons = lock.cons \/ lock.cons \in {Nobody, intr},
         lock'.tx = lock.tx \/ lock.tx \in {Nobody, intr},
         l \in {"start", "start_put"} => lock'.tx = intr,
         l \in {"procdump", "sync", "sync_put", "unlock", "full"} => lock'.cons = intr,
         l = "start_put" => fifo = <<>> /\ tx.w # tx.r, l = "sync_put" => fifo = <<>>,
         Echoes' => Echoes, rx' \in Keys \cup {none},
         cons' = cons, tx' = tx, fifo' = fifo, sent' = sent
  PROVE  Inv' /\ Refines
  <1>1. intr \in Actors /\ intr \notin Readers /\ intr \notin Writers /\ intr \notin Printers
    BY ActorsDiffer, Zenon
  <1>2. Here(intr, th'[intr].pc)
    BY <1>1, Zenon DEF Here
  <1>3. l # "tx_sleep"
    BY Zenon DEF InterruptAt
  <1>4. Locking(intr)
    BY <1>1, <1>3, Zenon DEF Locking, Locked
  <1>5. Buffer(th'[intr].pc)
    BY <1>3, Zenon DEF Buffer
  <1>6. th'[intr].pc \in Putting => fifo = <<>>
    BY Zenon DEF Putting
  <1>. QED BY <1>1, <1>2, <1>4, <1>5, <1>6, Step, Zenon

-----------------------------------------------------------------------------
(* The actions that only move an actor.                                    *)

(* Nothing moves, except that a key may arrive.                            *)
LEMMA Unmoved ==
  ASSUME Inv, rx' \in Keys \cup {none}, cons' = cons, tx' = tx, lock' = lock, th' = th,
         fifo' = fifo, sent' = sent
  PROVE  Inv' /\ Refines
  <1>2. InputType' /\ OutputType' /\ LockType' /\ ThreadType' /\ DeviceType'
    BY InvParts, Zenon DEF InputType, OutputType, LockType, ThreadType, DeviceType
  <1>3. Locks' /\ Calls' /\ Room' /\ Fits'
    BY InvParts, Zenon DEF Locks, Locked, Calls, Room, Echoes, Minus, Fits, InPut
  <1>4. Input'
    BY InvParts, Zenon DEF Input, Between3, Between, Minus, Distance
  <1>5. Buffers'
    BY InvParts, Zenon DEF Buffers, Buffer, Minus
  <1>6. Order'
    <2>1. Ring' = Ring /\ \A p \in Writers : Written(p)' = Written(p)
      BY Zenon DEF Ring, Minus, Written
    <2>. QED BY <2>1, InvParts, Zenon DEF Order, Queue
  <1>7. Inv'
    BY <1>2, <1>3, <1>4, <1>5, <1>6, Zenon DEF Inv, TypeOK
  <1>8. Refines
    BY Zenon DEF Refines, LD!vars, Between, Minus
  <1>. QED BY <1>7, <1>8, Zenon

(* A key is typed.                                                         *)
LEMMA Receive ==
  ASSUME Inv, NEW c \in Keys, uart_receive(c)
  PROVE  Inv' /\ Refines
  <1>1. /\ rx' \in Keys \cup {none}
        /\ cons' = cons /\ tx' = tx /\ lock' = lock /\ th' = th /\ fifo' = fifo /\ sent' = sent
    BY Zenon DEF uart_receive, kernel
  <1>. QED BY <1>1, Unmoved, Zenon

(* uartputc_sync sees an idle transmitter.                                 *)
LEMMA SyncWait ==
  ASSUME Facts, Inv, NEW q \in Printers \cup {intr}, uartputc_sync_wait(q)
  PROVE  Inv' /\ Refines
  <1>1. /\ th[q].pc = "sync" /\ fifo = <<>> /\ Goto(q, "sync_put")
        /\ cons' = cons /\ tx' = tx /\ lock' = lock /\ fifo' = fifo /\ sent' = sent /\ rx' = rx
    BY Zenon DEF uartputc_sync_wait, LSR_TX_IDLE, device
  <1>2. q \in Actors /\ "sync_put" \in Labels
    BY Zenon DEF Actors, Labels, PrinterAt
  <1>3. Jumps(q, "sync_put") /\ Moves(q) /\ th'[q].pc = "sync_put"
    BY <1>1, <1>2, InvParts, GotoIs, Zenon DEF Jumps
  <1>4. LockType'
    BY <1>1, InvParts, Zenon DEF LockType
  <1>5. CASE q \in Printers
    <2>1. "sync_put" \in PrinterAt
      BY Zenon DEF PrinterAt
    <2>. QED BY <1>1, <1>3, <1>4, <1>5, <2>1, PrinterStep, Zenon
  <1>6. CASE q = intr
    <2>1. "sync_put" \in InterruptAt
      BY Zenon DEF InterruptAt
    <2>2. lock.cons = intr
      BY <1>1, <1>2, <1>6, InvParts, Zenon DEF Locks, Locked
    <2>3. Echoes' => Echoes
      BY <1>1, <1>3, <1>6, Zenon DEF Echoes, Jumps
    <2>4. rx' \in Keys \cup {none}
      BY <1>1, InvParts, Zenon DEF DeviceType
    <2>5. "sync_put" \notin {"start", "start_put"}
      BY Zenon
    <2>. QED BY <1>1, <1>3, <1>4, <1>6, <2>1, <2>2, <2>3, <2>4, <2>5, InterruptStep, Zenon
  <1>. QED BY <1>5, <1>6, Zenon

(* uartstart finds the transmitter idle, or returns.                       *)
LEMMA StartTest ==
  ASSUME Facts, Inv, NEW q \in Writers \cup {intr}, uartstart_test(q, "next")
  PROVE  Inv' /\ Refines
  <1>1. /\ th[q].pc = "start"
        /\ \/ /\ tx.w # tx.r /\ fifo = <<>> /\ Goto(q, "start_put") /\ lock' = lock
           \/ lock' = [lock EXCEPT !.tx = Nobody] /\ Goto(q, "next")
        /\ cons' = cons /\ tx' = tx /\ fifo' = fifo /\ sent' = sent /\ rx' = rx
    BY Zenon DEF uartstart_test, LSR_TX_IDLE
  <1>2. q \in Actors /\ "start_put" \in Labels /\ "next" \in Labels
    BY Zenon DEF Actors, Labels, WriterAt
  <1>3. lock.tx = q
    BY <1>1, <1>2, InvParts, Zenon DEF Locks, Locked
  <1>4. PICK l \in {"start_put", "next"} :
          /\ Jumps(q, l)
          /\ l = "start_put" => fifo = <<>> /\ tx.w # tx.r /\ lock' = lock
          /\ l = "next" => lock' = [lock EXCEPT !.tx = Nobody]
    BY <1>1, <1>2, InvParts, GotoIs, Zenon
  <1>5. /\ LockType' /\ lock'.cons = lock.cons /\ (l = "start_put" => lock'.tx = q)
        /\ lock'.tx = lock.tx \/ lock.tx \in {Nobody, q}
    <2>1. Nobody \in Holders /\ LockType
      BY ActorsDiffer, InvParts, Zenon
    <2>2. lock' = [lock EXCEPT !.tx = Nobody] => LockType' /\ lock'.cons = lock.cons
      BY <2>1, Zenon DEF LockType
    <2>3. lock' = lock => LockType' /\ lock'.cons = lock.cons /\ lock'.tx = lock.tx
      BY <2>1, Zenon DEF LockType
    <2>. QED BY <1>3, <1>4, <2>2, <2>3, Zenon
  <1>6. Moves(q) /\ th'[q].pc = l
    BY <1>4, Zenon DEF Jumps
  <1>7. CASE q \in Writers
    <2>1. l \in WriterAt
      BY Zenon DEF WriterAt
    <2>2. Written(q)' = Written(q)
      BY <1>1, <1>4, Zenon DEF Written, Jumps
    <2>3. Buffer(l)
      BY <1>4, Zenon DEF Buffer
    <2>4. (l \in {"start", "start_put"} => lock'.tx = q) /\ (l = "start_put" => fifo = <<>>)
      BY <1>4, <1>5, Zenon
    <2>. QED BY <1>1, <1>5, <1>6, <1>7, <2>1, <2>2, <2>3, <2>4, WriterStep, Zenon
  <1>8. CASE q = intr
    <2>1. l \in InterruptAt
      BY Zenon DEF InterruptAt
    <2>2. /\ l \in {"start", "start_put"} => lock'.tx = intr
          /\ l \notin {"procdump", "sync", "sync_put", "unlock", "full"} /\ l # "sync_put"
          /\ l = "start_put" => fifo = <<>> /\ tx.w # tx.r
      BY <1>4, <1>5, <1>8, Zenon
    <2>3. ~Echoes'
      BY <1>6, <1>8, Zenon DEF Echoes
    <2>4. rx' \in Keys \cup {none}
      BY <1>1, InvParts, Zenon DEF DeviceType
    <2>. QED BY <1>1, <1>5, <1>6, <1>8, <2>1, <2>2, <2>3, <2>4, InterruptStep, Zenon
  <1>. QED BY <1>7, <1>8, Zenon

(* consolewrite: its beginning, its loop and its end.                      *)
LEMMA Writing ==
  ASSUME Facts, Inv, NEW p \in Writers,
         consolewrite(p) \/ consolewrite_break(p) \/ consolewrite_next(p)
  PROVE  Inv' /\ Refines
  <1>1. cons' = cons /\ tx' = tx /\ lock' = lock /\ fifo' = fifo /\ sent' = sent /\ rx' = rx
    BY Zenon DEF consolewrite, consolewrite_break, consolewrite_next, device
  <1>2. p \in Actors /\ ThreadType /\ LockType'
    BY <1>1, ActorsDiffer, InvParts, Zenon DEF LockType
  <1>3. PICK l \in {"putc", "done"} : Moves(p) /\ th'[p].pc = l /\ Written(p)' = Written(p)
    <2>1. CASE consolewrite(p)
      <3>1. th[p].pc = "idle" /\ th' = [th EXCEPT ![p] = [Idle EXCEPT !.pc = "putc", !.n = WriteSize, !.i = 1]]
        BY <2>1, Zenon DEF consolewrite
      <3>2. PICK t : t = [Idle EXCEPT !.pc = "putc", !.n = WriteSize, !.i = 1]
        BY Zenon
      <3>3. t = [pc |-> "putc", n |-> WriteSize, i |-> 1, c |-> none, got |-> <<>>]
        BY <3>2, Zenon DEF Idle
      <3>4. "putc" \in Labels /\ WriteSize \in Int /\ 1 \in Nat /\ <<>> \in Seq(Letters)
        BY ConsoleAssumption DEF Labels, WriterAt
      <3>5. t \in Threads /\ t.pc = "putc" /\ t.i = 1
        BY <3>3, <3>4, Zenon DEF Threads
      <3>6. Moves(p) /\ th'[p] = t
        BY <1>2, <3>1, <3>2, <3>5, SetThread, Zenon
      <3>7. Written(p) = 0 /\ Written(p)' = t.i - 1
        BY <3>1, <3>5, <3>6, Zenon DEF Written
      <3>8. t.i - 1 = 0
        BY <3>5
      <3>. QED BY <3>5, <3>6, <3>7, <3>8, Zenon
    <2>2. CASE consolewrite_break(p) \/ consolewrite_next(p)
      <3>1. PICK l \in {"putc", "done"} : th[p].pc # "idle" /\ Goto(p, l)
        BY <2>2, Zenon DEF consolewrite_break, consolewrite_next
      <3>2. l \in Labels
        BY Zenon DEF Labels, WriterAt
      <3>3. Jumps(p, l)
        BY <1>2, <3>1, <3>2, GotoIs, Zenon
      <3>4. Written(p)' = Written(p)
        BY <3>1, <3>3, Zenon DEF Written, Jumps
      <3>. QED BY <3>3, <3>4, Zenon DEF Jumps
    <2>. QED BY <2>1, <2>2, Zenon
  <1>4. l \in WriterAt /\ l \notin {"start", "start_put"} /\ Buffer(l)
    BY Zenon DEF WriterAt, Buffer
  <1>. QED BY <1>1, <1>2, <1>3, <1>4, WriterStep, Zenon

(* The record of an actor that begins something.                           *)
Sets(r, l, x) ==
    /\ [r EXCEPT !.pc = l, !.n = x] \in Threads
    /\ [r EXCEPT !.pc = l, !.n = x].pc = l
    /\ [r EXCEPT !.pc = l, !.n = x].got = r.got
    /\ [r EXCEPT !.pc = l] \in Threads
    /\ [r EXCEPT !.pc = l].pc = l
    /\ [r EXCEPT !.pc = l].c = r.c
    /\ [r EXCEPT !.pc = l].got = r.got

(* It differs from the one before in what has been set.                    *)
LEMMA RecordIs ==
  ASSUME NEW r \in Threads, NEW l \in Labels, NEW x \in Int
  PROVE  Sets(r, l, x)
  BY Zenon DEF Threads, Sets

(* The record of an idle actor.                                            *)
LEMMA IdleIs == Idle \in Threads /\ Idle.pc = "idle" /\ Idle.c = none /\ Idle.got = <<>>
  <1>1. "idle" \in Labels /\ 0 \in Int /\ 0 \in Nat /\ <<>> \in Seq(Letters)
    BY DEF Labels, ReaderAt
  <1>2. Idle \in Threads
    BY <1>1, Zenon DEF Idle, Threads
  <1>3. Idle.pc = "idle" /\ Idle.c = none /\ Idle.got = <<>>
    BY Zenon DEF Idle
  <1>. QED BY <1>2, <1>3, Zenon

(* The end of a call.                                                      *)
LEMMA ReturnedIs ==
  ASSUME NEW p
  PROVE  Returned(p) \in Threads /\ Returned(p).pc \in {"idle", "dead"} /\ Returned(p).got = <<>>
  <1>1. PICK l \in {"idle", "dead"} : Returned(p) = [Idle EXCEPT !.pc = l]
    BY Zenon DEF Returned
  <1>2. l \in Labels /\ 0 \in Int
    BY DEF Labels, ReaderAt
  <1>3. /\ [Idle EXCEPT !.pc = l] \in Threads /\ [Idle EXCEPT !.pc = l].pc = l
        /\ [Idle EXCEPT !.pc = l].got = <<>>
    <2>1. Sets(Idle, l, 0)
      BY <1>2, IdleIs, RecordIs, Zenon
    <2>. QED BY <2>1, IdleIs, Zenon DEF Sets
  <1>. QED BY <1>1, <1>3, Zenon

(* consoleread: its beginning, its sleep and its end, and a kill.          *)
LEMMA Reading ==
  ASSUME Facts, Inv, NEW p \in Readers,
         \/ \E n \in ReadSizes : consoleread(p, n)
         \/ consoleread_sleep(p) \/ consoleread_return(p) \/ kill(p)
  PROVE  Inv' /\ Refines
  <1>1. cons' = cons /\ tx' = tx /\ fifo' = fifo /\ sent' = sent /\ rx' = rx
    BY Zenon DEF consoleread, consoleread_sleep, consoleread_return, kill, device
  <1>2. /\ p \in Actors /\ ThreadType /\ LockType /\ Nobody \in Holders
        /\ Line(th[p].pc, th[p].got) /\ th[p].pc \in ReaderAt
    BY ActorsDiffer, InvParts, Zenon DEF Calls, ThreadType, Here
  <1>3. LockType' /\ lock'.tx = lock.tx /\ (lock'.cons = lock.cons \/ lock.cons \in {Nobody, p})
    <2>1. lock' = lock \/ (Free("cons", p) /\ Hold("cons", Nobody))
      BY Zenon DEF consoleread, consoleread_sleep, consoleread_return, kill
    <2>2. lock' = lock => LockType' /\ lock'.tx = lock.tx /\ lock'.cons = lock.cons
      BY <1>2, Zenon DEF LockType
    <2>3. Free("cons", p) => lock.cons \in {Nobody, p}
      BY Zenon DEF Free
    <2>. QED BY <1>2, <2>1, <2>2, <2>3, HoldIs, Zenon
  <1>4. /\ Moves(p) /\ th'[p].pc \in ReaderAt /\ Line(th'[p].pc, th'[p].got)
        /\ th'[p].got \in {th[p].got, <<>>}
    <2>1. CASE \E n \in ReadSizes : consoleread(p, n)
      <3>1. PICK n \in ReadSizes : th' = [th EXCEPT ![p] = [Idle EXCEPT !.pc = "read", !.n = n]]
        BY <2>1, Zenon DEF consoleread
      <3>2. PICK t : t = [Idle EXCEPT !.pc = "read", !.n = n]
        BY Zenon
      <3>3. n \in Int /\ "read" \in Labels
        BY ConsoleAssumption DEF Labels, ReaderAt
      <3>4. t \in Threads /\ t.pc = "read" /\ t.got = <<>>
        <4>1. Sets(Idle, "read", n)
          BY <3>3, IdleIs, RecordIs, Zenon
        <4>. QED BY <3>2, <4>1, IdleIs, Zenon DEF Sets
      <3>5. Moves(p) /\ th'[p] = t
        BY <1>2, <3>1, <3>2, <3>4, SetThread, Zenon
      <3>. QED BY <3>4, <3>5, Zenon DEF ReaderAt, Line
    <2>2. CASE th' = [th EXCEPT ![p] = Returned(p)]
      <3>1. Moves(p) /\ th'[p] = Returned(p)
        BY <1>2, <2>2, ReturnedIs, SetThread, Zenon
      <3>. QED BY <3>1, ReturnedIs, Zenon DEF ReaderAt, Line
    <2>3. CASE consoleread_sleep(p) /\ th' # [th EXCEPT ![p] = Returned(p)]
      <3>1. th[p].pc = "read" /\ Goto(p, "cons_sleep")
        BY <2>3, Zenon DEF consoleread_sleep, Goto
      <3>2. "cons_sleep" \in Labels
        BY Zenon DEF Labels, ReaderAt
      <3>3. Jumps(p, "cons_sleep")
        BY <1>2, <3>1, <3>2, GotoIs, Zenon
      <3>. QED BY <1>2, <3>1, <3>3, Zenon DEF Jumps, ReaderAt, Line
    <2>4. CASE kill(p)
      <3>1. PICK l : /\ Goto(p, l)
                     /\ th[p].pc = "cons_sleep" => l = "read"
                     /\ th[p].pc # "cons_sleep" => l = th[p].pc
        BY <2>4, Zenon DEF kill
      <3>2. l \in ReaderAt /\ l \in Labels
        BY <1>2, <3>1, Zenon DEF Labels, ReaderAt
      <3>3. Jumps(p, l)
        BY <1>2, <3>1, <3>2, GotoIs, Zenon
      <3>. QED BY <1>2, <3>1, <3>2, <3>3, Zenon DEF Jumps, Line
    <2>5. consoleread_return(p) => th' = [th EXCEPT ![p] = Returned(p)]
      BY Zenon DEF consoleread_return
    <2>. QED BY <2>1, <2>2, <2>3, <2>4, <2>5, Zenon
  <1>. QED BY <1>1, <1>3, <1>4, ReaderStep, Zenon

(* printf: its beginning and its end.                                      *)
LEMMA Printf ==
  ASSUME Facts, Inv, NEW q \in Printers, printf(q) \/ printf_return(q)
  PROVE  Inv' /\ Refines
  <1>1. cons' = cons /\ tx' = tx /\ fifo' = fifo /\ sent' = sent /\ rx' = rx
    BY Zenon DEF printf, printf_return, device
  <1>2. q \in Actors /\ ThreadType /\ LockType /\ Nobody \in Holders /\ q \in Holders
    BY ActorsDiffer, InvParts, Zenon
  <1>3. LockType' /\ lock'.cons = lock.cons /\ lock'.tx = lock.tx
    BY <1>2, HoldIs, Zenon DEF printf, printf_return
  <1>4. PICK l \in {"sync", "done"} : Jumps(q, l)
    <2>1. CASE printf(q)
      <3>1. th' = [th EXCEPT ![q].n = MessageSize, ![q].pc = "sync"]
        BY <2>1, Zenon DEF printf
      <3>2. "sync" \in Labels /\ MessageSize \in Int
        BY ConsoleAssumption DEF Labels, PrinterAt
      <3>. QED BY <1>2, <3>1, <3>2, CountIs, Zenon
    <2>2. CASE printf_return(q)
      <3>1. "done" \in Labels
        BY Zenon DEF Labels, PrinterAt
      <3>. QED BY <1>2, <2>2, <3>1, GotoIs, Zenon DEF printf_return
    <2>. QED BY <2>1, <2>2, Zenon
  <1>5. l \in PrinterAt /\ l # "sync_put" /\ Moves(q) /\ th'[q].pc = l
    BY <1>4, Zenon DEF PrinterAt, Jumps
  <1>. QED BY <1>1, <1>3, <1>5, PrinterStep, Zenon

(* devintr and uartintr.                                                   *)
LEMMA Interrupting ==
  ASSUME Facts, Inv, devintr \/ uartgetc \/ uartintr_start \/ plic_complete
  PROVE  Inv' /\ Refines
  <1>1. cons' = cons /\ tx' = tx /\ fifo' = fifo /\ sent' = sent
    BY Zenon DEF devintr, uartgetc, uartintr_start, plic_complete, device
  <1>2. /\ intr \in Actors /\ intr \in Holders /\ ThreadType /\ LockType
        /\ rx \in Keys \cup {none}
    BY ActorsDiffer, InvParts, Zenon DEF DeviceType
  <1>3. rx' \in Keys \cup {none}
    BY <1>2, Zenon DEF devintr, uartgetc, uartintr_start, plic_complete, device
  <1>4. /\ LockType' /\ lock'.cons = lock.cons
        /\ lock'.tx = lock.tx \/ lock.tx \in {Nobody, intr}
        /\ uartintr_start => lock'.tx = intr
    <2>1. lock' = lock \/ (lock.tx = Nobody /\ Hold("tx", intr))
      BY Zenon DEF devintr, uartgetc, uartintr_start, plic_complete
    <2>2. lock' = lock => LockType' /\ lock'.tx = lock.tx /\ lock'.cons = lock.cons
      BY <1>2, Zenon DEF LockType
    <2>3. uartintr_start => Hold("tx", intr)
      BY Zenon DEF uartintr_start
    <2>. QED BY <1>2, <2>1, <2>2, <2>3, HoldIs, Zenon
  <1>5. PICK l \in {"getc", "cons", "tx", "start", "idle"} :
          Moves(intr) /\ th'[intr].pc = l /\ (l = "start" => uartintr_start)
    <2>1. CASE devintr
      <3>1. "getc" \in Labels
        BY Zenon DEF Labels, InterruptAt
      <3>2. Jumps(intr, "getc")
        BY <1>2, <2>1, <3>1, GotoIs, Zenon DEF devintr
      <3>. QED BY <3>2, Zenon DEF Jumps
    <2>2. CASE uartintr_start
      <3>1. "start" \in Labels
        BY Zenon DEF Labels, InterruptAt
      <3>2. Jumps(intr, "start")
        BY <1>2, <2>2, <3>1, GotoIs, Zenon DEF uartintr_start
      <3>. QED BY <2>2, <3>2, Zenon DEF Jumps
    <2>3. CASE plic_complete
      <3>1. Moves(intr) /\ th'[intr] = Idle
        BY <1>2, <2>3, IdleIs, SetThread, Zenon DEF plic_complete
      <3>. QED BY <3>1, IdleIs, Zenon
    <2>4. CASE uartgetc
      <3>1. PICK l \in {"cons", "tx"} : th' = [th EXCEPT ![intr].pc = l, ![intr].c = rx]
        BY <2>4, Zenon DEF uartgetc
      <3>2. th \in [Actors -> Threads] /\ th[intr] \in Threads /\ l \in Labels
        BY <1>2, Zenon DEF ThreadType, Labels, InterruptAt
      <3>3. PICK t : t = [th[intr] EXCEPT !.pc = l, !.c = rx]
        BY Zenon
      <3>4. t \in Threads /\ t.pc = l
        BY <1>2, <3>2, <3>3, Zenon DEF Threads
      <3>5. th' = [th EXCEPT ![intr] = t]
        BY <3>1, <3>2, <3>3, Zenon
      <3>6. Moves(intr) /\ th'[intr] = t
        BY <1>2, <3>4, <3>5, SetThread, Zenon
      <3>. QED BY <3>4, <3>6, Zenon
    <2>. QED BY <2>1, <2>2, <2>3, <2>4, Zenon
  <1>6. /\ l \in InterruptAt /\ l \notin {"procdump", "sync", "sync_put", "unlock", "full"}
        /\ l # "start_put" /\ l # "sync_put" /\ (l \in {"start", "start_put"} => lock'.tx = intr)
    BY <1>4, <1>5, Zenon DEF InterruptAt
  <1>7. ~Echoes'
    BY <1>5, <1>6, Zenon DEF Echoes
  <1>. QED BY <1>1, <1>3, <1>4, <1>5, <1>6, <1>7, InterruptStep, Zenon

(* consoleintr: procdump, and the character that does not fit.             *)
LEMMA Dropping ==
  ASSUME Facts, Inv, consoleintr_procdump \/ consoleintr_full
  PROVE  Inv' /\ Refines
  <1>1. cons' = cons /\ tx' = tx /\ fifo' = fifo /\ sent' = sent /\ rx' = rx
    BY Zenon DEF consoleintr_procdump, consoleintr_full, device
  <1>2. /\ intr \in Actors /\ intr \in Holders /\ Nobody \in Holders /\ ThreadType /\ LockType
        /\ rx \in Keys \cup {none}
    BY ActorsDiffer, InvParts, Zenon DEF DeviceType
  <1>3. lock.cons = intr
    BY <1>2, InvParts, Zenon DEF Locks, Locked, consoleintr_procdump, consoleintr_full
  <1>4. /\ LockType' /\ lock'.tx = lock.tx
        /\ consoleintr_procdump => lock'.cons = lock.cons
    BY <1>2, HoldIs, Zenon DEF consoleintr_procdump, consoleintr_full
  <1>5. CASE consoleintr_procdump
    <2>1. th[intr].pc = "procdump" /\ th' = [th EXCEPT ![intr].n = MessageSize, ![intr].pc = "sync"]
      BY <1>5, Zenon DEF consoleintr_procdump
    <2>2. "sync" \in Labels /\ MessageSize \in Int
      BY ConsoleAssumption DEF Labels, PrinterAt
    <2>3. Jumps(intr, "sync") /\ Moves(intr) /\ th'[intr].pc = "sync"
      BY <1>2, <2>1, <2>2, CountIs, Zenon DEF Jumps
    <2>4. Echoes' => Echoes
      BY <2>1, <2>3, Zenon DEF Jumps, Echoes
    <2>5. "sync" \in InterruptAt /\ "sync" \notin {"start", "start_put"}
      BY Zenon DEF InterruptAt
    <2>. QED BY <1>1, <1>2, <1>3, <1>4, <1>5, <2>3, <2>4, <2>5, InterruptStep, Zenon
  <1>6. CASE consoleintr_full
    <2>1. th' = [th EXCEPT ![intr] = [Idle EXCEPT !.pc = "getc"]]
      BY <1>6, Zenon DEF consoleintr_full
    <2>2. "getc" \in Labels /\ 0 \in Int
      BY DEF Labels, InterruptAt
    <2>3. Sets(Idle, "getc", 0)
      BY <2>2, IdleIs, RecordIs, Zenon
    <2>4. Moves(intr) /\ th'[intr].pc = "getc"
      BY <1>2, <2>1, <2>3, SetThread, Zenon DEF Sets
    <2>5. ~Echoes'
      BY <2>4, Zenon DEF Echoes
    <2>6. /\ "getc" \in InterruptAt /\ "getc" \notin {"start", "start_put"}
          /\ "getc" \notin {"procdump", "sync", "sync_put", "unlock", "full"}
      BY Zenon DEF InterruptAt
    <2>. QED BY <1>1, <1>2, <1>3, <1>4, <2>4, <2>5, <2>6, InterruptStep, Zenon
  <1>. QED BY <1>5, <1>6, Zenon

-----------------------------------------------------------------------------
(* The output buffer and the transmitter.                                  *)

(* The two sizes and the counters.                                         *)
LEMMA Sizes ==
  /\ INPUT_BUF_SIZE \in Nat \ {0} /\ UART_TX_BUF_SIZE \in Nat \ {0} /\ UintSize \in Nat \ {0}
  /\ INPUT_BUF_SIZE < UintSize /\ UART_TX_BUF_SIZE < UintSize
  BY ConsoleAssumption

(* The buffer as the content of a ring.                                    *)
LEMMA RingIs ==
  ASSUME Facts, OutputType
  PROVE  /\ Ring = Content(tx.buf, UART_TX_BUF_SIZE, UintSize, tx.r, tx.w)
         /\ Ring \in Seq(Entries)
         /\ tx.buf \in Outputs /\ tx.r \in Counters /\ tx.w \in Counters
         /\ Minus(tx.w, tx.r) = Distance(tx.w, tx.r, UintSize)
  <1>1. tx.buf \in Outputs /\ tx.r \in Counters /\ tx.w \in Counters
    BY Zenon DEF OutputType
  <1>2. Content(tx.buf, UART_TX_BUF_SIZE, UintSize, tx.r, tx.w) \in Seq(Entries)
    BY <1>1, Zenon DEF Facts, RingFacts, Outputs, Counters
  <1>. QED BY <1>1, <1>2, Zenon DEF Ring, Minus

(* What a step that changes neither the input nor a lock holder needs for  *)
(* the rest of the invariant.                                              *)
LEMMA OutputStep ==
  ASSUME Inv, NEW q \in Actors, Moves(q), Here(q, th'[q].pc), Locking(q), cons' = cons,
         q \notin Readers, q = intr => (Echoes' => Echoes),
         OutputType', DeviceType', Fits', Buffers', Order'
  PROVE  Inv' /\ Refines
  <1>1. InputType' /\ Input'
    BY InvParts, Zenon DEF InputType, Input, Between3, Between, Minus, Distance
  <1>2. ThreadType'
    BY InvParts, ThreadsKept, Zenon
  <1>3. Locks' /\ LockType'
    BY InvParts, LocksKept, Zenon
  <1>4. Calls'
    BY InvParts, CallsKept, Zenon
  <1>5. Room'
    <2>1. Minus(cons.e, cons.r)' = Minus(cons.e, cons.r)
      BY Zenon DEF Minus
    <2>. QED BY <2>1, InvParts, RoomKept, Zenon
  <1>6. Inv'
    BY <1>1, <1>2, <1>3, <1>4, <1>5, Zenon DEF Inv, TypeOK
  <1>. QED BY <1>6, Quiet, Zenon

(* The transmitter sends.                                                  *)
LEMMA Transmit ==
  ASSUME Inv, uart_transmit, Facts
  PROVE  Inv' /\ Refines
  <1>1. /\ fifo # <<>> /\ fifo' = Tail(fifo)
        /\ sent' = [p \in Writers |-> IF p = Head(fifo)[1] THEN Head(fifo)[2] ELSE sent[p]]
        /\ rx' = rx /\ cons' = cons /\ tx' = tx /\ lock' = lock /\ th' = th
    BY Zenon DEF uart_transmit, kernel
  <1>2. fifo \in Seq(Entries) /\ sent \in [Writers -> Nat] /\ rx \in Keys \cup {none}
    BY InvParts, Zenon DEF DeviceType
  <1>3. Tail(fifo) \in Seq(Entries) /\ Len(Tail(fifo)) = Len(fifo) - 1 /\ Len(fifo) \in Nat
        /\ Head(fifo) \in Entries
    BY <1>1, <1>2
  <1>4. DeviceType'
    <2>1. Head(fifo)[2] \in Nat
      BY <1>3 DEF Entries
    <2>. QED BY <1>1, <1>2, <1>3, <2>1, Zenon DEF DeviceType
  <1>5. InputType' /\ OutputType' /\ LockType' /\ ThreadType'
    BY <1>1, InvParts, Zenon DEF InputType, OutputType, LockType, ThreadType
  <1>6. Locks' /\ Calls' /\ Room'
    BY <1>1, InvParts, Zenon DEF Locks, Locked, Calls, Room, Echoes, Minus
  <1>7. Input'
    BY <1>1, InvParts, Zenon DEF Input, Between3, Between, Minus, Distance
  <1>8. Buffers'
    BY <1>1, InvParts, Zenon DEF Buffers, Buffer, Minus
  <1>9. Order'
    <2>1. Ring' = Ring /\ Ring \in Seq(Entries)
      BY <1>1, InvParts, RingIs, Zenon DEF Ring, Minus
    <2>2. ASSUME NEW p \in Writers PROVE Queue(fifo', Ring', p, sent'[p], Written(p)')
      <3>1. Written(p)' = Written(p) /\ Queue(fifo, Ring, p, sent[p], Written(p)) /\ sent[p] \in Nat
        BY <1>1, <1>2, InvParts, Zenon DEF Written, Order
      <3>2. Written(p) \in Int
        <4>1. th[p].i \in Nat
          BY InvParts, ActorsDiffer DEF ThreadType, Threads
        <4>. QED BY <4>1 DEF Written
      <3>3. PICK w \in Int, a \in Nat : w = Written(p) /\ a = sent[p]
        BY <3>1, <3>2, Zenon
      <3>4. /\ Head(fifo)[1] = p => Queue(Tail(fifo), Ring, p, Head(fifo)[2], w)
            /\ Head(fifo)[1] # p => Queue(Tail(fifo), Ring, p, a, w)
        BY <1>1, <1>2, <3>1, <3>3, InvParts, RingIs, QueueSends, Zenon DEF Sends
      <3>. QED BY <1>1, <2>1, <3>1, <3>3, <3>4, Zenon
    <2>. QED BY <2>2, Zenon DEF Order
  <1>10. Fits'
    <2>1. Len(fifo) + Cardinality(InPut) <= 2 + Cardinality(Printers) /\ InPut' = InPut
      BY <1>1, InvParts, Zenon DEF Fits, InPut
    <2>2. Cardinality(InPut) \in Nat /\ Cardinality(Printers) \in Nat
      <3>1. PICK x \in Holders : x = lock.tx
        BY InvParts DEF LockType
      <3>2. (\A o \in Actors : Here(o, th[o].pc))
            /\ \A o \in Actors : th[o].pc = "start_put" => x = o
        BY <3>1, InvParts, Zenon DEF ThreadType, Locks, Locked
      <3>3. InPut = {o \in Actors : th[o].pc \in Putting}
        BY Zenon DEF InPut
      <3>4. Few(InPut, x)
        BY <3>2, <3>3, InPutBound, Zenon
      <3>5. Printers \in SUBSET (Printers \cup {intr, x})
        BY Zenon
      <3>. QED BY <3>4, <3>5, Zenon DEF Few, Facts, Counts
    <2>3. (Len(fifo) - 1) + Cardinality(InPut) <= 2 + Cardinality(Printers)
      BY <1>3, <2>1, <2>2
    <2>. QED BY <1>1, <1>3, <2>1, <2>3, Zenon DEF Fits
  <1>11. Inv'
    BY <1>4, <1>5, <1>6, <1>7, <1>8, <1>9, <1>10, Zenon DEF Inv, TypeOK
  <1>12. Refines
    BY <1>1, Zenon DEF Refines, LD!vars, Between, Minus
  <1>. QED BY <1>11, <1>12, Zenon

(* uartputc_sync writes its character: it fits, and is nobody's who waits  *)
(* in the buffer.                                                          *)
LEMMA SyncPut ==
  ASSUME Facts, Inv, NEW q \in Printers \cup {intr}, uartputc_sync_put(q, "unlock")
  PROVE  Inv' /\ Refines
  <1>1. /\ th[q].pc = "sync_put"
        /\ fifo' = IF Len(fifo) < FIFO THEN Append(fifo, <<q, 0>>) ELSE fifo
        /\ rx' = rx /\ sent' = sent /\ cons' = cons /\ tx' = tx /\ lock' = lock
    BY Zenon DEF uartputc_sync_put, WriteTHR
  <1>2. /\ q \in Actors /\ q \notin Readers /\ q \notin Writers /\ ThreadType /\ LockType /\ Locks
        /\ DeviceType /\ OutputType /\ Fits /\ Buffers
    BY ActorsDiffer, InvParts, Zenon
  <1>3. PICK l \in {"unlock", "sync"} : Jumps(q, l)
    <2>1. PICK l \in {"unlock", "sync"} : th' = [th EXCEPT ![q].n = @ - 1, ![q].pc = l]
      BY Zenon DEF uartputc_sync_put
    <2>2. th[q].n - 1 \in Int
      <3>1. th[q].n \in Int
        BY <1>2, Zenon DEF ThreadType, Threads
      <3>. QED BY <3>1
    <2>3. th' = [th EXCEPT ![q].n = th[q].n - 1, ![q].pc = l]
      BY <2>1, Zenon
    <2>4. l \in Labels
      BY Zenon DEF Labels, PrinterAt
    <2>. QED BY <1>2, <2>2, <2>3, <2>4, CountIs, Zenon
  <1>4. Moves(q) /\ th'[q].pc = l /\ Here(q, th'[q].pc) /\ Buffer(th'[q].pc)
    BY <1>2, <1>3, Zenon DEF Jumps, Here, PrinterAt, InterruptAt, Buffer
  <1>5. Locking(q)
    <2>1. LockType'
      BY <1>1, <1>2, Zenon DEF LockType
    <2>2. q = intr => lock.cons = intr
      BY <1>1, <1>2, Zenon DEF Locks, Locked
    <2>. QED BY <1>1, <1>4, <2>1, <2>2, Zenon DEF Locking, Locked
  <1>6. ThreadType' /\ Locks' /\ LockType'
    BY <1>2, <1>4, <1>5, ThreadsKept, LocksKept, Zenon
  <1>7. fifo \in Seq(Entries) /\ <<q, 0>> \in Entries /\ <<q, 0>>[1] = q
    BY <1>2 DEF DeviceType, Entries
  <1>8. th[q].pc \in Putting /\ th'[q].pc \notin Putting
    BY <1>1, <1>4, Zenon DEF Putting
  <1>9. fifo' = Append(fifo, <<q, 0>>)
    <2>1. Len(fifo) < FIFO
      BY <1>2, <1>4, <1>6, <1>7, <1>8, FitsKept, Zenon
    <2>. QED BY <1>1, <2>1, Zenon
  <1>10. fifo' \in Seq(Entries) /\ Len(fifo') = Len(fifo) + 1
    BY <1>7, <1>9
  <1>11. Fits'
    BY <1>2, <1>4, <1>6, <1>7, <1>8, <1>10, FitsKept, Zenon
  <1>12. OutputType' /\ DeviceType'
    BY <1>1, <1>2, <1>10, Zenon DEF OutputType, DeviceType
  <1>13. Buffers'
    BY <1>1, <1>2, <1>4, BuffersKept, Zenon
  <1>14. Order'
    <2>1. Ring' = Ring /\ Ring \in Seq(Entries)
      BY <1>1, <1>2, RingIs, Zenon DEF Ring, Minus
    <2>2. ASSUME NEW p \in Writers PROVE Queue(fifo', Ring', p, sent'[p], Written(p)')
      <3>1. p # q /\ p \in Actors
        BY <1>2, ActorsDiffer, Zenon
      <3>2. Written(p)' = Written(p)
        BY <1>4, <3>1, Zenon DEF Moves, Written
      <3>3. Queue(fifo, Ring, p, sent[p], Written(p))
        BY InvParts, Zenon DEF Order
      <3>4. Queue(Append(fifo, <<q, 0>>), Ring, p, sent[p], Written(p))
        BY <1>7, <2>1, <3>1, <3>3, QueueOthers, Zenon
      <3>. QED BY <1>1, <1>9, <2>1, <3>2, <3>4, Zenon
    <2>. QED BY <2>2, Zenon DEF Order
  <1>15. q = intr => (Echoes' => Echoes)
    BY <1>1, <1>3, Zenon DEF Echoes, Jumps
  <1>. QED BY <1>1, <1>2, <1>4, <1>5, <1>11, <1>12, <1>13, <1>14, <1>15, OutputStep, Zenon

(* The places where a sleeper wakes up.                                    *)
WakesAt(from, to) ==
    \/ from = "tx_sleep" /\ to = "putc"
    \/ from = "cons_sleep" /\ to = "read"
Wakes(q, t, from) == Moves(q) /\ th'[q] = t /\ \A o \in Actors : th'[o].pc # from

(* wakeup(): q is at t, and no sleeper is left.                            *)
LEMMA WokenIs ==
  ASSUME ThreadType, NEW q \in Actors, NEW t \in Threads, NEW g, g = [th EXCEPT ![q] = t],
         NEW from, NEW to, t.pc # from, WakesAt(from, to), th' = Woken(g, from, to)
  PROVE  Wakes(q, t, from)
  <1>1. th \in [Actors -> Threads] /\ g[q] = t /\ \A o \in Actors \ {q} : g[o] = th[o]
    BY Zenon DEF ThreadType
  <1>2. to \in Labels /\ to # from
    BY Zenon DEF WakesAt, Labels, WriterAt, ReaderAt
  <1>3. ASSUME NEW r \in Threads
        PROVE  /\ [r EXCEPT !.pc = to] \in Threads /\ [r EXCEPT !.pc = to].pc = to
               /\ [r EXCEPT !.pc = to].i = r.i /\ [r EXCEPT !.pc = to].c = r.c
               /\ [r EXCEPT !.pc = to].got = r.got
    BY <1>2, Zenon DEF Threads
  <1>4. ASSUME NEW o \in Actors
        PROVE  /\ g[o].pc = from => th'[o] = [g[o] EXCEPT !.pc = to]
               /\ g[o].pc # from => th'[o] = g[o]
               /\ g[o] \in Threads
    BY <1>1, Zenon DEF Woken
  <1>5. th' \in [Actors -> Threads]
    <2>1. \A o \in Actors : (IF g[o].pc = from THEN [g[o] EXCEPT !.pc = to] ELSE g[o]) \in Threads
      BY <1>3, <1>4, Zenon
    <2>. QED BY <2>1, Zenon DEF Woken
  <1>6. th'[q] = t
    BY <1>1, <1>4, Zenon
  <1>8. ASSUME NEW o \in Actors PROVE th'[o].pc # from
    <2>1. CASE g[o].pc = from
      <3>1. [g[o] EXCEPT !.pc = to].pc = to
        BY <1>3, <1>4, Zenon
      <3>. QED BY <1>2, <1>4, <2>1, <3>1, Zenon
    <2>2. CASE g[o].pc # from
      BY <1>4, <2>2, Zenon
    <2>. QED BY <2>1, <2>2, Zenon
  <1>7. ASSUME NEW o \in Actors \ {q}
        PROVE  /\ th'[o].i = th[o].i /\ th'[o].c = th[o].c /\ th'[o].got = th[o].got
               /\ \/ th'[o].pc = th[o].pc
                  \/ th[o].pc = "tx_sleep" /\ th'[o].pc = "putc"
                  \/ th[o].pc = "cons_sleep" /\ th'[o].pc = "read"
    <2>1. g[o] = th[o] /\ th[o] \in Threads
      BY <1>1, Zenon
    <2>2. CASE th[o].pc = from
      <3>1. th'[o] = [th[o] EXCEPT !.pc = to]
        BY <1>4, <2>1, <2>2, Zenon
      <3>2. th'[o].pc = to /\ th'[o].i = th[o].i /\ th'[o].c = th[o].c /\ th'[o].got = th[o].got
        BY <1>3, <2>1, <3>1, Zenon
      <3>. QED BY <2>2, <3>2, Zenon DEF WakesAt
    <2>3. CASE th[o].pc # from
      BY <1>4, <2>1, <2>3, Zenon
    <2>. QED BY <2>2, <2>3, Zenon
  <1>. QED BY <1>5, <1>6, <1>7, <1>8, Zenon DEF Moves, Wakes

(* uartstart moves a character from the buffer to the transmitter, where   *)
(* it fits, and wakes the writers up.                                      *)
LEMMA StartPut ==
  ASSUME Facts, Inv, NEW q \in Writers \cup {intr}, uartstart_put(q)
  PROVE  Inv' /\ Refines
  <1>1. PICK x : x = tx.buf[tx.r % UART_TX_BUF_SIZE]
    BY Zenon
  <1>2. /\ th[q].pc = "start_put"
        /\ tx' = [tx EXCEPT !.r = Inc(@), !.buf[tx.r % UART_TX_BUF_SIZE] = <<none, 0>>]
        /\ th' = Woken([th EXCEPT ![q].pc = "start"], "tx_sleep", "putc")
        /\ fifo' = IF Len(fifo) < FIFO THEN Append(fifo, <<x[1], x[2]>>) ELSE fifo
        /\ rx' = rx /\ sent' = sent /\ cons' = cons /\ lock' = lock
    BY <1>1, Zenon DEF uartstart_put, WriteTHR
  <1>3. /\ q \in Actors /\ q \notin Readers /\ q \notin Printers /\ ThreadType /\ LockType /\ Locks
        /\ DeviceType /\ OutputType /\ Fits /\ Buffers /\ Order
    BY ActorsDiffer, InvParts, Zenon DEF Actors
  <1>4. /\ Moves(q) /\ th'[q].pc = "start" /\ th'[q].i = th[q].i
        /\ \A o \in Actors : th'[o].pc # "tx_sleep"
    <2>1. th \in [Actors -> Threads] /\ th[q] \in Threads /\ "start" \in Labels
      BY <1>3, Zenon DEF ThreadType, Labels, WriterAt
    <2>2. PICK t : t = [th[q] EXCEPT !.pc = "start"]
      BY Zenon
    <2>3. t \in Threads /\ t.pc = "start" /\ t.i = th[q].i
      BY <2>1, <2>2, Zenon DEF Threads
    <2>4. PICK g : g = [th EXCEPT ![q] = t]
      BY Zenon
    <2>5. th' = Woken(g, "tx_sleep", "putc")
      BY <1>2, <2>2, <2>4, Zenon
    <2>6. WakesAt("tx_sleep", "putc") /\ t.pc # "tx_sleep"
      BY <2>3, Zenon DEF WakesAt
    <2>7. Wakes(q, t, "tx_sleep")
      BY <1>3, <2>3, <2>4, <2>5, <2>6, WokenIs, Zenon
    <2>. QED BY <2>3, <2>7, Zenon DEF Wakes
  <1>5. Here(q, th'[q].pc)
    BY <1>3, <1>4, Zenon DEF Here, WriterAt, InterruptAt
  <1>6. lock.tx = q
    BY <1>2, <1>3, Zenon DEF Locks, Locked
  <1>7. Locking(q)
    <2>1. LockType'
      BY <1>2, <1>3, Zenon DEF LockType
    <2>. QED BY <1>2, <1>4, <1>6, <2>1, Zenon DEF Locking, Locked
  <1>8. ThreadType' /\ Locks' /\ LockType'
    BY <1>3, <1>4, <1>5, <1>7, ThreadsKept, LocksKept, Zenon
  <1>9. PICK b \in Outputs, r \in Counters, w \in Counters :
          /\ b = tx.buf /\ r = tx.r /\ w = tx.w /\ r # w
          /\ Ring = Content(b, UART_TX_BUF_SIZE, UintSize, r, w) /\ Ring \in Seq(Entries)
          /\ Distance(w, r, UintSize) <= UART_TX_BUF_SIZE
    <2>1. tx.w # tx.r /\ Minus(tx.w, tx.r) <= UART_TX_BUF_SIZE
      BY <1>2, <1>3, Zenon DEF Buffers, Buffer
    <2>. QED BY <1>3, <2>1, RingIs, Zenon
  <1>10. PICK f \in Counters, v \in Entries, d \in Outputs :
           /\ f = Advance(r, UintSize) /\ v = <<none, 0>>
           /\ d = [b EXCEPT ![Slot(r, UART_TX_BUF_SIZE)] = v]
    <2>1. Advance(r, UintSize) \in Counters
      BY CounterIs, Zenon
    <2>2. <<none, 0>> \in Entries
      BY DEF Entries
    <2>3. [b EXCEPT ![Slot(r, UART_TX_BUF_SIZE)] = <<none, 0>>] \in Outputs
      BY <2>2, Zenon DEF Outputs
    <2>. QED BY <2>1, <2>2, <2>3, Zenon
  <1>11. OutputType' /\ tx'.buf = d /\ tx'.r = f /\ tx'.w = w
    <2>1. f = Inc(tx.r) /\ tx' = [tx EXCEPT !.r = f, !.buf = d]
      BY <1>2, <1>9, <1>10, Zenon DEF Inc, Advance, Slot
    <2>. QED BY <1>3, <1>9, <2>1, Zenon DEF OutputType
  <1>12. /\ Ring # <<>> /\ Head(Ring) = x /\ Ring' = Tail(Ring)
         /\ Minus(tx.w, tx.r)' = Distance(w, r, UintSize) - 1
    <2>1. RingTakes(UART_TX_BUF_SIZE, UintSize, b, r, w, v)
      BY <1>9, RingTake, Zenon
    <2>2. Ring' = Content(d, UART_TX_BUF_SIZE, UintSize, f, w)
          /\ Minus(tx.w, tx.r)' = Distance(w, f, UintSize)
      BY <1>11, Zenon DEF Ring, Minus
    <2>. QED BY <1>1, <1>9, <1>10, <2>1, <2>2, Zenon DEF RingTakes, Slot
  <1>13. fifo \in Seq(Entries) /\ x \in Entries /\ <<x[1], x[2]>> = x
    <2>1. x \in Entries
      BY <1>9, <1>12
    <2>2. <<x[1], x[2]>> = x
      BY <2>1 DEF Entries
    <2>. QED BY <1>3, <2>1, <2>2, Zenon DEF DeviceType
  <1>14. th[q].pc \in Putting /\ th'[q].pc \notin Putting
    BY <1>2, <1>4, Zenon DEF Putting
  <1>15. fifo' = Append(fifo, x)
    <2>1. Len(fifo) < FIFO
      BY <1>3, <1>4, <1>8, <1>13, <1>14, FitsKept, Zenon
    <2>. QED BY <1>2, <1>13, <2>1, Zenon
  <1>16. fifo' \in Seq(Entries) /\ Len(fifo') = Len(fifo) + 1
    BY <1>13, <1>15
  <1>17. Fits'
    BY <1>3, <1>4, <1>8, <1>13, <1>14, <1>16, FitsKept, Zenon
  <1>18. DeviceType'
    BY <1>2, <1>3, <1>16, Zenon DEF DeviceType
  <1>19. Buffers'
    <2>1. ASSUME NEW o \in Actors PROVE th'[o].pc # "start_put"
      <3>1. CASE o = q
        BY <1>4, <3>1, Zenon
      <3>2. CASE o # q
        <4>1. th'[o].pc = "start_put" => th[o].pc = "start_put"
          BY <1>4, <3>2, Zenon DEF Moves
        <4>. QED BY <1>3, <1>6, <3>2, <4>1, Zenon DEF Locks, Locked
      <3>. QED BY <3>1, <3>2, Zenon
    <2>2. Minus(tx.w, tx.r)' <= UART_TX_BUF_SIZE
      <3>1. PICK c \in Nat : c = Distance(w, r, UintSize) /\ c <= UART_TX_BUF_SIZE
        BY <1>9, CounterIs, Zenon
      <3>2. UART_TX_BUF_SIZE \in Nat
        BY Sizes, Zenon
      <3>3. c <= UART_TX_BUF_SIZE
        BY <3>1, Zenon
      <3>4. c - 1 <= UART_TX_BUF_SIZE
        BY <3>2, <3>3
      <3>. QED BY <1>12, <3>1, <3>4, Zenon
    <2>3. \A o \in Actors : Buffer(th[o].pc)'
      BY <1>4, <2>1, Zenon DEF Buffer
    <2>. QED BY <2>2, <2>3, Zenon DEF Buffers
  <1>20. Order'
    <2>1. ASSUME NEW p \in Writers PROVE Queue(fifo', Ring', p, sent'[p], Written(p)')
      <3>1. Written(p)' = Written(p)
        <4>1. CASE p = q
          BY <1>2, <1>4, <4>1, Zenon DEF Written
        <4>2. CASE p # q
          <5>1. p \in Actors \ {q}
            BY <4>2, ActorsDiffer, Zenon
          <5>2. /\ th'[p].i = th[p].i
                /\ \/ th'[p].pc = th[p].pc
                   \/ th[p].pc = "tx_sleep" /\ th'[p].pc = "putc"
                   \/ th[p].pc = "cons_sleep" /\ th'[p].pc = "read"
            BY <1>4, <5>1, Zenon DEF Moves
          <5>. QED BY <5>2, Zenon DEF Written
        <4>. QED BY <4>1, <4>2, Zenon
      <3>2. Queue(fifo, Ring, p, sent[p], Written(p))
        BY <1>3, Zenon DEF Order
      <3>3. Queue(Append(fifo, Head(Ring)), Tail(Ring), p, sent[p], Written(p))
        BY <1>9, <1>12, <1>13, <3>2, QueueMoves, Zenon
      <3>. QED BY <1>2, <1>12, <1>15, <3>1, <3>3, Zenon
    <2>. QED BY <2>1, Zenon DEF Order
  <1>21. ~Echoes' \/ q # intr
    BY <1>4, Zenon DEF Echoes
  <1>. QED BY <1>2, <1>3, <1>4, <1>5, <1>7, <1>11, <1>17, <1>18, <1>19, <1>20, <1>21, OutputStep, Zenon

(* uartputc sleeps, or puts the next character of p into the buffer.       *)
LEMMA Putc ==
  ASSUME Facts, Inv, NEW p \in Writers, uartputc(p)
  PROVE  Inv' /\ Refines
  <1>1. /\ th[p].pc = "putc" /\ lock.tx = Nobody
        /\ cons' = cons /\ fifo' = fifo /\ sent' = sent /\ rx' = rx
    BY Zenon DEF uartputc, device
  <1>2. /\ p \in Actors /\ p \notin Readers /\ p \notin Printers /\ p # intr /\ p \in Holders
        /\ ThreadType /\ LockType /\ Locks /\ DeviceType /\ OutputType /\ Fits /\ Buffers /\ Order
        /\ th \in [Actors -> Threads] /\ th[p] \in Threads
    BY ActorsDiffer, InvParts, Zenon DEF ThreadType
  <1>3. CASE Minus(tx.w, tx.r) = UART_TX_BUF_SIZE
    <2>1. th' = [th EXCEPT ![p].pc = "tx_sleep", ![p].c = plain] /\ tx' = tx /\ lock' = lock
      BY <1>3, Zenon DEF uartputc
    <2>2. PICK t : t = [th[p] EXCEPT !.pc = "tx_sleep", !.c = plain]
      BY Zenon
    <2>3. t \in Threads /\ t.pc = "tx_sleep" /\ t.i = th[p].i
      <3>1. "tx_sleep" \in Labels /\ plain \in Keys \cup {none}
        BY Zenon DEF Labels, WriterAt, Keys
      <3>. QED BY <1>2, <2>2, <3>1, Zenon DEF Threads
    <2>4. th' = [th EXCEPT ![p] = t]
      BY <1>2, <2>1, <2>2, Zenon
    <2>5. Moves(p) /\ th'[p] = t
      BY <1>2, <2>3, <2>4, SetThread, Zenon
    <2>6. Written(p)' = Written(p) /\ th'[p].pc = "tx_sleep"
      BY <1>1, <2>3, <2>5, Zenon DEF Written
    <2>7. LockType' /\ lock'.cons = lock.cons /\ lock'.tx = lock.tx
      BY <1>2, <2>1, Zenon DEF LockType
    <2>8. /\ "tx_sleep" \in WriterAt /\ Buffer("tx_sleep") /\ "tx_sleep" \notin {"start", "start_put"}
      BY <1>3, Zenon DEF WriterAt, Buffer
    <2>. QED BY <1>1, <2>1, <2>5, <2>6, <2>7, <2>8, WriterStep, Zenon
  <1>4. CASE Minus(tx.w, tx.r) # UART_TX_BUF_SIZE
    <2>1. /\ tx' = [tx EXCEPT !.buf[tx.w % UART_TX_BUF_SIZE] = <<p, th[p].i>>, !.w = Inc(@)]
          /\ Hold("tx", p)
          /\ th' = [th EXCEPT ![p].pc = "start", ![p].c = none, ![p].i = @ + 1]
      BY <1>4, Zenon DEF uartputc
    <2>2. PICK i \in Nat : i = th[p].i /\ i + 1 \in Nat
      <3>1. th[p].i \in Nat
        BY <1>2, Zenon DEF Threads
      <3>. QED BY <3>1
    <2>3. PICK t : t = [th[p] EXCEPT !.pc = "start", !.c = none, !.i = i + 1]
      BY Zenon
    <2>4. t \in Threads /\ t.pc = "start" /\ t.i = i + 1
      <3>1. "start" \in Labels /\ none \in Keys \cup {none}
        BY Zenon DEF Labels, WriterAt
      <3>. QED BY <1>2, <2>2, <2>3, <3>1, Zenon DEF Threads
    <2>5. th' = [th EXCEPT ![p] = t]
      BY <1>2, <2>1, <2>2, <2>3, Zenon
    <2>6. Moves(p) /\ th'[p] = t
      BY <1>2, <2>4, <2>5, SetThread, Zenon
    <2>7. Here(p, th'[p].pc)
      BY <1>2, <2>4, <2>6, Zenon DEF Here, WriterAt
    <2>8. Locking(p) /\ LockType'
      <3>1. LockType' /\ lock'.cons = lock.cons /\ lock'.tx = p
        BY <1>2, <2>1, HoldIs, Zenon
      <3>. QED BY <1>1, <1>2, <3>1, Zenon DEF Locking, Locked
    <2>9. PICK b \in Outputs, r \in Counters, w \in Counters :
            /\ b = tx.buf /\ r = tx.r /\ w = tx.w
            /\ Ring = Content(b, UART_TX_BUF_SIZE, UintSize, r, w) /\ Ring \in Seq(Entries)
            /\ Minus(tx.w, tx.r) = Distance(w, r, UintSize)
      BY <1>2, RingIs, Zenon
    <2>10. PICK c \in Nat : c = Distance(w, r, UintSize) /\ c < UART_TX_BUF_SIZE
      <3>2. PICK c \in Nat : c = Distance(w, r, UintSize)
        BY CounterIs, Zenon
      <3>3. c <= UART_TX_BUF_SIZE /\ c # UART_TX_BUF_SIZE
        BY <1>2, <1>4, <2>9, <3>2, Zenon DEF Buffers
      <3>4. UART_TX_BUF_SIZE \in Nat
        BY Sizes, Zenon
      <3>5. c < UART_TX_BUF_SIZE
        BY <3>3, <3>4
      <3>. QED BY <3>2, <3>5, Zenon
    <2>11. PICK f \in Counters, v \in Entries, d \in Outputs :
             /\ f = Advance(w, UintSize) /\ v = <<p, i>> /\ v[1] = p /\ v[2] = i
             /\ d = [b EXCEPT ![Slot(w, UART_TX_BUF_SIZE)] = v]
      <3>1. Advance(w, UintSize) \in Counters
        BY CounterIs, Zenon
      <3>2. <<p, i>> \in Entries /\ <<p, i>>[1] = p /\ <<p, i>>[2] = i
        BY <1>2 DEF Entries
      <3>3. [b EXCEPT ![Slot(w, UART_TX_BUF_SIZE)] = <<p, i>>] \in Outputs
        BY <3>2, Zenon DEF Outputs
      <3>. QED BY <3>1, <3>2, <3>3, Zenon
    <2>12. OutputType' /\ tx'.buf = d /\ tx'.r = r /\ tx'.w = f
      <3>1. f = Inc(tx.w) /\ tx' = [tx EXCEPT !.buf = d, !.w = f]
        BY <2>1, <2>2, <2>9, <2>11, Zenon DEF Inc, Advance, Slot
      <3>. QED BY <1>2, <2>9, <3>1, Zenon DEF OutputType
    <2>13. Ring' = Append(Ring, v) /\ Minus(tx.w, tx.r)' = c + 1
      <3>1. RingPuts(UART_TX_BUF_SIZE, UintSize, b, r, w, v)
        BY <2>10, RingPut, Zenon
      <3>2. Ring' = Content(d, UART_TX_BUF_SIZE, UintSize, r, f)
            /\ Minus(tx.w, tx.r)' = Distance(f, r, UintSize)
        BY <2>12, Zenon DEF Ring, Minus
      <3>. QED BY <2>9, <2>10, <2>11, <3>1, <3>2, Zenon DEF RingPuts
    <2>14. Buffers'
      <3>1. ASSUME NEW o \in Actors PROVE th'[o].pc \notin {"start_put", "tx_sleep"}
        <4>1. CASE o = p
          BY <2>4, <2>6, <4>1, Zenon
        <4>2. CASE o # p
          <5>1. th'[o].pc \in {"start_put", "tx_sleep"} => th'[o].pc = th[o].pc
            BY <2>6, <4>2, Zenon DEF Moves
          <5>2. th[o].pc # "tx_sleep"
            BY <1>2, <1>4, Zenon DEF Buffers, Buffer
          <5>3. th[o].pc # "start_put"
            BY <1>1, <1>2, ActorsDiffer, Zenon DEF Locks, Locked
          <5>. QED BY <5>1, <5>2, <5>3, Zenon
        <4>. QED BY <4>1, <4>2, Zenon
      <3>2. c + 1 <= UART_TX_BUF_SIZE
        <4>1. c < UART_TX_BUF_SIZE /\ UART_TX_BUF_SIZE \in Nat
          BY <2>10, Sizes, Zenon
        <4>. QED BY <4>1
      <3>3. \A o \in Actors : Buffer(th[o].pc)'
        BY <3>1, Zenon DEF Buffer
      <3>. QED BY <2>13, <3>2, <3>3, Zenon DEF Buffers
    <2>15. Order'
      <3>1. fifo \in Seq(Entries) /\ sent \in [Writers -> Nat]
        BY <1>2, Zenon DEF DeviceType
      <3>2. ASSUME NEW z \in Writers PROVE Queue(fifo', Ring', z, sent'[z], Written(z)')
        <4>1. Queue(fifo, Ring, z, sent[z], Written(z)) /\ sent[z] \in Nat
          BY <1>2, <3>1, Zenon DEF Order
        <4>2. CASE z = p
          <5>1. Written(p) = i - 1 /\ Written(p)' = (i + 1) - 1
            BY <1>1, <2>2, <2>4, <2>6, Zenon DEF Written
          <5>2. PICK m \in Int : m = i - 1 /\ m + 1 = i /\ m + 1 = (i + 1) - 1
            OBVIOUS
          <5>3. Queue(fifo, Ring, p, sent[p], m) /\ sent[p] \in Nat
            BY <4>1, <4>2, <5>1, <5>2, Zenon
          <5>4. Queue(fifo, Append(Ring, v), p, sent[p], m + 1)
            BY <2>9, <2>11, <3>1, <5>2, <5>3, QueuePuts, Zenon
          <5>. QED BY <1>1, <2>13, <4>2, <5>1, <5>2, <5>4, Zenon
        <4>3. CASE z # p
          <5>1. z \in Actors \ {p}
            BY <4>3, ActorsDiffer, Zenon
          <5>2. /\ th'[z].i = th[z].i
                /\ \/ th'[z].pc = th[z].pc
                   \/ th[z].pc = "tx_sleep" /\ th'[z].pc = "putc"
                   \/ th[z].pc = "cons_sleep" /\ th'[z].pc = "read"
            BY <2>6, <5>1, Zenon DEF Moves
          <5>3. Written(z)' = Written(z)
            BY <5>2, Zenon DEF Written
          <5>4. Queue(fifo, Append(Ring, v), z, sent[z], Written(z))
            BY <2>9, <2>11, <3>1, <4>1, <4>3, QueueOthers, Zenon
          <5>. QED BY <1>1, <2>13, <5>3, <5>4, Zenon
        <4>. QED BY <4>2, <4>3, Zenon
      <3>. QED BY <3>2, Zenon DEF Order
    <2>16. Fits'
      <3>1. ThreadType' /\ Locks'
        BY <1>2, <2>6, <2>7, <2>8, ThreadsKept, LocksKept, Zenon
      <3>2. th'[p].pc \notin Putting /\ fifo \in Seq(Entries)
        BY <1>2, <2>4, <2>6, Zenon DEF Putting, DeviceType
      <3>. QED BY <1>1, <1>2, <2>6, <2>8, <3>1, <3>2, FitsKept, Zenon
    <2>17. DeviceType'
      BY <1>1, <1>2, Zenon DEF DeviceType
    <2>. QED BY <1>1, <1>2, <2>6, <2>7, <2>8, <2>12, <2>14, <2>15, <2>16, <2>17, OutputStep, Zenon
  <1>. QED BY <1>3, <1>4, Zenon

-----------------------------------------------------------------------------
(* The input buffer.                                                       *)

(* Input, for the values of its variables.                                 *)
Fresh(b, r, w, e) ==
    /\ Between3(INPUT_BUF_SIZE, UintSize, r, w, e)
    /\ \A k \in 1..Distance(e, w, UintSize) : Content(b, INPUT_BUF_SIZE, UintSize, w, e)[k] # newline
Holds(b, r, w, e) == b = cons.buf /\ r = cons.r /\ w = cons.w /\ e = cons.e

View(b, r, w, e) ==
    /\ Committed = Content(b, INPUT_BUF_SIZE, UintSize, r, w)
    /\ Pending = Content(b, INPUT_BUF_SIZE, UintSize, w, e)
    /\ Minus(cons.e, cons.r) = Distance(e, r, UintSize)
    /\ Minus(cons.e, cons.w) = Distance(e, w, UintSize)
    /\ Input <=> Fresh(b, r, w, e)

(* The input buffer as the contents of a ring.                             *)
LEMMA InputIs ==
  ASSUME NEW b, NEW r, NEW w, NEW e
  PROVE  /\ Holds(b, r, w, e) => View(b, r, w, e)
         /\ Holds(b, r, w, e)' => View(b, r, w, e)'
  BY Zenon DEF Holds, View, Committed, Pending, Between, Minus, Input, Fresh

(* What a step that changes the input needs for the rest of the invariant. *)
LEMMA InputStep ==
  ASSUME Facts, Inv, NEW q \in Actors, q \notin Writers, Moves(q), Here(q, th'[q].pc), Locking(q),
         q \in Readers => Line(th'[q].pc, th'[q].got),
         th'[q].pc \notin {"sync_put", "start_put", "tx_sleep"},
         tx' = tx, fifo' = fifo, sent' = sent, rx' = rx, InputType', Input', Room'
  PROVE  Inv'
  <1>1. OutputType' /\ DeviceType'
    BY InvParts, Zenon DEF OutputType, DeviceType
  <1>2. ThreadType'
    BY InvParts, ThreadsKept, Zenon
  <1>3. Locks' /\ LockType'
    BY InvParts, LocksKept, Zenon
  <1>4. Calls'
    BY InvParts, CallsKept, Zenon
  <1>5. Buffers'
    <2>1. Buffer(th'[q].pc)
      BY Zenon DEF Buffer
    <2>. QED BY <2>1, InvParts, BuffersKept, Zenon
  <1>6. Order'
    BY InvParts, OrderKept, Zenon
  <1>7. Fits'
    <2>1. th'[q].pc \notin Putting /\ fifo \in Seq(Entries)
      BY InvParts, Zenon DEF Putting, DeviceType
    <2>. QED BY <1>2, <1>3, <2>1, InvParts, FitsKept, Zenon
  <1>. QED BY <1>1, <1>2, <1>3, <1>4, <1>5, <1>6, <1>7, Zenon DEF Inv, TypeOK

(* A reader takes the first character handed over, or keeps an end of file *)
(* for its next call.                                                      *)
LEMMA Char ==
  ASSUME Facts, Inv, NEW p \in Readers, NEW copied \in BOOLEAN, consoleread_char(p, copied)
  PROVE  Inv' /\ Refines
  <1>1. PICK c, t : c = cons.buf[cons.r % INPUT_BUF_SIZE] /\ t = th[p]
    BY Zenon
  <1>2. /\ t.pc = "read" /\ lock.cons \in {Nobody, p} /\ cons.r # cons.w
        /\ cons' = IF c = eof /\ t.got # <<>> THEN cons ELSE Consumed
        /\ tx' = tx /\ fifo' = fifo /\ sent' = sent /\ rx' = rx
    BY <1>1, Zenon DEF consoleread_char, Free, device
  <1>3. PICK x \in {Nobody, p} : Hold("cons", x)
    BY Zenon DEF consoleread_char
  <1>4. /\ p \in Actors /\ p \notin Writers /\ p \notin Printers /\ p # intr
        /\ Nobody \in Holders /\ p \in Holders
        /\ InputType /\ ThreadType /\ LockType /\ Input /\ Room
        /\ th \in [Actors -> Threads] /\ t \in Threads /\ Line("read", t.got)
    BY <1>1, <1>2, ActorsDiffer, InvParts, Zenon DEF ThreadType, Calls
  <1>5. PICK b \in Inputs, r \in Counters, w \in Counters, e \in Counters :
          /\ Holds(b, r, w, e) /\ r # w /\ c = b[Slot(r, INPUT_BUF_SIZE)]
          /\ Fresh(b, r, w, e) /\ Between3(INPUT_BUF_SIZE, UintSize, r, w, e)
    <2>1. PICK b \in Inputs, r \in Counters, w \in Counters, e \in Counters : Holds(b, r, w, e)
      BY <1>4, Zenon DEF InputType, Holds
    <2>2. Fresh(b, r, w, e)
      BY <1>4, <2>1, InputIs, Zenon DEF View
    <2>. QED BY <1>1, <1>2, <2>1, <2>2, Zenon DEF Holds, Slot, Fresh
  <1>6. c \in Letters
    <2>1. r % INPUT_BUF_SIZE \in 0..INPUT_BUF_SIZE - 1
      <3>1. r \in Int
        BY Sizes DEF Counters
      <3>. QED BY <3>1, Sizes
    <2>. QED BY <1>5, <2>1, Zenon DEF Slot, Inputs
  <1>7. PICK n : n \in Threads /\ th' = [th EXCEPT ![p] = n]
                 /\ \/ n.pc \in {"idle", "dead"} /\ n.got = <<>> /\ (c = eof \/ ~copied)
                    \/ n.pc = "return" /\ n.got = Append(t.got, c) /\ c # eof
                    \/ n.pc = "read" /\ n.got = Append(t.got, c) /\ c \notin {eof, newline}
    <2>1. Append(t.got, c) \in Seq(Letters) /\ t.n - 1 \in Int
      <3>1. t.got \in Seq(Letters) /\ t.n \in Int
        BY <1>4, Zenon DEF Threads
      <3>. QED BY <1>6, <3>1
    <2>2. CASE th' = [th EXCEPT ![p] = Returned(p)] /\ (c = eof \/ ~copied)
      BY <2>2, ReturnedIs, Zenon
    <2>3. CASE th' = [th EXCEPT ![p] = [t EXCEPT !.pc = "return", !.got = Append(t.got, c)]] /\ c # eof
      <3>1. "return" \in Labels
        BY Zenon DEF Labels, ReaderAt
      <3>2. PICK n : n = [t EXCEPT !.pc = "return", !.got = Append(t.got, c)]
        BY Zenon
      <3>3. n \in Threads /\ n.pc = "return" /\ n.got = Append(t.got, c)
        BY <1>4, <2>1, <3>1, <3>2, Zenon DEF Threads
      <3>. QED BY <2>3, <3>2, <3>3, Zenon
    <2>4. CASE /\ th' = [th EXCEPT ![p] = [t EXCEPT !.n = t.n - 1, !.got = Append(t.got, c)]]
               /\ c \notin {eof, newline}
      <3>1. PICK n : n = [t EXCEPT !.n = t.n - 1, !.got = Append(t.got, c)]
        BY Zenon
      <3>2. n \in Threads /\ n.pc = "read" /\ n.got = Append(t.got, c)
        BY <1>2, <1>4, <2>1, <3>1, Zenon DEF Threads
      <3>. QED BY <2>4, <3>1, <3>2, Zenon
    <2>. QED BY <1>1, <2>2, <2>3, <2>4, Zenon DEF consoleread_char
  <1>8. Moves(p) /\ th'[p] = n
    BY <1>4, <1>7, SetThread, Zenon
  <1>9. n.pc \in ReaderAt /\ Line(n.pc, n.got)
    <2>1. n.pc = "read" => n.got[Len(n.got)] # newline
      <3>1. t.got \in Seq(Letters)
        BY <1>4, Zenon DEF Threads
      <3>2. Append(t.got, c)[Len(Append(t.got, c))] = c
        BY <1>6, <3>1
      <3>. QED BY <1>7, <3>2, Zenon
    <2>. QED BY <1>7, <2>1, Zenon DEF Line, ReaderAt
  <1>10. Here(p, th'[p].pc) /\ th'[p].pc \notin {"sync_put", "start_put", "tx_sleep", "start"}
    BY <1>4, <1>8, <1>9, Zenon DEF Here, ReaderAt
  <1>11. Locking(p)
    <2>1. LockType' /\ lock'.tx = lock.tx
      BY <1>3, <1>4, HoldIs, Zenon
    <2>. QED BY <1>2, <1>4, <1>10, <2>1, Zenon DEF Locking, Locked
  <1>12. PICK f \in Counters, d \in Inputs : /\ f = Advance(r, UintSize)
                                             /\ d = [b EXCEPT ![Slot(r, INPUT_BUF_SIZE)] = none]
    <2>1. Advance(r, UintSize) \in Counters
      BY CounterIs, Zenon
    <2>2. [b EXCEPT ![Slot(r, INPUT_BUF_SIZE)] = none] \in Inputs
      BY Zenon DEF Inputs, Letters
    <2>. QED BY <2>1, <2>2, Zenon
  <1>13. Takes(b, d, INPUT_BUF_SIZE, UintSize, r, w, e, f)
    <2>1. Taking(INPUT_BUF_SIZE, UintSize, b, r, w, e, none)
      BY <1>5, Zenon DEF Facts, LineFacts, LineFact, Inputs, Counters, Letters
    <2>. QED BY <1>12, <2>1, Zenon DEF Taking
  <1>14. Committed # <<>> /\ Head(Committed) = c
    <2>1. View(b, r, w, e)
      BY <1>5, InputIs, Zenon
    <2>. QED BY <1>5, <1>13, <2>1, Zenon DEF Takes, View
  <1>15. CASE c = eof /\ t.got # <<>>
    <2>1. cons' = cons /\ n.got = <<>> /\ n.pc \in {"idle", "dead"}
      BY <1>2, <1>7, <1>15, Zenon
    <2>2. th'[p].got \in {th[p].got, <<>>}
      BY <1>8, <2>1, Zenon
    <2>3. LockType' /\ lock'.tx = lock.tx
      BY <1>3, <1>4, HoldIs, Zenon
    <2>. QED BY <1>2, <1>8, <1>9, <2>1, <2>2, <2>3, ReaderStep, Zenon
  <1>16. CASE ~(c = eof /\ t.got # <<>>)
    <2>1. cons' = [cons EXCEPT !.r = f, !.buf = d]
      BY <1>2, <1>5, <1>12, <1>16, Zenon DEF Consumed, Inc, Holds, Slot
    <2>2. InputType' /\ Holds(d, f, w, e)'
      BY <1>4, <1>5, <2>1, Zenon DEF InputType, Holds
    <2>3. Fresh(d, f, w, e)
      BY <1>5, <1>13, Zenon DEF Fresh, Takes
    <2>a. View(b, r, w, e) /\ View(d, f, w, e)'
      BY <1>5, <2>2, InputIs, Zenon
    <2>4. Committed' = Tail(Committed) /\ Pending' = Pending
      BY <1>13, <2>a, Zenon DEF Takes, View
    <2>5. Input' /\ Room'
      BY <1>13, <2>3, <2>a, Zenon DEF Room, Takes, View
    <2>6. Inv'
      BY <1>2, <1>4, <1>8, <1>9, <1>10, <1>11, <2>2, <2>5, InputStep, Zenon
    <2>7. Got' = [Got EXCEPT ![p] = n.got] /\ Got[p] = t.got
      <3>1. \A o \in Readers : o # p => th'[o].got = th[o].got
        BY <1>8, ActorsDiffer, Zenon DEF Moves
      <3>. QED BY <1>1, <1>8, <3>1, Zenon DEF Got
    <2>8. LD!Take(p) \/ LD!TakeEof(p) \/ LD!Lose(p)
      <3>1. CASE c = eof
        <4>1. Got' = Got /\ Got[p] = <<>>
          <5>1. n.got = <<>> /\ t.got = <<>>
            BY <1>7, <1>16, <3>1, Zenon
          <5>2. [Got EXCEPT ![p] = Got[p]] = Got
            BY Zenon DEF Got
          <5>. QED BY <2>7, <5>1, <5>2, Zenon
        <4>. QED BY <1>14, <2>4, <3>1, <4>1, Zenon DEF LD!TakeEof, Committed, Pending, Got
      <3>2. CASE c # eof /\ n.got = <<>>
        BY <1>14, <2>4, <2>7, <3>2, Zenon DEF LD!Lose, Committed, Pending, Got
      <3>3. CASE c # eof /\ n.got = Append(t.got, c)
        <4>1. Got[p] = <<>> \/ Got[p][Len(Got[p])] # newline
          BY <1>4, <2>7, Zenon DEF Line
        <4>. QED BY <1>14, <2>4, <2>7, <3>3, <4>1, Zenon DEF LD!Take, Committed, Pending, Got
      <3>. QED BY <1>7, <3>1, <3>2, <3>3, Zenon
    <2>. QED BY <2>6, <2>8, Zenon DEF Refines, LD!Next
  <1>. QED BY <1>15, <1>16, Zenon

(* The lengths of what is handed over and of what is not.                  *)
LEMMA Lengths ==
  ASSUME Facts, NEW b \in Inputs, NEW r \in Counters, NEW w \in Counters
  PROVE  Described(INPUT_BUF_SIZE, UintSize, Letters, b, r, w)
  BY Zenon DEF Facts, LineFacts, LineFact, Inputs, Counters

(* The interrupt handler stores the character it has echoed, and a whole   *)
(* line wakes the readers up.                                              *)
LEMMA Store ==
  ASSUME Facts, Inv, consoleintr_store
  PROVE  Inv' /\ Refines
  <1>1. PICK c, t : c = th[intr].c /\ t = [Idle EXCEPT !.pc = "getc"]
    BY Zenon
  <1>2. PICK commits \in BOOLEAN :
          commits <=> c \in {newline, eof} \/ Minus(Inc(cons.e), cons.r) = INPUT_BUF_SIZE
    BY Zenon
  <1>3. /\ th[intr].pc = "unlock"
        /\ lock' = [l \in DOMAIN lock |-> IF lock[l] = intr THEN Nobody ELSE lock[l]]
        /\ tx' = tx /\ fifo' = fifo /\ sent' = sent /\ rx' = rx
    BY Zenon DEF consoleintr_store, device
  <1>4. /\ intr \in Actors /\ intr \notin Writers /\ intr \notin Readers /\ intr \notin Printers
        /\ Nobody \in Holders
        /\ InputType /\ ThreadType /\ LockType /\ Locks /\ Input /\ Room /\ DeviceType
    BY ActorsDiffer, InvParts, Zenon
  <1>5. t \in Threads /\ t.pc = "getc" /\ t.c = none
    <2>1. "getc" \in Labels
      BY Zenon DEF Labels, InterruptAt
    <2>2. Idle \in Threads /\ Idle.c = none
      BY IdleIs, Zenon
    <2>. QED BY <1>1, <2>1, <2>2, Zenon DEF Threads
  <1>6. Moves(intr) /\ th'[intr] = t
    <2>1. CASE th' = [th EXCEPT ![intr] = t]
      BY <1>4, <1>5, <2>1, SetThread, Zenon
    <2>2. CASE th' = Woken([th EXCEPT ![intr] = t], "cons_sleep", "read")
      <3>1. PICK g : g = [th EXCEPT ![intr] = t]
        BY Zenon
      <3>2. WakesAt("cons_sleep", "read") /\ t.pc # "cons_sleep" /\ th' = Woken(g, "cons_sleep", "read")
        BY <1>5, <2>2, <3>1, Zenon DEF WakesAt
      <3>3. Wakes(intr, t, "cons_sleep")
        BY <1>4, <1>5, <3>1, <3>2, WokenIs, Zenon
      <3>. QED BY <3>3, Zenon DEF Wakes
    <2>. QED BY <1>1, <2>1, <2>2, Zenon DEF consoleintr_store
  <1>7. Here(intr, th'[intr].pc) /\ th'[intr].pc \notin {"sync_put", "start_put", "tx_sleep", "start"}
    BY <1>4, <1>5, <1>6, Zenon DEF Here, InterruptAt
  <1>8. ~Echoes'
    BY <1>5, <1>6, Zenon DEF Echoes
  <1>9. /\ LockType'
        /\ lock'.cons = lock.cons \/ lock.cons = intr
        /\ lock'.tx = lock.tx \/ lock.tx = intr
    <2>1. DOMAIN lock = {"cons", "tx", "pr"} /\ lock.cons \in Holders /\ lock.tx \in Holders /\ lock.pr \in Holders
      BY <1>4 DEF LockType
    <2>2. PICK x \in Holders, y \in Holders, z \in Holders :
            /\ lock'.cons = x /\ lock'.tx = y /\ lock'.pr = z
            /\ x = lock.cons \/ lock.cons = intr
            /\ y = lock.tx \/ lock.tx = intr
      BY <1>3, <1>4, <2>1, Zenon
    <2>3. lock' = [cons |-> x, tx |-> y, pr |-> z]
      BY <1>3, <2>1, <2>2
    <2>. QED BY <2>2, <2>3, Zenon DEF LockType
  <1>10. Locking(intr)
    BY <1>5, <1>6, <1>9, Zenon DEF Locking, Locked
  <1>11. CASE c \notin Chars
    <2>1. cons' = cons
      BY <1>1, <1>11, Zenon DEF consoleintr_store
    <2>2. "getc" \in InterruptAt /\ rx' \in Keys \cup {none}
      BY <1>3, <1>4, Zenon DEF InterruptAt, DeviceType
    <2>. QED BY <1>3, <1>5, <1>6, <1>8, <1>9, <2>1, <2>2, InterruptStep, Zenon
  <1>12. CASE c \in Chars
    <2>1. cons' = [cons EXCEPT !.buf[cons.e % INPUT_BUF_SIZE] = c, !.e = Inc(cons.e),
                               !.w = IF commits THEN Inc(cons.e) ELSE @]
      BY <1>1, <1>2, <1>12, Zenon DEF consoleintr_store
    <2>2. PICK b \in Inputs, r \in Counters, w \in Counters, e \in Counters :
            /\ Holds(b, r, w, e) /\ View(b, r, w, e) /\ Fresh(b, r, w, e)
            /\ Between3(INPUT_BUF_SIZE, UintSize, r, w, e)
            /\ Distance(e, r, UintSize) < INPUT_BUF_SIZE
      <3>1. PICK b \in Inputs, r \in Counters, w \in Counters, e \in Counters : Holds(b, r, w, e)
        BY <1>4, Zenon DEF InputType, Holds
      <3>2. View(b, r, w, e)
        BY <3>1, InputIs, Zenon
      <3>3. Echoes
        BY <1>1, <1>3, <1>12, Zenon DEF Echoes
      <3>. QED BY <1>4, <3>1, <3>2, <3>3, Zenon DEF View, Fresh, Room
    <2>3. PICK f \in Counters, d \in Inputs : /\ f = Advance(e, UintSize)
                                              /\ d = [b EXCEPT ![Slot(e, INPUT_BUF_SIZE)] = c]
      <3>1. Advance(e, UintSize) \in Counters
        BY CounterIs, Zenon
      <3>2. [b EXCEPT ![Slot(e, INPUT_BUF_SIZE)] = c] \in Inputs
        BY <1>12, Zenon DEF Inputs, Letters
      <3>. QED BY <3>1, <3>2, Zenon
    <2>4. Types(b, d, INPUT_BUF_SIZE, UintSize, r, w, e, f, c)
      <3>1. Typing(INPUT_BUF_SIZE, UintSize, b, r, w, e, c)
        BY <1>12, <2>2, Zenon DEF Facts, LineFacts, LineFact, Inputs, Counters, Letters
      <3>. QED BY <2>3, <3>1, Zenon DEF Typing
    <2>5. PICK x \in Counters : x = (IF commits THEN f ELSE w)
      BY Zenon
    <2>6. InputType' /\ Holds(d, r, x, f)'
      <3>1. cons' = [cons EXCEPT !.buf = d, !.e = f, !.w = x]
        BY <2>1, <2>2, <2>3, <2>5, Zenon DEF Holds, Slot, Inc
      <3>. QED BY <1>4, <2>2, <3>1, Zenon DEF InputType, Holds
    <2>7. View(d, r, x, f)'
      BY <2>6, InputIs, Zenon
    <2>8. PICK line : /\ line = Append(Pending, c)
                      /\ Content(d, INPUT_BUF_SIZE, UintSize, w, f) = line
                      /\ Content(d, INPUT_BUF_SIZE, UintSize, r, w) = Committed
                      /\ Len(line) = Distance(f, w, UintSize)
                      /\ Len(Committed) = Distance(w, r, UintSize)
      <3>1. Content(d, INPUT_BUF_SIZE, UintSize, w, f) = Append(Pending, c)
            /\ Content(d, INPUT_BUF_SIZE, UintSize, r, w) = Committed
        BY <2>2, <2>4, Zenon DEF View, Types
      <3>2. Described(INPUT_BUF_SIZE, UintSize, Letters, d, w, f) /\ Described(INPUT_BUF_SIZE, UintSize, Letters, d, r, w)
        BY Lengths, Zenon
      <3>. QED BY <3>1, <3>2, Zenon DEF Described
    <2>9. PICK m \in Nat : /\ m = Len(line) + Len(Committed) /\ m <= INPUT_BUF_SIZE
                           /\ commits <=> c \in {newline, eof} \/ m = INPUT_BUF_SIZE
      <3>1. Distance(w, r, UintSize) + Distance(f, w, UintSize) = Distance(f, r, UintSize)
            /\ Distance(f, r, UintSize) <= INPUT_BUF_SIZE
        BY <2>4, Zenon DEF Types, Between3
      <3>2. Distance(w, r, UintSize) \in Nat /\ Distance(f, w, UintSize) \in Nat
            /\ Distance(f, r, UintSize) \in Nat
        BY CounterIs, Zenon
      <3>3. \A i, j \in Nat : i + j = j + i
        OBVIOUS
      <3>4. Distance(f, r, UintSize) = Len(line) + Len(Committed)
        BY <2>8, <3>1, <3>2, <3>3, Zenon
      <3>5. Minus(Inc(cons.e), cons.r) = Distance(f, r, UintSize)
        BY <2>2, <2>3, Zenon DEF Minus, Inc, Holds
      <3>. QED BY <1>2, <3>1, <3>2, <3>4, <3>5, Zenon
    <2>10. Fresh(d, r, x, f) /\ LD!Type(c)
      <3>1. Got' = Got
        <4>1. \A o \in Readers : th'[o].got = th[o].got
          BY <1>4, <1>6, ActorsDiffer, Zenon DEF Moves
        <4>. QED BY <4>1, Zenon DEF Got
      <3>2. CASE commits
        <4>1. Commits(d, INPUT_BUF_SIZE, UintSize, r, w, f) /\ x = f
          BY <2>4, <2>5, <3>2, Zenon DEF Facts, LineFacts, LineFact, Inputs, Counters, Types
        <4>2. Fresh(d, r, x, f)
          <5>1. 1..0 = {}
            OBVIOUS
          <5>. QED BY <4>1, <5>1, Zenon DEF Fresh, Commits
        <4>3. Pending' = <<>> /\ Committed' = Committed \o line
          BY <2>7, <2>8, <4>1, Zenon DEF View, Commits
        <4>. QED BY <2>8, <2>9, <3>1, <3>2, <4>2, <4>3, Zenon DEF LD!Type, Committed, Pending, Got
      <3>3. CASE ~commits
        <4>1. Pending' = line /\ Committed' = Committed /\ x = w
          BY <2>5, <2>7, <2>8, <3>3, Zenon DEF View
        <4>2. \A k \in 1..Distance(f, w, UintSize) : line[k] # newline
          <5>1. Pending \in Seq(Letters) /\ c \in Letters /\ c # newline
            <6>1. Described(INPUT_BUF_SIZE, UintSize, Letters, b, w, e)
              BY Lengths, Zenon
            <6>. QED BY <1>12, <2>2, <2>9, <3>3, <6>1, Zenon DEF Described, View, Letters
          <5>2. \A k \in 1..Len(Pending) : Pending[k] # newline
            <6>1. Described(INPUT_BUF_SIZE, UintSize, Letters, b, w, e)
              BY Lengths, Zenon
            <6>. QED BY <2>2, <6>1, Zenon DEF Described, View, Fresh
          <5>3. \A k \in 1..Len(Append(Pending, c)) : Append(Pending, c)[k] # newline
            BY <5>1, <5>2
          <5>. QED BY <2>8, <5>3, Zenon
        <4>3. Fresh(d, r, x, f)
          BY <2>4, <2>8, <4>1, <4>2, Zenon DEF Fresh, Types
        <4>. QED BY <2>8, <2>9, <3>1, <3>3, <4>1, <4>3, Zenon DEF LD!Type, Committed, Pending, Got
      <3>. QED BY <3>2, <3>3, Zenon
    <2>11. Input' /\ Room'
      BY <1>8, <2>7, <2>10, Zenon DEF View, Room
    <2>12. Inv'
      BY <1>3, <1>4, <1>6, <1>7, <1>10, <2>6, <2>11, InputStep, Zenon
    <2>. QED BY <1>12, <2>10, <2>12, Zenon DEF Refines, LD!Next
  <1>. QED BY <1>11, <1>12, Zenon

(* ^U erases the whole line being edited, which has no newline.            *)
LEMMA KillCount ==
  ASSUME Facts, InputType, Input
  PROVE  kill_count = Edited /\ Edited \in Nat
  <1>1. PICK b \in Inputs, r \in Counters, w \in Counters, e \in Counters :
          /\ Holds(b, r, w, e) /\ View(b, r, w, e) /\ Fresh(b, r, w, e)
    <2>1. PICK b \in Inputs, r \in Counters, w \in Counters, e \in Counters : Holds(b, r, w, e)
      BY Zenon DEF InputType, Holds
    <2>2. View(b, r, w, e)
      BY <2>1, InputIs, Zenon
    <2>. QED BY <2>1, <2>2, Zenon DEF View
  <1>2. PICK d \in Nat : d = Distance(e, w, UintSize) /\ d = Edited
    BY <1>1, CounterIs, Zenon DEF Edited, Minus, Holds
  <1>3. ASSUME NEW j \in 1..d PROVE cons.buf[Minus(cons.e, j) % INPUT_BUF_SIZE] # newline
    <2>1. d - j + 1 \in 1..d
      OBVIOUS
    <2>2. Backwards(INPUT_BUF_SIZE, UintSize, b, w, e, j)
      BY <1>2, <1>3, Zenon DEF Facts, LineFacts, LineFact, Inputs, Counters
    <2>3. Content(b, INPUT_BUF_SIZE, UintSize, w, e)[d - j + 1] # newline
      BY <1>1, <1>2, <2>1, Zenon DEF Fresh
    <2>. QED BY <1>1, <1>2, <2>2, <2>3, Zenon DEF Backwards, Holds, Minus, Slot
  <1> DEFINE P(k) == /\ \A j \in 1..k : cons.buf[Minus(cons.e, j) % INPUT_BUF_SIZE] # newline
                     /\ k < Edited => cons.buf[Minus(cons.e, k + 1) % INPUT_BUF_SIZE] = newline
  <1>4. P(d) /\ d \in 0..d
    <2>1. ~(d < d) /\ d \in 0..d
      OBVIOUS
    <2>. QED BY <1>2, <1>3, <2>1, Zenon
  <1>5. ASSUME NEW k \in 0..d, P(k) PROVE k = d
    <2>1. CASE k < d
      <3>1. k + 1 \in 1..d
        BY <2>1
      <3>2. cons.buf[Minus(cons.e, k + 1) % INPUT_BUF_SIZE] = newline
        BY <1>2, <1>5, <2>1, Zenon
      <3>. QED BY <1>3, <3>1, <3>2, Zenon
    <2>2. CASE ~(k < d)
      BY <2>2
    <2>. QED BY <2>1, <2>2, Zenon
  <1>6. kill_count = CHOOSE k \in 0..Edited : P(k)
    BY Zenon DEF kill_count
  <1>7. (CHOOSE k \in 0..d : P(k)) \in 0..d /\ P(CHOOSE k \in 0..d : P(k))
    BY <1>4, Zenon
  <1>8. kill_count \in 0..d /\ P(kill_count)
    BY <1>2, <1>6, <1>7, Zenon
  <1> HIDE DEF P
  <1>. QED BY <1>2, <1>5, <1>8, Zenon

(* The interrupt handler erases characters, or echoes one that it has room *)
(* for.                                                                    *)
LEMMA Key ==
  ASSUME Facts, Inv, consoleintr_key
  PROVE  Inv' /\ Refines
  <1>1. /\ intr \in Actors /\ intr \notin Writers /\ intr \notin Readers /\ intr \notin Printers
        /\ intr \in Holders /\ lock.cons = Nobody
        /\ InputType /\ ThreadType /\ LockType /\ Input
    BY ActorsDiffer, InvParts, Zenon DEF consoleintr_key
  <1>2. PICK b \in Inputs, r \in Counters, w \in Counters, e \in Counters :
          /\ Holds(b, r, w, e) /\ View(b, r, w, e) /\ Fresh(b, r, w, e)
          /\ Between3(INPUT_BUF_SIZE, UintSize, r, w, e)
    <2>1. PICK b \in Inputs, r \in Counters, w \in Counters, e \in Counters : Holds(b, r, w, e)
      BY <1>1, Zenon DEF InputType, Holds
    <2>2. View(b, r, w, e)
      BY <2>1, InputIs, Zenon
    <2>. QED BY <1>1, <2>1, <2>2, Zenon DEF View, Fresh
  <1>3. PICK D \in Nat : D = Distance(e, w, UintSize) /\ D = Edited /\ kill_count = D
    BY <1>1, <1>2, CounterIs, KillCount, Zenon DEF Edited, Minus, Holds
  <1>4. PICK k \in 0..D, n \in Int, next \in {"procdump", "unlock", "full"} :
          /\ consoleintr(k, n, next) /\ k \in {0, 1, D}
          /\ th[intr].c \in Chars => (next = "full" /\ n = 0) \/ Distance(e, r, UintSize) < INPUT_BUF_SIZE
    <2>1. 0 \in 0..D /\ D \in 0..D /\ (D > 0 => 1 \in 0..D) /\ 0 \in Int
      OBVIOUS
    <2>2. CASE consoleintr(0, 0, "procdump") /\ th[intr].c = procdump
      <3>1. procdump \notin Chars
        BY Zenon DEF procdump, Chars, plain, newline, eof
      <3>. QED BY <2>1, <2>2, <3>1, Zenon
    <2>3. CASE /\ th[intr].c \in {kill_line, backspace}
               /\ \E x \in {D, 1, 0} : (x = 1 => D > 0) /\ consoleintr(x, x * consputc(backspace), "unlock")
      <3>1. kill_line \notin Chars /\ backspace \notin Chars
        BY Zenon DEF kill_line, backspace, Chars, plain, newline, eof
      <3>2. PICK x \in {D, 1, 0} : (x = 1 => D > 0) /\ consoleintr(x, x * consputc(backspace), "unlock")
        BY <2>3, Zenon
      <3>3. x \in 0..D /\ x * consputc(backspace) \in Int
        <4>1. x \in 0..D
          BY <2>1, <3>2, Zenon
        <4>2. x * 3 \in Int
          BY <4>1
        <4>. QED BY <4>1, <4>2, Zenon DEF consputc
      <3>. QED BY <2>3, <3>1, <3>2, <3>3, Zenon
    <2>4. CASE /\ Minus(cons.e, cons.r) < INPUT_BUF_SIZE
               /\ consoleintr(0, consputc(th[intr].c), "unlock")
      <3>1. consputc(th[intr].c) \in Int
        BY DEF consputc
      <3>2. Distance(e, r, UintSize) < INPUT_BUF_SIZE
        BY <1>2, <2>4, Zenon DEF View
      <3>. QED BY <2>1, <2>4, <3>1, <3>2, Zenon
    <2>5. CASE consoleintr(0, 0, "full")
      BY <2>1, <2>5, Zenon
    <2>6. \/ consoleintr(0, 0, "procdump") /\ th[intr].c = procdump
          \/ /\ th[intr].c \in {kill_line, backspace}
             /\ \E x \in {D, 1, 0} : (x = 1 => D > 0) /\ consoleintr(x, x * consputc(backspace), "unlock")
          \/ /\ Minus(cons.e, cons.r) < INPUT_BUF_SIZE
             /\ consoleintr(0, consputc(th[intr].c), "unlock")
          \/ consoleintr(0, 0, "full")
      <3>1. PICK x \in {D, 1, 0} :
              /\ x = 1 => D > 0
              /\ x = (IF th[intr].c = kill_line THEN kill_count ELSE IF Edited > 0 THEN 1 ELSE 0)
        <4>1. 1 # 0 /\ (D = 1 => D > 0)
          OBVIOUS
        <4>. QED BY <1>3, <4>1, Zenon
      <3>. QED BY <3>1, Zenon DEF consoleintr_key
    <2>. QED BY <2>2, <2>3, <2>4, <2>5, <2>6, Zenon
  <1>5. PICK l \in {"procdump", "unlock", "full", "sync"} :
          /\ Jumps(intr, l)
          /\ th[intr].c \in Chars => l = "full" \/ Distance(e, r, UintSize) < INPUT_BUF_SIZE
    <2>1. PICK l : l = (IF n = 0 THEN next ELSE "sync") /\ th' = [th EXCEPT ![intr].n = n, ![intr].pc = l]
      BY <1>4, Zenon DEF consoleintr
    <2>2. l \in {"procdump", "unlock", "full", "sync"} /\ l \in Labels
      BY <2>1, Zenon DEF Labels, InterruptAt
    <2>3. Jumps(intr, l)
      BY <1>1, <2>1, <2>2, CountIs, Zenon
    <2>. QED BY <1>4, <2>1, <2>2, <2>3, Zenon
  <1>6. /\ Moves(intr) /\ Here(intr, th'[intr].pc)
        /\ th'[intr].pc \notin {"sync_put", "start_put", "tx_sleep", "start"}
    BY <1>1, <1>5, Zenon DEF Jumps, Here, InterruptAt
  <1>7. Locking(intr)
    <2>1. LockType' /\ lock'.cons = intr /\ lock'.tx = lock.tx
      BY <1>1, <1>4, HoldIs, Zenon DEF consoleintr
    <2>. QED BY <1>1, <1>6, <2>1, Zenon DEF Locking, Locked
  <1>8. tx' = tx /\ fifo' = fifo /\ sent' = sent /\ rx' = rx
    BY <1>4, Zenon DEF consoleintr, device
  <1>9. PICK d \in Inputs : /\ Without(INPUT_BUF_SIZE, UintSize, b, d, e, k)
                            /\ cons' = [cons EXCEPT !.e = Distance(e, k, UintSize), !.buf = d]
    <2>1. DOMAIN b = 0..INPUT_BUF_SIZE - 1 /\ \A j \in 0..INPUT_BUF_SIZE - 1 : b[j] \in Letters
      BY Zenon DEF Inputs
    <2>2. PICK d : d = [j \in 0..INPUT_BUF_SIZE - 1 |->
                         IF \E m \in 1..k : j = Slot(Distance(e, m, UintSize), INPUT_BUF_SIZE)
                         THEN none ELSE b[j]]
      BY Zenon
    <2>3. d \in Inputs /\ Without(INPUT_BUF_SIZE, UintSize, b, d, e, k)
      BY <2>1, <2>2, Zenon DEF Inputs, Without, Letters
    <2>4. cons' = [cons EXCEPT !.e = Distance(e, k, UintSize), !.buf = d]
      BY <1>2, <1>4, <2>1, <2>2, Zenon DEF consoleintr, Holds, Minus, Slot
    <2>. QED BY <2>3, <2>4, Zenon
  <1>10. PICK f \in Counters :
           /\ f = Distance(e, k, UintSize)
           /\ Erases(b, d, INPUT_BUF_SIZE, UintSize, r, w, e, f, k)
    BY <1>2, <1>3, <1>9, Zenon DEF Facts, LineFacts, LineFact, Inputs, Counters
  <1>11. InputType' /\ Holds(d, r, w, f)'
    BY <1>1, <1>2, <1>9, <1>10, Zenon DEF InputType, Holds
  <1>12. View(d, r, w, f)'
    BY <1>11, InputIs, Zenon
  <1>13. /\ Pending \in Seq(Letters) /\ Len(Pending) = D
         /\ \A j \in 1..D : Pending[j] # newline
         /\ Pending' = SubSeq(Pending, 1, D - k) /\ Len(Pending') = Distance(f, w, UintSize)
         /\ Pending' = Content(d, INPUT_BUF_SIZE, UintSize, w, f)
         /\ Committed' = Committed
    <2>1. Described(INPUT_BUF_SIZE, UintSize, Letters, b, w, e) /\ Described(INPUT_BUF_SIZE, UintSize, Letters, d, w, f)
      BY Lengths, Zenon
    <2>2. /\ Pending' = SubSeq(Pending, 1, D - k) /\ Committed' = Committed
          /\ Pending' = Content(d, INPUT_BUF_SIZE, UintSize, w, f)
      BY <1>2, <1>3, <1>10, <1>12, Zenon DEF View, Erases
    <2>3. Pending \in Seq(Letters) /\ Len(Pending) = D /\ \A j \in 1..D : Pending[j] # newline
      BY <1>2, <1>3, <2>1, Zenon DEF View, Fresh, Described
    <2>4. Len(Pending') = Distance(f, w, UintSize)
      BY <2>1, <2>2, Zenon DEF Described
    <2>. QED BY <2>2, <2>3, <2>4, Zenon
  <1>14. PICK s \in Seq(Letters), u \in Seq(Letters) :
           s = Pending /\ u = Pending' /\ u = SubSeq(s, 1, D - k) /\ Len(s) = D
    <2>1. SubSeq(Pending, 1, D - k) \in Seq(Letters)
      BY <1>13
    <2>. QED BY <1>13, <2>1, Zenon
  <1>15. /\ \A j \in 1..Len(u) : u[j] = s[j] /\ j \in 1..D
         /\ k = 0 => u = s
         /\ k # 0 => s # <<>>
         /\ k = D => u = <<>>
         /\ k = 1 => u = SubSeq(s, 1, Len(s) - 1)
    BY <1>14
  <1>16. Fresh(d, r, w, f)
    BY <1>10, <1>13, <1>14, <1>15, Zenon DEF Fresh, Erases
  <1>17. Input' /\ Room'
    <2>1. Echoes' => Distance(e, r, UintSize) < INPUT_BUF_SIZE
      BY <1>5, Zenon DEF Echoes, Jumps
    <2>2. Distance(e, r, UintSize) < INPUT_BUF_SIZE => Distance(f, r, UintSize) < INPUT_BUF_SIZE
      <3>1. PICK i \in Nat, j \in Nat : i = Distance(e, r, UintSize) /\ j = Distance(f, r, UintSize)
        BY CounterIs, Zenon
      <3>2. j <= i
        BY <1>10, <3>1, Zenon DEF Erases
      <3>3. i < INPUT_BUF_SIZE => j < INPUT_BUF_SIZE
        BY <3>2, Sizes
      <3>. QED BY <3>1, <3>3, Zenon
    <2>. QED BY <1>12, <1>16, <2>1, <2>2, Zenon DEF View, Room
  <1>18. Inv'
    BY <1>1, <1>6, <1>7, <1>8, <1>11, <1>17, InputStep, Zenon
  <1>19. Refines
    <2>1. Got' = Got
      <3>1. \A o \in Readers : th'[o].got = th[o].got
        BY <1>1, <1>6, ActorsDiffer, Zenon DEF Moves
      <3>. QED BY <3>1, Zenon DEF Got
    <2>2. CASE k = 0
      <3>1. Pending' = Pending /\ Committed' = Committed
        BY <1>13, <1>14, <1>15, <2>2, Zenon
      <3>. QED BY <2>1, <3>1, Zenon DEF Refines, LD!vars, Committed, Pending, Got
    <2>3. CASE k # 0
      <3>1. /\ Pending # <<>> /\ Committed' = Committed
            /\ Pending' \in {<<>>, SubSeq(Pending, 1, Len(Pending) - 1)}
        BY <1>4, <1>13, <1>14, <1>15, <2>3, Zenon
      <3>2. LD!Erase
        BY <2>1, <3>1, Zenon DEF LD!Erase, Committed, Pending, Got
      <3>. QED BY <3>2, Zenon DEF Refines, LD!Next
    <2>. QED BY <2>2, <2>3, Zenon
  <1>. QED BY <1>18, <1>19, Zenon

-----------------------------------------------------------------------------
(* The initial states and all steps.                                       *)

(* Nothing is there at the beginning.                                      *)
LEMMA Initially ==
  ASSUME Facts, Init
  PROVE  Inv /\ LD!Init
  <1>1. PICK s \in Counters, b \in Inputs, d \in Outputs :
          /\ cons = [buf |-> b, r |-> s, w |-> s, e |-> s]
          /\ tx = [buf |-> d, r |-> s, w |-> s]
    <2>1. PICK s \in Starts :
            /\ cons = [buf |-> [k \in 0..INPUT_BUF_SIZE - 1 |-> none], r |-> s, w |-> s, e |-> s]
            /\ tx = [buf |-> [k \in 0..UART_TX_BUF_SIZE - 1 |-> <<none, 0>>], r |-> s, w |-> s]
      BY Zenon DEF Init
    <2>2. s \in Counters
      BY ConsoleAssumption, Zenon DEF Counters
    <2>3. <<none, 0>> \in Entries
      BY DEF Entries
    <2>4. [k \in 0..INPUT_BUF_SIZE - 1 |-> none] \in Inputs
      BY Zenon DEF Inputs, Letters
    <2>5. [k \in 0..UART_TX_BUF_SIZE - 1 |-> <<none, 0>>] \in Outputs
      BY <2>3, Zenon DEF Outputs
    <2>. QED BY <2>1, <2>2, <2>4, <2>5, Zenon
  <1>2. /\ lock = [cons |-> Nobody, tx |-> Nobody, pr |-> Nobody]
        /\ th = [q \in Actors |-> Idle]
        /\ fifo = <<>> /\ rx = none /\ sent = [p \in Writers |-> 0]
    BY Zenon DEF Init
  <1>3. Distance(s, s, UintSize) = 0 /\ 1..0 = {}
    <2>1. 1..0 = {}
      OBVIOUS
    <2>. QED BY <2>1, CounterIs, Zenon
  <1>4. /\ Content(b, INPUT_BUF_SIZE, UintSize, s, s) = <<>>
        /\ Content(d, UART_TX_BUF_SIZE, UintSize, s, s) = <<>>
    BY <1>3 DEF Content
  <1>5. InputType /\ OutputType
    BY <1>1, Zenon DEF InputType, OutputType
  <1>6. LockType /\ DeviceType
    <2>1. Nobody \in Holders
      BY ActorsDiffer, Zenon
    <2>2. <<>> \in Seq(Entries) /\ 0 \in Nat
      OBVIOUS
    <2>. QED BY <1>2, <2>1, <2>2, Zenon DEF LockType, DeviceType
  <1>7. /\ ThreadType
        /\ \A q \in Actors : th[q].pc = "idle" /\ th[q].got = <<>>
    <2>1. \A q \in Actors : th[q] = Idle
      BY <1>2, Zenon
    <2>2. th \in [Actors -> Threads] /\ \A q \in Actors : th[q].pc = "idle" /\ th[q].got = <<>>
      BY <1>2, <2>1, IdleIs, Zenon
    <2>3. \A q \in Actors : Here(q, "idle")
      BY Zenon DEF Here, ReaderAt, WriterAt, PrinterAt, InterruptAt
    <2>. QED BY <2>2, <2>3, Zenon DEF ThreadType
  <1>8. Locks /\ Calls /\ Room
    BY <1>7, ActorsDiffer, Zenon DEF Locks, Locked, Calls, Line, Room, Echoes
  <1>9. Input
    <2>1. Holds(b, s, s, s)
      BY <1>1, Zenon DEF Holds
    <2>2. View(b, s, s, s)
      BY <2>1, InputIs, Zenon
    <2>3. 0 + 0 = 0 /\ 0 <= INPUT_BUF_SIZE
      BY Sizes
    <2>. QED BY <1>3, <2>2, <2>3, Zenon DEF View, Fresh, Between3
  <1>10. Buffers
    <2>1. Minus(tx.w, tx.r) = 0
      BY <1>1, <1>3, Zenon DEF Minus
    <2>2. 0 <= UART_TX_BUF_SIZE
      BY Sizes
    <2>. QED BY <1>7, <2>1, <2>2, Zenon DEF Buffers, Buffer
  <1>11. Fits
    <2>1. InPut = {}
      BY <1>7, Zenon DEF InPut, Putting
    <2>2. PICK x \in Holders : TRUE
      BY ActorsDiffer, Zenon
    <2>3. {} \in SUBSET (Printers \cup {intr, x})
      BY Zenon
    <2>4. Cardinality({}) \in Nat /\ Cardinality({}) <= 2 + Cardinality(Printers)
      BY <2>3, Zenon DEF Facts, Counts
    <2>5. Len(<<>>) + Cardinality({}) = Cardinality({})
      BY <2>4
    <2>. QED BY <1>2, <2>1, <2>4, <2>5, Zenon DEF Fits
  <1>12. Order
    <2>1. ASSUME NEW p \in Writers PROVE Queue(<<>>, <<>>, p, 0, 0)
      <3>1. DOMAIN <<>> = {} /\ 0 + 1..0 = {} /\ 0 <= 0
        OBVIOUS
      <3>2. Numbers(<<>>, p) = {} /\ InOrder(<<>>, p)
        BY <3>1, Zenon DEF Numbers, InOrder
      <3>. QED BY <3>1, <3>2, Zenon DEF Queue
    <2>2. Ring = <<>>
      BY <1>1, <1>4, Zenon DEF Ring
    <2>3. \A p \in Writers : Written(p) = 0 /\ sent[p] = 0
      BY <1>2, <1>7, ActorsDiffer, Zenon DEF Written
    <2>. QED BY <1>2, <2>1, <2>2, <2>3, Zenon DEF Order
  <1>13. Inv
    BY <1>5, <1>6, <1>7, <1>8, <1>9, <1>10, <1>11, <1>12, Zenon DEF Inv, TypeOK
  <1>14. LD!Init
    <2>1. Committed = <<>> /\ Pending = <<>>
      BY <1>1, <1>4, Zenon DEF Committed, Pending, Between
    <2>2. Got = [p \in Readers |-> <<>>]
      BY <1>7, ActorsDiffer, Zenon DEF Got
    <2>. QED BY <2>1, <2>2, Zenon DEF LD!Init, Committed, Pending, Got
  <1>. QED BY <1>13, <1>14, Zenon

(* Every step keeps the invariant, and is a step of the line discipline or *)
(* none.                                                                   *)
LEMMA EveryStep ==
  ASSUME Facts, Inv, [Next]_vars
  PROVE  Inv' /\ Refines
  <1>1. CASE \E c \in Keys : uart_receive(c)
    BY <1>1, Receive, Zenon
  <1>2. CASE uart_transmit
    BY <1>2, Transmit, Zenon
  <1>3. CASE Interrupt
    <2>1. intr \in Printers \cup {intr} /\ intr \in Writers \cup {intr}
      BY Zenon
    <2>2. CASE devintr \/ uartgetc \/ uartintr_start \/ plic_complete
      BY <2>2, Interrupting, Zenon
    <2>3. CASE consoleintr_key
      BY <2>3, Key, Zenon
    <2>4. CASE consoleintr_procdump \/ consoleintr_full
      BY <2>4, Dropping, Zenon
    <2>5. CASE consoleintr_store
      BY <2>5, Store, Zenon
    <2>6. CASE uartputc_sync_wait(intr)
      BY <2>1, <2>6, SyncWait, Zenon
    <2>7. CASE uartputc_sync_put(intr, "unlock")
      BY <2>1, <2>7, SyncPut, Zenon
    <2>8. CASE uartstart_test(intr, "next")
      BY <2>1, <2>8, StartTest, Zenon
    <2>9. CASE uartstart_put(intr)
      BY <2>1, <2>9, StartPut, Zenon
    <2>. QED BY <1>3, <2>2, <2>3, <2>4, <2>5, <2>6, <2>7, <2>8, <2>9, Zenon DEF Interrupt
  <1>4. ASSUME NEW p \in Readers, (\E n \in ReadSizes : consoleread(p, n)) \/ Read(p) \/ kill(p)
        PROVE  Inv' /\ Refines
    <2>1. CASE \E ok \in BOOLEAN : consoleread_char(p, ok)
      BY <2>1, Char, Zenon
    <2>2. CASE \/ \E n \in ReadSizes : consoleread(p, n)
               \/ consoleread_sleep(p) \/ consoleread_return(p) \/ kill(p)
      BY <2>2, Reading, Zenon
    <2>. QED BY <1>4, <2>1, <2>2, Zenon DEF Read
  <1>5. ASSUME NEW p \in Writers, consolewrite(p) \/ Write(p)
        PROVE  Inv' /\ Refines
    <2>1. p \in Writers \cup {intr}
      BY Zenon
    <2>2. CASE consolewrite(p) \/ consolewrite_break(p) \/ consolewrite_next(p)
      BY <2>2, Writing, Zenon
    <2>3. CASE uartputc(p)
      BY <2>3, Putc, Zenon
    <2>4. CASE uartstart_test(p, "next")
      BY <2>1, <2>4, StartTest, Zenon
    <2>5. CASE uartstart_put(p)
      BY <2>1, <2>5, StartPut, Zenon
    <2>. QED BY <1>5, <2>2, <2>3, <2>4, <2>5, Zenon DEF Write
  <1>6. ASSUME NEW q \in Printers, printf(q) \/ Printing(q)
        PROVE  Inv' /\ Refines
    <2>1. q \in Printers \cup {intr}
      BY Zenon
    <2>2. CASE printf(q) \/ printf_return(q)
      BY <2>2, Printf, Zenon
    <2>3. CASE uartputc_sync_wait(q)
      BY <2>1, <2>3, SyncWait, Zenon
    <2>4. CASE uartputc_sync_put(q, "unlock")
      BY <2>1, <2>4, SyncPut, Zenon
    <2>. QED BY <1>6, <2>2, <2>3, <2>4, Zenon DEF Printing
  <1>7. CASE UNCHANGED vars
    <2>1. /\ rx' \in Keys \cup {none}
          /\ cons' = cons /\ tx' = tx /\ lock' = lock /\ th' = th /\ fifo' = fifo /\ sent' = sent
      BY <1>7, InvParts, Zenon DEF vars, kernel, device, DeviceType
    <2>. QED BY <2>1, Unmoved, Zenon
  <1>. QED BY <1>1, <1>2, <1>3, <1>4, <1>5, <1>6, <1>7, Zenon DEF Next

(* The invariant says that no character is lost or overtaken.              *)
LEMMA InOrderFollows ==
  ASSUME Facts, Inv
  PROVE  OutputInOrder
  <1>1. /\ OutputType /\ DeviceType /\ Buffers /\ Order /\ Input /\ InputType
    BY Zenon DEF Inv, TypeOK
  <1>2. Minus(tx.w, tx.r) <= UART_TX_BUF_SIZE
    BY <1>1, Zenon DEF Buffers
  <1>3. Minus(cons.w, cons.r) <= Minus(cons.e, cons.r) /\ Minus(cons.e, cons.r) <= INPUT_BUF_SIZE
    <2>1. cons.r \in Counters /\ cons.w \in Counters /\ cons.e \in Counters
      BY <1>1, Zenon DEF InputType
    <2>2. PICK x \in Nat, y \in Nat : x = Minus(cons.w, cons.r) /\ y = Minus(cons.e, cons.w)
      BY <2>1, CounterIs, Zenon DEF Minus
    <2>3. x + y = Minus(cons.e, cons.r) /\ Minus(cons.e, cons.r) <= INPUT_BUF_SIZE
      BY <1>1, <2>2, Zenon DEF Input, Between3, Minus
    <2>4. x <= x + y
      OBVIOUS
    <2>. QED BY <2>2, <2>3, <2>4, Zenon
  <1>4. ASSUME NEW p \in Writers
        PROVE  /\ InOrder(fifo \o Ring, p)
               /\ Numbers(fifo \o Ring, p) = sent[p] + 1..Written(p) /\ sent[p] <= Written(p)
    <2>1. Queue(fifo, Ring, p, sent[p], Written(p))
      BY <1>1, Zenon DEF Order
    <2>2. fifo \in Seq(Entries) /\ Ring \in Seq(Entries)
      BY <1>1, RingIs, Zenon DEF DeviceType
    <2>3. Joined(fifo \o Ring, p, sent[p], Written(p))
      BY <2>1, <2>2, Zenon DEF Facts, QueueFacts
    <2>. QED BY <2>3, Zenon DEF Joined
  <1>5. ASSUME NEW p \in Writers, th[p].pc = "tx_sleep"
        PROVE  Minus(tx.w, tx.r) = UART_TX_BUF_SIZE
    BY <1>1, <1>5, ActorsDiffer, Zenon DEF Buffers, Buffer
  <1>. QED BY <1>2, <1>3, <1>4, <1>5, Zenon DEF OutputInOrder

-----------------------------------------------------------------------------
(* The facts follow from the assumptions about the constants.              *)

INSTANCE FiniteSetTheorems

(* Those that may write to the transmitter at once are finite in number.   *)
LEMMA CountsHold == Counts
  <1>1. ASSUME NEW x \in Holders, NEW S \in SUBSET (Printers \cup {intr, x})
        PROVE  /\ IsFiniteSet(S) /\ Cardinality(S) \in Nat
               /\ Cardinality(S) <= 2 + Cardinality(Printers)
    <2>1. IsFiniteSet(Printers) /\ Cardinality(Printers) \in Nat
      BY ConsoleAssumption, FS_CardinalityType, Zenon
    <2>2. PICK m \in Nat : m = Cardinality(Printers)
      BY <2>1, Zenon
    <2>3. PICK P : P = Printers \cup {intr}
      BY Zenon
    <2>4. IsFiniteSet(P) /\ (Cardinality(P) = m \/ Cardinality(P) = m + 1)
      BY <2>1, <2>2, <2>3, FS_AddElement, Zenon
    <2>5. PICK Q : Q = P \cup {x}
      BY Zenon
    <2>6. /\ IsFiniteSet(Q)
          /\ Cardinality(Q) = Cardinality(P) \/ Cardinality(Q) = Cardinality(P) + 1
      BY <2>4, <2>5, FS_AddElement, Zenon
    <2>7. Cardinality(Q) \in Nat /\ Cardinality(Q) <= 2 + m
      BY <2>2, <2>4, <2>6
    <2>8. S \in SUBSET Q
      BY <2>3, <2>5, Zenon
    <2>9. IsFiniteSet(S) /\ Cardinality(S) <= Cardinality(Q)
      BY <2>6, <2>8, FS_Subset, Zenon
    <2>10. Cardinality(S) \in Nat
      BY <2>9, FS_CardinalityType, Zenon
    <2>11. Cardinality(S) <= 2 + m
      BY <2>2, <2>7, <2>9, <2>10
    <2>. QED BY <2>2, <2>9, <2>10, <2>11, Zenon
  <1>2. ASSUME NEW S, IsFiniteSet(S), NEW T \in SUBSET S
        PROVE  Cardinality(T) \in Nat /\ Cardinality(T) <= Cardinality(S)
    BY <1>2, FS_Subset, FS_CardinalityType, Zenon
  <1>3. ASSUME NEW S, IsFiniteSet(S), Cardinality(S) \in Nat, NEW y \in S
        PROVE  Cardinality(S \ {y}) + 1 = Cardinality(S)
    <2>1. Cardinality(S \ {y}) = Cardinality(S) - 1
      BY <1>3, FS_RemoveElement, Zenon
    <2>. QED BY <1>3, <2>1
  <1>. QED BY <1>1, <1>2, <1>3, Zenon DEF Counts

-----------------------------------------------------------------------------
(* The theorems.                                                           *)

INSTANCE RingTheorems

(* All the facts.                                                          *)
LEMMA FactsHold == Facts
  <1>1. Divides(INPUT_BUF_SIZE, UintSize) /\ Divides(UART_TX_BUF_SIZE, UintSize)
    BY ConsoleAssumption, Zenon DEF Divides
  <1>. QED BY <1>1, Sizes, CountsHold, CounterFactsHold, RingFactsHold, QueueFactsHold, LineFactsHold, Zenon
           DEF Facts

(* The inductive invariant: no position of consoleread, consolewrite,      *)
(* uartstart, uartputc_sync or consoleintr breaks it.                      *)
THEOREM Invariance == Spec => []Inv
  <1>1. Init => Inv
    BY FactsHold, Initially, Zenon
  <1>2. Inv /\ [Next]_vars => Inv'
    BY FactsHold, EveryStep, Zenon
  <1>. QED BY <1>1, <1>2, PTL DEF Spec

(* Between consolewrite and the wire no character of a writer is lost,     *)
(* doubled or overtaken by a later one of the same writer, neither counter *)
(* pair ever spans more than its buffer, and a writer sleeps in uartputc   *)
(* only while the buffer is full.                                          *)
THEOREM OutputInOrderHolds == Spec => []OutputInOrder
  <1>1. Inv => OutputInOrder
    BY FactsHold, InOrderFollows, Zenon
  <1>. QED BY <1>1, Invariance, PTL

(* The input buffer with its wrapping counters r, w and e, filled by       *)
(* consoleintr and emptied by consoleread, is the line discipline: keys    *)
(* are typed and erased at the end of the pending line only, and each call *)
(* is handed the committed characters in order, a line at most.            *)
THEOREM ConsoleRefinesLineDiscipline == Spec => ImplementsLineDiscipline
  <1>1. Init => LD!Init
    BY FactsHold, Initially, Zenon
  <1>2. Inv /\ [Next]_vars => [LD!Next]_(LD!vars)
    BY FactsHold, EveryStep, Zenon DEF Refines
  <1>. QED BY <1>1, <1>2, Invariance, PTL DEF Spec, ImplementsLineDiscipline, LD!Spec

=============================================================================
