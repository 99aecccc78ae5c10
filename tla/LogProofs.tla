------------------------------ MODULE LogProofs ------------------------------
(***************************************************************************)
(* Proofs about the redo log: its space accounting never fails a call that *)
(* writes fewer blocks than it reserves, and it implements AtomicDisk.     *)
(***************************************************************************)
EXTENDS Log, TLAPS

-----------------------------------------------------------------------------
(* The inductive invariant *)

\* outstanding counts the calls in progress, the committing flag and the position
\* in commit() agree, and calls run only while neither commit() nor recovery does.
Phases ==
    /\ outstanding = Cardinality(InOp)
    /\ committing = 1 <=> step \in CommitSteps
    /\ step # "none" => InOp = {}
    /\ step \in {"r_install", "write_log", "install"} => tail >= 1

\* What a call wrote is in the log, and is no more than it may write.
CallsWrote ==
    \A p \in Procs :
        /\ pc[p] # "op" => wrote[p] = {}
        /\ IsFiniteSet(wrote[p])
        /\ Cardinality(wrote[p]) <= OpBlocks
        /\ wrote[p] \subseteq logged

Control == TypeOK /\ Phases /\ CallsWrote

\* Both headers fit in the log; the one on disk is empty or the one in memory.
Space ==
    /\ ReservationFits
    /\ Len(lh) < LogBlocks
    /\ Len(header) < LogBlocks
    /\ Len(header) <= LogSize

\* Both headers name a block once.  While a header is on disk, memory has the
\* same one, or recovery is about to read it.
Headers ==
    /\ \A i, j \in 1..Len(lh) : lh[i] = lh[j] => i = j
    /\ \A i, j \in 1..Len(header) : header[i] = header[j] => i = j
    /\ step \in {"none", "write_log", "end"} => header = <<>>
    /\ step \in {"r_install", "install"} => header = lh
    /\ step \in {"read_head", "end"} => lh = <<>>
    /\ step = "none" /\ outstanding = 0 => lh = <<>>

\* Where the contents of each block are.
Contents ==
    /\ step \in RecoverySteps => cache = home
    /\ step \in {"none", "write_log", "install", "end"} =>
         \A b \in Blocks : b \notin logged => cache[b] = home[b]
    /\ step = "write_log" =>
         \A i \in 1..Len(lh) : i < tail => logd[i] = cache[lh[i]]
    /\ step = "install" => \A i \in 1..Len(lh) : logd[i] = cache[lh[i]]
    /\ step \in {"install", "r_install"} =>
         \A i \in 1..Len(lh) : i < tail => logd[i] = home[lh[i]]

Inv == Control /\ Space /\ Headers /\ Contents /\ PinsBalance

-----------------------------------------------------------------------------
(* One lemma per conjunct of the invariant, one step per action. *)

\* What log_write() does to the in-memory header.
LEMMA LogWriteHeader ==
  ASSUME Inv, NEW p \in Procs, NEW b \in Blocks, NEW v \in Values, log_write(p, b, v)
  PROVE  /\ \/ b \in logged /\ lh' = lh /\ pins' = pins
            \/ /\ b \notin logged
               /\ Len(lh') = Len(lh) + 1
               /\ \A i \in 1..Len(lh) : lh'[i] = lh[i]
               /\ lh'[Len(lh) + 1] = b
               /\ pins' = [pins EXCEPT ![b] = @ + 1]
         /\ logged' = logged \cup {b}
  <1>. lh \in Seq(Blocks) /\ Len(lh) \in Nat
    BY DEF Inv, Control, TypeOK
  <1>1. CASE b \in logged
    <2>1. lh' = lh /\ pins' = pins
      BY <1>1 DEF log_write
    <2>. QED BY <1>1, <2>1 DEF logged
  <1>2. CASE b \notin logged
    <2>1. lh' = Append(lh, b) /\ pins' = [pins EXCEPT ![b] = @ + 1]
      BY <1>2 DEF log_write
    <2>2. /\ Len(lh') = Len(lh) + 1
          /\ \A i \in 1..Len(lh) : lh'[i] = lh[i]
          /\ lh'[Len(lh) + 1] = b
      BY <2>1
    <2>. QED BY <1>2, <2>1, <2>2 DEF logged
  <1>. QED BY <1>1, <1>2

\* The in-memory header names each block once and agrees with the one on disk
\* from write_head() to the clearing of the log.
LEMMA HeadersStep == Inv /\ TypeOK' /\ [Next]_vars => Headers'
  <1>. SUFFICES ASSUME Inv, TypeOK', [Next]_vars PROVE Headers'
    OBVIOUS
  <1>. USE DEF Inv, Headers
  <1>a. TypeOK /\ TypeOK'
    BY DEF Control
  <1>b. \A p \in Procs : pc[p] = "op" => step = "none"
    BY DEF Control, Phases, InOp
  <1>1. CASE read_head
    BY <1>1 DEF read_head, diskvars
  <1>2. CASE r_install
    BY <1>2 DEF r_install, install
  <1>3. CASE r_clear
    BY <1>3 DEF r_clear, clear
  <1>4. CASE write_log
    BY <1>4 DEF write_log
  <1>5. CASE write_head
    BY <1>5 DEF write_head
  <1>6. CASE install_trans
    BY <1>6 DEF install_trans, install
  <1>7. CASE clear_head
    BY <1>7 DEF clear_head, clear
  <1>8. CASE end_op_committed
    BY <1>8 DEF end_op_committed, diskvars
  <1>9. ASSUME NEW p \in Procs, begin_op_sleep(p) PROVE Headers'
    BY <1>9 DEF begin_op_sleep, diskvars
  <1>10. ASSUME NEW p \in Procs, begin_op_enter(p) PROVE Headers'
    BY <1>10, <1>a DEF begin_op_enter, diskvars, TypeOK
  <1>11. ASSUME NEW p \in Procs, end_op_last(p) PROVE Headers'
    <2>1. Len(lh) = 0 => lh = <<>>
      BY <1>a DEF TypeOK
    <2>. QED BY <1>11, <1>a, <1>b, <2>1 DEF end_op_last, diskvars, TypeOK
  <1>12. ASSUME NEW p \in Procs, end_op_not_last(p) PROVE Headers'
    BY <1>12, <1>a DEF end_op_not_last, diskvars, TypeOK
  <1>13. ASSUME NEW p \in Procs, NEW b \in Blocks, NEW v \in Values, log_write(p, b, v)
         PROVE  Headers'
    <2>1. step = "none" /\ step' = step /\ header' = header
      BY <1>13, <1>b DEF log_write, may_write, diskvars
    <2>3. outstanding' # 0
      BY <1>13, <1>a DEF log_write, log_write_panics, TypeOK
    <2>2. \A i, j \in 1..Len(lh') : lh'[i] = lh'[j] => i = j
      <3>1. CASE lh' = lh
        BY <3>1
      <3>2. CASE /\ b \notin logged
                 /\ Len(lh') = Len(lh) + 1
                 /\ \A i \in 1..Len(lh) : lh'[i] = lh[i]
                 /\ lh'[Len(lh) + 1] = b
        <4>1. \A i \in 1..Len(lh) : lh'[i] = lh[i] /\ lh[i] # b
          BY <3>2 DEF logged
        <4>2. Len(lh) \in Nat
          BY <1>a DEF TypeOK
        <4>. QED BY <3>2, <4>1, <4>2
      <3>. QED BY <1>13, <3>1, <3>2, LogWriteHeader
    <2>. QED BY <2>1, <2>2, <2>3
  <1>14. ASSUME NEW b \in Blocks, evict(b) PROVE Headers'
    BY <1>14 DEF evict, diskvars
  <1>15. CASE crash
    BY <1>15 DEF crash, diskvars
  <1>16. CASE UNCHANGED vars
    BY <1>16 DEF vars, memvars, diskvars
  <1>. QED
    BY <1>1, <1>2, <1>3, <1>4, <1>5, <1>6, <1>7, <1>8, <1>9, <1>10, <1>11, <1>12,
       <1>13, <1>14, <1>15, <1>16, Zenon
    DEF Next, recover, commit

\* A block that is not pinned is on disk as it is in the cache: losing its
\* buffer loses nothing.
LEMMA UnpinnedIsClean ==
  ASSUME Inv, NEW b \in Blocks, pins[b] = 0
  PROVE  cache[b] = home[b]
  <1>. USE DEF Inv
  <1>1. CASE step \in RecoverySteps
    BY <1>1 DEF Contents
  <1>2. CASE step \notin RecoverySteps
    <2>1. \A i \in 1..Len(lh) : lh[i] = b => step = "install" /\ i < tail
      <3>1. b \notin AwaitingInstall
        BY DEF PinsBalance
      <3>2. \A i \in 1..Len(lh) : lh[i] = b => step = "install" /\ ~(i >= tail)
        BY <1>2, <3>1 DEF AwaitingInstall
      <3>3. Len(lh) \in Nat /\ tail \in Nat
        BY DEF Control, TypeOK
      <3>4. \A i \in 1..Len(lh) : ~(i >= tail) => i < tail
        BY <3>3
      <3>. QED BY <3>2, <3>4
    <2>2. step \in {"none", "write_log", "install", "end"}
      BY <1>2 DEF Control, TypeOK, CommitSteps
    <2>3. CASE b \in logged
      BY <2>1, <2>2, <2>3 DEF Contents, logged
    <2>4. CASE b \notin logged
      BY <2>2, <2>4 DEF Contents
    <2>. QED BY <2>3, <2>4
  <1>. QED BY <1>1, <1>2

\* At each step of commit() and of recovery, log blocks, home blocks and cached
\* blocks agree as far as that step needs.
LEMMA ContentsStep == Inv /\ [Next]_vars => Contents'
  <1>. SUFFICES ASSUME Inv, [Next]_vars PROVE Contents'
    OBVIOUS
  <1>. USE DEF Inv, Contents
  <1>a. /\ TypeOK /\ Len(lh) \in Nat /\ tail \in Nat
        /\ step \in {"read_head", "r_install", "none", "write_log", "install", "end"}
    BY SMTT(30) DEF Control, TypeOK, RecoverySteps, CommitSteps
  <1>b. \A p \in Procs : pc[p] = "op" => step = "none"
    BY DEF Control, Phases, InOp
  <1>c. ASSUME UNCHANGED <<lh, step, tail, cache, home, logd>> PROVE Contents'
    BY <1>c DEF logged
  <1>1. CASE read_head
    BY <1>1 DEF read_head, diskvars, RecoverySteps
  <1>2. ASSUME NEW u \in BOOLEAN, install(u), step \in {"r_install", "install"}
        PROVE  Contents'
    <2>1. /\ tail \in 1..Len(lh) /\ lh[tail] \in Blocks
          /\ home' = [home EXCEPT ![lh[tail]] = logd[tail]]
          /\ cache' = [cache EXCEPT ![lh[tail]] = logd[tail]]
          /\ tail' = tail + 1
          /\ UNCHANGED <<lh, step, logd>>
      BY <1>2, <1>a DEF install, Control, Phases, TypeOK
    <2>2. \A i \in 1..Len(lh) : i # tail => lh[i] # lh[tail] /\ lh[i] \in Blocks
      BY <1>a, <2>1 DEF Headers, TypeOK
    <2>3. \A i \in 1..Len(lh) : i # tail => cache'[lh[i]] = cache[lh[i]] /\ home'[lh[i]] = home[lh[i]]
      BY <1>a, <2>1, <2>2 DEF TypeOK
    <2>4. cache'[lh[tail]] = logd[tail] /\ home'[lh[tail]] = logd[tail]
      BY <1>a, <2>1 DEF TypeOK
    <2>5. \A b \in Blocks : b # lh[tail] => cache'[b] = cache[b] /\ home'[b] = home[b]
      BY <1>a, <2>1 DEF TypeOK
    <2>6. cache = home => cache' = home'
      BY <2>1
    <2>7. logged' = logged /\ lh[tail] \in logged
      BY <2>1 DEF logged
    <2>8. \A i \in 1..Len(lh) : i < tail' => logd'[i] = home'[lh[i]]
      <3>. SUFFICES ASSUME NEW i \in 1..Len(lh), i < tail + 1 PROVE logd[i] = home'[lh[i]]
        BY <2>1
      <3>1. CASE i = tail
        BY <2>4, <3>1
      <3>2. CASE i < tail
        <4>1. logd[i] = home[lh[i]]
          BY <1>2, <3>2
        <4>. QED BY <2>3, <3>2, <4>1, <1>a
      <3>. QED BY <1>a, <3>1, <3>2
    <2>9. step = "install" => \A i \in 1..Len(lh) : logd'[i] = cache'[lh[i]]
      BY <2>1, <2>3, <2>4
    <2>10. step = "install" => \A b \in Blocks : b \notin logged' => cache'[b] = home'[b]
      BY <2>5, <2>7
    <2>11. step' = step /\ lh' = lh
      BY <2>1
    <2>12. CASE step = "r_install"
      BY <2>6, <2>8, <2>11, <2>12 DEF RecoverySteps
    <2>13. CASE step = "install"
      BY <2>8, <2>9, <2>10, <2>11, <2>13 DEF RecoverySteps
    <2>. QED BY <1>2, <2>12, <2>13
  <1>3. CASE r_clear
    BY <1>3 DEF r_clear, clear, RecoverySteps
  <1>4. CASE write_log
    <2>1. /\ tail \in 1..Len(lh) /\ tail \in LogArea
          /\ logd' = [logd EXCEPT ![tail] = cache[lh[tail]]]
          /\ tail' = tail + 1
          /\ UNCHANGED <<lh, step, cache, home>>
          /\ step = "write_log"
      BY <1>4, <1>a, LogAssumption DEF write_log, LogArea, Space, Control, Phases
    <2>2. \A i \in 1..Len(lh) : i < tail' => logd'[i] = cache[lh[i]]
      BY <1>a, <2>1, LogAssumption, SMTT(30) DEF TypeOK, LogArea
    <2>3. logged' = logged
      BY <2>1 DEF logged
    <2>. QED BY <2>1, <2>2, <2>3 DEF RecoverySteps
  <1>5. CASE write_head
    <2>1. \A i \in 1..Len(lh) : logd[i] = cache[lh[i]]
      <3>1. step = "write_log" /\ tail > Len(lh)
        BY <1>5 DEF write_head
      <3>2. \A i \in 1..Len(lh) : i < tail
        BY <1>a, <3>1
      <3>. QED BY <3>1, <3>2
    <2>2. /\ UNCHANGED <<lh, cache, home, logd>> /\ tail' = 1
          /\ step = "write_log" /\ step' = "install"
      BY <1>5 DEF write_head
    <2>3. logged' = logged
      BY <2>2 DEF logged
    <2>4. \A i \in 1..Len(lh) : ~(i < tail')
      BY <1>a, <2>2
    <2>5. \A b \in Blocks : b \notin logged => cache[b] = home[b]
      BY <2>2
    <2>. QED BY ONLY <2>1, <2>2, <2>3, <2>4, <2>5 DEF Contents, RecoverySteps
  <1>7. CASE clear_head
    <2>1. \A b \in Blocks : cache[b] = home[b]
      <3>1. step = "install" /\ tail > Len(lh)
        BY <1>7 DEF clear_head, clear
      <3>2. \A i \in 1..Len(lh) : i < tail
        BY <1>a, <3>1
      <3>3. \A i \in 1..Len(lh) : cache[lh[i]] = home[lh[i]]
        BY <3>1, <3>2
      <3>4. \A b \in Blocks : b \in logged \/ cache[b] = home[b]
        BY <3>1
      <3>. QED BY ONLY <3>3, <3>4 DEF logged
    <2>. QED BY <1>7, <2>1 DEF clear_head, clear, RecoverySteps
  <1>8. CASE end_op_committed
    <2>1. logged' = logged
      BY <1>8 DEF end_op_committed, logged
    <2>. QED BY <1>8, <2>1 DEF end_op_committed, diskvars, RecoverySteps
  <1>9. ASSUME NEW p \in Procs, begin_op_sleep(p) \/ begin_op_enter(p) \/ end_op_not_last(p)
        PROVE  Contents'
    BY <1>9, <1>c, SMTT(30) DEF begin_op_sleep, begin_op_enter, end_op_not_last, diskvars
  <1>11. ASSUME NEW p \in Procs, end_op_last(p) PROVE Contents'
    <2>1. /\ step = "none" /\ step' \in {"write_log", "end"} /\ tail' = 1
          /\ UNCHANGED <<lh, cache, home, logd>>
      BY <1>11, <1>b DEF end_op_last, diskvars
    <2>2. logged' = logged
      BY <2>1 DEF logged
    <2>3. \A i \in 1..Len(lh) : ~(i < tail')
      BY <1>a, <2>1
    <2>4. \A b \in Blocks : b \notin logged => cache[b] = home[b]
      BY <2>1
    <2>. QED BY ONLY <2>1, <2>2, <2>3, <2>4 DEF Contents, RecoverySteps
  <1>13. ASSUME NEW p \in Procs, NEW b \in Blocks, NEW v \in Values, log_write(p, b, v)
         PROVE  Contents'
    <2>1. /\ step = "none" /\ UNCHANGED <<step, home>>
          /\ cache' = [cache EXCEPT ![b] = v]
      BY <1>13, <1>b DEF log_write, may_write, diskvars
    <2>2. logged' = logged \cup {b}
      BY <1>13, LogWriteHeader
    <2>3. \A c \in Blocks : c \notin logged' => cache'[c] = home'[c]
      BY <1>a, <2>1, <2>2 DEF TypeOK
    <2>. QED BY <2>1, <2>3 DEF RecoverySteps
  <1>14. ASSUME NEW b \in Blocks, evict(b) PROVE Contents'
    <2>1. cache[b] = home[b]
      BY <1>14, UnpinnedIsClean DEF evict
    <2>2. cache' = cache
      BY <1>14, <1>a, <2>1, SMTT(30) DEF evict, TypeOK
    <2>. QED BY <1>14, <1>c, <2>2 DEF evict, diskvars
  <1>15. CASE crash
    BY <1>15 DEF crash, diskvars, RecoverySteps
  <1>16. CASE UNCHANGED vars
    BY <1>16, <1>c DEF vars, memvars, diskvars
  <1>17. CASE r_install \/ install_trans
    BY <1>2, <1>17, Zenon DEF r_install, install_trans
  <1>. QED
    BY <1>1, <1>3, <1>4, <1>5, <1>7, <1>8, <1>9, <1>11,
       <1>13, <1>14, <1>15, <1>16, <1>17, Zenon
    DEF Next, recover, commit

\* bpin() in log_write() and bunpin() in install_trans() keep the pins equal to
\* the blocks still to be installed.
LEMMA PinsStep == Inv /\ TypeOK' /\ [Next]_vars => PinsBalance'
  <1>. SUFFICES ASSUME Inv, TypeOK', [Next]_vars PROVE PinsBalance'
    OBVIOUS
  <1>. USE DEF Inv
  <1>a. /\ TypeOK /\ Len(lh) \in Nat /\ tail \in Nat
        /\ \A i \in 1..Len(lh) : lh[i] \in Blocks
    BY SMTT(30) DEF Control, TypeOK
  <1>b. \A p \in Procs : pc[p] = "op" => step = "none"
    BY SMTT(30) DEF Control, Phases, InOp
  <1>c. ASSUME pins' = pins, AwaitingInstall' = AwaitingInstall PROVE PinsBalance'
    BY <1>c DEF PinsBalance
  <1>1. CASE read_head
    <2>1. AwaitingInstall' = AwaitingInstall
      BY <1>1 DEF read_head, AwaitingInstall, RecoverySteps
    <2>. QED BY <1>1, <1>c, <2>1 DEF read_head
  <1>2. CASE r_install
    <2>1. AwaitingInstall' = AwaitingInstall
      BY <1>2 DEF r_install, install, AwaitingInstall, RecoverySteps
    <2>. QED BY <1>2, <1>c, <2>1 DEF r_install, install
  <1>3. CASE r_clear \/ clear_head
    <2>1. AwaitingInstall' = AwaitingInstall
      BY <1>3, <1>a DEF r_clear, clear_head, clear, AwaitingInstall, RecoverySteps
    <2>. QED BY <1>3, <1>c, <2>1 DEF r_clear, clear_head, clear
  <1>4. CASE write_log
    <2>1. AwaitingInstall' = AwaitingInstall
      BY <1>4 DEF write_log, AwaitingInstall, RecoverySteps
    <2>. QED BY <1>4, <1>c, <2>1 DEF write_log
  <1>5. CASE write_head
    <2>1. AwaitingInstall' = AwaitingInstall
      BY <1>5, <1>a DEF write_head, AwaitingInstall, RecoverySteps
    <2>. QED BY <1>5, <1>c, <2>1 DEF write_head
  <1>6. CASE install_trans
    <2>1. /\ tail \in 1..Len(lh) /\ tail' = tail + 1
          /\ pins' = [pins EXCEPT ![lh[tail]] = @ - 1]
          /\ step = "install" /\ UNCHANGED <<step, lh>>
      BY <1>6, <1>a DEF install_trans, install, Control, Phases
    <2>2. \A i \in 1..Len(lh) : lh[i] = lh[tail] => i = tail
      BY <2>1 DEF Headers
    <2>3. AwaitingInstall' = AwaitingInstall \ {lh[tail]} /\ lh[tail] \in AwaitingInstall
      BY <1>a, <2>1, <2>2 DEF AwaitingInstall, RecoverySteps
    <2>. QED BY <1>a, <2>1, <2>3 DEF PinsBalance, TypeOK
  <1>7. CASE end_op_committed
    <2>1. AwaitingInstall' = AwaitingInstall
      BY <1>7 DEF end_op_committed, AwaitingInstall, RecoverySteps
    <2>. QED BY <1>7, <1>c, <2>1 DEF end_op_committed
  <1>8. ASSUME NEW p \in Procs, begin_op_sleep(p) \/ begin_op_enter(p) \/ end_op_not_last(p)
        PROVE  PinsBalance'
    <2>1. AwaitingInstall' = AwaitingInstall
      BY <1>8 DEF begin_op_sleep, begin_op_enter, end_op_not_last, AwaitingInstall
    <2>. QED BY <1>8, <1>c, <2>1 DEF begin_op_sleep, begin_op_enter, end_op_not_last
  <1>9. ASSUME NEW p \in Procs, end_op_last(p) PROVE PinsBalance'
    <2>1. AwaitingInstall' = AwaitingInstall
      BY <1>9, <1>b DEF end_op_last, AwaitingInstall, RecoverySteps
    <2>. QED BY <1>9, <1>c, <2>1 DEF end_op_last
  <1>10. ASSUME NEW p \in Procs, NEW b \in Blocks, NEW v \in Values, log_write(p, b, v)
         PROVE  PinsBalance'
    <2>1. step = "none" /\ step' = step
      BY <1>10, <1>b DEF log_write, may_write
    <2>2. AwaitingInstall = logged /\ AwaitingInstall' = logged'
      <3>2. \A i \in 1..Len(lh') : lh'[i] \in Blocks
        BY DEF TypeOK
      <3>3. AwaitingInstall = logged
        BY <1>a, <2>1 DEF AwaitingInstall, RecoverySteps, logged
      <3>4. AwaitingInstall' = logged'
        BY <2>1, <3>2 DEF AwaitingInstall, RecoverySteps, logged
      <3>. QED BY <3>3, <3>4
    <2>3. \/ b \in logged /\ pins' = pins
          \/ b \notin logged /\ pins' = [pins EXCEPT ![b] = @ + 1]
      BY <1>10, LogWriteHeader
    <2>4. logged' = logged \cup {b}
      BY <1>10, LogWriteHeader
    <2>. QED BY <1>a, <2>2, <2>3, <2>4 DEF PinsBalance, TypeOK
  <1>11. ASSUME NEW b \in Blocks, evict(b) PROVE PinsBalance'
    <2>1. AwaitingInstall' = AwaitingInstall
      BY <1>11 DEF evict, AwaitingInstall
    <2>. QED BY <1>11, <1>c, <2>1 DEF evict
  <1>12. CASE crash
    BY <1>12 DEF crash, PinsBalance, AwaitingInstall, RecoverySteps
  <1>13. CASE UNCHANGED vars
    BY <1>13, <1>c DEF vars, memvars, AwaitingInstall
  <1>. QED
    BY <1>1, <1>2, <1>3, <1>4, <1>5, <1>6, <1>7, <1>8, <1>9, <1>10, <1>11, <1>12, <1>13, Zenon
    DEF Next, recover, commit

-----------------------------------------------------------------------------
(* Refinement *)

\* Recovery takes a block from the log if the header names it, else from home.
LEMMA RecoveredBlocks ==
  ASSUME Headers, TypeOK
  PROVE  /\ Recovered \in [Blocks -> {Recovered[b] : b \in Blocks}]
         /\ \A i \in 1..Len(header) : Recovered[header[i]] = logd[i]
         /\ \A b \in Blocks : (\A i \in 1..Len(header) : header[i] # b) => Recovered[b] = home[b]
  <1>1. \A i \in 1..Len(header) : header[i] \in Blocks
    BY DEF TypeOK
  <1>2. ASSUME NEW i \in 1..Len(header) PROVE Recovered[header[i]] = logd[i]
    <2>1. (CHOOSE j \in 1..Len(header) : header[j] = header[i]) = i
      BY DEF Headers
    <2>. QED BY <1>1, <2>1, Zenon DEF Recovered
  <1>. QED BY <1>2, Zenon DEF Recovered

\* A booting kernel is at an initial state of the abstract disk.
LEMMA RefinementInit == Init => AD!Init
  <1>. SUFFICES ASSUME Init PROVE AD!Init
    OBVIOUS
  <1>1. Recovered = home /\ View = Recovered /\ InOp = {}
    BY DEF Init, Recovered, View, RecoverySteps, InOp
  <1>. QED BY <1>1 DEF Init, AD!Init

\* Each step of log.c is a step of the abstract disk or changes nothing of it.
LEMMA RefinementStep == Inv /\ [Next]_vars => [AD!Next]_(AD!vars)
  <1>. SUFFICES ASSUME Inv, [Next]_vars PROVE [AD!Next]_(AD!vars)
    OBVIOUS
  <1>. USE DEF Inv
  <1>a. TypeOK /\ Headers /\ Contents
    BY DEF Control
  <1>b. \A p \in Procs : pc[p] = "op" => step = "none"
    BY DEF Control, Phases, InOp
  <1>c. ASSUME UNCHANGED <<Recovered, View, InOp>> PROVE [AD!Next]_(AD!vars)
    BY <1>c DEF AD!vars
  <1>d. ASSUME UNCHANGED diskvars PROVE Recovered' = Recovered
    BY <1>d DEF diskvars, Recovered
  <1>e. step \in {"read_head", "r_install", "none", "write_log", "install", "end"}
    BY <1>a DEF TypeOK, RecoverySteps, CommitSteps
  <1>1. CASE read_head
    <2>1. Recovered' = Recovered
      BY <1>1, <1>d DEF read_head
    <2>2. View' = View /\ InOp' = InOp
      BY <1>1, <2>1 DEF read_head, View, RecoverySteps, InOp
    <2>. QED BY <1>c, <2>1, <2>2
  <1>2. ASSUME NEW u \in BOOLEAN, install(u), step \in {"r_install", "install"}
        PROVE  [AD!Next]_(AD!vars)
    <2>1. /\ tail \in 1..Len(lh) /\ lh[tail] \in Blocks /\ header = lh
          /\ home' = [home EXCEPT ![lh[tail]] = logd[tail]]
          /\ cache' = [cache EXCEPT ![lh[tail]] = logd[tail]]
          /\ UNCHANGED <<step, logd, header, pc>>
      BY <1>2, <1>a, SMTT(30) DEF install, Control, Phases, TypeOK, Headers
    <2>2. \A b \in Blocks : b # lh[tail] => home'[b] = home[b]
      BY <2>1, <1>a DEF TypeOK
    <2>3. \E i \in 1..Len(header) : header[i] = lh[tail]
      BY <2>1
    <2>4. Recovered' = Recovered
      BY <2>1, <2>2, <2>3 DEF Recovered
    <2>5. step = "install" => cache' = cache
      BY <2>1, <1>a DEF Contents, TypeOK
    <2>6. View' = View /\ InOp' = InOp
      BY <1>2, <2>1, <2>4, <2>5, Zenon DEF View, RecoverySteps, InOp
    <2>. QED BY <1>c, <2>4, <2>6, SMTT(30)
  <1>3. CASE r_clear \/ clear_head
    <2>1. /\ step \in {"r_install", "install"} /\ tail > Len(lh) /\ header = lh /\ header' = <<>>
          /\ step' \in {"none", "end"}
          /\ UNCHANGED <<home, cache, logd, pc>>
      BY <1>3, <1>a DEF r_clear, clear_head, clear, Headers
    <2>2. \A i \in 1..Len(header) : logd[i] = home[header[i]]
      BY <1>a, <2>1 DEF Contents, TypeOK
    <2>3. \A b \in Blocks : Recovered[b] = home[b]
      BY <1>a, <2>2, RecoveredBlocks
    <2>4. Recovered = home /\ Recovered' = home
      BY <1>a, <2>1, <2>3, SMTT(30) DEF Recovered, TypeOK
    <2>5. View' = View /\ InOp' = InOp
      BY <1>a, <2>1, <2>4 DEF View, RecoverySteps, InOp, Contents
    <2>. QED BY <1>c, <2>4, <2>5
  <1>4. CASE write_log
    <2>1. header = <<>> /\ UNCHANGED <<header, home, cache, step, pc>>
      BY <1>4, <1>a DEF write_log, Headers
    <2>2. Recovered' = Recovered
      BY <2>1 DEF Recovered
    <2>3. View' = View /\ InOp' = InOp
      BY <2>1, <2>2 DEF View, InOp
    <2>. QED BY <1>c, <2>2, <2>3
  <1>5. CASE write_head
    <2>1. /\ step = "write_log" /\ tail > Len(lh) /\ header' = lh /\ step' = "install"
          /\ UNCHANGED <<home, logd, cache, pc, lh>>
      BY <1>5 DEF write_head
    <2>2. InOp = {} /\ InOp' = InOp
      BY <2>1 DEF Control, Phases, InOp
    <2>3. \A i \in 1..Len(lh) : logd[i] = cache[lh[i]]
      BY <1>a, <2>1 DEF Contents, TypeOK
    <2>4. ASSUME NEW b \in Blocks PROVE Recovered'[b] = cache[b]
      <3>1. CASE b \in logged
        <4>. DEFINE k == CHOOSE j \in 1..Len(lh) : lh[j] = b
        <4>1. k \in 1..Len(lh) /\ lh[k] = b
          BY <3>1, SMTT(30) DEF logged
        <4>2. Recovered'[b] = logd[k]
          BY <2>1, <4>1 DEF Recovered
        <4>. QED BY <2>3, <4>1, <4>2
      <3>2. CASE b \notin logged
        <4>1. Recovered'[b] = home[b]
          BY <2>1, <3>2 DEF Recovered, logged
        <4>. QED BY <1>a, <2>1, <3>2, <4>1 DEF Contents
      <3>. QED BY <3>1, <3>2
    <2>5. Recovered' = cache
      BY <1>a, <2>4, Zenon DEF Recovered, TypeOK
    <2>6. View = cache /\ View' = cache
      BY <2>1 DEF View, RecoverySteps
    <2>7. AD!Commit
      BY <2>2, <2>5, <2>6 DEF AD!Commit
    <2>. QED BY <2>7 DEF AD!Next
  <1>6. CASE end_op_committed
    <2>1. Recovered' = Recovered
      BY <1>6, <1>d DEF end_op_committed
    <2>2. InOp' = InOp
      BY <1>6, <1>a DEF end_op_committed, wakeup_log, InOp, TypeOK
    <2>3. View' = View
      BY <1>6 DEF end_op_committed, View, RecoverySteps
    <2>. QED BY <1>c, <2>1, <2>2, <2>3
  <1>7. ASSUME NEW p \in Procs, begin_op_sleep(p) PROVE [AD!Next]_(AD!vars)
    <2>1. Recovered' = Recovered
      BY <1>7, <1>d DEF begin_op_sleep
    <2>2. View' = View /\ InOp' = InOp
      BY <1>7, <1>a, <2>1 DEF begin_op_sleep, View, InOp, TypeOK
    <2>. QED BY <1>c, <2>1, <2>2
  <1>8. ASSUME NEW p \in Procs, begin_op_enter(p) PROVE [AD!Next]_(AD!vars)
    <2>1. Recovered' = Recovered
      BY <1>8, <1>d DEF begin_op_enter
    <2>2. View' = View
      BY <1>8, <2>1 DEF begin_op_enter, View
    <2>3. InOp' = InOp \cup {p} /\ p \notin InOp
      BY <1>8, <1>a DEF begin_op_enter, InOp, TypeOK
    <2>4. AD!Begin(p)
      BY <2>1, <2>2, <2>3 DEF AD!Begin
    <2>. QED BY <2>4 DEF AD!Next
  <1>9. ASSUME NEW p \in Procs, end_op_last(p) \/ end_op_not_last(p)
        PROVE  [AD!Next]_(AD!vars)
    <2>1. Recovered' = Recovered
      BY <1>9, <1>d DEF end_op_last, end_op_not_last
    <2>2. View' = View
      BY <1>9, <1>b, <2>1 DEF end_op_last, end_op_not_last, View, RecoverySteps
    <2>3. InOp' = InOp \ {p} /\ p \in InOp
      BY <1>9, <1>a DEF end_op_last, end_op_not_last, wakeup_log, InOp, TypeOK
    <2>4. AD!End(p)
      BY <2>1, <2>2, <2>3 DEF AD!End
    <2>. QED BY <2>4 DEF AD!Next
  <1>10. ASSUME NEW p \in Procs, NEW b \in Blocks, NEW v \in Values, log_write(p, b, v)
         PROVE  [AD!Next]_(AD!vars)
    <2>1. Recovered' = Recovered
      BY <1>10, <1>d DEF log_write
    <2>2. View = cache /\ View' = [cache EXCEPT ![b] = v]
      BY <1>10, <1>b DEF log_write, may_write, View, RecoverySteps
    <2>3. InOp' = InOp /\ p \in InOp
      BY <1>10 DEF log_write, may_write, InOp
    <2>4. AD!Write(p, b, v)
      BY <2>1, <2>2, <2>3 DEF AD!Write
    <2>. QED BY <2>4 DEF AD!Next
  <1>11. ASSUME NEW b \in Blocks, evict(b) PROVE [AD!Next]_(AD!vars)
    <2>1. Recovered' = Recovered
      BY <1>11, <1>d DEF evict
    <2>2. cache[b] = home[b]
      BY <1>11, UnpinnedIsClean DEF evict
    <2>3. cache' = cache
      BY <1>11, <1>a, <2>2 DEF evict, TypeOK
    <2>4. View' = View /\ InOp' = InOp
      BY <1>11, <2>1, <2>3 DEF evict, View, InOp
    <2>. QED BY <1>c, <2>1, <2>4
  <1>12. CASE crash
    <2>1. Recovered' = Recovered
      BY <1>12, <1>d DEF crash
    <2>2. View' = Recovered /\ InOp' = {}
      BY <1>12, <2>1 DEF crash, View, RecoverySteps, InOp
    <2>3. AD!Crash
      BY <2>1, <2>2 DEF AD!Crash
    <2>. QED BY <2>3 DEF AD!Next
  <1>13. CASE UNCHANGED vars
    <2>1. Recovered' = Recovered
      BY <1>13, <1>d DEF vars
    <2>2. View' = View /\ InOp' = InOp
      BY <1>13, <2>1 DEF vars, memvars, View, InOp
    <2>. QED BY <1>c, <2>1, <2>2
  <1>14. CASE r_install \/ install_trans
    BY <1>2, <1>14, Zenon DEF r_install, install_trans
  <1>. QED
    BY <1>1, <1>3, <1>4, <1>5, <1>6, <1>7, <1>8, <1>9, <1>10, <1>11, <1>12, <1>13, <1>14, Zenon
    DEF Next, recover, commit

-----------------------------------------------------------------------------
(* The space accounting *)

\* What counting says of finite sets, and of the log slots T that begin_op() has
\* reserved for the calls in S.  The steps take it as an assumption; Counting,
\* below, proves it.
Counted ==
    /\ IsFiniteSet({}) /\ Cardinality({}) = 0
    /\ \A S : IsFiniteSet(S) =>
         /\ Cardinality(S) \in Nat
         /\ Cardinality(S) = 0 => S = {}
         /\ \A T \in SUBSET S : IsFiniteSet(T) /\ Cardinality(T) <= Cardinality(S)
         /\ \A x : /\ IsFiniteSet(S \cup {x})
                  /\ Cardinality(S \cup {x}) =
                       IF x \in S THEN Cardinality(S) ELSE Cardinality(S) + 1
         /\ \A x \in S : /\ IsFiniteSet(S \ {x})
                         /\ Cardinality(S \ {x}) = Cardinality(S) - 1
    /\ \A S \in SUBSET Procs : \A T \in SUBSET (S \X (1..MaxOpBlocks)) :
         /\ IsFiniteSet(S) /\ IsFiniteSet(T)
         /\ Cardinality(T) <= Cardinality(S) * MaxOpBlocks

\* The empty set has no elements, and no other set has none.
LEMMA CountEmpty ==
  ASSUME Counted
  PROVE  /\ IsFiniteSet({}) /\ Cardinality({}) = 0
         /\ \A S : IsFiniteSet(S) /\ Cardinality(S) = 0 => S = {}
  BY Zenon DEF Counted

\* A finite set has a number of elements.
LEMMA CountNat ==
  ASSUME Counted, NEW S, IsFiniteSet(S)
  PROVE  Cardinality(S) \in Nat
  BY Zenon DEF Counted

\* A part of a finite set is finite and no larger.
LEMMA CountSubset ==
  ASSUME Counted, NEW S, IsFiniteSet(S), NEW T \in SUBSET S
  PROVE  IsFiniteSet(T) /\ Cardinality(T) <= Cardinality(S)
  BY Zenon DEF Counted

\* One more element.
LEMMA CountAdd ==
  ASSUME Counted, NEW S, IsFiniteSet(S), NEW x
  PROVE  /\ IsFiniteSet(S \cup {x})
         /\ Cardinality(S \cup {x}) = IF x \in S THEN Cardinality(S) ELSE Cardinality(S) + 1
  BY Zenon DEF Counted

\* One element less.
LEMMA CountRemove ==
  ASSUME Counted, NEW S, IsFiniteSet(S), NEW x \in S
  PROVE  IsFiniteSet(S \ {x}) /\ Cardinality(S \ {x}) = Cardinality(S) - 1
  BY Zenon DEF Counted

\* The slots reserved for calls are no more than begin_op() counts for them.
LEMMA CountSlots ==
  ASSUME Counted, NEW S \in SUBSET Procs, NEW T \in SUBSET (S \X (1..MaxOpBlocks))
  PROVE  /\ IsFiniteSet(S) /\ Cardinality(S) \in Nat
         /\ IsFiniteSet(T) /\ Cardinality(T) \in Nat
         /\ Cardinality(T) <= Cardinality(S) * MaxOpBlocks
  <1>1. IsFiniteSet(S) /\ IsFiniteSet(T) /\ Cardinality(T) <= Cardinality(S) * MaxOpBlocks
    BY Zenon DEF Counted
  <1>. QED BY <1>1, CountNat, Zenon

\* Reserved is such a set, before and after a step.
LEMMA ReservedIsSlots ==
  Reserved \in SUBSET (InOp \X (1..MaxOpBlocks)) /\ InOp \in SUBSET Procs
  BY DEF Reserved, InOp

\* No step of log.c, and no crash, leaves the types.
LEMMA TypeStep == Counted /\ Inv /\ [Next]_vars => TypeOK'
  <1>. SUFFICES ASSUME Counted, Inv, [Next]_vars PROVE TypeOK'
    OBVIOUS
  <1>. USE DEF Inv, Control, Phases, TypeOK, diskvars
  <1>1. CASE read_head
    BY <1>1 DEF read_head, RecoverySteps
  <1>2. ASSUME NEW u \in BOOLEAN, install(u), step \in {"r_install", "install"},
               u => step = "install"
        PROVE  TypeOK'
    <2>1. tail \in 1..Len(lh) /\ lh[tail] \in Blocks
      BY <1>2 DEF install
    <2>2. logd[tail] \in Values
      BY <2>1, LogAssumption DEF Space, LogArea
    <2>3. pins' \in [Blocks -> Nat]
      <3>1. CASE u
        <4>1. pins[lh[tail]] = 1
          BY <1>2, <2>1, <3>1 DEF PinsBalance, AwaitingInstall, RecoverySteps
        <4>. QED BY <1>2, <2>1, <3>1, <4>1 DEF install
      <3>. QED BY <1>2, <3>1 DEF install
    <2>. QED BY <1>2, <2>1, <2>2, <2>3 DEF install
  <1>3. CASE r_install
    BY <1>2, <1>3, Zenon DEF r_install
  <1>4. CASE r_clear
    BY <1>4 DEF r_clear, clear
  <1>5. CASE write_log
    <2>1. tail \in 1..Len(lh) /\ cache[lh[tail]] \in Values
      BY <1>5 DEF write_log
    <2>2. logd' \in [LogArea -> Values]
      BY <1>5, <2>1, Zenon DEF write_log
    <2>. QED BY <1>5, <2>2 DEF write_log
  <1>6. CASE write_head
    BY <1>6 DEF write_head, CommitSteps
  <1>7. CASE install_trans
    BY <1>2, <1>7, Zenon DEF install_trans
  <1>8. CASE clear_head
    BY <1>8 DEF clear_head, clear, CommitSteps
  <1>9. CASE end_op_committed
    BY <1>9 DEF end_op_committed, wakeup_log, PC
  <1>10. ASSUME NEW p \in Procs, begin_op_sleep(p) PROVE TypeOK'
    BY <1>10 DEF begin_op_sleep, PC
  <1>11. ASSUME NEW p \in Procs, begin_op_enter(p) PROVE TypeOK'
    BY <1>11 DEF begin_op_enter, PC
  <1>12. ASSUME NEW p \in Procs, end_op_last(p) PROVE TypeOK'
    BY <1>12 DEF end_op_last, PC, CommitSteps
  <1>13. ASSUME NEW p \in Procs, end_op_not_last(p) PROVE TypeOK'
    <2>1. outstanding \in Nat \ {0}
      <3>1. p \in InOp
        BY <1>13 DEF end_op_not_last, InOp
      <3>. QED BY <3>1, CountSlots, ReservedIsSlots, CountEmpty, Zenon
    <2>. QED BY <1>13, <2>1 DEF end_op_not_last, wakeup_log, PC
  <1>14. ASSUME NEW p \in Procs, NEW b \in Blocks, NEW v \in Values, log_write(p, b, v)
         PROVE  TypeOK'
    <2>1. lh' \in Seq(Blocks)
      <3>1. lh' = lh \/ lh' = Append(lh, b)
        BY <1>14 DEF log_write
      <3>2. lh \in Seq(Blocks)
        OBVIOUS
      <3>. QED BY ONLY <3>1, <3>2
    <2>3. pins' \in [Blocks -> Nat]
      <3>1. pins' = pins \/ pins' = [pins EXCEPT ![b] = @ + 1]
        BY <1>14 DEF log_write
      <3>2. pins \in [Blocks -> Nat] /\ b \in Blocks
        OBVIOUS
      <3>. QED BY ONLY <3>1, <3>2
    <2>2. wrote' \in [Procs -> SUBSET Blocks] /\ cache' \in [Blocks -> Values]
      BY <1>14 DEF log_write
    <2>. QED BY <1>14, <2>1, <2>2, <2>3 DEF log_write
  <1>15. ASSUME NEW b \in Blocks, evict(b) PROVE TypeOK'
    BY <1>15 DEF evict
  <1>16. CASE crash
    BY <1>16, LogAssumption DEF crash, PC, RecoverySteps
  <1>17. CASE UNCHANGED vars
    BY <1>17 DEF vars, memvars
  <1>. QED
    BY <1>1, <1>3, <1>4, <1>5, <1>6, <1>7, <1>8, <1>9, <1>10, <1>11, <1>12, <1>13,
       <1>14, <1>15, <1>16, <1>17, Zenon
    DEF Next, recover, commit

\* outstanding counts the calls between begin_op() and end_op(), and a commit
\* runs only when there is none.
LEMMA ControlStep == Counted /\ Inv /\ [Next]_vars => Control'
  <1>. SUFFICES ASSUME Counted, Inv, [Next]_vars PROVE Control'
    OBVIOUS
  <1>1. TypeOK' /\ TypeOK /\ Phases /\ CallsWrote
    BY TypeStep, Zenon DEF Inv, Control
  <1>2. /\ pc \in [Procs -> PC] /\ wrote \in [Procs -> SUBSET Blocks]
        /\ outstanding \in Nat /\ committing \in {0, 1} /\ tail \in Nat
        /\ step \in RecoverySteps \cup {"none"} \cup CommitSteps
    BY <1>1, Zenon DEF TypeOK
  <1>3. InOp \in SUBSET Procs /\ IsFiniteSet(InOp) /\ Cardinality(InOp) \in Nat
    BY CountSlots, ReservedIsSlots, Zenon
  <1>4. /\ Cardinality({}) = 0 /\ IsFiniteSet({})
        /\ OpBlocks \in Nat /\ Cardinality({}) <= OpBlocks
    BY CountEmpty, LogAssumption
  <1>5. \A p \in Procs : pc[p] = "op" => p \in InOp /\ step = "none"
    BY <1>1, Zenon DEF Phases, InOp
  <1>6. ASSUME \A p \in Procs : wrote'[p] = {} PROVE CallsWrote'
    BY <1>4, <1>6, Zenon DEF CallsWrote
  <1>7. ASSUME UNCHANGED <<pc, wrote, lh>> PROVE InOp' = InOp /\ CallsWrote'
    <2>1. logged' = logged
      BY <1>7, Zenon DEF logged
    <2>. QED BY <1>1, <1>7, <2>1, Zenon DEF CallsWrote, InOp
  <1>8. ASSUME UNCHANGED <<pc, wrote, outstanding, committing>>, step # "none",
               step' \in CommitSteps <=> step \in CommitSteps,
               step' \in {"r_install", "write_log", "install"} => tail' >= 1
        PROVE  Control'
    <2>1. InOp = {} /\ InOp' = {}
      BY <1>1, <1>8, Zenon DEF Phases, InOp
    <2>2. \A p \in Procs : wrote'[p] = {}
      BY <1>1, <1>5, <1>8, Zenon DEF CallsWrote
    <2>3. Phases'
      BY <1>1, <1>8, <2>1, Zenon DEF Phases
    <2>. QED BY <1>1, <1>6, <2>2, <2>3, Zenon DEF Control
  <1>9. CASE read_head
    <2>1. step = "read_head" /\ step' = "r_install" /\ tail' = 1
          /\ UNCHANGED <<pc, wrote, outstanding, committing>>
      BY <1>9, Zenon DEF read_head
    <2>. QED BY <1>8, <2>1 DEF CommitSteps
  <1>10. CASE r_install \/ install_trans \/ write_log
    <2>1. step \in {"r_install", "install", "write_log"} /\ step' = step /\ tail' = tail + 1
          /\ UNCHANGED <<pc, wrote, outstanding, committing>>
      BY <1>10, Zenon DEF r_install, install_trans, install, write_log
    <2>2. tail' >= 1 /\ step # "none"
      BY <1>2, <2>1
    <2>. QED BY <1>8, <2>1, <2>2, Zenon
  <1>11. CASE r_clear
    <2>1. step = "r_install" /\ step' = "none"
          /\ UNCHANGED <<pc, wrote, outstanding, committing>>
      BY <1>11, Zenon DEF r_clear, clear
    <2>. QED BY <1>8, <2>1 DEF CommitSteps
  <1>12. CASE write_head
    <2>1. step = "write_log" /\ step' = "install" /\ tail' = 1
          /\ UNCHANGED <<pc, wrote, outstanding, committing>>
      BY <1>12, Zenon DEF write_head
    <2>. QED BY <1>8, <2>1 DEF CommitSteps
  <1>13. CASE clear_head
    <2>1. step = "install" /\ step' = "end"
          /\ UNCHANGED <<pc, wrote, outstanding, committing>>
      BY <1>13, Zenon DEF clear_head, clear
    <2>. QED BY <1>8, <2>1 DEF CommitSteps
  <1>14. CASE end_op_committed
    <2>1. /\ step = "end" /\ step' = "none" /\ committing' = 0
          /\ UNCHANGED <<wrote, outstanding>>
      BY <1>14, Zenon DEF end_op_committed
    <2>2. InOp = {}
      BY <1>1, <2>1 DEF Phases
    <2>3. InOp' = {}
      BY <1>14, <2>2, Zenon DEF end_op_committed, wakeup_log, InOp
    <2>4. \A p \in Procs : wrote'[p] = {}
      BY <1>1, <2>1, <2>2, Zenon DEF CallsWrote, InOp
    <2>5. Phases'
      BY <1>1, <2>1, <2>2, <2>3 DEF Phases, CommitSteps
    <2>. QED BY <1>1, <1>6, <2>4, <2>5, Zenon DEF Control
  <1>15. ASSUME NEW p \in Procs, begin_op_sleep(p) PROVE Control'
    <2>1. /\ pc[p] # "op" /\ pc' = [pc EXCEPT ![p] = "sleep"]
          /\ UNCHANGED <<outstanding, committing, lh, step, tail, wrote>>
      BY <1>15 DEF begin_op_sleep
    <2>2. pc'[p] = "sleep" /\ \A q \in Procs \ {p} : pc'[q] = pc[q]
      BY <1>2, <2>1, Zenon
    <2>3. InOp' = InOp
      BY <2>1, <2>2 DEF InOp
    <2>4. logged' = logged
      BY <2>1, Zenon DEF logged
    <2>5. CallsWrote'
      BY <1>1, <2>1, <2>2, <2>4, Zenon DEF CallsWrote
    <2>6. Phases'
      BY <1>1, <2>1, <2>3, Zenon DEF Phases
    <2>. QED BY <1>1, <2>5, <2>6, Zenon DEF Control
  <1>16. ASSUME NEW p \in Procs, begin_op_enter(p) PROVE Control'
    <2>1. /\ pc[p] # "op" /\ pc' = [pc EXCEPT ![p] = "op"] /\ outstanding' = outstanding + 1
          /\ step \notin RecoverySteps /\ committing # 1
          /\ UNCHANGED <<committing, lh, step, tail, wrote>>
      BY <1>16 DEF begin_op_enter, begin_op_must_wait
    <2>2. pc'[p] = "op" /\ \A q \in Procs \ {p} : pc'[q] = pc[q]
      BY <1>2, <2>1, Zenon
    <2>3. InOp' = InOp \cup {p} /\ p \notin InOp
      BY <2>1, <2>2 DEF InOp
    <2>4. Cardinality(InOp') = outstanding'
      BY <1>1, <1>3, <2>1, <2>3, CountAdd, Zenon DEF Phases
    <2>5. step = "none"
      BY <1>1, <1>2, <2>1, Zenon DEF Phases
    <2>6. logged' = logged
      BY <2>1, Zenon DEF logged
    <2>7. CallsWrote'
      BY <1>1, <2>1, <2>2, <2>6, Zenon DEF CallsWrote
    <2>8. Phases'
      BY <1>1, <2>1, <2>4, <2>5 DEF Phases
    <2>. QED BY <1>1, <2>7, <2>8, Zenon DEF Control
  <1>17. ASSUME NEW p \in Procs, end_op_last(p) PROVE Control'
    <2>1. /\ pc[p] = "op" /\ pc' = [pc EXCEPT ![p] = "commit"]
          /\ wrote' = [wrote EXCEPT ![p] = {}]
          /\ outstanding = 1 /\ outstanding' = 0 /\ committing' = 1
          /\ step' \in {"write_log", "end"} /\ tail' = 1
      BY <1>17 DEF end_op_last
    <2>2. /\ pc'[p] # "op" /\ \A q \in Procs \ {p} : pc'[q] = pc[q]
          /\ wrote'[p] = {} /\ \A q \in Procs \ {p} : wrote'[q] = wrote[q]
      BY <1>2, <2>1
    <2>3. InOp' = InOp \ {p} /\ p \in InOp
      BY <2>1, <2>2 DEF InOp
    <2>4. IsFiniteSet(InOp') /\ Cardinality(InOp') = Cardinality(InOp) - 1
      BY <1>3, <2>3, CountRemove, Zenon
    <2>5. Cardinality(InOp') = 0
      <3>1. outstanding = Cardinality(InOp)
        BY <1>1, Zenon DEF Phases
      <3>. QED BY <1>3, <2>1, <2>4, <3>1
    <2>6. InOp' = {}
      BY <2>4, <2>5, CountEmpty, Zenon
    <2>7. \A q \in Procs : wrote'[q] = {}
      BY <1>1, <2>2, <2>6, Zenon DEF CallsWrote, InOp
    <2>8. Phases'
      BY <2>1, <2>5, <2>6 DEF Phases, CommitSteps
    <2>. QED BY <1>1, <1>6, <2>7, <2>8, Zenon DEF Control
  <1>18. ASSUME NEW p \in Procs, end_op_not_last(p) PROVE Control'
    <2>1. /\ pc[p] = "op" /\ outstanding' = outstanding - 1
          /\ wrote' = [wrote EXCEPT ![p] = {}]
          /\ UNCHANGED <<committing, lh, step, tail>>
      BY <1>18, Zenon DEF end_op_not_last
    <2>2. wrote'[p] = {} /\ \A q \in Procs \ {p} : wrote'[q] = wrote[q]
      BY <1>2, <2>1, Zenon
    <2>3. \A q \in Procs : pc'[q] = "op" <=> pc[q] = "op" /\ q # p
      <3>1. \A q \in Procs : [pc EXCEPT ![p] = "idle"][q] = IF q = p THEN "idle" ELSE pc[q]
        BY <1>2, Zenon
      <3>2. \A q \in Procs : pc'[q] = IF [pc EXCEPT ![p] = "idle"][q] = "sleep"
                                      THEN "begin" ELSE [pc EXCEPT ![p] = "idle"][q]
        BY <1>18, Zenon DEF end_op_not_last, wakeup_log
      <3>. QED BY <3>1, <3>2
    <2>4. InOp' = InOp \ {p} /\ p \in InOp
      BY <2>1, <2>3 DEF InOp
    <2>5. Cardinality(InOp') = outstanding'
      BY <1>1, <1>3, <2>1, <2>4, CountRemove, Zenon DEF Phases
    <2>6. logged' = logged
      BY <2>1, Zenon DEF logged
    <2>7. ASSUME NEW q \in Procs
          PROVE  /\ pc'[q] # "op" => wrote'[q] = {}
                 /\ IsFiniteSet(wrote'[q]) /\ Cardinality(wrote'[q]) <= OpBlocks
                 /\ wrote'[q] \subseteq logged'
      <3>1. CASE q = p
        BY <1>4, <2>2, <3>1, Zenon
      <3>2. CASE q # p
        BY <1>1, <2>2, <2>3, <2>6, <3>2, Zenon DEF CallsWrote
      <3>. QED BY <3>1, <3>2
    <2>8. CallsWrote'
      BY <2>7, Zenon DEF CallsWrote
    <2>9. Phases'
      BY <1>1, <1>5, <2>1, <2>5 DEF Phases
    <2>. QED BY <1>1, <2>8, <2>9, Zenon DEF Control
  <1>19. ASSUME NEW p \in Procs, NEW b \in Blocks, NEW v \in Values, log_write(p, b, v)
         PROVE  Control'
    <2>1. /\ pc[p] = "op"
          /\ (b \in wrote[p] \/ Cardinality(wrote[p]) < OpBlocks)
          /\ wrote' = [wrote EXCEPT ![p] = wrote[p] \cup {b}]
          /\ UNCHANGED <<pc, step, committing, outstanding, tail>>
      BY <1>19, Zenon DEF log_write, may_write
    <2>2. logged' = logged \cup {b}
      BY <1>19, LogWriteHeader, Zenon
    <2>3. wrote'[p] = wrote[p] \cup {b} /\ \A q \in Procs \ {p} : wrote'[q] = wrote[q]
      BY <1>2, <2>1, Zenon
    <2>4. IsFiniteSet(wrote[p]) /\ Cardinality(wrote[p]) \in Nat /\ Cardinality(wrote[p]) <= OpBlocks
      BY <1>1, CountNat, Zenon DEF CallsWrote
    <2>5. /\ IsFiniteSet(wrote[p] \cup {b})
          /\ Cardinality(wrote[p] \cup {b}) =
               IF b \in wrote[p] THEN Cardinality(wrote[p]) ELSE Cardinality(wrote[p]) + 1
      BY <2>4, CountAdd, Zenon
    <2>6. Cardinality(wrote[p] \cup {b}) <= OpBlocks
      BY <1>4, <2>1, <2>4, <2>5
    <2>7. ASSUME NEW q \in Procs
          PROVE  /\ pc'[q] # "op" => wrote'[q] = {}
                 /\ IsFiniteSet(wrote'[q]) /\ Cardinality(wrote'[q]) <= OpBlocks
                 /\ wrote'[q] \subseteq logged'
      <3>1. CASE q = p
        <4>1. wrote[p] \subseteq logged
          BY <1>1, Zenon DEF CallsWrote
        <4>2. wrote'[p] \subseteq logged'
          BY <2>2, <2>3, <4>1
        <4>3. /\ pc'[p] = "op" /\ IsFiniteSet(wrote'[p]) /\ Cardinality(wrote'[p]) <= OpBlocks
          BY <2>1, <2>3, <2>5, <2>6, Zenon
        <4>. QED BY <3>1, <4>2, <4>3, Zenon
      <3>2. CASE q # p
        BY <1>1, <2>1, <2>2, <2>3, <3>2, Zenon DEF CallsWrote
      <3>. QED BY <3>1, <3>2
    <2>8. CallsWrote'
      BY <2>7, Zenon DEF CallsWrote
    <2>9. InOp' = InOp
      BY <2>1, Zenon DEF InOp
    <2>10. Phases'
      BY <1>1, <2>1, <2>9, Zenon DEF Phases
    <2>. QED BY <1>1, <2>8, <2>10, Zenon DEF Control
  <1>20. ASSUME UNCHANGED <<pc, wrote, lh, outstanding, committing, step, tail>> PROVE Control'
    <2>1. Phases'
      BY <1>1, <1>7, <1>20, Zenon DEF Phases
    <2>. QED BY <1>1, <1>7, <1>20, <2>1, Zenon DEF Control
  <1>21. ASSUME NEW b \in Blocks, evict(b) PROVE Control'
    BY <1>20, <1>21, Zenon DEF evict
  <1>22. CASE crash
    <2>1. /\ outstanding' = 0 /\ committing' = 0 /\ step' = "read_head"
          /\ \A p \in Procs : pc'[p] = "idle" /\ wrote'[p] = {}
      BY <1>22, Zenon DEF crash
    <2>2. InOp' = {}
      BY <2>1 DEF InOp
    <2>3. Phases'
      BY <1>4, <2>1, <2>2 DEF Phases, CommitSteps
    <2>. QED BY <1>1, <1>6, <2>1, <2>3, Zenon DEF Control
  <1>23. CASE UNCHANGED vars
    BY <1>20, <1>23, Zenon DEF vars, memvars
  <1>. QED
    BY <1>9, <1>10, <1>11, <1>12, <1>13, <1>14, <1>15, <1>16, <1>17, <1>18, <1>19,
       <1>21, <1>22, <1>23, Zenon
    DEF Next, recover, commit

\* The header never outgrows what begin_op() reserved for the calls so far.
LEMMA SpaceStep == Counted /\ Inv /\ [Next]_vars => Space'
  <1>. SUFFICES ASSUME Counted, Inv, [Next]_vars PROVE Space'
    OBVIOUS
  <1>. USE DEF Inv, Space, ReservationFits
  <1>a. TypeOK /\ TypeOK' /\ LogSize \in Nat /\ LogBlocks \in Nat /\ LogBlocks >= 1
    BY ControlStep, LogAssumption DEF Control
  <1>b. /\ IsFiniteSet(Reserved) /\ Cardinality(Reserved) \in Nat
        /\ IsFiniteSet(InOp) /\ Cardinality(InOp) \in Nat
    BY CountSlots, ReservedIsSlots, Zenon
  <1>c. Cardinality({}) = 0
    BY CountEmpty
  <1>d. Len(lh) \in Nat /\ Len(header) \in Nat /\ Len(lh') \in Nat /\ Len(header') \in Nat
    BY <1>a DEF TypeOK
  <1>h. pc \in [Procs -> PC] /\ wrote \in [Procs -> SUBSET Blocks] /\ outstanding \in Nat
    BY <1>a DEF TypeOK
  <1>e. Len(lh) <= LogSize
    BY <1>a, <1>b, <1>d
  <1>f. ASSUME UNCHANGED <<pc, wrote, lh, header>> PROVE Space'
    BY <1>f DEF Reserved
  <1>g. ASSUME UNCHANGED <<pc, wrote>>, step # "none",
               <<lh', header'>> \in {<<header, header>>, <<lh, lh>>, <<<<>>, <<>>>>}
        PROVE  Space'
    <2>1. Reserved' = {}
      BY <1>g DEF Reserved, Control, Phases, InOp
    <2>. QED BY <1>a, <1>c, <1>d, <1>e, <1>g, <2>1
  <1>1. CASE read_head
    BY <1>1, <1>g DEF read_head, diskvars
  <1>2. CASE r_install
    BY <1>2, <1>f, Zenon DEF r_install, install
  <1>3. CASE r_clear
    BY <1>3, <1>g DEF r_clear, clear
  <1>4. CASE write_log
    BY <1>4, <1>f, Zenon DEF write_log
  <1>5. CASE write_head
    BY <1>5, <1>g DEF write_head
  <1>6. CASE install_trans
    BY <1>6, <1>f, Zenon DEF install_trans, install
  <1>7. CASE clear_head
    BY <1>7, <1>g DEF clear_head, clear
  <1>8. ASSUME UNCHANGED <<lh, header>>, Reserved' \subseteq Reserved PROVE Space'
    <2>1. Cardinality(Reserved') <= Cardinality(Reserved) /\ IsFiniteSet(Reserved')
      BY <1>b, <1>8, CountSubset
    <2>2. Cardinality(Reserved') \in Nat
      BY <2>1, CountNat
    <2>. QED BY <1>8, <1>a, <1>b, <1>d, <2>1, <2>2
  <1>9. CASE end_op_committed
    <2>1. Reserved' \subseteq Reserved
      BY <1>9, <1>h DEF end_op_committed, wakeup_log, Reserved
    <2>. QED BY <1>8, <1>9, <2>1 DEF end_op_committed, diskvars
  <1>10. ASSUME NEW p \in Procs, begin_op_sleep(p) PROVE Space'
    <2>1. Reserved' \subseteq Reserved
      BY <1>10, <1>h DEF begin_op_sleep, Reserved
    <2>. QED BY <1>8, <1>10, <2>1 DEF begin_op_sleep, diskvars
  <1>11. ASSUME NEW p \in Procs, begin_op_enter(p) PROVE Space'
    <2>1. InOp' \in SUBSET Procs /\ Reserved' \in SUBSET (InOp' \X (1..MaxOpBlocks))
      BY DEF InOp, Reserved
    <2>2. Cardinality(InOp') = outstanding + 1
      BY <1>11, ControlStep DEF begin_op_enter, Control, Phases
    <2>3. Cardinality(Reserved') <= (outstanding + 1) * MaxOpBlocks /\ Cardinality(Reserved') \in Nat
      BY <2>1, <2>2, CountSlots
    <2>4. Len(lh) + (outstanding + 1) * MaxOpBlocks <= LogSize
      BY <1>11, <1>a, <1>d, <1>h, LogAssumption DEF begin_op_enter, begin_op_must_wait
    <2>5. UNCHANGED <<lh, header>>
      BY <1>11 DEF begin_op_enter, diskvars
    <2>. QED BY <1>a, <1>d, <2>3, <2>4, <2>5, <1>h, LogAssumption
  <1>12. ASSUME NEW p \in Procs, end_op_last(p) PROVE Space'
    <2>1. Reserved' \subseteq Reserved
      BY <1>12, <1>h DEF end_op_last, Reserved
    <2>. QED BY <1>8, <1>12, <2>1 DEF end_op_last, diskvars
  <1>13. ASSUME NEW p \in Procs, end_op_not_last(p) PROVE Space'
    <2>1. Reserved' \subseteq Reserved
      BY <1>13, <1>h DEF end_op_not_last, wakeup_log, Reserved
    <2>. QED BY <1>8, <1>13, <2>1 DEF end_op_not_last, diskvars
  <1>14. ASSUME NEW p \in Procs, NEW b \in Blocks, NEW v \in Values, log_write(p, b, v)
         PROVE  Space'
    <2>1. /\ pc' = pc /\ pc[p] = "op" /\ header' = header /\ Len(lh) < LogBlocks - 1
          /\ b \in wrote[p] \/ Cardinality(wrote[p]) < OpBlocks
      BY <1>14, <1>a, <1>d DEF log_write, may_write, diskvars, log_write_panics
    <2>2. wrote' = [wrote EXCEPT ![p] = wrote[p] \cup {b}]
      BY <1>14 DEF log_write
    <2>3. CASE b \in wrote[p]
      <3>1. wrote' = wrote
        BY <2>2, <2>3, <1>h
      <3>2. lh' = lh
        BY <1>14, <2>3, LogWriteHeader, Zenon DEF Control, CallsWrote
      <3>. QED BY <1>f, <2>1, <3>1, <3>2
    <2>4. CASE b \notin wrote[p]
      <3>. DEFINE k == Cardinality(wrote[p])
                  x == <<p, k + 1>>
      <3>1. k \in Nat /\ Cardinality(wrote[p] \cup {b}) = k + 1
        BY <2>4, CountAdd, CountNat, Zenon DEF Control, CallsWrote
      <3>2. k + 1 \in 1..MaxOpBlocks
        BY <2>1, <2>4, <3>1, LogAssumption
      <3>3. x \in Reserved
        BY <2>1, <3>1, <3>2 DEF Reserved
      <3>4. Cardinality(wrote'[p]) = k + 1
        BY <1>h, <2>2, <3>1
      <3>5. \A q \in Procs \ {p} : wrote'[q] = wrote[q]
        BY <1>h, <2>2
      <3>6. Reserved' \subseteq Reserved \ {x}
        <4>. SUFFICES ASSUME NEW q \in Procs, NEW i \in 1..MaxOpBlocks,
                             pc[q] = "op", i > Cardinality(wrote'[q])
                      PROVE  i > Cardinality(wrote[q]) /\ <<q, i>> # x
          BY <2>1 DEF Reserved
        <4>1. CASE q = p
          BY <4>1, <3>1, <3>4, LogAssumption
        <4>2. CASE q # p
          BY <4>2, <3>5
        <4>. QED BY <4>1, <4>2
      <3>7. /\ IsFiniteSet(Reserved \ {x})
            /\ Cardinality(Reserved \ {x}) = Cardinality(Reserved) - 1
        BY <1>b, <3>3, CountRemove, Zenon
      <3>8. IsFiniteSet(Reserved') /\ Cardinality(Reserved') <= Cardinality(Reserved) - 1
        BY <3>6, <3>7, CountSubset
      <3>9. Cardinality(Reserved') \in Nat
        BY <3>8, CountNat
      <3>10. Len(lh') <= Len(lh) + 1
        BY <1>14, <1>d, LogWriteHeader
      <3>. QED BY <1>a, <1>b, <1>d, <2>1, <3>8, <3>9, <3>10
    <2>. QED BY <2>3, <2>4
  <1>15. ASSUME NEW b \in Blocks, evict(b) PROVE Space'
    BY <1>15, <1>f, Zenon DEF evict, diskvars
  <1>16. CASE crash
    <2>1. Reserved' = {}
      BY <1>16 DEF crash, Reserved
    <2>. QED BY <1>16, <1>a, <1>c, <1>d, <2>1 DEF crash, diskvars
  <1>17. CASE UNCHANGED vars
    BY <1>17, <1>f, Zenon DEF vars, memvars, diskvars
  <1>. QED
    BY <1>1, <1>2, <1>3, <1>4, <1>5, <1>6, <1>7, <1>9, <1>10, <1>11, <1>12, <1>13,
       <1>14, <1>15, <1>16, <1>17, Zenon
    DEF Next, recover, commit

-----------------------------------------------------------------------------
(* Counting *)

INSTANCE FiniteSetTheorems

\* A set of reserved log slots of the calls in S is finite and no larger than
\* what begin_op() reserves for that many calls.
LEMMA SlotsBound ==
  ASSUME NEW S \in SUBSET Procs, NEW T \in SUBSET (S \X (1..MaxOpBlocks))
  PROVE  /\ IsFiniteSet(S) /\ Cardinality(S) \in Nat
         /\ IsFiniteSet(T) /\ Cardinality(T) \in Nat
         /\ Cardinality(T) <= Cardinality(S) * MaxOpBlocks
  <1>1. IsFiniteSet(S) /\ Cardinality(S) \in Nat
    BY LogAssumption, FS_Subset, FS_CardinalityType
  <1>2. Cardinality(1..MaxOpBlocks) = MaxOpBlocks /\ IsFiniteSet(1..MaxOpBlocks)
    BY LogAssumption, FS_Interval
  <1>3. /\ IsFiniteSet(S \X (1..MaxOpBlocks))
        /\ Cardinality(S \X (1..MaxOpBlocks)) = Cardinality(S) * MaxOpBlocks
    BY <1>1, <1>2, FS_Product, Zenon
  <1>4. IsFiniteSet(T) /\ Cardinality(T) <= Cardinality(S \X (1..MaxOpBlocks))
    BY <1>3, FS_Subset
  <1>. QED  BY <1>1, <1>3, <1>4, FS_CardinalityType

\* Two blocks are two log slots: what a call that logs a second block adds.
LEMMA PairCardinality ==
  ASSUME NEW x, NEW y, x # y
  PROVE  Cardinality({x, y}) = 2
  <1>1. IsFiniteSet({x}) /\ Cardinality({x}) = 1
    BY FS_Singleton
  <1>2. Cardinality({x} \cup {y}) = 1 + 1
    <2>1. y \notin {x}
      OBVIOUS
    <2>. QED BY <1>1, <2>1, FS_AddElement
  <1>3. {x, y} = {x} \cup {y}
    OBVIOUS
  <1>. QED BY <1>2, <1>3

\* All together.
LEMMA Counting == Counted
  <1>1. IsFiniteSet({}) /\ Cardinality({}) = 0
    BY FS_EmptySet
  <1>2. ASSUME NEW S, IsFiniteSet(S)
        PROVE  /\ Cardinality(S) \in Nat
               /\ Cardinality(S) = 0 => S = {}
               /\ \A T \in SUBSET S : IsFiniteSet(T) /\ Cardinality(T) <= Cardinality(S)
    BY <1>2, FS_CardinalityType, FS_EmptySet, FS_Subset, Zenon
  <1>3. ASSUME NEW S, IsFiniteSet(S), NEW x
        PROVE  /\ IsFiniteSet(S \cup {x})
               /\ Cardinality(S \cup {x}) =
                    IF x \in S THEN Cardinality(S) ELSE Cardinality(S) + 1
    BY <1>3, FS_AddElement, Zenon
  <1>4. ASSUME NEW S, IsFiniteSet(S), NEW x \in S
        PROVE  IsFiniteSet(S \ {x}) /\ Cardinality(S \ {x}) = Cardinality(S) - 1
    BY <1>4, FS_RemoveElement, Zenon
  <1>. QED BY <1>1, <1>2, <1>3, <1>4, SlotsBound, Zenon DEF Counted

\* The first boot (initlog() on a disk as mkfs leaves it: any contents, an empty
\* log) starts in the invariant.
THEOREM InvInit == Init => Inv
  <1>. SUFFICES ASSUME Init PROVE Inv
    OBVIOUS
  <1>1. InOp = {} /\ Reserved = {}
    BY DEF Init, InOp, Reserved
  <1>0. IsFiniteSet({}) /\ Cardinality({}) = 0
    BY FS_EmptySet, Zenon
  <1>2. logd \in [LogArea -> Values]
    BY DEF Init
  <1>3. TypeOK
    BY <1>2, LogAssumption DEF Init, TypeOK, PC, RecoverySteps
  <1>4. Control
    BY <1>0, <1>1, <1>3, LogAssumption DEF Init, Control, Phases, CallsWrote, CommitSteps
  <1>5. Space
    BY <1>0, <1>1, LogAssumption DEF Init, Space, ReservationFits
  <1>6. Headers /\ Contents /\ PinsBalance
    BY DEF Init, Headers, Contents, PinsBalance, AwaitingInstall, RecoverySteps
  <1>. QED  BY <1>4, <1>5, <1>6 DEF Inv

-----------------------------------------------------------------------------
(* The theorems *)

\* The invariant is inductive: every reachable state of log.c satisfies it.
THEOREM Invariance == Spec => []Inv
  <1>1. Inv /\ [Next]_vars => Inv'
    BY Counting, TypeStep, ControlStep, SpaceStep, HeadersStep, ContentsStep, PinsStep, Zenon DEF Inv
  <1>. QED  BY InvInit, <1>1, PTL DEF Spec

\* TypeOK holds of every reachable state; in particular no bunpin() of
\* install_trans() takes a reference count below zero.
THEOREM TypeCorrect == Spec => []TypeOK
  BY Invariance, PTL DEF Inv, Control

\* If no call writes more than MAXOPBLOCKS - 2 blocks and the on-disk log has
\* LOGSIZE blocks in all (mkfs), no panic of log_write() or end_op() is reached.
THEOREM NoPanicHolds ==
  ASSUME OpBlocks + 2 <= MaxOpBlocks, LogSize <= LogBlocks
  PROVE  Spec => []NoPanic
  <1>1. Inv => NoPanic
    <2>. SUFFICES ASSUME Inv, NEW p \in Procs, pc[p] = "op"
                  PROVE  ~log_write_panics /\ committing = 0
      BY DEF NoPanic, may_write
    <2>. DEFINE S == {<<p, MaxOpBlocks - 1>>, <<p, MaxOpBlocks>>}
    <2>1. Cardinality(wrote[p]) \in Nat /\ Cardinality(wrote[p]) <= OpBlocks
      BY FS_CardinalityType DEF Inv, Control, CallsWrote
    <2>2. S \subseteq Reserved
      BY <2>1, LogAssumption DEF Reserved
    <2>5. <<p, MaxOpBlocks - 1>> # <<p, MaxOpBlocks>>
      BY LogAssumption
    <2>6. Cardinality(S) = 2
      BY <2>5, PairCardinality, Zenon
    <2>7. IsFiniteSet(Reserved) /\ Cardinality(Reserved) \in Nat
      BY SlotsBound, ReservedIsSlots
    <2>8. Cardinality(Reserved) >= 2
      BY <2>2, <2>6, <2>7, FS_Subset
    <2>9. Len(lh) \in Nat /\ Len(lh) + 2 <= LogSize
      BY <2>7, <2>8, LogAssumption DEF Inv, Space, ReservationFits, Control, TypeOK
    <2>10. p \in InOp /\ step = "none"
      BY DEF InOp, Inv, Control, Phases
    <2>11. outstanding # 0 /\ outstanding \in Nat
      BY <2>10, SlotsBound, ReservedIsSlots, FS_EmptySet DEF Inv, Control, Phases
    <2>12. committing = 0
      BY <2>10 DEF Inv, Control, Phases, TypeOK, CommitSteps
    <2>. QED BY <2>9, <2>11, <2>12, LogAssumption DEF log_write_panics
  <1>. QED  BY <1>1, Invariance, PTL

\* The space begin_op() has reserved for the calls in progress always fits.
THEOREM ReservationHolds == Spec => []ReservationFits
  BY Invariance, PTL DEF Inv, Space

\* bpin() and bunpin() balance in every reachable state.
THEOREM PinsBalanceHolds == Spec => []PinsBalance
  BY Invariance, PTL DEF Inv

\* Once every call has ended and its commit has finished, a crash loses nothing.
THEOREM QuiescentIsDurableHolds == Spec => []QuiescentIsDurable
  <1>1. Inv => QuiescentIsDurable
    <2>. SUFFICES ASSUME Inv, step = "none", outstanding = 0 PROVE Recovered = cache
      BY DEF QuiescentIsDurable
    <2>1. header = <<>> /\ lh = <<>> /\ cache \in [Blocks -> Values] /\ home \in [Blocks -> Values]
      BY DEF Inv, Headers, Control, TypeOK
    <2>2. Recovered = home
      BY <2>1 DEF Recovered
    <2>3. \A b \in Blocks : cache[b] = home[b]
      BY <2>1 DEF Inv, Contents, logged
    <2>. QED BY <2>1, <2>2, <2>3
  <1>. QED  BY <1>1, Invariance, PTL

\* The log implements AtomicDisk: whatever the interleaving of calls, buffer
\* recycling and crashes, the durable state changes only at a commit, and then
\* to the state that all finished calls left in memory.
THEOREM LogImplementsAtomicDisk == Spec => ImplementsAtomicDisk
  <1>. QED
    BY RefinementInit, RefinementStep, Invariance, PTL
    DEF Spec, ImplementsAtomicDisk, AD!Spec

=============================================================================
