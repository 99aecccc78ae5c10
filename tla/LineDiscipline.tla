--------------------------- MODULE LineDiscipline ---------------------------
(***************************************************************************)
(* What the console promises its readers: input becomes readable a line at *)
(* a time, until then it can be edited, and a read returns at most one     *)
(* line or, at an end of file, nothing.                                    *)
(***************************************************************************)
EXTENDS Naturals, Sequences

CONSTANTS Readers, Chars, newline, eof, Capacity

VARIABLES
    pending,    \* the line being edited
    committed,  \* what may be read
    got         \* what each reader's call has so far

vars == <<pending, committed, got>>

Init == pending = <<>> /\ committed = <<>> /\ got = [p \in Readers |-> <<>>]

Type(c) ==
    LET line == Append(pending, c)
        total == Len(line) + Len(committed)
    IN  /\ total <= Capacity
        /\ IF c \in {newline, eof} \/ total = Capacity
           THEN pending' = <<>> /\ committed' = committed \o line
           ELSE pending' = line /\ UNCHANGED committed
        /\ UNCHANGED got

Erase ==
    /\ pending # <<>>
    /\ pending' \in {<<>>, SubSeq(pending, 1, Len(pending) - 1)}
    /\ UNCHANGED <<committed, got>>

\* one character for the call of p, which has not yet got a whole line
Take(p) ==
    /\ committed # <<>> /\ Head(committed) # eof
    /\ got[p] = <<>> \/ got[p][Len(got[p])] # newline
    /\ committed' = Tail(committed)
    /\ got' = [got EXCEPT ![p] = Append(@, Head(committed))]
    /\ UNCHANGED pending

\* end of file: only a call that has nothing consumes it
TakeEof(p) ==
    /\ committed # <<>> /\ Head(committed) = eof /\ got[p] = <<>>
    /\ committed' = Tail(committed)
    /\ UNCHANGED <<pending, got>>

\* a character that cannot be copied out is gone, and the call ends
Lose(p) ==
    /\ committed # <<>> /\ Head(committed) # eof
    /\ committed' = Tail(committed)
    /\ got' = [got EXCEPT ![p] = <<>>]
    /\ UNCHANGED pending

Return(p) == got[p] # <<>> /\ got' = [got EXCEPT ![p] = <<>>] /\ UNCHANGED <<pending, committed>>

Next ==
    \/ \E c \in Chars : Type(c)
    \/ Erase
    \/ \E p \in Readers : Take(p) \/ TakeEof(p) \/ Lose(p) \/ Return(p)

Spec == Init /\ [][Next]_vars
=============================================================================
