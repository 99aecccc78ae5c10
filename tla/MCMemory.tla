------------------------------ MODULE MCMemory ------------------------------
(* Memory with pages of four words and page-table pages of four entries. *)
EXTENDS Memory

Load(vaddr, memsz, filesz, flags, text) ==
    [type |-> "LOAD", vaddr |-> vaddr, memsz |-> memsz, filesz |-> filesz, flags |-> flags, text |-> text]

TwoSegments == [magic |-> TRUE, ph |-> <<Load(0, 4, 4, {"X"}, "text"), Load(4, 3, 1, {"W"}, "bss")>>]
Misaligned == [TwoSegments EXCEPT !.ph[2].vaddr = 5]
NoteAndBss == [magic |-> TRUE, ph |-> <<[Load(0, 0, 0, {}, "note") EXCEPT !.type = "NOTE"],
                                        Load(0, 2, 0, {"W"}, "none")>>]
Script == [magic |-> FALSE, ph |-> <<>>]

Argv(at, arg) == [at |-> at, arg |-> arg]

\* a string that crosses a page; two strings, more than the stack holds; a segment
\* that cannot be read, or is misaligned; no ELF file
MCExecCalls ==
    {[file |-> NoteAndBss, argv |-> Argv(0, <<>>), short |-> FALSE],
     [file |-> TwoSegments, argv |-> Argv(0, <<[va |-> 3, len |-> 2]>>), short |-> FALSE],
     [file |-> TwoSegments, argv |-> Argv(1, <<>>), short |-> TRUE],
     [file |-> NoteAndBss, argv |-> Argv(1, <<[va |-> 0, len |-> 1], [va |-> 1, len |-> 1]>>), short |-> FALSE],
     [file |-> Misaligned, argv |-> Argv(0, <<>>), short |-> FALSE],
     [file |-> Script, argv |-> Argv(0, <<>>), short |-> FALSE]}

\* the last one takes p->sz below zero
MCIncrements == {6, -6, -100}

\* A state up to the names of its pages: kalloc may return any free page, and no
\* definition tells two pages apart.
Unnamed ==
    <<{<<Owners(a), data[a]>> : a \in Pages \ free}, Cardinality(free), Cardinality(pipes), panicked,
      [s \in Slots |-> <<proc[s].state, proc[s].sz>>], image>>

MCBuffers == {[va |-> 2, len |-> 6]}
=============================================================================
