---------------------------- MODULE ShellParser ----------------------------
(***************************************************************************)
(* The recursive descent parser of user/sh.c.  A command line is a         *)
(* sequence of tokens (gettoken's skipping of blanks and the pointers into *)
(* the buffer, with nulterminate's zeros at their ends, are the splitting  *)
(* into tokens); a struct cmd is a record.  A parser takes the tokens left *)
(* and returns the command with the tokens left after it; panic() in the   *)
(* parser ends the forked shell, so a failed parse has no command.         *)
(***************************************************************************)
EXTENDS Naturals, Sequences, SequencesExt

CONSTANT MAXARGS

ASSUME MAXARGSAssumption == MAXARGS \in Nat \ {0}

symbols == {"<", ">", ">>", "|", "&", ";", "(", ")"}

(***************************************************************************)
(* The constructors.                                                       *)
(***************************************************************************)
execcmd(argv) == [type |-> "EXEC", argv |-> argv]
redircmd(cmd, r) ==
    [type |-> "REDIR", cmd |-> cmd, file |-> r.file, trunc |-> r.trunc, fd |-> r.fd]
pipecmd(left, right) == [type |-> "PIPE", left |-> left, right |-> right]
listcmd(left, right) == [type |-> "LIST", left |-> left, right |-> right]
backcmd(cmd) == [type |-> "BACK", cmd |-> cmd]

(***************************************************************************)
(* What a parser returns: the command and the tokens left, or a panic.     *)
(***************************************************************************)
Parsed(cmd, s) == [ok |-> TRUE, cmd |-> cmd, rest |-> s]
panic == [ok |-> FALSE, cmd |-> execcmd(<<>>), rest |-> <<>>]

peek(s, toks) == s # <<>> /\ Head(s) \in toks
IsWord(s) == s # <<>> /\ Head(s) \notin symbols

(***************************************************************************)
(* The token of a redirection and its file: < reads on descriptor 0,       *)
(* > truncates and >> only opens, both for writing on descriptor 1.        *)
(***************************************************************************)
Redir(tok, file) ==
    [file |-> file, trunc |-> tok = ">", fd |-> IF tok = "<" THEN 0 ELSE 1]

RECURSIVE parseredirs(_, _)
parseredirs(x, redirs) ==
    IF ~peek(x, {"<", ">", ">>"}) THEN [ok |-> TRUE, redirs |-> redirs, rest |-> x]
    ELSE IF ~IsWord(Tail(x)) THEN [ok |-> FALSE, redirs |-> <<>>, rest |-> <<>>]
    ELSE parseredirs(Tail(Tail(x)), Append(redirs, Redir(Head(x), x[2])))

(***************************************************************************)
(* Each redirection wraps the command parsed so far: the last one written  *)
(* is the outermost, which runcmd opens first.                             *)
(***************************************************************************)
Wrap(cmd, redirs) == FoldLeft(redircmd, cmd, redirs)

(***************************************************************************)
(* parseexec's loop: argv so far and what parseredirs last returned.  The  *)
(* execcmd is filled in place under the redirections that wrap it, so it   *)
(* is built at the end.                                                    *)
(***************************************************************************)
RECURSIVE parseargs(_, _)
parseargs(argv, r) ==
    IF ~r.ok THEN panic
    ELSE IF peek(r.rest, {"|", ")", "&", ";"}) \/ r.rest = <<>>
      THEN Parsed(Wrap(execcmd(argv), r.redirs), r.rest)
    ELSE IF ~IsWord(r.rest) \/ Len(argv) + 1 >= MAXARGS THEN panic
    ELSE parseargs(Append(argv, Head(r.rest)), parseredirs(Tail(r.rest), r.redirs))

RECURSIVE parseline(_)
RECURSIVE parsepipe(_)
RECURSIVE parseback(_)

parseblock(s) ==
    LET inner == parseline(Tail(s))
        r == parseredirs(Tail(inner.rest), <<>>)
    IN  IF ~inner.ok \/ ~peek(inner.rest, {")"}) THEN panic
        ELSE IF ~r.ok THEN panic
        ELSE Parsed(Wrap(inner.cmd, r.redirs), r.rest)

parseexec(s) ==
    IF peek(s, {"("}) THEN parseblock(s) ELSE parseargs(<<>>, parseredirs(s, <<>>))

(* Mutant: the right side of | takes the rest of the list as well. *)
parsepipe_takes_list(s) ==
    LET left == parseexec(s)
        right == parseline(Tail(left.rest))
    IN  IF ~left.ok \/ ~peek(left.rest, {"|"}) THEN left
        ELSE IF ~right.ok THEN panic
        ELSE Parsed(pipecmd(left.cmd, right.cmd), right.rest)

parsepipe(s) ==
    LET left == parseexec(s)
        right == parsepipe(Tail(left.rest))
    IN  IF ~left.ok \/ ~peek(left.rest, {"|"}) THEN left
        ELSE IF ~right.ok THEN panic
        ELSE Parsed(pipecmd(left.cmd, right.cmd), right.rest)

(* parseline's loop over &. *)
parseback(x) ==
    IF x.ok /\ peek(x.rest, {"&"}) THEN parseback(Parsed(backcmd(x.cmd), Tail(x.rest)))
    ELSE x

parseline(s) ==
    LET left == parseback(parsepipe(s))
        right == parseline(Tail(left.rest))
    IN  IF ~left.ok \/ ~peek(left.rest, {";"}) THEN left
        ELSE IF ~right.ok THEN panic
        ELSE Parsed(listcmd(left.cmd, right.cmd), right.rest)

(* Tokens left over after the line are a syntax error. *)
parsecmd(s) ==
    LET line == parseline(s) IN IF line.rest = <<>> THEN line ELSE panic

-----------------------------------------------------------------------------
(***************************************************************************)
(* The reference: how a command is written.  A command that binds less     *)
(* tightly than its place asks for is put in parentheses.                  *)
(***************************************************************************)
RECURSIVE WriteLine(_)
RECURSIVE WriteBack(_)
RECURSIVE WritePipe(_)
RECURSIVE WriteExec(_)

WriteExec(c) ==
    CASE c.type = "EXEC"  -> c.argv
      [] c.type = "REDIR" ->
            WriteExec(c.cmd) \o <<IF c.fd = 0 THEN "<" ELSE IF c.trunc THEN ">" ELSE ">>", c.file>>
      [] OTHER -> <<"(">> \o WriteLine(c) \o <<")">>

WritePipe(c) ==
    IF c.type = "PIPE" THEN WriteExec(c.left) \o <<"|">> \o WritePipe(c.right) ELSE WriteExec(c)

WriteBack(c) == IF c.type = "BACK" THEN WriteBack(c.cmd) \o <<"&">> ELSE WritePipe(c)

WriteLine(c) ==
    IF c.type = "LIST" THEN WriteBack(c.left) \o <<";">> \o WriteLine(c.right) ELSE WriteBack(c)

=============================================================================
