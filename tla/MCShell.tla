------------------------------ MODULE MCShell ------------------------------
(***************************************************************************)
(* The shell on a set of lines, chosen in the initial state: each operator *)
(* of the command language, alone and inside the others, a command that    *)
(* does not exist, a file that does not, a syntax error, and pipelines     *)
(* that need more processes or files than the tables hold.                 *)
(***************************************************************************)
EXTENDS Shell

MCLines ==
    { <<"echo", "x", "y">>,
      <<"cd", "d">>,
      <<"nope">>,
      <<"echo", "x", ">">>,
      <<"cat", "f", "g", ">>", "f">>,
      <<"echo", "x", ">>", "f", ";", "cat", "<", "f">>,
      <<"echo", "x", "y", "z", "|", "cat">>,
      <<"cat", "f", "|", "echo", "x">>,
      <<"echo", "x", "|", "(", "cat", ";", "echo", "y", ")", ">", "h", "<", "f">>,
      <<"echo", "x", "|", "cat", "|", "cat">>,
      <<"echo", "x", "|", "cat", ">", "h">>,
      <<"echo", "x", "&", ";", "cat", "<", "g">>,
      <<"(", "echo", "x", "|", "cat", ")", "&">> }

MCFiles == ("f" :> <<"1", "2">>)

(***************************************************************************)
(* The commands the parser is checked on: words, redirections and empty    *)
(* commands combined by the three operators, two deep.                     *)
(***************************************************************************)
Simple == {execcmd(<<>>), execcmd(<<"a">>), execcmd(<<"a", "b">>)}
Redirected == {redircmd(c, Redir(t, "f")) : c \in Simple, t \in {"<", ">", ">>"}}
Combined(S) ==
    {pipecmd(a, b) : a \in S, b \in S} \union {listcmd(a, b) : a \in S, b \in S}
    \union {backcmd(a) : a \in S} \union {redircmd(a, Redir(">", "g")) : a \in S}
Trees1 == Combined({execcmd(<<>>), execcmd(<<"a">>), redircmd(execcmd(<<"b">>), Redir("<", "f"))})
Trees == Simple \union Redirected \union Combined(Simple \union Redirected) \union Combined(Trees1)

(***************************************************************************)
(* The parser reads back every command as it is written, the operators     *)
(* binding as sh.c's grammar says: ; less than &, & less than |, | less    *)
(* than a redirection, parentheses overriding (parseline, parsepipe,       *)
(* parseexec, parseblock).  Looked at where the session starts.            *)
(***************************************************************************)
ParserReadsBack ==
    Len(input) = 2 /\ line.tokens = <<"nope">> /\ At(initproc, "init_open") =>
        \A c \in Trees : LET r == parsecmd(WriteLine(c)) IN r.ok /\ r.cmd = c

=============================================================================
