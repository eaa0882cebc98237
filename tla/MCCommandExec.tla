--------------------------- MODULE MCCommandExec ---------------------------
(***************************************************************************)
(* Instances of CommandExec for TLC.                                        *)
(***************************************************************************)
EXTENDS CommandExec

Cmd(prog, arg) == [prog |-> prog, arg |-> arg, redir |-> "none"]
To(stage, redir) == [stage EXCEPT !.redir = redir]

Ls == Cmd("ls", <<"x">>)
Cat == Cmd("cat", <<>>)
CdD == Cmd("cd", <<"/d">>)

MCDirs == {"/", "/d"}
MCInstalled == {"ls", "cat", "cd", "exit", "logout", "exec", "bg", SystemProgram}

\* Words of lines that start no background job, and of those that do.
MCWords == {"ls", "cat", "cd", "exit", "logout", "exec", "source", "gone", SystemProgram,
            "s", "t", "none", "x", "y", "1", "/d", "/gone"}
MCJobWords == MCWords \cup {"bg"}

\* A script that leaves through an exit in its middle, one that runs to its end
\* and one that cannot be read.
MCScripts == [s |-> <<<<Ls>>, <<Cmd("exit", <<>>)>>, <<CdD>>>>, t |-> <<<<CdD, Cat>>>>,
              none |-> <<>>]

\* One shell, everything but background jobs.
MCShell == {"sh"}
MCShellKind == [l \in MCShell |-> "shell"]
MCShellLines == [l \in MCShell |->
    {<<Ls>>, <<CdD>>, <<Cmd("cd", <<"/gone">>)>>, <<Cmd("exec", <<"cd", "/d">>)>>,
     <<Cmd("logout", <<>>)>>, <<Cmd("source", <<"s">>)>>, <<Cmd("source", <<"none">>)>>,
     <<Cmd("source", <<"t">>)>>,
     <<Cmd("gone", <<>>)>>, <<Cmd(SystemProgram, <<>>)>>,
     <<To(Ls, "append")>>, <<To(Cmd("logout", <<>>), "trunc")>>,
     <<CdD, Cat>>, <<Cmd("exit", <<"1">>), Cat>>, <<Ls, Cat, Cat, To(Cat, "trunc")>>,
     <<To(Ls, "trunc"), Cat>>, <<Ls, Cmd("", <<>>)>>}]
MCNoStartup == {<<>>}
MCStartup == {<<>>, <<<<CdD, Cat>>>>}

\* One shell with background jobs and nested exec.
MCJobLines == [l \in MCShell |->
    {<<Ls>>, <<Cmd("bg", <<"ls">>)>>, <<Cmd("bg", <<"bg", "ls">>)>>,
     <<Cmd("exec", <<"exec", "ls">>)>>, <<Cmd("exit", <<>>), Cat>>,
     <<Cmd("source", <<"s">>)>>}]

\* The shell and webconsole run commands at the same time.
MCPair == {"sh", "web"}
MCPairKind == [l \in MCPair |-> IF l = "sh" THEN "shell" ELSE "webconsole"]
MCPairLines == [l \in MCPair |-> IF l = "sh" THEN {<<Ls>>} ELSE {<<Cmd("ls", <<"y">>)>>}]

\* exec passes the words after the program's name on.
MCExecLines == [l \in MCShell |-> {<<Cmd("exec", <<"ls", "x">>)>>}]

\* The launchers that are not the shell, alone and two at once.
DaemonLines == {<<Ls>>, <<CdD>>, <<Cmd("exec", <<"cd">>)>>, <<Cmd("exit", <<>>)>>,
                <<Cmd("gone", <<>>)>>, <<Cmd(SystemProgram, <<>>)>>}
MCRshd == {"rsh"}
MCRshdKind == [l \in MCRshd |-> "rshd"]
MCRshdLines == [l \in MCRshd |-> DaemonLines]
MCDaemons == {"term", "web"}
MCDaemonsKind == [term |-> "terminal", web |-> "webconsole"]
MCDaemonsLines == [l \in MCDaemons |-> {<<Ls>>, <<Cmd("exit", <<>>)>>}]
=============================================================================
