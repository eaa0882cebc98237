----------------------------- MODULE RemoteShell -----------------------------
(***************************************************************************)
(* The remote shell: the server rshd, which serves one client after the     *)
(* other, and the client rsh, which knows where the server is only from the *)
(* text it receives.  How a command is executed is CommandExec's subject;   *)
(* here it gives some output, may log the user out, set the directory or end *)
(* the session.  A stream is a sequence of pieces: a prompt is two of them,  *)
(* so that a chunk may cut it, and a line of output is one.  TCP loses none  *)
(* of them while both sides are there.                                       *)
(***************************************************************************)
EXTENDS Integers, Sequences, SequencesExt

CONSTANTS
    RsUsers,          \* user names, each with itself as its password
    RsOutput,         \* pieces a command may print, also those of a prompt
    RSHD_OUT_LIMIT,   \* the piece of output that rshd replaces by its notice
    RshClients,       \* bound: clients that connect one after the other
    RsTyped           \* bound: lines a user types in a session

ASSUME RsAssumption == RSHD_OUT_LIMIT \in Nat

VARIABLES
    rsd,       \* rshd: where it is, the login attempt, the name given, who is logged in
    rsh,       \* rsh: where it is, the prompt it saw, what it keeps of the text, lines typed
    toServer,  \* lines on their way to rshd, with the prompt they were typed at
    toClient,  \* pieces on their way to rsh
    rsSession, \* the kernel's session: the user who logged in last, "" for none
    rsCount,   \* clients so far
    rsTaken    \* the prompt at which rshd took its last line, and the one it was typed at
rsVars == <<rsd, rsh, toServer, toClient, rsSession, rsCount, rsTaken>>

Prompts == {"login: ", "password: ", "$ "}

\* The pieces of a prompt; rshd_send_prompt's has the directory before it.
Halves == [p \in Prompts |-> IF p = "login: " THEN <<"log", "in: ">>
                            ELSE IF p = "password: " THEN <<"pass", "word: ">> ELSE <<"$", " ">>]
LoginPieces == {"log", "in: ", "pass", "word: "}

\* own: the session is still the one that the login of this connection made.
Waiting == [at |-> "accept", attempt |-> 0, name |-> "", user |-> "", left |-> 0, cmd |-> "",
            own |-> FALSE]
NoClient == [at |-> "off", prompt |-> "", tail |-> <<>>, typed |-> 0]

-----------------------------------------------------------------------------
(* rshd                                                                    *)

\* What is sent to a client that is gone is lost.
Send(words) == toClient' = IF rsh.at = "off" THEN <<>> ELSE toClient \o words

\* rshd_send_prompt at the end of a turn that leaves rshd as r: its failure, when
\* the client is gone, ends the connection.
AsksNext(r, words) ==
    \/ rsd' = [r EXCEPT !.at = "$ "] /\ Send(words \o Halves["$ "])
    \/ rsh.at = "off" /\ rsd' = [r EXCEPT !.at = "close"] /\ UNCHANGED toClient

\* tcp_accept, the banner and the first login prompt.
rshd_accept ==
    /\ rsd.at = "accept" /\ rsh.at = "connect"
    /\ rsd' = [Waiting EXCEPT !.at = "login: "]
    /\ rsh' = [rsh EXCEPT !.at = "wait"]
    /\ Send(<<"banner">> \o Halves["login: "])
    /\ UNCHANGED <<toServer, rsSession, rsCount, rsTaken>>

\* rshd_recv_line: the next line, at the prompt rshd believes it is at.
\* Nothing received is waited out, for ever.
rshd_recv_line ==
    /\ rsd.at \in Prompts /\ toServer # <<>>
    /\ toServer' = Tail(toServer)
    /\ rsTaken' = [at |-> rsd.at, typed |-> Head(toServer).prompt]

LoginName ==
    /\ rsd.at = "login: " /\ rshd_recv_line
    /\ rsd' = [rsd EXCEPT !.at = "password: ", !.name = Head(toServer).text]
    /\ Send(Halves["password: "])
    /\ UNCHANGED <<rsh, rsSession, rsCount>>

\* The password: the kernel logs the user in, or the next of three attempts
\* begins, or the session ends.
LoginPassword ==
    /\ rsd.at = "password: " /\ rshd_recv_line
    /\ LET ok == rsd.name \in RsUsers /\ Head(toServer).text = rsd.name
       IN  /\ rsSession' = IF ok THEN rsd.name ELSE rsSession
           /\ \/ ok /\ AsksNext([rsd EXCEPT !.user = rsd.name, !.own = TRUE], <<"login ok">>)
              \/ ~ok /\ rsd.attempt < 2
                 /\ rsd' = [rsd EXCEPT !.at = "login: ", !.attempt = @ + 1]
                 /\ Send(<<"login failed">> \o Halves["login: "])
              \/ ~ok /\ rsd.attempt = 2
                 /\ rsd' = [rsd EXCEPT !.at = "close"] /\ Send(<<"login failed">>)
    /\ UNCHANGED <<rsh, rsCount>>

\* A line at the shell prompt: nothing, a builtin, or a command to execute.
rshd_handle_builtin ==
    /\ rsd.at = "$ " /\ rshd_recv_line
    /\ LET text == Head(toServer).text
       IN  \/ text = "" /\ AsksNext(rsd, <<>>)
           \/ text = "pwd" /\ AsksNext(rsd, <<"/">>)
           \/ text = "exit" /\ rsd' = [rsd EXCEPT !.at = "close"] /\ Send(<<"bye">>)
           \/ /\ text \notin {"", "exit", "pwd"}
              /\ rsd' = [rsd EXCEPT !.at = "exec", !.left = RSHD_OUT_LIMIT, !.cmd = text]
              /\ UNCHANGED toClient
    /\ UNCHANGED <<rsh, rsSession, rsCount>>

\* logout ends the kernel's session, the only one there is; rshd does not ask
\* for it again.
CommandLogsOut ==
    /\ rsd.at = "exec" /\ rsd.cmd = "logout"
    /\ rsSession' = "" /\ rsd' = [rsd EXCEPT !.cmd = "", !.own = FALSE]
    /\ UNCHANGED <<rsh, toServer, toClient, rsCount, rsTaken>>

\* rshd_send_file_and_remove: a piece of the captured output, up to the limit.
CommandPrints(w) ==
    /\ rsd.at = "exec" /\ rsd.left > 0
    /\ rsd' = [rsd EXCEPT !.left = @ - 1]
    /\ Send(IF rsd.left = 1 THEN <<"truncated">> ELSE <<w>>)
    /\ UNCHANGED <<rsh, toServer, rsSession, rsCount, rsTaken>>

\* The command is done: the next prompt, unless its context asked to exit.
rshd_apply_ret(exits) ==
    /\ rsd.at = "exec"
    /\ LET done == [rsd EXCEPT !.left = 0, !.cmd = ""]
       IN  IF exits THEN rsd' = [done EXCEPT !.at = "close"] /\ UNCHANGED toClient
           ELSE AsksNext(done, <<>>)
    /\ UNCHANGED <<rsh, toServer, rsSession, rsCount, rsTaken>>

\* tcp_close; the kernel's session stays the user's.
rshd_close ==
    /\ rsd.at = "close"
    /\ rsd' = Waiting
    /\ UNCHANGED <<rsh, toServer, toClient, rsSession, rsCount, rsTaken>>

-----------------------------------------------------------------------------
(* rsh                                                                     *)

rsh_connect ==
    /\ rsh.at = "off" /\ rsd.at = "accept" /\ rsCount < RshClients
    /\ rsh' = [NoClient EXCEPT !.at = "connect"]
    /\ toServer' = <<>> /\ toClient' = <<>>
    /\ rsCount' = rsCount + 1 /\ rsTaken' = [at |-> "", typed |-> ""]
    /\ UNCHANGED <<rsd, rsSession>>

\* Where a prompt stands in the text seen, and the first of them.
AsksAt(seen) == {i \in 1 .. (Len(seen) - 1) : \E p \in Prompts : Halves[p] = <<seen[i], seen[i + 1]>>}
FirstPrompt(seen) ==
    LET first == CHOOSE i \in AsksAt(seen) : \A j \in AsksAt(seen) : i <= j
    IN  CHOOSE p \in Prompts : Halves[p] = <<seen[first], seen[first + 1]>>

\* Mutant: the tail of the text is forgotten from one chunk to the next.
RecvForgetsTail(n) ==
    /\ rsh.at \in {"wait", "leaving"} /\ n \in 1 .. Len(toClient)
    /\ LET seen == SubSeq(toClient, 1, n)
       IN  /\ toClient' = SubSeq(toClient, n + 1, Len(toClient))
           /\ rsh' = IF AsksAt(seen) = {} THEN rsh
                     ELSE IF rsh.at = "leaving" THEN NoClient
                     ELSE [rsh EXCEPT !.at = "typing", !.prompt = FirstPrompt(seen)]
    /\ UNCHANGED <<rsd, toServer, rsSession, rsCount, rsTaken>>

\* rsh_recv_until_prompt: one chunk of n pieces.  The first text that looks like
\* a prompt is the prompt, also when chunks cut it: the tail is kept until one
\* is found.  The rest of that chunk is printed and forgotten.  After exit the
\* prompt that would end the client never comes.
rsh_recv_until_prompt(n) ==
    /\ rsh.at \in {"wait", "leaving"} /\ n \in 1 .. Len(toClient)
    /\ LET seen == rsh.tail \o SubSeq(toClient, 1, n)
       IN  /\ toClient' = SubSeq(toClient, n + 1, Len(toClient))
           /\ rsh' = IF AsksAt(seen) = {} THEN [rsh EXCEPT !.tail = <<seen[Len(seen)]>>]
                     ELSE IF rsh.at = "leaving" THEN NoClient
                     ELSE [rsh EXCEPT !.at = "typing", !.tail = <<>>, !.prompt = FirstPrompt(seen)]
    /\ UNCHANGED <<rsd, toServer, rsSession, rsCount, rsTaken>>

\* The user types a line, which is echoed unless the prompt was "password: ".
rsh_read_line(text) ==
    /\ rsh.at = "typing" /\ rsh.typed < RsTyped
    /\ toServer' = Append(toServer, [text |-> text, prompt |-> rsh.prompt])
    /\ rsh' = [rsh EXCEPT !.at = IF text = "exit" THEN "leaving" ELSE "wait", !.typed = @ + 1]
    /\ UNCHANGED <<rsd, toClient, rsSession, rsCount, rsTaken>>

\* The end of the user's input ends rsh, and so does the window it runs in.
rsh_ends ==
    /\ rsh.at \notin {"off", "connect"}
    /\ rsh' = NoClient /\ toClient' = <<>>
    /\ UNCHANGED <<rsd, toServer, rsSession, rsCount, rsTaken>>

\* External: a login or a logout at the machine's own console while rshd runs
\* under the session it made; at any other time it is of no consequence here.
ConsoleSession(u) ==
    /\ rsd.own /\ rsSession' = u /\ u # rsSession
    /\ rsd' = [rsd EXCEPT !.own = FALSE]
    /\ UNCHANGED <<rsh, toServer, toClient, rsCount, rsTaken>>

-----------------------------------------------------------------------------
RsLines == RsUsers \cup {"", "exit", "pwd", "ls", "logout"}

RsInit ==
    /\ rsd = Waiting /\ rsh = NoClient /\ toServer = <<>> /\ toClient = <<>>
    /\ rsSession = "" /\ rsCount = 0 /\ rsTaken = [at |-> "", typed |-> ""]

RshdNext ==
    \/ rshd_accept \/ LoginName \/ LoginPassword \/ rshd_handle_builtin \/ CommandLogsOut
    \/ rshd_close
    \/ \E w \in RsOutput : CommandPrints(w)
    \/ \E exits \in BOOLEAN : rshd_apply_ret(exits)

RsNext ==
    \/ RshdNext
    \/ rsh_connect \/ rsh_ends
    \/ \E n \in 1 .. Len(toClient) : rsh_recv_until_prompt(n)
    \/ \E u \in RsUsers \cup {""} : ConsoleSession(u)
    \/ \E text \in RsLines : rsh_read_line(text)

RsFair == WF_rsVars(RshdNext)
RsSpec == RsInit /\ [][RsNext]_rsVars /\ RsFair

-----------------------------------------------------------------------------
\* A line reaches rshd at the prompt the user typed it for: a name is taken as
\* a name and a password as a password whatever earlier commands printed and
\* wherever the chunks are cut, and no line of a login is run as a command.  rsh
\* knows the prompts only from the text: for the second half, no command may
\* print a login prompt of its own, which rsh would take for one (a "$ " it may
\* print).
PromptsAgree ==
    rsTaken.at # "$ " \/ RsOutput \cap LoginPieces = {} => rsTaken.at = rsTaken.typed

\* rshd_recv_line and rsh_recv_until_prompt never wait for each other with
\* nothing on its way, however the prompts are cut and whatever commands print:
\* rsh has seen every prompt that rshd waits at.
NoMutualWait ==
    ~ (rsd.at \in Prompts /\ rsh.at = "wait" /\ toServer = <<>> /\ toClient = <<>>)

\* rshd runs commands only in a connection in which a user's name and password
\* came, and as that user while nobody touches the kernel's session.  It is one
\* for the machine: after a remote logout, and after a login at the console,
\* rshd goes on under the session that is there.
CommandsAreAuthorised ==
    (rsd.at \in {"$ ", "exec"}) => rsd.user \in RsUsers /\ (rsd.own => rsSession = rsd.user)

\* rshd_handle_client and rsh: prompts and lines agree, neither side waits for
\* nothing, and commands run after a login.
RemoteSound == PromptsAgree /\ NoMutualWait /\ CommandsAreAuthorised

\* Once exit is on its way rshd comes back to accept the next client, or the
\* client sent it at a prompt where it is a name or a password.
ExitFreesServer == (toServer # <<>> /\ rsd.at = "$ " /\ Head(toServer).text = "exit") ~> (rsd.at = "accept")
==============================================================================
