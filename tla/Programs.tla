------------------------------ MODULE Programs ------------------------------
(***************************************************************************)
(* The programs under /shell/apps as processes: the skeleton every command  *)
(* of cleonos/c/apps shares (cmd_runtime.c, *_main.c).  A program takes its  *)
(* arguments from the context file /temp/.ush_cmd_ctx.bin and answers in the *)
(* return file /temp/.ush_cmd_ret.bin; both are shared by every launcher and *)
(* every program, so each file system call is a step of its own.            *)
(*                                                                         *)
(* The kernel (file system, process table, user session) is external; it    *)
(* is modelled from the system calls made here.  A directory is a member of *)
(* Dirs; an argument line is the sequence of its words.                     *)
(***************************************************************************)
EXTENDS Integers, Sequences, FiniteSetsExt

CONSTANTS
    Dirs,         \* directories that exist
    Installed,    \* programs under /shell/apps
    DiskLogin,    \* TRUE on an installed system, FALSE on the ISO
    Faults,       \* kernel calls that may fail
    MaxProcs      \* free slots of the process table

Root == "/"
SystemProgram == "/system/app.elf"
FaultKinds == {"open", "ctx", "exec", "ret", "kill"}

ASSUME ProgramsAssumption ==
    /\ Root \in Dirs
    /\ DiskLogin \in BOOLEAN
    /\ Faults \subseteq FaultKinds
    /\ MaxProcs \in Nat

VARIABLES
    ctx,      \* content of the context file, or NoCtx
    ret,      \* content of the return file, or NoRet
    tmp,      \* content of the two pipe files, or NoFile
    proc,     \* the process table
    session   \* does the kernel hold a logged-in user for a launcher's session?

Pids == 1..MaxProcs
NoPid == 0

\* The fields by and own are not in the files or the process: they record whose
\* command it is, as <<launcher, number of the line, number of the stage>>;
\* stage 0 is a background process.
NoOne == <<>>
NoCtx == [cmd |-> "", arg |-> <<>>, cwd |-> Root, by |-> NoOne]
NoRet == [chdir |-> FALSE, cwd |-> Root, exit |-> FALSE, by |-> NoOne]

PipeFiles == {"A", "B"}
NoFile == <<"no file">>
EmptyFile == <<"empty">>

FreeProc ==
    [st |-> "free", prog |-> "", argv |-> <<>>, parent |-> NoPid, own |-> NoOne,
     has_context |-> FALSE, arg |-> <<>>, cwd |-> Root, initial_cwd |-> Root,
     exit |-> FALSE, ok |-> FALSE, stdin |-> "", stdout |-> ""]

FreePids == {p \in Pids : proc[p].st = "free"}
NewPid == Min(FreePids)

\* exit takes a decimal code, 0 if none is given.
ExitCodes == {"0", "1"}
ExitCode(arg) == IF arg = <<>> THEN "0" ELSE arg[1]

Background(own) == <<own[1], 0, 0>>
IsBackground(own) == own[3] = 0

Started(prog, argv, parent, own) ==
    [FreeProc EXCEPT !.st = "start", !.prog = prog, !.argv = argv,
                     !.parent = parent, !.own = own]

\* A program adopts the context file if it names this program; otherwise it
\* runs without arguments in the root directory.
CommandCtxRead(p) ==
    /\ proc[p].st = "start"
    /\ LET mine == ctx # NoCtx /\ ctx.cmd = proc[p].prog
           cwd  == IF mine THEN ctx.cwd ELSE Root
       IN  proc' = [proc EXCEPT ![p] =
               [@ EXCEPT !.st = "run", !.has_context = mine,
                         !.arg = IF mine THEN ctx.arg ELSE <<>>,
                         !.cwd = cwd, !.initial_cwd = cwd]]
    /\ UNCHANGED <<ctx, ret, tmp, session>>

\* What the process leaves behind before it writes its return file.
Finished(p, ok) == [proc[p] EXCEPT !.st = "ret", !.ok = ok]

\* Output goes to the pipe file the process was given, if any.
Emitted(p) ==
    IF proc[p].stdout \in PipeFiles /\ tmp[proc[p].stdout] # NoFile
    THEN [tmp EXCEPT ![proc[p].stdout] = proc[p].own]
    ELSE tmp

RunPlain(p) ==
    /\ proc[p].st = "run"
    /\ proc[p].prog \notin {"cd", "exit", "logout", "bg", "spawn", "exec"}
    /\ \E ok \in BOOLEAN : proc' = [proc EXCEPT ![p] = Finished(p, ok)]
    /\ tmp' = Emitted(p)
    /\ UNCHANGED <<ctx, ret, session>>

RunCd(p) ==
    /\ proc[p].st = "run" /\ proc[p].prog = "cd"
    /\ LET target == IF proc[p].arg = <<>> THEN Root ELSE proc[p].arg[1]
       IN  proc' = [proc EXCEPT ![p] =
                       IF target \in Dirs
                       THEN [Finished(p, TRUE) EXCEPT !.cwd = target]
                       ELSE Finished(p, FALSE)]
    /\ tmp' = Emitted(p)
    /\ UNCHANGED <<ctx, ret, session>>

\* The exit request is only recorded, so the return file is still written.
RunExit(p) ==
    /\ proc[p].st = "run" /\ proc[p].prog = "exit"
    /\ proc' = [proc EXCEPT ![p] =
                   [Finished(p, ExitCode(proc[p].arg) = "0")
                       EXCEPT !.exit = ExitCode(proc[p].arg) \in ExitCodes]]
    /\ tmp' = Emitted(p)
    /\ UNCHANGED <<ctx, ret, session>>

RunLogout(p) ==
    /\ proc[p].st = "run" /\ proc[p].prog = "logout"
    /\ proc' = [proc EXCEPT ![p] = Finished(p, DiskLogin)]
    /\ session' = IF DiskLogin
                  THEN [session EXCEPT ![proc[p].own[1]] = FALSE] ELSE session
    /\ tmp' = Emitted(p)
    /\ UNCHANGED <<ctx, ret>>

\* bg, spawn and exec start the program their argument names; only exec waits
\* for it.  The words after the name are passed as argv.
RunStarter(p) ==
    /\ proc[p].st = "run" /\ proc[p].prog \in {"bg", "spawn", "exec"}
    /\ tmp' = Emitted(p)
    /\ LET arg == proc[p].arg
           can == arg # <<>> /\ arg[1] \in Installed \ {SystemProgram} /\ FreePids # {}
           wait == proc[p].prog = "exec"
           child == Started(arg[1], Tail(arg), IF wait THEN p ELSE NoPid,
                            IF wait THEN proc[p].own ELSE Background(proc[p].own))
       IN  proc' = IF ~can
                   THEN [proc EXCEPT ![p] = Finished(p, FALSE)]
                   ELSE [proc EXCEPT ![NewPid] = child,
                                     ![p] = IF wait THEN [@ EXCEPT !.st = "wait"]
                                            ELSE Finished(p, TRUE)]
    /\ UNCHANGED <<ctx, ret, session>>

\* exec's child has ended.
StarterResumes(p) ==
    /\ proc[p].st = "wait"
    /\ \E c \in Pids :
         /\ proc[c].parent = p /\ proc[c].st = "done"
         /\ proc' = [proc EXCEPT ![p] = Finished(p, proc[c].ok), ![c] = FreeProc]
    /\ UNCHANGED <<ctx, ret, tmp, session>>

\* The program writes the return file, if it had adopted a context, and ends.
\* A background process leaves the table at once, the others when their parent
\* has seen their status.
Ended(p, ok) ==
    IF proc[p].parent = NoPid /\ IsBackground(proc[p].own)
    THEN FreeProc
    ELSE [proc[p] EXCEPT !.st = "done", !.ok = ok]

CommandRetWrite(p) ==
    /\ proc[p].st = "ret"
    /\ LET content == [chdir |-> proc[p].cwd # proc[p].initial_cwd, cwd |-> proc[p].cwd,
                       exit |-> proc[p].exit, by |-> proc[p].own]
       IN  \/ ret' = IF proc[p].has_context THEN content ELSE ret
           \/ "ret" \in Faults /\ ret' = ret
    /\ proc' = [proc EXCEPT ![p] = Ended(p, proc[p].ok)]
    /\ UNCHANGED <<ctx, tmp, session>>

\* Killed by a signal before it could write its return file.  A program that
\* waits for its own child is not killed here: the child would run on with
\* nobody to wait for it.
Killed(p) ==
    /\ "kill" \in Faults
    /\ proc[p].st \in {"start", "run", "ret"}
    /\ proc' = [proc EXCEPT ![p] = Ended(p, FALSE)]
    /\ UNCHANGED <<ctx, ret, tmp, session>>

ProcStep(p) ==
    \/ CommandCtxRead(p) \/ RunPlain(p) \/ RunCd(p) \/ RunExit(p) \/ RunLogout(p)
    \/ RunStarter(p) \/ StarterResumes(p) \/ CommandRetWrite(p)
=============================================================================
