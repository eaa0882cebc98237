---------------------------- MODULE CommandExec ----------------------------
(***************************************************************************)
(* The launchers: the Rust user shell (runner.rs, script.rs, pipeline.rs,   *)
(* exec.rs, auth.rs) and the other programs that run commands for a user    *)
(* (rshd, the graphical terminal, webconsole).  Each takes a line, writes   *)
(* the context file, starts the program, waits for it and applies what it   *)
(* left in the return file.  The shell also runs scripts and pipelines,     *)
(* whose stages are connected by two files under /temp.                     *)
(***************************************************************************)
EXTENDS Programs

CONSTANTS
    Launchers,            \* processes that start programs for a user
    Kind,                 \* [Launchers -> Kinds]
    Words,                \* words that occur in a line
    Lines,                \* [Launchers -> the lines its user may submit]
    Startup,              \* lines a shell may find in its start arguments
    Scripts,              \* [names of scripts -> their lines]
    PIPELINE_MAX_STAGES,
    MaxLines              \* bound: lines run per launcher

Kinds == {"shell", "rshd", "terminal", "webconsole"}

\* A line is the sequence of its stages; an empty program name stands for a
\* stage the parser refuses.  The empty sequence marks the end of a script.
ScriptEnd == <<>>
Stages == [prog : Words \cup {""}, arg : Seq(Words), redir : {"none", "trunc", "append"}]
CommandLines == Seq(Stages) \ {ScriptEnd}

ASSUME ExecAssumption ==
    /\ Kind \in [Launchers -> Kinds]
    /\ \A l \in Launchers :
         /\ Lines[l] \subseteq CommandLines
         /\ Kind[l] # "shell" => \A line \in Lines[l] : Len(line) = 1
    /\ Startup \subseteq Seq(CommandLines)
    /\ \A s \in DOMAIN Scripts : Scripts[s] \in Seq(CommandLines)
    /\ PIPELINE_MAX_STAGES \in Nat \ {0} /\ MaxLines \in Nat

VARIABLE sh    \* the launchers

files == <<ctx, ret, tmp>>
vars == <<ctx, ret, tmp, proc, session, sh>>

Home == "/home"    \* of the user who logs in
HomeDir == IF Home \in Dirs THEN Home ELSE Root

IsShell(l) == Kind[l] = "shell"
HasMeta(line) == Len(line) > 1 \/ line[1].redir # "none"
ParsePipeline(line) ==
    Len(line) <= PIPELINE_MAX_STAGES /\ \A i \in 1..Len(line) : line[i].prog # ""

\* The stage launcher l is at, and whose work it is.
Stage(l) == sh[l].stages[sh[l].i]
Owner(l) == <<l, sh[l].total, sh[l].i>>

At(l, pc) == sh[l].pc = pc
Goto(l, pc) == sh' = [sh EXCEPT ![l].pc = pc]

\* Mutant: a command that is not found is not counted as a failure.
CountedUnknownApart(s, result) ==
    [s EXCEPT !.pc = "prompt", !.stages = <<>>, !.i = 0, !.input = "",
              !.result = result,
              !.total = @ + 1,
              !.ok = IF result = "ok" THEN @ + 1 ELSE @,
              !.fail = IF result = "fail" THEN @ + 1 ELSE @,
              !.unknown = IF result = "unknown" THEN @ + 1 ELSE @]

\* The end of execute_line: the counters, and back to the caller's loop.
Counted(s, result) ==
    [s EXCEPT !.pc = "prompt", !.stages = <<>>, !.i = 0, !.input = "",
              !.result = result,
              !.total = @ + 1,
              !.ok = IF result = "ok" THEN @ + 1 ELSE @,
              !.fail = IF result # "ok" THEN @ + 1 ELSE @,
              !.unknown = IF result = "unknown" THEN @ + 1 ELSE @]

ChangeDir(s, target) ==
    IF target \in Dirs THEN Counted([s EXCEPT !.cwd = target], "ok") ELSE Counted(s, "fail")

-----------------------------------------------------------------------------
(* execute_line: what is run next.                                         *)

\* The next line of a script or of the start arguments, else of the user.
Offered(l) == IF sh[l].todo # <<>> THEN {Head(sh[l].todo)} ELSE Lines[l]
Rest(l) == IF sh[l].todo # <<>> THEN Tail(sh[l].todo) ELSE <<>>

Ready(l) == At(l, "prompt") /\ ~sh[l].exit /\ sh[l].total < MaxLines

\* builtin_source: the lines of the script are run, then source itself counts.
SourceScript(s, arg) ==
    IF Len(arg) = 1 /\ arg[1] \in DOMAIN Scripts /\ Scripts[arg[1]] # <<>>
    THEN [s EXCEPT !.todo = Scripts[arg[1]] \o <<ScriptEnd>> \o @]
    ELSE Counted(s, "fail")

Quiet == {"pwd", "clear", "help", "shstat"}
ShellBuiltins == {"exit", "cd", "logout", "source"} \cup Quiet

\* run_builtin, all but logout.
RunBuiltin(s, prog, arg) ==
    IF prog = "exit" THEN IF ExitCode(arg) \in ExitCodes
                          THEN Counted([s EXCEPT !.exit = TRUE], "ok") ELSE Counted(s, "fail")
    ELSE IF prog = "cd" THEN ChangeDir(s, IF arg = <<>> THEN Root ELSE arg[1])
    ELSE IF prog = "source" THEN SourceScript(s, arg)
    ELSE Counted(s, "ok")

ShellBuiltin(l) ==
    /\ IsShell(l) /\ Ready(l)
    /\ \E line \in Offered(l) :
         /\ line # ScriptEnd /\ ~HasMeta(line)
         /\ line[1].prog \in ShellBuiltins \ {"logout"}
         /\ sh' = [sh EXCEPT ![l] =
                      RunBuiltin([@ EXCEPT !.todo = Rest(l)], line[1].prog, line[1].arg)]
    /\ UNCHANGED <<files, proc, session>>

ShellLogout(l) ==
    /\ IsShell(l) /\ Ready(l)
    /\ \E line \in Offered(l) :
         /\ line # ScriptEnd /\ ~HasMeta(line) /\ line[1].prog = "logout"
         /\ sh' = [sh EXCEPT ![l] =
                      LET s == [@ EXCEPT !.todo = Rest(l)]
                      IN  IF DiskLogin
                          THEN [s EXCEPT !.logged_in = FALSE, !.pc = "login"]
                          ELSE Counted(s, "fail")]
    /\ session' = IF DiskLogin THEN [session EXCEPT ![l] = FALSE] ELSE session
    /\ UNCHANGED <<files, proc>>

\* A single external command without redirection.
ShellExternal(l) ==
    /\ IsShell(l) /\ Ready(l)
    /\ \E line \in Offered(l) :
         /\ line # ScriptEnd /\ ~HasMeta(line) /\ line[1].prog \notin ShellBuiltins
         /\ sh' = [sh EXCEPT ![l].todo = Rest(l), ![l].stages = line, ![l].i = 1,
                             ![l].pc = "lookup"]
    /\ UNCHANGED <<files, proc, session>>

\* execute_pipeline starts from two missing pipe files.
ShellPipeline(l) ==
    /\ IsShell(l) /\ Ready(l)
    /\ \E line \in Offered(l) :
         /\ line # ScriptEnd /\ HasMeta(line)
         /\ sh' = [sh EXCEPT ![l] =
                      LET s == [@ EXCEPT !.todo = Rest(l)]
                      IN  IF ParsePipeline(line)
                          THEN [s EXCEPT !.stages = line, !.i = 1, !.toggle = "A",
                                         !.input = "", !.pc = "stage"]
                          ELSE Counted(s, "fail")]
    /\ tmp' = [f \in PipeFiles |-> NoFile]
    /\ UNCHANGED <<ctx, ret, proc, session>>

\* run_script_file is done, so source is.
ScriptReturns(l) ==
    /\ At(l, "prompt") /\ ~sh[l].exit
    /\ sh[l].todo # <<>> /\ Head(sh[l].todo) = ScriptEnd
    /\ sh' = [sh EXCEPT ![l] = Counted([@ EXCEPT !.todo = Rest(l)], "ok")]
    /\ UNCHANGED <<files, proc, session>>

\* exit_requested ends the scripts that are running, each a source that counts
\* as a success, and then the main loop.
LauncherExits(l) ==
    /\ At(l, "prompt") /\ sh[l].exit
    /\ LET open == Cardinality({j \in 1..Len(sh[l].todo) : sh[l].todo[j] = ScriptEnd})
       IN  sh' = [sh EXCEPT ![l].pc = "exited", ![l].todo = <<>>,
                            ![l].total = @ + open, ![l].ok = @ + open]
    /\ UNCHANGED <<files, proc, session>>

-----------------------------------------------------------------------------
(* The other launchers: one external command at a time, no pipelines.      *)

DaemonBuiltins(l) ==
    CASE Kind[l] = "rshd"       -> {"exit", "cd", "pwd", "help"}
      [] Kind[l] = "terminal"   -> {"exit", "cd", "pwd", "help", "clear"}
      [] Kind[l] = "webconsole" -> {"cd", "pwd", "help"}

\* webconsole takes the directory of each request from the request.
RequestDirs(l) == IF Kind[l] = "webconsole" THEN Dirs ELSE {sh[l].cwd}

DaemonBuiltin(l) ==
    /\ ~IsShell(l) /\ Ready(l)
    /\ \E line \in Lines[l] :
         /\ line[1].prog \in DaemonBuiltins(l)
         /\ LET target == IF line[1].arg = <<>> THEN Root ELSE line[1].arg[1]
            IN  sh' = [sh EXCEPT ![l] =
                    IF line[1].prog = "exit" THEN Counted([@ EXCEPT !.exit = TRUE], "ok")
                    ELSE IF line[1].prog = "cd" /\ Kind[l] # "webconsole" THEN ChangeDir(@, target)
                    ELSE Counted(@, "ok")]
    /\ UNCHANGED <<files, proc, session>>

DaemonExternal(l) ==
    /\ ~IsShell(l) /\ Ready(l)
    /\ \E line \in Lines[l], d \in RequestDirs(l) :
         /\ line[1].prog \notin DaemonBuiltins(l)
         /\ sh' = [sh EXCEPT ![l].stages = line, ![l].i = 1, ![l].cwd = d,
                             ![l].pc = "lookup"]
    /\ UNCHANGED <<files, proc, session>>

-----------------------------------------------------------------------------
(* execute_pipeline: the files of one stage.                               *)

Last(l) == sh[l].i = Len(sh[l].stages)

\* Returns that do not remove the pipe files.
PipelineRefuses(l) ==
    /\ At(l, "stage")
    /\ ~Last(l) /\ Stage(l).redir # "none"
    /\ sh' = [sh EXCEPT ![l] = Counted(@, "fail")]
    /\ UNCHANGED <<files, proc, session>>

\* Mutant: an output that cannot be opened leaves the input open.
StageOpenFailsLeaks(l) ==
    /\ At(l, "stage") /\ (Last(l) \/ Stage(l).redir = "none")
    /\ "open" \in Faults /\ HasMeta(sh[l].stages)
    /\ sh' = [sh EXCEPT ![l] = Counted([@ EXCEPT !.fds =
                                    IF sh[l].input # "" THEN {"in"} ELSE {}], "fail")]
    /\ UNCHANGED <<files, proc, session>>

\* The input cannot be opened, or the output cannot: then the input is closed.
StageOpenFails(l) ==
    /\ At(l, "stage") /\ (Last(l) \/ Stage(l).redir = "none")
    /\ \/ "open" \in Faults /\ (sh[l].input # "" \/ HasMeta(sh[l].stages))
       \/ sh[l].input # "" /\ tmp[sh[l].input] = NoFile
    /\ sh' = [sh EXCEPT ![l] = Counted([@ EXCEPT !.fds = {}], "fail")]
    /\ UNCHANGED <<files, proc, session>>

\* The output of a stage that is not the last goes to a fresh pipe file.
StageOpen(l) ==
    /\ At(l, "stage") /\ (Last(l) \/ Stage(l).redir = "none")
    /\ sh[l].input # "" => tmp[sh[l].input] # NoFile
    /\ LET ins == IF sh[l].input # "" THEN {"in"} ELSE {}
           outs == IF ~Last(l) \/ Stage(l).redir # "none" THEN {"out"} ELSE {}
       IN  sh' = [sh EXCEPT ![l].fds = ins \cup outs, ![l].pc = "lookup"]
    /\ tmp' = IF Last(l) THEN tmp ELSE [tmp EXCEPT ![sh[l].toggle] = EmptyFile]
    /\ UNCHANGED <<ctx, ret, proc, session>>

-----------------------------------------------------------------------------
(* exec_external_with_fds and its counterparts, call by call.              *)

Result(l, result) == sh' = [sh EXCEPT ![l].result = result, ![l].pc = "close"]

\* rshd and the terminal do not refuse the programs of /system.
Refused(l) == Stage(l).prog = SystemProgram /\ Kind[l] \in {"shell", "webconsole"}

\* resolve_exec_path and the checks that follow it.
LookUp(l) ==
    /\ At(l, "lookup")
    /\ \/ Refused(l) /\ Result(l, "fail")
       \/ ~Refused(l) /\ Stage(l).prog \notin Installed /\ Result(l, "unknown")
       \/ /\ ~Refused(l) /\ Stage(l).prog \in Installed
          /\ Goto(l, IF IsShell(l) THEN "reset" ELSE "drop")
    /\ UNCHANGED <<files, proc, session>>

\* The others capture the output of the program, in a file or in a terminal.
CaptureFails(l) ==
    /\ At(l, "drop") /\ "open" \in Faults
    /\ Result(l, "fail")
    /\ UNCHANGED <<files, proc, session>>

\* Only the shell leaves an old context file in place.
DropContext(l) ==
    /\ At(l, "drop")
    /\ ctx' = NoCtx
    /\ Goto(l, "reset")
    /\ UNCHANGED <<ret, tmp, proc, session>>

CommandRetReset(l) ==
    /\ At(l, "reset")
    /\ ret' = NoRet
    /\ Goto(l, "context")
    /\ UNCHANGED <<ctx, tmp, proc, session>>

\* Mutant: an unchanged command is not written again.
CommandCtxWriteCached(l) ==
    /\ At(l, "context")
    /\ ctx' = IF ctx.cmd = Stage(l).prog THEN ctx
              ELSE [cmd |-> Stage(l).prog, arg |-> Stage(l).arg, cwd |-> Root,
                    by |-> Owner(l)]
    /\ Goto(l, "exec")
    /\ UNCHANGED <<ret, tmp, proc, session>>

CommandCtxWrite(l) ==
    /\ At(l, "context")
    /\ \/ /\ ctx' = [cmd |-> Stage(l).prog, arg |-> Stage(l).arg, cwd |-> sh[l].cwd,
                     by |-> Owner(l)]
          /\ Goto(l, "exec")
       \/ "ctx" \in Faults /\ ctx' = ctx /\ Result(l, "fail")
    /\ UNCHANGED <<ret, tmp, proc, session>>

\* The child gets the stage's files and the launcher waits for it.
ExecPathv(l) ==
    /\ At(l, "exec")
    /\ FreePids # {}
    /\ LET child == Started(Stage(l).prog, Stage(l).arg, NoPid, Owner(l))
       IN  proc' = [proc EXCEPT ![NewPid] =
               [child EXCEPT !.stdin = sh[l].input,
                             !.stdout = IF Last(l) THEN "" ELSE sh[l].toggle]]
    /\ Goto(l, "wait")
    /\ UNCHANGED <<files, session>>

\* Mutant: a program that did not start is waited for.
ExecFailsUnseen(l) ==
    /\ At(l, "exec")
    /\ "exec" \in Faults \/ FreePids = {}
    /\ Goto(l, "wait")
    /\ UNCHANGED <<files, proc, session>>

\* The environment is too long or the kernel refuses: the shell and the
\* terminal skip the return file, rshd and webconsole do not.
ExecFails(l) ==
    /\ At(l, "exec")
    /\ "exec" \in Faults \/ FreePids = {}
    /\ sh' = [sh EXCEPT ![l].result = "fail",
                        ![l].pc = IF IsShell(l) THEN "abort"
                                  ELSE IF Kind[l] = "terminal" THEN "rmctx" ELSE "apply"]
    /\ UNCHANGED <<files, proc, session>>

AbortRemovesContext(l) ==
    /\ At(l, "abort")
    /\ ctx' = NoCtx
    /\ Goto(l, "close")
    /\ UNCHANGED <<ret, tmp, proc, session>>

\* Mutant: the launcher does not wait for the program to end.
WaitedNot(l) ==
    /\ At(l, "wait")
    /\ sh' = [sh EXCEPT ![l].result = "ok", ![l].pc = "apply"]
    /\ UNCHANGED <<files, proc, session>>

Waited(l) ==
    /\ At(l, "wait")
    /\ \E p \in Pids :
         /\ proc[p].st = "done" /\ proc[p].parent = NoPid /\ proc[p].own = Owner(l)
         /\ sh' = [sh EXCEPT ![l].result = IF proc[p].ok THEN "ok" ELSE "fail",
                             ![l].pc = "apply"]
         /\ proc' = [proc EXCEPT ![p] = FreeProc]
    /\ UNCHANGED <<files, session>>

\* Mutant: the last program decides, so a later stage takes an exit back.
ApplyCommandRetOverwrites(l) ==
    /\ At(l, "apply")
    /\ sh' = [sh EXCEPT ![l].cwd = IF ret.chdir THEN ret.cwd ELSE @,
                        ![l].exit = ret.exit,
                        ![l].pc = IF IsShell(l) /\ sh[l].fds = {} THEN "sync" ELSE "rmctx"]
    /\ UNCHANGED <<files, proc, session>>

\* webconsole only shows what the return file says.
ApplyCommandRet(l) ==
    /\ At(l, "apply")
    /\ sh' = [sh EXCEPT ![l].cwd = IF ret.chdir /\ Kind[l] # "webconsole" THEN ret.cwd ELSE @,
                        ![l].exit = @ \/ (ret.exit /\ Kind[l] # "webconsole"),
                        ![l].pc = IF IsShell(l) /\ sh[l].fds = {} THEN "sync" ELSE "rmctx"]
    /\ UNCHANGED <<files, proc, session>>

\* sync_user_state_after_external, only when nothing was redirected.
SyncUserState(l) ==
    /\ At(l, "sync")
    /\ \/ session[l] /\ sh' = [sh EXCEPT ![l].logged_in = TRUE, ![l].pc = "rmctx"]
             /\ UNCHANGED session
       \/ /\ ~session[l] /\ DiskLogin
          /\ sh' = [sh EXCEPT ![l].logged_in = FALSE, ![l].pc = "login"]
          /\ UNCHANGED session
    /\ UNCHANGED <<files, proc>>

\* login_if_needed asks until somebody logs in: from logout (no stage), from
\* sync_user_state_after_external, or when the shell starts.
Login(l) ==
    /\ At(l, "login")
    /\ session' = [session EXCEPT ![l] = TRUE]
    /\ sh' = [sh EXCEPT ![l] =
                 LET s == [@ EXCEPT !.logged_in = TRUE, !.cwd = HomeDir]
                 IN  IF s.stages # <<>> THEN [s EXCEPT !.pc = "rmctx"]
                     ELSE Counted(s, "ok")]
    /\ UNCHANGED <<files, proc>>

RemoveCtx(l) ==
    /\ At(l, "rmctx")
    /\ ctx' = NoCtx
    /\ Goto(l, "rmret")
    /\ UNCHANGED <<ret, tmp, proc, session>>

RemoveRet(l) ==
    /\ At(l, "rmret")
    /\ ret' = NoRet
    /\ Goto(l, "close")
    /\ UNCHANGED <<ctx, tmp, proc, session>>

\* Mutant: the pipe files do not alternate.
StageDoneSameFile(l) ==
    /\ At(l, "close")
    /\ sh' = [sh EXCEPT ![l] =
                 LET s == [@ EXCEPT !.fds = {}]
                 IN  IF s.result = "ok" /\ ~Last(l)
                     THEN [s EXCEPT !.input = s.toggle, !.i = @ + 1, !.pc = "stage"]
                     ELSE Counted(s, s.result)]
    /\ UNCHANGED <<files, proc, session>>

\* Back in execute_pipeline, or in execute_line for a single command: the files
\* of the stage are closed, and the next stage reads what this one wrote.
StageDone(l) ==
    /\ At(l, "close")
    /\ sh' = [sh EXCEPT ![l] =
                 LET s == [@ EXCEPT !.fds = {}]
                 IN  IF s.result = "ok" /\ ~Last(l)
                     THEN [s EXCEPT !.input = s.toggle, !.i = @ + 1, !.pc = "stage",
                                    !.toggle = IF @ = "A" THEN "B" ELSE "A"]
                     ELSE Counted(s, s.result)]
    /\ tmp' = IF HasMeta(sh[l].stages) /\ (sh[l].result # "ok" \/ Last(l))
              THEN [f \in PipeFiles |-> NoFile] ELSE tmp
    /\ UNCHANGED <<ctx, ret, proc, session>>

-----------------------------------------------------------------------------
\* The shell starts in the directory its environment names.
StartDirs(l) == IF IsShell(l) THEN Dirs ELSE IF Kind[l] = "rshd" THEN {HomeDir} ELSE {Root}

Boot(l) ==
    /\ At(l, "boot")
    /\ \E d \in StartDirs(l), t \in (IF IsShell(l) THEN Startup ELSE {<<>>}) :
         sh' = [sh EXCEPT ![l].cwd = d, ![l].todo = t, ![l].logged_in = TRUE, ![l].pc = "prompt"]
    /\ session' = [session EXCEPT ![l] = TRUE]
    /\ UNCHANGED <<files, proc>>

InitLauncher ==
    [pc |-> "boot", cwd |-> Root, exit |-> FALSE, logged_in |-> FALSE, todo |-> <<>>,
     stages |-> <<>>, i |-> 0, toggle |-> "A", input |-> "", fds |-> {}, result |-> "ok",
     total |-> 0, ok |-> 0, fail |-> 0, unknown |-> 0]

Init ==
    /\ ctx = NoCtx /\ ret = NoRet
    /\ tmp = [f \in PipeFiles |-> NoFile]
    /\ proc = [p \in Pids |-> FreeProc]
    /\ session = [l \in Launchers |-> FALSE]
    /\ sh = [l \in Launchers |-> InitLauncher]

LauncherStep(l) ==
    \/ Boot(l)
    \/ ScriptReturns(l) \/ LauncherExits(l)
    \/ PipelineRefuses(l) \/ StageOpenFails(l) \/ StageOpen(l)
    \/ LookUp(l) \/ CaptureFails(l) \/ DropContext(l) \/ CommandRetReset(l) \/ CommandCtxWrite(l)
    \/ ExecPathv(l) \/ ExecFails(l) \/ AbortRemovesContext(l) \/ Waited(l)
    \/ ApplyCommandRet(l) \/ SyncUserState(l) \/ RemoveCtx(l) \/ RemoveRet(l)
    \/ StageDone(l)

\* What only the user does.
UserStep(l) ==
    \/ ShellBuiltin(l) \/ ShellLogout(l) \/ ShellExternal(l) \/ ShellPipeline(l)
    \/ DaemonBuiltin(l) \/ DaemonExternal(l) \/ Login(l)

ProgramStep(p) == ProcStep(p) /\ UNCHANGED sh
KillStep(p) == Killed(p) /\ UNCHANGED sh

Next ==
    \/ \E l \in Launchers : LauncherStep(l) \/ UserStep(l)
    \/ \E p \in Pids : ProgramStep(p) \/ KillStep(p)

Spec == Init /\ [][Next]_vars

\* Every process that can run is scheduled, programs end, and launchers carry on;
\* nobody has to type or to log in.
Fairness ==
    /\ \A l \in Launchers : WF_vars(LauncherStep(l))
    /\ \A p \in Pids : WF_vars(ProgramStep(p))

FairSpec == Spec /\ Fairness

-----------------------------------------------------------------------------
(* Properties.                                                             *)

Pcs == {"boot", "prompt", "exited", "stage", "lookup", "drop", "reset", "context",
        "exec", "abort", "wait", "apply", "sync", "login", "rmctx", "rmret", "close"}

\* Every launcher and every process has its type.
TypeOK ==
    /\ \A l \in Launchers :
         /\ sh[l].pc \in Pcs /\ sh[l].cwd \in Dirs
         /\ sh[l].exit \in BOOLEAN /\ sh[l].logged_in \in BOOLEAN
         /\ sh[l].i \in 0..Len(sh[l].stages) /\ sh[l].fds \subseteq {"in", "out"}
         /\ sh[l].input \in PipeFiles \cup {""} /\ sh[l].toggle \in PipeFiles
         /\ sh[l].result \in {"ok", "fail", "unknown"}
         /\ sh[l].total = sh[l].ok + sh[l].fail /\ sh[l].unknown <= sh[l].fail
    /\ \A p \in Pids :
         /\ proc[p].st \in {"free", "start", "run", "wait", "ret", "done"}
         /\ proc[p].parent \in Pids \cup {NoPid} /\ proc[p].cwd \in Dirs
    /\ session \in [Launchers -> BOOLEAN]

Foreground(p) == proc[p].st # "free" /\ proc[p].parent = NoPid /\ ~IsBackground(proc[p].own)
Running(p) == proc[p].st \in {"run", "wait", "ret"}

\* The program a launcher started works on the arguments and in the directory
\* of that very command: what CommandCtxWrite wrote is still there when the
\* program reads it.
ContextReachesCommand ==
    \A p \in Pids : Foreground(p) /\ Running(p) =>
        /\ proc[p].has_context /\ proc[p].arg = proc[p].argv
        /\ proc[p].initial_cwd = sh[proc[p].own[1]].cwd

\* Every program started with arguments works on them, whoever started it.
StartedWithArguments ==
    \A p \in Pids : Running(p) => proc[p].arg = proc[p].argv

\* The return file a launcher is about to apply was written for the command
\* that has just ended, never left over from another: killed programs, failed
\* writes and failed starts included.
ReturnIsOwn ==
    \A l \in Launchers : At(l, "apply") /\ ret # NoRet => ret.by = Owner(l)

\* A stage of a pipeline reads what the stage before it wrote, all of it,
\* through the alternating pipe files.
PipeConnects ==
    \A p \in Pids :
        Foreground(p) /\ proc[p].st \in {"start", "run"} /\ proc[p].stdin # "" =>
            tmp[proc[p].stdin] = <<proc[p].own[1], proc[p].own[2], proc[p].own[3] - 1>>

\* Whatever goes wrong, no file of a pipeline is still open when the launcher
\* takes its next line (execute_pipeline has a return for every failure).
NothingLeftOpen ==
    \A l \in Launchers : sh[l].pc \in {"prompt", "exited"} => sh[l].fds = {}

\* A launcher that waits for a program takes the next line, exits, or asks for a
\* login: no program, background job or missing file keeps it.
PromptReturns ==
    \A l \in Launchers : At(l, "wait") ~> sh[l].pc \in {"prompt", "exited", "login"}

\* Once exit was requested, in a script or a pipeline or by a program, the
\* launcher ends, unless somebody has to log in first.
ExitHappens ==
    \A l \in Launchers : sh[l].exit ~> sh[l].pc \in {"exited", "login"}
=============================================================================
