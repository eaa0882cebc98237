-------------------------- MODULE CommandExec_proof --------------------------
(***************************************************************************)
(* Theorems about the launchers for every set of directories, programs,     *)
(* lines and faults.  Types and what is open hold for any number of         *)
(* launchers; that the context file, the return file and the pipe files     *)
(* connect the right commands holds for one launcher at a time: they have   *)
(* fixed names, so that two launchers overwrite each other's.               *)
(***************************************************************************)
EXTENDS CommandExec, FiniteSetTheorems, SequenceTheorems, WellFoundedInduction, TLAPS

(* Types.                                                                  *)

Owners == Launchers \X Nat \X Nat
Results == {"ok", "fail", "unknown"}

LauncherState ==
    [pc : Pcs, cwd : Dirs, exit : BOOLEAN, logged_in : BOOLEAN,
     todo : Seq(CommandLines \cup {ScriptEnd}), stages : Seq(Stages), i : Nat,
     toggle : PipeFiles, input : PipeFiles \cup {""}, fds : SUBSET {"in", "out"},
     result : Results, total : Nat, ok : Nat, fail : Nat, unknown : Nat]

\* Between the start of a line and its end the launcher is at one of its stages.
AtStage ==
    {"stage", "lookup", "drop", "reset", "context", "exec", "abort", "wait", "apply", "sync",
     "rmctx", "rmret", "close"}

\* Where no file of a stage can be open.
AllClosed == {"boot", "prompt", "exited", "stage", "sync", "login"}

Counters(s) == s.total = s.ok + s.fail /\ s.unknown <= s.fail
StageInLine(s) ==
    /\ s.i <= Len(s.stages)
    /\ s.pc \in AtStage \/ s.stages # <<>> => s.i >= 1
FilesClosed(s) == s.pc \in AllClosed => s.fds = {}
Between(s) == s.pc \in {"boot", "prompt", "exited"} => s.stages = <<>> /\ s.i = 0 /\ s.input = ""

LauncherTyped(s) ==
    s \in LauncherState /\ Counters(s) /\ StageInLine(s) /\ FilesClosed(s) /\ Between(s)

\* The name of a program, or none.
Names == Words \cup {""}

ProcState ==
    [st : {"free", "start", "run", "wait", "ret", "done"}, prog : Names, argv : Seq(Words),
     parent : Pids \cup {NoPid}, own : Owners \cup {NoOne}, has_context : BOOLEAN,
     arg : Seq(Words), cwd : Dirs, initial_cwd : Dirs, exit : BOOLEAN, ok : BOOLEAN,
     stdin : PipeFiles \cup {""}, stdout : PipeFiles \cup {""}]

\* Every process in the table works for some launcher.
ProcTyped(p) == p \in ProcState /\ (p.st # "free" => p.own \in Owners)

LaunchersOK == sh \in [Launchers -> LauncherState] /\ \A l \in Launchers : LauncherTyped(sh[l])
ProcsOK == proc \in [Pids -> ProcState] /\ \A p \in Pids : ProcTyped(proc[p])
FilesOK ==
    /\ ctx \in [cmd : Names, arg : Seq(Words), cwd : Dirs, by : Owners \cup {NoOne}]
    /\ ret \in [chdir : BOOLEAN, cwd : Dirs, exit : BOOLEAN, by : Owners \cup {NoOne}]
    /\ tmp \in [PipeFiles -> Owners \cup {NoFile, EmptyFile}]

Typed == LaunchersOK /\ ProcsOK /\ FilesOK /\ session \in [Launchers -> BOOLEAN]

-----------------------------------------------------------------------------
(* The launchers' side.                                                    *)

\* A launcher that goes from one well-typed state to another.
LEMMA LauncherMoves ==
    ASSUME LaunchersOK, NEW l \in Launchers, NEW n, LauncherTyped(n), sh' = [sh EXCEPT ![l] = n]
    PROVE  LaunchersOK'
BY DEF LaunchersOK, LauncherTyped

\* Launcher l is between two lines, at its prompt or where it asks for a login;
\* it is at the first stage of a line; it is still at the same stage.
LineEnded(l) ==
    /\ sh'[l].pc \in {"prompt", "exited", "login"}
    /\ sh'[l].stages = <<>> /\ sh'[l].i = 0 /\ sh'[l].input = ""
LineBegun(l) ==
    /\ sh'[l].pc \in {"stage", "lookup"}
    /\ sh'[l].i = 1 /\ sh'[l].input = "" /\ sh'[l].stages \in CommandLines
    /\ sh'[l].pc = "lookup" => Len(sh'[l].stages) = 1
StageKept(l) ==
    /\ sh'[l].stages = sh[l].stages /\ sh'[l].i = sh[l].i /\ sh'[l].total = sh[l].total
    /\ sh'[l].toggle = sh[l].toggle /\ sh'[l].input = sh[l].input

\* The end of a line.
LEMMA CountedTyped ==
    ASSUME NEW s \in LauncherState, Counters(s), NEW r \in Results, s.fds = {}
    PROVE  LauncherTyped(Counted(s, r)) /\ Counted(s, r).pc = "prompt"
<1> DEFINE pc == "prompt" i == 0 total == s.total + 1 none == <<>> input == ""
           ok == IF r = "ok" THEN s.ok + 1 ELSE s.ok
           fail == IF r # "ok" THEN s.fail + 1 ELSE s.fail
           unknown == IF r = "unknown" THEN s.unknown + 1 ELSE s.unknown
           c == Counted(s, r)
<1>1. s.total \in Nat /\ s.ok \in Nat /\ s.fail \in Nat /\ s.unknown \in Nat
  BY DEF LauncherState
<1>2. /\ ok \in Nat /\ fail \in Nat /\ unknown \in Nat /\ total \in Nat
      /\ total = ok + fail /\ unknown <= fail
  BY <1>1 DEF Counters, Results
<1>3. pc \in Pcs /\ none \in Seq(Stages) /\ i \in Nat /\ input \in PipeFiles \cup {""}
  BY DEF Pcs
<1>4. c = [s EXCEPT !.pc = pc, !.stages = none, !.i = i, !.input = input, !.result = r,
                    !.total = total, !.ok = ok, !.fail = fail, !.unknown = unknown]
  BY Zenon DEF Counted
<1>5. pc = "prompt" /\ i = 0 /\ none = <<>> /\ input = ""
  OBVIOUS
<1> HIDE DEF pc, i, none, input, total, ok, fail, unknown, c
<1>6. /\ c \in LauncherState
      /\ c.pc = pc /\ c.stages = none /\ c.i = i /\ c.input = input /\ c.fds = s.fds
      /\ c.total = total /\ c.ok = ok /\ c.fail = fail /\ c.unknown = unknown
  BY <1>2, <1>3, <1>4 DEF LauncherState
<1>7. Counters(c)
  BY <1>2, <1>6 DEF Counters
<1>8. StageInLine(c) /\ FilesClosed(c)
  <2>1. c.pc = "prompt" /\ c.i = 0 /\ c.stages = <<>> /\ c.fds = {}
    BY <1>5, <1>6
  <2> QED BY <2>1 DEF StageInLine, FilesClosed, AtStage
<1>9. Between(c)
  BY <1>5, <1>6, Zenon DEF Between
<1> QED BY <1>5, <1>6, <1>7, <1>8, <1>9 DEF LauncherTyped, c

\* A step that brings launcher l to its prompt.
LEMMA PromptReached ==
    ASSUME LaunchersOK, NEW l \in Launchers, NEW n, LauncherTyped(n), n.pc = "prompt",
           sh' = [sh EXCEPT ![l] = n]
    PROVE  LaunchersOK' /\ LineEnded(l)
<1>1. LaunchersOK' /\ sh'[l] = n
  BY LauncherMoves DEF LaunchersOK
<1> QED BY <1>1 DEF LineEnded, LauncherTyped, Between

LEMMA LineEnds ==
    ASSUME LaunchersOK, NEW l \in Launchers, NEW s \in LauncherState, Counters(s), s.fds = {},
           NEW r \in Results, sh' = [sh EXCEPT ![l] = Counted(s, r)]
    PROVE  LaunchersOK' /\ LineEnded(l)
<1> DEFINE n == Counted(s, r)
<1>1. LauncherTyped(n) /\ n.pc = "prompt"
  BY CountedTyped
<1>2. sh' = [sh EXCEPT ![l] = n]
  OBVIOUS
<1> HIDE DEF n
<1> QED BY <1>1, <1>2, PromptReached

\* A step within a stage.
LEMMA Goes ==
    ASSUME LaunchersOK, NEW l \in Launchers, sh[l].pc \in AtStage, NEW pc \in AtStage, Goto(l, pc),
           pc \in AllClosed => sh[l].fds = {}
    PROVE  /\ LaunchersOK' /\ StageKept(l) /\ sh'[l].pc = pc
           /\ sh'[l].cwd = sh[l].cwd /\ sh'[l].result = sh[l].result
<1> DEFINE n == [sh[l] EXCEPT !.pc = pc]
<1>1. LauncherTyped(sh[l])
  BY DEF LaunchersOK
<1>2. pc \in Pcs
  BY DEF AtStage, Pcs
<1>3. /\ n \in LauncherState /\ n.pc = pc /\ n.stages = sh[l].stages /\ n.i = sh[l].i
      /\ n.total = sh[l].total /\ n.toggle = sh[l].toggle /\ n.input = sh[l].input
      /\ n.cwd = sh[l].cwd /\ n.result = sh[l].result /\ n.fds = sh[l].fds
      /\ n.ok = sh[l].ok /\ n.fail = sh[l].fail /\ n.unknown = sh[l].unknown
  BY <1>1, <1>2 DEF LauncherTyped, LauncherState
<1>4. sh' = [sh EXCEPT ![l] = n]
  BY DEF Goto
<1> HIDE DEF n
<1>5. LauncherTyped(n)
  BY <1>1, <1>3 DEF LauncherTyped, Counters, StageInLine, FilesClosed, Between, AtStage
<1> QED BY <1>3, <1>4, <1>5, LauncherMoves DEF LaunchersOK, StageKept

\* A step within a stage that settles its result.
LEMMA Settles ==
    ASSUME LaunchersOK, NEW l \in Launchers, sh[l].pc \in AtStage, NEW pc \in AtStage, NEW r \in Results,
           pc \notin AllClosed, sh' = [sh EXCEPT ![l].result = r, ![l].pc = pc]
    PROVE  /\ LaunchersOK' /\ StageKept(l) /\ sh'[l].pc = pc
           /\ sh'[l].cwd = sh[l].cwd /\ sh'[l].result = r
<1> DEFINE n == [sh[l] EXCEPT !.result = r, !.pc = pc]
<1>1. LauncherTyped(sh[l])
  BY DEF LaunchersOK
<1>2. pc \in Pcs
  BY DEF AtStage, Pcs
<1>3. /\ n \in LauncherState /\ n.pc = pc /\ n.stages = sh[l].stages /\ n.i = sh[l].i
      /\ n.total = sh[l].total /\ n.toggle = sh[l].toggle /\ n.input = sh[l].input
      /\ n.cwd = sh[l].cwd /\ n.result = r
      /\ n.ok = sh[l].ok /\ n.fail = sh[l].fail /\ n.unknown = sh[l].unknown
  BY <1>1, <1>2 DEF LauncherTyped, LauncherState
<1>4. sh' = [sh EXCEPT ![l] = n]
  BY <1>1 DEF LaunchersOK, LauncherTyped, LauncherState
<1> HIDE DEF n
<1>5. LauncherTyped(n)
  BY <1>1, <1>3 DEF LauncherTyped, Counters, StageInLine, FilesClosed, Between, AtStage
<1> QED BY <1>3, <1>4, <1>5, LauncherMoves DEF LaunchersOK, StageKept

-----------------------------------------------------------------------------
(* The lines a launcher takes.                                             *)

Todos == Seq(CommandLines \cup {ScriptEnd})

LEMMA OfferedLines ==
    ASSUME LaunchersOK, NEW l \in Launchers, NEW line \in Offered(l), line # ScriptEnd
    PROVE  line \in CommandLines /\ Rest(l) \in Todos
<1>1. sh[l].todo \in Todos
  BY DEF LaunchersOK, LauncherTyped, LauncherState, Todos
<1>2. CASE sh[l].todo = <<>>
  BY <1>2, ExecAssumption DEF Offered, Rest, Todos
<1>3. CASE sh[l].todo # <<>>
  <2>1. Head(sh[l].todo) \in CommandLines \cup {ScriptEnd} /\ Tail(sh[l].todo) \in Todos
    BY <1>1, <1>3 DEF Todos
  <2> QED BY <1>3, <2>1 DEF Offered, Rest
<1> QED BY <1>2, <1>3

\* What run_builtin is given: the state with the line taken from the script.
Taken(l) == [sh[l] EXCEPT !.todo = Rest(l)]

LEMMA TakenTyped ==
    ASSUME LaunchersOK, NEW l \in Launchers, sh[l].pc = "prompt", Rest(l) \in Todos, NEW s, s = Taken(l)
    PROVE  /\ LauncherTyped(s) /\ s.pc = "prompt" /\ s.fds = {}
           /\ s.stages = <<>> /\ s.i = 0 /\ s.input = "" /\ s.total = sh[l].total
<1>1. LauncherTyped(sh[l])
  BY DEF LaunchersOK
<1>2. /\ s \in LauncherState /\ s.pc = sh[l].pc /\ s.stages = sh[l].stages /\ s.i = sh[l].i
      /\ s.total = sh[l].total /\ s.fds = sh[l].fds /\ s.input = sh[l].input
      /\ s.ok = sh[l].ok /\ s.fail = sh[l].fail /\ s.unknown = sh[l].unknown
  BY <1>1 DEF Taken, LauncherTyped, LauncherState, Todos
<1> QED BY <1>1, <1>2 DEF LauncherTyped, Counters, StageInLine, FilesClosed, Between, AllClosed

LEMMA ChangeDirTyped ==
    ASSUME NEW s \in LauncherState, Counters(s), s.fds = {}, NEW target
    PROVE  LauncherTyped(ChangeDir(s, target)) /\ ChangeDir(s, target).pc = "prompt"
<1>1. CASE target \in Dirs
  <2> DEFINE d == [s EXCEPT !.cwd = target]
  <2>1. d \in LauncherState /\ Counters(d) /\ d.fds = {}
    BY <1>1 DEF LauncherState, Counters
  <2> HIDE DEF d
  <2>2. LauncherTyped(Counted(d, "ok")) /\ Counted(d, "ok").pc = "prompt"
    BY <2>1, CountedTyped DEF Results
  <2> QED BY <1>1, <2>2, Zenon DEF ChangeDir, d
<1>2. CASE target \notin Dirs
  <2>1. LauncherTyped(Counted(s, "fail")) /\ Counted(s, "fail").pc = "prompt"
    BY CountedTyped DEF Results
  <2> QED BY <1>2, <2>1, Zenon DEF ChangeDir
<1> QED BY <1>1, <1>2

\* A launcher that has been asked to exit is otherwise as before.
LEMMA ExitTyped ==
    ASSUME NEW s \in LauncherState, Counters(s), s.fds = {}
    PROVE  /\ LauncherTyped(Counted([s EXCEPT !.exit = TRUE], "ok"))
           /\ Counted([s EXCEPT !.exit = TRUE], "ok").pc = "prompt"
<1> DEFINE e == [s EXCEPT !.exit = TRUE]
<1>1. e \in LauncherState /\ Counters(e) /\ e.fds = {}
  BY DEF LauncherState, Counters
<1> HIDE DEF e
<1>2. LauncherTyped(Counted(e, "ok")) /\ Counted(e, "ok").pc = "prompt"
  BY <1>1, CountedTyped DEF Results
<1> QED BY <1>2, Zenon DEF e

LEMMA SourceTyped ==
    ASSUME NEW s, LauncherTyped(s), s.pc = "prompt", NEW arg
    PROVE  LauncherTyped(SourceScript(s, arg)) /\ SourceScript(s, arg).pc = "prompt"
<1> DEFINE read == Len(arg) = 1 /\ arg[1] \in DOMAIN Scripts /\ Scripts[arg[1]] # <<>>
           todo == Scripts[arg[1]] \o <<ScriptEnd>> \o s.todo
<1>1. CASE read
  <2>1. todo \in Todos
    <3>1. Scripts[arg[1]] \in Seq(CommandLines \cup {ScriptEnd})
      BY <1>1, ExecAssumption
    <3>2. s.todo \in Todos
      BY DEF LauncherTyped, LauncherState, Todos
    <3>3. <<ScriptEnd>> \in Seq(CommandLines \cup {ScriptEnd})
      OBVIOUS
    <3> QED BY <3>1, <3>2, <3>3 DEF Todos
  <2> HIDE DEF todo
  <2> DEFINE n == [s EXCEPT !.todo = todo]
  <2>2. /\ n \in LauncherState /\ n.pc = s.pc /\ n.stages = s.stages /\ n.i = s.i
        /\ n.total = s.total /\ n.fds = s.fds /\ n.input = s.input
        /\ n.ok = s.ok /\ n.fail = s.fail /\ n.unknown = s.unknown
    BY <2>1 DEF LauncherTyped, LauncherState, Todos
  <2>3. SourceScript(s, arg) = n
    BY <1>1, Zenon DEF SourceScript, todo
  <2> HIDE DEF n
  <2> QED BY <2>2, <2>3 DEF LauncherTyped, Counters, StageInLine, FilesClosed, Between
<1>2. CASE ~read
  <2>1. LauncherTyped(Counted(s, "fail")) /\ Counted(s, "fail").pc = "prompt"
    BY CountedTyped DEF Results, LauncherTyped, FilesClosed, AllClosed
  <2> QED BY <1>2, <2>1, Zenon DEF SourceScript
<1> QED BY <1>1, <1>2

LEMMA BuiltinTyped ==
    ASSUME NEW s, LauncherTyped(s), s.pc = "prompt", NEW prog, NEW arg
    PROVE  LauncherTyped(RunBuiltin(s, prog, arg)) /\ RunBuiltin(s, prog, arg).pc = "prompt"
<1>1. s \in LauncherState /\ Counters(s) /\ s.fds = {}
  BY DEF LauncherTyped, FilesClosed, AllClosed
<1>2. /\ LauncherTyped(Counted(s, "ok")) /\ Counted(s, "ok").pc = "prompt"
      /\ LauncherTyped(Counted(s, "fail")) /\ Counted(s, "fail").pc = "prompt"
  BY <1>1, CountedTyped DEF Results
<1> QED BY <1>1, <1>2, ChangeDirTyped, ExitTyped, SourceTyped, Zenon DEF RunBuiltin

LEMMA ShellBuiltinTyped ==
    ASSUME LaunchersOK, NEW l \in Launchers, ShellBuiltin(l)
    PROVE  LaunchersOK' /\ LineEnded(l)
<1>1. PICK line \in Offered(l) :
         /\ line # ScriptEnd
         /\ sh' = [sh EXCEPT ![l] =
                      RunBuiltin(Taken(l), line[1].prog, line[1].arg)]
  BY Zenon DEF ShellBuiltin, Taken
<1> DEFINE s == Taken(l)
<1>2. sh[l].pc = "prompt" /\ Rest(l) \in Todos
  BY <1>1, OfferedLines DEF ShellBuiltin, Ready, At
<1> HIDE DEF s
<1>3. LauncherTyped(s) /\ s.pc = "prompt"
  BY <1>2, TakenTyped DEF s
<1> QED BY <1>1, <1>3, BuiltinTyped, PromptReached DEF s

LEMMA ShellLogoutTyped ==
    ASSUME LaunchersOK, NEW l \in Launchers, ShellLogout(l)
    PROVE  LaunchersOK' /\ LineEnded(l)
<1>1. PICK line \in Offered(l) :
         /\ line # ScriptEnd
         /\ sh' = [sh EXCEPT ![l] =
                      IF DiskLogin THEN [Taken(l) EXCEPT !.logged_in = FALSE, !.pc = "login"]
                      ELSE Counted(Taken(l), "fail")]
  BY Zenon DEF ShellLogout, Taken
<1> DEFINE s == Taken(l)
<1>2. sh[l].pc = "prompt" /\ Rest(l) \in Todos
  BY <1>1, OfferedLines DEF ShellLogout, Ready, At
<1> HIDE DEF s
<1>3. /\ LauncherTyped(s) /\ s.pc = "prompt" /\ s.fds = {}
      /\ s.stages = <<>> /\ s.i = 0 /\ s.input = ""
  BY <1>2, TakenTyped DEF s
<1>4. CASE DiskLogin
  <2> DEFINE b == FALSE
             pc == "login"
             n == [s EXCEPT !.logged_in = b, !.pc = pc]
  <2>1. b \in BOOLEAN /\ pc \in Pcs
    BY DEF Pcs
  <2>2. sh' = [sh EXCEPT ![l] = n]
    BY <1>1, <1>4, Zenon DEF s
  <2>3. pc = "login"
    OBVIOUS
  <2> HIDE DEF b, pc
  <2>4. /\ n \in LauncherState /\ n.pc = pc /\ n.stages = s.stages /\ n.i = s.i
        /\ n.total = s.total /\ n.fds = s.fds /\ n.input = s.input
        /\ n.ok = s.ok /\ n.fail = s.fail /\ n.unknown = s.unknown
    BY <1>3, <2>1 DEF LauncherTyped, LauncherState
  <2> HIDE DEF n
  <2>5. LauncherTyped(n)
    BY <1>3, <2>3, <2>4 DEF LauncherTyped, Counters, StageInLine, FilesClosed, Between, AtStage
  <2>6. LaunchersOK' /\ sh'[l] = n
    BY <2>2, <2>5, LauncherMoves DEF LaunchersOK
  <2> QED BY <1>3, <2>3, <2>4, <2>6 DEF LineEnded
<1>5. CASE ~DiskLogin
  <2>1. sh' = [sh EXCEPT ![l] = Counted(s, "fail")]
    BY <1>1, <1>5, Zenon DEF s
  <2> QED BY <1>3, <2>1, LineEnds DEF LauncherTyped, Results
<1> QED BY <1>4, <1>5

\* A line without pipes and redirections is one stage.
LEMMA ShellExternalTyped ==
    ASSUME LaunchersOK, NEW l \in Launchers, ShellExternal(l)
    PROVE  LaunchersOK' /\ LineBegun(l)
<1>1. PICK line \in Offered(l) :
         /\ line # ScriptEnd /\ ~HasMeta(line)
         /\ sh' = [sh EXCEPT ![l].todo = Rest(l), ![l].stages = line, ![l].i = 1, ![l].pc = "lookup"]
  BY Zenon DEF ShellExternal
<1>2. sh[l].pc = "prompt" /\ line \in CommandLines /\ Rest(l) \in Todos
  BY <1>1, OfferedLines DEF ShellExternal, Ready, At
<1>3. line \in Seq(Stages) /\ Len(line) = 1
  <2>1. ~(Len(line) > 1)
    BY <1>1, Zenon DEF HasMeta
  <2>2. line \in Seq(Stages) /\ line # <<>>
    BY <1>2 DEF CommandLines, ScriptEnd
  <2>3. Len(line) \in Nat /\ Len(line) # 0
    BY <2>2, EmptySeq
  <2> DEFINE k == Len(line)
  <2>4. k = 1
    <3>1. k \in Nat /\ k # 0 /\ ~(k > 1)
      BY <2>1, <2>3
    <3> HIDE DEF k
    <3> QED BY <3>1
  <2> QED BY <2>2, <2>4
<1>4. LauncherTyped(sh[l])
  BY DEF LaunchersOK
<1> DEFINE pc == "lookup" i == 1
           n == [sh[l] EXCEPT !.todo = Rest(l), !.stages = line, !.i = i, !.pc = pc]
<1>5. pc \in Pcs /\ pc = "lookup" /\ i = 1 /\ i \in Nat
  BY DEF Pcs
<1>6. sh' = [sh EXCEPT ![l] = n]
  BY <1>1, <1>4 DEF LaunchersOK, LauncherTyped, LauncherState
<1> HIDE DEF pc, i
<1>7. /\ n \in LauncherState /\ n.pc = pc /\ n.stages = line /\ n.i = i
      /\ n.total = sh[l].total /\ n.input = sh[l].input
      /\ n.ok = sh[l].ok /\ n.fail = sh[l].fail /\ n.unknown = sh[l].unknown
  BY <1>2, <1>3, <1>4, <1>5 DEF LauncherTyped, LauncherState, Todos
<1> HIDE DEF n
<1>8. LauncherTyped(n)
  <2>1. n.pc = "lookup" /\ n.i = 1 /\ Len(n.stages) = 1
    BY <1>3, <1>5, <1>7
  <2>2. Counters(n)
    BY <1>4, <1>7 DEF LauncherTyped, Counters
  <2>3. StageInLine(n) /\ FilesClosed(n) /\ Between(n)
    BY <2>1 DEF StageInLine, FilesClosed, Between, AllClosed
  <2> QED BY <1>7, <2>2, <2>3 DEF LauncherTyped
<1>9. LaunchersOK' /\ sh'[l] = n
  BY <1>6, <1>8, LauncherMoves DEF LaunchersOK
<1> QED BY <1>2, <1>3, <1>4, <1>5, <1>7, <1>9 DEF LineBegun, LauncherTyped, Between

\* A parsed line starts at its first stage.
LEMMA ShellPipelineTyped ==
    ASSUME LaunchersOK, NEW l \in Launchers, ShellPipeline(l)
    PROVE  LaunchersOK' /\ (LineEnded(l) \/ LineBegun(l))
<1>1. PICK line \in Offered(l) :
         /\ line # ScriptEnd
         /\ sh' = [sh EXCEPT ![l] =
                      IF ParsePipeline(line)
                      THEN [Taken(l) EXCEPT !.stages = line, !.i = 1, !.toggle = "A",
                                            !.input = "", !.pc = "stage"]
                      ELSE Counted(Taken(l), "fail")]
  BY Zenon DEF ShellPipeline, Taken
<1> DEFINE s == Taken(l)
<1>2. sh[l].pc = "prompt" /\ Rest(l) \in Todos /\ line \in CommandLines
  BY <1>1, OfferedLines DEF ShellPipeline, Ready, At
<1> HIDE DEF s
<1>3. LauncherTyped(s) /\ s.fds = {}
  BY <1>2, TakenTyped DEF s
<1>4. CASE ParsePipeline(line)
  <2> DEFINE pc == "stage" i == 1 toggle == "A" input == ""
             n == [s EXCEPT !.stages = line, !.i = i, !.toggle = toggle, !.input = input, !.pc = pc]
  <2>1. /\ pc \in Pcs /\ i \in Nat /\ toggle \in PipeFiles /\ input \in PipeFiles \cup {""}
        /\ pc = "stage" /\ i = 1 /\ input = ""
    BY DEF Pcs, PipeFiles
  <2>2. sh' = [sh EXCEPT ![l] = n]
    BY <1>1, <1>4, Zenon DEF s
  <2>3. line \in Seq(Stages) /\ Len(line) \in Nat /\ Len(line) # 0
    BY <1>2, EmptySeq DEF CommandLines, ScriptEnd
  <2> HIDE DEF pc, i, toggle, input
  <2>4. /\ n \in LauncherState /\ n.pc = pc /\ n.stages = line /\ n.i = i
        /\ n.total = s.total /\ n.fds = s.fds /\ n.input = input
        /\ n.ok = s.ok /\ n.fail = s.fail /\ n.unknown = s.unknown
    BY <1>3, <2>1, <2>3 DEF LauncherTyped, LauncherState
  <2> HIDE DEF n
  <2>5. Counters(n)
    BY <1>3, <2>4 DEF LauncherTyped, Counters
  <2> DEFINE k == Len(line)
  <2>6. n.pc = "stage" /\ n.i = 1 /\ n.fds = {} /\ Len(n.stages) >= 1
    <3>1. k >= 1
      <4>1. k \in Nat /\ k # 0
        BY <2>3
      <4> HIDE DEF k
      <4> QED BY <4>1
    <3> QED BY <1>3, <2>1, <2>4, <3>1
  <2>7. StageInLine(n) /\ FilesClosed(n) /\ Between(n)
    BY <2>6 DEF StageInLine, FilesClosed, Between
  <2>8. LaunchersOK' /\ sh'[l] = n
    BY <2>2, <2>4, <2>5, <2>7, LauncherMoves DEF LaunchersOK, LauncherTyped
  <2> QED BY <1>2, <2>1, <2>4, <2>6, <2>8 DEF LineBegun
<1>5. CASE ~ParsePipeline(line)
  <2>1. sh' = [sh EXCEPT ![l] = Counted(s, "fail")]
    BY <1>1, <1>5, Zenon DEF s
  <2> QED BY <1>3, <2>1, LineEnds DEF LauncherTyped, Results
<1> QED BY <1>4, <1>5

LEMMA ScriptReturnsTyped ==
    ASSUME LaunchersOK, NEW l \in Launchers, ScriptReturns(l)
    PROVE  LaunchersOK' /\ LineEnded(l)
<1> DEFINE s == Taken(l)
<1>1. sh[l].pc = "prompt" /\ sh[l].todo # <<>> /\ sh[l].todo \in Todos
  BY DEF ScriptReturns, At, LaunchersOK, LauncherTyped, LauncherState, Todos
<1>2. Rest(l) = Tail(sh[l].todo) /\ Rest(l) \in Todos
  BY <1>1 DEF Rest, Todos
<1>3. sh' = [sh EXCEPT ![l] = Counted(s, "ok")]
  BY Zenon DEF ScriptReturns, Taken
<1> HIDE DEF s
<1>4. LauncherTyped(s) /\ s.fds = {}
  BY <1>1, <1>2, TakenTyped DEF s
<1> QED BY <1>3, <1>4, LineEnds DEF LauncherTyped, Results

\* Scripts that an exit cuts short count as done: the counters stay a sum.
LEMMA LauncherExitsTyped ==
    ASSUME LaunchersOK, NEW l \in Launchers, LauncherExits(l)
    PROVE  LaunchersOK' /\ LineEnded(l)
<1> DEFINE ends == {j \in 1..Len(sh[l].todo) : sh[l].todo[j] = ScriptEnd}
           open == Cardinality(ends)
           pc == "exited" todo == <<>>
           n == [sh[l] EXCEPT !.pc = pc, !.todo = todo, !.total = @ + open, !.ok = @ + open]
<1>1. LauncherTyped(sh[l]) /\ sh[l].pc = "prompt"
  BY DEF LaunchersOK, LauncherExits, At
<1>2. open \in Nat
  <2>1. Len(sh[l].todo) \in Nat
    <3>1. sh[l].todo \in Todos
      BY <1>1 DEF LauncherTyped, LauncherState, Todos
    <3> QED BY <3>1, LenProperties DEF Todos
  <2>2. IsFiniteSet(1..Len(sh[l].todo))
    BY <2>1, FS_Interval
  <2> QED BY <2>2, FS_Subset, FS_CardinalityType
<1>3. pc \in Pcs /\ todo \in Todos /\ pc = "exited"
  BY DEF Pcs, Todos
<1>4. sh' = [sh EXCEPT ![l] = n]
  BY <1>1 DEF LauncherExits, LaunchersOK, LauncherTyped, LauncherState
<1> HIDE DEF open, pc, todo
<1>5. /\ n \in LauncherState /\ n.pc = pc /\ n.stages = sh[l].stages /\ n.i = sh[l].i
      /\ n.total = sh[l].total + open /\ n.fds = sh[l].fds /\ n.input = sh[l].input
      /\ n.ok = sh[l].ok + open /\ n.fail = sh[l].fail /\ n.unknown = sh[l].unknown
  <2> DEFINE total == sh[l].total + open ok == sh[l].ok + open
  <2>1. total \in Nat /\ ok \in Nat
    <3>1. sh[l].total \in Nat /\ sh[l].ok \in Nat
      BY <1>1 DEF LauncherTyped, LauncherState
    <3> QED BY <1>2, <3>1
  <2>2. n = [sh[l] EXCEPT !.pc = pc, !.todo = todo, !.total = total, !.ok = ok]
    OBVIOUS
  <2> HIDE DEF n, total, ok
  <2>3. /\ n \in LauncherState /\ n.pc = pc /\ n.stages = sh[l].stages /\ n.i = sh[l].i
        /\ n.total = total /\ n.fds = sh[l].fds /\ n.input = sh[l].input
        /\ n.ok = ok /\ n.fail = sh[l].fail /\ n.unknown = sh[l].unknown
    BY <1>1, <1>3, <2>1, <2>2 DEF LauncherTyped, LauncherState, Todos
  <2> QED BY <2>3 DEF total, ok
<1> HIDE DEF n
<1>6. Counters(n)
  <2>1. /\ sh[l].total \in Nat /\ sh[l].ok \in Nat /\ sh[l].fail \in Nat /\ sh[l].unknown \in Nat
        /\ sh[l].total = sh[l].ok + sh[l].fail /\ sh[l].unknown <= sh[l].fail
    BY <1>1 DEF LauncherTyped, LauncherState, Counters
  <2> QED BY <1>2, <1>5, <2>1 DEF Counters
<1>7. StageInLine(n) /\ FilesClosed(n) /\ Between(n)
  BY <1>1, <1>3, <1>5 DEF LauncherTyped, StageInLine, FilesClosed, Between, AtStage, AllClosed
<1>8. LaunchersOK' /\ sh'[l] = n
  BY <1>4, <1>5, <1>6, <1>7, LauncherMoves DEF LaunchersOK, LauncherTyped
<1> QED BY <1>1, <1>3, <1>5, <1>8 DEF LineEnded, LauncherTyped, Between

LEMMA DaemonBuiltinTyped ==
    ASSUME LaunchersOK, NEW l \in Launchers, DaemonBuiltin(l)
    PROVE  LaunchersOK' /\ LineEnded(l)
<1>1. LauncherTyped(sh[l]) /\ sh[l].pc = "prompt"
  BY DEF LaunchersOK, DaemonBuiltin, Ready, At
<1>2. sh[l] \in LauncherState /\ Counters(sh[l]) /\ sh[l].fds = {}
  BY <1>1 DEF LauncherTyped, FilesClosed, AllClosed
<1>3. PICK line \in Lines[l] : \E target :
         sh' = [sh EXCEPT ![l] =
                  IF line[1].prog = "exit" THEN Counted([sh[l] EXCEPT !.exit = TRUE], "ok")
                  ELSE IF line[1].prog = "cd" /\ Kind[l] # "webconsole" THEN ChangeDir(sh[l], target)
                  ELSE Counted(sh[l], "ok")]
  BY Zenon DEF DaemonBuiltin
<1>4. PICK target :
      \/ sh' = [sh EXCEPT ![l] = Counted([sh[l] EXCEPT !.exit = TRUE], "ok")]
      \/ sh' = [sh EXCEPT ![l] = ChangeDir(sh[l], target)]
      \/ sh' = [sh EXCEPT ![l] = Counted(sh[l], "ok")]
  BY <1>3, Zenon
<1>5. CASE sh' = [sh EXCEPT ![l] = Counted([sh[l] EXCEPT !.exit = TRUE], "ok")]
  BY <1>2, <1>5, ExitTyped, PromptReached
<1>6. CASE sh' = [sh EXCEPT ![l] = ChangeDir(sh[l], target)]
  BY <1>2, <1>6, ChangeDirTyped, PromptReached
<1>7. CASE sh' = [sh EXCEPT ![l] = Counted(sh[l], "ok")]
  BY <1>2, <1>7, LineEnds DEF Results
<1> QED BY <1>4, <1>5, <1>6, <1>7

LEMMA FirstStage ==
    ASSUME NEW line \in CommandLines
    PROVE  line \in Seq(Stages) /\ Len(line) \in Nat /\ 1 <= Len(line)
<1> DEFINE k == Len(line)
<1>1. k \in Nat /\ k # 0
  BY EmptySeq DEF CommandLines, ScriptEnd
<1>2. k >= 1
  <2> HIDE DEF k
  <2> QED BY <1>1
<1> QED BY <1>1, <1>2 DEF CommandLines

\* The other launchers have a single stage, in the directory of the request.
LEMMA DaemonExternalTyped ==
    ASSUME LaunchersOK, NEW l \in Launchers, DaemonExternal(l)
    PROVE  LaunchersOK' /\ LineBegun(l)
<1>1. PICK line \in Lines[l], d \in RequestDirs(l) :
         sh' = [sh EXCEPT ![l].stages = line, ![l].i = 1, ![l].cwd = d, ![l].pc = "lookup"]
  BY Zenon DEF DaemonExternal
<1>2. LauncherTyped(sh[l]) /\ sh[l].pc = "prompt"
  BY DEF LaunchersOK, DaemonExternal, Ready, At
<1>3. line \in CommandLines /\ line \in Seq(Stages) /\ Len(line) = 1
  BY ExecAssumption, FirstStage DEF DaemonExternal, IsShell
<1>4. d \in Dirs
  BY <1>2 DEF RequestDirs, LauncherTyped, LauncherState
<1> DEFINE pc == "lookup" i == 1
           n == [sh[l] EXCEPT !.stages = line, !.i = i, !.cwd = d, !.pc = pc]
<1>5. pc \in Pcs /\ pc = "lookup" /\ i = 1 /\ i \in Nat
  BY DEF Pcs
<1>6. sh' = [sh EXCEPT ![l] = n]
  BY <1>1, <1>2 DEF LaunchersOK, LauncherTyped, LauncherState
<1> HIDE DEF pc, i
<1>7. /\ n \in LauncherState /\ n.pc = pc /\ n.stages = line /\ n.i = i
      /\ n.total = sh[l].total /\ n.input = sh[l].input
      /\ n.ok = sh[l].ok /\ n.fail = sh[l].fail /\ n.unknown = sh[l].unknown
  BY <1>2, <1>3, <1>4, <1>5 DEF LauncherTyped, LauncherState
<1> HIDE DEF n
<1>8. LauncherTyped(n)
  <2>1. n.pc = "lookup" /\ n.i = 1 /\ Len(n.stages) = 1
    BY <1>3, <1>5, <1>7
  <2>2. Counters(n)
    BY <1>2, <1>7 DEF LauncherTyped, Counters
  <2>3. StageInLine(n) /\ FilesClosed(n) /\ Between(n)
    BY <2>1 DEF StageInLine, FilesClosed, Between, AllClosed
  <2> QED BY <1>7, <2>2, <2>3 DEF LauncherTyped
<1>9. LaunchersOK' /\ sh'[l] = n
  BY <1>6, <1>8, LauncherMoves DEF LaunchersOK
<1> QED BY <1>2, <1>3, <1>5, <1>7, <1>9 DEF LineBegun, LauncherTyped, Between

-----------------------------------------------------------------------------
(* The stages of a line.                                                   *)

LEMMA PipelineRefusesTyped ==
    ASSUME LaunchersOK, NEW l \in Launchers, PipelineRefuses(l)
    PROVE  LaunchersOK' /\ LineEnded(l)
<1>1. sh[l] \in LauncherState /\ Counters(sh[l]) /\ sh[l].fds = {}
  BY DEF LaunchersOK, PipelineRefuses, At, LauncherTyped, FilesClosed, AllClosed
<1>2. sh' = [sh EXCEPT ![l] = Counted(sh[l], "fail")]
  BY DEF PipelineRefuses
<1> QED BY <1>1, <1>2, LineEnds DEF Results

\* Whatever was open for a stage is closed.
LEMMA ClosedTyped ==
    ASSUME NEW s, LauncherTyped(s), NEW c, c = [s EXCEPT !.fds = {}]
    PROVE  /\ LauncherTyped(c) /\ c.fds = {} /\ c.pc = s.pc /\ c.stages = s.stages /\ c.i = s.i
           /\ c.input = s.input /\ c.total = s.total /\ c.toggle = s.toggle /\ c.result = s.result
           /\ c.cwd = s.cwd
<1>1. /\ c \in LauncherState /\ c.fds = {} /\ c.pc = s.pc /\ c.stages = s.stages /\ c.i = s.i
      /\ c.input = s.input /\ c.total = s.total /\ c.toggle = s.toggle /\ c.result = s.result
      /\ c.ok = s.ok /\ c.fail = s.fail /\ c.unknown = s.unknown /\ c.cwd = s.cwd
  BY DEF LauncherTyped, LauncherState
<1> QED BY <1>1 DEF LauncherTyped, Counters, StageInLine, FilesClosed, Between

LEMMA StageOpenFailsTyped ==
    ASSUME LaunchersOK, NEW l \in Launchers, StageOpenFails(l)
    PROVE  LaunchersOK' /\ LineEnded(l)
<1> DEFINE c == [sh[l] EXCEPT !.fds = {}]
<1>1. sh' = [sh EXCEPT ![l] = Counted(c, "fail")]
  BY DEF StageOpenFails
<1>2. c = [sh[l] EXCEPT !.fds = {}]
  OBVIOUS
<1> HIDE DEF c
<1>3. LauncherTyped(c) /\ c.fds = {}
  BY <1>2, ClosedTyped DEF LaunchersOK
<1> QED BY <1>1, <1>3, LineEnds DEF LauncherTyped, Results

LEMMA StageOpenTyped ==
    ASSUME LaunchersOK, NEW l \in Launchers, StageOpen(l)
    PROVE  LaunchersOK' /\ StageKept(l) /\ sh'[l].pc = "lookup" /\ sh'[l].cwd = sh[l].cwd
<1>1. PICK fds \in SUBSET {"in", "out"} :
         sh' = [sh EXCEPT ![l].fds = fds, ![l].pc = "lookup"]
  BY DEF StageOpen
<1>2. LauncherTyped(sh[l]) /\ sh[l].pc = "stage"
  BY DEF LaunchersOK, StageOpen, At
<1> DEFINE pc == "lookup"
           n == [sh[l] EXCEPT !.fds = fds, !.pc = pc]
<1>3. pc \in Pcs /\ pc = "lookup"
  BY DEF Pcs
<1>4. sh' = [sh EXCEPT ![l] = n]
  BY <1>1, <1>2 DEF LaunchersOK, LauncherTyped, LauncherState
<1> HIDE DEF pc
<1>5. /\ n \in LauncherState /\ n.pc = pc /\ n.stages = sh[l].stages /\ n.i = sh[l].i
      /\ n.total = sh[l].total /\ n.input = sh[l].input /\ n.toggle = sh[l].toggle
      /\ n.ok = sh[l].ok /\ n.fail = sh[l].fail /\ n.unknown = sh[l].unknown /\ n.cwd = sh[l].cwd
  BY <1>2, <1>3 DEF LauncherTyped, LauncherState
<1> HIDE DEF n
<1>6. LauncherTyped(n)
  BY <1>2, <1>3, <1>5 DEF LauncherTyped, Counters, StageInLine, FilesClosed, Between, AtStage, AllClosed
<1> QED BY <1>3, <1>4, <1>5, <1>6, LauncherMoves DEF LaunchersOK, StageKept

LEMMA ApplyTyped ==
    ASSUME LaunchersOK, FilesOK, NEW l \in Launchers, ApplyCommandRet(l)
    PROVE  /\ LaunchersOK' /\ StageKept(l) /\ sh'[l].pc \in {"sync", "rmctx"}
           /\ sh'[l].result = sh[l].result
<1> DEFINE cwd == IF ret.chdir /\ Kind[l] # "webconsole" THEN ret.cwd ELSE sh[l].cwd
           exit == sh[l].exit \/ (ret.exit /\ Kind[l] # "webconsole")
           pc == IF IsShell(l) /\ sh[l].fds = {} THEN "sync" ELSE "rmctx"
           n == [sh[l] EXCEPT !.cwd = cwd, !.exit = exit, !.pc = pc]
<1>1. LauncherTyped(sh[l]) /\ sh[l].pc = "apply"
  BY DEF LaunchersOK, ApplyCommandRet, At
<1>2. cwd \in Dirs
  BY <1>1 DEF FilesOK, LauncherTyped, LauncherState
<1>3. exit \in BOOLEAN
  BY Zenon
<1>4. pc \in Pcs /\ pc \in {"sync", "rmctx"} /\ (pc = "sync" => sh[l].fds = {})
  BY DEF Pcs
<1>5. sh' = [sh EXCEPT ![l].cwd = cwd, ![l].exit = exit, ![l].pc = pc]
  BY Zenon DEF ApplyCommandRet
<1> HIDE DEF cwd, exit, pc
<1>6. sh' = [sh EXCEPT ![l] = n]
  BY <1>1, <1>5 DEF LaunchersOK, LauncherTyped, LauncherState
<1>7. /\ n \in LauncherState /\ n.pc = pc /\ n.stages = sh[l].stages /\ n.i = sh[l].i
      /\ n.total = sh[l].total /\ n.input = sh[l].input /\ n.toggle = sh[l].toggle
      /\ n.ok = sh[l].ok /\ n.fail = sh[l].fail /\ n.unknown = sh[l].unknown
      /\ n.fds = sh[l].fds /\ n.result = sh[l].result
  BY <1>1, <1>2, <1>3, <1>4 DEF LauncherTyped, LauncherState
<1> HIDE DEF n
<1>8. LauncherTyped(n)
  BY <1>1, <1>4, <1>7 DEF LauncherTyped, Counters, StageInLine, FilesClosed, Between, AtStage, AllClosed
<1> QED BY <1>4, <1>6, <1>7, <1>8, LauncherMoves DEF LaunchersOK, StageKept

LEMMA SyncTyped ==
    ASSUME LaunchersOK, NEW l \in Launchers, SyncUserState(l)
    PROVE  /\ LaunchersOK' /\ StageKept(l) /\ sh'[l].pc \in {"rmctx", "login"}
           /\ sh'[l].result = sh[l].result
<1>1. LauncherTyped(sh[l]) /\ sh[l].pc = "sync"
  BY DEF LaunchersOK, SyncUserState, At
<1>2. PICK b \in BOOLEAN, pc \in {"rmctx", "login"} : sh' = [sh EXCEPT ![l].logged_in = b, ![l].pc = pc]
  BY DEF SyncUserState
<1> DEFINE n == [sh[l] EXCEPT !.logged_in = b, !.pc = pc]
<1>3. pc \in Pcs
  BY DEF Pcs
<1>4. sh' = [sh EXCEPT ![l] = n]
  BY <1>1, <1>2 DEF LaunchersOK, LauncherTyped, LauncherState
<1>5. /\ n \in LauncherState /\ n.pc = pc /\ n.stages = sh[l].stages /\ n.i = sh[l].i
      /\ n.total = sh[l].total /\ n.input = sh[l].input /\ n.toggle = sh[l].toggle
      /\ n.ok = sh[l].ok /\ n.fail = sh[l].fail /\ n.unknown = sh[l].unknown
      /\ n.fds = sh[l].fds /\ n.result = sh[l].result
  BY <1>1, <1>3 DEF LauncherTyped, LauncherState
<1> HIDE DEF n
<1>6. LauncherTyped(n)
  BY <1>1, <1>5 DEF LauncherTyped, Counters, StageInLine, FilesClosed, Between, AtStage, AllClosed
<1> QED BY <1>4, <1>5, <1>6, LauncherMoves DEF LaunchersOK, StageKept

LEMMA LoginTyped ==
    ASSUME LaunchersOK, NEW l \in Launchers, Login(l)
    PROVE  /\ LaunchersOK'
           /\ \/ LineEnded(l)
              \/ StageKept(l) /\ sh'[l].pc = "rmctx" /\ sh'[l].result = sh[l].result
<1> DEFINE yes == TRUE
           s == [sh[l] EXCEPT !.logged_in = yes, !.cwd = HomeDir]
           pc == "rmctx"
           n == [s EXCEPT !.pc = pc]
<1>1. LauncherTyped(sh[l]) /\ sh[l].pc = "login" /\ sh[l].fds = {}
  BY DEF LaunchersOK, Login, At, LauncherTyped, FilesClosed, AllClosed
<1>2. HomeDir \in Dirs /\ yes \in BOOLEAN /\ pc \in Pcs /\ pc = "rmctx"
  BY ProgramsAssumption DEF HomeDir, Pcs
<1>3. sh' = [sh EXCEPT ![l] = IF s.stages # <<>> THEN n ELSE Counted(s, "ok")]
  BY Zenon DEF Login
<1> HIDE DEF yes, pc
<1>4. /\ s \in LauncherState /\ s.stages = sh[l].stages /\ s.i = sh[l].i /\ s.pc = sh[l].pc
      /\ s.total = sh[l].total /\ s.input = sh[l].input /\ s.toggle = sh[l].toggle
      /\ s.ok = sh[l].ok /\ s.fail = sh[l].fail /\ s.unknown = sh[l].unknown
      /\ s.fds = {} /\ s.result = sh[l].result
  BY <1>1, <1>2 DEF LauncherTyped, LauncherState
<1> HIDE DEF s
<1>5. CASE s.stages # <<>>
  <2>1. /\ n \in LauncherState /\ n.stages = s.stages /\ n.i = s.i /\ n.pc = pc
        /\ n.total = s.total /\ n.input = s.input /\ n.toggle = s.toggle
        /\ n.ok = s.ok /\ n.fail = s.fail /\ n.unknown = s.unknown
        /\ n.fds = {} /\ n.result = s.result
    BY <1>2, <1>4 DEF LauncherState
  <2>2. sh' = [sh EXCEPT ![l] = n]
    BY <1>3, <1>5, Zenon
  <2> HIDE DEF n
  <2>3. LauncherTyped(n)
    BY <1>1, <1>2, <1>4, <1>5, <2>1
       DEF LauncherTyped, Counters, StageInLine, FilesClosed, Between, AtStage
  <2> QED BY <1>2, <1>4, <2>1, <2>2, <2>3, LauncherMoves DEF LaunchersOK, StageKept
<1>6. CASE s.stages = <<>>
  <2>1. sh' = [sh EXCEPT ![l] = Counted(s, "ok")]
    BY <1>3, <1>6, Zenon
  <2>2. Counters(s)
    BY <1>1, <1>4 DEF LauncherTyped, Counters
  <2> QED BY <1>4, <2>1, <2>2, LineEnds DEF Results
<1> QED BY <1>5, <1>6

\* The next stage of a pipeline reads what this one wrote.
NextStage(l) ==
    /\ sh'[l].pc = "stage" /\ sh'[l].i = sh[l].i + 1 /\ sh'[l].stages = sh[l].stages
    /\ sh'[l].total = sh[l].total /\ sh'[l].input = sh[l].toggle /\ sh'[l].toggle # sh[l].toggle

LEMMA StageDoneTyped ==
    ASSUME LaunchersOK, NEW l \in Launchers, StageDone(l)
    PROVE  /\ LaunchersOK'
           /\ \/ LineEnded(l) /\ (sh[l].result # "ok" \/ Last(l))
              \/ NextStage(l) /\ sh[l].result = "ok" /\ ~Last(l)
<1> DEFINE c == [sh[l] EXCEPT !.fds = {}]
           n == [c EXCEPT !.input = c.toggle, !.i = @ + 1, !.pc = "stage",
                          !.toggle = IF @ = "A" THEN "B" ELSE "A"]
<1>1. LauncherTyped(sh[l]) /\ sh[l].pc = "close"
  BY DEF LaunchersOK, StageDone, At
<1>2. sh' = [sh EXCEPT ![l] = IF c.result = "ok" /\ ~Last(l) THEN n ELSE Counted(c, c.result)]
  BY Zenon DEF StageDone
<1>3. c = [sh[l] EXCEPT !.fds = {}]
  OBVIOUS
<1> HIDE DEF c
<1>4. /\ LauncherTyped(c) /\ c.fds = {} /\ c.pc = sh[l].pc /\ c.stages = sh[l].stages /\ c.i = sh[l].i
      /\ c.total = sh[l].total /\ c.toggle = sh[l].toggle /\ c.result = sh[l].result
  BY <1>1, <1>3, ClosedTyped
<1>5. CASE c.result = "ok" /\ ~Last(l)
  <2> DEFINE i == c.i + 1
             pc == "stage"
             toggle == IF c.toggle = "A" THEN "B" ELSE "A"
             input == c.toggle
  <2>1. sh' = [sh EXCEPT ![l] = n]
    BY <1>2, <1>5, Zenon
  <2>2. n = [c EXCEPT !.input = input, !.i = i, !.pc = pc, !.toggle = toggle]
    BY Zenon
  <2>3. /\ i \in Nat /\ i = c.i + 1 /\ i >= 1
    <3>1. c.i \in Nat
      BY <1>4 DEF LauncherTyped, LauncherState
    <3> QED BY <3>1
  <2>4. /\ pc \in Pcs /\ pc = "stage" /\ toggle \in PipeFiles /\ toggle # c.toggle
        /\ input \in PipeFiles \cup {""} /\ input = c.toggle
    BY <1>4 DEF LauncherTyped, LauncherState, Pcs, PipeFiles
  <2> HIDE DEF i, pc, toggle, input, n
  <2>5. /\ n \in LauncherState /\ n.stages = c.stages /\ n.i = i /\ n.pc = pc
        /\ n.total = c.total /\ n.input = input /\ n.toggle = toggle
        /\ n.ok = c.ok /\ n.fail = c.fail /\ n.unknown = c.unknown /\ n.fds = {}
    BY <1>4, <2>2, <2>3, <2>4 DEF LauncherTyped, LauncherState
  <2>6. i <= Len(c.stages)
    <3>1. c.i <= Len(c.stages) /\ c.i # Len(c.stages) /\ c.i \in Nat
      BY <1>4, <1>5 DEF LauncherTyped, LauncherState, StageInLine, Last
    <3>2. Len(c.stages) \in Nat
      BY <1>4, LenProperties DEF LauncherTyped, LauncherState
    <3> QED BY <2>3, <3>1, <3>2
  <2>7. LauncherTyped(n)
    <3>1. Counters(n)
      BY <1>4, <2>5 DEF LauncherTyped, Counters
    <3>2. StageInLine(n) /\ FilesClosed(n) /\ Between(n)
      BY <2>3, <2>4, <2>5, <2>6 DEF StageInLine, FilesClosed, Between
    <3> QED BY <2>5, <3>1, <3>2 DEF LauncherTyped
  <2>8. LaunchersOK' /\ sh'[l] = n
    BY <2>1, <2>7, LauncherMoves DEF LaunchersOK
  <2> QED BY <1>4, <1>5, <2>3, <2>4, <2>5, <2>8 DEF NextStage
<1>6. CASE ~(c.result = "ok" /\ ~Last(l))
  <2>1. sh' = [sh EXCEPT ![l] = Counted(c, c.result)]
    BY <1>2, <1>6, Zenon
  <2>2. c.result \in Results
    BY <1>4 DEF LauncherTyped, LauncherState
  <2> QED BY <1>4, <1>6, <2>1, <2>2, LineEnds DEF LauncherTyped
<1> QED BY <1>5, <1>6

LEMMA BootTyped ==
    ASSUME LaunchersOK, NEW l \in Launchers, Boot(l)
    PROVE  LaunchersOK' /\ LineEnded(l)
<1>1. LauncherTyped(sh[l]) /\ sh[l].pc = "boot"
  BY DEF LaunchersOK, Boot, At
<1>2. PICK d \in StartDirs(l), t \in (IF IsShell(l) THEN Startup ELSE {<<>>}) :
         sh' = [sh EXCEPT ![l].cwd = d, ![l].todo = t, ![l].logged_in = TRUE, ![l].pc = "prompt"]
  BY DEF Boot
<1>3. d \in Dirs
  BY ProgramsAssumption DEF StartDirs, HomeDir
<1>4. t \in Todos
  <2>1. CASE IsShell(l)
    BY <2>1, ExecAssumption DEF Todos
  <2>2. CASE ~IsShell(l)
    BY <2>2 DEF Todos
  <2> QED BY <2>1, <2>2
<1> DEFINE yes == TRUE pc == "prompt"
           n == [sh[l] EXCEPT !.cwd = d, !.todo = t, !.logged_in = yes, !.pc = pc]
<1>5. yes \in BOOLEAN /\ pc \in Pcs /\ pc = "prompt"
  BY DEF Pcs
<1>6. sh' = [sh EXCEPT ![l] = n]
  BY <1>1, <1>2 DEF LaunchersOK, LauncherTyped, LauncherState
<1> HIDE DEF yes, pc
<1>7. /\ n \in LauncherState /\ n.pc = pc /\ n.stages = sh[l].stages /\ n.i = sh[l].i
      /\ n.total = sh[l].total /\ n.input = sh[l].input /\ n.fds = sh[l].fds
      /\ n.ok = sh[l].ok /\ n.fail = sh[l].fail /\ n.unknown = sh[l].unknown
  BY <1>1, <1>3, <1>4, <1>5 DEF LauncherTyped, LauncherState, Todos
<1> HIDE DEF n
<1>8. LauncherTyped(n) /\ n.pc = "prompt"
  BY <1>1, <1>5, <1>7 DEF LauncherTyped, Counters, StageInLine, FilesClosed, Between, AtStage, AllClosed
<1> QED BY <1>6, <1>8, PromptReached

-----------------------------------------------------------------------------
(* The programs' side.                                                     *)

\* Process p and nobody else has changed, to n.
Becomes(p, n) == proc' = [proc EXCEPT ![p] = n]

\* n is process m at a later point of its life.
SameProgram(n, m) ==
    /\ n.prog = m.prog /\ n.argv = m.argv /\ n.parent = m.parent /\ n.own = m.own
    /\ n.stdin = m.stdin /\ n.stdout = m.stdout
SameContext(n, m) ==
    n.has_context = m.has_context /\ n.arg = m.arg /\ n.initial_cwd = m.initial_cwd
Finishes(n, m) == ProcTyped(n) /\ n.st = "ret" /\ SameProgram(n, m) /\ SameContext(n, m)

LEMMA ProcMoves ==
    ASSUME ProcsOK, NEW p \in Pids, NEW n, ProcTyped(n), Becomes(p, n)
    PROVE  ProcsOK' /\ proc'[p] = n /\ \A q \in Pids \ {p} : proc'[q] = proc[q]
BY DEF ProcsOK, ProcTyped, Becomes

LEMMA FreeTyped == ProcTyped(FreeProc) /\ FreeProc.st = "free" /\ FreeProc.stdout = ""
<1> DEFINE st == "free" name == "" none == <<>> no == FALSE own == NoOne parent == NoPid cwd == Root
<1>1. st \in {"free", "start", "run", "wait", "ret", "done"} /\ name \in PipeFiles \cup {""}
  OBVIOUS
<1>8. name \in Names
  BY DEF Names
<1>6. none \in Seq(Words)
  OBVIOUS
<1>7. own \in Owners \cup {NoOne} /\ parent \in Pids \cup {NoPid}
  OBVIOUS
<1>5. no \in BOOLEAN /\ cwd \in Dirs
  BY ProgramsAssumption
<1>2. FreeProc =
        [st |-> st, prog |-> name, argv |-> none, parent |-> parent, own |-> own,
         has_context |-> no, arg |-> none, cwd |-> cwd, initial_cwd |-> cwd,
         exit |-> no, ok |-> no, stdin |-> name, stdout |-> name]
  BY Zenon DEF FreeProc
<1>3. st = "free" /\ name = ""
  OBVIOUS
<1> HIDE DEF st, name, none, no, own, parent, cwd
<1>4. FreeProc \in ProcState /\ FreeProc.st = st /\ FreeProc.stdout = name
  BY <1>1, <1>2, <1>5, <1>6, <1>7, <1>8 DEF ProcState
<1> QED BY <1>3, <1>4 DEF ProcTyped

\* A process that has just been started.
Fresh(child) == ProcTyped(child) /\ child.st = "start" /\ child.stdin = "" /\ child.stdout = ""

LEMMA StartedTyped ==
    ASSUME NEW prog \in Names, NEW argv \in Seq(Words), NEW parent \in Pids \cup {NoPid},
           NEW own \in Owners
    PROVE  /\ Fresh(Started(prog, argv, parent, own))
           /\ Started(prog, argv, parent, own).prog = prog
           /\ Started(prog, argv, parent, own).argv = argv
           /\ Started(prog, argv, parent, own).parent = parent
           /\ Started(prog, argv, parent, own).own = own
<1> DEFINE st == "start"
           n == Started(prog, argv, parent, own)
<1>1. st \in {"free", "start", "run", "wait", "ret", "done"} /\ st = "start"
  OBVIOUS
<1>2. n = [FreeProc EXCEPT !.st = st, !.prog = prog, !.argv = argv, !.parent = parent, !.own = own]
  BY DEF Started
<1>3. FreeProc.stdin = "" /\ FreeProc.stdout = ""
  BY DEF FreeProc
<1> HIDE DEF st, n
<1>4. /\ n \in ProcState /\ n.st = st /\ n.prog = prog /\ n.argv = argv
      /\ n.parent = parent /\ n.own = own /\ n.stdin = FreeProc.stdin /\ n.stdout = FreeProc.stdout
  BY <1>1, <1>2, FreeTyped DEF ProcTyped, ProcState
<1>5. Fresh(n)
  BY <1>1, <1>3, <1>4 DEF ProcTyped, Fresh
<1> QED BY <1>4, <1>5, Zenon DEF n

LEMMA FinishedTyped ==
    ASSUME ProcsOK, NEW p \in Pids, proc[p].st # "free", NEW ok \in BOOLEAN,
           NEW n, n = Finished(p, ok)
    PROVE  Finishes(n, proc[p]) /\ n.ok = ok /\ n.cwd = proc[p].cwd /\ n.exit = proc[p].exit
<1> DEFINE st == "ret"
<1>1. st \in {"free", "start", "run", "wait", "ret", "done"} /\ st = "ret"
  OBVIOUS
<1>2. n = [proc[p] EXCEPT !.st = st, !.ok = ok]
  BY DEF Finished
<1> HIDE DEF st
<1>3. proc[p] \in ProcState /\ proc[p].own \in Owners
  BY DEF ProcsOK, ProcTyped
<1>4. /\ n \in ProcState /\ n.st = st /\ SameProgram(n, proc[p]) /\ SameContext(n, proc[p])
      /\ n.ok = ok /\ n.cwd = proc[p].cwd /\ n.exit = proc[p].exit
  BY <1>1, <1>2, <1>3 DEF ProcState, SameProgram, SameContext
<1> QED BY <1>1, <1>3, <1>4 DEF Finishes, ProcTyped, SameProgram

\* Output that is written under the number of the line and the stage.
LEMMA EmittedTyped ==
    ASSUME ProcsOK, FilesOK, NEW p \in Pids, proc[p].st # "free"
    PROVE  Emitted(p) \in [PipeFiles -> Owners \cup {NoFile, EmptyFile}]
<1>1. proc[p].own \in Owners
  BY DEF ProcsOK, ProcTyped
<1>2. tmp \in [PipeFiles -> Owners \cup {NoFile, EmptyFile}]
  BY DEF FilesOK
<1> QED BY <1>1, <1>2 DEF Emitted

LEMMA CtxReadTyped ==
    ASSUME ProcsOK, FilesOK, NEW p \in Pids, CommandCtxRead(p)
    PROVE  \E n : /\ Becomes(p, n) /\ ProcTyped(n) /\ n.st = "run" /\ SameProgram(n, proc[p])
                  /\ ctx # NoCtx /\ ctx.cmd = proc[p].prog =>
                       n.has_context = TRUE /\ n.arg = ctx.arg /\ n.initial_cwd = ctx.cwd
<1> DEFINE mine == ctx # NoCtx /\ ctx.cmd = proc[p].prog
           cwd == IF mine THEN ctx.cwd ELSE Root
           arg == IF mine THEN ctx.arg ELSE <<>>
           st == "run"
           n == [proc[p] EXCEPT !.st = st, !.has_context = mine, !.arg = arg, !.cwd = cwd, !.initial_cwd = cwd]
<1>1. Becomes(p, n)
  BY Zenon DEF CommandCtxRead, Becomes
<1>2. mine \in BOOLEAN /\ (ctx # NoCtx /\ ctx.cmd = proc[p].prog => mine = TRUE /\ arg = ctx.arg /\ cwd = ctx.cwd)
  BY Zenon
<1>3. cwd \in Dirs /\ arg \in Seq(Words)
  <2>1. ctx.cwd \in Dirs /\ ctx.arg \in Seq(Words)
    BY DEF FilesOK
  <2>2. Root \in Dirs /\ <<>> \in Seq(Words)
    BY ProgramsAssumption
  <2> QED BY <2>1, <2>2, Zenon
<1>4. st \in {"free", "start", "run", "wait", "ret", "done"} /\ st = "run"
  OBVIOUS
<1>5. proc[p] \in ProcState /\ proc[p].own \in Owners
  BY DEF ProcsOK, ProcTyped, CommandCtxRead
<1> HIDE DEF mine, cwd, arg, st
<1>6. /\ n \in ProcState /\ n.st = st /\ SameProgram(n, proc[p])
      /\ n.has_context = mine /\ n.arg = arg /\ n.initial_cwd = cwd
  BY <1>2, <1>3, <1>4, <1>5 DEF ProcState, SameProgram
<1> HIDE DEF n
<1> QED BY <1>1, <1>2, <1>4, <1>5, <1>6 DEF ProcTyped, SameProgram

\* The kernel gives a new process the lowest free slot.
LEMMA NewPidIsFree ==
    ASSUME FreePids # {}
    PROVE  NewPid \in FreePids /\ \A q \in FreePids : NewPid <= q
<1>1. FreePids \subseteq Nat
  BY DEF FreePids, Pids
<1>2. PICK x \in FreePids : \A y \in FreePids : ~(<<y, x>> \in OpToRel(<, Nat))
  BY <1>1, NatLessThanWellFounded, WFMin, Zenon
<1>3. \A y \in FreePids : x <= y
  <2> SUFFICES ASSUME NEW y \in FreePids, ~(x <= y) PROVE FALSE
    OBVIOUS
  <2>1. x \in Nat /\ y \in Nat
    BY <1>1
  <2>2. <<y, x>> \in Nat \X Nat /\ <<y, x>>[1] < <<y, x>>[2]
    BY <2>1
  <2>3. <<y, x>> \in OpToRel(<, Nat)
    BY <2>2 DEF OpToRel
  <2> QED BY <1>2, <2>3
<1> QED BY <1>3 DEF NewPid, Min

\* Process p has done its work and the return file comes next.
Ends(p) == \E n : Becomes(p, n) /\ Finishes(n, proc[p])

LEMMA RunPlainTyped ==
    ASSUME ProcsOK, NEW p \in Pids, RunPlain(p)
    PROVE  Ends(p)
<1>1. PICK ok \in BOOLEAN : proc' = [proc EXCEPT ![p] = Finished(p, ok)]
  BY Zenon DEF RunPlain
<1>2. proc[p].st # "free"
  BY DEF RunPlain
<1> QED BY <1>1, <1>2, FinishedTyped DEF Ends, Becomes

LEMMA RunLogoutTyped ==
    ASSUME ProcsOK, NEW p \in Pids, RunLogout(p)
    PROVE  Ends(p)
<1>1. proc' = [proc EXCEPT ![p] = Finished(p, DiskLogin)] /\ DiskLogin \in BOOLEAN
  BY ProgramsAssumption, Zenon DEF RunLogout
<1>2. proc[p].st # "free"
  BY DEF RunLogout
<1> QED BY <1>1, <1>2, FinishedTyped DEF Ends, Becomes

LEMMA RunCdTyped ==
    ASSUME ProcsOK, NEW p \in Pids, RunCd(p)
    PROVE  Ends(p)
<1> DEFINE target == IF proc[p].arg = <<>> THEN Root ELSE proc[p].arg[1]
           yes == TRUE no == FALSE
           m == Finished(p, yes)
           n == [m EXCEPT !.cwd = target]
<1>1. proc[p].st # "free" /\ yes \in BOOLEAN /\ no \in BOOLEAN
  BY DEF RunCd
<1>2. proc' = [proc EXCEPT ![p] = IF target \in Dirs THEN n ELSE Finished(p, no)]
  BY Zenon DEF RunCd
<1> HIDE DEF yes, no, target
<1>3. CASE target \in Dirs
  <2>1. Finishes(m, proc[p])
    BY <1>1, FinishedTyped
  <2> HIDE DEF m
  <2>2. Finishes(n, proc[p])
    BY <1>3, <2>1 DEF Finishes, ProcTyped, ProcState, SameProgram, SameContext
  <2>3. Becomes(p, n)
    BY <1>2, <1>3, Zenon DEF Becomes
  <2> QED BY <2>2, <2>3, Zenon DEF Ends
<1>4. CASE target \notin Dirs
  <2>1. Finishes(Finished(p, no), proc[p])
    BY <1>1, FinishedTyped
  <2>2. Becomes(p, Finished(p, no))
    BY <1>2, <1>4, Zenon DEF Becomes
  <2> QED BY <2>1, <2>2, Zenon DEF Ends
<1> QED BY <1>3, <1>4

LEMMA RunExitTyped ==
    ASSUME ProcsOK, NEW p \in Pids, RunExit(p)
    PROVE  Ends(p)
<1> DEFINE zero == ExitCode(proc[p].arg) = "0"
           exit == ExitCode(proc[p].arg) \in ExitCodes
           m == Finished(p, zero)
           n == [m EXCEPT !.exit = exit]
<1>1. proc[p].st # "free"
  BY DEF RunExit
<1>2. zero \in BOOLEAN
  OBVIOUS
<1>6. exit \in BOOLEAN
  OBVIOUS
<1>3. Becomes(p, n)
  BY Zenon DEF RunExit, Becomes
<1> HIDE DEF zero, exit
<1>4. Finishes(m, proc[p])
  BY <1>1, <1>2, FinishedTyped
<1> HIDE DEF m
<1>5. Finishes(n, proc[p])
  BY <1>4, <1>6 DEF Finishes, ProcTyped, ProcState, SameProgram, SameContext
<1> QED BY <1>3, <1>5, Zenon DEF Ends

LEMMA TwoProcsMove ==
    ASSUME ProcsOK, NEW p \in Pids, NEW q \in Pids, p # q, NEW n, NEW c, ProcTyped(n), ProcTyped(c),
           proc' = [proc EXCEPT ![q] = c, ![p] = n]
    PROVE  /\ ProcsOK' /\ proc'[p] = n /\ proc'[q] = c
           /\ \A r \in Pids \ {p, q} : proc'[r] = proc[r]
BY DEF ProcsOK, ProcTyped

\* Process p starts a child and goes on as n.
Starts(p, n, child) == FreePids # {} /\ proc' = [proc EXCEPT ![NewPid] = child, ![p] = n]

Suspended(n, m) == ProcTyped(n) /\ n.st = "wait" /\ SameProgram(n, m) /\ SameContext(n, m)

\* exec suspends itself; bg and spawn end, and their children work for nobody.
LEMMA RunStarterTyped ==
    ASSUME ProcsOK, NEW p \in Pids, RunStarter(p)
    PROVE  \/ Ends(p)
           \/ \E n, child :
                 /\ Starts(p, n, child) /\ Suspended(n, proc[p]) /\ Fresh(child)
                 /\ child.parent = p /\ child.own = proc[p].own
           \/ \E n, child :
                 /\ Starts(p, n, child) /\ Finishes(n, proc[p]) /\ Fresh(child)
                 /\ proc[p].prog \in {"bg", "spawn"}
                 /\ child.parent = NoPid /\ IsBackground(child.own)
<1> DEFINE arg == proc[p].arg
           can == arg # <<>> /\ arg[1] \in Installed \ {SystemProgram} /\ FreePids # {}
           yes == TRUE no == FALSE
           waiting == [proc[p] EXCEPT !.st = "wait"]
<1>1. /\ proc[p] \in ProcState /\ proc[p].own \in Owners /\ proc[p].st = "run"
      /\ yes \in BOOLEAN /\ no \in BOOLEAN
  BY DEF ProcsOK, ProcTyped, RunStarter
<1>2. CASE ~can
  <2>1. Becomes(p, Finished(p, no))
    BY <1>2, Zenon DEF RunStarter, Becomes
  <2> HIDE DEF no
  <2>2. Finishes(Finished(p, no), proc[p])
    BY <1>1, FinishedTyped
  <2> QED BY <2>1, <2>2, Zenon DEF Ends
<1>3. CASE can
  <2>1. NewPid \in FreePids /\ NewPid # p /\ FreePids # {}
    BY <1>1, <1>3, NewPidIsFree DEF FreePids
  <2> DEFINE name == arg[1] words == Tail(arg)
  <2>2. name \in Names /\ words \in Seq(Words)
    <3>1. arg \in Seq(Words) /\ arg # <<>>
      BY <1>1, <1>3 DEF ProcState
    <3> HIDE DEF arg
    <3>2. arg[1] \in Words /\ Tail(arg) \in Seq(Words)
      BY <3>1
    <3> QED BY <3>2 DEF Names
  <2>3. CASE proc[p].prog = "exec"
    <3> DEFINE child == Started(name, words, p, proc[p].own)
    <3>1. proc' = [proc EXCEPT ![NewPid] = child, ![p] = [@ EXCEPT !.st = "wait"]]
      BY <1>3, <2>3, Zenon DEF RunStarter
    <3>2. Starts(p, waiting, child)
      BY <2>1, <3>1 DEF Starts, FreePids, ProcsOK
    <3>3. Fresh(child) /\ child.parent = p /\ child.own = proc[p].own
      <4>1. p \in Pids \cup {NoPid} /\ proc[p].own \in Owners
        BY <1>1
      <4> HIDE DEF name, words
      <4> QED BY <2>2, <4>1, StartedTyped
    <3>4. Suspended(waiting, proc[p])
      <4> DEFINE st == "wait"
      <4>1. st \in {"free", "start", "run", "wait", "ret", "done"} /\ st = "wait"
        OBVIOUS
      <4>2. waiting = [proc[p] EXCEPT !.st = st]
        OBVIOUS
      <4> HIDE DEF st, waiting
      <4> QED BY <1>1, <4>1, <4>2 DEF Suspended, ProcTyped, ProcState, SameProgram, SameContext
    <3> QED BY <3>2, <3>3, <3>4, Zenon
  <2>4. CASE proc[p].prog # "exec"
    <3> DEFINE child == Started(name, words, NoPid, Background(proc[p].own))
               n == Finished(p, yes)
    <3>1. Starts(p, n, child)
      BY <1>3, <2>1, <2>4, Zenon DEF RunStarter, Starts
    <3>2. Background(proc[p].own) \in Owners /\ IsBackground(Background(proc[p].own))
      BY <1>1 DEF Owners, Background, IsBackground
    <3>3. Fresh(child) /\ child.parent = NoPid /\ child.own = Background(proc[p].own)
      <4>1. NoPid \in Pids \cup {NoPid}
        OBVIOUS
      <4> HIDE DEF name, words
      <4> QED BY <2>2, <3>2, <4>1, StartedTyped
    <3>4. proc[p].prog \in {"bg", "spawn"}
      BY <2>4 DEF RunStarter
    <3> HIDE DEF yes
    <3>5. Finishes(n, proc[p])
      BY <1>1, FinishedTyped
    <3> QED BY <3>1, <3>2, <3>3, <3>4, <3>5, Zenon
  <2> QED BY <2>3, <2>4
<1> QED BY <1>2, <1>3

LEMMA StarterResumesTyped ==
    ASSUME ProcsOK, NEW p \in Pids, StarterResumes(p)
    PROVE  \E c \in Pids \ {p} : \E n :
              /\ proc[c].parent = p /\ proc[c].st = "done" /\ Finishes(n, proc[p])
              /\ proc' = [proc EXCEPT ![c] = FreeProc, ![p] = n]
<1>1. PICK c \in Pids :
         /\ proc[c].parent = p /\ proc[c].st = "done"
         /\ proc' = [proc EXCEPT ![p] = Finished(p, proc[c].ok), ![c] = FreeProc]
  BY Zenon DEF StarterResumes
<1>2. proc[p].st = "wait" /\ c # p
  BY <1>1 DEF StarterResumes
<1>3. proc[c].ok \in BOOLEAN
  BY DEF ProcsOK, ProcState
<1> DEFINE n == Finished(p, proc[c].ok)
<1>4. Finishes(n, proc[p])
  BY <1>2, <1>3, FinishedTyped
<1> HIDE DEF n
<1>5. proc' = [proc EXCEPT ![c] = FreeProc, ![p] = n]
  BY <1>1, <1>2 DEF n, ProcsOK
<1> QED BY <1>1, <1>2, <1>4, <1>5

\* A background process leaves the table, another one waits to be seen.
Over(n, m) ==
    \/ n = FreeProc /\ m.parent = NoPid /\ IsBackground(m.own)
    \/ ProcTyped(n) /\ n.st = "done" /\ SameProgram(n, m) /\ ~(m.parent = NoPid /\ IsBackground(m.own))

LEMMA EndedTyped ==
    ASSUME ProcsOK, NEW p \in Pids, proc[p].st # "free", NEW ok \in BOOLEAN, NEW n, n = Ended(p, ok)
    PROVE  ProcTyped(n) /\ Over(n, proc[p]) /\ (n # FreeProc => n.ok = ok)
<1> DEFINE st == "done"
           d == [proc[p] EXCEPT !.st = st, !.ok = ok]
<1>1. st \in {"free", "start", "run", "wait", "ret", "done"} /\ st = "done"
  OBVIOUS
<1>2. n = IF proc[p].parent = NoPid /\ IsBackground(proc[p].own) THEN FreeProc ELSE d
  BY Zenon DEF Ended
<1> HIDE DEF st
<1>3. proc[p] \in ProcState /\ proc[p].own \in Owners
  BY DEF ProcsOK, ProcTyped
<1>4. ProcTyped(d) /\ d.st = "done" /\ SameProgram(d, proc[p]) /\ d.ok = ok
  BY <1>1, <1>3 DEF ProcState, ProcTyped, SameProgram
<1> HIDE DEF d
<1> QED BY <1>2, <1>4, FreeTyped, Zenon DEF Over

LEMMA RetWriteTyped ==
    ASSUME ProcsOK, FilesOK, NEW p \in Pids, CommandRetWrite(p)
    PROVE  /\ \E n : Becomes(p, n) /\ ProcTyped(n) /\ Over(n, proc[p]) /\ (n # FreeProc => n.ok = proc[p].ok)
           /\ ret' \in [chdir : BOOLEAN, cwd : Dirs, exit : BOOLEAN, by : Owners \cup {NoOne}]
           /\ ret' = ret \/ ret'.by = proc[p].own
<1>1. proc[p] \in ProcState /\ proc[p].own \in Owners /\ proc[p].st # "free" /\ proc[p].ok \in BOOLEAN
  BY DEF ProcsOK, ProcTyped, ProcState, CommandRetWrite
<1>2. Becomes(p, Ended(p, proc[p].ok))
  BY DEF CommandRetWrite, Becomes
<1> DEFINE chdir == proc[p].cwd # proc[p].initial_cwd
           content == [chdir |-> chdir, cwd |-> proc[p].cwd, exit |-> proc[p].exit, by |-> proc[p].own]
<1>3. ret' = content \/ ret' = ret
  BY Zenon DEF CommandRetWrite
<1>4. chdir \in BOOLEAN
  OBVIOUS
<1> HIDE DEF chdir
<1>5. /\ content \in [chdir : BOOLEAN, cwd : Dirs, exit : BOOLEAN, by : Owners \cup {NoOne}]
      /\ content.by = proc[p].own
  BY <1>1, <1>4 DEF ProcState
<1> HIDE DEF content
<1>6. \E n : Becomes(p, n) /\ ProcTyped(n) /\ Over(n, proc[p]) /\ (n # FreeProc => n.ok = proc[p].ok)
  BY <1>1, <1>2, EndedTyped
<1> QED BY <1>3, <1>5, <1>6 DEF FilesOK

LEMMA KilledTyped ==
    ASSUME ProcsOK, NEW p \in Pids, Killed(p)
    PROVE  \E n : Becomes(p, n) /\ ProcTyped(n) /\ Over(n, proc[p]) /\ (n # FreeProc => n.ok = FALSE)
<1>1. proc[p].st # "free" /\ Becomes(p, Ended(p, FALSE))
  BY DEF Killed, Becomes
<1> QED BY <1>1, EndedTyped

-----------------------------------------------------------------------------
(* Where launchers and programs meet.                                      *)

LEMMA StageTyped ==
    ASSUME LaunchersOK, NEW l \in Launchers, sh[l].pc \in AtStage
    PROVE  /\ Stage(l) \in Stages /\ Owner(l) \in Owners
           /\ sh[l].i \in Nat /\ sh[l].i >= 1 /\ Len(sh[l].stages) \in Nat /\ sh[l].i <= Len(sh[l].stages)
<1>1. /\ sh[l].stages \in Seq(Stages) /\ sh[l].i \in Nat /\ sh[l].total \in Nat
      /\ sh[l].i <= Len(sh[l].stages) /\ sh[l].i >= 1
  BY DEF LaunchersOK, LauncherTyped, LauncherState, StageInLine
<1>2. Len(sh[l].stages) \in Nat
  BY <1>1, LenProperties
<1>3. sh[l].i \in 1..Len(sh[l].stages)
  BY <1>1, <1>2
<1>4. Stage(l) \in Stages
  BY <1>1, <1>3, ElementOfSeq DEF Stage
<1>5. Owner(l) \in Owners
  BY <1>1 DEF Owner, Owners
<1> QED BY <1>1, <1>2, <1>4, <1>5

\* The program of the stage, with the stage's files.
Launched(c, l) ==
    /\ ProcTyped(c) /\ c.st = "start" /\ c.prog = Stage(l).prog /\ c.argv = Stage(l).arg
    /\ c.parent = NoPid /\ c.own = Owner(l) /\ c.stdin = sh[l].input
    /\ c.stdout = IF Last(l) THEN "" ELSE sh[l].toggle

LEMMA ExecPathvTyped ==
    ASSUME LaunchersOK, ProcsOK, NEW l \in Launchers, ExecPathv(l)
    PROVE  /\ \E c : Becomes(NewPid, c) /\ Launched(c, l)
           /\ NewPid \in FreePids /\ NewPid \in Pids
<1> DEFINE prog == Stage(l).prog
           arg == Stage(l).arg
           s == Started(prog, arg, NoPid, Owner(l))
           stdin == sh[l].input
           stdout == IF Last(l) THEN "" ELSE sh[l].toggle
           c == [s EXCEPT !.stdin = stdin, !.stdout = stdout]
<1>1. sh[l].pc = "exec" /\ sh[l].pc \in AtStage
  BY DEF ExecPathv, At, AtStage
<1>2. Stage(l) \in Stages /\ Owner(l) \in Owners
  BY <1>1, StageTyped
<1>3. prog \in Names /\ arg \in Seq(Words)
  BY <1>2 DEF Stages, Names
<1>4. stdin \in PipeFiles \cup {""} /\ stdout \in PipeFiles \cup {""}
  BY DEF LaunchersOK, LauncherState
<1>5. Becomes(NewPid, c)
  BY Zenon DEF ExecPathv, Becomes
<1>6. NoPid \in Pids \cup {NoPid}
  OBVIOUS
<1>7. NewPid \in FreePids /\ NewPid \in Pids
  BY NewPidIsFree DEF ExecPathv, FreePids
<1> HIDE DEF prog, arg, stdin, stdout
<1>8. /\ ProcTyped(s) /\ s.st = "start" /\ s.prog = prog /\ s.argv = arg
      /\ s.parent = NoPid /\ s.own = Owner(l)
  <2>1. Fresh(s) /\ s.prog = prog /\ s.argv = arg /\ s.parent = NoPid /\ s.own = Owner(l)
    BY <1>2, <1>3, <1>6, StartedTyped
  <2> QED BY <2>1 DEF Fresh
<1> HIDE DEF s
<1>9. /\ c \in ProcState /\ c.st = s.st /\ c.prog = s.prog /\ c.argv = s.argv
      /\ c.parent = s.parent /\ c.own = s.own /\ c.stdin = stdin /\ c.stdout = stdout
  BY <1>4, <1>8 DEF ProcTyped, ProcState
<1> HIDE DEF c
<1>10. Launched(c, l)
  BY <1>2, <1>8, <1>9 DEF Launched, ProcTyped, prog, arg, stdin, stdout
<1> QED BY <1>5, <1>7, <1>10

LEMMA WaitedTyped ==
    ASSUME LaunchersOK, ProcsOK, NEW l \in Launchers, Waited(l)
    PROVE  \E p \in Pids, r \in Results :
              /\ proc[p].st = "done" /\ proc[p].parent = NoPid /\ proc[p].own = Owner(l)
              /\ Becomes(p, FreeProc) /\ (r = "ok" => proc[p].ok)
              /\ sh' = [sh EXCEPT ![l].result = r, ![l].pc = "apply"]
<1>1. PICK p \in Pids :
         /\ proc[p].st = "done" /\ proc[p].parent = NoPid /\ proc[p].own = Owner(l)
         /\ sh' = [sh EXCEPT ![l].result = IF proc[p].ok THEN "ok" ELSE "fail", ![l].pc = "apply"]
         /\ proc' = [proc EXCEPT ![p] = FreeProc]
  BY Zenon DEF Waited
<1> DEFINE r == IF proc[p].ok THEN "ok" ELSE "fail"
<1>2. r \in Results /\ (r = "ok" => proc[p].ok)
  BY DEF Results
<1> QED BY <1>1, <1>2, Zenon DEF Becomes

LEMMA NothingTyped ==
    /\ NoCtx \in [cmd : Names, arg : Seq(Words), cwd : Dirs, by : Owners \cup {NoOne}]
    /\ NoRet \in [chdir : BOOLEAN, cwd : Dirs, exit : BOOLEAN, by : Owners \cup {NoOne}]
<1> DEFINE cmd == "" arg == <<>> cwd == Root by == NoOne no == FALSE
<1>1. cmd \in Names
  BY DEF Names
<1>2. arg \in Seq(Words)
  OBVIOUS
<1>3. cwd \in Dirs /\ no \in BOOLEAN
  BY ProgramsAssumption
<1>4. by \in Owners \cup {NoOne}
  OBVIOUS
<1>5. /\ NoCtx = [cmd |-> cmd, arg |-> arg, cwd |-> cwd, by |-> by]
      /\ NoRet = [chdir |-> no, cwd |-> cwd, exit |-> no, by |-> by]
  BY Zenon DEF NoCtx, NoRet
<1> HIDE DEF cmd, arg, cwd, by, no
<1> QED BY <1>1, <1>2, <1>3, <1>4, <1>5

LEMMA CtxWritten ==
    ASSUME LaunchersOK, NEW l \in Launchers, sh[l].pc \in AtStage
    PROVE  [cmd |-> Stage(l).prog, arg |-> Stage(l).arg, cwd |-> sh[l].cwd, by |-> Owner(l)]
             \in [cmd : Names, arg : Seq(Words), cwd : Dirs, by : Owners \cup {NoOne}]
<1> DEFINE cmd == Stage(l).prog arg == Stage(l).arg cwd == sh[l].cwd by == Owner(l)
<1>1. Stage(l) \in Stages /\ Owner(l) \in Owners
  BY StageTyped
<1>2. cmd \in Names /\ arg \in Seq(Words) /\ by \in Owners \cup {NoOne}
  BY <1>1 DEF Stages, Names
<1>3. cwd \in Dirs
  BY DEF LaunchersOK, LauncherState
<1> HIDE DEF cmd, arg, cwd, by
<1>4. [cmd |-> cmd, arg |-> arg, cwd |-> cwd, by |-> by]
        \in [cmd : Names, arg : Seq(Words), cwd : Dirs, by : Owners \cup {NoOne}]
  BY <1>2, <1>3
<1> QED BY <1>4 DEF cmd, arg, cwd, by

\* The steps between the start of a stage and its end, by where they lead.
LEMMA LookUpTyped ==
    ASSUME LaunchersOK, NEW l \in Launchers, LookUp(l)
    PROVE  /\ LaunchersOK' /\ StageKept(l) /\ sh'[l].cwd = sh[l].cwd
           /\ \/ sh'[l].pc = "close" /\ sh'[l].result \in {"fail", "unknown"}
              \/ sh'[l].pc \in {"reset", "drop"} /\ Stage(l).prog \in Installed
<1>1. sh[l].pc \in AtStage
  BY DEF LookUp, At, AtStage
<1>2. CASE \E r \in {"fail", "unknown"} : Result(l, r)
  <2>1. PICK r \in {"fail", "unknown"} : sh' = [sh EXCEPT ![l].result = r, ![l].pc = "close"]
    BY <1>2 DEF Result
  <2> DEFINE pc == "close"
  <2>2. r \in Results /\ pc \in AtStage /\ pc \notin AllClosed /\ pc = "close"
    BY DEF Results, AtStage, AllClosed
  <2>3. sh' = [sh EXCEPT ![l].result = r, ![l].pc = pc]
    BY <2>1
  <2> HIDE DEF pc
  <2>4. LaunchersOK' /\ StageKept(l) /\ sh'[l].pc = pc /\ sh'[l].cwd = sh[l].cwd /\ sh'[l].result = r
    BY <1>1, <2>2, <2>3, Settles
  <2> QED BY <2>2, <2>4
<1>3. CASE Stage(l).prog \in Installed /\ \E pc \in {"reset", "drop"} : Goto(l, pc)
  <2>1. PICK pc \in {"reset", "drop"} : Goto(l, pc)
    BY <1>3
  <2>2. pc \in AtStage /\ pc \notin AllClosed
    BY DEF AtStage, AllClosed
  <2> QED BY <1>1, <1>3, <2>1, <2>2, Goes
<1>4. \/ \E r \in {"fail", "unknown"} : Result(l, r)
      \/ Stage(l).prog \in Installed /\ \E pc \in {"reset", "drop"} : Goto(l, pc)
  BY DEF LookUp
<1> QED BY <1>2, <1>3, <1>4

LEMMA FailsTyped ==
    ASSUME LaunchersOK, NEW l \in Launchers, sh[l].pc \in AtStage, Result(l, "fail")
    PROVE  /\ LaunchersOK' /\ StageKept(l) /\ sh'[l].pc = "close" /\ sh'[l].cwd = sh[l].cwd
           /\ sh'[l].result = "fail"
<1> DEFINE pc == "close" r == "fail"
<1>1. r \in Results /\ pc \in AtStage /\ pc \notin AllClosed /\ pc = "close" /\ r = "fail"
  BY DEF Results, AtStage, AllClosed
<1>2. sh' = [sh EXCEPT ![l].result = r, ![l].pc = pc]
  BY DEF Result
<1> HIDE DEF pc, r
<1>3. LaunchersOK' /\ StageKept(l) /\ sh'[l].pc = pc /\ sh'[l].cwd = sh[l].cwd /\ sh'[l].result = r
  BY <1>1, <1>2, Settles
<1> QED BY <1>1, <1>3

LEMMA ExecFailsTyped ==
    ASSUME LaunchersOK, NEW l \in Launchers, ExecFails(l)
    PROVE  /\ LaunchersOK' /\ StageKept(l) /\ sh'[l].pc \in {"abort", "rmctx", "apply"}
           /\ sh'[l].cwd = sh[l].cwd /\ sh'[l].result = "fail"
<1> DEFINE r == "fail"
           pc == IF IsShell(l) THEN "abort" ELSE IF Kind[l] = "terminal" THEN "rmctx" ELSE "apply"
<1>1. /\ r \in Results /\ r = "fail" /\ pc \in {"abort", "rmctx", "apply"}
      /\ sh[l].pc \in AtStage
  BY DEF Results, ExecFails, At, AtStage
<1>2. sh' = [sh EXCEPT ![l].result = r, ![l].pc = pc]
  BY Zenon DEF ExecFails
<1> HIDE DEF pc, r
<1>3. pc \in AtStage /\ pc \notin AllClosed
  BY <1>1 DEF AtStage, AllClosed
<1>4. LaunchersOK' /\ StageKept(l) /\ sh'[l].pc = pc /\ sh'[l].cwd = sh[l].cwd /\ sh'[l].result = r
  BY <1>1, <1>2, <1>3, Settles
<1> QED BY <1>1, <1>4

\* The launcher has gone on to pc, with result r, in the stage it was at.
Moved(l, pc, r) ==
    StageKept(l) /\ sh'[l].pc = pc /\ sh'[l].cwd = sh[l].cwd /\ sh'[l].result = r

LEMMA GoesOn ==
    ASSUME LaunchersOK, NEW l \in Launchers
    PROVE  /\ DropContext(l) => LaunchersOK' /\ Moved(l, "reset", sh[l].result)
           /\ CommandRetReset(l) => LaunchersOK' /\ Moved(l, "context", sh[l].result)
           /\ ExecPathv(l) => LaunchersOK' /\ Moved(l, "wait", sh[l].result)
           /\ AbortRemovesContext(l) => LaunchersOK' /\ Moved(l, "close", sh[l].result)
           /\ RemoveCtx(l) => LaunchersOK' /\ Moved(l, "rmret", sh[l].result)
           /\ RemoveRet(l) => LaunchersOK' /\ Moved(l, "close", sh[l].result)
           /\ CaptureFails(l) => LaunchersOK' /\ Moved(l, "close", "fail")
           /\ CommandCtxWrite(l) =>
                LaunchersOK' /\ (Moved(l, "exec", sh[l].result) \/ Moved(l, "close", "fail"))
<1>1. \A pc \in {"reset", "context", "exec", "wait", "close", "rmret"} :
         sh[l].pc \in AtStage /\ Goto(l, pc) => LaunchersOK' /\ Moved(l, pc, sh[l].result)
  <2> TAKE pc \in {"reset", "context", "exec", "wait", "close", "rmret"}
  <2>1. pc \in AtStage /\ pc \notin AllClosed
    BY DEF AtStage, AllClosed
  <2> QED BY <2>1, Goes DEF Moved
<1>2. sh[l].pc \in AtStage /\ Result(l, "fail") => LaunchersOK' /\ Moved(l, "close", "fail")
  BY FailsTyped DEF Moved
<1>3. {"drop", "reset", "context", "exec", "abort", "rmctx", "rmret"} \subseteq AtStage
  BY DEF AtStage
<1> QED BY <1>1, <1>2, <1>3 DEF DropContext, CommandRetReset, ExecPathv, AbortRemovesContext,
           RemoveCtx, RemoveRet, CaptureFails, CommandCtxWrite, At

LEMMA WaitedLauncher ==
    ASSUME LaunchersOK, NEW l \in Launchers, sh[l].pc = "wait", NEW r \in Results,
           sh' = [sh EXCEPT ![l].result = r, ![l].pc = "apply"]
    PROVE  /\ LaunchersOK' /\ StageKept(l) /\ sh'[l].pc = "apply"
           /\ sh'[l].cwd = sh[l].cwd /\ sh'[l].result = r
<1> DEFINE pc == "apply"
<1>1. pc \in AtStage /\ pc \notin AllClosed /\ pc = "apply" /\ sh[l].pc \in AtStage
  BY DEF AtStage, AllClosed
<1>2. sh' = [sh EXCEPT ![l].result = r, ![l].pc = pc]
  OBVIOUS
<1> HIDE DEF pc
<1>3. LaunchersOK' /\ StageKept(l) /\ sh'[l].pc = pc /\ sh'[l].cwd = sh[l].cwd /\ sh'[l].result = r
  BY <1>1, <1>2, Settles
<1> QED BY <1>1, <1>3

\* Every field of a launcher and of a process keeps its type.
LEMMA LauncherKeepsTypes ==
    ASSUME Typed, NEW l \in Launchers, LauncherStep(l) \/ UserStep(l)
    PROVE  Typed'
<1> USE DEF Typed
<1> DEFINE SessionOK == session \in [Launchers -> BOOLEAN]
<1>1. CASE Boot(l)
  <2>1. LaunchersOK'
    BY <1>1, BootTyped
  <2>2. SessionOK'
    BY <1>1 DEF Boot
  <2>3. FilesOK' /\ ProcsOK'
    BY <1>1 DEF Boot, files, FilesOK, ProcsOK
  <2> QED BY <2>1, <2>2, <2>3
<1>2. CASE \/ ScriptReturns(l) \/ LauncherExits(l) \/ PipelineRefuses(l) \/ StageOpenFails(l)
           \/ LookUp(l) \/ CaptureFails(l) \/ ExecFails(l) \/ ApplyCommandRet(l)
           \/ ShellBuiltin(l) \/ ShellExternal(l) \/ DaemonBuiltin(l) \/ DaemonExternal(l)
  <2>1. LaunchersOK'
    BY <1>2, ScriptReturnsTyped, LauncherExitsTyped, PipelineRefusesTyped, StageOpenFailsTyped,
       LookUpTyped, GoesOn, ExecFailsTyped, ApplyTyped, ShellBuiltinTyped, ShellExternalTyped,
       DaemonBuiltinTyped, DaemonExternalTyped
  <2>2. UNCHANGED <<ctx, ret, tmp, proc, session>>
    BY <1>2 DEF ScriptReturns, LauncherExits, PipelineRefuses, StageOpenFails, LookUp, CaptureFails,
       ExecFails, ApplyCommandRet, ShellBuiltin, ShellExternal, DaemonBuiltin, DaemonExternal, files
  <2>3. FilesOK' /\ ProcsOK' /\ SessionOK'
    BY <2>2 DEF FilesOK, ProcsOK
  <2> QED BY <2>1, <2>3
<1>3. CASE StageOpen(l) \/ StageDone(l) \/ ShellPipeline(l)
  <2>1. LaunchersOK'
    BY <1>3, StageOpenTyped, StageDoneTyped, ShellPipelineTyped
  <2>2. UNCHANGED <<ctx, ret, proc, session>>
    BY <1>3 DEF StageOpen, StageDone, ShellPipeline
  <2>3. tmp' \in [PipeFiles -> Owners \cup {NoFile, EmptyFile}]
    <3>1. \/ tmp' = tmp
          \/ tmp' = [tmp EXCEPT ![sh[l].toggle] = EmptyFile]
          \/ tmp' = [f \in PipeFiles |-> NoFile]
      BY <1>3, Zenon DEF StageOpen, StageDone, ShellPipeline
    <3> QED BY <3>1 DEF FilesOK
  <2> QED BY <2>1, <2>2, <2>3 DEF FilesOK, ProcsOK
<1>4. CASE DropContext(l) \/ AbortRemovesContext(l) \/ RemoveCtx(l) \/ CommandCtxWrite(l)
  <2>1. LaunchersOK'
    BY <1>4, GoesOn
  <2>2. UNCHANGED <<ret, tmp, proc, session>>
    BY <1>4 DEF DropContext, AbortRemovesContext, RemoveCtx, CommandCtxWrite
  <2>3. \/ ctx' = ctx \/ ctx' = NoCtx
        \/ /\ sh[l].pc \in AtStage
           /\ ctx' = [cmd |-> Stage(l).prog, arg |-> Stage(l).arg, cwd |-> sh[l].cwd, by |-> Owner(l)]
    BY <1>4 DEF DropContext, AbortRemovesContext, RemoveCtx, CommandCtxWrite, At, AtStage
  <2>4. ctx' \in [cmd : Names, arg : Seq(Words), cwd : Dirs, by : Owners \cup {NoOne}]
    BY <2>3, NothingTyped, CtxWritten, Zenon DEF FilesOK
  <2> QED BY <2>1, <2>2, <2>4 DEF FilesOK, ProcsOK
<1>5. CASE CommandRetReset(l) \/ RemoveRet(l)
  <2>1. LaunchersOK'
    BY <1>5, GoesOn
  <2>2. UNCHANGED <<ctx, tmp, proc, session>> /\ ret' = NoRet
    BY <1>5 DEF CommandRetReset, RemoveRet
  <2> QED BY <2>1, <2>2, NothingTyped DEF FilesOK, ProcsOK
<1>6. CASE ExecPathv(l)
  <2>1. LaunchersOK'
    BY <1>6, GoesOn
  <2>2. ProcsOK'
    BY <1>6, ExecPathvTyped, ProcMoves DEF Launched
  <2>3. UNCHANGED <<ctx, ret, tmp, session>>
    BY <1>6 DEF ExecPathv, files
  <2> QED BY <2>1, <2>2, <2>3 DEF FilesOK
<1>7. CASE Waited(l)
  <2>1. PICK p \in Pids, r \in Results :
           Becomes(p, FreeProc) /\ sh' = [sh EXCEPT ![l].result = r, ![l].pc = "apply"]
    BY <1>7, WaitedTyped
  <2>2. LaunchersOK'
    BY <1>7, <2>1, WaitedLauncher DEF Waited, At
  <2>3. ProcsOK'
    BY <2>1, FreeTyped, ProcMoves
  <2>4. UNCHANGED <<ctx, ret, tmp, session>>
    BY <1>7 DEF Waited, files
  <2> QED BY <2>2, <2>3, <2>4 DEF FilesOK
<1>8. CASE ShellLogout(l) \/ SyncUserState(l) \/ Login(l)
  <2>1. LaunchersOK'
    BY <1>8, ShellLogoutTyped, SyncTyped, LoginTyped
  <2>2. UNCHANGED <<ctx, ret, tmp, proc>>
    BY <1>8 DEF ShellLogout, SyncUserState, Login, files
  <2>3. SessionOK'
    BY <1>8 DEF ShellLogout, SyncUserState, Login
  <2> QED BY <2>1, <2>2, <2>3 DEF FilesOK, ProcsOK
<1> QED BY <1>1, <1>2, <1>3, <1>4, <1>5, <1>6, <1>7, <1>8 DEF LauncherStep, UserStep

LEMMA ProgramKeepsTypes ==
    ASSUME Typed, NEW p \in Pids, ProgramStep(p) \/ KillStep(p)
    PROVE  Typed'
<1> USE DEF Typed
<1> DEFINE SessionOK == session \in [Launchers -> BOOLEAN]
           TmpOK == tmp \in [PipeFiles -> Owners \cup {NoFile, EmptyFile}]
<1>1. LaunchersOK'
  BY DEF ProgramStep, KillStep, LaunchersOK
<1>2. CASE RunPlain(p) \/ RunCd(p) \/ RunExit(p) \/ RunLogout(p) \/ RunStarter(p)
  <2>1. ProcsOK'
    <3>1. CASE Ends(p)
      BY <3>1, ProcMoves DEF Ends, Finishes
    <3>2. CASE \E n, child : Starts(p, n, child) /\ ProcTyped(n) /\ ProcTyped(child)
      <4>1. PICK n, child : Starts(p, n, child) /\ ProcTyped(n) /\ ProcTyped(child)
        BY <3>2
      <4>2. NewPid \in Pids /\ NewPid # p
        BY <1>2, <4>1, NewPidIsFree
           DEF Starts, FreePids, RunPlain, RunCd, RunExit, RunLogout, RunStarter
      <4> QED BY <4>1, <4>2, TwoProcsMove DEF Starts
    <3> QED BY <1>2, <3>1, <3>2, RunPlainTyped, RunCdTyped, RunExitTyped, RunLogoutTyped,
               RunStarterTyped DEF Suspended, Finishes, Fresh
  <2>2. ctx' = ctx /\ ret' = ret /\ tmp' = Emitted(p) /\ proc[p].st # "free"
    BY <1>2 DEF RunPlain, RunCd, RunExit, RunLogout, RunStarter
  <2>3. SessionOK'
    BY <1>2 DEF RunPlain, RunCd, RunExit, RunLogout, RunStarter
  <2>4. TmpOK'
    BY <2>2, EmittedTyped
  <2> QED BY <1>1, <2>1, <2>2, <2>3, <2>4 DEF FilesOK
<1>3. CASE CommandCtxRead(p)
  <2>1. ProcsOK'
    BY <1>3, CtxReadTyped, ProcMoves
  <2> QED BY <1>1, <1>3, <2>1 DEF CommandCtxRead, FilesOK
<1>4. CASE StarterResumes(p)
  <2>1. PICK c \in Pids \ {p} : \E n :
           Finishes(n, proc[p]) /\ proc' = [proc EXCEPT ![c] = FreeProc, ![p] = n]
    BY <1>4, StarterResumesTyped
  <2>2. PICK n : ProcTyped(n) /\ proc' = [proc EXCEPT ![c] = FreeProc, ![p] = n]
    BY <2>1 DEF Finishes
  <2>3. ProcsOK'
    BY <2>2, FreeTyped, TwoProcsMove
  <2> QED BY <1>1, <1>4, <2>3 DEF StarterResumes, FilesOK
<1>5. CASE CommandRetWrite(p)
  <2>1. ProcsOK' /\ ret' \in [chdir : BOOLEAN, cwd : Dirs, exit : BOOLEAN, by : Owners \cup {NoOne}]
    BY <1>5, RetWriteTyped, ProcMoves
  <2> QED BY <1>1, <1>5, <2>1 DEF CommandRetWrite, FilesOK
<1>6. CASE Killed(p)
  <2>1. ProcsOK'
    BY <1>6, KilledTyped, ProcMoves
  <2> QED BY <1>1, <1>6, <2>1 DEF Killed, FilesOK
<1> QED BY <1>2, <1>3, <1>4, <1>5, <1>6 DEF ProgramStep, ProcStep, KillStep

LEMMA InitTyped == Init => Typed
<1> SUFFICES ASSUME Init PROVE Typed
  OBVIOUS
<1> DEFINE pc == "boot" no == FALSE none == <<>> i == 0 toggle == "A" input == "" fds == {} result == "ok"
           s == InitLauncher
<1>1. pc \in Pcs /\ i \in Nat /\ pc = "boot" /\ i = 0
  BY DEF Pcs
<1>2. toggle \in PipeFiles /\ input \in PipeFiles \cup {""} /\ input = "" /\ result \in Results
  BY DEF PipeFiles, Results
<1>3. none \in Seq(Stages) /\ none \in Todos /\ none = <<>>
  BY DEF Todos
<1>4. fds \in SUBSET {"in", "out"} /\ fds = {}
  OBVIOUS
<1>5. no \in BOOLEAN /\ Root \in Dirs
  BY ProgramsAssumption
<1>6. s = [pc |-> pc, cwd |-> Root, exit |-> no, logged_in |-> no, todo |-> none, stages |-> none,
           i |-> i, toggle |-> toggle, input |-> input, fds |-> fds, result |-> result,
           total |-> i, ok |-> i, fail |-> i, unknown |-> i]
  BY Zenon DEF InitLauncher
<1> HIDE DEF pc, no, none, i, toggle, input, fds, result, s
<1>7. /\ s \in LauncherState /\ s.pc = pc /\ s.stages = none /\ s.i = i /\ s.input = input
      /\ s.fds = fds /\ s.total = i /\ s.ok = i /\ s.fail = i /\ s.unknown = i
  BY <1>1, <1>2, <1>3, <1>4, <1>5, <1>6 DEF LauncherState, Todos
<1>8. LauncherTyped(s)
  <2>1. Counters(s)
    BY <1>1, <1>7 DEF Counters
  <2>2. StageInLine(s)
    <3>1. Len(none) = 0
      BY <1>3
    <3>2. s.pc \notin AtStage
      BY <1>1, <1>7 DEF AtStage
    <3> QED BY <1>1, <1>3, <1>7, <3>1, <3>2 DEF StageInLine
  <2>3. FilesClosed(s) /\ Between(s)
    BY <1>1, <1>2, <1>3, <1>4, <1>7 DEF FilesClosed, Between
  <2> QED BY <1>7, <2>1, <2>2, <2>3 DEF LauncherTyped
<1>9. LaunchersOK
  BY <1>7, <1>8 DEF Init, LaunchersOK, s
<1>10. ProcsOK
  BY FreeTyped DEF Init, ProcsOK, ProcTyped
<1>11. FilesOK
  BY NothingTyped DEF Init, FilesOK
<1> QED BY <1>9, <1>10, <1>11 DEF Init, Typed

LEMMA TypedStep == Typed /\ [Next]_vars => Typed'
<1> SUFFICES ASSUME Typed, [Next]_vars PROVE Typed'
  OBVIOUS
<1>1. CASE \E l \in Launchers : LauncherStep(l) \/ UserStep(l)
  BY <1>1, LauncherKeepsTypes
<1>2. CASE \E p \in Pids : ProgramStep(p) \/ KillStep(p)
  BY <1>2, ProgramKeepsTypes
<1>3. CASE UNCHANGED vars
  BY <1>3 DEF vars, Typed, LaunchersOK, ProcsOK, FilesOK
<1> QED BY <1>1, <1>2, <1>3 DEF Next

LEMMA AlwaysTyped == Spec => []Typed
BY InitTyped, TypedStep, PTL DEF Spec

\* Every launcher and every process keeps its type, however many there are and
\* whatever programs they run; the counters of shstat stay a sum.
THEOREM LaunchersTyped == Spec => []TypeOK
<1>1. Typed => TypeOK
  <2> SUFFICES ASSUME Typed PROVE TypeOK
    OBVIOUS
  <2>1. ASSUME NEW l \in Launchers
        PROVE  /\ sh[l].pc \in Pcs /\ sh[l].cwd \in Dirs
               /\ sh[l].exit \in BOOLEAN /\ sh[l].logged_in \in BOOLEAN
               /\ sh[l].fds \subseteq {"in", "out"}
               /\ sh[l].input \in PipeFiles \cup {""} /\ sh[l].toggle \in PipeFiles
               /\ sh[l].result \in {"ok", "fail", "unknown"}
               /\ sh[l].total = sh[l].ok + sh[l].fail /\ sh[l].unknown <= sh[l].fail
    BY <2>1 DEF Typed, LaunchersOK, LauncherTyped, LauncherState, Counters, Results
  <2>2. ASSUME NEW l \in Launchers PROVE sh[l].i \in 0..Len(sh[l].stages)
    <3>1. sh[l].stages \in Seq(Stages) /\ sh[l].i \in Nat /\ sh[l].i <= Len(sh[l].stages)
      BY DEF Typed, LaunchersOK, LauncherTyped, LauncherState, StageInLine
    <3>2. Len(sh[l].stages) \in Nat
      BY <3>1, LenProperties
    <3> QED BY <3>1, <3>2
  <2>3. ASSUME NEW p \in Pids
        PROVE  /\ proc[p].st \in {"free", "start", "run", "wait", "ret", "done"}
               /\ proc[p].parent \in Pids \cup {NoPid} /\ proc[p].cwd \in Dirs
    BY <2>3 DEF Typed, ProcsOK, ProcState
  <2> QED BY <2>1, <2>2, <2>3 DEF Typed, TypeOK
<1> QED BY <1>1, AlwaysTyped, PTL

\* execute_pipeline closes what it opened on every one of its returns.
THEOREM NothingStaysOpen == Spec => []NothingLeftOpen
<1>1. Typed => NothingLeftOpen
  BY DEF Typed, LaunchersOK, LauncherTyped, FilesClosed, AllClosed, NothingLeftOpen
<1> QED BY <1>1, AlwaysTyped, PTL

(***************************************************************************)
(* What holds as long as one launcher runs at a time: the context file, the *)
(* return file and the pipe files have fixed names, so that a second one    *)
(* would overwrite them.  The programs, the lines, the directories, the size *)
(* of the process table and what may fail are arbitrary.                    *)
(***************************************************************************)

(* The context file.                                                       *)

\* What CommandCtxWrite leaves for the stage launcher l is at.
Context(l) ==
    [cmd |-> Stage(l).prog, arg |-> Stage(l).arg, cwd |-> sh[l].cwd, by |-> Owner(l)]

\* From the write until the program has ended the file holds this stage.
ContextStands(l) == sh[l].pc \in {"exec", "wait"} => ctx = Context(l)

\* The process m was started by a launcher and not by bg or spawn.
IsForeground(m) == m.st # "free" /\ m.parent = NoPid /\ ~IsBackground(m.own)
Runs(m) == m.st \in {"run", "wait", "ret"}
HasContext(m, l) == m.has_context = TRUE /\ m.arg = m.argv /\ m.initial_cwd = sh[l].cwd

\* m is the program of the stage launcher l is at.
OfStage(m, l) ==
    /\ m.own = Owner(l) /\ m.prog = Stage(l).prog /\ m.argv = Stage(l).arg
    /\ m.stdin = sh[l].input
    /\ m.stdout = IF Last(l) THEN "" ELSE sh[l].toggle
    /\ Runs(m) => HasContext(m, l)

\* A launcher has at most one program, the one it waits for; what the programs
\* start themselves has no pipe files.
OneProgram(l) ==
    /\ \A p \in Pids : IsForeground(proc[p]) => sh[l].pc = "wait" /\ OfStage(proc[p], l)
    /\ \A p, q \in Pids : IsForeground(proc[p]) /\ IsForeground(proc[q]) => p = q
    /\ \A p \in Pids : ~IsForeground(proc[p]) => proc[p].stdout = ""

-----------------------------------------------------------------------------
(* The pipe files.                                                         *)

\* A stage reads what the stage before it wrote, and writes the other file.
InputStands(l) ==
    sh[l].input # "" =>
        /\ tmp[sh[l].input] = <<l, sh[l].total, sh[l].i - 1>>
        /\ sh[l].input # sh[l].toggle

AfterOpen == {"lookup", "drop", "reset", "context", "exec", "wait"}
OutputExists(l) == sh[l].pc \in AfterOpen /\ ~Last(l) => tmp[sh[l].toggle] # NoFile

\* A program that has done its work without being killed has written its output.
HasWritten(m) == m.st \in {"wait", "ret"} \/ (m.st = "done" /\ m.ok)
OutputWritten(l) ==
    \A p \in Pids :
        IsForeground(proc[p]) /\ HasWritten(proc[p]) /\ ~Last(l) => tmp[sh[l].toggle] = Owner(l)

AfterWait == {"abort", "apply", "sync", "login", "rmctx", "rmret", "close"}
OutputStands(l) ==
    sh[l].pc \in AfterWait /\ sh[l].result = "ok" /\ ~Last(l) => tmp[sh[l].toggle] = Owner(l)

Pipes(l) == InputStands(l) /\ OutputExists(l) /\ OutputWritten(l) /\ OutputStands(l)

Connected(l) == ContextStands(l) /\ OneProgram(l) /\ Pipes(l)

-----------------------------------------------------------------------------
(* The return file.                                                        *)

\* Where no line names bg or spawn the processes are a stack: each waits for the next.
Stacked(p, l) ==
    proc[p].st # "free" =>
        /\ sh[l].pc = "wait"
        /\ proc[p].parent = p - 1 /\ proc[p].own = Owner(l)
        /\ \A q \in Pids : q < p => proc[q].st = "wait"

ReturnStands(l) ==
    sh[l].pc \in {"context", "exec", "wait", "apply"} => ret = NoRet \/ ret.by = Owner(l)

Answered(l) == (\A p \in Pids : Stacked(p, l)) /\ ReturnStands(l)

-----------------------------------------------------------------------------
(* The ways a launcher goes on.                                            *)

\* It has ended a line, begun one, or goes on with the next stage of one.
EndsLine(l) == LineEnded(l) /\ sh[l].pc # "wait" /\ proc' = proc
Begins(l) == LineBegun(l) /\ sh[l].pc = "prompt" /\ proc' = proc
Advances(l) ==
    /\ NextStage(l) /\ sh[l].pc = "close" /\ sh[l].result = "ok" /\ ~Last(l)
    /\ tmp' = tmp /\ proc' = proc

\* It has opened the files of a stage.
Opens(l) ==
    /\ StageKept(l) /\ sh[l].pc = "stage" /\ sh'[l].pc = "lookup" /\ proc' = proc
    /\ tmp' = IF Last(l) THEN tmp ELSE [tmp EXCEPT ![sh[l].toggle] = EmptyFile]

\* It goes on within a stage while no program of its own runs: it succeeds only
\* after one has, it starts a program with the context of the stage, and the return
\* file was removed before that.
Within(l) ==
    /\ StageKept(l) /\ sh[l].pc # "wait" /\ sh'[l].pc # "wait"
    /\ tmp' = tmp /\ proc' = proc
    /\ sh'[l].pc \in AfterOpen => sh[l].pc \in AfterOpen
    /\ sh'[l].pc \in AfterWait /\ sh'[l].result = "ok" => sh[l].pc \in AfterWait /\ sh[l].result = "ok"
    /\ sh'[l].pc = "exec" => ctx' = Context(l) /\ sh'[l].cwd = sh[l].cwd
    /\ sh'[l].pc \in {"context", "exec", "apply"} =>
         ret' = NoRet \/ (ret' = ret /\ sh[l].pc \in {"context", "exec"})

LEMMA WithinStage ==
    ASSUME Typed, NEW l \in Launchers,
           \/ LookUp(l) \/ CaptureFails(l) \/ DropContext(l) \/ CommandRetReset(l) \/ CommandCtxWrite(l)
           \/ ExecFails(l) \/ AbortRemovesContext(l) \/ ApplyCommandRet(l) \/ SyncUserState(l)
           \/ RemoveCtx(l) \/ RemoveRet(l)
    PROVE  Within(l)
<1> USE DEF Typed
<1>1. CASE LookUp(l)
  <2>1. StageKept(l) /\ \/ sh'[l].pc = "close" /\ sh'[l].result \in {"fail", "unknown"}
                        \/ sh'[l].pc \in {"reset", "drop"} /\ Stage(l).prog \in Installed
    BY <1>1, LookUpTyped
  <2>2. sh[l].pc = "lookup" /\ tmp' = tmp /\ proc' = proc
    BY <1>1 DEF LookUp, At, files
  <2> QED BY <2>1, <2>2 DEF Within, AfterOpen, AfterWait
<1>2. CASE CaptureFails(l)
  <2>1. Moved(l, "close", "fail")
    BY <1>2, GoesOn
  <2>2. sh[l].pc = "drop" /\ tmp' = tmp /\ proc' = proc
    BY <1>2 DEF CaptureFails, At, files
  <2> QED BY <2>1, <2>2 DEF Within, AfterOpen, AfterWait, Moved
<1>3. CASE DropContext(l)
  <2>1. Moved(l, "reset", sh[l].result)
    BY <1>3, GoesOn
  <2>2. sh[l].pc = "drop" /\ tmp' = tmp /\ proc' = proc
    BY <1>3 DEF DropContext, At
  <2> QED BY <2>1, <2>2 DEF Within, AfterOpen, AfterWait, Moved
<1>4. CASE CommandRetReset(l)
  <2>1. Moved(l, "context", sh[l].result)
    BY <1>4, GoesOn
  <2>2. sh[l].pc = "reset" /\ tmp' = tmp /\ proc' = proc /\ ret' = NoRet
    BY <1>4 DEF CommandRetReset, At
  <2> QED BY <2>1, <2>2 DEF Within, AfterOpen, AfterWait, Moved
<1>5. CASE CommandCtxWrite(l)
  <2>1. sh[l].pc = "context" /\ tmp' = tmp /\ proc' = proc /\ ret' = ret
    BY <1>5 DEF CommandCtxWrite, At
  <2>2. \/ ctx' = Context(l) /\ Goto(l, "exec")
        \/ Result(l, "fail")
    BY <1>5 DEF CommandCtxWrite, Context
  <2>3. CASE ctx' = Context(l) /\ Goto(l, "exec")
    <3>1. Moved(l, "exec", sh[l].result)
      <4> DEFINE pc == "exec"
      <4>1. pc \in AtStage /\ pc \notin AllClosed /\ sh[l].pc \in AtStage
        BY <2>1 DEF AtStage, AllClosed
      <4> QED BY <2>3, <4>1, Goes DEF Moved
    <3> QED BY <2>1, <2>3, <3>1 DEF Within, AfterOpen, AfterWait, Moved
  <2>4. CASE Result(l, "fail")
    <3>1. Moved(l, "close", "fail")
      BY <2>1, <2>4, FailsTyped DEF AtStage, Moved
    <3> QED BY <2>1, <3>1 DEF Within, AfterOpen, AfterWait, Moved
  <2> QED BY <2>2, <2>3, <2>4
<1>6. CASE ExecFails(l)
  <2>1. StageKept(l) /\ sh'[l].pc \in {"abort", "rmctx", "apply"} /\ sh'[l].result = "fail"
    BY <1>6, ExecFailsTyped
  <2>2. sh[l].pc = "exec" /\ tmp' = tmp /\ proc' = proc /\ ret' = ret
    BY <1>6 DEF ExecFails, At, files
  <2> QED BY <2>1, <2>2 DEF Within, AfterOpen, AfterWait
<1>7. CASE AbortRemovesContext(l)
  <2>1. Moved(l, "close", sh[l].result)
    BY <1>7, GoesOn
  <2>2. sh[l].pc = "abort" /\ tmp' = tmp /\ proc' = proc
    BY <1>7 DEF AbortRemovesContext, At
  <2> QED BY <2>1, <2>2 DEF Within, AfterOpen, AfterWait, Moved
<1>8. CASE ApplyCommandRet(l)
  <2>1. StageKept(l) /\ sh'[l].pc \in {"sync", "rmctx"} /\ sh'[l].result = sh[l].result
    BY <1>8, ApplyTyped
  <2>2. sh[l].pc = "apply" /\ tmp' = tmp /\ proc' = proc
    BY <1>8 DEF ApplyCommandRet, At, files
  <2> QED BY <2>1, <2>2 DEF Within, AfterOpen, AfterWait
<1>9. CASE SyncUserState(l)
  <2>1. StageKept(l) /\ sh'[l].pc \in {"rmctx", "login"} /\ sh'[l].result = sh[l].result
    BY <1>9, SyncTyped
  <2>2. sh[l].pc = "sync" /\ tmp' = tmp /\ proc' = proc
    BY <1>9 DEF SyncUserState, At, files
  <2> QED BY <2>1, <2>2 DEF Within, AfterOpen, AfterWait
<1>10. CASE RemoveCtx(l)
  <2>1. Moved(l, "rmret", sh[l].result)
    BY <1>10, GoesOn
  <2>2. sh[l].pc = "rmctx" /\ tmp' = tmp /\ proc' = proc
    BY <1>10 DEF RemoveCtx, At
  <2> QED BY <2>1, <2>2 DEF Within, AfterOpen, AfterWait, Moved
<1>11. CASE RemoveRet(l)
  <2>1. Moved(l, "close", sh[l].result)
    BY <1>11, GoesOn
  <2>2. sh[l].pc = "rmret" /\ tmp' = tmp /\ proc' = proc
    BY <1>11 DEF RemoveRet, At
  <2> QED BY <2>1, <2>2 DEF Within, AfterOpen, AfterWait, Moved
<1> QED BY <1>1, <1>2, <1>3, <1>4, <1>5, <1>6, <1>7, <1>8, <1>9, <1>10, <1>11

LEMMA LauncherWays ==
    ASSUME Typed, NEW l \in Launchers, LauncherStep(l) \/ UserStep(l)
    PROVE  \/ EndsLine(l) \/ Begins(l) \/ Advances(l) \/ Opens(l) \/ Within(l)
           \/ ExecPathv(l) \/ Waited(l)
<1> USE DEF Typed
<1>1. CASE Boot(l) \/ ScriptReturns(l) \/ LauncherExits(l) \/ PipelineRefuses(l) \/ StageOpenFails(l)
           \/ ShellBuiltin(l) \/ ShellLogout(l) \/ DaemonBuiltin(l)
  <2>1. LineEnded(l)
    BY <1>1, BootTyped, ScriptReturnsTyped, LauncherExitsTyped, PipelineRefusesTyped, StageOpenFailsTyped,
       ShellBuiltinTyped, ShellLogoutTyped, DaemonBuiltinTyped
  <2>2. sh[l].pc # "wait" /\ proc' = proc
    BY <1>1 DEF Boot, ScriptReturns, LauncherExits, PipelineRefuses, StageOpenFails, ShellBuiltin,
       ShellLogout, DaemonBuiltin, Ready, At
  <2> QED BY <2>1, <2>2 DEF EndsLine
<1>2. CASE ShellExternal(l) \/ DaemonExternal(l) \/ ShellPipeline(l)
  <2>1. LineEnded(l) \/ LineBegun(l)
    BY <1>2, ShellExternalTyped, DaemonExternalTyped, ShellPipelineTyped
  <2>2. sh[l].pc = "prompt" /\ proc' = proc
    BY <1>2 DEF ShellExternal, DaemonExternal, ShellPipeline, Ready, At
  <2> QED BY <2>1, <2>2 DEF EndsLine, Begins
<1>3. CASE StageOpen(l)
  <2>1. StageKept(l) /\ sh'[l].pc = "lookup"
    BY <1>3, StageOpenTyped
  <2> QED BY <1>3, <2>1 DEF StageOpen, Opens, At
<1>4. CASE Login(l)
  <2>1. sh[l].pc = "login" /\ tmp' = tmp /\ proc' = proc
    BY <1>4 DEF Login, At, files
  <2>2. \/ LineEnded(l)
        \/ StageKept(l) /\ sh'[l].pc = "rmctx" /\ sh'[l].result = sh[l].result
    BY <1>4, LoginTyped
  <2> QED BY <2>1, <2>2 DEF EndsLine, Within, AfterOpen, AfterWait
<1>5. CASE StageDone(l)
  <2>1. \/ LineEnded(l)
        \/ NextStage(l) /\ sh[l].result = "ok" /\ ~Last(l)
    BY <1>5, StageDoneTyped
  <2>2. /\ sh[l].pc = "close" /\ proc' = proc
        /\ sh[l].result = "ok" /\ ~Last(l) => tmp' = tmp
    BY <1>5, Zenon DEF StageDone, At
  <2> QED BY <2>1, <2>2 DEF EndsLine, Advances
<1> QED BY <1>1, <1>2, <1>3, <1>4, <1>5, WithinStage DEF LauncherStep, UserStep

-----------------------------------------------------------------------------
(* The ways a process goes on in a step of some process.                   *)

Reads(q) ==
    /\ proc[q].st = "start" /\ proc'[q].st = "run" /\ SameProgram(proc'[q], proc[q]) /\ tmp' = tmp
    /\ ctx # NoCtx /\ ctx.cmd = proc[q].prog =>
         /\ proc'[q].has_context = TRUE /\ proc'[q].arg = ctx.arg /\ proc'[q].initial_cwd = ctx.cwd
Works(q) ==
    /\ proc[q].st = "run" /\ proc'[q].st \in {"wait", "ret"}
    /\ SameProgram(proc'[q], proc[q]) /\ SameContext(proc'[q], proc[q]) /\ tmp' = Emitted(q)
Resumes(q) ==
    /\ proc[q].st = "wait" /\ proc'[q].st = "ret"
    /\ SameProgram(proc'[q], proc[q]) /\ SameContext(proc'[q], proc[q]) /\ tmp' = tmp
IsOver(q) ==
    /\ proc[q].st # "free" /\ Over(proc'[q], proc[q]) /\ tmp' = tmp
    /\ proc'[q] # FreeProc /\ proc'[q].ok => HasWritten(proc[q])
IsBorn(q) == proc[q].st = "free" /\ Fresh(proc'[q]) /\ ~IsForeground(proc'[q])
IsGone(q) == ~IsForeground(proc[q]) /\ proc'[q] = FreeProc

Lives(q) ==
    \/ proc'[q] = proc[q]
    \/ Reads(q) \/ Works(q) \/ Resumes(q) \/ IsOver(q) \/ IsBorn(q) \/ IsGone(q)

LEMMA ProgramWays ==
    ASSUME Typed, NEW p \in Pids, ProgramStep(p) \/ KillStep(p)
    PROVE  /\ sh' = sh /\ ctx' = ctx
           /\ tmp' = tmp \/ tmp' = Emitted(p)
           /\ \A q \in Pids : Lives(q)
<1> USE DEF Typed
<1>1. sh' = sh /\ ctx' = ctx
  BY DEF ProgramStep, KillStep, ProcStep, CommandCtxRead, RunPlain, RunCd, RunExit, RunLogout,
         RunStarter, StarterResumes, CommandRetWrite, Killed
<1>2. CASE RunPlain(p) \/ RunCd(p) \/ RunExit(p) \/ RunLogout(p) \/ RunStarter(p)
  <2>1. proc[p].st = "run" /\ tmp' = Emitted(p)
    BY <1>2 DEF RunPlain, RunCd, RunExit, RunLogout, RunStarter
  <2>2. CASE Ends(p)
    <3>1. PICK n : Becomes(p, n) /\ Finishes(n, proc[p])
      BY <2>2 DEF Ends
    <3>2. proc'[p] = n /\ \A q \in Pids \ {p} : proc'[q] = proc[q]
      BY <3>1, ProcMoves DEF Finishes
    <3>3. Works(p)
      BY <2>1, <3>1, <3>2 DEF Works, Finishes
    <3> QED BY <1>1, <2>1, <3>2, <3>3 DEF Lives
  <2>3. CASE \E n, child :
                /\ Starts(p, n, child) /\ ProcTyped(n) /\ n.st \in {"wait", "ret"}
                /\ SameProgram(n, proc[p]) /\ SameContext(n, proc[p])
                /\ Fresh(child) /\ ~IsForeground(child)
    <3>1. PICK n, child :
                /\ Starts(p, n, child) /\ ProcTyped(n) /\ n.st \in {"wait", "ret"}
                /\ SameProgram(n, proc[p]) /\ SameContext(n, proc[p])
                /\ Fresh(child) /\ ~IsForeground(child)
      BY <2>3
    <3>2. NewPid \in Pids /\ NewPid # p /\ proc[NewPid].st = "free"
      BY <2>1, <3>1, NewPidIsFree DEF Starts, FreePids
    <3>3. proc' = [proc EXCEPT ![NewPid] = child, ![p] = n] /\ ProcTyped(child)
      BY <3>1 DEF Starts, Fresh
    <3>4. proc'[p] = n /\ proc'[NewPid] = child /\ \A q \in Pids \ {p, NewPid} : proc'[q] = proc[q]
      BY <3>2, <3>3 DEF ProcsOK
    <3>5. Works(p) /\ IsBorn(NewPid)
      BY <2>1, <3>1, <3>2, <3>4 DEF Works, IsBorn
    <3> QED BY <1>1, <2>1, <3>4, <3>5 DEF Lives
  <2>4. ASSUME RunStarter(p), ~Ends(p)
        PROVE  \E n, child :
                /\ Starts(p, n, child) /\ ProcTyped(n) /\ n.st \in {"wait", "ret"}
                /\ SameProgram(n, proc[p]) /\ SameContext(n, proc[p])
                /\ Fresh(child) /\ ~IsForeground(child)
    <3>1. CASE \E n, child :
                 /\ Starts(p, n, child) /\ Suspended(n, proc[p]) /\ Fresh(child)
                 /\ child.parent = p
      <4>1. p # NoPid
        BY DEF Pids, NoPid
      <4> QED BY <3>1, <4>1 DEF Suspended, IsForeground
    <3>2. CASE \E n, child :
                 /\ Starts(p, n, child) /\ Finishes(n, proc[p]) /\ Fresh(child)
                 /\ IsBackground(child.own)
      BY <3>2 DEF Finishes, IsForeground
    <3> QED BY <2>4, <3>1, <3>2, RunStarterTyped
  <2> QED BY <1>2, <2>2, <2>3, <2>4, RunPlainTyped, RunCdTyped, RunExitTyped, RunLogoutTyped
<1>3. CASE CommandCtxRead(p)
  <2>1. PICK n : /\ Becomes(p, n) /\ ProcTyped(n) /\ n.st = "run" /\ SameProgram(n, proc[p])
                 /\ ctx # NoCtx /\ ctx.cmd = proc[p].prog =>
                      n.has_context = TRUE /\ n.arg = ctx.arg /\ n.initial_cwd = ctx.cwd
    BY <1>3, CtxReadTyped
  <2>2. proc'[p] = n /\ \A q \in Pids \ {p} : proc'[q] = proc[q]
    BY <2>1, ProcMoves
  <2>3. Reads(p) /\ tmp' = tmp
    BY <1>3, <2>1, <2>2 DEF Reads, CommandCtxRead
  <2> QED BY <1>1, <2>2, <2>3 DEF Lives
<1>4. CASE StarterResumes(p)
  <2>1. PICK c \in Pids \ {p} : \E n :
           /\ proc[c].parent = p /\ Finishes(n, proc[p])
           /\ proc' = [proc EXCEPT ![c] = FreeProc, ![p] = n]
    BY <1>4, StarterResumesTyped
  <2>2. PICK n : Finishes(n, proc[p]) /\ proc' = [proc EXCEPT ![c] = FreeProc, ![p] = n]
    BY <2>1
  <2>3. proc'[p] = n /\ proc'[c] = FreeProc /\ \A q \in Pids \ {p, c} : proc'[q] = proc[q]
    BY <2>2 DEF ProcsOK
  <2>4. p # NoPid
    BY DEF Pids, NoPid
  <2>5. Resumes(p) /\ IsGone(c) /\ tmp' = tmp
    BY <1>4, <2>1, <2>2, <2>3, <2>4 DEF Resumes, IsGone, StarterResumes, Finishes, IsForeground
  <2> QED BY <1>1, <2>3, <2>5 DEF Lives
<1>5. CASE CommandRetWrite(p)
  <2>1. PICK n : Becomes(p, n) /\ ProcTyped(n) /\ Over(n, proc[p]) /\ (n # FreeProc => n.ok = proc[p].ok)
    BY <1>5, RetWriteTyped
  <2>2. proc'[p] = n /\ \A q \in Pids \ {p} : proc'[q] = proc[q]
    BY <2>1, ProcMoves
  <2>3. IsOver(p) /\ tmp' = tmp
    BY <1>5, <2>1, <2>2 DEF IsOver, CommandRetWrite, HasWritten
  <2> QED BY <1>1, <2>2, <2>3 DEF Lives
<1>6. CASE Killed(p)
  <2>1. PICK n : Becomes(p, n) /\ ProcTyped(n) /\ Over(n, proc[p]) /\ (n # FreeProc => n.ok = FALSE)
    BY <1>6, KilledTyped
  <2>2. proc'[p] = n /\ \A q \in Pids \ {p} : proc'[q] = proc[q]
    BY <2>1, ProcMoves
  <2>3. IsOver(p) /\ tmp' = tmp
    BY <1>6, <2>1, <2>2 DEF IsOver, Killed
  <2> QED BY <1>1, <2>2, <2>3 DEF Lives
<1> QED BY <1>2, <1>3, <1>4, <1>5, <1>6 DEF ProgramStep, ProcStep, KillStep

-----------------------------------------------------------------------------
(* Commands and pipelines stay connected.                                  *)

\* While the launcher does not wait, it has no program.
LEMMA NoProgram ==
    ASSUME NEW L, OneProgram(L), sh[L].pc # "wait", proc' = proc
    PROVE  OneProgram(L)' /\ OutputWritten(L)'
<1>1. \A p \in Pids : ~IsForeground(proc'[p]) /\ proc'[p].stdout = ""
  BY DEF OneProgram
<1> QED BY <1>1 DEF OneProgram, OutputWritten

LEMMA LineConnected ==
    ASSUME Typed, NEW L \in Launchers, Connected(L),
           EndsLine(L) \/ Begins(L) \/ Advances(L)
    PROVE  Connected(L)'
<1>1. OneProgram(L)' /\ OutputWritten(L)'
  BY NoProgram DEF Connected, EndsLine, Begins, Advances
<1>2. ContextStands(L)'
  BY DEF ContextStands, EndsLine, Begins, Advances, LineEnded, LineBegun, NextStage
<1>3. CASE EndsLine(L)
  <2>1. /\ sh'[L].pc \in {"prompt", "exited", "login"} /\ sh'[L].input = ""
        /\ sh'[L].i = 0 /\ sh'[L].stages = <<>>
    BY <1>3 DEF EndsLine, LineEnded
  <2>2. Last(L)'
    <3>1. Len(<<>>) = 0
      OBVIOUS
    <3> QED BY <2>1, <3>1, Zenon DEF Last
  <2> QED BY <1>1, <1>2, <2>1, <2>2
           DEF Connected, Pipes, InputStands, OutputExists, OutputStands, AfterOpen
<1>4. CASE Begins(L)
  <2>1. /\ sh'[L].pc \in {"stage", "lookup"} /\ sh'[L].input = "" /\ sh'[L].i = 1
        /\ sh'[L].pc = "lookup" => Len(sh'[L].stages) = 1
    BY <1>4 DEF Begins, LineBegun
  <2>2. sh'[L].pc = "lookup" => Last(L)'
    BY <2>1 DEF Last
  <2> QED BY <1>1, <1>2, <2>1, <2>2
           DEF Connected, Pipes, InputStands, OutputExists, OutputStands, AfterOpen, AfterWait
<1>5. CASE Advances(L)
  <2>1. /\ sh'[L].pc = "stage" /\ sh'[L].i = sh[L].i + 1 /\ sh'[L].total = sh[L].total
        /\ sh'[L].input = sh[L].toggle /\ sh'[L].toggle # sh[L].toggle
        /\ sh[L].pc = "close" /\ sh[L].result = "ok" /\ ~Last(L) /\ tmp' = tmp
    BY <1>5 DEF Advances, NextStage
  <2>2. tmp[sh[L].toggle] = Owner(L)
    BY <2>1 DEF Connected, Pipes, OutputStands, AfterWait
  <2>3. sh'[L].i - 1 = sh[L].i
    <3>1. sh[L].i \in Nat
      BY DEF Typed, LaunchersOK, LauncherState
    <3> QED BY <2>1, <3>1
  <2>4. InputStands(L)'
    BY <2>1, <2>2, <2>3 DEF InputStands, Owner
  <2> QED BY <1>1, <1>2, <2>1, <2>4
           DEF Connected, Pipes, OutputExists, OutputStands, AfterOpen, AfterWait
<1> QED BY <1>3, <1>4, <1>5

LEMMA StageConnected ==
    ASSUME Typed, NEW L \in Launchers, Connected(L), Opens(L) \/ Within(L)
    PROVE  Connected(L)'
<1>1. OneProgram(L)' /\ OutputWritten(L)'
  BY NoProgram DEF Connected, Opens, Within
<1>2. /\ sh'[L].stages = sh[L].stages /\ sh'[L].i = sh[L].i /\ sh'[L].total = sh[L].total
      /\ sh'[L].toggle = sh[L].toggle /\ sh'[L].input = sh[L].input
  BY DEF Opens, Within, StageKept
<1>3. Last(L)' = Last(L) /\ Stage(L)' = Stage(L) /\ Owner(L)' = Owner(L)
  BY <1>2 DEF Last, Stage, Owner
<1>4. CASE Opens(L)
  <2>1. sh[L].pc = "stage" /\ sh'[L].pc = "lookup"
    BY <1>4 DEF Opens
  <2>2. sh[L].toggle \in PipeFiles /\ tmp \in [PipeFiles -> Owners \cup {NoFile, EmptyFile}]
    BY DEF Typed, LaunchersOK, LauncherState, FilesOK
  <2>3. OutputExists(L)'
    <3>1. ~Last(L) => tmp'[sh[L].toggle] = EmptyFile
      BY <1>4, <2>2 DEF Opens
    <3>2. EmptyFile # NoFile
      BY DEF EmptyFile, NoFile
    <3> QED BY <1>2, <1>3, <3>1, <3>2 DEF OutputExists
  <2>4. InputStands(L)'
    <3>1. InputStands(L)
      BY DEF Connected, Pipes
    <3>2. sh[L].input \in PipeFiles \cup {""}
      BY DEF Typed, LaunchersOK, LauncherState
    <3>3. sh[L].input # "" /\ sh[L].input # sh[L].toggle => tmp'[sh[L].input] = tmp[sh[L].input]
      <4>1. tmp' = tmp \/ tmp' = [tmp EXCEPT ![sh[L].toggle] = EmptyFile]
        BY <1>4, Zenon DEF Opens
      <4> QED BY <2>2, <3>2, <4>1
    <3> QED BY <1>2, <3>1, <3>3 DEF InputStands
  <2> QED BY <1>1, <2>1, <2>3, <2>4 DEF Connected, ContextStands, Pipes, OutputStands, AfterWait
<1>5. CASE Within(L)
  <2>1. ContextStands(L)'
    BY <1>2, <1>3, <1>5 DEF Within, ContextStands, Context
  <2>2. InputStands(L)' /\ OutputExists(L)' /\ OutputStands(L)'
    BY <1>2, <1>3, <1>5 DEF Within, Connected, Pipes, InputStands, OutputExists, OutputStands
  <2> QED BY <1>1, <2>1, <2>2 DEF Connected, Pipes
<1> QED BY <1>4, <1>5

\* A stage is never a background one: those have number 0.
LEMMA OwnerInForeground ==
    ASSUME Typed, NEW L \in Launchers, sh[L].pc \in AtStage
    PROVE  ~IsBackground(Owner(L)) /\ Owner(L) # NoOne
<1>1. sh[L].i \in Nat /\ sh[L].i >= 1 /\ Owner(L) \in Owners
  BY StageTyped DEF Typed
<1>2. Owner(L)[3] = sh[L].i
  BY DEF Owner
<1>3. ~IsBackground(Owner(L))
  BY <1>1, <1>2 DEF IsBackground
<1>4. Owner(L) # NoOne
  BY DEF Owner, NoOne
<1> QED BY <1>3, <1>4

LEMMA ExecConnected ==
    ASSUME Typed, NEW L \in Launchers, Connected(L), ExecPathv(L)
    PROVE  Connected(L)'
<1>1. /\ Moved(L, "wait", sh[L].result) /\ sh[L].pc = "exec"
      /\ ctx' = ctx /\ tmp' = tmp
  BY GoesOn DEF ExecPathv, At, Typed, files
<1>2. /\ sh'[L].pc = "wait" /\ sh'[L].stages = sh[L].stages /\ sh'[L].i = sh[L].i
      /\ sh'[L].total = sh[L].total /\ sh'[L].toggle = sh[L].toggle /\ sh'[L].input = sh[L].input
      /\ sh'[L].cwd = sh[L].cwd
  BY <1>1 DEF Moved, StageKept
<1>3. Last(L)' = Last(L) /\ Stage(L)' = Stage(L) /\ Owner(L)' = Owner(L)
  BY <1>2 DEF Last, Stage, Owner
<1>4. ContextStands(L)'
  BY <1>1, <1>2, <1>3 DEF Connected, ContextStands, Context
<1>5. PICK c : Becomes(NewPid, c) /\ Launched(c, L)
  BY ExecPathvTyped DEF Typed
<1>6. NewPid \in Pids /\ proc[NewPid].st = "free"
  BY ExecPathvTyped DEF Typed, FreePids
<1>7. proc'[NewPid] = c /\ \A q \in Pids \ {NewPid} : proc'[q] = proc[q]
  BY <1>5, <1>6 DEF Becomes, Typed, ProcsOK
<1>8. \A q \in Pids : ~IsForeground(proc[q]) /\ proc[q].stdout = ""
  BY <1>1 DEF Connected, OneProgram
<1>9. ~IsBackground(Owner(L))
  BY <1>1, OwnerInForeground DEF AtStage
<1>10. IsForeground(c) /\ OfStage(c, L)' /\ ~HasWritten(c)
  BY <1>2, <1>3, <1>5, <1>9 DEF Launched, IsForeground, OfStage, Runs, HasWritten
<1>11. OneProgram(L)'
  <2>1. \A q \in Pids : IsForeground(proc'[q]) => q = NewPid
    BY <1>7, <1>8
  <2>2. \A q \in Pids : ~IsForeground(proc'[q]) => proc'[q].stdout = ""
    BY <1>7, <1>8, <1>10
  <2>3. \A q \in Pids : (IsForeground(proc[q]) => OfStage(proc[q], L))'
    BY <1>7, <1>10, <2>1 DEF OfStage, Runs, HasContext
  <2> QED BY <1>2, <2>1, <2>2, <2>3 DEF OneProgram
<1>12. OutputWritten(L)'
  BY <1>7, <1>8, <1>10 DEF OutputWritten
<1>13. InputStands(L)' /\ OutputExists(L)' /\ OutputStands(L)'
  BY <1>1, <1>2, <1>3 DEF Connected, Pipes, InputStands, OutputExists, OutputStands, AfterOpen, AfterWait
<1> QED BY <1>4, <1>11, <1>12, <1>13 DEF Connected, Pipes

LEMMA WaitedConnected ==
    ASSUME Typed, NEW L \in Launchers, Connected(L), Waited(L)
    PROVE  Connected(L)'
<1>1. PICK p \in Pids, r \in Results :
         /\ proc[p].st = "done" /\ proc[p].parent = NoPid /\ proc[p].own = Owner(L)
         /\ Becomes(p, FreeProc) /\ (r = "ok" => proc[p].ok)
         /\ sh' = [sh EXCEPT ![L].result = r, ![L].pc = "apply"]
  BY WaitedTyped DEF Typed
<1>2. sh[L].pc = "wait" /\ tmp' = tmp
  BY DEF Waited, At, files
<1>3. StageKept(L) /\ sh'[L].pc = "apply" /\ sh'[L].result = r
  BY <1>1, <1>2, WaitedLauncher DEF Typed
<1>4. Last(L)' = Last(L) /\ Owner(L)' = Owner(L)
  BY <1>3 DEF Last, Owner, StageKept
<1>5. IsForeground(proc[p])
  BY <1>1, <1>2, OwnerInForeground DEF IsForeground, AtStage
<1>6. proc'[p] = FreeProc /\ \A q \in Pids \ {p} : proc'[q] = proc[q]
  BY <1>1 DEF Becomes, Typed, ProcsOK
<1>7. \A q \in Pids : ~IsForeground(proc'[q]) /\ proc'[q].stdout = ""
  <2>1. ~IsForeground(FreeProc) /\ FreeProc.stdout = ""
    BY FreeTyped DEF IsForeground
  <2>2. \A q \in Pids \ {p} : ~IsForeground(proc[q]) /\ proc[q].stdout = ""
    BY <1>5 DEF Connected, OneProgram
  <2> QED BY <1>6, <2>1, <2>2
<1>8. OneProgram(L)' /\ OutputWritten(L)'
  BY <1>7 DEF OneProgram, OutputWritten
<1>9. OutputStands(L)'
  <2>1. r = "ok" /\ ~Last(L) => tmp[sh[L].toggle] = Owner(L)
    BY <1>1, <1>5 DEF Connected, Pipes, OutputWritten, HasWritten
  <2> QED BY <1>2, <1>3, <1>4, <2>1 DEF OutputStands, StageKept
<1>10. InputStands(L)'
  BY <1>2, <1>3 DEF Connected, Pipes, InputStands, StageKept
<1>11. ContextStands(L)' /\ OutputExists(L)'
  BY <1>3 DEF ContextStands, OutputExists, AfterOpen
<1> QED BY <1>8, <1>9, <1>10, <1>11 DEF Connected, Pipes

\* What a step of a process leaves of the launcher's program.
LEMMA ForegroundLives ==
    ASSUME Typed, NEW L \in Launchers, Connected(L), NEW q \in Pids, Lives(q), ctx' = ctx, sh' = sh
    PROVE  /\ IsForeground(proc[q])' =>
                IsForeground(proc[q]) /\ OfStage(proc[q], L)'
           /\ ~IsForeground(proc[q])' => proc'[q].stdout = ""
<1>1. IsForeground(proc[q]) => sh[L].pc = "wait" /\ OfStage(proc[q], L)
  BY DEF Connected, OneProgram
<1>2. ~IsForeground(proc[q]) => proc[q].stdout = ""
  BY DEF Connected, OneProgram
<1>3. ~IsForeground(FreeProc) /\ FreeProc.stdout = ""
  BY FreeTyped DEF IsForeground
<1>4. Stage(L)' = Stage(L) /\ Owner(L)' = Owner(L) /\ Last(L)' = Last(L)
  BY DEF Stage, Owner, Last
<1>5. ASSUME SameProgram(proc'[q], proc[q]), proc[q].st # "free", proc'[q].st # "free",
             IsForeground(proc[q]) => (Runs(proc[q])' => HasContext(proc[q], L)')
      PROVE  /\ IsForeground(proc[q])' => IsForeground(proc[q]) /\ OfStage(proc[q], L)'
             /\ ~IsForeground(proc[q])' => proc'[q].stdout = ""
  <2>1. IsForeground(proc[q])' <=> IsForeground(proc[q])
    BY <1>5 DEF SameProgram, IsForeground
  <2>2. ~IsForeground(proc[q])' => proc'[q].stdout = ""
    BY <1>2, <1>5, <2>1 DEF SameProgram
  <2>3. IsForeground(proc[q]) => OfStage(proc[q], L)'
    BY <1>1, <1>4, <1>5 DEF SameProgram, OfStage
  <2> QED BY <2>1, <2>2, <2>3
<1>6. CASE proc'[q] = proc[q]
  <2>1. OfStage(proc[q], L)' <=> OfStage(proc[q], L)
    BY <1>4, <1>6 DEF OfStage, Runs, HasContext
  <2> QED BY <1>1, <1>2, <1>6, <2>1 DEF IsForeground
<1>7. CASE Reads(q)
  <2>1. IsForeground(proc[q]) => HasContext(proc[q], L)'
    <3>1. SUFFICES ASSUME IsForeground(proc[q]) PROVE HasContext(proc[q], L)'
      OBVIOUS
    <3>2. sh[L].pc = "wait" /\ proc[q].prog = Stage(L).prog /\ proc[q].argv = Stage(L).arg
      BY <1>1, <3>1 DEF OfStage
    <3>3. ctx = Context(L)
      BY <3>2 DEF Connected, ContextStands
    <3>4. ctx.cmd = Stage(L).prog /\ ctx.arg = Stage(L).arg /\ ctx.cwd = sh[L].cwd /\ ctx.by = Owner(L)
      BY <3>3 DEF Context
    <3>5. ctx # NoCtx
      <4>1. Owner(L) # NoOne
        BY <3>2, OwnerInForeground DEF AtStage
      <4>2. NoCtx.by = NoOne
        BY DEF NoCtx
      <4> QED BY <3>4, <4>1, <4>2
    <3> QED BY <1>7, <3>2, <3>4, <3>5 DEF Reads, HasContext, SameProgram
  <2> QED BY <1>5, <1>7, <2>1 DEF Reads
<1>8. CASE Works(q) \/ Resumes(q)
  <2>1. IsForeground(proc[q]) => HasContext(proc[q], L)'
    BY <1>1, <1>8 DEF Works, Resumes, OfStage, Runs, HasContext, SameProgram, SameContext
  <2> QED BY <1>5, <1>8, <2>1 DEF Works, Resumes
<1>9. CASE IsOver(q)
  <2>1. CASE proc'[q] = FreeProc
    BY <1>3, <2>1 DEF IsForeground
  <2>2. CASE proc'[q] # FreeProc
    <3>1. proc'[q].st = "done" /\ SameProgram(proc'[q], proc[q]) /\ proc[q].st # "free"
      BY <1>9, <2>2 DEF IsOver, Over
    <3>2. ~Runs(proc[q])'
      BY <3>1 DEF Runs
    <3> QED BY <1>5, <3>1, <3>2
  <2> QED BY <2>1, <2>2
<1>10. CASE IsBorn(q)
  BY <1>10 DEF IsBorn, Fresh, IsForeground
<1>11. CASE IsGone(q)
  BY <1>3, <1>11 DEF IsGone, IsForeground
<1> QED BY <1>6, <1>7, <1>8, <1>9, <1>10, <1>11 DEF Lives

\* Only the launcher's program writes a pipe file, and only the one after it.
LEMMA ForegroundEmits ==
    ASSUME Typed, NEW L \in Launchers, Connected(L), NEW p \in Pids, tmp' = tmp \/ tmp' = Emitted(p)
    PROVE  \/ tmp' = tmp
           \/ /\ IsForeground(proc[p]) /\ ~Last(L) /\ sh[L].toggle \in PipeFiles
              /\ tmp' = [tmp EXCEPT ![sh[L].toggle] = Owner(L)]
<1>1. CASE IsForeground(proc[p])
  <2>1. OfStage(proc[p], L)
    BY <1>1 DEF Connected, OneProgram
  <2>2. "" \notin PipeFiles
    BY DEF PipeFiles
  <2> QED BY <1>1, <2>1, <2>2 DEF OfStage, Emitted
<1>2. CASE ~IsForeground(proc[p])
  <2>1. proc[p].stdout \notin PipeFiles
    BY <1>2 DEF Connected, OneProgram, PipeFiles
  <2> QED BY <2>1 DEF Emitted
<1> QED BY <1>1, <1>2

LEMMA ProgramConnected ==
    ASSUME Typed, NEW L \in Launchers, Connected(L), NEW p \in Pids, ProgramStep(p) \/ KillStep(p)
    PROVE  Connected(L)'
<1>1. /\ sh' = sh /\ ctx' = ctx /\ (tmp' = tmp \/ tmp' = Emitted(p))
      /\ \A q \in Pids : Lives(q)
  BY ProgramWays
<1>2. Stage(L)' = Stage(L) /\ Owner(L)' = Owner(L) /\ Last(L)' = Last(L)
  BY <1>1 DEF Stage, Owner, Last
<1>3. ContextStands(L)'
  BY <1>1, <1>2 DEF Connected, ContextStands, Context
<1>4. \A q \in Pids : /\ IsForeground(proc[q])' => IsForeground(proc[q]) /\ OfStage(proc[q], L)'
                      /\ ~IsForeground(proc[q])' => proc'[q].stdout = ""
  BY <1>1, ForegroundLives
<1>5. OneProgram(L)'
  BY <1>1, <1>4 DEF Connected, OneProgram
<1>6. /\ tmp \in [PipeFiles -> Owners \cup {NoFile, EmptyFile}]
      /\ sh[L].toggle \in PipeFiles /\ sh[L].input \in PipeFiles \cup {""}
  BY DEF Typed, LaunchersOK, LauncherState, FilesOK
<1>7. \/ tmp' = tmp
      \/ /\ IsForeground(proc[p]) /\ ~Last(L)
         /\ tmp' = [tmp EXCEPT ![sh[L].toggle] = Owner(L)]
  BY <1>1, ForegroundEmits
<1>8. InputStands(L)'
  BY <1>1, <1>6, <1>7 DEF Connected, Pipes, InputStands
<1>9. tmp'[sh[L].toggle] = tmp[sh[L].toggle] \/ tmp'[sh[L].toggle] = Owner(L)
  BY <1>6, <1>7
<1>10. OutputExists(L)'
  <2>1. Owner(L) # NoFile
    BY DEF Owner, NoFile
  <2> QED BY <1>1, <1>2, <1>9, <2>1 DEF Connected, Pipes, OutputExists
<1>11. OutputWritten(L)'
  <2>1. SUFFICES ASSUME NEW q \in Pids, IsForeground(proc[q])', HasWritten(proc[q])', ~Last(L)
                 PROVE  tmp'[sh[L].toggle] = Owner(L)
    BY <1>1, <1>2 DEF OutputWritten
  <2>2. IsForeground(proc[q]) /\ OfStage(proc[q], L)
    BY <1>4, <2>1 DEF Connected, OneProgram
  <2>3. HasWritten(proc[q]) => tmp[sh[L].toggle] = Owner(L)
    BY <2>1, <2>2 DEF Connected, Pipes, OutputWritten
  <2>4. CASE Works(q)
    <3>1. sh[L].pc = "wait"
      BY <2>2 DEF Connected, OneProgram
    <3>2. proc[q].stdout = sh[L].toggle /\ proc[q].own = Owner(L)
      BY <2>1, <2>2 DEF OfStage
    <3>3. tmp[sh[L].toggle] # NoFile
      BY <2>1, <3>1 DEF Connected, Pipes, OutputExists, AfterOpen
    <3>4. tmp' = [tmp EXCEPT ![sh[L].toggle] = Owner(L)]
      BY <1>6, <2>4, <3>2, <3>3 DEF Works, Emitted
    <3> QED BY <1>6, <3>4
  <2>5. CASE proc'[q] = proc[q] \/ Resumes(q) \/ IsOver(q)
    <3>1. HasWritten(proc[q])
      <4>1. CASE IsOver(q)
        <5>1. proc'[q] # FreeProc
          BY <2>1, FreeTyped DEF IsForeground
        <5>2. proc'[q].st = "done"
          BY <4>1, <5>1 DEF IsOver, Over
        <5>3. proc'[q].ok
          BY <2>1, <5>2 DEF HasWritten
        <5> QED BY <4>1, <5>1, <5>3 DEF IsOver
      <4>2. CASE proc'[q] = proc[q] \/ Resumes(q)
        BY <2>1, <4>2 DEF HasWritten, Resumes
      <4> QED BY <2>5, <4>1, <4>2
    <3> QED BY <1>9, <2>3, <3>1
  <2>6. ~Reads(q) /\ ~IsBorn(q) /\ ~IsGone(q)
    BY <2>1, <2>2, FreeTyped DEF Reads, IsBorn, IsGone, HasWritten, IsForeground
  <2> QED BY <1>1, <2>4, <2>5, <2>6 DEF Lives
<1>12. OutputStands(L)'
  <2>1. sh[L].pc \in AfterWait => ~IsForeground(proc[p])
    BY DEF Connected, OneProgram, AfterWait
  <2> QED BY <1>1, <1>2, <1>7, <2>1 DEF Connected, Pipes, OutputStands
<1> QED BY <1>3, <1>5, <1>8, <1>10, <1>11, <1>12 DEF Connected, Pipes

LEMMA InitConnected ==
    ASSUME NEW L \in Launchers
    PROVE  Init => Connected(L)
<1> SUFFICES ASSUME Init PROVE Connected(L)
  OBVIOUS
<1>1. sh[L].pc = "boot" /\ sh[L].input = ""
  BY DEF Init, InitLauncher
<1>2. \A p \in Pids : ~IsForeground(proc[p]) /\ proc[p].stdout = ""
  BY FreeTyped DEF Init, IsForeground
<1>3. ContextStands(L) /\ OneProgram(L)
  BY <1>1, <1>2 DEF ContextStands, OneProgram
<1>4. Pipes(L)
  BY <1>1, <1>2 DEF Pipes, InputStands, OutputExists, OutputWritten, OutputStands, AfterOpen, AfterWait
<1> QED BY <1>3, <1>4 DEF Connected

LEMMA ConnectedStep ==
    ASSUME NEW L, Launchers = {L}
    PROVE  Typed /\ Connected(L) /\ [Next]_vars => Connected(L)'
<1> SUFFICES ASSUME Typed, Connected(L), [Next]_vars PROVE Connected(L)'
  OBVIOUS
<1>1. L \in Launchers
  OBVIOUS
<1>2. CASE LauncherStep(L) \/ UserStep(L)
  BY <1>1, <1>2, LauncherWays, LineConnected, StageConnected, ExecConnected, WaitedConnected
<1>3. CASE \E p \in Pids : ProgramStep(p) \/ KillStep(p)
  BY <1>1, <1>3, ProgramConnected
<1>4. CASE UNCHANGED vars
  <2>1. sh' = sh /\ proc' = proc /\ ctx' = ctx /\ tmp' = tmp
    BY <1>4 DEF vars
  <2> QED BY <2>1 DEF Connected, ContextStands, Context, OneProgram, OfStage, IsForeground, Runs,
             HasContext, Pipes, InputStands, OutputExists, OutputWritten, OutputStands, HasWritten,
             Stage, Owner, Last
<1> QED BY <1>2, <1>3, <1>4 DEF Next

LEMMA AlwaysConnected ==
    ASSUME NEW L, Launchers = {L}
    PROVE  Spec => []Connected(L)
<1>1. Init => Connected(L)
  BY InitConnected
<1>2. Typed /\ Connected(L) /\ [Next]_vars => Connected(L)'
  BY ConnectedStep
<1> QED BY <1>1, <1>2, AlwaysTyped, PTL DEF Spec

\* With one launcher, whatever programs it starts, in scripts and pipelines and
\* next to the background jobs of bg: its program reads the arguments and the
\* directory that CommandCtxWrite wrote for that very command.
THEOREM ContextReaches ==
    ASSUME NEW L, Launchers = {L}
    PROVE  Spec => []ContextReachesCommand
<1>1. Typed /\ Connected(L) => ContextReachesCommand
  <2> SUFFICES ASSUME Typed, Connected(L), NEW p \in Pids, Foreground(p), Running(p)
               PROVE  /\ proc[p].has_context /\ proc[p].arg = proc[p].argv
                      /\ proc[p].initial_cwd = sh[proc[p].own[1]].cwd
    BY DEF ContextReachesCommand
  <2>1. IsForeground(proc[p]) /\ Runs(proc[p])
    BY DEF Foreground, Running, IsForeground, Runs
  <2>2. HasContext(proc[p], L) /\ proc[p].own = Owner(L)
    BY <2>1 DEF Connected, OneProgram, OfStage
  <2>3. proc[p].own[1] = L
    BY <2>2 DEF Owner
  <2> QED BY <2>2, <2>3 DEF HasContext
<1> QED BY <1>1, AlwaysConnected, AlwaysTyped, PTL

\* With one launcher a stage of a pipeline reads all that the stage before it
\* wrote: no failure, kill or background job leaves the wrong file in its place.
THEOREM PipesConnect ==
    ASSUME NEW L, Launchers = {L}
    PROVE  Spec => []PipeConnects
<1>1. Typed /\ Connected(L) => PipeConnects
  <2> SUFFICES ASSUME Typed, Connected(L), NEW p \in Pids, Foreground(p), proc[p].stdin # ""
               PROVE  tmp[proc[p].stdin] = <<proc[p].own[1], proc[p].own[2], proc[p].own[3] - 1>>
    BY DEF PipeConnects
  <2>1. OfStage(proc[p], L)
    BY DEF Foreground, IsForeground, Connected, OneProgram
  <2>2. proc[p].own = Owner(L) /\ proc[p].stdin = sh[L].input
    BY <2>1 DEF OfStage
  <2>3. tmp[sh[L].input] = <<L, sh[L].total, sh[L].i - 1>>
    BY <2>2 DEF Connected, Pipes, InputStands
  <2>4. Owner(L)[1] = L /\ Owner(L)[2] = sh[L].total /\ Owner(L)[3] = sh[L].i
    BY DEF Owner
  <2> QED BY <2>2, <2>3, <2>4
<1> QED BY <1>1, AlwaysConnected, AlwaysTyped, PTL

-----------------------------------------------------------------------------
(* What a launcher applies is what its own command returned.               *)

LEMMA AnsweredLauncher ==
    ASSUME Typed, NEW L \in Launchers, Answered(L),
           EndsLine(L) \/ Begins(L) \/ Advances(L) \/ Opens(L) \/ Within(L)
    PROVE  Answered(L)'
<1>1. sh[L].pc # "wait" /\ proc' = proc
  BY DEF EndsLine, Begins, Advances, Opens, Within
<1>2. \A p \in Pids : Stacked(p, L)'
  BY <1>1 DEF Answered, Stacked
<1>3. CASE EndsLine(L) \/ Begins(L) \/ Advances(L) \/ Opens(L)
  <2>1. sh'[L].pc \in {"prompt", "exited", "login", "stage", "lookup"}
    BY <1>3 DEF EndsLine, Begins, Advances, Opens, LineEnded, LineBegun, NextStage
  <2> QED BY <1>2, <2>1 DEF Answered, ReturnStands
<1>4. CASE Within(L)
  <2>1. Stage(L)' = Stage(L) /\ Owner(L)' = Owner(L)
    BY <1>4 DEF Within, StageKept, Stage, Owner
  <2>2. ReturnStands(L)'
    BY <1>4, <2>1 DEF Within, Answered, ReturnStands
  <2> QED BY <1>2, <2>2 DEF Answered
<1> QED BY <1>3, <1>4

LEMMA AnsweredExec ==
    ASSUME Typed, NEW L \in Launchers, Answered(L), ExecPathv(L)
    PROVE  Answered(L)'
<1>1. Moved(L, "wait", sh[L].result) /\ sh[L].pc = "exec" /\ ret' = ret
  BY GoesOn DEF ExecPathv, At, Typed, files
<1>2. sh'[L].pc = "wait" /\ Stage(L)' = Stage(L) /\ Owner(L)' = Owner(L)
  BY <1>1 DEF Moved, StageKept, Stage, Owner
<1>3. PICK c : Becomes(NewPid, c) /\ Launched(c, L)
  BY ExecPathvTyped DEF Typed
<1>4. NewPid \in Pids /\ NewPid \in FreePids
  BY ExecPathvTyped DEF Typed
<1>5. \A q \in Pids : proc[q].st = "free"
  BY <1>1 DEF Answered, Stacked
<1>6. NewPid = 1
  <2>1. \A q \in FreePids : NewPid <= q
    BY <1>4, NewPidIsFree
  <2>2. MaxProcs \in Nat /\ NewPid \in Int /\ 1 <= NewPid /\ NewPid <= MaxProcs
    BY <1>4, ProgramsAssumption DEF Pids
  <2>3. 1 \in FreePids
    BY <1>5, <2>2 DEF FreePids, Pids
  <2> QED BY <2>1, <2>2, <2>3
<1>7. proc'[1] = c /\ \A q \in Pids \ {1} : proc'[q] = proc[q]
  BY <1>3, <1>4, <1>6 DEF Becomes, Typed, ProcsOK
<1>8. c.parent = 0 /\ c.own = Owner(L)
  BY <1>3 DEF Launched, NoPid
<1>9. \A q \in Pids : Stacked(q, L)'
  <2>1. SUFFICES ASSUME NEW q \in Pids, proc'[q].st # "free" PROVE Stacked(q, L)'
    BY DEF Stacked
  <2>2. q = 1
    BY <1>5, <1>7, <2>1
  <2>3. \A r \in Pids : ~(r < q)
    BY <2>2, ProgramsAssumption DEF Pids
  <2>4. proc'[q] = c /\ c.parent = q - 1
    BY <1>7, <1>8, <2>2
  <2> QED BY <1>2, <1>8, <2>3, <2>4 DEF Stacked
<1>10. ReturnStands(L)'
  BY <1>1, <1>2 DEF Answered, ReturnStands
<1> QED BY <1>9, <1>10 DEF Answered

\* Nothing runs above a process that does not wait.
LEMMA StackTop ==
    ASSUME NEW L, Answered(L), NEW p \in Pids, proc[p].st \notin {"free", "wait"}
    PROVE  /\ sh[L].pc = "wait" /\ proc[p].own = Owner(L)
           /\ proc[p].parent = p - 1
           /\ \A q \in Pids : q > p => proc[q].st = "free"
           /\ \A q \in Pids : q < p => proc[q].st = "wait"
BY DEF Answered, Stacked, Pids

LEMMA AnsweredWaited ==
    ASSUME Typed, NEW L \in Launchers, Answered(L), Waited(L)
    PROVE  Answered(L)'
<1>1. PICK p \in Pids, r \in Results :
         /\ proc[p].st = "done" /\ proc[p].parent = NoPid /\ Becomes(p, FreeProc)
         /\ sh' = [sh EXCEPT ![L].result = r, ![L].pc = "apply"]
  BY WaitedTyped DEF Typed
<1>2. sh[L].pc = "wait" /\ ret' = ret
  BY DEF Waited, At, files
<1>3. StageKept(L) /\ sh'[L].pc = "apply"
  BY <1>1, <1>2, WaitedLauncher DEF Typed
<1>4. Owner(L)' = Owner(L)
  BY <1>3 DEF StageKept, Owner
<1>5. p = 1 /\ \A q \in Pids : q > p => proc[q].st = "free"
  BY <1>1, StackTop DEF Pids, NoPid
<1>6. \A q \in Pids : proc'[q].st = "free"
  <2>1. proc'[p].st = "free" /\ \A q \in Pids \ {p} : proc'[q] = proc[q]
    BY <1>1, FreeTyped DEF Becomes, Typed, ProcsOK
  <2>2. \A q \in Pids \ {p} : q > p
    BY <1>5 DEF Pids
  <2> QED BY <1>5, <2>1, <2>2
<1> QED BY <1>2, <1>3, <1>4, <1>6 DEF Answered, Stacked, ReturnStands

LEMMA StackMoves ==
    ASSUME Typed, NEW L \in Launchers, Answered(L), NEW p \in Pids,
           proc[p].st \notin {"free", "wait"}, sh' = sh,
           NEW n, Becomes(p, n), n.parent = proc[p].parent, n.own = proc[p].own
    PROVE  \A q \in Pids : Stacked(q, L)'
<1>1. proc'[p] = n /\ \A q \in Pids \ {p} : proc'[q] = proc[q]
  BY DEF Becomes, Typed, ProcsOK
<1>2. Owner(L)' = Owner(L)
  BY DEF Owner
<1>3. /\ sh[L].pc = "wait" /\ proc[p].own = Owner(L)
      /\ proc[p].parent = p - 1
      /\ \A q \in Pids : q > p => proc[q].st = "free"
      /\ \A q \in Pids : q < p => proc[q].st = "wait"
  BY StackTop
<1>4. SUFFICES ASSUME NEW q \in Pids, proc'[q].st # "free" PROVE Stacked(q, L)'
  BY DEF Stacked
<1>5. CASE q = p
  <2>1. \A r \in Pids : r < p => proc'[r].st = "wait"
    BY <1>1, <1>3 DEF Pids
  <2> QED BY <1>1, <1>2, <1>3, <1>5, <2>1 DEF Stacked
<1>6. CASE q < p
  <2>1. q # p /\ proc'[q] = proc[q] /\ Stacked(q, L)
    BY <1>1, <1>6 DEF Answered, Pids
  <2>2. \A r \in Pids : r < q => proc'[r] = proc[r]
    BY <1>1, <1>6 DEF Pids
  <2> QED BY <1>2, <1>4, <2>1, <2>2 DEF Stacked
<1>7. ~(q > p)
  BY <1>1, <1>3, <1>4
<1> QED BY <1>5, <1>6, <1>7 DEF Pids

\* exec puts its child on the stack, and takes it off again.
LEMMA StackGrows ==
    ASSUME Typed, NEW L \in Launchers, Answered(L), NEW p \in Pids, proc[p].st = "run", sh' = sh,
           NEW n, NEW child, Starts(p, n, child), Suspended(n, proc[p]), Fresh(child),
           child.parent = p, child.own = proc[p].own
    PROVE  \A q \in Pids : Stacked(q, L)'
<1>1. /\ sh[L].pc = "wait" /\ proc[p].own = Owner(L)
      /\ proc[p].parent = p - 1
      /\ \A q \in Pids : q > p => proc[q].st = "free"
      /\ \A q \in Pids : q < p => proc[q].st = "wait"
  BY StackTop
<1>2. Owner(L)' = Owner(L)
  BY DEF Owner
<1>3. NewPid \in FreePids /\ \A q \in FreePids : NewPid <= q
  BY NewPidIsFree DEF Starts
<1>4. p \in Int /\ p >= 1 /\ p <= MaxProcs /\ MaxProcs \in Nat
  BY ProgramsAssumption DEF Pids
<1>5. NewPid = p + 1
  <2>1. NewPid \in Pids /\ proc[NewPid].st = "free"
    BY <1>3 DEF FreePids
  <2>2. NewPid \in Int /\ NewPid <= MaxProcs
    BY <1>4, <2>1 DEF Pids
  <2>3. NewPid > p
    <3>1. ~(NewPid < p) /\ NewPid # p
      BY <1>1, <2>1
    <3> QED BY <1>4, <2>2, <3>1
  <2>4. p + 1 \in Pids
    BY <1>4, <2>2, <2>3 DEF Pids
  <2>5. p + 1 \in FreePids
    BY <1>1, <1>4, <2>4 DEF FreePids
  <2> QED BY <1>3, <1>4, <2>2, <2>3, <2>5
<1>6. /\ NewPid \in Pids /\ proc'[p] = n /\ proc'[NewPid] = child
      /\ \A q \in Pids \ {p, NewPid} : proc'[q] = proc[q]
  BY <1>3, <1>4, <1>5 DEF Starts, FreePids, Typed, ProcsOK
<1>7. /\ n.st = "wait" /\ n.parent = proc[p].parent /\ n.own = proc[p].own
  BY DEF Suspended, SameProgram
<1>8. \A r \in Pids : r < NewPid => proc'[r].st = "wait"
  <2>1. ASSUME NEW r \in Pids, r < NewPid PROVE r = p \/ r < p
    BY <1>4, <1>5, <2>1 DEF Pids
  <2>2. ASSUME NEW r \in Pids, r < p PROVE proc'[r] = proc[r]
    BY <1>4, <1>5, <1>6, <2>2 DEF Pids
  <2> QED BY <1>1, <1>6, <1>7, <2>1, <2>2
<1>9. SUFFICES ASSUME NEW q \in Pids, proc'[q].st # "free" PROVE Stacked(q, L)'
  BY DEF Stacked
<1>10. q <= NewPid
  <2>1. q \in Int
    BY <1>4 DEF Pids
  <2>2. SUFFICES ASSUME q > NewPid PROVE FALSE
    BY <1>4, <1>5, <2>1
  <2>3. q # p /\ q # NewPid /\ q > p
    BY <1>4, <1>5, <2>1, <2>2
  <2> QED BY <1>1, <1>6, <1>9, <2>3
<1>11. \A r \in Pids : r < q => proc'[r].st = "wait"
  BY <1>4, <1>5, <1>8, <1>10 DEF Pids
<1>12. proc'[q].parent = q - 1 /\ proc'[q].own = Owner(L)
  <2>1. CASE q = NewPid
    <3>1. child.parent = q - 1
      BY <1>4, <1>5, <2>1
    <3> QED BY <1>1, <1>6, <2>1, <3>1
  <2>2. CASE q = p
    BY <1>1, <1>6, <1>7, <2>2
  <2>3. CASE q # p /\ q # NewPid
    BY <1>6, <1>9, <2>3 DEF Answered, Stacked
  <2> QED BY <2>1, <2>2, <2>3
<1> QED BY <1>1, <1>2, <1>11, <1>12 DEF Stacked

LEMMA StackShrinks ==
    ASSUME Typed, NEW L \in Launchers, Answered(L), NEW p \in Pids, proc[p].st = "wait", sh' = sh,
           NEW c \in Pids, NEW n, proc[c].parent = p, proc[c].st = "done", Finishes(n, proc[p]),
           proc' = [proc EXCEPT ![c] = FreeProc, ![p] = n]
    PROVE  \A q \in Pids : Stacked(q, L)'
<1>1. /\ sh[L].pc = "wait" /\ proc[c].parent = c - 1
      /\ \A q \in Pids : q > c => proc[q].st = "free"
      /\ \A q \in Pids : q < c => proc[q].st = "wait"
  BY StackTop
<1>2. Owner(L)' = Owner(L)
  BY DEF Owner
<1>3. c = p + 1 /\ p \in Int /\ c \in Int
  BY <1>1, ProgramsAssumption DEF Pids
<1>4. c # p
  BY <1>3
<1>5. /\ proc'[p] = n /\ proc'[c] = FreeProc
      /\ \A q \in Pids \ {p, c} : proc'[q] = proc[q]
  BY <1>4 DEF Typed, ProcsOK
<1>6. n.parent = proc[p].parent /\ n.own = proc[p].own
  BY DEF Finishes, SameProgram
<1>7. SUFFICES ASSUME NEW q \in Pids, proc'[q].st # "free" PROVE Stacked(q, L)'
  BY DEF Stacked
<1>8. q \in Int /\ q <= p
  <2>1. q \in Int
    BY ProgramsAssumption DEF Pids
  <2>2. q # c
    BY <1>5, <1>7, FreeTyped
  <2>3. ~(q > c)
    <3>1. SUFFICES ASSUME q > c PROVE FALSE
      OBVIOUS
    <3>2. q # p /\ q # c
      BY <1>3, <2>1, <3>1
    <3>3. proc'[q] = proc[q]
      BY <1>5, <3>2, Zenon
    <3> QED BY <1>1, <1>7, <3>1, <3>3
  <2> QED BY <1>3, <2>1, <2>2, <2>3
<1>9. Stacked(q, L) /\ proc[q].st # "free"
  <2>1. q = p \/ (q # p /\ q # c)
    BY <1>3, <1>8
  <2>2. q = p \/ proc'[q] = proc[q]
    BY <1>5, <2>1, Zenon
  <2> QED BY <1>7, <2>2 DEF Answered
<1>10. \A r \in Pids : r < q => proc'[r].st = "wait"
  <2>1. ASSUME NEW r \in Pids, r < q PROVE r # p /\ r # c
    BY <1>3, <1>8, <2>1
  <2> QED BY <1>5, <1>9, <2>1 DEF Stacked
<1>11. proc'[q].parent = proc[q].parent /\ proc'[q].own = proc[q].own
  <2>1. q = p \/ (q # p /\ q # c)
    BY <1>3, <1>8
  <2> QED BY <1>5, <1>6, <2>1
<1> QED BY <1>1, <1>2, <1>9, <1>10, <1>11 DEF Stacked

\* A return file is written for the line the launcher waits for.
LEMMA AnsweredProgram ==
    ASSUME Typed, NEW L \in Launchers, Answered(L), Words \cap {"bg", "spawn"} = {},
           NEW p \in Pids, ProgramStep(p) \/ KillStep(p)
    PROVE  Answered(L)'
<1> USE DEF Typed
<1>1. sh' = sh
  BY ProgramWays
<1>2. Owner(L)' = Owner(L) /\ Stage(L)' = Stage(L)
  BY <1>1 DEF Owner, Stage
<1>4. ASSUME ret' = ret \/ ret'.by = Owner(L)
      PROVE  ReturnStands(L)'
  BY <1>1, <1>2, <1>4 DEF Answered, ReturnStands
<1>5. CASE RunPlain(p) \/ RunCd(p) \/ RunExit(p) \/ RunLogout(p) \/ RunStarter(p)
  <2>1. proc[p].st = "run" /\ ret' = ret
    BY <1>5 DEF RunPlain, RunCd, RunExit, RunLogout, RunStarter
  <2>2. proc[p].prog \notin {"bg", "spawn"}
    BY DEF ProcsOK, ProcState, Names
  <2>3. CASE Ends(p)
    <3>1. PICK n : Becomes(p, n) /\ SameProgram(n, proc[p])
      BY <2>3 DEF Ends, Finishes
    <3>2. \A q \in Pids : Stacked(q, L)'
      BY <1>1, <2>1, <3>1, StackMoves DEF SameProgram
    <3> QED BY <1>4, <2>1, <3>2 DEF Answered
  <2>4. CASE ~Ends(p)
    <3>1. PICK n, child :
             /\ Starts(p, n, child) /\ Suspended(n, proc[p]) /\ Fresh(child)
             /\ child.parent = p /\ child.own = proc[p].own
      BY <1>5, <2>2, <2>4, RunPlainTyped, RunCdTyped, RunExitTyped, RunLogoutTyped, RunStarterTyped
    <3>2. \A q \in Pids : Stacked(q, L)'
      BY <1>1, <2>1, <3>1, StackGrows
    <3> QED BY <1>4, <2>1, <3>2 DEF Answered
  <2> QED BY <2>3, <2>4
<1>6. CASE CommandCtxRead(p)
  <2>1. PICK n : Becomes(p, n) /\ SameProgram(n, proc[p])
    BY <1>6, CtxReadTyped
  <2>2. proc[p].st = "start" /\ ret' = ret
    BY <1>6 DEF CommandCtxRead
  <2>3. \A q \in Pids : Stacked(q, L)'
    BY <1>1, <2>1, <2>2, StackMoves DEF SameProgram
  <2> QED BY <1>4, <2>2, <2>3 DEF Answered
<1>7. CASE StarterResumes(p)
  <2>1. PICK c \in Pids \ {p} : \E n :
           /\ proc[c].parent = p /\ proc[c].st = "done" /\ Finishes(n, proc[p])
           /\ proc' = [proc EXCEPT ![c] = FreeProc, ![p] = n]
    BY <1>7, StarterResumesTyped
  <2>2. proc[p].st = "wait" /\ ret' = ret
    BY <1>7 DEF StarterResumes
  <2>3. \A q \in Pids : Stacked(q, L)'
    BY <1>1, <2>1, <2>2, StackShrinks
  <2> QED BY <1>4, <2>2, <2>3 DEF Answered
<1>8. CASE CommandRetWrite(p) \/ Killed(p)
  <2>1. PICK n : Becomes(p, n) /\ Over(n, proc[p])
    BY <1>8, RetWriteTyped, KilledTyped
  <2>2. proc[p].st \notin {"free", "wait"}
    BY <1>8 DEF CommandRetWrite, Killed
  <2>3. proc[p].own = Owner(L) /\ sh[L].pc = "wait"
    BY <2>2, StackTop
  <2>4. ~IsBackground(proc[p].own)
    BY <2>3, OwnerInForeground DEF AtStage
  <2>5. SameProgram(n, proc[p])
    BY <2>1, <2>4 DEF Over
  <2>6. \A q \in Pids : Stacked(q, L)'
    BY <1>1, <2>1, <2>2, <2>5, StackMoves DEF SameProgram
  <2>7. ret' = ret \/ ret'.by = Owner(L)
    BY <1>8, <2>3, RetWriteTyped DEF Killed
  <2> QED BY <1>4, <2>6, <2>7 DEF Answered
<1> QED BY <1>5, <1>6, <1>7, <1>8 DEF ProgramStep, ProcStep, KillStep

LEMMA InitAnswered ==
    ASSUME NEW L \in Launchers
    PROVE  Init => Answered(L)
<1> SUFFICES ASSUME Init PROVE Answered(L)
  OBVIOUS
<1>1. sh[L].pc = "boot"
  BY DEF Init, InitLauncher
<1>2. \A p \in Pids : proc[p].st = "free"
  BY FreeTyped DEF Init
<1> QED BY <1>1, <1>2 DEF Answered, Stacked, ReturnStands

LEMMA AnsweredStep ==
    ASSUME NEW L, Launchers = {L}, Words \cap {"bg", "spawn"} = {}
    PROVE  Typed /\ Answered(L) /\ [Next]_vars => Answered(L)'
<1> SUFFICES ASSUME Typed, Answered(L), [Next]_vars PROVE Answered(L)'
  OBVIOUS
<1>1. L \in Launchers
  OBVIOUS
<1>2. CASE LauncherStep(L) \/ UserStep(L)
  BY <1>1, <1>2, LauncherWays, AnsweredLauncher, AnsweredExec, AnsweredWaited
<1>3. CASE \E p \in Pids : ProgramStep(p) \/ KillStep(p)
  BY <1>1, <1>3, AnsweredProgram
<1>4. CASE UNCHANGED vars
  <2>1. sh' = sh /\ proc' = proc /\ ret' = ret
    BY <1>4 DEF vars
  <2> QED BY <2>1 DEF Answered, Stacked, ReturnStands, Stage, Owner
<1> QED BY <1>2, <1>3, <1>4 DEF Next

\* With one launcher, as long as no line names bg or spawn: whatever ends badly,
\* the answer the launcher applies is that of the command it has just run.
THEOREM ReturnBelongs ==
    ASSUME NEW L, Launchers = {L}, Words \cap {"bg", "spawn"} = {}
    PROVE  Spec => []ReturnIsOwn
<1>1. Init => Answered(L)
  BY InitAnswered
<1>2. Typed /\ Answered(L) /\ [Next]_vars => Answered(L)'
  BY AnsweredStep
<1>3. Answered(L) => ReturnIsOwn
  BY DEF Answered, ReturnStands, ReturnIsOwn, At
<1> QED BY <1>1, <1>2, <1>3, AlwaysTyped, PTL DEF Spec
=============================================================================
