------------------------------ MODULE JobTools -------------------------------
(***************************************************************************)
(* Job control from the prompt: spawn, bg, fg, jobs, wait and kill          *)
(* (spawn_main.c and its five neighbours), programs that ask the kernel     *)
(* about its process table one call at a time while the processes they ask  *)
(* about go on.  The kernel is external: what its calls do is taken from    *)
(* how these programs use them.                                             *)
(***************************************************************************)
EXTENDS Integers, FiniteSets, FiniteSetsExt

CONSTANTS
    JobMax,            \* bound: process numbers given out
    JobTtys            \* terminals, the first being shown

JobSizes == JobMax \in Nat

ASSUME JobAssumption == JobSizes

VARIABLES
    jobTable,          \* pid -> [state, tty, user, tool]
    jobFg,             \* fg: [pid, pc, target, picked], or pc = "none"
    jobSaid            \* what the last command reported: [what, pid]
jobVars == <<jobTable, jobFg, jobSaid>>

Free == [state |-> "unused", tty |-> 1, user |-> FALSE, tool |-> FALSE]
JobPids == 1 .. JobMax
Live == {"pending", "running", "stopped"}
NoFg == [pid |-> 0, pc |-> "none", target |-> 0, picked |-> FALSE]
Present(p) == p \in JobPids /\ jobTable[p].state # "unused"

-----------------------------------------------------------------------------
(* The kernel.                                                             *)

\* spawn_pathv: process numbers only grow.
NextPid == 1 + Max({0} \cup {p \in JobPids : jobTable[p].state # "unused"})
Started(tty, user, tool) == [state |-> "pending", tty |-> tty, user |-> user, tool |-> tool]

\* proc_kill: <<the result, the process afterwards>>.
\* Mutant: a stopped process starts again with any signal.
KillResumesAll(entry, signal) ==
    IF entry.state \notin Live THEN <<"missing", entry>>
    ELSE IF signal = "STOP" THEN IF entry.state = "running" THEN <<"refused", entry>> ELSE <<"sent", [entry EXCEPT !.state = "stopped"]>>
    ELSE <<"sent", [entry EXCEPT !.state = IF @ = "stopped" \/ signal = "CONT" THEN "pending" ELSE "exited"]>>
proc_kill(entry, signal) ==
    IF entry.state \notin Live THEN <<"missing", entry>>
    ELSE IF signal = "STOP" THEN
        IF entry.state = "running" THEN <<"refused", entry>> ELSE <<"sent", [entry EXCEPT !.state = "stopped"]>>
    ELSE IF signal = "CONT" THEN
        IF entry.state = "stopped" THEN <<"sent", [entry EXCEPT !.state = "pending"]>> ELSE <<"refused", entry>>
    ELSE IF entry.state = "running" THEN <<"refused", entry>>
    ELSE <<"sent", [entry EXCEPT !.state = "exited"]>>

\* The scheduler, and a program that ends.  A tool that runs is not stopped by
\* itself; the entry of an exited process may be given up.
Schedule(p) ==
    /\ Present(p) /\ ~jobTable[p].tool
    /\ \/ jobTable[p].state = "pending" /\ jobTable' = [jobTable EXCEPT ![p].state = "running"]
       \/ jobTable[p].state = "running" /\ \E s \in {"pending", "exited"} : jobTable' = [jobTable EXCEPT ![p].state = s]
       \/ jobTable[p].state = "exited" /\ jobTable' = [jobTable EXCEPT ![p].state = "reaped"]
    /\ UNCHANGED <<jobFg, jobSaid>>

-----------------------------------------------------------------------------
(* spawn, bg, kill, wait, jobs: one kernel call decides each.              *)

\* ush_cmd_spawn; ush_cmd_bg with a name.  Programs under /system are refused.
ush_cmd_spawn(tty, user) ==
    /\ NextPid \in JobPids /\ user
    /\ jobTable' = [jobTable EXCEPT ![NextPid] = Started(tty, user, FALSE)]
    /\ jobSaid' = [what |-> "spawned", pid |-> NextPid]
    /\ UNCHANGED jobFg

\* The system's own processes and drivers appear without these commands.
SystemStarts ==
    /\ NextPid \in JobPids
    /\ jobTable' = [jobTable EXCEPT ![NextPid] = Started(1, FALSE, FALSE)]
    /\ UNCHANGED <<jobFg, jobSaid>>

Signal(p, signal, done) ==
    LET r == proc_kill(jobTable[p], signal)
    IN  /\ jobTable' = [jobTable EXCEPT ![p] = r[2]]
        /\ jobSaid' = [what |-> IF r[1] = "sent" THEN done ELSE r[1], pid |-> p]
        /\ UNCHANGED jobFg
\* A tool runs while it talks to the kernel: it is the one process that runs.
ush_cmd_kill(p, signal) == ~jobTable[p].tool /\ Signal(p, signal, "sent")
ush_bg_resume_pid(p) == ~jobTable[p].tool /\ Signal(p, "CONT", "resumed")

WaitAnswer(p) ==
    IF jobTable[p].state \in {"unused", "reaped"} THEN "missing" ELSE IF jobTable[p].state = "exited" THEN "exited" ELSE "running"
ush_cmd_wait(p) ==
    /\ jobSaid' = [what |-> WaitAnswer(p), pid |-> p]
    /\ UNCHANGED <<jobTable, jobFg>>

JobShown(p, all) ==
    /\ jobTable[p].user /\ jobTable[p].tty = 1
    /\ jobTable[p].state \notin {"unused", "reaped"}
    /\ all \/ jobTable[p].state # "exited"
\* The highest process number of the listing, which is in the table's order.
LastListed(all) == Max({0} \cup {p \in JobPids : JobShown(p, all)})
ush_cmd_jobs(all) ==
    /\ jobSaid' = [what |-> "listed", pid |-> LastListed(all)]
    /\ UNCHANGED <<jobTable, jobFg>>

-----------------------------------------------------------------------------
(* fg.                                                                     *)

\* Mutant: the latest process of any terminal.
PickLatestAnywhere(table) == Max({0} \cup {p \in JobPids : table[p].user /\ table[p].state \in Live})
\* The highest process number on the shown terminal; fg itself is a user
\* program there and alive, so it is a candidate too.
ush_fg_pick_latest_job(table) ==
    Max({0} \cup {p \in JobPids : table[p].tty = 1 /\ table[p].user /\ table[p].state \in Live})

\* The shell starts fg in the foreground, with or without a process number.
FgStart ==
    /\ jobFg.pc = "none" /\ NextPid \in JobPids
    /\ jobTable' = [jobTable EXCEPT ![NextPid] = [Started(1, TRUE, TRUE) EXCEPT !.state = "running"]]
    /\ \E p \in JobPids \cup {0} : jobFg' = [pid |-> NextPid, pc |-> IF p = 0 THEN "pick" ELSE "look", target |-> p, picked |-> p = 0]
    /\ UNCHANGED jobSaid

FgEnd(what) ==
    /\ jobTable' = [jobTable EXCEPT ![jobFg.pid].state = "reaped"]
    /\ jobSaid' = [what |-> what, pid |-> jobFg.target]
    /\ jobFg' = NoFg

FgPick ==
    /\ jobFg.pc = "pick"
    /\ LET p == ush_fg_pick_latest_job(jobTable)
       IN  IF p = 0 THEN FgEnd("no job")
           ELSE /\ jobFg' = [jobFg EXCEPT !.pc = "look", !.target = p]
                /\ UNCHANGED <<jobTable, jobSaid>>

\* ush_cmd_fg: a stopped job is continued, once.
FgLook ==
    /\ jobFg.pc = "look"
    /\ LET t == jobTable[jobFg.target]
           r == proc_kill(t, "CONT")
       IN  IF t.state \in {"unused", "reaped"} THEN FgEnd("missing")
           ELSE IF t.state # "stopped" \/ r[1] = "sent"
           THEN /\ jobTable' = [jobTable EXCEPT ![jobFg.target] = IF t.state = "stopped" THEN r[2] ELSE t]
                /\ jobFg' = [jobFg EXCEPT !.pc = "wait"]
                /\ UNCHANGED jobSaid
           ELSE FgEnd("refused")

\* Mutant: an answer that the process is not known does not end the loop.
FgWaitKnown ==
    /\ jobFg.pc = "wait" /\ WaitAnswer(jobFg.target) = "exited"
    /\ FgEnd("exited")

\* One turn of ush_fg_wait_pid's loop that ends it; the others sleep a tick.
FgWait ==
    /\ jobFg.pc = "wait" /\ WaitAnswer(jobFg.target) # "running"
    /\ FgEnd(WaitAnswer(jobFg.target))

-----------------------------------------------------------------------------
JobInit ==
    /\ jobTable = [p \in JobPids |-> IF p = 1 THEN [Started(1, TRUE, TRUE) EXCEPT !.state = "pending"] ELSE Free]
    /\ jobFg = NoFg
    /\ jobSaid = [what |-> "", pid |-> 0]

FgStep == FgPick \/ FgLook \/ FgWait
JobNext ==
    \/ \E p \in JobPids : Schedule(p) \/ ush_bg_resume_pid(p) \/ ush_cmd_wait(p)
                       \/ \E s \in {"TERM", "STOP", "CONT"} : ush_cmd_kill(p, s)
    \/ \E t \in JobTtys : ush_cmd_spawn(t, TRUE)
    \/ SystemStarts
    \/ \E all \in BOOLEAN : ush_cmd_jobs(all)
    \/ FgStart \/ FgStep
\* fg polls for ever, and the scheduler does not forget a process.
JobFairness == WF_jobVars(FgStep)
JobSpec == JobInit /\ [][JobNext]_jobVars /\ JobFairness

-----------------------------------------------------------------------------
\* fg gives the prompt back once the job it waits for has ended, whoever ended
\* it, even when the kernel has forgotten the job by then.
FgReturns ==
    \A p \in JobPids :
        (jobFg.pc = "wait" /\ jobFg.target = p /\ jobTable[p].state \in {"exited", "reaped"}) ~> (jobFg.pc = "none" \/ jobFg.target # p)

\* fg without a process number takes a job that jobs would list at that moment,
\* and never starts again a process of the system or of another terminal.
FgTakesListedJob ==
    /\ jobFg.pc = "pick" /\ jobFg'.pc = "look" => jobFg'.target = LastListed(FALSE)
    /\ jobFg.pc = "look" /\ jobFg.picked /\ jobFg'.pc # "look"
          /\ jobTable'[jobFg.target] # jobTable[jobFg.target] =>
         jobTable[jobFg.target].user /\ jobTable[jobFg.target].tty = 1
=============================================================================
