------------------------------ MODULE Desktop -------------------------------
(***************************************************************************)
(* The programs of the desktop: the window manager, the file explorer, the  *)
(* task manager, the package window, the terminal (its grid and its         *)
(* window), the job commands and the remote shell.  They share no state, so *)
(* their interleavings show nothing: a behaviour is one of a single         *)
(* program, chosen by DesktopInit, with the others at their start.          *)
(***************************************************************************)
EXTENDS UWM, FileExplorer, TaskManager, PkgGui, Terminal, TermWindow, JobTools,
        RemoteShell

VARIABLE active     \* the program of this behaviour

desktopVars ==
    <<active, uwmVars, fx, tmVars, pgVars, term, twVars, jobVars, rsVars>>

-----------------------------------------------------------------------------

DesktopPrograms == {"uwm", "explorer", "tasks", "packages", "grid", "window", "jobs", "rsh"}

\* A program that does not run has one of its initial states.
DesktopInit ==
    /\ active \in DesktopPrograms
    /\ UwmInit /\ (active # "uwm" => sess.tty = 0)
    /\ FxInit /\ (active # "explorer" => fx.cwd = "/")
    /\ TmInit
    /\ PgInit /\ (active # "packages" => db = {})
    /\ TermInit
    /\ TwInit /\ (active # "window" => tty = 0)
    /\ JobInit /\ RsInit

DesktopNext ==
    \/ /\ active = "uwm" /\ UwmNext
       /\ UNCHANGED <<active, fx, tmVars, pgVars, term, twVars, jobVars, rsVars>>
    \/ /\ active = "explorer" /\ FxNext
       /\ UNCHANGED <<active, uwmVars, tmVars, pgVars, term, twVars, jobVars, rsVars>>
    \/ /\ active = "tasks" /\ TmNext
       /\ UNCHANGED <<active, uwmVars, fx, pgVars, term, twVars, jobVars, rsVars>>
    \/ /\ active = "packages" /\ PgNext
       /\ UNCHANGED <<active, uwmVars, fx, tmVars, term, twVars, jobVars, rsVars>>
    \/ /\ active = "grid" /\ TermNext
       /\ UNCHANGED <<active, uwmVars, fx, tmVars, pgVars, twVars, jobVars, rsVars>>
    \/ /\ active = "window" /\ TwNext
       /\ UNCHANGED <<active, uwmVars, fx, tmVars, pgVars, term, jobVars, rsVars>>
    \/ /\ active = "jobs" /\ JobNext
       /\ UNCHANGED <<active, uwmVars, fx, tmVars, pgVars, term, twVars, rsVars>>
    \/ /\ active = "rsh" /\ RsNext
       /\ UNCHANGED <<active, uwmVars, fx, tmVars, pgVars, term, twVars, jobVars>>

\* The scheduler runs fg and rshd again and again; users and clients may stop.
DesktopSpec ==
    DesktopInit /\ [][DesktopNext]_desktopVars /\ JobFairness /\ RsFair

-----------------------------------------------------------------------------

\* The task manager and fg act on the process the user saw: tm_kill_selected
\* ends the marked row's process, ush_cmd_fg takes the job that jobs lists.
RightProcess == [][TmEndsTheMarkedTask /\ FgTakesListedJob]_<<tmVars, jobVars>>

\* The package window (pg_render) and the task manager (tm_render) mark a row of
\* the list they show, and what they show of it is so.
ListsShown == PackagesShown /\ TmSelectionIsShown

\* The terminal (term_ansi_char, term_apply_geometry): what a command prints
\* stays within the grid, the pixels fit the window, and nothing is left of it.
TerminalSound == TermGridSafe /\ TermPixelsFitWindow /\ TermLeavesNoTrace

\* fg gives the prompt back after its job ended, and rshd takes the next client
\* after exit.
WaitsEnd == FgReturns /\ ExitFreesServer

=============================================================================
