----------------------------- MODULE TaskManager -----------------------------
(***************************************************************************)
(* The task manager (apps/taskmgr_main.c): a list of processes that is read *)
(* again every TM_REFRESH_TICKS, a selected row, and a key and a button that *)
(* end the selected task.  Processes come and go at any time, so the list   *)
(* the user looks at may be older than the processes it names.              *)
(***************************************************************************)
EXTENDS Integers, Sequences

CONSTANTS
    MaxTask,        \* pids are 1..MaxTask, in the order of the process table
    Self,           \* the pid of the task manager
    TM_MAX_ROWS,
    TmRows          \* tm_visible_rows: rows the window shows

Tasks == 1..MaxTask
NoTask == 0

\* Sizes are numbers.
TmSizes ==
    MaxTask \in Nat /\ TM_MAX_ROWS \in Nat /\ TmRows \in Int

ASSUME TmAssumption == TmSizes

VARIABLES
    tasks,     \* external: [Tasks -> "none", "running" or "exited"]
    tm,        \* tm_app
    ended      \* the pid the last SIGTERM went to

tmVars == <<tasks, tm, ended>>

Clampi(v, low, high) == IF v < low THEN low ELSE IF v > high THEN high ELSE v

RowCount(a) == Len(a.rows)

\* Mutant: the remembered pid is not brought up to date with the row.
ClampSelectionKeepsPid(a) ==
    LET sel == IF a.selected \in 0..(RowCount(a) - 1) THEN a.selected ELSE 0
    IN  IF a.rows = <<>> THEN [a EXCEPT !.selected = -1, !.pid = NoTask, !.scroll = 0]
        ELSE [a EXCEPT !.selected = sel, !.pid = IF @ = NoTask THEN a.rows[sel + 1] ELSE @]

\* tm_clamp_selection.
ClampSelection(a) ==
    LET sel == IF a.selected \in 0..(RowCount(a) - 1) THEN a.selected ELSE 0
        max == IF RowCount(a) > TmRows THEN RowCount(a) - TmRows ELSE 0
        low == Clampi(a.scroll, 0, max)
        up == IF sel < low THEN sel ELSE low
        down == IF sel >= up + TmRows THEN sel - TmRows + 1 ELSE up
    IN  IF a.rows = <<>> THEN [a EXCEPT !.selected = -1, !.pid = NoTask, !.scroll = 0]
        ELSE [a EXCEPT !.selected = sel, !.pid = a.rows[sel + 1],
                       !.scroll = IF TmRows <= 0 THEN 0 ELSE down]

Listed(a, t, p) == t[p] = "running" \/ (a.include_exited /\ t[p] = "exited")

\* The rows of a reload: the processes in the order of the table, as far as
\* there is room.
Added(rows, p, a, t) ==
    IF Listed(a, t, p) /\ Len(rows) < TM_MAX_ROWS THEN Append(rows, p) ELSE rows

ReloadedRows(a, t) ==
    LET rows[p \in 0..MaxTask] == IF p = 0 THEN <<>> ELSE Added(rows[p - 1], p, a, t)
    IN  rows[MaxTask]

\* tm_reload, with the process table t: the selection follows its process.
ReloadFrom(a, t) ==
    LET rows == ReloadedRows(a, t)
        same == {i \in 1..Len(rows) : rows[i] = a.pid}
        sel == IF same # {} THEN (CHOOSE i \in same : TRUE) - 1 ELSE IF rows = <<>> THEN -1 ELSE 0
    IN  ClampSelection([a EXCEPT !.rows = rows, !.selected = sel])

Reload(a) == ReloadFrom(a, tasks)

\* Mutant: the reload of the timer is not drawn.
RefreshedUnseen(a) == Reload(a)

\* tm_render and tm_present: the rows of the window and the marked one.
Rendered(a) == [a EXCEPT !.shown = a.pid]

\* The end of the loop's turn: the list is read again and drawn.
Refreshed(a) == Rendered(Reload(a))

\* tm_select_row, tm_move_selection.
SelectRow(a, row) ==
    IF a.rows = <<>> THEN [a EXCEPT !.selected = -1, !.pid = NoTask]
    ELSE ClampSelection([a EXCEPT !.selected = Clampi(row, 0, RowCount(a) - 1)])

MoveSelection(a, delta) == IF a.rows = <<>> THEN a ELSE SelectRow(a, a.selected + delta)

TmStart == [run |-> TRUE, include_exited |-> FALSE, rows |-> <<>>, selected |-> -1, scroll |-> 0,
            pid |-> NoTask, shown |-> NoTask]

TmInit ==
    /\ tasks = [p \in Tasks |-> IF p = Self THEN "running" ELSE "none"]
    /\ tm = Refreshed(TmStart)
    /\ ended = NoTask

TmTimer == tm.run /\ tm' = Refreshed(tm) /\ UNCHANGED <<tasks, ended>>

TmToggleExited ==
    /\ tm.run /\ tm' = Refreshed([tm EXCEPT !.include_exited = ~@])
    /\ UNCHANGED <<tasks, ended>>

TmMove ==
    /\ tm.run
    /\ \E d \in {-1, 1, -TmRows, TmRows} : tm' = Rendered(MoveSelection(tm, d))
    /\ UNCHANGED <<tasks, ended>>

\* tm_handle_list_click: a row of the window.
TmClickRow ==
    /\ tm.run
    /\ \E i \in 0..(TmRows - 1) :
         /\ tm.scroll + i < RowCount(tm)
         /\ tm' = Rendered(SelectRow(tm, tm.scroll + i))
    /\ UNCHANGED <<tasks, ended>>

\* tm_kill_selected: the kernel refuses when the process is gone; else the
\* list is read again.  The status line is left out.
TmKill ==
    /\ tm.run
    /\ LET target == IF tm.selected \in 0..(RowCount(tm) - 1)
                     THEN tm.rows[tm.selected + 1] ELSE NoTask
           sent == target \notin {NoTask, Self} /\ tasks[target] = "running"
       IN  /\ ended' = IF sent THEN target ELSE ended
           /\ tasks' = IF sent THEN [tasks EXCEPT ![target] = "exited"] ELSE tasks
           /\ tm' = IF sent THEN Rendered(ReloadFrom(tm, tasks')) ELSE Rendered(tm)

TmQuit == tm.run /\ tm' = [tm EXCEPT !.run = FALSE] /\ UNCHANGED <<tasks, ended>>

\* External: other programs start processes, end and are reaped.
TaskChanges(p) ==
    /\ p # Self
    /\ tasks' = [tasks EXCEPT ![p] = CASE @ = "none" -> "running"
                                       [] @ = "running" -> "exited" [] OTHER -> "none"]
    /\ UNCHANGED <<tm, ended>>

TmNext ==
    \/ TmTimer \/ TmToggleExited \/ TmMove \/ TmClickRow \/ TmKill \/ TmQuit
    \/ \E p \in Tasks : TaskChanges(p)

TmSpec == TmInit /\ [][TmNext]_tmVars

-----------------------------------------------------------------------------

\* End task reaches only the process whose row was marked on the screen when
\* the user asked for it, and never the task manager: no reload, by the timer
\* or after another kill, puts another process under the mark unseen.
TmEndsTheMarkedTask == ended' # ended => ended' = tm.shown /\ ended' # Self

\* Whatever processes come and go, the selection stays on a row that the
\* window shows, and the pid that the next reload will look for is that row's.
TmSelectionIsShown ==
    tm.rows # <<>> =>
      /\ tm.selected \in 0..(RowCount(tm) - 1)
      /\ tm.pid = tm.rows[tm.selected + 1]
      /\ TmRows > 0 => tm.selected \in tm.scroll..(tm.scroll + TmRows - 1)

=============================================================================
