-------------------------------- MODULE UWM --------------------------------
(***************************************************************************)
(* The window manager (apps/uwm): a session with four windows of its own    *)
(* for applications, a taskbar and a start menu, beside the windows of the  *)
(* programs it starts.  Every application has a program of its own, started *)
(* from the start menu or by a key; the registry remembers its process.     *)
(*                                                                          *)
(* Geometry and pixels are left out: a click is the part of a window it     *)
(* hits, a drawing the part of the state it shows.  win->id # 0 and         *)
(* win->alive are one flag, they are only ever set and cleared together.    *)
(***************************************************************************)
EXTENDS Integers, FiniteSets

CONSTANTS
    USH_UWM_APP_COUNT,
    MaxPids            \* bound: processes started in a behaviour

Apps == 0..(USH_UWM_APP_COUNT - 1)
USH_UWM_TERMINAL_INDEX == 1
Taskbar == USH_UWM_APP_COUNT
StartMenu == USH_UWM_APP_COUNT + 1
Windows == 0..StartMenu
None == -1
Pids == 1..MaxPids

\* Sizes are numbers.
UwmSizes == USH_UWM_APP_COUNT \in Nat /\ MaxPids \in Nat

ASSUME UwmAssumption == UwmSizes

VARIABLES
    sess,      \* ush_uwm_session, and the kernel's record of its windows
    procs,     \* external: the processes uwm started
    foreign    \* external: the processes that show a window of their own

uwmVars == <<sess, procs, foreign>>

ForeignWindow(p) == 100 + p        \* external: the window of process p

Closed == [alive |-> FALSE, closed |-> TRUE, minimized |-> FALSE, topmost |-> FALSE,
           maximized |-> FALSE, pixels |-> FALSE]

\* ush_uwm_prepare_session.
Prepared(tty) ==
    [pc |-> "start", active |-> None, drag |-> None, resize |-> None, start_open |-> FALSE,
     tty_before |-> tty, tty |-> tty, switched |-> FALSE,
     pids |-> [a \in Apps |-> 0], states |-> [a \in Apps |-> "unused"],
     win |-> [i \in Windows |-> IF i \in Apps THEN Closed
                                ELSE [Closed EXCEPT !.topmost = TRUE, !.closed = i # Taskbar]],
     kernel |-> {}, focus |-> None,
     bar |-> [open |-> FALSE, buttons |-> {}], menu |-> {}]

Running(s, a) == s.pids[a] # 0 /\ s.states[a] \notin {"exited", "unused"}

-----------------------------------------------------------------------------
(* uwm_window.c.  k holds what the kernel answers during one handler:       *)
(* whether a window can be created, focused, presented, memory had.         *)

Answers == [create : BOOLEAN, focus : BOOLEAN, present : BOOLEAN, malloc : BOOLEAN]

\* The taskbar draws the start button, the windows of other programs and the
\* minimized windows of the session.
RenderTaskbar(s) ==
    [open |-> s.start_open,
     buttons |-> {ForeignWindow(p) : p \in foreign} \cup {i \in Apps : s.win[i].alive}
                 \cup {i \in Apps : ~s.win[i].closed /\ s.win[i].minimized}]

\* The start menu marks the applications that run.
RenderStart(s) == {a \in Apps : Running(s, a)}

\* The picture is drawn in the window's pixels; whether they could be presented
\* is not asked, so that bar and menu are what the next present shows.
Refresh(s, i) ==
    IF ~s.win[i].alive \/ ~s.win[i].pixels THEN s
    ELSE IF i = Taskbar THEN [s EXCEPT !.bar = RenderTaskbar(s)]
    ELSE IF i = StartMenu THEN [s EXCEPT !.menu = RenderStart(s)] ELSE s

RefreshTaskbar(s) == Refresh(s, Taskbar)

ReplacePixels(s, i, k) == IF k.malloc THEN [s EXCEPT !.win[i].pixels = TRUE] ELSE s

CreateWindow(s, i, k) ==
    IF k.create
    THEN [s EXCEPT !.win[i].alive = TRUE, !.kernel = @ \cup {i}]
    ELSE [s EXCEPT !.win[i].alive = FALSE]

DestroyKernelWindow(s, i) ==
    [s EXCEPT !.kernel = @ \ {i}, !.focus = IF @ = i /\ s.win[i].alive THEN None ELSE @,
              !.win[i].alive = FALSE]

DestroyWindow(s, i) ==
    [DestroyKernelWindow(s, i) EXCEPT
        !.win[i] = [@ EXCEPT !.pixels = FALSE, !.minimized = FALSE, !.closed = TRUE,
                             !.maximized = FALSE]]

SetFocus(s, w, k) == IF k.focus THEN [s EXCEPT !.focus = w] ELSE s

Usable(s, i) == s.win[i].alive /\ ~s.win[i].closed /\ ~s.win[i].minimized

SetActive(s, i, k) ==
    IF ~Usable(s, i) \/ ~k.focus THEN s
    ELSE RefreshTaskbar([SetFocus(s, i, k) EXCEPT !.active = i])

\* The next usable window after the active one, in a ring.
FocusNext(s, k) ==
    LET start == IF s.active \in Apps THEN s.active ELSE 0
        ring == [n \in 1..USH_UWM_APP_COUNT |-> (start + n) % USH_UWM_APP_COUNT]
        hits == {n \in DOMAIN ring : Usable(s, ring[n])}
    IN  IF hits # {}
        THEN SetActive(s, ring[CHOOSE n \in hits : \A m \in hits : n <= m], k)
        ELSE RefreshTaskbar([s EXCEPT !.active = None])

FocusNextIfActive(s, i, k) == IF s.active = i THEN FocusNext(s, k) ELSE s

MinimizeWindow(s, i, k) ==
    IF ~s.win[i].alive \/ s.win[i].closed THEN s
    ELSE RefreshTaskbar(FocusNextIfActive(
            [DestroyKernelWindow(s, i) EXCEPT !.win[i].minimized = TRUE], i, k))

CloseWindow(s, i, k) ==
    LET d == DestroyKernelWindow(s, i)
        r == IF s.win[i].maximized
             THEN ReplacePixels([d EXCEPT !.win[i].maximized = FALSE], i, k) ELSE d
    IN  RefreshTaskbar(FocusNextIfActive(
            [r EXCEPT !.win[i].closed = TRUE, !.win[i].minimized = FALSE], i, k))

RestoreWindow(s, i, k) ==
    LET open == [s EXCEPT !.win[i].closed = FALSE, !.win[i].minimized = FALSE]
        drawn == [open EXCEPT !.win[i].pixels = TRUE]
        made == CreateWindow(drawn, i, k)
    IN  IF s.win[i].alive THEN SetActive(open, i, k)
        ELSE IF ~s.win[i].pixels /\ ~k.malloc THEN s
        ELSE IF ~k.create THEN [made EXCEPT !.win[i].closed = TRUE]
        ELSE RefreshTaskbar(SetActive(made, i, k))

ToggleTopmost(s, i) ==
    IF ~s.win[i].alive THEN s
    ELSE RefreshTaskbar([s EXCEPT !.win[i].topmost = ~@])

\* ush_uwm_window_recreate_geometry and the caller's answer to its failure.
ToggleMaximize(s, i, k) ==
    LET d == DestroyKernelWindow(s, i)
        made == CreateWindow([d EXCEPT !.win[i].maximized = ~@], i, k)
    IN  IF i # USH_UWM_TERMINAL_INDEX \/ ~Usable(s, i) \/ ~k.malloc THEN s
        ELSE IF ~k.create \/ ~k.present
        THEN [d EXCEPT !.win[i].closed = TRUE]
        ELSE RefreshTaskbar(SetFocus([made EXCEPT !.active = i], i, k))

CloseStart(s, k) ==
    LET d == IF s.win[StartMenu].alive THEN DestroyKernelWindow(s, StartMenu) ELSE s
        c == [d EXCEPT !.start_open = FALSE, !.win[StartMenu].closed = TRUE]
    IN  RefreshTaskbar(IF c.active \in Apps /\ c.win[c.active].alive
                       THEN SetFocus(c, c.active, k) ELSE c)

\* ush_uwm_toggle_start, opening, up to the creation of the window.
StartMarkedOpen(s) ==
    [s EXCEPT !.win[StartMenu] = [@ EXCEPT !.pixels = TRUE, !.closed = FALSE],
              !.start_open = TRUE, !.menu = RenderStart(s)]

\* Mutant: the start window that cannot be created still counts as open.
OpenStartUnchecked(s, k) ==
    LET m == StartMarkedOpen(s)
    IN  IF ~s.win[StartMenu].pixels /\ ~k.malloc THEN s
        ELSE IF ~k.create THEN m
        ELSE RefreshTaskbar(SetFocus(CreateWindow(m, StartMenu, k), StartMenu, k))

OpenStart(s, k) ==
    LET m == StartMarkedOpen(s)
    IN  IF ~s.win[StartMenu].pixels /\ ~k.malloc THEN s
        ELSE IF ~k.create
        THEN [m EXCEPT !.start_open = FALSE, !.win[StartMenu].closed = TRUE]
        ELSE RefreshTaskbar(SetFocus(CreateWindow(m, StartMenu, k), StartMenu, k))

ToggleStart(s, k) == IF s.win[StartMenu].alive THEN CloseStart(s, k) ELSE OpenStart(s, k)

-----------------------------------------------------------------------------
(* uwm_util.c and uwm_events.c: the registry and the handlers.              *)

\* Mutant: an entry is taken to be free although its process has not ended.
RegistryReleasesEarly(s, a) ==
    LET p == s.pids[a] IN
    IF p = 0 THEN [s EXCEPT !.states[a] = "unused"]
    ELSE IF procs[p].state = "unused"
    THEN [s EXCEPT !.pids[a] = 0, !.states[a] = "unused"]
    ELSE [s EXCEPT !.states[a] = procs[p].state,
                   !.pids[a] = IF procs[p].state = "ready" THEN @ ELSE 0]

\* ush_uwm_app_registry_running: the entry after the kernel was asked.  A
\* process the kernel no longer knows is as good as one that has exited.
RegistryEntry(s, a) ==
    LET p == s.pids[a] IN
    IF p = 0 THEN [s EXCEPT !.states[a] = "unused"]
    ELSE IF procs[p].state = "unused"
    THEN [s EXCEPT !.pids[a] = 0, !.states[a] = "unused"]
    ELSE [s EXCEPT !.states[a] = procs[p].state,
                   !.pids[a] = IF procs[p].state = "exited" THEN 0 ELSE @]

\* ush_uwm_refresh_app_registry: the entries one after the other.
RegistryAll(s) ==
    [s EXCEPT !.pids = [a \in Apps |-> RegistryEntry(s, a).pids[a]],
              !.states = [a \in Apps |-> RegistryEntry(s, a).states[a]]]

\* Mutant: the program of the first application is missing from the table.
AppPathIncomplete(a) == a # 0

\* ush_uwm_app_path: every application is a program.
AppPath(a) == a \in Apps

FreePids == {p \in Pids : procs[p].state = "unused" /\ procs[p].app = None}

Spawned(p, a) == [procs EXCEPT ![p] = [app |-> a, state |-> "pending"]]

\* ush_uwm_launch_or_restore_app, as <<session, processes>>.
LaunchOrRestore(s, a, k) ==
    LET r == RegistryEntry(s, a)
        p == r.pids[a]
        n == CHOOSE f \in FreePids : \A g \in FreePids : f <= g
    IN  IF p # 0
        THEN <<RefreshTaskbar(IF p \in foreign THEN SetFocus(r, ForeignWindow(p), k) ELSE r), procs>>
        ELSE IF ~AppPath(a) THEN <<RestoreWindow(r, a, k), procs>>
        ELSE IF FreePids = {} \/ ~k.create THEN <<RefreshTaskbar(r), procs>>
        ELSE <<RefreshTaskbar([r EXCEPT !.pids[a] = n, !.states[a] = "pending"]), Spawned(n, a)>>

\* ush_uwm_handle_key_event, all but q and 1..4: they act on the active window.
WindowKeys == {"m", "x", "t", "other"}
KeyOnWindow(s, key, k) ==
    IF s.active \notin Apps \/ ~s.win[s.active].alive THEN s
    ELSE IF key = "m" THEN MinimizeWindow(s, s.active, k)
    ELSE IF key = "x" THEN CloseWindow(s, s.active, k)
    ELSE IF key = "t" THEN ToggleTopmost(s, s.active) ELSE s

\* ush_uwm_finish_resize and the end of a drag.
EndDrag(s, i) ==
    [s EXCEPT !.drag = IF @ = i THEN None ELSE @, !.resize = IF @ = i THEN None ELSE @]

\* ush_uwm_handle_mouse_button on a window of the session itself.
Spots == {"close", "minimize", "topmost", "resize", "title", "body"}
ClickAppWindow(s, i, spot, k) ==
    LET c == IF s.start_open THEN CloseStart(s, k) ELSE s
        a == SetActive(c, i, k)
    IN  CASE spot = "close" -> CloseWindow(a, i, k)
          [] spot = "minimize" -> MinimizeWindow(a, i, k)
          [] spot = "topmost" -> IF i = USH_UWM_TERMINAL_INDEX
                                 THEN ToggleMaximize(a, i, k) ELSE ToggleTopmost(a, i)
          [] spot = "resize" -> IF a.win[i].maximized THEN a ELSE [a EXCEPT !.resize = i]
          [] spot = "title" -> IF a.win[i].maximized THEN a ELSE [a EXCEPT !.drag = i]
          [] OTHER -> a

\* ush_uwm_handle_taskbar_click on a button: windows of other programs and of
\* the session, and the minimized ones.
ClickTaskbarButton(s, b, k) ==
    IF b \in Apps
    THEN IF s.win[b].minimized THEN RestoreWindow(s, b, k)
         ELSE IF s.active = b THEN MinimizeWindow(s, b, k) ELSE SetActive(s, b, k)
    ELSE LET c == IF s.start_open THEN CloseStart(s, k) ELSE s
         IN  RefreshTaskbar(SetFocus([c EXCEPT !.active = None], b, k))

-----------------------------------------------------------------------------
(* The program.                                                            *)

UwmInit ==
    /\ \E tty \in {0, 1} : sess = Prepared(tty)
    /\ procs = [p \in Pids |-> [app |-> None, state |-> "unused"]]
    /\ foreign = {}

USH_UWM_TTY_DISPLAY == 1

\* ush_uwm_stop and ush_uwm_restore_tty.
Stopped(s) ==
    [s EXCEPT !.pc = "done", !.win = [i \in Windows |-> DestroyWindow(s, i).win[i]],
              !.kernel = {}, !.focus = IF @ \in Windows THEN None ELSE @,
              !.tty = IF s.switched THEN s.tty_before ELSE @, !.switched = FALSE]

SwitchTty(s) ==
    IF s.tty_before # USH_UWM_TTY_DISPLAY
    THEN [s EXCEPT !.tty = USH_UWM_TTY_DISPLAY, !.switched = TRUE] ELSE s

\* ush_cmd_uwm up to the loop: the taskbar first, then the start menu.
BootTaskbar(s, k) ==
    LET p == ReplacePixels(s, Taskbar, k)
        c == CreateWindow(p, Taskbar, k)
    IN  IF ~k.malloc \/ ~k.create THEN p
        ELSE IF ~k.present THEN DestroyKernelWindow(c, Taskbar) ELSE RefreshTaskbar(c)

StartSession ==
    /\ sess.pc = "start"
    /\ \E k \in Answers, kmenu \in Answers :
         LET b == BootTaskbar(SwitchTty(sess), k)
         IN  sess' = IF b.win[Taskbar].alive
                     THEN [RefreshTaskbar(ToggleStart(b, kmenu)) EXCEPT !.pc = "loop"]
                     ELSE Stopped(b)
    /\ UNCHANGED <<procs, foreign>>

InLoop == sess.pc = "loop"

\* Events are polled from the windows of the session that exist.
Receives == {i \in Windows : sess.win[i].alive}
KeyArrives == InLoop /\ sess.focus \in Receives

KeyQuit ==
    /\ KeyArrives
    /\ sess' = Stopped(sess)
    /\ UNCHANGED <<procs, foreign>>

KeyTab ==
    /\ KeyArrives
    /\ \E k \in Answers : sess' = FocusNext(sess, k)
    /\ UNCHANGED <<procs, foreign>>

KeyLaunch(a) ==
    /\ KeyArrives
    /\ \E k \in Answers :
         LET r == LaunchOrRestore(sess, a, k) IN sess' = r[1] /\ procs' = r[2]
    /\ UNCHANGED foreign

KeyWindow(key) ==
    /\ KeyArrives
    /\ \E k \in Answers : sess' = KeyOnWindow(sess, key, k)
    /\ UNCHANGED <<procs, foreign>>

\* A press of the left button, on the window that is under the pointer when
\* the event is handled (ush_uwm_repair_mouse_target).
PressStartButton ==
    /\ InLoop /\ Taskbar \in Receives
    /\ \E k \in Answers : sess' = ToggleStart(sess, k)
    /\ UNCHANGED <<procs, foreign>>

PressTaskbarButton ==
    /\ InLoop /\ Taskbar \in Receives
    /\ \E b \in RenderTaskbar(sess).buttons, k \in Answers :
         sess' = ClickTaskbarButton(sess, b, k)
    /\ UNCHANGED <<procs, foreign>>

PressStartPower ==
    /\ InLoop /\ StartMenu \in Receives
    /\ \E k \in Answers : sess' = CloseStart(sess, k)
    /\ UNCHANGED <<procs, foreign>>

PressStartEntry(a) ==
    /\ InLoop /\ StartMenu \in Receives
    /\ \E k \in Answers :
         LET r == LaunchOrRestore(CloseStart(sess, k), a, k) IN sess' = r[1] /\ procs' = r[2]
    /\ UNCHANGED foreign

\* Presses on, releases over and focus changes of the session's own windows.
OwnWindowEvent ==
    /\ InLoop
    /\ \E i \in Receives, spot \in Spots \cup {"release", "focus", "blur"}, k \in Answers :
         sess' = IF spot \in {"release", "blur"} THEN EndDrag(sess, i)
                 ELSE IF i \notin Apps THEN sess
                 ELSE IF spot = "focus" THEN RefreshTaskbar([sess EXCEPT !.active = i])
                 ELSE ClickAppWindow(sess, i, spot, k)
    /\ UNCHANGED <<procs, foreign>>

\* The loop, every 20 ticks: the registry, the taskbar and, if the registry
\* changed, the start menu.
RegistryTick ==
    /\ InLoop
    /\ LET r == RegistryAll(sess)
           b == RefreshTaskbar(r)
           changed == r.pids # sess.pids \/ r.states # sess.states
       IN  sess' = IF changed /\ b.start_open THEN Refresh(b, StartMenu) ELSE b
    /\ UNCHANGED <<procs, foreign>>

\* External: the started programs and the kernel's focus.
ProcRuns(p) ==
    /\ procs[p].state = "pending"
    /\ procs' = [procs EXCEPT ![p].state = "ready"]
    /\ UNCHANGED <<sess, foreign>>

ProcOpensWindow(p) ==
    /\ procs[p].state = "ready" /\ p \notin foreign
    /\ foreign' = foreign \cup {p}
    /\ sess' = [sess EXCEPT !.focus = ForeignWindow(p)]
    /\ UNCHANGED procs

ProcExits(p) ==
    /\ procs[p].state \in {"pending", "ready"}
    /\ procs' = [procs EXCEPT ![p].state = "exited"]
    /\ foreign' = foreign \ {p}
    /\ sess' = [sess EXCEPT !.focus = IF @ = ForeignWindow(p) THEN None ELSE @]

ProcReaped(p) ==
    /\ procs[p].state = "exited"
    /\ procs' = [procs EXCEPT ![p].state = "unused"]
    /\ UNCHANGED <<sess, foreign>>

UwmNext ==
    \/ StartSession \/ KeyQuit \/ KeyTab
    \/ \E a \in Apps : KeyLaunch(a) \/ PressStartEntry(a)
    \/ \E key \in WindowKeys : KeyWindow(key)
    \/ PressStartButton \/ PressTaskbarButton \/ PressStartPower
    \/ OwnWindowEvent \/ RegistryTick
    \/ \E p \in Pids : ProcRuns(p) \/ ProcOpensWindow(p) \/ ProcExits(p) \/ ProcReaped(p)

UwmSpec == UwmInit /\ [][UwmNext]_uwmVars

-----------------------------------------------------------------------------

Alive(p) == procs[p].state \in {"pending", "ready"}

\* Whatever keys and clicks arrive, and whenever the programs end, the window
\* manager never has two live processes of one application: the registry of
\* ush_uwm_app_registry_running is not released while its process lives.
OneProcessPerApp ==
    \A p, q \in Pids : Alive(p) /\ Alive(q) /\ procs[p].app = procs[q].app => p = q

\* While uwm runs, the start menu is open exactly when it has a window and the
\* taskbar shows that state; the kernel holds no window the session does not
\* know; and when uwm has ended, also after a start that failed, it holds none
\* and the console the user came from is active again.  The failing paths of
\* ush_uwm_toggle_start and ush_uwm_start are the ones to get wrong.
ScreenMatchesSession ==
    /\ InLoop => sess.start_open = sess.win[StartMenu].alive /\ sess.bar.open = sess.start_open
    /\ sess.kernel = Receives
    /\ sess.pc = "done" => sess.kernel = {} /\ sess.tty = sess.tty_before

\* No window of the session itself is ever opened for an application, since
\* every one of them is a program (ush_uwm_app_path): so no drag, resize or
\* active window can name one that is gone.
SessionWindowsStayClosed ==
    /\ \A a \in Apps : sess.win[a].closed /\ ~sess.win[a].alive
    /\ sess.active = None /\ sess.drag = None /\ sess.resize = None

\* All of it: one live process per application, a screen that shows the state
\* of the session (ush_cmd_uwm), and no window of its own for an application.
SessionSound == OneProcessPerApp /\ ScreenMatchesSession /\ SessionWindowsStayClosed

=============================================================================
