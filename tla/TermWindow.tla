----------------------------- MODULE TermWindow -----------------------------
(***************************************************************************)
(* The window of the graphical terminal (apps/terminal/terminal.c): its     *)
(* pixel buffer, its size and place, dragging, resizing and maximizing, the *)
(* tty it takes over and gives back.  The window manager of the kernel is   *)
(* external and may refuse every request; malloc may fail.  A size stands   *)
(* for a width and a height, a place for an x and a y.                      *)
(***************************************************************************)
EXTENDS Integers

CONSTANTS
    MinSize,      \* TERM_MIN_W x TERM_MIN_H
    FullSize,     \* the work area of the screen
    TERM_TTY_DISPLAY

Sizes == MinSize..FullSize
NoPixels == 0      \* the buffer is not there; otherwise its size
NoWindow == 0

ASSUME TwAssumption ==
    MinSize \in Int /\ FullSize \in Int /\ TERM_TTY_DISPLAY \in Int

VARIABLES
    tw,     \* the window fields of term_app
    wmSize, \* external: the size of the window in the kernel, 0: no window
    tty     \* external: the active tty

twVars == <<tw, wmSize, tty>>

InRange(v, low, high) == IF v < low THEN low ELSE IF v > high THEN high ELSE v

\* "began" is the tty the terminal was started on.
TwStart(began) ==
    [began |-> began, stage |-> "start", w |-> NoPixels, pixels |-> NoPixels, place |-> 0,
     maximized |-> FALSE, restore |-> <<0, 0>>, grip |-> "none", focused |-> FALSE,
     old_tty |-> 0, switched |-> FALSE]

TwInit ==
    /\ tty \in {0, TERM_TTY_DISPLAY}
    /\ tw = TwStart(tty)
    /\ wmSize = NoWindow

\* Mutant: the tty is given back only when a window was there.
TwShutdownWindowed(t) ==
    /\ tw' = [t EXCEPT !.stage = "ended", !.pixels = NoPixels, !.switched = FALSE]
    /\ wmSize' = NoWindow
    /\ tty' = IF t.switched /\ wmSize # NoWindow THEN t.old_tty ELSE tty

\* term_shutdown, on every way out.
TwShutdown(t) ==
    /\ tw' = [t EXCEPT !.stage = "ended", !.pixels = NoPixels, !.switched = FALSE]
    /\ wmSize' = NoWindow
    /\ tty' = IF t.switched THEN t.old_tty ELSE tty

\* term_init_window: the screen, the tty.
TwTakesTty ==
    /\ tw.stage = "start"
    /\ tw' = [tw EXCEPT !.stage = "create", !.old_tty = tty, !.switched = tty # TERM_TTY_DISPLAY]
    /\ tty' = TERM_TTY_DISPLAY
    /\ UNCHANGED wmSize

TwNoScreen == tw.stage = "start" /\ TwShutdown(tw)

\* One of the fallback sizes, from the largest; term_alloc_pixels or the
\* kernel may refuse it, and the buffer of a refused one is released.
TwCreates ==
    /\ tw.stage = "create"
    /\ \E s \in Sizes :
         /\ tw' = [tw EXCEPT !.stage = "loop", !.w = s, !.pixels = s, !.focused = TRUE]
         /\ wmSize' = s
    /\ UNCHANGED tty

TwNotCreated == tw.stage = "create" /\ TwShutdown([tw EXCEPT !.pixels = NoPixels])

\* Mutant: the size is recorded before the kernel has answered.
ApplyGeometryEarly(t, k, size, place, fails, again) ==
    LET s == InRange(size, MinSize, FullSize)
    IN  IF s # t.w /\ fails \in {"malloc", "resize"}
        THEN [t |-> [t EXCEPT !.w = s, !.pixels = s], wm |-> k, ok |-> FALSE]
        ELSE [t |-> [t EXCEPT !.w = s, !.pixels = s, !.place = place], wm |-> s, ok |-> TRUE]

\* term_apply_geometry.  The old buffer is freed before the new one is asked
\* for; when that or the kernel's resize fails, a buffer of the old size is
\* asked for again.  "fails" is the request that fails, "again" whether the
\* old size can be had again.
ApplyGeometry(t, k, size, place, fails, again) ==
    LET s == InRange(size, MinSize, FullSize)
        resized == s # t.w
        kept == [t EXCEPT !.pixels = IF again THEN (IF t.pixels = NoPixels THEN NoPixels ELSE t.w) ELSE NoPixels]
        grown == [t EXCEPT !.pixels = IF resized THEN s ELSE @, !.w = s]
    IN  IF resized /\ fails \in {"malloc", "resize"} THEN [t |-> kept, wm |-> k, ok |-> FALSE]
        ELSE IF place # t.place /\ fails = "move" THEN [t |-> grown, wm |-> s, ok |-> FALSE]
        ELSE [t |-> [grown EXCEPT !.place = place], wm |-> s, ok |-> TRUE]

Outcomes == {"none", "malloc", "resize", "move"} \X BOOLEAN

\* term_toggle_maximize: when the geometry is refused the flag goes back.
Toggled(o) ==
    LET up == ~tw.maximized
        from == [tw EXCEPT !.maximized = up, !.restore = IF up THEN <<tw.w, tw.place>> ELSE @]
        to == IF up THEN <<FullSize, 0>> ELSE tw.restore
        g == ApplyGeometry(from, wmSize, to[1], to[2], o[1], o[2])
    IN  [t |-> [g.t EXCEPT !.maximized = (g.ok = up)], wm |-> g.wm]

\* A press of the left button (term_handle_mouse_button).
TwMaximize ==
    /\ tw.stage = "loop"
    /\ \E o \in Outcomes : tw' = Toggled(o).t /\ wmSize' = Toggled(o).wm
    /\ UNCHANGED tty

TwGrip ==
    /\ tw.stage = "loop" /\ ~tw.maximized
    /\ \E g \in {"drag", "resize"} : tw' = [tw EXCEPT !.grip = g]
    /\ UNCHANGED <<wmSize, tty>>

\* The release of the button, or the loss of the focus.
TwRelease ==
    /\ tw.stage = "loop"
    /\ \E f \in BOOLEAN : tw' = [tw EXCEPT !.grip = "none", !.focused = f]
    /\ UNCHANGED <<wmSize, tty>>

\* term_handle_mouse_move.
TwMouseMove ==
    /\ tw.stage = "loop" /\ tw.grip # "none" /\ ~tw.maximized
    /\ \E o \in Outcomes, s \in (MinSize - 1)..(FullSize + 1), p \in 0..1 :
         LET g == IF tw.grip = "drag" THEN ApplyGeometry(tw, wmSize, tw.w, p, o[1], o[2])
                  ELSE ApplyGeometry(tw, wmSize, s, tw.place, o[1], o[2])
         IN  tw' = g.t /\ wmSize' = g.wm
    /\ UNCHANGED tty

\* The close button or the exit command ends term_loop.
TwClose == tw.stage = "loop" /\ TwShutdown(tw)

TwNext ==
    \/ TwTakesTty \/ TwNoScreen \/ TwCreates \/ TwNotCreated \/ TwMaximize \/ TwGrip \/ TwRelease
    \/ TwMouseMove \/ TwClose

TwSpec == TwInit /\ [][TwNext]_twVars

-----------------------------------------------------------------------------

\* Through refused resizes and failed allocations, the buffer that the
\* terminal presents has the size it believes the window has, and that is the
\* size of the kernel's window: no present hands over pixels that are not there.
TermPixelsFitWindow ==
    tw.stage = "loop" => wmSize = tw.w /\ tw.pixels \in {NoPixels, tw.w}

\* However the terminal ends, also when no window could be made, its window
\* and buffer are gone and the tty is the one it was started on.
TermLeavesNoTrace ==
    tw.stage = "ended" =>
      /\ wmSize = NoWindow /\ tw.pixels = NoPixels
      /\ tty = tw.began

=============================================================================
