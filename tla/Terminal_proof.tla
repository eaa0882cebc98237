--------------------------- MODULE Terminal_proof ---------------------------
(***************************************************************************)
(* The graphical terminal.  Its window, for every range of sizes: buffer,   *)
(* kernel window and tty agree through refused resizes and on every way     *)
(* out.  Its grid, of any size, for every character a command may print:    *)
(* cursor and parameters stay inside.                                       *)
(***************************************************************************)
EXTENDS Terminal, TermWindow, SequenceTheorems, WellFoundedInduction, TLAPS

(***************************************************************************)
(* The window.                                                             *)
(***************************************************************************)

\* The fields of the window have their types; a size is not bounded here,
\* since the argument only compares sizes.
TwType ==
    [began : Int, stage : {"start", "create", "loop", "ended"}, w : Int, pixels : Int,
     place : Int, maximized : BOOLEAN, restore : Int \X Int,
     grip : {"none", "drag", "resize"}, focused : BOOLEAN, old_tty : Int, switched : BOOLEAN]

\* So do the kernel's window and tty.
TwTypeOK ==
    /\ tw \in TwType
    /\ wmSize \in Int
    /\ tty \in Int

\* The tty that term_shutdown gives back is the one the terminal began on.
TtyKept ==
    /\ tw.stage = "start" => tty = tw.began /\ ~tw.switched
    /\ tw.stage \in {"create", "loop"} =>
         /\ tw.old_tty = tw.began /\ tty = TERM_TTY_DISPLAY
         /\ ~tw.switched => tw.began = TERM_TTY_DISPLAY

\* Before the window there is no buffer and nothing in the kernel.
NothingYet == tw.stage \in {"start", "create"} => wmSize = NoWindow /\ tw.pixels = NoPixels

TwInv == TwTypeOK /\ TtyKept /\ NothingYet /\ TermPixelsFitWindow /\ TermLeavesNoTrace

\* What ApplyGeometry may leave: the size recorded is the kernel's, the buffer
\* has it or is gone, and nothing but size, place and buffer has changed.
Fits(t, g) ==
    /\ g.t = [t EXCEPT !.w = g.t.w, !.pixels = g.t.pixels, !.place = g.t.place]
    /\ g.t.w \in Int /\ g.t.place \in Int
    /\ g.wm = g.t.w
    /\ g.t.pixels \in {NoPixels, g.t.w}

\* A geometry that is applied, refused or applied in part leaves a window that
\* fits its buffer.
LEMMA GeometryFits ==
    ASSUME MinSize \in Int, FullSize \in Int,
           NEW t \in TwType, NEW size \in Int, NEW place \in Int, NEW fails, NEW again \in BOOLEAN,
           t.pixels \in {NoPixels, t.w}
    PROVE  Fits(t, ApplyGeometry(t, t.w, size, place, fails, again))
<1> DEFINE s == InRange(size, MinSize, FullSize)
           g == ApplyGeometry(t, t.w, size, place, fails, again)
<1> SUFFICES Fits(t, g)
  OBVIOUS
<1>1. s \in Int
  BY DEF InRange
<1>2. CASE s # t.w /\ fails \in {"malloc", "resize"}
  <2> DEFINE p == IF again THEN (IF t.pixels = NoPixels THEN NoPixels ELSE t.w) ELSE NoPixels
  <2>1. p \in {NoPixels, t.w}
    OBVIOUS
  <2>2. g = [t |-> [t EXCEPT !.pixels = p], wm |-> t.w, ok |-> FALSE]
    BY <1>2, Zenon DEF ApplyGeometry
  <2> HIDE DEF p, g
  <2> QED BY <2>1, <2>2 DEF Fits, TwType, NoPixels
<1>3. CASE ~(s # t.w /\ fails \in {"malloc", "resize"}) /\ place # t.place /\ fails = "move"
  BY <1>1, <1>3 DEF ApplyGeometry, Fits, TwType, NoPixels
<1>4. CASE ~(s # t.w /\ fails \in {"malloc", "resize"}) /\ ~(place # t.place /\ fails = "move")
  BY <1>1, <1>4 DEF ApplyGeometry, Fits, TwType, NoPixels
<1> QED BY <1>2, <1>3, <1>4

\* The transitions of TwInv: shutting down, from any stage.
LEMMA ShutdownIsClean ==
    ASSUME TERM_TTY_DISPLAY \in Int, TwInv, tw.stage # "ended", NEW t \in TwType,
           t.began = tw.began, t.old_tty = tw.old_tty, t.switched = tw.switched, TwShutdown(t)
    PROVE  TwInv'
<1>0. tw' = [t EXCEPT !.stage = "ended", !.pixels = NoPixels, !.switched = FALSE]
  BY DEF TwShutdown
<1>1. wmSize' = NoWindow /\ tty' = IF t.switched THEN t.old_tty ELSE tty
  BY DEF TwShutdown
<1>2. tw' \in TwType /\ tw'.stage = "ended" /\ tw'.pixels = NoPixels /\ tw'.began = tw.began
  <2>1. NoPixels \in Int /\ FALSE \in BOOLEAN
    BY DEF NoPixels
  <2>2. PICK p \in Int, b \in BOOLEAN :
           p = NoPixels /\ tw' = [t EXCEPT !.stage = "ended", !.pixels = p, !.switched = b]
    BY <1>0, <2>1, Zenon
  <2> DEFINE u == [t EXCEPT !.stage = "ended", !.pixels = p, !.switched = b]
  <2>3. u \in TwType /\ u.stage = "ended" /\ u.pixels = p /\ u.began = t.began
    BY DEF TwType
  <2>4. tw' = u
    BY <2>2
  <2> HIDE DEF u
  <2> QED BY <2>2, <2>3, <2>4
<1>3. tty' = tw'.began
  <2>1. CASE t.switched
    BY <1>1, <1>2, <2>1 DEF TwInv, TwTypeOK, TwType, TtyKept
  <2>2. CASE ~t.switched
    BY <1>1, <1>2, <2>2 DEF TwInv, TwTypeOK, TwType, TtyKept
  <2> QED BY <2>1, <2>2
<1> QED
  BY <1>1, <1>2, <1>3 DEF TwInv, TwTypeOK, TwType, TtyKept, NothingYet, TermPixelsFitWindow, TermLeavesNoTrace, NoWindow

\* A step in the loop that leaves a window that fits its buffer.
LEMMA LoopKeepsFit ==
    ASSUME TERM_TTY_DISPLAY \in Int, TwInv, tw.stage = "loop", NEW t \in TwType, NEW g,
           t.began = tw.began, t.old_tty = tw.old_tty, t.switched = tw.switched, t.stage = "loop",
           Fits(t, g), NEW up \in BOOLEAN,
           tw' = [g.t EXCEPT !.maximized = up], wmSize' = g.wm, tty' = tty
    PROVE  TwInv'
<1>1. g.t.pixels \in Int
  BY DEF Fits, NoPixels
<1>2. tw' = [t EXCEPT !.w = g.t.w, !.pixels = g.t.pixels, !.place = g.t.place, !.maximized = up]
  BY DEF Fits, TwType
<1>3. tw' \in TwType /\ tw'.stage = "loop" /\ tw'.w = g.t.w /\ tw'.pixels = g.t.pixels
  BY <1>1, <1>2 DEF Fits, TwType
<1>4. tw'.began = tw.began /\ tw'.old_tty = tw.old_tty /\ tw'.switched = tw.switched
  BY <1>2 DEF TwType
<1> QED
  BY <1>3, <1>4 DEF Fits, TwInv, TwTypeOK, TwType, TtyKept, NothingYet, TermPixelsFitWindow, TermLeavesNoTrace

\* TwInv is inductive: one step per action of TwNext.
LEMMA TwNextKeepsInv ==
    ASSUME MinSize \in Int, FullSize \in Int, TERM_TTY_DISPLAY \in Int, TwInv, [TwNext]_twVars
    PROVE  TwInv'
<1> USE DEF TwInv, TwTypeOK
<1>1. CASE TwTakesTty
  BY <1>1 DEF TwTakesTty, TwType, TtyKept, NothingYet, TermPixelsFitWindow, TermLeavesNoTrace
<1>2. CASE TwNoScreen
  BY <1>2, ShutdownIsClean DEF TwNoScreen
<1>3. CASE TwCreates
  <2>1. PICK s \in Sizes : /\ tw' = [tw EXCEPT !.stage = "loop", !.w = s, !.pixels = s, !.focused = TRUE]
                           /\ wmSize' = s
    BY <1>3 DEF TwCreates
  <2>2. s \in Int
    BY DEF Sizes
  <2> QED
    BY <1>3, <2>1, <2>2 DEF TwCreates, TwType, TtyKept, NothingYet, TermPixelsFitWindow, TermLeavesNoTrace
<1>4. CASE TwNotCreated
  <2> DEFINE t == [tw EXCEPT !.pixels = NoPixels]
  <2>1. t \in TwType /\ t.began = tw.began /\ t.old_tty = tw.old_tty /\ t.switched = tw.switched
    BY DEF TwType, NoPixels
  <2>2. tw.stage # "ended" /\ TwShutdown(t)
    BY <1>4 DEF TwNotCreated
  <2> QED BY <2>1, <2>2, ShutdownIsClean
<1>5. CASE TwMaximize
  <2>1. tw.stage = "loop" /\ tty' = tty
    BY <1>5 DEF TwMaximize
  <2>2. PICK o \in Outcomes : tw' = Toggled(o).t /\ wmSize' = Toggled(o).wm
    BY <1>5 DEF TwMaximize
  <2>3. o[2] \in BOOLEAN
    BY DEF Outcomes
  <2>4. wmSize = tw.w /\ tw.pixels \in {NoPixels, tw.w}
    BY <2>1 DEF TermPixelsFitWindow
  <2> DEFINE up == ~tw.maximized
             kept == IF up THEN <<tw.w, tw.place>> ELSE tw.restore
             from == [tw EXCEPT !.maximized = up, !.restore = kept]
             to == IF up THEN <<FullSize, 0>> ELSE tw.restore
             g == ApplyGeometry(from, wmSize, to[1], to[2], o[1], o[2])
  <2>5. tw' = [g.t EXCEPT !.maximized = (g.ok = up)] /\ wmSize' = g.wm
    BY <2>2, Zenon DEF Toggled
  <2>6. up \in BOOLEAN /\ kept \in Int \X Int /\ to \in Int \X Int
    <3>1. tw.w \in Int /\ tw.place \in Int /\ tw.restore \in Int \X Int
      BY DEF TwType
    <3>2. <<tw.w, tw.place>> \in Int \X Int /\ <<FullSize, 0>> \in Int \X Int
      BY <3>1
    <3> QED BY <3>1, <3>2, Zenon
  <2>7. to[1] \in Int /\ to[2] \in Int
    <3> HIDE DEF to
    <3> QED BY <2>6
  <2>8. (g.ok = up) \in BOOLEAN
    BY Zenon
  <2> HIDE DEF up, kept, to
  <2>9. /\ from \in TwType /\ from.w = tw.w /\ from.pixels = tw.pixels /\ from.stage = "loop"
        /\ from.began = tw.began /\ from.old_tty = tw.old_tty /\ from.switched = tw.switched
    BY <2>1, <2>6 DEF TwType
  <2> HIDE DEF from
  <2>10. Fits(from, g)
    BY <2>3, <2>4, <2>7, <2>9, GeometryFits
  <2> HIDE DEF g
  <2> QED BY <2>1, <2>5, <2>8, <2>9, <2>10, LoopKeepsFit
<1>6. CASE TwGrip
  BY <1>6 DEF TwGrip, TwType, TtyKept, NothingYet, TermPixelsFitWindow, TermLeavesNoTrace
<1>7. CASE TwRelease
  BY <1>7 DEF TwRelease, TwType, TtyKept, NothingYet, TermPixelsFitWindow, TermLeavesNoTrace
<1>8. CASE TwMouseMove
  <2>1. tw.stage = "loop" /\ tty' = tty
    BY <1>8 DEF TwMouseMove
  <2>2. wmSize = tw.w /\ tw.pixels \in {NoPixels, tw.w}
    BY <2>1 DEF TermPixelsFitWindow
  <2>3. \E o \in Outcomes, size \in Int, place \in Int :
          /\ tw' = ApplyGeometry(tw, wmSize, size, place, o[1], o[2]).t
          /\ wmSize' = ApplyGeometry(tw, wmSize, size, place, o[1], o[2]).wm
    <3>1. tw.w \in Int /\ tw.place \in Int
      BY DEF TwType
    <3>2. PICK o \in Outcomes, s \in (MinSize - 1)..(FullSize + 1), p \in 0..1 :
             LET g == IF tw.grip = "drag" THEN ApplyGeometry(tw, wmSize, tw.w, p, o[1], o[2])
                      ELSE ApplyGeometry(tw, wmSize, s, tw.place, o[1], o[2])
             IN  tw' = g.t /\ wmSize' = g.wm
      BY <1>8, Zenon DEF TwMouseMove
    <3>3. s \in Int /\ p \in Int
      OBVIOUS
    <3>4. CASE tw.grip = "drag"
      BY <3>1, <3>2, <3>3, <3>4, Zenon
    <3>5. CASE tw.grip # "drag"
      BY <3>1, <3>2, <3>3, <3>5, Zenon
    <3> QED BY <3>4, <3>5
  <2>4. PICK o \in Outcomes, size \in Int, place \in Int :
          /\ tw' = ApplyGeometry(tw, wmSize, size, place, o[1], o[2]).t
          /\ wmSize' = ApplyGeometry(tw, wmSize, size, place, o[1], o[2]).wm
    BY <2>3
  <2> DEFINE g == ApplyGeometry(tw, tw.w, size, place, o[1], o[2])
  <2>5. Fits(tw, g)
    BY <2>2, GeometryFits DEF Outcomes
  <2>6. tw' = g.t /\ wmSize' = g.wm
    BY <2>2, <2>4
  <2> HIDE DEF g
  <2>7. tw' = [g.t EXCEPT !.maximized = tw.maximized]
    BY <2>5, <2>6 DEF Fits, TwType
  <2>8. tw \in TwType /\ tw.maximized \in BOOLEAN
    BY DEF TwType
  <2> QED BY <2>1, <2>5, <2>6, <2>7, <2>8, LoopKeepsFit
<1>9. CASE TwClose
  BY <1>9, ShutdownIsClean DEF TwClose
<1>10. CASE UNCHANGED twVars
  BY <1>10 DEF twVars, TwType, TtyKept, NothingYet, TermPixelsFitWindow, TermLeavesNoTrace
<1> QED
  BY <1>1, <1>2, <1>3, <1>4, <1>5, <1>6, <1>7, <1>8, <1>9, <1>10 DEF TwNext

\* However the window is resized, dragged and maximized, and whatever the
\* kernel and malloc refuse, the terminal presents pixels of the size of its
\* window (term_apply_geometry), and when it ends its window, its buffer and
\* the tty it took are given back (term_shutdown): for every range of sizes.
THEOREM TerminalWindowSafe ==
    TwSpec => [](TermPixelsFitWindow /\ TermLeavesNoTrace)
<1> USE TwAssumption
<1>1. TwInit => TwInv
  <2> SUFFICES ASSUME TwInit PROVE TwInv
    OBVIOUS
  <2>1. tw = TwStart(tty) /\ wmSize = 0 /\ tty \in Int
    BY DEF TwInit, NoWindow
  <2>2. /\ tw \in TwType /\ tw.stage = "start" /\ tw.pixels = 0
        /\ tw.began = tty /\ tw.switched = FALSE
    BY <2>1 DEF TwStart, TwType, NoPixels
  <2> QED
    BY <2>1, <2>2 DEF TwInv, TwTypeOK, TtyKept, NothingYet, TermPixelsFitWindow, TermLeavesNoTrace,
       NoWindow, NoPixels
<1>2. TwInv /\ [TwNext]_twVars => TwInv'
  BY TwNextKeepsInv
<1>3. TwInv => TermPixelsFitWindow /\ TermLeavesNoTrace
  BY DEF TwInv
<1> QED BY <1>1, <1>2, <1>3, PTL DEF TwSpec


(***************************************************************************)
(* The grid: what holds of every state of it.                              *)
(***************************************************************************)

Cell == {Nul, Blank, "x"}

\* A row whose last cell is its end.
GridRow == {row \in [TermCols -> Cell] : row[TERM_LINE_MAX - 1] = Nul}

GridType ==
    [run : BOOLEAN, input : Int, busy : BOOLEAN, saved : TermRows \X TermCols, state : 0..2,
     buf : Seq(ParamChars), lines : [TermRows -> GridRow], line_count : 0..TERM_LINES,
     row : TermRows, col : TermCols]

GridInv(t) == t \in GridType /\ Len(t.buf) < TERM_ANSI_MAX

(***************************************************************************)
(* The parts of the state an operation may change.                         *)
(***************************************************************************)

LEMMA NewCursor ==
  ASSUME NEW t, GridInv(t), NEW r \in TermRows, NEW c \in TermCols
  PROVE  GridInv([t EXCEPT !.row = r, !.col = c])
BY DEF GridInv, GridType

LEMMA NewRow ==
  ASSUME NEW t, GridInv(t), NEW r \in TermRows
  PROVE  GridInv([t EXCEPT !.row = r])
BY DEF GridInv, GridType

LEMMA NewCol ==
  ASSUME NEW t, GridInv(t), NEW c \in TermCols
  PROVE  GridInv([t EXCEPT !.col = c])
BY DEF GridInv, GridType

LEMMA NewLines ==
  ASSUME NEW t, GridInv(t), NEW ls \in [TermRows -> GridRow]
  PROVE  GridInv([t EXCEPT !.lines = ls])
BY DEF GridInv, GridType

LEMMA NewCount ==
  ASSUME NEW t, GridInv(t), NEW n \in 0..TERM_LINES
  PROVE  GridInv([t EXCEPT !.line_count = n])
BY DEF GridInv, GridType

LEMMA NewLinesAndCount ==
  ASSUME NEW t, GridInv(t), NEW ls \in [TermRows -> GridRow], NEW n \in 0..TERM_LINES
  PROVE  GridInv([t EXCEPT !.lines = ls, !.line_count = n])
BY DEF GridInv, GridType

LEMMA NewSaved ==
  ASSUME NEW t, GridInv(t)
  PROVE  GridInv([t EXCEPT !.saved = <<t.row, t.col>>])
<1> DEFINE at == <<t.row, t.col>>
<1>1. at \in TermRows \X TermCols
  BY DEF GridInv, GridType
<1> HIDE DEF at
<1> QED BY <1>1 DEF GridInv, GridType

LEMMA NewState ==
  ASSUME NEW t, GridInv(t), NEW n \in 0..2
  PROVE  GridInv([t EXCEPT !.state = n])
BY DEF GridInv, GridType

LEMMA NewBuf ==
  ASSUME NEW t, GridInv(t), NEW b \in Seq(ParamChars), Len(b) < TERM_ANSI_MAX
  PROVE  GridInv([t EXCEPT !.buf = b])
BY DEF GridInv, GridType

\* Positions that are brought into the grid are in it.
LEMMA Clamped ==
  ASSUME TermSizes, NEW n \in Nat
  PROVE  RowIn(n) \in TermRows /\ ColIn(n) \in TermCols
BY DEF TermSizes, RowIn, ColIn, TermRows, TermCols

LEMMA BackInside ==
  ASSUME NEW pos \in Nat, NEW n \in Nat
  PROVE  Back(pos, n) \in 0..pos
BY DEF Back

LEMMA OnIsNumber ==
  ASSUME TermSizes, NEW pos \in Nat, NEW n \in Nat
  PROVE  On(pos, n) \in Nat
BY DEF On, TermSizes

(***************************************************************************)
(* The operations on rows.                                                 *)
(***************************************************************************)

LEMMA EndedAtFirst ==
  ASSUME TermSizes, NEW row \in GridRow
  PROVE  [row EXCEPT ![0] = Nul] \in GridRow
<1> DEFINE nul == Nul
           last == TERM_LINE_MAX - 1
<1>1. nul \in Cell /\ row \in [TermCols -> Cell] /\ row[last] = nul /\ 0 \in TermCols /\ last \in TermCols
  BY DEF Cell, GridRow, TermCols, TermSizes
<1> HIDE DEF nul, last
<1>2. [row EXCEPT ![0] = nul] \in [TermCols -> Cell] /\ [row EXCEPT ![0] = nul][last] = nul
  BY <1>1
<1> QED BY <1>2 DEF GridRow, nul, last

LEMMA EnsureRowSafe ==
  ASSUME TermSizes, NEW t, GridInv(t), NEW r \in TermRows
  PROVE  GridInv(EnsureRow(t, r))
<1> DEFINE ls == [i \in TermRows |-> IF i \in t.line_count..r THEN [t.lines[i] EXCEPT ![0] = Nul] ELSE t.lines[i]]
<1>1. \A i \in TermRows : [t.lines[i] EXCEPT ![0] = Nul] \in GridRow
  BY EndedAtFirst DEF GridInv, GridType
<1>2. ls \in [TermRows -> GridRow]
  BY <1>1 DEF GridInv, GridType
<1>3. r + 1 \in 0..TERM_LINES
  BY DEF TermSizes, TermRows
<1>4. EnsureRow(t, r) = IF t.line_count > r THEN t ELSE [t EXCEPT !.lines = ls, !.line_count = r + 1]
  BY DEF EnsureRow
<1> HIDE DEF ls
<1>5. GridInv([t EXCEPT !.lines = ls, !.line_count = r + 1])
  BY <1>2, <1>3, NewLinesAndCount
<1> QED BY <1>4, <1>5

\* A row has an end, and it is one of its cells.
LEMMA RowLenInside ==
  ASSUME TermSizes, NEW row \in GridRow
  PROVE  RowLen(row) \in TermCols
<1> DEFINE ends == {c \in TermCols : row[c] = Nul}
<1>1. TERM_LINE_MAX - 1 \in ends /\ ends \subseteq Nat
  BY DEF GridRow, TermCols, TermSizes
<1>2. PICK m \in ends : \A y \in ends : ~(<<y, m>> \in OpToRel(<,Nat))
  BY <1>1, NatLessThanWellFounded, WFMin, Zenon
<1>3. \A c \in 0..(m - 1) : row[c] # Nul
  <2> SUFFICES ASSUME NEW c \in 0..(m - 1), row[c] = Nul PROVE FALSE
    OBVIOUS
  <2>1. c \in Nat /\ m \in Nat /\ c < m /\ c \in ends
    BY DEF TermCols, TermSizes
  <2>2. <<c, m>> \in Nat \X Nat /\ <<c, m>>[1] < <<c, m>>[2]
    BY <2>1
  <2>3. <<c, m>> \in OpToRel(<,Nat)
    BY <2>2 DEF OpToRel
  <2> QED BY <1>2, <2>1, <2>3
<1>4. m \in TermCols /\ row[m] = Nul /\ \A c \in 0..(m - 1) : row[c] # Nul
  BY <1>3
<1> HIDE DEF ends
<1> QED BY <1>4 DEF RowLen

LEMMA ShiftLinesSafe ==
  ASSUME TermSizes, NEW t, GridInv(t)
  PROVE  GridInv(ShiftLines(t))
<1> DEFINE up(i) == [c \in TermCols |-> IF c < RowLen(t.lines[i + 1]) THEN t.lines[i + 1][c] ELSE Nul]
           ls == [i \in TermRows |-> IF i = TERM_LINES - 1 THEN [t.lines[i] EXCEPT ![0] = Nul] ELSE up(i)]
<1>1. ASSUME NEW i \in TermRows PROVE [t.lines[i] EXCEPT ![0] = Nul] \in GridRow
  BY EndedAtFirst DEF GridInv, GridType
<1>2. ASSUME NEW i \in TermRows, i # TERM_LINES - 1 PROVE up(i) \in GridRow
  <2> DEFINE row == t.lines[i + 1]
             len == RowLen(row)
  <2>1. i + 1 \in TermRows
    BY <1>2 DEF TermRows, TermSizes
  <2>2. row \in GridRow
    BY <2>1 DEF GridInv, GridType
  <2>3. len \in TermCols
    BY <2>2, RowLenInside
  <2> HIDE DEF len, row
  <2>4. TERM_LINE_MAX - 1 \in TermCols /\ ~(TERM_LINE_MAX - 1 < len)
    BY <2>3 DEF TermCols, TermSizes
  <2>5. [c \in TermCols |-> IF c < len THEN row[c] ELSE Nul] \in GridRow
    BY <2>2, <2>4 DEF GridRow, Cell
  <2> QED BY <2>5 DEF row, len
<1>3. ls \in [TermRows -> GridRow]
  <2> HIDE DEF up
  <2> QED BY <1>1, <1>2
<1>4. ShiftLines(t) = [t EXCEPT !.lines = ls]
  BY DEF ShiftLines
<1> HIDE DEF ls
<1> QED BY <1>3, <1>4, NewLines

LEMMA NewlineSafe ==
  ASSUME TermSizes, NEW t, GridInv(t)
  PROVE  GridInv(Newline(t)) /\ Newline(t).col = 0
<1>1. t.row \in TermRows /\ 0 \in TermCols
  BY DEF GridInv, GridType, TermCols, TermSizes
<1> DEFINE e == EnsureRow(t, t.row)
           u == [e EXCEPT !.col = 0]
<1>2. GridInv(e)
  BY <1>1, EnsureRowSafe
<1>3. e.row = t.row
  BY DEF EnsureRow, GridInv, GridType
<1>4. GridInv(u) /\ u.col = 0 /\ u.row = t.row
  <2> HIDE DEF e
  <2>1. GridInv(u)
    BY <1>1, <1>2, NewCol
  <2> QED BY <1>2, <1>3, <2>1 DEF GridInv, GridType
<1> HIDE DEF u, e
<1>5. CASE t.row + 1 >= TERM_LINES
  <2> DEFINE s == ShiftLines(u)
  <2>1. GridInv(s) /\ s.col = u.col
    BY <1>4, ShiftLinesSafe DEF ShiftLines, GridInv, GridType
  <2>2. Newline(t) = [s EXCEPT !.line_count = TERM_LINES]
    BY <1>5 DEF Newline, u, e
  <2>3. TERM_LINES \in 0..TERM_LINES
    BY DEF TermSizes
  <2> HIDE DEF s
  <2>4. GridInv([s EXCEPT !.line_count = TERM_LINES])
    BY <2>1, <2>3, NewCount
  <2> QED BY <1>4, <2>1, <2>2, <2>4 DEF GridInv, GridType
<1>6. CASE ~(t.row + 1 >= TERM_LINES)
  <2> DEFINE v == [u EXCEPT !.row = t.row + 1]
  <2>1. t.row + 1 \in TermRows
    BY <1>1, <1>6 DEF TermRows, TermSizes
  <2>2. GridInv(v) /\ v.col = 0
    BY <1>1, <1>4, <2>1, NewRow DEF GridInv, GridType
  <2>3. [u EXCEPT !.row = @ + 1] = v
    BY <1>4
  <2>4. Newline(t) = EnsureRow(v, t.row + 1)
    BY <1>6, <2>3 DEF Newline, u, e
  <2> HIDE DEF v
  <2>5. EnsureRow(v, t.row + 1).col = 0
    BY <2>2 DEF EnsureRow, GridInv, GridType
  <2> QED BY <2>1, <2>2, <2>4, <2>5, EnsureRowSafe
<1> QED BY <1>5, <1>6

\* Blanks up to the cursor and the character, which is never the end of a row
\* and never in the last cell.
LEMMA PaddedRow ==
  ASSUME TermSizes, NEW row \in GridRow, NEW col \in Nat, col + 1 < TERM_LINE_MAX,
         NEW ch \in Cell
  PROVE  Padded(row, col, ch) \in GridRow
<1> DEFINE len == RowLen(row)
           r == [c \in TermCols |-> IF c = col THEN ch ELSE IF c \in len..(col - 1) THEN Blank ELSE row[c]]
           last == TERM_LINE_MAX - 1
<1>0. len \in Nat /\ Padded(row, col, ch) = r
  BY RowLenInside DEF TermCols, Padded
<1> HIDE DEF len
<1>1. \A c \in TermCols : row[c] \in Cell /\ Blank \in Cell
  BY DEF GridRow, Cell
<1>2. r \in [TermCols -> Cell]
  BY <1>1
<1>3. last \in TermCols /\ last # col /\ last \notin len..(col - 1)
  BY <1>0 DEF TermCols, TermSizes
<1>4. r[last] = row[last] /\ row[last] = Nul
  BY <1>3 DEF GridRow
<1> QED BY <1>0, <1>2, <1>4 DEF GridRow

LEMMA PutGlyphSafe ==
  ASSUME TermSizes, NEW t, GridInv(t), NEW ch \in Cell
  PROVE  GridInv(PutGlyph(t, ch))
<1> DEFINE u == IF t.col + 1 >= TERM_LINE_MAX THEN Newline(t) ELSE t
           v == EnsureRow(u, u.row)
           row == v.lines[v.row]
           new == Padded(row, v.col, ch)
           ls == [v.lines EXCEPT ![v.row] = new]
<1>0. PutGlyph(t, ch) = PutAt(v, ch)
  BY DEF PutGlyph
<1>1. GridInv(u) /\ u.col + 1 < TERM_LINE_MAX /\ u.row \in TermRows
  <2>1. t.col \in Nat /\ t.row \in TermRows
    BY DEF GridInv, GridType, TermCols
  <2>2. GridInv(Newline(t)) /\ Newline(t).col = 0 /\ Newline(t).row \in TermRows
    BY NewlineSafe DEF GridInv, GridType
  <2>3. 0 + 1 < TERM_LINE_MAX
    BY DEF TermSizes
  <2> QED BY <2>1, <2>2, <2>3 DEF TermSizes
<1> HIDE DEF u
<1>2. GridInv(v) /\ v.col = u.col /\ v.row = u.row
  BY <1>1, EnsureRowSafe DEF EnsureRow, GridInv, GridType
<1> HIDE DEF v
<1>3. v.col \in Nat /\ v.col + 1 \in TermCols /\ v.col + 1 < TERM_LINE_MAX
  <2>1. u.col \in TermCols
    BY <1>1 DEF GridInv, GridType
  <2> QED BY <1>1, <1>2, <2>1 DEF TermCols, TermSizes
<1>4. row \in GridRow /\ v.lines \in [TermRows -> GridRow] /\ v.row \in TermRows
  BY <1>2 DEF GridInv, GridType
<1>5. PutAt(v, ch) = [v EXCEPT !.lines = ls, !.col = v.col + 1]
  BY DEF PutAt
<1> HIDE DEF row
<1>8. new \in GridRow
  BY <1>3, <1>4, PaddedRow
<1> HIDE DEF new
<1>9. ls \in [TermRows -> GridRow]
  BY <1>4, <1>8
<1> HIDE DEF ls
<1>10. GridInv([v EXCEPT !.lines = ls])
  BY <1>2, <1>9, NewLines
<1>11. GridInv([[v EXCEPT !.lines = ls] EXCEPT !.col = v.col + 1])
  BY <1>3, <1>10, NewCol
<1>12. [v EXCEPT !.lines = ls, !.col = v.col + 1] = [[v EXCEPT !.lines = ls] EXCEPT !.col = v.col + 1]
  OBVIOUS
<1> QED BY <1>0, <1>5, <1>11, <1>12

LEMMA AppendCharSafe ==
  ASSUME TermSizes, NEW t, GridInv(t), NEW ch
  PROVE  GridInv(AppendChar(t, ch))
<1>1. 0 \in TermCols
  BY DEF TermCols, TermSizes
<1>2. GridInv([t EXCEPT !.col = 0])
  BY <1>1, NewCol
<1>3. Blank \in Cell /\ Glyph(ch) \in Cell
  BY DEF Cell, Glyph
<1> DEFINE blank(u) == PutGlyph(u, Blank)
<1>4. ASSUME NEW u, GridInv(u) PROVE GridInv(blank(u))
  BY <1>3, <1>4, PutGlyphSafe
<1> HIDE DEF blank
<1>5. GridInv(blank(t))
  BY <1>4
<1>6. GridInv(blank(blank(t)))
  BY <1>4, <1>5
<1>7. GridInv(blank(blank(blank(t))))
  BY <1>4, <1>6
<1>8. GridInv(blank(blank(blank(blank(t)))))
  BY <1>4, <1>7
<1>9. GridInv(PutGlyph(t, Glyph(ch))) /\ GridInv(Newline(t))
  BY <1>3, PutGlyphSafe, NewlineSafe
<1>10. AppendChar(t, ch) \in {[t EXCEPT !.col = 0], Newline(t), blank(blank(blank(blank(t)))), PutGlyph(t, Glyph(ch))}
  BY Zenon DEF AppendChar, blank
<1> QED BY <1>2, <1>8, <1>9, <1>10

(***************************************************************************)
(* Erasing.                                                                *)
(***************************************************************************)

LEMMA ClearedRow ==
  ASSUME TermSizes, NEW row \in GridRow, NEW from, NEW to
  PROVE  Cleared(row, from, to) \in GridRow
<1> DEFINE wiped == [c \in TermCols |-> IF c = TERM_LINE_MAX - 1 THEN Nul
                                        ELSE IF c >= from /\ c < to THEN Blank ELSE row[c]]
           last == {c \in TermCols : wiped[c] \notin {Blank, Nul}}
           r == [c \in TermCols |-> IF \E d \in last : d >= c THEN wiped[c] ELSE Nul]
<1>1. \A c \in TermCols : row[c] \in Cell /\ Blank \in Cell /\ Nul \in Cell
  BY DEF GridRow, Cell
<1>2. wiped \in [TermCols -> Cell]
  BY <1>1
<1>3. TERM_LINE_MAX - 1 \in TermCols
  BY DEF TermCols, TermSizes
<1>4. wiped[TERM_LINE_MAX - 1] = Nul
  BY <1>3
<1>5. Cleared(row, from, to) = r
  BY DEF Cleared
<1> HIDE DEF wiped, last
<1>6. r \in [TermCols -> Cell]
  BY <1>1, <1>2
<1>7. r[TERM_LINE_MAX - 1] = Nul
  BY <1>3, <1>4
<1> QED BY <1>5, <1>6, <1>7 DEF GridRow

LEMMA ClearRangeSafe ==
  ASSUME TermSizes, NEW t, GridInv(t), NEW r \in TermRows, NEW from, NEW to
  PROVE  GridInv(ClearRange(t, r, from, to)) /\ ClearRange(t, r, from, to).row = t.row
<1> DEFINE new == Cleared(t.lines[r], from, to)
           ls == [t.lines EXCEPT ![r] = new]
<1>1. t.lines \in [TermRows -> GridRow]
  BY DEF GridInv, GridType
<1>2. new \in GridRow
  BY <1>1, ClearedRow
<1>3. ClearRange(t, r, from, to) = [t EXCEPT !.lines = ls]
  BY DEF ClearRange
<1> HIDE DEF new
<1>4. ls \in [TermRows -> GridRow]
  BY <1>1, <1>2
<1> HIDE DEF ls
<1>5. [t EXCEPT !.lines = ls].row = t.row
  BY DEF GridInv, GridType
<1> QED BY <1>3, <1>4, <1>5, NewLines

LEMMA ClearRowsSafe ==
  ASSUME TermSizes, NEW t, GridInv(t), NEW rows
  PROVE  GridInv(ClearRows(t, rows)) /\ ClearRows(t, rows).row = t.row
<1> DEFINE new(r) == Cleared(t.lines[r], 0, TERM_LINE_MAX)
           ls == [r \in TermRows |-> IF r \in rows THEN new(r) ELSE t.lines[r]]
<1>1. t.lines \in [TermRows -> GridRow]
  BY DEF GridInv, GridType
<1>2. \A r \in TermRows : new(r) \in GridRow
  BY <1>1, ClearedRow
<1>3. ClearRows(t, rows) = [t EXCEPT !.lines = ls]
  BY DEF ClearRows
<1> HIDE DEF new
<1>4. ls \in [TermRows -> GridRow]
  BY <1>1, <1>2
<1> HIDE DEF ls
<1>5. [t EXCEPT !.lines = ls].row = t.row
  BY DEF GridInv, GridType
<1> QED BY <1>3, <1>4, <1>5, NewLines

LEMMA TermClearSafe ==
  ASSUME TermSizes, NEW t, GridInv(t)
  PROVE  GridInv(TermClear(t))
<1> DEFINE ls == [r \in TermRows |-> EmptyRow]
           u == [t EXCEPT !.lines = ls, !.line_count = 0]
<1>1. EmptyRow \in GridRow
  BY DEF EmptyRow, GridRow, Cell, TermCols, TermSizes
<1>2. ls \in [TermRows -> GridRow]
  BY <1>1
<1>3. 0 \in 0..TERM_LINES /\ 0 \in TermRows /\ 0 \in TermCols
  BY DEF TermSizes, TermRows, TermCols
<1>4. TermClear(t) = [u EXCEPT !.row = 0, !.col = 0]
  BY DEF TermClear
<1> HIDE DEF ls
<1>5. GridInv(u)
  BY <1>2, <1>3, NewLinesAndCount
<1> HIDE DEF u
<1>6. GridInv([u EXCEPT !.row = 0, !.col = 0])
  BY <1>3, <1>5, NewCursor
<1> QED BY <1>4, <1>6

LEMMA EraseSafe ==
  ASSUME TermSizes, NEW t, GridInv(t), NEW final, NEW mode
  PROVE  GridInv(Erase(t, final, mode))
<1>1. t.row \in TermRows
  BY DEF GridInv, GridType
<1> DEFINE below == ClearRows(ClearRange(t, t.row, t.col, TERM_LINE_MAX - 1), (t.row + 1)..(TERM_LINES - 1))
           above == ClearRange(ClearRows(t, 0..(t.row - 1)), t.row, 0, t.col + 1)
           right == ClearRange(t, t.row, t.col, TERM_LINE_MAX - 1)
           left == ClearRange(t, t.row, 0, t.col + 1)
           all == ClearRange(t, t.row, 0, TERM_LINE_MAX - 1)
<1>2. GridInv(below)
  BY <1>1, ClearRangeSafe, ClearRowsSafe
<1>3. GridInv(above)
  BY <1>1, ClearRangeSafe, ClearRowsSafe
<1>4. GridInv(right) /\ GridInv(left) /\ GridInv(all) /\ GridInv(TermClear(t))
  BY <1>1, ClearRangeSafe, TermClearSafe
<1>5. Erase(t, final, mode) \in {below, above, right, left, all, TermClear(t), t}
  BY Zenon DEF Erase
<1> HIDE DEF below, above, right, left, all
<1> QED BY <1>2, <1>3, <1>4, <1>5

(***************************************************************************)
(* The parameters of an escape sequence.                                   *)
(***************************************************************************)

\* A non-empty set of naturals has a least element.
LEMMA LeastNumber ==
  ASSUME NEW S, S \subseteq Nat, S # {}
  PROVE  \E m \in S : \A y \in S : m <= y
<1>1. PICK m \in S : \A y \in S : ~(<<y, m>> \in OpToRel(<,Nat))
  BY NatLessThanWellFounded, WFMin, Zenon
<1>2. \A y \in S : m <= y
  <2> SUFFICES ASSUME NEW y \in S, y < m PROVE FALSE
    OBVIOUS
  <2>1. <<y, m>> \in Nat \X Nat /\ <<y, m>>[1] < <<y, m>>[2]
    OBVIOUS
  <2>2. <<y, m>> \in OpToRel(<,Nat)
    BY <2>1 DEF OpToRel
  <2> QED BY <2>2, <1>1
<1> QED BY <1>2

Numbers == {vs \in Seq(Nat) : Len(vs) > 0}

LEMMA NextParamIsNumbers ==
  ASSUME TermSizes, NEW vs \in Numbers, NEW ch
  PROVE  NextParam(vs, ch) \in Numbers
<1>1. vs \in Seq(Nat) /\ Len(vs) \in Nat /\ Len(vs) > 0
  BY LenProperties DEF Numbers
<1>2. Append(vs, 0) \in Numbers
  BY <1>1, AppendProperties DEF Numbers
<1>3. ASSUME ch \in DOMAIN Digit PROVE [vs EXCEPT ![Len(vs)] = (10 * vs[Len(vs)] + Digit[ch]) % U64] \in Numbers
  <2> DEFINE n == (10 * vs[Len(vs)] + Digit[ch]) % U64
  <2>1. Digit[ch] \in Nat /\ vs[Len(vs)] \in Nat
    <3>1. Digit[ch] \in Nat
      BY <1>3 DEF Digit
    <3>2. vs[Len(vs)] \in Nat
      BY <1>1, ElementOfSeq
    <3> QED BY <3>1, <3>2
  <2>2. n \in Nat
    BY <2>1 DEF TermSizes
  <2> HIDE DEF n
  <2>3. Len([vs EXCEPT ![Len(vs)] = n]) = Len(vs) /\ [vs EXCEPT ![Len(vs)] = n] \in Seq(Nat)
    BY <1>1, <2>2, ExceptSeq
  <2> QED BY <1>1, <2>3 DEF Numbers, n
<1> QED BY <1>2, <1>3 DEF NextParam

\* f holds the numbers read from the first characters of buf, up to n.
ParsesUpTo(f, buf, n) ==
    f = [m \in 0..n |-> IF m = 0 THEN <<0>> ELSE NextParam(f[m - 1], buf[m])]

LEMMA ParsingExists ==
  ASSUME NEW buf, NEW n \in Nat
  PROVE  \E f : ParsesUpTo(f, buf, n)
<1> DEFINE bad == {m \in Nat : ~\E f : ParsesUpTo(f, buf, m)}
<1> SUFFICES ASSUME bad # {} PROVE FALSE
  OBVIOUS
<1>1. PICK m \in bad : \A y \in bad : m <= y
  BY LeastNumber
<1>2. m # 0
  <2> SUFFICES ASSUME m = 0 PROVE FALSE
    OBVIOUS
  <2> DEFINE f == [k \in 0..0 |-> <<0>>]
  <2>1. ParsesUpTo(f, buf, 0)
    BY DEF ParsesUpTo
  <2> QED BY <1>1, <2>1
<1>3. m - 1 \in Nat /\ m - 1 \notin bad
  BY <1>1, <1>2
<1>4. PICK g : ParsesUpTo(g, buf, m - 1)
  BY <1>3
<1> DEFINE f == [k \in 0..m |-> IF k = m THEN NextParam(g[m - 1], buf[m]) ELSE g[k]]
<1>5. ASSUME NEW k \in 0..m
      PROVE  f[k] = IF k = 0 THEN <<0>> ELSE NextParam(f[k - 1], buf[k])
  <2>1. CASE k = m
    <3>1. f[k] = NextParam(g[m - 1], buf[m]) /\ f[m - 1] = g[m - 1]
      BY <1>2, <1>3, <2>1
    <3> QED BY <1>2, <2>1, <3>1
  <2>2. CASE k # m /\ k = 0
    BY <1>3, <1>4, <2>2 DEF ParsesUpTo
  <2>3. CASE k # m /\ k # 0
    <3>1. f[k] = g[k] /\ f[k - 1] = g[k - 1] /\ k \in 0..(m - 1)
      BY <1>3, <2>3
    <3>2. g[k] = NextParam(g[k - 1], buf[k])
      BY <1>4, <2>3, <3>1 DEF ParsesUpTo
    <3> QED BY <2>3, <3>1, <3>2
  <2> QED BY <2>1, <2>2, <2>3
<1>6. ParsesUpTo(f, buf, m)
  <2> DEFINE g2 == [k \in 0..m |-> IF k = 0 THEN <<0>> ELSE NextParam(f[k - 1], buf[k])]
  <2>1. f = g2
    BY <1>5
  <2> HIDE DEF f
  <2> QED BY <2>1 DEF ParsesUpTo
<1> QED BY <1>1, <1>6

\* Whatever the buffer holds, there is a first number, and all are numbers.
LEMMA ParamsAreNumbers ==
  ASSUME TermSizes, NEW buf, Len(buf) \in Nat
  PROVE  ParseParams(buf) \in Numbers
<1> DEFINE vs == CHOOSE f : f = [n \in 0..Len(buf) |-> IF n = 0 THEN <<0>> ELSE NextParam(f[n - 1], buf[n])]
<1>1. PICK g : ParsesUpTo(g, buf, Len(buf))
  BY ParsingExists
<1>2. g = [n \in 0..Len(buf) |-> IF n = 0 THEN <<0>> ELSE NextParam(g[n - 1], buf[n])]
  BY <1>1 DEF ParsesUpTo
<1>3. vs = [n \in 0..Len(buf) |-> IF n = 0 THEN <<0>> ELSE NextParam(vs[n - 1], buf[n])]
  BY <1>2
<1>4. ParseParams(buf) = vs[Len(buf)]
  BY DEF ParseParams
<1> HIDE DEF vs
<1> DEFINE bad == {n \in Nat : n <= Len(buf) /\ vs[n] \notin Numbers}
<1>5. vs[0] \in Numbers
  <2>1. <<0>> \in Numbers
    BY DEF Numbers
  <2>2. vs[0] = <<0>>
    BY <1>3
  <2> QED BY <2>1, <2>2
<1>6. ASSUME NEW n \in 1..Len(buf), vs[n - 1] \in Numbers PROVE vs[n] \in Numbers
  <2>1. vs[n] = NextParam(vs[n - 1], buf[n])
    BY <1>3
  <2> QED BY <1>6, <2>1, NextParamIsNumbers
<1>7. bad = {}
  <2> SUFFICES ASSUME bad # {} PROVE FALSE
    OBVIOUS
  <2>1. PICK n \in bad : \A y \in bad : n <= y
    BY LeastNumber
  <2>2. n # 0
    BY <1>5, <2>1
  <2>3. n - 1 \in Nat /\ n - 1 \notin bad /\ n \in 1..Len(buf)
    BY <2>1, <2>2
  <2>4. vs[n - 1] \in Numbers
    BY <2>3
  <2> QED BY <1>6, <2>1, <2>3, <2>4
<1> QED BY <1>4, <1>7

LEMMA ParamIsNumber ==
  ASSUME NEW vs \in Numbers, NEW i \in Nat \ {0}
  PROVE  Param(vs, i) \in Nat \ {0}
<1>1. i <= Len(vs) => vs[i] \in Nat
  BY ElementOfSeq, LenProperties DEF Numbers
<1> QED BY <1>1, LenProperties DEF Param, Numbers

(***************************************************************************)
(* The escape sequences.                                                   *)
(***************************************************************************)

LEMMA MoveToSafe ==
  ASSUME TermSizes, NEW t, GridInv(t), NEW r \in Nat, NEW c \in Nat
  PROVE  GridInv(MoveTo(t, r, c))
<1>1. RowIn(r) \in TermRows /\ ColIn(c) \in TermCols
  BY Clamped
<1>2. GridInv([t EXCEPT !.row = RowIn(r), !.col = ColIn(c)])
  BY <1>1, NewCursor
<1> QED BY <1>1, <1>2, EnsureRowSafe DEF MoveTo

\* A row is chosen, and brought into use.
LEMMA ToRow ==
  ASSUME TermSizes, NEW t, GridInv(t), NEW r \in TermRows
  PROVE  GridInv(EnsureRow([t EXCEPT !.row = r], r))
BY NewRow, EnsureRowSafe

LEMMA ToRowStart ==
  ASSUME TermSizes, NEW t, GridInv(t), NEW r \in TermRows
  PROVE  GridInv(EnsureRow([t EXCEPT !.row = r, !.col = 0], r))
<1>1. 0 \in TermCols
  BY DEF TermCols, TermSizes
<1>2. GridInv([t EXCEPT !.row = r, !.col = 0])
  BY <1>1, NewCursor
<1> QED BY <1>2, EnsureRowSafe

\* The end of a sequence.
LEMMA SequenceEnds ==
  ASSUME TermSizes, NEW u, GridInv(u)
  PROVE  GridInv([u EXCEPT !.state = 0, !.buf = <<>>])
<1> DEFINE e == <<>>
<1>1. e \in Seq(ParamChars) /\ Len(e) = 0 /\ 0 < TERM_ANSI_MAX /\ 0 \in 0..2
  BY EmptySeq DEF TermSizes
<1> HIDE DEF e
<1> DEFINE v == [u EXCEPT !.state = 0]
<1>2. GridInv(v)
  BY <1>1, NewState
<1>3. [u EXCEPT !.state = 0, !.buf = e] = [v EXCEPT !.buf = e]
  OBVIOUS
<1> HIDE DEF v
<1>4. GridInv([v EXCEPT !.buf = e])
  BY <1>1, <1>2, NewBuf
<1> QED BY <1>3, <1>4 DEF e


LEMMA AppliedSafe ==
  ASSUME TermSizes, NEW t, GridInv(t), NEW final, NEW vs \in Numbers
  PROVE  GridInv(Applied(t, final, vs))
<1> DEFINE n == Param(vs, 1)
           r == RowIn(On(t.row, n))
           b == Back(t.row, n)
           c == Back(t.col, n)
<1>1. t.row \in TermRows /\ t.col \in TermCols /\ t.saved[1] \in TermRows /\ t.saved[2] \in TermCols
  BY DEF GridInv, GridType
<1>2. t.row \in Nat /\ t.col \in Nat /\ t.saved[1] \in Nat /\ t.saved[2] \in Nat
  BY <1>1 DEF TermRows, TermCols
<1>3. n \in Nat \ {0} /\ Param(vs, 2) \in Nat \ {0}
  BY ParamIsNumber
<1>4. n - 1 \in Nat /\ Param(vs, 2) - 1 \in Nat /\ On(t.row, n) \in Nat /\ On(t.col, n) \in Nat
  <2>1. n \in Nat /\ n - 1 \in Nat /\ Param(vs, 2) - 1 \in Nat
    BY <1>3
  <2> HIDE DEF n
  <2>2. On(t.row, n) \in Nat /\ On(t.col, n) \in Nat
    BY <1>2, <2>1, OnIsNumber
  <2> QED BY <2>1, <2>2
<1>5. r \in TermRows /\ RowIn(n - 1) \in TermRows /\ ColIn(n - 1) \in TermCols /\ ColIn(On(t.col, n)) \in TermCols
  BY <1>4, Clamped
<1>6. b \in TermRows /\ c \in TermCols
  <2>1. n \in Nat
    BY <1>3
  <2> HIDE DEF n
  <2>2. Back(t.row, n) \in 0..t.row /\ Back(t.col, n) \in 0..t.col
    BY <1>2, <2>1, BackInside
  <2> QED BY <1>1, <2>2 DEF TermRows, TermCols, TermSizes
<1>7. Applied(t, final, vs) \in
        {Erase(t, final, vs[1]), MoveTo(t, n - 1, Param(vs, 2) - 1), [t EXCEPT !.row = b],
         EnsureRow([t EXCEPT !.row = r], r), [t EXCEPT !.col = ColIn(On(t.col, n))], [t EXCEPT !.col = c],
         EnsureRow([t EXCEPT !.row = r, !.col = 0], r), EnsureRow([t EXCEPT !.row = b, !.col = 0], b),
         [t EXCEPT !.col = ColIn(n - 1)], EnsureRow([t EXCEPT !.row = RowIn(n - 1)], RowIn(n - 1)),
         [t EXCEPT !.saved = <<t.row, t.col>>], MoveTo(t, t.saved[1], t.saved[2]), t}
  BY ZenonT(60) DEF Applied
<1> HIDE DEF n, r, b, c
<1>8. GridInv(Erase(t, final, vs[1])) /\ GridInv(MoveTo(t, n - 1, Param(vs, 2) - 1))
  BY <1>4, EraseSafe, MoveToSafe
<1>9. GridInv(MoveTo(t, t.saved[1], t.saved[2]))
  BY <1>2, MoveToSafe
<1>10. GridInv([t EXCEPT !.row = b]) /\ GridInv(EnsureRow([t EXCEPT !.row = b, !.col = 0], b))
  BY <1>6, NewRow, ToRowStart
<1>11. GridInv([t EXCEPT !.col = c]) /\ GridInv([t EXCEPT !.col = ColIn(n - 1)])
       /\ GridInv([t EXCEPT !.col = ColIn(On(t.col, n))])
  BY <1>5, <1>6, NewCol
<1>12. GridInv(EnsureRow([t EXCEPT !.row = r], r)) /\ GridInv(EnsureRow([t EXCEPT !.row = r, !.col = 0], r))
       /\ GridInv(EnsureRow([t EXCEPT !.row = RowIn(n - 1)], RowIn(n - 1)))
  BY <1>5, ToRow, ToRowStart
<1>13. GridInv([t EXCEPT !.saved = <<t.row, t.col>>])
  BY NewSaved
<1> QED BY <1>7, <1>8, <1>9, <1>10, <1>11, <1>12, <1>13, Zenon

LEMMA ApplyAnsiSafe ==
  ASSUME TermSizes, NEW t, GridInv(t), NEW final
  PROVE  GridInv(ApplyAnsi(t, final))
<1>1. Len(t.buf) \in Nat
  BY LenProperties DEF GridInv, GridType
<1>2. ParseParams(t.buf) \in Numbers
  BY <1>1, ParamsAreNumbers
<1>3. GridInv(Applied(t, final, ParseParams(t.buf)))
  BY <1>2, AppliedSafe
<1> QED BY <1>3, SequenceEnds DEF ApplyAnsi

LEMMA AnsiCharSafe ==
  ASSUME TermSizes, NEW t, GridInv(t), NEW ch
  PROVE  GridInv(AnsiChar(t, ch))
<1> DEFINE e == <<>>
           more == IF Len(t.buf) + 1 < TERM_ANSI_MAX THEN Append(t.buf, ch) ELSE t.buf
           back == MoveTo(t, t.saved[1], t.saved[2])
           saves == [t EXCEPT !.saved = <<t.row, t.col>>]
           opens(n) == [t EXCEPT !.state = n, !.buf = <<>>]
           save0 == [t EXCEPT !.saved = <<t.row, t.col>>, !.state = 0]
           back0 == [back EXCEPT !.state = 0]
           more0 == [t EXCEPT !.buf = more]
<1>0. 0 \in 0..2
  OBVIOUS
<1>1. e \in Seq(ParamChars) /\ Len(e) = 0 /\ 0 < TERM_ANSI_MAX
  BY EmptySeq DEF TermSizes
<1>2. ASSUME NEW n \in 0..2 PROVE GridInv(opens(n))
  <2> DEFINE v == [t EXCEPT !.state = n]
  <2>1. GridInv(v)
    BY <1>2, NewState
  <2>2. opens(n) = [v EXCEPT !.buf = e]
    OBVIOUS
  <2> HIDE DEF v, e
  <2>3. GridInv([v EXCEPT !.buf = e])
    BY <1>1, <2>1, NewBuf
  <2> QED BY <2>2, <2>3
<1>3. GridInv(back)
  <2>1. t.saved[1] \in Nat /\ t.saved[2] \in Nat
    BY DEF GridInv, GridType, TermRows, TermCols
  <2> QED BY <2>1, MoveToSafe
<1>4. GridInv(back0)
  <2> HIDE DEF back
  <2> QED BY <1>0, <1>3, NewState
<1>5. GridInv(save0)
  <2>1. GridInv(saves)
    BY NewSaved
  <2>2. save0 = [saves EXCEPT !.state = 0]
    OBVIOUS
  <2> HIDE DEF saves
  <2>3. GridInv([saves EXCEPT !.state = 0])
    BY <1>0, <2>1, NewState
  <2> QED BY <2>2, <2>3
<1>6. ASSUME ch \in ParamChars PROVE GridInv(more0)
  <2>1. t.buf \in Seq(ParamChars) /\ Len(t.buf) < TERM_ANSI_MAX /\ Len(t.buf) \in Nat
    BY LenProperties DEF GridInv, GridType
  <2>2. more \in Seq(ParamChars) /\ Len(more) < TERM_ANSI_MAX
    BY <1>6, <2>1, AppendProperties DEF TermSizes
  <2> HIDE DEF more
  <2> QED BY <2>2, NewBuf
<1>7. GridInv([t EXCEPT !.state = 0])
  BY <1>0, NewState
<1>8. GridInv(ApplyAnsi(t, ch)) /\ GridInv(AppendChar(t, ch))
  BY ApplyAnsiSafe, AppendCharSafe
<1>9. GridInv(opens(1)) /\ GridInv(opens(2))
  BY <1>2
<1>10. CASE t.state = 0 /\ ch = Esc
  BY <1>9, <1>10 DEF AnsiChar
<1>11. CASE t.state = 1 /\ ch = "["
  BY <1>9, <1>11 DEF AnsiChar
<1>12. CASE t.state = 1 /\ ch = "7"
  BY <1>5, <1>12 DEF AnsiChar
<1>13. CASE t.state = 1 /\ ch = "8"
  BY <1>4, <1>13 DEF AnsiChar
<1>14. CASE t.state = 1 /\ ch \notin {"[", "7", "8"}
  BY <1>7, <1>14 DEF AnsiChar
<1>15. CASE t.state = 2 /\ ch \in ParamChars
  BY <1>6, <1>15 DEF AnsiChar
<1>16. CASE t.state = 2 /\ ch \notin ParamChars
  BY <1>8, <1>16 DEF AnsiChar
<1>17. CASE t.state = 0 /\ ch # Esc
  BY <1>8, <1>17 DEF AnsiChar
<1>18. t.state \in {0, 1, 2}
  BY DEF GridInv, GridType
<1> QED BY <1>10, <1>11, <1>12, <1>13, <1>14, <1>15, <1>16, <1>17, <1>18

\* f is the terminal after the first characters of text, up to n.
PrintsUpTo(f, t, text, n) ==
    f = [m \in 0..n |-> IF m = 0 THEN t ELSE AnsiChar(f[m - 1], text[m])]

LEMMA PrintingExists ==
  ASSUME NEW t, NEW text, NEW n \in Nat
  PROVE  \E f : PrintsUpTo(f, t, text, n)
<1> DEFINE bad == {m \in Nat : ~\E f : PrintsUpTo(f, t, text, m)}
<1> SUFFICES ASSUME bad # {} PROVE FALSE
  OBVIOUS
<1>1. PICK m \in bad : \A y \in bad : m <= y
  BY LeastNumber
<1>2. m # 0
  <2> SUFFICES ASSUME m = 0 PROVE FALSE
    OBVIOUS
  <2> DEFINE f == [k \in 0..0 |-> t]
  <2>1. PrintsUpTo(f, t, text, 0)
    BY DEF PrintsUpTo
  <2> QED BY <1>1, <2>1
<1>3. m - 1 \in Nat /\ m - 1 \notin bad
  BY <1>1, <1>2
<1>4. PICK g : PrintsUpTo(g, t, text, m - 1)
  BY <1>3
<1> DEFINE f == [k \in 0..m |-> IF k = m THEN AnsiChar(g[m - 1], text[m]) ELSE g[k]]
<1>5. ASSUME NEW k \in 0..m
      PROVE  f[k] = IF k = 0 THEN t ELSE AnsiChar(f[k - 1], text[k])
  <2>1. CASE k = m
    <3>1. f[k] = AnsiChar(g[m - 1], text[m]) /\ f[m - 1] = g[m - 1]
      BY <1>2, <1>3, <2>1
    <3> QED BY <1>2, <2>1, <3>1
  <2>2. CASE k # m /\ k = 0
    BY <1>3, <1>4, <2>2 DEF PrintsUpTo
  <2>3. CASE k # m /\ k # 0
    <3>1. f[k] = g[k] /\ f[k - 1] = g[k - 1] /\ k \in 0..(m - 1)
      BY <1>3, <2>3
    <3>2. g[k] = AnsiChar(g[k - 1], text[k])
      BY <1>4, <2>3, <3>1 DEF PrintsUpTo
    <3> QED BY <2>3, <3>1, <3>2
  <2> QED BY <2>1, <2>2, <2>3
<1>6. PrintsUpTo(f, t, text, m)
  <2> DEFINE g2 == [k \in 0..m |-> IF k = 0 THEN t ELSE AnsiChar(f[k - 1], text[k])]
  <2>1. f = g2
    BY <1>5
  <2> HIDE DEF f
  <2> QED BY <2>1 DEF PrintsUpTo
<1> QED BY <1>1, <1>6

LEMMA AppendTextSafe ==
  ASSUME TermSizes, NEW t, GridInv(t), NEW text, Len(text) \in Nat
  PROVE  GridInv(AppendText(t, text))
<1> DEFINE at == CHOOSE f : f = [n \in 0..Len(text) |-> IF n = 0 THEN t ELSE AnsiChar(f[n - 1], text[n])]
<1>1. PICK g : PrintsUpTo(g, t, text, Len(text))
  BY PrintingExists
<1>2. g = [n \in 0..Len(text) |-> IF n = 0 THEN t ELSE AnsiChar(g[n - 1], text[n])]
  BY <1>1 DEF PrintsUpTo
<1>3. at = [n \in 0..Len(text) |-> IF n = 0 THEN t ELSE AnsiChar(at[n - 1], text[n])]
  BY <1>2
<1>4. AppendText(t, text) = at[Len(text)]
  BY DEF AppendText
<1> HIDE DEF at
<1> DEFINE bad == {n \in Nat : n <= Len(text) /\ ~GridInv(at[n])}
<1>5. GridInv(at[0])
  BY <1>3
<1>6. ASSUME NEW n \in 1..Len(text), GridInv(at[n - 1]) PROVE GridInv(at[n])
  <2>1. at[n] = AnsiChar(at[n - 1], text[n])
    BY <1>3
  <2> QED BY <1>6, <2>1, AnsiCharSafe
<1>7. bad = {}
  <2> SUFFICES ASSUME bad # {} PROVE FALSE
    OBVIOUS
  <2>1. PICK n \in bad : \A y \in bad : n <= y
    BY LeastNumber
  <2>2. n # 0
    BY <1>5, <2>1
  <2>3. n - 1 \in Nat /\ n - 1 \notin bad /\ n \in 1..Len(text)
    BY <2>1, <2>2
  <2>4. GridInv(at[n - 1])
    BY <2>3
  <2> QED BY <1>6, <2>1, <2>3, <2>4
<1> QED BY <1>4, <1>7

(***************************************************************************)
(* The steps of the terminal.                                              *)
(***************************************************************************)

LEMMA AppendLineSafe ==
  ASSUME TermSizes, NEW t, GridInv(t), NEW text, Len(text) \in Nat
  PROVE  GridInv(AppendLine(t, text))
BY AppendTextSafe, AppendCharSafe DEF AppendLine

\* One letter stands for a text of the terminal itself.
LEMMA SomeText ==
  ASSUME TermSizes, NEW t, GridInv(t)
  PROVE  GridInv(AppendLine(t, <<"x">>)) /\ GridInv(PromptLine(t))
<1> DEFINE word == <<"x">>
           prompt == <<"/", Blank, ">", Blank, "x">>
<1>1. Len(word) \in Nat /\ Len(prompt) \in Nat
  OBVIOUS
<1> HIDE DEF word, prompt
<1>2. GridInv(AppendLine(t, word)) /\ GridInv(AppendLine(t, prompt))
  BY <1>1, AppendLineSafe
<1> QED BY <1>2 DEF PromptLine, word, prompt

LEMMA NewFlags ==
  ASSUME NEW t, GridInv(t), NEW b \in BOOLEAN, NEW r \in BOOLEAN
  PROVE  /\ GridInv([t EXCEPT !.busy = b]) /\ GridInv([t EXCEPT !.run = r])
         /\ GridInv([t EXCEPT !.busy = b, !.run = r])
BY DEF GridInv, GridType

LEMMA NewInput ==
  ASSUME NEW t, GridInv(t), NEW n \in Int
  PROVE  GridInv([t EXCEPT !.input = n])
BY DEF GridInv, GridType

LEMMA ExecLineSafe ==
  ASSUME TermSizes, NEW t, GridInv(t), NEW cmd
  PROVE  GridInv(ExecLine(t, cmd))
<1> DEFINE u == [t EXCEPT !.input = 0]
           p == PromptLine(u)
           q == AppendLine(p, <<"x">>)
<1>1. GridInv(u)
  BY NewInput
<1> HIDE DEF u
<1>2. GridInv(p)
  BY <1>1, SomeText
<1> HIDE DEF p
<1>3. GridInv(q)
  BY <1>2, SomeText
<1>4. GridInv(AppendLine(q, <<"x">>))
  <2> HIDE DEF q
  <2> QED BY <1>3, SomeText
<1>5. GridInv([p EXCEPT !.run = FALSE]) /\ GridInv([p EXCEPT !.busy = TRUE])
  BY <1>2, NewFlags
<1>6. GridInv(TermClear(u))
  BY <1>1, TermClearSafe
<1>7. ExecLine(t, cmd) \in {TermClear(u), p, q, AppendLine(q, <<"x">>), [p EXCEPT !.run = FALSE], [p EXCEPT !.busy = TRUE]}
  BY ZenonT(60) DEF ExecLine, u, p
<1> HIDE DEF q
<1> QED BY <1>2, <1>3, <1>4, <1>5, <1>6, <1>7

LEMMA TermEndsSafe ==
  ASSUME TermSizes, GridInv(term), TermEnds
  PROVE  GridInv(term')
<1>1. PICK status \in BOOLEAN, exits \in BOOLEAN :
        term' = [(IF status THEN AppendLine(term, <<"x">>) ELSE term) EXCEPT !.busy = FALSE, !.run = ~exits]
  BY DEF TermEnds
<1> DEFINE u == IF status THEN AppendLine(term, <<"x">>) ELSE term
<1>2. GridInv(u)
  BY SomeText
<1>3. term' = [u EXCEPT !.busy = FALSE, !.run = ~exits]
  BY <1>1
<1> HIDE DEF u
<1>4. (~exits) \in {TRUE, FALSE}
  BY exits = TRUE \/ exits = FALSE
<1>5. GridInv([u EXCEPT !.busy = FALSE, !.run = ~exits])
  BY <1>2, <1>4, NewFlags
<1> QED BY <1>3, <1>5

LEMMA GridStart ==
  ASSUME TermSizes, TermInit
  PROVE  GridInv(term)
<1> DEFINE ls == [r \in TermRows |-> EmptyRow]
           e == <<>>
           at == <<0, 0>>
<1>1. EmptyRow \in GridRow
  BY DEF EmptyRow, GridRow, Cell, TermCols, TermSizes
<1>2. ls \in [TermRows -> GridRow]
  BY <1>1
<1>3. 0 \in 0..TERM_LINES /\ 0 \in TermRows /\ 0 \in TermCols /\ 0 \in 0..2 /\ at \in TermRows \X TermCols
  BY DEF TermSizes, TermRows, TermCols
<1>4. e \in Seq(ParamChars) /\ Len(e) = 0 /\ 0 < TERM_ANSI_MAX
  BY EmptySeq DEF TermSizes
<1>5. TermStart = [run |-> TRUE, input |-> 0, busy |-> FALSE, saved |-> at, state |-> 0, buf |-> e,
                   lines |-> ls, line_count |-> 0, row |-> 0, col |-> 0]
  BY DEF TermStart
<1> HIDE DEF ls, e, at
<1>6. GridInv(TermStart)
  BY <1>2, <1>3, <1>4, <1>5 DEF GridInv, GridType
<1>7. GridInv(AppendLine(TermStart, <<"x">>))
  BY <1>6, SomeText
<1> QED BY <1>7, SomeText DEF TermInit

LEMMA GridStep ==
  ASSUME TermSizes, GridInv(term), [TermNext]_term
  PROVE  GridInv(term')
<1>1. CASE TermKey
  <2>1. term.input \in Int
    BY DEF GridInv, GridType
  <2>2. \E n \in Int : term' = [term EXCEPT !.input = n]
    BY <1>1, <2>1 DEF TermKey
  <2> QED BY <2>2, NewInput
<1>2. CASE TermEnter
  BY <1>2, ExecLineSafe DEF TermEnter
<1>3. CASE TermOutput
  BY <1>3, AnsiCharSafe DEF TermOutput
<1>4. CASE TermEnds
  BY <1>4, TermEndsSafe
<1>5. CASE UNCHANGED term
  BY <1>5
<1> QED BY <1>1, <1>2, <1>3, <1>4, <1>5 DEF TermNext

\* Whatever a command prints, cut anywhere, with parameters of any size that
\* wrap as the source's do, the cursor, its saved position and the parameters
\* stay in their arrays, and every row keeps its end (term_append_ansi_char,
\* term_apply_ansi, term_append_char), for every size of the arrays.
THEOREM TerminalGridSafe == TermSpec => []TermGridSafe
<1> USE TermAssumption
<1>1. TermInit => GridInv(term)
  BY GridStart
<1>2. GridInv(term) /\ [TermNext]_term => GridInv(term)'
  BY GridStep
<1>3. GridInv(term) => TermGridSafe
  <2> SUFFICES ASSUME GridInv(term) PROVE TermGridSafe
    OBVIOUS
  <2>1. /\ term.row \in TermRows /\ term.col \in TermCols /\ term.saved \in TermRows \X TermCols
        /\ term.line_count \in 0..TERM_LINES /\ Len(term.buf) < TERM_ANSI_MAX
        /\ term.lines \in [TermRows -> GridRow]
    BY DEF GridInv, GridType
  <2>2. \A r \in TermRows : term.lines[r][TERM_LINE_MAX - 1] = Nul
    BY <2>1 DEF GridRow
  <2> QED BY <2>1, <2>2 DEF TermGridSafe
<1> QED BY <1>1, <1>2, <1>3, PTL DEF TermSpec
=============================================================================
