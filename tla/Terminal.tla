------------------------------ MODULE Terminal ------------------------------
(***************************************************************************)
(* The graphical terminal (apps/terminal/terminal.c): a grid of TERM_LINES  *)
(* rows, the escape sequences that move its cursor and erase it, and the    *)
(* input line with its built-in commands.  What a command prints arrives    *)
(* one character at a time, so an escape sequence may be cut anywhere and   *)
(* may leave the cursor anywhere.  Colours and styles are left out: they    *)
(* never decide where a character goes.                                     *)
(***************************************************************************)
EXTENDS Integers, Sequences

CONSTANTS
    TERM_LINES,
    TERM_LINE_MAX,
    TERM_ANSI_MAX,
    TERM_INPUT_MAX,
    U64,             \* 2^64: a number of the source wraps there
    TermInput        \* characters a command may print

Nul == "nul"         \* the end of a C string
Blank == " "
Esc == "esc"
TermRows == 0..(TERM_LINES - 1)
TermCols == 0..(TERM_LINE_MAX - 1)
EmptyRow == [c \in TermCols |-> Nul]
Digit == [ch \in {"0", "1", "2"} |-> IF ch = "0" THEN 0 ELSE IF ch = "1" THEN 1 ELSE 2]

\* The sizes of the arrays; every row has room for a character and its end.
TermSizes ==
    /\ TERM_LINES \in Nat \ {0}
    /\ TERM_LINE_MAX \in Nat \ {0, 1}
    /\ TERM_ANSI_MAX \in Nat \ {0}
    /\ U64 \in Nat \ {0}

ASSUME TermAssumption == TermSizes

VARIABLE term

\* ush_strlen of a row: the cells before its first NUL are the ones shown.
RowLen(row) == CHOOSE n \in TermCols : row[n] = Nul /\ \A c \in 0..(n - 1) : row[c] # Nul

\* term_clear: the saved position stays.
TermClear(t) ==
    [t EXCEPT !.lines = [r \in TermRows |-> EmptyRow], !.line_count = 0, !.row = 0, !.col = 0]

\* term_ensure_row: a row that comes into use ends at its first cell; what
\* follows that cell is not wiped.
EnsureRow(t, r) ==
    IF t.line_count > r THEN t
    ELSE [t EXCEPT !.lines = [i \in TermRows |-> IF i \in t.line_count..r THEN [t.lines[i] EXCEPT ![0] = Nul]
                                                 ELSE t.lines[i]],
                   !.line_count = r + 1]

\* term_shift_lines: every row moves up; the last one ends at its first cell.
ShiftLines(t) ==
    [t EXCEPT !.lines = [i \in TermRows |->
        IF i = TERM_LINES - 1 THEN [t.lines[i] EXCEPT ![0] = Nul]
        ELSE [c \in TermCols |-> IF c < RowLen(t.lines[i + 1]) THEN t.lines[i + 1][c] ELSE Nul]]]

\* term_newline.
Newline(t) ==
    LET u == [EnsureRow(t, t.row) EXCEPT !.col = 0]
    IN  IF t.row + 1 >= TERM_LINES THEN [ShiftLines(u) EXCEPT !.line_count = TERM_LINES]
        ELSE EnsureRow([u EXCEPT !.row = @ + 1], t.row + 1)

\* term_append_char for a character that has a glyph: the row is padded with
\* blanks up to the cursor.
Padded(row, col, ch) ==
    [c \in TermCols |-> IF c = col THEN ch ELSE IF c \in RowLen(row)..(col - 1) THEN Blank ELSE row[c]]
PutAt(t, ch) == [t EXCEPT !.lines[t.row] = Padded(@, t.col, ch), !.col = @ + 1]
PutGlyph(t, ch) ==
    LET u == IF t.col + 1 >= TERM_LINE_MAX THEN Newline(t) ELSE t IN PutAt(EnsureRow(u, u.row), ch)

\* The cell a character leaves: a glyph (a control character's is '?') or a
\* blank; which glyph it is makes no difference.
Glyph(ch) == IF ch = Blank THEN Blank ELSE "x"

\* term_append_char.
AppendChar(t, ch) ==
    CASE ch = "\r" -> [t EXCEPT !.col = 0]
      [] ch = "\n" -> Newline(t)
      [] ch = "\t" -> LET blank(u) == PutGlyph(u, Blank) IN blank(blank(blank(blank(t))))
      [] OTHER -> PutGlyph(t, Glyph(ch))

\* term_clear_line_range, with term_trim_line: blanks at the end of the row go.
Cleared(row, from, to) ==
    LET wiped == [c \in TermCols |-> IF c = TERM_LINE_MAX - 1 THEN Nul
                                     ELSE IF c >= from /\ c < to THEN Blank ELSE row[c]]
        last == {c \in TermCols : wiped[c] \notin {Blank, Nul}}
    IN  [c \in TermCols |-> IF \E d \in last : d >= c THEN wiped[c] ELSE Nul]

ClearRange(t, r, from, to) == [t EXCEPT !.lines[r] = Cleared(@, from, to)]

ClearRows(t, rows) ==
    [t EXCEPT !.lines = [r \in TermRows |-> IF r \in rows THEN Cleared(t.lines[r], 0, TERM_LINE_MAX)
                                            ELSE t.lines[r]]]

\* term_ansi_parse_params: numbers between semicolons, which wrap; an empty one
\* is 0, and ? and = are passed over.
ParamChars == DOMAIN Digit \cup {";", "?", "="}
NextParam(vs, ch) ==
    IF ch = ";" THEN Append(vs, 0)
    ELSE IF ch \in DOMAIN Digit THEN [vs EXCEPT ![Len(vs)] = (10 * @ + Digit[ch]) % U64]
    ELSE vs
ParseParams(buf) ==
    LET vs[n \in 0..Len(buf)] == IF n = 0 THEN <<0>> ELSE NextParam(vs[n - 1], buf[n])
    IN  vs[Len(buf)]

\* term_ansi_param_or_default with the default 1.
Param(vs, i) == IF i > Len(vs) \/ vs[i] = 0 THEN 1 ELSE vs[i]

RowIn(n) == IF n >= TERM_LINES THEN TERM_LINES - 1 ELSE n
\* Mutant: the column is not limited.
ColInWide(n) == n

ColIn(n) == IF n >= TERM_LINE_MAX - 1 THEN TERM_LINE_MAX - 2 ELSE n
Back(pos, n) == IF n > pos THEN 0 ELSE pos - n
On(pos, n) == (pos + n) % U64

\* A cursor position given by the program, brought into the grid.
MoveTo(t, r, c) == EnsureRow([t EXCEPT !.row = RowIn(r), !.col = ColIn(c)], RowIn(r))

\* The erase commands J and K of term_apply_ansi.
Erase(t, final, mode) ==
    CASE final = "J" /\ mode = 0 -> ClearRows(ClearRange(t, t.row, t.col, TERM_LINE_MAX - 1), (t.row + 1)..(TERM_LINES - 1))
      [] final = "J" /\ mode = 1 -> ClearRange(ClearRows(t, 0..(t.row - 1)), t.row, 0, t.col + 1)
      [] final = "J" /\ mode \in {2, 3} -> TermClear(t)
      [] final = "K" /\ mode = 0 -> ClearRange(t, t.row, t.col, TERM_LINE_MAX - 1)
      [] final = "K" /\ mode = 1 -> ClearRange(t, t.row, 0, t.col + 1)
      [] final = "K" /\ mode \notin {0, 1} -> ClearRange(t, t.row, 0, TERM_LINE_MAX - 1)
      [] OTHER -> t

\* term_apply_ansi, by the numbers read: A and D and G and C leave line_count
\* alone.
Applied(t, final, vs) ==
    LET n == Param(vs, 1)
        r == RowIn(On(t.row, n))
    IN  CASE final \in {"J", "K"} -> Erase(t, final, vs[1])
          [] final \in {"H", "f"} -> MoveTo(t, n - 1, Param(vs, 2) - 1)
          [] final = "A" -> [t EXCEPT !.row = Back(t.row, n)]
          [] final = "B" -> EnsureRow([t EXCEPT !.row = r], r)
          [] final = "C" -> [t EXCEPT !.col = ColIn(On(t.col, n))]
          [] final = "D" -> [t EXCEPT !.col = Back(t.col, n)]
          [] final = "E" -> EnsureRow([t EXCEPT !.row = r, !.col = 0], r)
          [] final = "F" -> EnsureRow([t EXCEPT !.row = Back(t.row, n), !.col = 0], Back(t.row, n))
          [] final = "G" -> [t EXCEPT !.col = ColIn(n - 1)]
          [] final = "d" -> EnsureRow([t EXCEPT !.row = RowIn(n - 1)], RowIn(n - 1))
          [] final = "s" -> [t EXCEPT !.saved = <<t.row, t.col>>]
          [] final = "u" -> MoveTo(t, t.saved[1], t.saved[2])
          [] OTHER -> t

ApplyAnsi(t, final) == [Applied(t, final, ParseParams(t.buf)) EXCEPT !.state = 0, !.buf = <<>>]

\* term_append_ansi_char: outside an escape sequence, after ESC, after ESC [.
\* Parameters beyond the buffer are dropped.
AnsiChar(t, ch) ==
    CASE t.state = 1 /\ ch = "[" -> [t EXCEPT !.state = 2, !.buf = <<>>]
      [] t.state = 1 /\ ch = "7" -> [t EXCEPT !.saved = <<t.row, t.col>>, !.state = 0]
      [] t.state = 1 /\ ch = "8" -> [MoveTo(t, t.saved[1], t.saved[2]) EXCEPT !.state = 0]
      [] t.state = 1 /\ ch \notin {"[", "7", "8"} -> [t EXCEPT !.state = 0]
      [] t.state = 2 /\ ch \in ParamChars ->
           [t EXCEPT !.buf = IF Len(@) + 1 < TERM_ANSI_MAX THEN Append(@, ch) ELSE @]
      [] t.state = 2 /\ ch \notin ParamChars -> ApplyAnsi(t, ch)
      [] t.state = 0 /\ ch = Esc -> [t EXCEPT !.state = 1, !.buf = <<>>]
      [] OTHER -> AppendChar(t, ch)

\* term_append_text and term_append_line: the end of the line is not part of
\* an escape sequence even when one is open.
AppendText(t, text) ==
    LET at[n \in 0..Len(text)] == IF n = 0 THEN t ELSE AnsiChar(at[n - 1], text[n])
    IN  at[Len(text)]
AppendLine(t, text) == AppendChar(AppendText(t, text), "\n")

\* term_append_prompt_line: the directory, a mark and the line.
PromptLine(t) == AppendLine(t, <<"/", Blank, ">", Blank, "x">>)

-----------------------------------------------------------------------------

\* cleonos_terminal_run: two lines of greeting.
TermStart ==
    [run |-> TRUE, input |-> 0, busy |-> FALSE, saved |-> <<0, 0>>, state |-> 0, buf |-> <<>>,
     lines |-> [r \in TermRows |-> EmptyRow], line_count |-> 0, row |-> 0, col |-> 0]
TermInit == term = AppendLine(AppendLine(TermStart, <<"x">>), <<"x">>)

\* term_handle_key: a character or backspace; the input keeps room for its NUL.
TermKey ==
    /\ term.run /\ ~term.busy
    /\ \/ term.input + 1 < TERM_INPUT_MAX /\ term' = [term EXCEPT !.input = @ + 1]
       \/ term.input > 0 /\ term' = [term EXCEPT !.input = @ - 1]

\* term_exec_line after Enter: the built-in commands; any other one runs.
ExecLine(t, cmd) ==
    LET u == [t EXCEPT !.input = 0]
        p == PromptLine(u)
    IN  CASE cmd = "clear" -> TermClear(u)
          [] cmd \in {"", "cd"} -> p
          [] cmd = "help" -> AppendLine(AppendLine(p, <<"x">>), <<"x">>)
          [] cmd \in {"pwd", "cd_fails", "not_found"} -> AppendLine(p, <<"x">>)
          [] cmd = "exit" -> [p EXCEPT !.run = FALSE]
          [] OTHER -> [p EXCEPT !.busy = TRUE]

TermEnter ==
    /\ term.run /\ ~term.busy
    /\ \E cmd \in {"", "clear", "help", "pwd", "cd", "cd_fails", "not_found", "exit", "external"} :
         /\ (term.input = 0) = (cmd = "")
         /\ term' = ExecLine(term, cmd)

\* term_drain_fd: a character of what the command printed.
TermOutput == \E ch \in TermInput : term.busy /\ term' = AnsiChar(term, ch)

\* The end of term_exec_external: the exit status may be shown, the command
\* may have asked the terminal to exit.
TermEnds ==
    /\ term.busy
    /\ \E status, exits \in BOOLEAN :
         term' = [(IF status THEN AppendLine(term, <<"x">>) ELSE term) EXCEPT !.busy = FALSE, !.run = ~exits]

TermNext == TermKey \/ TermEnter \/ TermOutput \/ TermEnds

TermSpec == TermInit /\ [][TermNext]_term

-----------------------------------------------------------------------------

\* Whatever a command prints, and wherever it stops in an escape sequence, the
\* cursor and the position it saved are in the grid, every row of the grid
\* still has its end in its last cell, and the parameters fit their buffer:
\* the next character is written inside the terminal's arrays.
TermGridSafe ==
    /\ term.row \in TermRows /\ term.col \in TermCols
    /\ term.saved \in TermRows \X TermCols
    /\ term.line_count \in 0..TERM_LINES
    /\ \A r \in TermRows : term.lines[r][TERM_LINE_MAX - 1] = Nul
    /\ Len(term.buf) < TERM_ANSI_MAX

=============================================================================
