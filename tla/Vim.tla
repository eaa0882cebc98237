-------------------------------- MODULE Vim ----------------------------------
(***************************************************************************)
(* The vim command (apps/vim_main.c): the buffer of lines, the three modes, *)
(* loading and saving the file, and the screen, of which each key redraws   *)
(* only the rows the main loop takes for changed.  Characters are the       *)
(* UTF-8 sequences between two boundaries, so a column, and the limit       *)
(* of a line, count characters.  A command is typed and run in one step.    *)
(* Of the screen the header, the position line and the text rows are kept.  *)
(***************************************************************************)
EXTENDS Integers, Sequences, SequencesExt

CONSTANTS
    VimChars,              \* printable characters, "j" among them
    USH_VIM_MAX_LINES,
    USH_VIM_MAX_LINE_LEN,
    USH_VIM_VIEW_ROWS

\* The buffer has room for a line, the screen shows one.
ASSUME VimAssumption ==
    /\ USH_VIM_MAX_LINES \in Nat \ {0}
    /\ USH_VIM_MAX_LINE_LEN \in Nat \ {0}
    /\ USH_VIM_VIEW_ROWS \in Nat \ {0}

NoName == "none"
NoDisk == <<>>
VimCommands == {"", "q", "q!", "wq", "w", "w f", "help"}

VARIABLES
    ed,         \* struct ush_vim_editor
    vimDisk,    \* the file: a sequence of lines, or NoDisk when there is none
    vimScreen,  \* the rows the terminal shows
    vimPart     \* loading left a part of the file out, or a save of an unmodified
                \* buffer failed

vimVars == <<ed, vimDisk, vimScreen, vimPart>>

Line(e) == e.lines[e.line]
SetLine(e, text) == [e EXCEPT !.lines[e.line] = text]
Least(a, b) == IF a < b THEN a ELSE b

-----------------------------------------------------------------------------
(* The buffer.                                                             *)

ush_vim_keep_cursor_valid(e) ==
    LET line == Least(e.line, Len(e.lines)) IN [e EXCEPT !.line = line, !.col = Least(@, Len(e.lines[line]))]

ush_vim_ensure_cursor_visible(e) ==
    IF e.line < e.top THEN [e EXCEPT !.top = e.line]
    ELSE IF e.line >= e.top + USH_VIM_VIEW_ROWS THEN [e EXCEPT !.top = e.line - USH_VIM_VIEW_ROWS + 1]
    ELSE e

ush_vim_move_left(e) ==
    IF e.col > 0 THEN [e EXCEPT !.col = @ - 1]
    ELSE IF e.line > 1 THEN [e EXCEPT !.line = @ - 1, !.col = Len(e.lines[e.line - 1])]
    ELSE e

ush_vim_move_right(e) ==
    IF e.col < Len(Line(e)) THEN [e EXCEPT !.col = @ + 1]
    ELSE IF e.line < Len(e.lines) THEN [e EXCEPT !.line = @ + 1, !.col = 0]
    ELSE e

ush_vim_move_up(e) == ush_vim_keep_cursor_valid(IF e.line > 1 THEN [e EXCEPT !.line = @ - 1] ELSE e)
ush_vim_move_down(e) == ush_vim_keep_cursor_valid(IF e.line < Len(e.lines) THEN [e EXCEPT !.line = @ + 1] ELSE e)

ush_vim_insert_char(e, c) ==
    IF Len(Line(e)) + 1 >= USH_VIM_MAX_LINE_LEN THEN e
    ELSE [SetLine(e, InsertAt(Line(e), e.col + 1, c)) EXCEPT !.col = @ + 1, !.modified = TRUE]

ush_vim_split_line(e) ==
    IF Len(e.lines) >= USH_VIM_MAX_LINES THEN e
    ELSE [SetLine([e EXCEPT !.lines = InsertAt(@, e.line + 1, SubSeq(Line(e), e.col + 1, Len(Line(e))))],
                  SubSeq(Line(e), 1, e.col))
            EXCEPT !.line = @ + 1, !.col = 0, !.modified = TRUE]

ush_vim_backspace(e) ==
    IF e.col > 0 THEN [SetLine(e, RemoveAt(Line(e), e.col)) EXCEPT !.col = @ - 1, !.modified = TRUE]
    ELSE IF e.line = 1 \/ Len(e.lines[e.line - 1]) + Len(Line(e)) >= USH_VIM_MAX_LINE_LEN THEN e
    ELSE [e EXCEPT !.lines = RemoveAt([@ EXCEPT ![e.line - 1] = e.lines[e.line - 1] \o Line(e)], e.line),
                   !.line = @ - 1, !.col = Len(e.lines[e.line - 1]), !.modified = TRUE]

\* Mutant: x does not count as a change.
DeleteCharUnnoticed(e) ==
    IF e.col >= Len(Line(e)) THEN e ELSE SetLine(e, RemoveAt(Line(e), e.col + 1))

ush_vim_delete_char(e) ==
    IF e.col >= Len(Line(e)) THEN e
    ELSE [SetLine(e, RemoveAt(Line(e), e.col + 1)) EXCEPT !.modified = TRUE]

ush_vim_delete_line(e) ==
    IF Len(e.lines) = 1 THEN [e EXCEPT !.lines = <<<<>>>>, !.line = 1, !.col = 0, !.modified = TRUE]
    ELSE [ush_vim_keep_cursor_valid([e EXCEPT !.lines = RemoveAt(@, e.line)]) EXCEPT !.modified = TRUE]

ush_vim_open_below_insert(e) ==
    IF Len(e.lines) >= USH_VIM_MAX_LINES THEN e
    ELSE [e EXCEPT !.lines = InsertAt(@, e.line + 1, <<>>), !.line = @ + 1, !.col = 0,
                   !.mode = "insert", !.modified = TRUE]

-----------------------------------------------------------------------------
(* The modes.  jj leaves insert mode: a j is held back until the next key.  *)

Moved(e, key) ==
    CASE key = "left" -> ush_vim_move_left(e) [] key = "right" -> ush_vim_move_right(e)
      [] key = "up" -> ush_vim_move_up(e) [] key = "down" -> ush_vim_move_down(e)
      [] key = "home" -> [e EXCEPT !.col = 0] [] OTHER -> [e EXCEPT !.col = Len(Line(e))]
Arrows == {"left", "right", "up", "down", "home", "end"}

InsertKeys == VimChars \cup Arrows \cup {"esc", "enter", "backspace", "tab"}

Inserted(e, key) ==
    CASE key = "j" -> [e EXCEPT !.pending = "jj"]
      [] key \in Arrows -> Moved(e, key)
      [] key = "enter" -> ush_vim_split_line(e)
      [] key = "backspace" -> ush_vim_backspace(e)
      [] key = "tab" -> LET one(x) == ush_vim_insert_char(x, " ") IN one(one(one(one(e))))
      [] OTHER -> ush_vim_insert_char(e, key)

ush_vim_handle_insert_mode(e, key) ==
    IF key = "esc" \/ (e.pending = "jj" /\ key = "j")
    THEN [e EXCEPT !.mode = "normal", !.pending = "none"]
    ELSE IF e.pending = "jj"
    THEN Inserted([ush_vim_insert_char(e, "j") EXCEPT !.pending = "none"], key)
    ELSE Inserted(e, key)

NormalKeys == Arrows \cup {"G", "g", "i", "a", "o", "x", "d", ":", "esc", "enter"}

ush_vim_handle_normal_mode(e, key) ==
    IF e.pending = "dd"
    THEN [(IF key = "d" THEN ush_vim_delete_line(e) ELSE e) EXCEPT !.pending = "none"]
    ELSE IF e.pending = "gg"
    THEN [(IF key = "g" THEN [e EXCEPT !.line = 1, !.col = 0] ELSE e) EXCEPT !.pending = "none"]
    ELSE CASE key \in Arrows -> Moved(e, key)
           [] key = "G" -> ush_vim_keep_cursor_valid([e EXCEPT !.line = Len(e.lines)])
           [] key = "g" -> [e EXCEPT !.pending = "gg"]
           [] key = "d" -> [e EXCEPT !.pending = "dd"]
           [] key = "i" -> [e EXCEPT !.mode = "insert"]
           [] key = "a" -> [e EXCEPT !.mode = "insert", !.col = Least(@ + 1, Len(Line(e)))]
           [] key = "o" -> ush_vim_open_below_insert(e)
           [] key = "x" -> ush_vim_delete_char(e)
           [] key = ":" -> [e EXCEPT !.mode = "command"]
           [] OTHER -> e

-----------------------------------------------------------------------------
(* The file.                                                               *)

\* The pieces from one on, run together.
RunTogether(pieces, from) ==
    LET last[n \in 0 .. Len(pieces)] == IF n < from THEN <<>> ELSE last[n - 1] \o pieces[n]
    IN  last[Len(pieces)]

\* A file as ush_vim_load_file takes it: lines past the limit run into the
\* last one; carriage returns, and what a line cannot hold, are dropped.
PlainChar(c) == IF c = "\r" THEN <<>> ELSE <<c>>
Fits(text) ==
    LET plain == RunTogether([i \in DOMAIN text |-> PlainChar(text[i])], 1)
    IN  SubSeq(plain, 1, Least(Len(plain), USH_VIM_MAX_LINE_LEN - 1))
ush_vim_load_file(file) ==
    LET kept == Least(Len(file), USH_VIM_MAX_LINES)
    IN  [i \in 1 .. kept |-> Fits(IF i < kept THEN file[i] ELSE RunTogether(file, kept))]

\* ush_vim_save_file truncates the file, then writes line after line: a failed
\* write leaves the lines before it.  file_path and modified only change when
\* all is written.
ush_vim_save_file(e, ok) ==
    IF ok THEN [e EXCEPT !.path = "f", !.modified = FALSE] ELSE e

ush_vim_run_command(e, command, ok) ==
    CASE command = "q" -> [e EXCEPT !.quit = ~e.modified]
      [] command = "q!" -> [e EXCEPT !.quit = TRUE]
      [] command = "wq" /\ e.path # NoName -> [ush_vim_save_file(e, ok) EXCEPT !.quit = ok]
      [] (command = "w" /\ e.path # NoName) \/ command = "w f" -> ush_vim_save_file(e, ok)
      [] OTHER -> e

Saves(e, command) == (command \in {"wq", "w"} /\ e.path # NoName) \/ command = "w f"

-----------------------------------------------------------------------------
(* The screen.  A key redraws all rows, or the header, the position and the *)
(* rows of the cursor, by what it compares before and after.                *)

ush_vim_render_line(e, n) == IF n <= Len(e.lines) THEN <<n, e.lines[n]>> ELSE <<"~">>

ush_vim_render(e) ==
    [header |-> <<e.path, e.mode, e.modified>>, pos |-> <<e.line, e.col, Len(e.lines)>>,
     rows |-> [r \in 0 .. USH_VIM_VIEW_ROWS - 1 |-> ush_vim_render_line(e, e.top + r)]]

ush_vim_render_partial(s, e, header, pos, lines) ==
    LET full == ush_vim_render(e)
    IN  [header |-> IF header THEN full.header ELSE s.header,
         pos |-> IF pos THEN full.pos ELSE s.pos,
         rows |-> [r \in DOMAIN s.rows |-> IF e.top + r \in lines THEN full.rows[r] ELSE s.rows[r]]]

EditKeys(mode, key) ==
    \/ mode = "insert" /\ (key \in {"backspace", "tab"} \/ key \in VimChars)
    \/ mode = "normal" /\ key = "x"

\* Mutant: a change that leaves the cursor where it is is not redrawn.
LineDirtyByCursor(old, new, key) == old.line # new.line \/ old.col # new.col \/ old.modified # new.modified

LineDirty(old, new, key) ==
    old.line # new.line \/ old.col # new.col \/ old.modified # new.modified \/ EditKeys(old.mode, key)

\* The end of the main loop, for the editor as the key's handler left it.  The
\* rows are dirty_line, the upper one of the old and the new cursor, and the new
\* one: a cursor that goes up leaves its old row as it is.
Redrawn(s, old, new, key) ==
    IF new.top # old.top \/ Len(new.lines) # Len(old.lines) \/ key = "enter" THEN ush_vim_render(new)
    ELSE ush_vim_render_partial(s, new, old.mode # new.mode \/ old.modified # new.modified,
            old.line # new.line \/ old.col # new.col \/ Len(old.lines) # Len(new.lines),
            IF LineDirty(old, new, key) THEN {Least(old.line, new.line), new.line} ELSE {})

Shown(e) == ush_vim_ensure_cursor_visible(ush_vim_keep_cursor_valid(e))

Key(key) ==
    /\ ~ed.quit
    /\ \/ /\ ed.mode = "insert" /\ key \in InsertKeys
          /\ ed' = Shown(ush_vim_handle_insert_mode(ed, key))
       \/ /\ ed.mode = "normal" /\ key \in NormalKeys
          /\ ed' = Shown(ush_vim_handle_normal_mode(ed, key))
    /\ vimScreen' = Redrawn(vimScreen, ed, ed', key)
    /\ UNCHANGED <<vimDisk, vimPart>>

\* Command mode: escape, or the keys of a command and enter.
CommandLeft ==
    /\ ~ed.quit /\ ed.mode = "command"
    /\ ed' = [ed EXCEPT !.mode = "normal"]
    /\ vimScreen' = Redrawn(vimScreen, ed, ed', "esc")
    /\ UNCHANGED <<vimDisk, vimPart>>

CommandRun(c) ==
    /\ ~ed.quit /\ ed.mode = "command"
    /\ \E ok \in IF Saves(ed, c) THEN BOOLEAN ELSE {TRUE}, n \in 0 .. Len(ed.lines) - 1 :
          /\ ed' = Shown([ush_vim_run_command(ed, c, ok) EXCEPT !.mode = "normal"])
          /\ vimDisk' = IF ~Saves(ed, c) THEN vimDisk
                        ELSE IF ok THEN ed.lines ELSE SubSeq(ed.lines, 1, n) \o <<<<>>>>
          /\ vimPart' = IF ~Saves(ed, c) THEN vimPart ELSE ~ok /\ (vimPart \/ ~ed.modified)
    /\ vimScreen' = IF ed'.quit THEN vimScreen ELSE Redrawn(vimScreen, ed, ed', "enter")

-----------------------------------------------------------------------------
Started(lines, path) ==
    [lines |-> lines, line |-> 1, col |-> 0, top |-> 1, mode |-> "normal", modified |-> FALSE,
     quit |-> FALSE, pending |-> "none", path |-> path]

\* ush_cmd_vim without a path, with a file that is not there, and with one that
\* may be too long for the buffer or end its lines with a carriage return.
VimFiles ==
    {NoDisk, <<<<"j">>>>, <<<<"j", "j", "j", "j">>>>, <<<<"j", "\r">>, <<"j">>>>,
     <<<<"j">>, <<"j">>, <<"j">>, <<"j">>>>}

VimInit ==
    \E file \in VimFiles, named \in BOOLEAN :
        /\ vimDisk = file
        /\ ed = Started(IF named /\ file # NoDisk THEN ush_vim_load_file(file) ELSE <<<<>>>>,
                        IF named THEN "f" ELSE NoName)
        /\ vimPart = (named /\ file # NoDisk /\ ed.lines # file)
        /\ vimScreen = ush_vim_render(ed)

VimNext ==
    \/ \E key \in InsertKeys \cup NormalKeys : Key(key)
    \/ CommandLeft
    \/ \E c \in VimCommands : CommandRun(c)

VimSpec == VimInit /\ [][VimNext]_vimVars

\* As long as the editor shows no [+] the file holds exactly the buffer, so :q
\* and a :wq that reported no error lose nothing: every path through insert,
\* split, merge, x, dd and o marks the buffer, and only a complete save clears
\* the mark.  (Except after loading a file that is longer than the buffer or has
\* carriage returns, which are left out on the way in without a mark, and after a
\* failed save of an unmodified buffer, which cuts the file.)
UnmodifiedIsSaved ==
    ed.path # NoName /\ ~ed.modified /\ ~vimPart =>
        vimDisk = ed.lines \/ (vimDisk = NoDisk /\ ed.lines = <<<<>>>>)

\* The cursor stays in the buffer and on the screen.
CursorShown ==
    /\ ed.line \in 1 .. Len(ed.lines) /\ ed.col \in 0 .. Len(Line(ed))
    /\ ed.top <= ed.line /\ ed.line < ed.top + USH_VIM_VIEW_ROWS

\* The two keys whose change the main loop does not see: dd on the only line of
\* a modified buffer, and a held back j followed by a cursor key.
Unseen ==
    \/ ed.mode = "normal" /\ ed.pending = "dd" /\ Len(ed.lines) = 1
    \/ ed.mode = "insert" /\ ed.pending = "jj"

\* From a screen that shows the buffer, every other key gives a screen that
\* shows the buffer, although only one or two rows are redrawn and never the
\* row a cursor has left upwards: a key that changes a row and takes the cursor
\* up from it also changes the number of lines.
ScreenShowsBuffer ==
    [][ vimScreen = ush_vim_render(ed) /\ ~Unseen /\ ~ed'.quit => vimScreen' = ush_vim_render(ed') ]_vimVars
==============================================================================
