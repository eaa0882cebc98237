----------------------------- MODULE LineEditor -----------------------------
(***************************************************************************)
(* The interactive line editor of the Rust user shell: input.rs             *)
(* (read_interactive_line), editing.rs, history.rs and completion.rs.       *)
(*                                                                         *)
(* The editor's part of struct ShellState is the record sh; every function  *)
(* of the source that takes &mut ShellState is an operator from a state to  *)
(* a state.  line stands for line[..line_len].  history_nav is -1 or the    *)
(* index, from 0, of the history entry on display.                          *)
(***************************************************************************)
EXTENDS ShellText, ShellHistory

CONSTANTS
    Keys,           \* the keys the user presses
    InputBytes,     \* the bytes the keyboard can deliver for a character
    Words,          \* completions the command table and the file system offer
    InitHistories,  \* histories that history_load may leave behind
    QueryBound      \* bound on the length of a search query

AllKeys ==
    {"enter", "selectAll", "copy", "paste", "shiftLeft", "shiftRight",
     "shiftHome", "shiftEnd", "home", "end", "killBefore", "killAfter",
     "killWord", "clearScreen", "eof", "search", "up", "down", "left",
     "right", "tab", "backspace", "delete", "char"}

ASSUME EditorAssumption ==
    /\ Keys \subseteq AllKeys
    /\ InputBytes \subseteq Byte
    /\ Words \subseteq Seq(Byte \ {NUL})
    /\ InitHistories \subseteq History
    /\ QueryBound \in Nat

VARIABLES
    sh,       \* the editor's part of ShellState
    mode,     \* "edit", "search" (Ctrl+R), "run" (a line was returned), "done"
    query,    \* the reverse search's query
    out,      \* the line last returned to the main loop
    disk,     \* bytes of the history file
    shown     \* what the last render_line drew

vars == <<sh, mode, query, out, disk, shown>>

EXIT_LINE == <<101, 120, 105, 116>>    \* "exit"

-----------------------------------------------------------------------------
(* editing.rs                                                              *)

SelectionClear(s) ==
    [s EXCEPT !.sel_active = FALSE, !.sel_start = 0, !.sel_end = 0,
              !.sel_anchor = 0, !.sel_anchor_valid = FALSE]

ResetLine(s) == SelectionClear([s EXCEPT !.line = <<>>, !.cursor = 0])

InsertText(s, text) ==
    LET at   == Lesser(s.cursor, Len(s.line))
        fit  == Lesser(Len(text), (LINE_MAX - 1) - Len(s.line))
    IN  [s EXCEPT !.line = Splice(s.line, at, at, SubSeq(text, 1, fit)),
                  !.cursor = at + fit]

\* Mutant: the cursor follows the deletion even from inside it.
DeleteRangeCursorBehind(s, start, end) ==
    IF start >= end \/ start >= Len(s.line)
    THEN SelectionClear(s)
    ELSE SelectionClear([s EXCEPT !.line = Splice(s.line, start, Lesser(end, Len(s.line)), <<>>),
                                  !.cursor = s.cursor - (Lesser(end, Len(s.line)) - start)])

DeleteRange(s, start, end) ==
    LET stop == Lesser(end, Len(s.line))
        rest == Splice(s.line, start, stop, <<>>)
        cur  == IF s.cursor > stop THEN s.cursor - (stop - start)
                ELSE Lesser(s.cursor, start)
    IN  IF start >= end \/ start >= Len(s.line)
        THEN SelectionClear(s)
        ELSE SelectionClear([s EXCEPT !.line = rest, !.cursor = Lesser(cur, Len(rest))])

SelectionSelectAll(s) ==
    IF s.line = <<>>
    THEN SelectionClear(s)
    ELSE [s EXCEPT !.sel_active = TRUE, !.sel_start = 0, !.sel_end = Len(s.line),
                   !.sel_anchor = 0, !.sel_anchor_valid = TRUE]

SelectionUpdateFromAnchor(s) ==
    LET anchor == Lesser(s.sel_anchor, Len(s.line))
    IN  [s EXCEPT !.sel_active = s.cursor # anchor,
                  !.sel_start = Lesser(s.cursor, anchor),
                  !.sel_end = Greater(s.cursor, anchor)]

\* <<start, end>> of the selection; <<0, 0>> when there is none.
SelectionRange(s) ==
    LET a == Lesser(s.sel_start, Len(s.line))
        b == Lesser(s.sel_end, Len(s.line))
    IN  IF s.sel_active /\ a # b THEN <<Lesser(a, b), Greater(a, b)>> ELSE <<0, 0>>

HasSelection(s) == SelectionRange(s)[1] < SelectionRange(s)[2]

\* copy_selection and the copying half of cut_range_to_clipboard.
CopyRange(s, start, end) ==
    [s EXCEPT !.clipboard = SubSeq(s.line, start + 1, Lesser(end, start + LINE_MAX - 1))]

CopySelection(s) ==
    IF HasSelection(s) THEN CopyRange(s, SelectionRange(s)[1], SelectionRange(s)[2]) ELSE s

DeleteSelection(s) ==
    IF HasSelection(s) THEN DeleteRange(s, SelectionRange(s)[1], SelectionRange(s)[2]) ELSE s

\* Its callers pass start < end <= line_len.
CutRangeToClipboard(s, start, end) == DeleteRange(CopyRange(s, start, end), start, end)

RemoveContinuationMarker(s) ==
    LET t == DeleteRange(s, TrimmedLen(s.line) - 1, TrimmedLen(s.line))
    IN  [t EXCEPT !.cursor = Len(t.line)]

-----------------------------------------------------------------------------
(* history.rs: navigation                                                  *)

HistoryCancelNav(s) ==
    [s EXCEPT !.history_nav = -1, !.nav_saved_line = <<>>, !.nav_saved_cursor = 0]

LoadLine(s, text) == [s EXCEPT !.line = CStr(text), !.cursor = Len(CStr(text))]

HistoryApplyCurrent(s) ==
    IF s.history_nav >= 0
    THEN LoadLine(s, s.history[s.history_nav + 1])
    ELSE [s EXCEPT !.line = s.nav_saved_line,
                   !.cursor = Lesser(s.nav_saved_cursor, Len(s.nav_saved_line))]

HistoryUp(s) ==
    HistoryApplyCurrent(
        IF s.history_nav < 0
        THEN [s EXCEPT !.nav_saved_line = s.line, !.nav_saved_cursor = s.cursor,
                       !.history_nav = Len(s.history) - 1]
        ELSE [s EXCEPT !.history_nav = Greater(0, @ - 1)])

HistoryDown(s) ==
    HistoryApplyCurrent(
        [s EXCEPT !.history_nav = IF @ + 1 < Len(s.history) THEN @ + 1 ELSE -1])

HistoryPush(s) ==
    HistoryCancelNav([s EXCEPT !.history = HistoryPushMemory(@, CStr(s.line))])

\* Mutant: a full history is not saved.
HistoryGrowsWhileFree(s) ==
    /\ HasNonSpace(s.line)
    /\ ~(s.history # <<>> /\ s.history[Len(s.history)] = CStr(s.line))
    /\ Len(s.history) < HISTORY_MAX

\* history_push saves only when the line was neither blank nor a repetition.
HistoryGrows(s) ==
    /\ HasNonSpace(s.line)
    /\ ~(s.history # <<>> /\ s.history[Len(s.history)] = CStr(s.line))

-----------------------------------------------------------------------------
(* completion.rs                                                           *)

\* Mutant: the inserted text is not cut to the room that is left.
ReplaceRangeRawUncut(s, start, end, text) ==
    IF start > end \/ end > Len(s.line)
    THEN s
    ELSE SelectionClear([s EXCEPT !.line = Splice(s.line, start, end, text),
                                  !.cursor = start + Len(text)])

ReplaceRangeRaw(s, start, end, text) ==
    LET tail == Len(s.line) - end
        fit  == IF start + Len(text) + tail >= LINE_MAX
                THEN Greater(0, LINE_MAX - 1 - start - tail)
                ELSE Len(text)
    IN  IF start > end \/ end > Len(s.line)
        THEN s
        ELSE SelectionClear(
                [s EXCEPT !.line = Splice(s.line, start, end, SubSeq(text, 1, fit)),
                          !.cursor = start + fit])

Token(s) == CStr(SubSeq(s.line, TokenStart(s.line, s.cursor) + 1, s.cursor))

\* The sets of matches the command table and the directories may yield.  A
\* match extends the token, except that an absolute path is rewritten whole.
MatchLists(s) ==
    LET offers == {w \in Words : w # <<>> /\ (HasPrefix(w, Token(s))
                                   \/ (Token(s) # <<>> /\ Token(s)[1] = SLASH))}
    IN  (SUBSET offers) \ {{}}

CompleteSingle(s, match) ==
    LET t == ReplaceRangeRaw(s, TokenStart(s.line, s.cursor), s.cursor, match)
    IN  IF match[Len(match)] # SLASH /\ Len(t.line) + 1 < LINE_MAX
        THEN ReplaceRangeRaw(t, t.cursor, t.cursor, <<SPACE>>)
        ELSE t

\* linenoise_complete with at least one match; history_cancel_nav follows.
LinenoiseComplete(s, matches) ==
    HistoryCancelNav(
        IF \A v, w \in matches : v = w
        THEN CompleteSingle(s, CHOOSE m \in matches : TRUE)
        ELSE IF Len(CommonPrefix(matches)) > Len(Token(s))
             THEN ReplaceRangeRaw(s, TokenStart(s.line, s.cursor), s.cursor,
                                  CommonPrefix(matches))
             ELSE s)

\* Indices of the history entries that contain the query.
SearchHits(s, q) == {i \in 1..Len(s.history) : ContainsSubstr(s.history[i], q)}

-----------------------------------------------------------------------------
(* What is on the screen: the arguments of the last render_line.           *)

Rendered(s) == [line |-> s.line, cursor |-> s.cursor, sel |-> SelectionRange(s)]
BlankRow == [line |-> <<>>, cursor |-> 0, sel |-> <<0, 0>>]

Drawn(s)   == sh' = s /\ shown' = Rendered(s) /\ UNCHANGED <<mode, query, out, disk>>
Undrawn(s) == sh' = s /\ UNCHANGED <<mode, query, out, disk, shown>>

Press(key) == mode = "edit" /\ key \in Keys

-----------------------------------------------------------------------------
(* read_interactive_line, one action per key.                              *)

EnterContinues ==
    /\ Press("enter")
    /\ LineNeedsContinuation(sh.line)
    /\ LET s == RemoveContinuationMarker(SelectionClear(HistoryCancelNav(sh)))
       IN  sh' = IF Len(s.line) + 1 < LINE_MAX THEN InsertText(s, <<SPACE>>) ELSE s
    /\ shown' = BlankRow
    /\ UNCHANGED <<mode, query, out, disk>>

EnterReturns ==
    /\ Press("enter")
    /\ ~LineNeedsContinuation(sh.line)
    /\ LET s == HistoryPush(sh)
       IN  /\ sh' = ResetLine(s)
           /\ disk' = IF HistoryGrows(sh) THEN HistorySave(s.history) ELSE disk
    /\ out' = CStr(sh.line)
    /\ mode' = "run"
    /\ shown' = BlankRow
    /\ UNCHANGED query

\* The main loop ran the line and no exit was requested.
ReadInteractiveLine ==
    /\ mode = "run"
    /\ out # EXIT_LINE
    /\ sh' = HistoryCancelNav(ResetLine(sh))
    /\ mode' = "edit"
    /\ out' = <<>>
    /\ shown' = BlankRow
    /\ UNCHANGED <<query, disk>>

\* The line was "exit", or ran a program that asked the shell to exit.
ExitRequested ==
    /\ mode = "run"
    /\ mode' = "done"
    /\ UNCHANGED <<sh, query, out, disk, shown>>

SelectAll ==
    /\ Press("selectAll")
    /\ Drawn([SelectionSelectAll(sh) EXCEPT !.cursor = Len(sh.line)])

Copy == Press("copy") /\ Undrawn(CopySelection(sh))

Paste ==
    /\ Press("paste")
    /\ sh.clipboard # <<>>
    /\ Drawn(InsertText(DeleteSelection(HistoryCancelNav(sh)), sh.clipboard))

\* Mutant: extending the selection does not draw the line again.
ShiftMoveUndrawn(key, target) ==
    /\ Press(key)
    /\ LET s == IF sh.sel_anchor_valid THEN sh
                ELSE [sh EXCEPT !.sel_anchor = sh.cursor, !.sel_anchor_valid = TRUE]
       IN  Undrawn(SelectionUpdateFromAnchor([s EXCEPT !.cursor = target]))

ShiftMove(key, target) ==
    /\ Press(key)
    /\ LET s == IF sh.sel_anchor_valid THEN sh
                ELSE [sh EXCEPT !.sel_anchor = sh.cursor, !.sel_anchor_valid = TRUE]
       IN  Drawn(SelectionUpdateFromAnchor([s EXCEPT !.cursor = target]))

ShiftLeft  == ShiftMove("shiftLeft", Utf8PrevBoundary(sh.line, sh.cursor))
ShiftRight == ShiftMove("shiftRight", Utf8NextBoundary(sh.line, sh.cursor))
ShiftHome  == ShiftMove("shiftHome", 0)
ShiftEnd   == ShiftMove("shiftEnd", Len(sh.line))

\* Mutant: a plain move never draws the line again.
MoveUndrawn(key, target) ==
    /\ Press(key)
    /\ Undrawn([SelectionClear(sh) EXCEPT !.cursor = target])

\* The plain moves drop the selection but redraw only when the cursor moves.
Move(key, target) ==
    /\ Press(key)
    /\ LET s == [SelectionClear(sh) EXCEPT !.cursor = target]
       IN  IF target # sh.cursor THEN Drawn(s) ELSE Undrawn(s)

Home  == Move("home", 0)
End   == Move("end", Len(sh.line))
Left  == Move("left", Utf8PrevBoundary(sh.line, sh.cursor))
Right == Move("right", Utf8NextBoundary(sh.line, sh.cursor))

Kill(key, start, end) ==
    /\ Press(key)
    /\ start < end
    /\ Drawn(CutRangeToClipboard(HistoryCancelNav(sh), start, end))

KillBefore     == Kill("killBefore", 0, sh.cursor)
KillAfter      == Kill("killAfter", sh.cursor, Len(sh.line))
KillWordBefore == Kill("killWord", PrevWordBoundary(sh.line, sh.cursor), sh.cursor)

ClearScreen == Press("clearScreen") /\ Drawn(sh)

EofOnEmptyLine ==
    /\ Press("eof")
    /\ sh.line = <<>>
    /\ out' = EXIT_LINE
    /\ sh' = ResetLine(sh)
    /\ mode' = "run"
    /\ shown' = BlankRow
    /\ UNCHANGED <<query, disk>>

EofDeletes ==
    /\ Press("eof")
    /\ sh.cursor < Len(sh.line)
    /\ Drawn(DeleteRange(HistoryCancelNav(sh), sh.cursor,
                         Utf8NextBoundary(sh.line, sh.cursor)))

Up ==
    /\ Press("up")
    /\ LET s == SelectionClear(sh)
       IN  IF sh.history = <<>> THEN Undrawn(s) ELSE Drawn(HistoryUp(s))

Down ==
    /\ Press("down")
    /\ LET s == SelectionClear(sh)
       IN  IF sh.history_nav < 0 THEN Undrawn(s) ELSE Drawn(HistoryDown(s))

\* No match leaves everything as it is.
Tab ==
    /\ Press("tab")
    /\ \E matches \in MatchLists(sh) : Drawn(LinenoiseComplete(sh, matches))

\* Backspace and Delete: the selection first, else one character.
EraseSelection ==
    /\ Press("backspace") \/ Press("delete")
    /\ HasSelection(sh)
    /\ Drawn(HistoryCancelNav(DeleteSelection(sh)))

\* Mutant: erasing a character does not leave history navigation.
EraseCharInNavigation(key, start, end) ==
    /\ Press(key)
    /\ ~HasSelection(sh)
    /\ start < end
    /\ Drawn(DeleteRange(SelectionClear(sh), start, end))

EraseChar(key, start, end) ==
    /\ Press(key)
    /\ ~HasSelection(sh)
    /\ start < end
    /\ Drawn(DeleteRange(SelectionClear(HistoryCancelNav(sh)), start, end))

Backspace == EraseChar("backspace", Utf8PrevBoundary(sh.line, sh.cursor), sh.cursor)
Delete    == EraseChar("delete", sh.cursor, Utf8NextBoundary(sh.line, sh.cursor))

\* A printable character replaces the selection.  With no room left for all
\* of its bytes it is dropped, and the line is not drawn again.
TypeChar ==
    /\ Press("char")
    /\ \E first \in {b \in InputBytes : IsPrintable(b)} :
         LET s == DeleteSelection(HistoryCancelNav(sh))
         IN  IF Len(s.line) + 1 >= LINE_MAX
             THEN Undrawn(s)
             ELSE \E buf \in CollectUtf8(first, InputBytes) :
                    IF Len(s.line) + Len(buf) >= LINE_MAX
                    THEN Undrawn(s)
                    ELSE Drawn(InsertText(s, buf))

-----------------------------------------------------------------------------
(* linenoise_reverse_search, a loop of its own.                            *)

SearchStart ==
    /\ Press("search")
    /\ mode' = "search"
    /\ query' = <<>>
    /\ UNCHANGED <<sh, out, disk, shown>>

SearchType ==
    /\ mode = "search"
    /\ Len(query) + 1 < LINE_MAX /\ Len(query) < QueryBound
    /\ \E b \in {x \in InputBytes : IsPrintable(x)} : query' = Append(query, b)
    /\ UNCHANGED <<sh, mode, out, disk, shown>>

SearchErase ==
    /\ mode = "search"
    /\ query # <<>>
    /\ query' = SubSeq(query, 1, Len(query) - 1)
    /\ UNCHANGED <<sh, mode, out, disk, shown>>

\* Enter loads the newest entry that contains the query.
SearchAccept ==
    /\ mode = "search"
    /\ LET hits == SearchHits(sh, query)
           s == IF query # <<>> /\ hits # {} THEN LoadLine(sh, sh.history[Max(hits)]) ELSE sh
       IN  sh' = s /\ shown' = Rendered(s)
    /\ mode' = "edit"
    /\ query' = <<>>
    /\ UNCHANGED <<out, disk>>

SearchCancel ==
    /\ mode = "search"
    /\ mode' = "edit"
    /\ query' = <<>>
    /\ shown' = Rendered(sh)
    /\ UNCHANGED <<sh, out, disk>>

-----------------------------------------------------------------------------
InitShell(h) ==
    [line |-> <<>>, cursor |-> 0, history |-> h, history_nav |-> -1,
     nav_saved_line |-> <<>>, nav_saved_cursor |-> 0, clipboard |-> <<>>,
     sel_start |-> 0, sel_end |-> 0, sel_active |-> FALSE,
     sel_anchor |-> 0, sel_anchor_valid |-> FALSE]

Init ==
    /\ \E h \in InitHistories : sh = InitShell(h) /\ disk = HistorySave(h)
    /\ mode = "edit"
    /\ query = <<>>
    /\ out = <<>>
    /\ shown = BlankRow

EditKey ==
    \/ EnterContinues \/ SelectAll \/ Copy \/ Paste
    \/ ShiftLeft \/ ShiftRight \/ ShiftHome \/ ShiftEnd
    \/ Home \/ End \/ Left \/ Right
    \/ KillBefore \/ KillAfter \/ KillWordBefore \/ ClearScreen
    \/ EofDeletes \/ Up \/ Down \/ Tab
    \/ EraseSelection \/ Backspace \/ Delete \/ TypeChar

Next ==
    \/ EditKey
    \/ EnterReturns \/ EofOnEmptyLine \/ ReadInteractiveLine \/ ExitRequested
    \/ SearchStart \/ SearchType \/ SearchErase \/ SearchAccept \/ SearchCancel

Spec == Init /\ [][Next]_vars

-----------------------------------------------------------------------------
(* Properties.                                                             *)

ShellType ==
    [line : Seq(Byte), cursor : Nat, history : Seq(HistoryLine), history_nav : Int,
     nav_saved_line : Seq(Byte), nav_saved_cursor : Nat, clipboard : Seq(Byte),
     sel_start : Nat, sel_end : Nat, sel_active : BOOLEAN,
     sel_anchor : Nat, sel_anchor_valid : BOOLEAN]

\* Every variable has its type.
TypeOK ==
    /\ sh \in ShellType
    /\ mode \in {"edit", "search", "run", "done"}
    /\ query \in Seq(Byte)
    /\ out \in Seq(Byte)

\* No index of the source leaves its array and no subtraction underflows,
\* whatever mixture of edits, pastes, completions and history moves led here:
\* the line, the saved draft and the clipboard leave room for the terminator,
\* the cursor stays inside the line (input.rs indexes
\* line[cursor], insert_text computes (LINE_MAX - 1) - line_len), the draft's
\* cursor inside the draft, and history_nav names an entry (history_apply_current
\* indexes history[history_nav]).
InBounds ==
    /\ Len(sh.line) < LINE_MAX
    /\ sh.cursor <= Len(sh.line)
    /\ Len(sh.nav_saved_line) < LINE_MAX
    /\ sh.nav_saved_cursor <= Len(sh.nav_saved_line)
    /\ Len(sh.clipboard) < LINE_MAX
    /\ Len(sh.history) <= HISTORY_MAX
    /\ sh.history_nav \in -1..(Len(sh.history) - 1)
    /\ Len(query) < LINE_MAX

\* While history_nav points at an entry, the line on display is one of the
\* history's entries, unedited: every edit leaves navigation first
\* (history_cancel_nav), so moving on never throws away typed text.
NavShowsHistory ==
    sh.history_nav >= 0 => \E i \in 1..Len(sh.history) : sh.line = sh.history[i]

\* What Backspace, Delete, Paste or a typed character will remove
\* (selection_range at the time of the key) is exactly what the last
\* render_line highlighted.
SelectionIsShown ==
    mode = "edit" /\ HasSelection(sh) =>
        shown.sel = SelectionRange(sh) /\ shown.line = sh.line

Synced == shown.line = sh.line /\ shown.cursor = sh.cursor

\* Bytes of the longest character the keyboard can deliver.
LongestChar == Max({1} \cup {Utf8LenFromLead(b) : b \in InputBytes})

\* A key leaves the screen behind the line only in two cases: Enter on a
\* continued line (the text is not repeated on the new row), and a character
\* that replaced a selection but then did not fit (input.rs returns to its loop
\* before render_line).
ScreenFollowsLine ==
    [][mode = "edit" /\ mode' = "edit" /\ Synced =>
          \/ Synced'
          \/ LineNeedsContinuation(sh.line)
          \/ HasSelection(sh) /\ Len(DeleteSelection(sh).line) + LongestChar >= LINE_MAX]_vars

\* Well-formed text, and positions in it between two characters.
OnBoundary(t, pos) ==
    pos = Len(t) \/ (pos < Len(t) /\ ~Utf8IsCont(t[pos + 1]))

WellFormed(t) ==
    \A p \in 0..(Len(t) - 1) :
        \E q \in Greater(0, p - 3)..p :
            ~Utf8IsCont(t[q + 1]) /\ q + Utf8CharLenAt(t, q) > p
              /\ Utf8CharLenAt(t, q) = Utf8LenFromLead(t[q + 1])

\* Nothing in the editor holds half a character.
TextClean(s) ==
    /\ WellFormed(s.line) /\ OnBoundary(s.line, s.cursor)
    /\ WellFormed(s.nav_saved_line) /\ OnBoundary(s.nav_saved_line, s.nav_saved_cursor)
    /\ WellFormed(s.clipboard)

\* Nor does the selection end, or the anchor it may grow from stand, inside one.
SelectionClean(s) ==
    /\ s.sel_active =>
         /\ s.sel_start < s.sel_end /\ s.sel_end <= Len(s.line)
         /\ OnBoundary(s.line, s.sel_start) /\ OnBoundary(s.line, s.sel_end)
    /\ s.sel_anchor_valid =>
         /\ s.sel_anchor <= Len(s.line) /\ OnBoundary(s.line, s.sel_anchor)
         /\ s.sel_active \/ s.sel_anchor <= s.cursor

\* Editing never tears a character apart: from clean text, every key leaves
\* clean text, provided the pasted or completed text fits the line.  The
\* exceptions are a character typed ill-formed and a completion whose text
\* is: common_prefix compares bytes and may cut a character.  Only a reverse
\* search can leave a selection that cuts a character (it loads another line
\* under the old selection and anchor).
EditsKeepCharacters ==
    [][/\ TextClean(sh) /\ SelectionClean(sh)
       /\ \A i \in 1..Len(sh.history) : WellFormed(sh.history[i])
       /\ Len(sh'.line) < LINE_MAX - 1
       => \/ TextClean(sh') /\ (SelectionClean(sh') \/ mode = "search")
          \/ TypeChar /\ ~WellFormed(sh'.line)
          \/ Tab /\ \E matches \in MatchLists(sh) : ~WellFormed(CommonPrefix(matches))]_vars

\* A shell started after this one reads back the very history this one holds
\* (history_load after history_save), as long as no entry holds a newline or
\* ends in a carriage return, which the keyboard can only deliver inside a
\* broken UTF-8 character.
HistorySurvivesRestart ==
    (\A i \in 1..Len(sh.history) :
        /\ \A j \in 1..Len(sh.history[i]) : sh.history[i][j] # NEWLINE
        /\ sh.history[i] # <<>> => sh.history[i][Len(sh.history[i])] # 13)
    => HistoryLoad(disk) = sh.history
=============================================================================
