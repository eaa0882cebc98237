---------------------------- MODULE PersonalFiles ----------------------------
(***************************************************************************)
(* The small databases of a user: the todo list (todo_main.c), the contacts *)
(* (contacts_main.c) and the notes (note_main.c), text files that several   *)
(* terminals may work on at once, and the calendar page (calendar_main.c).  *)
(*                                                                          *)
(* A file is the sequence of its characters; the mark "- " before a todo is *)
(* one character.  One system call is one step: an append is atomic, but a  *)
(* removal reads the file in one step and writes it in another, and a note  *)
(* is appended in two.                                                      *)
(***************************************************************************)
EXTENDS Integers, Sequences, SequencesExt

CONSTANTS
    PfProcs,           \* running commands
    PfTexts,           \* texts to add to the todo list and the notes
    PfNames, PfMails,  \* names and addresses of contacts, without "|"
    DB_MAX,            \* size of the buffer a file is read into
    LINE_MAX,          \* size of a line buffer
    NUM_BUF,           \* size of num_buf in todo_remove_item
    BOOK_MAX,          \* contacts that are loaded
    PfMax, PfBookMax,  \* bounds: size of a list or note, of the contacts, still added to
    PfYears            \* years of the calendar

VARIABLES
    pfTodo, pfBook, pfNote,     \* the three files
    pfRun,                      \* per command: what is left of it to do
    pfPage                      \* the calendar page <<month, year>>, or <<the file worked on>>
pfVars == <<pfTodo, pfBook, pfNote, pfRun, pfPage>>

NL == "\n"
Cut(s, size) == SubSeq(s, 1, IF Len(s) < size THEN Len(s) ELSE size - 1)
PfIdle == [op |-> "idle"]

\* The lines of a text as the loops over it see them, the empty ones left out.
LinesOf(text) ==
    LET read(s, c) ==
            IF c # NL THEN [s EXCEPT !.line = Append(@, c)]
            ELSE IF s.line = <<>> THEN s
            ELSE [lines |-> Append(s.lines, Cut(s.line, LINE_MAX)), line |-> <<>>]
    IN  FoldLeft(read, [lines |-> <<>>, line |-> <<>>], Append(text, NL)).lines

\* *_read_all: the whole file, or failure when it does not fit the buffer.
Readable(text) == Len(text) + 1 <= DB_MAX
\* The repeated ush_copy to the end of the new text.
Gather(lines) == Cut(FoldLeft(LAMBDA text, line : text \o line, <<>>, lines), DB_MAX)

-----------------------------------------------------------------------------
(* The todo list.                                                          *)

TodoItems == LinesOf(pfTodo)
Without(items, n) == [i \in 1 .. Len(items) - 1 |-> IF i < n THEN items[i] ELSE items[i + 1]]

\* The items whose number is not the target.
KeptItems(items, n) == IF n \in 1 .. Len(items) THEN Without(items, n) ELSE items

\* Every kept item goes through num_buf with its newline.
Rewritten(items) == Gather([i \in 1 .. Len(items) |-> Cut(Append(items[i], NL), NUM_BUF)])

todo_add_item(p, text) ==
    /\ pfRun[p] = PfIdle /\ text # <<>> /\ Len(pfTodo) < PfMax
    /\ pfTodo' = pfTodo \o Cut(<<"- ">> \o text \o <<NL>>, LINE_MAX)
    /\ UNCHANGED <<pfBook, pfNote, pfRun, pfPage>>

\* todo_remove_item up to the write.
todo_remove_item(p, n) ==
    /\ pfRun[p] = PfIdle /\ n > 0 /\ Readable(pfTodo)
    /\ pfRun' = [pfRun EXCEPT ![p] = [op |-> "todo", seen |-> pfTodo, target |-> <<n>>, text |-> Rewritten(KeptItems(TodoItems, n))]]
    /\ UNCHANGED <<pfTodo, pfBook, pfNote, pfPage>>

-----------------------------------------------------------------------------
(* The contacts.                                                           *)

Entry(name, phone, email) == [name |-> name, phone |-> phone, email |-> email]
contacts_format_line(e) == Cut(e.name \o <<"|">> \o e.phone \o <<"|">> \o e.email \o <<NL>>, LINE_MAX)

\* Mutant: the email ends up with the bar before it.
ParseKeepsBar(line) ==
    LET bars == SetToSortSeq({i \in 1 .. Len(line) : line[i] = "|"}, <)
    IN  IF Len(bars) < 2 THEN <<>>
        ELSE <<Entry(SubSeq(line, 1, bars[1] - 1), SubSeq(line, bars[1] + 1, bars[2] - 1), SubSeq(line, bars[2], Len(line)))>>

\* At least a name and a second field; a third is the email, up to its bar.
contacts_parse_line(line) ==
    LET ends == SetToSortSeq({i \in 1 .. Len(line) : line[i] = "|"} \cup {Len(line) + 1}, <)
        start(k) == IF k = 1 THEN 1 ELSE ends[k - 1] + 1
        field(k) == SubSeq(line, start(k), ends[k] - 1)
        parts == {k \in 1 .. Len(ends) : k <= 3 /\ start(k) <= Len(line)}
    IN  IF 2 \notin parts \/ field(1) = <<>> THEN <<>>
        ELSE <<Entry(field(1), field(2), IF 3 \in parts THEN field(3) ELSE <<>>)>>

\* The entries of the file as far as the array holds them: contacts list shows no
\* others.
Capped(entries) == SubSeq(entries, 1, IF Len(entries) < BOOK_MAX THEN Len(entries) ELSE BOOK_MAX)
contacts_load_entries(text) ==
    Capped(FoldLeft(LAMBDA book, line : book \o contacts_parse_line(line), <<>>, LinesOf(text)))

contacts_append_entry(p, e) ==
    /\ pfRun[p] = PfIdle /\ Len(pfBook) < PfBookMax
    /\ pfBook' = pfBook \o contacts_format_line(e)
    /\ UNCHANGED <<pfTodo, pfNote, pfRun, pfPage>>

\* contacts set: the whole file becomes this entry.
ContactsSet(p, e) ==
    /\ pfRun[p] = PfIdle
    /\ pfBook' = contacts_format_line(e)
    /\ UNCHANGED <<pfTodo, pfNote, pfRun, pfPage>>

OthersOf(entries, name) == SelectSeq(entries, LAMBDA e : e.name # name)
\* contacts_remove_entry up to the write.
contacts_remove_entry(p, name) ==
    /\ pfRun[p] = PfIdle /\ Readable(pfBook)
    /\ LET kept == OthersOf(contacts_load_entries(pfBook), name)
       IN  pfRun' = [pfRun EXCEPT ![p] = [op |-> "book", seen |-> pfBook, target |-> name,
                                          text |-> Gather([i \in 1 .. Len(kept) |-> contacts_format_line(kept[i])])]]
    /\ UNCHANGED <<pfTodo, pfBook, pfNote, pfPage>>

-----------------------------------------------------------------------------
(* The notes.                                                              *)

\* note add: the text, and the newline it lacks in a second append; edit adds
\* the lines it reads the same way, after emptying the file.
NoteText(p, text) ==
    /\ pfRun[p] = PfIdle /\ Len(pfNote) < PfMax
    /\ pfNote' = pfNote \o text
    /\ pfRun' = [pfRun EXCEPT ![p] = IF text = <<>> \/ Last(text) # NL THEN [op |-> "newline"] ELSE PfIdle]
    /\ UNCHANGED <<pfTodo, pfBook, pfPage>>
NoteNewline(p) ==
    /\ pfRun[p].op = "newline"
    /\ pfNote' = Append(pfNote, NL)
    /\ pfRun' = [pfRun EXCEPT ![p] = PfIdle]
    /\ UNCHANGED <<pfTodo, pfBook, pfPage>>
NoteSet(p, text) ==
    /\ pfRun[p] = PfIdle
    /\ pfNote' = text
    /\ UNCHANGED <<pfTodo, pfBook, pfRun, pfPage>>

\* clear, of any of the three.
Clear(p, file) ==
    /\ pfRun[p] = PfIdle
    /\ pfTodo' = IF file = "todo" THEN <<>> ELSE pfTodo
    /\ pfBook' = IF file = "book" THEN <<>> ELSE pfBook
    /\ pfNote' = IF file = "note" THEN <<>> ELSE pfNote
    /\ UNCHANGED <<pfRun, pfPage>>

\* *_write_all of what a removal has put together; a write that fails may have
\* emptied the file.
StoreTodo(p, ok) ==
    /\ pfRun[p].op = "todo"
    /\ IF ok THEN pfTodo' = pfRun[p].text ELSE pfTodo' \in {pfTodo, <<>>}
    /\ pfRun' = [pfRun EXCEPT ![p] = PfIdle]
    /\ UNCHANGED <<pfBook, pfNote, pfPage>>
StoreBook(p, ok) ==
    /\ pfRun[p].op = "book"
    /\ IF ok THEN pfBook' = pfRun[p].text ELSE pfBook' \in {pfBook, <<>>}
    /\ pfRun' = [pfRun EXCEPT ![p] = PfIdle]
    /\ UNCHANGED <<pfTodo, pfNote, pfPage>>

-----------------------------------------------------------------------------
(* The calendar.                                                           *)

cal_is_leap_year(y) == y % 400 = 0 \/ (y % 100 # 0 /\ y % 4 = 0)
cal_days_in_month(y, m) ==
    IF m = 2 /\ cal_is_leap_year(y) THEN 29 ELSE <<31, 28, 31, 30, 31, 30, 31, 31, 30, 31, 30, 31>>[m]
\* Sunday is 0.
cal_weekday(year, m, day) ==
    LET y == IF m < 3 THEN year - 1 ELSE year
    IN  (y + y \div 4 - y \div 100 + y \div 400 + <<0, 3, 2, 5, 0, 3, 5, 1, 4, 6, 2, 4>>[m] + day) % 7
\* The rows of a page: a newline after Saturday, and one after the last day
\* unless that was a Saturday; 0 is a blank cell.
cal_print_month(m, y) ==
    LET start == cal_weekday(y, m, 1)
        days == cal_days_in_month(y, m)
        cells == [i \in 1 .. start + days |-> IF i <= start THEN 0 ELSE i - start]
        breaks == {start + d : d \in {k \in 1 .. days : (start + k - 1) % 7 = 6}}
        ends == SetToSortSeq(breaks \cup (IF (start + days - 1) % 7 # 6 THEN {start + days} ELSE {}), <)
    IN  [r \in 1 .. Len(ends) |-> SubSeq(cells, IF r = 1 THEN 1 ELSE ends[r - 1] + 1, ends[r])]

-----------------------------------------------------------------------------
PfInit ==
    /\ pfTodo = <<>> /\ pfBook = <<>> /\ pfNote = <<>>
    /\ pfRun = [p \in PfProcs |-> PfIdle]
    /\ pfPage \in {<<"todo">>, <<"book">>, <<"note">>} \cup ((1 .. 12) \X PfYears)

\* The files have nothing to do with each other: a behaviour is about one.
TodoStep(p) ==
    \/ \E t \in PfTexts : todo_add_item(p, t)
    \/ \E n \in 1 .. 3 : todo_remove_item(p, n)
    \/ \E ok \in BOOLEAN : StoreTodo(p, ok)
BookStep(p) ==
    \/ \E name \in PfNames, mail \in PfMails :
          contacts_append_entry(p, Entry(name, <<"1">>, mail)) \/ ContactsSet(p, Entry(name, <<"1">>, mail))
    \/ \E name \in PfNames : contacts_remove_entry(p, name)
    \/ \E ok \in BOOLEAN : StoreBook(p, ok)
NoteStep(p) == NoteNewline(p) \/ \E t \in PfTexts : NoteText(p, t) \/ NoteSet(p, t)
PfNext ==
    \E p \in PfProcs :
        \/ pfPage = <<"todo">> /\ TodoStep(p)
        \/ pfPage = <<"book">> /\ BookStep(p)
        \/ pfPage = <<"note">> /\ NoteStep(p)
        \/ Len(pfPage) = 1 /\ Clear(p, pfPage[1])
PfSpec == PfInit /\ [][PfNext]_pfVars

-----------------------------------------------------------------------------
\* A removal leaves the file it read without the item of that number, or the
\* entries of that name, and every other item as it was, provided the items fit
\* num_buf.  That is so whatever other commands did between its read and its
\* write: what it loses is what they added meanwhile, or the contacts past the
\* array, and what they took away comes back.
RemovalTakesOne ==
    [][\A p \in PfProcs :
          LET run == pfRun[p]
              stored == pfRun'[p] = PfIdle /\ run # PfIdle
              items == LinesOf(run.seen)
              left == LinesOf(pfTodo')
          IN  /\ stored /\ run.op = "todo" /\ pfTodo' = run.text
                 /\ (\A i \in 1 .. Len(items) : Len(items[i]) + 1 < NUM_BUF) =>
                        \/ run.target[1] > Len(items) /\ left = items
                        \/ /\ Len(left) = Len(items) - 1
                           /\ \A i \in 1 .. Len(items) : i # run.target[1] =>
                                  items[i] = left[IF i < run.target[1] THEN i ELSE i - 1]
              /\ stored /\ run.op = "book" /\ pfBook' = run.text =>
                    contacts_load_entries(pfBook') = OthersOf(contacts_load_entries(run.seen), run.target)]_pfVars

\* A contact that is added is listed last, under its name with its phone and
\* email, when the array has room for it; with the array full it is in the file
\* and not in the list, and the list is as it was.
AddedIsFound ==
    [][pfRun' = pfRun /\ Len(pfBook') > Len(pfBook) /\ SubSeq(pfBook', 1, Len(pfBook)) = pfBook =>
          \E name \in PfNames, mail \in PfMails :
              contacts_load_entries(pfBook') =
                  Capped(Append(contacts_load_entries(pfBook), Entry(name, <<"1">>, mail)))]_pfVars

\* A page's days stand in the columns of their weekdays, each once, in at most
\* six rows of seven, and the next month begins where this one ends.
PageIsRight ==
    Len(pfPage) = 2 =>
        LET m == pfPage[1]
            y == pfPage[2]
            rows == cal_print_month(m, y)
        IN  /\ Len(rows) \in 4 .. 6
            /\ FlattenSeq([r \in 1 .. Len(rows) |-> SelectSeq(rows[r], LAMBDA d : d # 0)]) = [d \in 1 .. cal_days_in_month(y, m) |-> d]
            /\ \A r \in 1 .. Len(rows) : Len(rows[r]) <= 7 /\ (r < Len(rows) => Len(rows[r]) = 7)
            /\ \A r \in 1 .. Len(rows) : \A c \in 1 .. Len(rows[r]) :
                   rows[r][c] # 0 => cal_weekday(y, m, rows[r][c]) = c - 1
            /\ cal_weekday(IF m = 12 THEN y + 1 ELSE y, IF m = 12 THEN 1 ELSE m + 1, 1)
                   = (cal_weekday(y, m, 1) + cal_days_in_month(y, m)) % 7

=============================================================================
