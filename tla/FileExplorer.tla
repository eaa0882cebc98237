---------------------------- MODULE FileExplorer ----------------------------
(***************************************************************************)
(* The file explorer (apps/file_explorer_main.c): a listing of one folder   *)
(* with a selected row, a scroll position and a preview.  The folders may   *)
(* change between the calls that read them: a child may be gone when its    *)
(* name or its type is asked for.  Names are numbers in their order.  The   *)
(* picture is left out: fx_loop draws once after up to 96 events, so a click *)
(* may be made on an older one, and every row is open to it here.           *)
(***************************************************************************)
EXTENDS Integers, Sequences, SequencesExt

CONSTANTS
    Folders,         \* [folder -> the sequence of its children]
    TypeOf,          \* [child -> "dir", "file" or "elf"]
    Name,            \* [child -> its place in the order of names]
    ParentOf,        \* [folder -> its parent]
    QuickPaths,      \* folders of the buttons and the sidebar
    FX_ENTRY_MAX,
    FullRows,        \* rows the window shows
    PreviewRows      \* rows it shows above an open preview

FxRoot == "/"
NoRow == -1
NoEntry == [type |-> "none"]

\* The folders, the names of their children and the buttons fit together; a
\* child that is a folder can be read as one.
FxFolders ==
    /\ FxRoot \in DOMAIN Folders /\ QuickPaths \subseteq DOMAIN Folders
    /\ \A path \in DOMAIN Folders :
         Folders[path] \in Seq(DOMAIN Name) /\ ParentOf[path] \in DOMAIN Folders
    /\ \A c \in DOMAIN Name : Name[c] \in Int /\ (TypeOf[c] = "dir" => c \in DOMAIN Folders)
    /\ FX_ENTRY_MAX \in Nat /\ FullRows \in Int /\ PreviewRows \in Int /\ PreviewRows <= FullRows

ASSUME FxAssumption == FxFolders

VARIABLE fx    \* fx_app

\* fx_visible_rows.
VisibleRows(a) ==
    LET rows == IF a.preview THEN PreviewRows ELSE FullRows
    IN  IF rows < 1 THEN 1 ELSE rows

EntryCount(a) == Len(a.entries)
Entry(a, row) == a.entries[row + 1]

\* fx_sort_entries: an insertion sort, whose order leaves entries of unknown
\* type where they are.  Its outer loop takes the entries in the order
\* fx_load_dir has read them, so each is inserted here as it is read.
MovesBehind(prev, key) ==
    \/ prev.type # "dir" /\ key.type = "dir"
    \/ prev.type = key.type /\ Name[prev.child] > Name[key.child]

\* The key goes behind the last of the entries it may stay behind.
InsertBehind(sorted, stay, key) ==
    LET at == IF stay = {} THEN 0 ELSE CHOOSE i \in stay : \A j \in stay : i >= j
    IN  SubSeq(sorted, 1, at) \o <<key>> \o SubSeq(sorted, at + 1, Len(sorted))

\* Mutant: an entry is not moved past one of its own type.
InsertEntryByType(sorted, key) ==
    InsertBehind(sorted, {i \in 1..Len(sorted) : ~(key.type = "dir" /\ sorted[i].type # "dir")}, key)

InsertEntry(sorted, key) ==
    InsertBehind(sorted, {i \in 1..Len(sorted) : ~MovesBehind(sorted[i], key)}, key)

\* The children of a folder, in the order the kernel counts them, as far as
\* there is room: those of skip have no name, and those of unknown no type, when
\* they are asked for.
EntryOf(c, unknown) ==
    [child |-> c,
     type |-> IF c \in unknown THEN "unknown" ELSE IF TypeOf[c] = "dir" THEN "dir" ELSE "file"]

Entered(listing, c, skip, unknown) ==
    IF c \in skip THEN listing ELSE InsertEntry(listing, EntryOf(c, unknown))

ReadCount(path) == IF Len(Folders[path]) > FX_ENTRY_MAX THEN FX_ENTRY_MAX ELSE Len(Folders[path])

Listing(path, skip, unknown) ==
    LET read[n \in 0..ReadCount(path)] ==
          IF n = 0 THEN <<>> ELSE Entered(read[n - 1], Folders[path][n], skip, unknown)
    IN  read[ReadCount(path)]

\* Mutant: the selection of the folder before is kept.
LoadDirKeepsSelection(a, path, skip, unknown) ==
    LET entries == Listing(path, skip, unknown)
    IN  [a EXCEPT !.cwd = path, !.entries = entries, !.preview = FALSE, !.clicked = NoEntry,
                  !.selected = IF @ = NoRow /\ entries # <<>> THEN 0 ELSE @]

\* fx_load_dir.  A click on an entry of the listing before is one on none of
\* this one's, but last_click_index stays.
LoadDir(a, path, skip, unknown) ==
    LET entries == Listing(path, skip, unknown)
    IN  [a EXCEPT !.cwd = path, !.entries = entries, !.scroll = 0, !.preview = FALSE,
                  !.clicked = NoEntry, !.selected = IF entries = <<>> THEN NoRow ELSE 0]

\* A folder that is no longer one leaves the listing as it is.
Navigate(a, path, there, skip, unknown) ==
    IF there THEN LoadDir(a, path, skip, unknown) ELSE a

\* fx_ensure_selected_visible.
EnsureSelectedVisible(a) ==
    LET up == IF a.selected < a.scroll THEN a.selected ELSE a.scroll
        down == IF a.selected >= up + VisibleRows(a) THEN a.selected - VisibleRows(a) + 1 ELSE up
    IN  IF a.selected < 0 THEN a ELSE [a EXCEPT !.scroll = IF down < 0 THEN 0 ELSE down]

\* fx_select_delta.
SelectDelta(a, delta) ==
    LET last == EntryCount(a) - 1
        to == IF a.selected < 0 THEN 0 ELSE
              IF a.selected + delta < 0 THEN 0 ELSE
              IF a.selected + delta > last THEN last ELSE a.selected + delta
    IN  IF a.entries = <<>> THEN a ELSE EnsureSelectedVisible([a EXCEPT !.selected = to])

\* fx_open_selected: a folder is entered, a program started, a file shown.
OpenSelected(a, there, skip, unknown, reads) ==
    LET e == Entry(a, a.selected) IN
    IF a.selected \notin 0..(EntryCount(a) - 1) \/ e.type = "unknown" THEN a
    ELSE IF e.type = "dir" THEN Navigate(a, e.child, there, skip, unknown)
    ELSE [a EXCEPT !.preview = TypeOf[e.child] # "elf" /\ reads]

\* fx_row_at: the rows a click can reach.
RowsAt(a) == {a.scroll + i : i \in 0..(VisibleRows(a) - 1)} \cap 0..(EntryCount(a) - 1)

\* fx_app, with the entry of the last click on a row of this listing, and the
\* one that a click has just opened.
FxStart == [run |-> TRUE, cwd |-> FxRoot, entries |-> <<>>, selected |-> NoRow, scroll |-> 0,
            preview |-> FALSE, last |-> NoRow, clicked |-> NoEntry, opened |-> NoEntry]

\* cleonos_app_main: the listing of the start path, then the window.
FxInit == \E path \in DOMAIN Folders : fx = LoadDir(FxStart, path, {}, {})

\* The handler of an event leaves fx_app as a.
Handle(a) == fx.run /\ fx' = a
FxWaiting == [fx EXCEPT !.opened = NoEntry]

FxMove == \E delta \in {-1, 1} : Handle(SelectDelta(FxWaiting, delta))

\* Which of a folder's children have gone when it is read, in what way.
Losses(path) ==
    {l \in [skip : SUBSET Range(Folders[path]), unknown : SUBSET Range(Folders[path])] :
        l.skip \cap l.unknown = {}}
Target(a) ==
    IF a.selected >= 0 /\ Entry(a, a.selected).type = "dir" THEN Entry(a, a.selected).child ELSE FxRoot

FxOpen ==
    \E l \in Losses(Target(fx)), there \in BOOLEAN, reads \in BOOLEAN :
      Handle(OpenSelected(FxWaiting, there, l.skip, l.unknown, reads))

\* Backspace, r, h, the buttons and the sidebar.
FxGo ==
    \E path \in {ParentOf[fx.cwd], fx.cwd, FxRoot} \cup QuickPaths, there \in BOOLEAN :
    \E l \in Losses(path) : Handle(Navigate(FxWaiting, path, there, l.skip, l.unknown))

\* A click on a row; the second one on it, if it comes soon, opens it.
FxClickRow ==
    \E row \in RowsAt(fx), soon \in BOOLEAN, there \in BOOLEAN, reads \in BOOLEAN :
    \E l \in Losses(IF Entry(fx, row).type = "dir" THEN Entry(fx, row).child ELSE FxRoot) :
      LET e == Entry(fx, row)
          click == [FxWaiting EXCEPT !.last = row, !.clicked = e]
      IN  IF row = fx.selected /\ row = fx.last /\ soon
          THEN Handle(OpenSelected([click EXCEPT !.opened = e], there, l.skip, l.unknown, reads))
          ELSE Handle([EnsureSelectedVisible([click EXCEPT !.selected = row])
                         EXCEPT !.preview = FALSE])

FxQuit == Handle([FxWaiting EXCEPT !.run = FALSE])

FxNext == FxMove \/ FxOpen \/ FxGo \/ FxClickRow \/ FxQuit

FxSpec == FxInit /\ [][FxNext]_fx

-----------------------------------------------------------------------------

\* However the folders change while they are read, the listing has its folders
\* first and in order; when the type of every child could be read, the files
\* are in order too.  fx_sort_entries stops at an entry of unknown type, so
\* more than that does not hold.
ListingInOrder ==
    \A i, j \in 1..EntryCount(fx) : i < j =>
      LET e == fx.entries[i]
          f == fx.entries[j]
          known == \A k \in 1..EntryCount(fx) : fx.entries[k].type # "unknown"
      IN  /\ f.type = "dir" => e.type = "dir" /\ Name[e.child] <= Name[f.child]
          /\ known /\ e.type = f.type => Name[e.child] <= Name[f.child]

\* Through any sequence of moves, clicks and changes of folder the selection
\* names an entry of the listing: what Enter opens is a row of this folder, not
\* of an earlier one.  The row is within the window; only a preview that was
\* opened over it may hide it, until the next move.
SelectionInListing ==
    /\ fx.selected = NoRow \/ fx.selected \in 0..(EntryCount(fx) - 1)
    /\ fx.selected = NoRow => fx.entries = <<>>
    /\ fx.selected # NoRow =>
         /\ fx.scroll \in 0..fx.selected
         /\ fx.selected < fx.scroll + VisibleRows([fx EXCEPT !.preview = FALSE])

\* A click opens only the entry that the click before was on, whatever keys and
\* other clicks came between the two.  The exception is a folder that was read
\* in between (r, a button, the sidebar, or the double click that entered it):
\* fx_load_dir leaves last_click_index, and a click that comes soon then opens
\* the entry that the new listing has in the row.
ClickOpensTheClicked ==
    LET e == fx'.opened
    IN  e # NoEntry => /\ fx.last \in 0..(EntryCount(fx) - 1) /\ e = Entry(fx, fx.last)
                       /\ fx.clicked \in {e, NoEntry}

\* fx_load_dir, fx_ensure_selected_visible and fx_handle_mouse_button: the
\* listing is in order, the selection is a row of it in the window, and what a
\* click opens is what the click before was on.
ExplorerSound ==
    /\ [](ListingInOrder /\ SelectionInListing)
    /\ [][ClickOpensTheClicked]_fx

=============================================================================
