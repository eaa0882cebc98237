------------------------------- MODULE PkgGui -------------------------------
(***************************************************************************)
(* The package manager's window (apps/pkg_gui_main.c): a list of packages   *)
(* from the repository, each marked when the package database has it.  The  *)
(* package client (the pkg submodule) is external: a fetch may fail or bring *)
(* any list, an install may change the database and still fail.  Others      *)
(* change the database too: pkg in a terminal does.  The picture is kept as  *)
(* far as the present call took it.                                          *)
(***************************************************************************)
EXTENDS Integers, Sequences

CONSTANTS
    Packages,           \* names the repository knows
    PG_MAX_PACKAGES,
    PG_QUERY_MAX,
    WindowRows,         \* pg_visible_rows of the window
    MaximizedRows       \* pg_visible_rows of the maximized window

\* Sizes are numbers.
PgSizes ==
    /\ PG_MAX_PACKAGES \in Nat
    /\ WindowRows \in Int /\ MaximizedRows \in Int

ASSUME PgAssumption == PgSizes

VARIABLES
    db,     \* external: the packages in the package database
    pg      \* pg_app

pgVars == <<db, pg>>

PgRows(a) == IF a.maximized THEN MaximizedRows ELSE WindowRows
PackageCount(a) == Len(a.list)
PgClampi(v, low, high) == IF high < low \/ v < low THEN low ELSE IF v > high THEN high ELSE v

\* pg_clamp_selection.
PgClampSelection(a) ==
    LET sel == IF a.selected \in 0..(PackageCount(a) - 1) THEN a.selected ELSE 0
        max == IF PackageCount(a) > PgRows(a) THEN PackageCount(a) - PgRows(a) ELSE 0
        low == PgClampi(a.scroll, 0, max)
        up == IF sel < low THEN sel ELSE low
        down == IF sel >= up + PgRows(a) THEN sel - PgRows(a) + 1 ELSE up
    IN  IF a.list = <<>> THEN [a EXCEPT !.selected = -1, !.scroll = 0]
        ELSE [a EXCEPT !.selected = sel, !.scroll = IF PgRows(a) <= 0 THEN 0 ELSE down]

\* pg_draw_rows: the rows of the window, their marks and the selected one.
PgDrawn(a) ==
    {[package |-> a.list[i], installed |-> a.list[i] \in a.installed, selected |-> a.selected = i - 1] :
        i \in {j \in 1..PackageCount(a) : j - 1 \in a.scroll..(a.scroll + PgRows(a) - 1)}}

\* pg_render_present does not look at the result of the present call: after one
\* that failed the window shows an older picture, which is not kept here.
PgRenderPresent(a, ok) ==
    [a EXCEPT !.shown = IF ok THEN PgDrawn(a) ELSE {}, !.presented = ok]

\* pg_refresh_installed, with the database d: the marks of the whole list; none
\* when the database cannot be read or is empty.
RefreshInstalled(a, d, reads) ==
    [a EXCEPT !.installed = IF reads THEN {a.list[i] : i \in 1..PackageCount(a)} \cap d ELSE {},
              !.fresh = reads]

\* pg_fetch_packages: no answer leaves the list and its marks, a bad one empties
\* it.
FetchAnswers == {"none", "invalid", "packages"}
Fetched(a, answer, packages, reads) ==
    LET list == SubSeq(packages, 1, IF Len(packages) > PG_MAX_PACKAGES THEN PG_MAX_PACKAGES ELSE Len(packages))
    IN  CASE answer = "none" -> a
          [] answer = "invalid" -> [a EXCEPT !.list = <<>>, !.installed = {}, !.selected = -1, !.scroll = 0]
          [] OTHER -> PgClampSelection(RefreshInstalled(
                        [a EXCEPT !.list = list, !.scroll = 0,
                                  !.selected = IF list = <<>> THEN -1 ELSE 0], db, reads))

\* pg_select_delta.
PgSelectDelta(a, delta) ==
    IF a.list = <<>> THEN a
    ELSE PgClampSelection([a EXCEPT !.selected =
            IF @ < 0 THEN 0 ELSE PgClampi(@ + delta, 0, PackageCount(a) - 1)])

SelectedValid(a) == a.selected \in 0..(PackageCount(a) - 1)
Selected(a) == a.list[a.selected + 1]

\* pg_app, with its picture, whether that was presented, and whether the database
\* is as it was when the marks were read.
PgStart == [run |-> TRUE, search |-> FALSE, query |-> 0, list |-> <<>>, installed |-> {},
            selected |-> -1, scroll |-> 0, maximized |-> FALSE, shown |-> {},
            presented |-> TRUE, fresh |-> TRUE]

PgInit == db \in SUBSET Packages /\ pg = PgStart

\* The lists a repository may send, one longer than the window takes.
Answerable == UNION {[1..n -> Packages] : n \in 0..(PG_MAX_PACKAGES + 1)}

\* The handler draws a in the end, and the present call may fail.
PgShows(a) == \E ok \in BOOLEAN : pg' = PgRenderPresent(a, ok)

\* r, the buttons, and Enter in the search field.
PgFetch ==
    /\ pg.run
    /\ \E answer \in FetchAnswers, packages \in Answerable, reload \in BOOLEAN, reads \in BOOLEAN :
         PgShows(Fetched([pg EXCEPT !.search = FALSE, !.query = IF reload THEN 0 ELSE @],
                         answer, packages, reads))
    /\ UNCHANGED db

\* pg_handle_key in the search field, all but Enter.
PgTypeQuery ==
    /\ pg.run /\ pg.search
    /\ \E a \in {[pg EXCEPT !.search = FALSE],
               [pg EXCEPT !.query = IF @ > 0 THEN @ - 1 ELSE 0],
               [pg EXCEPT !.query = IF @ + 1 < PG_QUERY_MAX THEN @ + 1 ELSE @]} : PgShows(a)
    /\ UNCHANGED db

PgStartSearch == pg.run /\ PgShows([pg EXCEPT !.search = TRUE]) /\ UNCHANGED db

\* pg_loop at a change of focus, and the minimize button.
PgRedraw == pg.run /\ PgShows(pg) /\ UNCHANGED db

PgMove ==
    /\ pg.run /\ ~pg.search
    /\ \E d \in {-1, 1, -PgRows(pg), PgRows(pg)} : PgShows(PgSelectDelta(pg, d))
    /\ UNCHANGED db

\* pg_row_at and the end of pg_handle_mouse_button.
PgClickRow ==
    /\ pg.run
    /\ \E row \in 0..(PackageCount(pg) - 1) :
         /\ row \in pg.scroll..(pg.scroll + PgRows(pg))
         /\ PgShows(PgClampSelection([pg EXCEPT !.selected = row, !.search = FALSE]))
    /\ UNCHANGED db

\* pg_toggle_maximize: without memory for the pixels nothing changes, and
\* nothing is drawn.
PgToggleMaximize ==
    /\ pg.run /\ UNCHANGED db
    /\ \/ PgShows(PgClampSelection([pg EXCEPT !.maximized = ~@]))
       \/ UNCHANGED pg

\* Mutant: the marks are read again only after a success.
AfterClientIfOk(a, d, ok, reads) == IF ok THEN RefreshInstalled(a, d, reads) ELSE a

\* The end of pg_install_selected and of pg_remove_selected.
AfterClient(a, d, ok, reads) == RefreshInstalled(a, d, reads)

\* pg_install_selected: the client also installs what the package needs, and
\* may fail when it has done a part.  With no selection only the status changes.
PgInstall ==
    /\ pg.run /\ SelectedValid(pg)
    /\ \E added \in SUBSET Packages, ok \in BOOLEAN, reads \in BOOLEAN :
         /\ ok => Selected(pg) \in added \cup db
         /\ db' = db \cup added
         /\ PgShows(AfterClient(pg, db', ok, reads))

\* pg_remove_selected, on a package the window takes for installed.
PgRemove ==
    /\ pg.run /\ SelectedValid(pg) /\ Selected(pg) \in pg.installed
    /\ \E ok \in BOOLEAN, reads \in BOOLEAN :
         /\ db' = IF ok THEN db \ {Selected(pg)} ELSE db
         /\ PgShows(AfterClient(pg, db', ok, reads))

\* External: another program changes the database behind the window.
PgOthers ==
    /\ db' \in SUBSET Packages \ {db}
    /\ pg' = [pg EXCEPT !.fresh = FALSE]

PgQuit == pg.run /\ pg' = [pg EXCEPT !.run = FALSE] /\ UNCHANGED db

PgNext ==
    \/ PgFetch \/ PgTypeQuery \/ PgStartSearch \/ PgRedraw \/ PgMove \/ PgClickRow
    \/ PgToggleMaximize \/ PgInstall \/ PgRemove \/ PgOthers \/ PgQuit

PgSpec == PgInit /\ [][PgNext]_pgVars

-----------------------------------------------------------------------------

\* The selected row is a package of the list and within the window, through any
\* fetches, clicks and changes of size; a picture that was presented shows the
\* rows as they are; and the marks are those of the database, also after an
\* install that failed half way and a fetch that failed, until another program
\* changes the database or a read of it fails.
PackagesShown ==
    pg.run =>
      /\ pg.presented => pg.shown = PgDrawn(pg)
      /\ pg.fresh => \A row \in PgDrawn(pg) : row.installed = (row.package \in db)
      /\ pg.list # <<>> => SelectedValid(pg) /\ (PgRows(pg) > 0 => \E row \in PgDrawn(pg) : row.selected)

=============================================================================
