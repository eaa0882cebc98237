---------------------------- MODULE BrowserPage -----------------------------
(***************************************************************************)
(* How the browser turns a document into text (apps/browser: browser_dom,   *)
(* browser_css, browser_text, browser_output): styles and style sheets, the *)
(* white space of the text, numbered links and form fields, tables, and     *)
(* the lines it is printed in.  The tree comes from the gumbo parser, which *)
(* is external.                                                            *)
(*                                                                         *)
(* A node is [tag, text, cls, inline, name, kids]; "#text" is a text node.  *)
(* One tag stands for all that are treated alike: "div" for the block tags, *)
(* with "dd" apart for the blanks it begins with,                          *)
(* "b" and "a" for those with a style of their own, "script" for those      *)
(* that are skipped, "img" for the replaced ones, "q" for those with a      *)
(* prefix and a suffix.  A style is a set of its attributes.                *)
(***************************************************************************)
EXTENDS Integers, Sequences, FiniteSets, SequencesExt

CONSTANTS
    BpDocs,          \* documents
    BpSheets,        \* style sheets: sequences of [sels, delta]
    TEXT_CAP,        \* USH_BROWSER_TEXT_BUF_CAP
    LINK_MAX,        \* USH_BROWSER_LINK_MAX
    FORM_MAX,        \* USH_BROWSER_FORM_MAX
    FIELD_MAX,       \* USH_BROWSER_FORM_FIELD_MAX
    RULE_MAX,        \* USH_BROWSER_CSS_RULE_MAX
    TABLE_COLS,      \* USH_BROWSER_TABLE_MAX_COLS
    CELL_MIN, CELL_MAX,  \* USH_BROWSER_TABLE_CELL_MIN_WIDTH and _MAX_WIDTH
    OUTPUT_COLS      \* USH_BROWSER_OUTPUT_COLS

VARIABLES
    bpDoc, bpSheet,  \* the document and its style sheet
    bp,              \* the rendering: buf, space, links, forms, fields
    bpLines          \* the lines printed
bpVars == <<bpDoc, bpSheet, bp, bpLines>>

-----------------------------------------------------------------------------
(* The text buffer (browser_text.c).  An entry is a character with the      *)
(* style it ought to have, a style that is switched to, or a form field.    *)

Entry(k, v, s) == [k |-> k, v |-> v, s |-> s]
IsChar(e, c) == e.k = "char" /\ e.v = c

Full(r) == Len(r.buf) + 1 >= TEXT_CAP
Put(r, e) == [r EXCEPT !.buf = Append(@, e)]

\* Mutant: white space is only joined when it is a blank.
AppendCharBlanks(r, c, s) ==
    IF Full(r) \/ (c = " " /\ r.space) THEN r
    ELSE [Put(r, Entry("char", IF c \in {"\n", "\t"} THEN " " ELSE c, s)) EXCEPT !.space = c \in {" "}]

ush_browser_text_append_char(r, c, s) ==
    LET ch == IF c \in {"\n", "\t"} THEN " " ELSE c
    IN  IF Full(r) \/ (ch = " " /\ r.space) THEN r
        ELSE [Put(r, Entry("char", ch, s)) EXCEPT !.space = ch = " "]

ush_browser_text_append_raw_char(r, c, s) ==
    IF Full(r) THEN r ELSE [Put(r, Entry("char", c, s)) EXCEPT !.space = c \in {" ", "\n", "\t"}]

RECURSIVE ush_browser_text_trim_trailing_spaces(_)
ush_browser_text_trim_trailing_spaces(r) ==
    IF r.buf # <<>> /\ IsChar(Last(r.buf), " ") THEN ush_browser_text_trim_trailing_spaces([r EXCEPT !.buf = Front(@)]) ELSE r

\* At most one empty line, and none at the beginning.
ush_browser_text_newline(r) ==
    LET t == ush_browser_text_trim_trailing_spaces(r) n == Len(t.buf)
    IN  IF n = 0 \/ Full(t) \/ (n >= 2 /\ IsChar(t.buf[n], "\n") /\ IsChar(t.buf[n - 1], "\n")) THEN t
        ELSE [Put(t, Entry("char", "\n", {})) EXCEPT !.space = TRUE]

\* As it is, and whether a blank was last is not noted.
ush_browser_text_append_raw(r, e) == IF Full(r) THEN r ELSE Put(r, e)

\* The escape sequence does not count as text.
ush_browser_text_emit_style(r, style) == ush_browser_text_append_raw(r, Entry("style", "", style))

ush_browser_text_horizontal_rule(r) ==
    ush_browser_text_newline(ush_browser_text_append_raw(ush_browser_text_newline(r), Entry("char", "-", {})))

\* text-transform is left out: it changes letters only.
ush_browser_append_text_styled(r, text, style) ==
    FoldLeft(LAMBDA q, c : IF "pre" \in style THEN ush_browser_text_append_raw_char(q, c, style)
                           ELSE ush_browser_text_append_char(q, c, style), r, text)

\* A word the renderer adds itself; it is not in the document.
Label(r, c) == ush_browser_text_append_char(r, c, {"any"})

-----------------------------------------------------------------------------
(* Styles (browser_css.c).                                                 *)

ush_browser_style_apply_delta(style, delta) == (style \ delta.clear) \cup delta.set

ush_browser_apply_tag_style(tag, style) ==
    CASE tag = "a" -> style \cup {"under"} [] tag = "b" -> style \cup {"bold"} [] tag = "pre" -> style \cup {"pre"}
      [] OTHER -> style

\* Only the last compound of a selector counts: what it stands in is ignored.
\* A compound is a tag, a class, or neither.
ush_browser_css_parse_selector_list(rule) == [i \in DOMAIN rule.sels |-> [on |-> Last(rule.sels[i]), delta |-> rule.delta]]

ush_browser_css_parse_stylesheet(sheet) ==
    LET all == FoldLeft(LAMBDA acc, rule : acc \o ush_browser_css_parse_selector_list(rule), <<>>, sheet)
    IN  IF Len(all) > RULE_MAX THEN SubSeq(all, 1, RULE_MAX) ELSE all

ush_browser_css_rule_matches_node(rule, node) ==
    (rule.on.tag # "" => rule.on.tag = node.tag) /\ (rule.on.cls # "" => rule.on.cls = node.cls)

\* In the order of the sheet, whatever the selector.
ush_browser_css_apply_rules_for_node(rules, node, style) ==
    FoldLeft(LAMBDA s, rule : IF ush_browser_css_rule_matches_node(rule, node)
                              THEN ush_browser_style_apply_delta(s, rule.delta) ELSE s, style, rules)

StyleOf(node, parent, rules) ==
    ush_browser_style_apply_delta(
        ush_browser_css_apply_rules_for_node(rules, node, ush_browser_apply_tag_style(node.tag, parent)), node.inline)

-----------------------------------------------------------------------------
(* Text of an element, links, forms.                                       *)

RECURSIVE ush_browser_collect_plain_text(_, _)
ush_browser_collect_plain_text(node, out) ==
    IF node.tag = "#text"
    THEN FoldLeft(LAMBDA o, c : IF c \in {" ", "\n", "\t"}
                                THEN IF o # <<>> /\ Last(o) # " " THEN Append(o, " ") ELSE o
                                ELSE Append(o, c), out, node.text)
    ELSE FoldLeft(LAMBDA o, k : ush_browser_collect_plain_text(k, o), out, node.kids)

Trimmed(text) ==
    LET keep == {i \in DOMAIN text : text[i] # " "}
    IN  IF keep = {} THEN <<>>
        ELSE SubSeq(text, CHOOSE i \in keep : \A j \in keep : i <= j, CHOOSE i \in keep : \A j \in keep : j <= i)

\* Before its style is known: a link that is not displayed has a number too.
ush_browser_collect_anchor_link(r, node) ==
    IF node.tag # "a" \/ node.name = "" \/ Len(r.links) >= LINK_MAX THEN r ELSE [r EXCEPT !.links = Append(@, node.name)]

\* Mutant: the number of a field counts within its form.
AddFieldInForm(r, form, name) ==
    IF form = 0 \/ name = "" \/ Len(r.fields) >= FIELD_MAX THEN [r |-> r, n |-> 0]
    ELSE [r |-> [r EXCEPT !.fields = Append(@, [form |-> form, name |-> name])],
          n |-> Cardinality({i \in DOMAIN r.fields : r.fields[i].form = form}) + 1]

\* A field gets a number only within a form, and while there is room.
ush_browser_add_form_field(r, form, name) ==
    IF form = 0 \/ name = "" \/ Len(r.fields) >= FIELD_MAX THEN [r |-> r, n |-> 0]
    ELSE [r |-> [r EXCEPT !.fields = Append(@, [form |-> form, name |-> name])], n |-> Len(r.fields) + 1]

ush_browser_render_input_tag(r, node, form) ==
    LET a == ush_browser_add_form_field(r, form, node.name)
    IN  IF Full(a.r) THEN a.r
        ELSE [Put(a.r, Entry("field", [n |-> a.n, name |-> node.name, form |-> form], {"any"})) EXCEPT !.space = FALSE]

\* A text area shows its number the same way; its text is its value.
ush_browser_render_textarea_tag(r, node, form) == ush_browser_render_input_tag(r, node, form)

\* 0 when there are too many: the fields then belong to no form.
ush_browser_begin_form(r, node) ==
    IF Len(r.forms) >= FORM_MAX THEN [r |-> r, n |-> 0]
    ELSE [r |-> [r EXCEPT !.forms = Append(@, node.name)], n |-> Len(r.forms) + 1]

-----------------------------------------------------------------------------
(* Tables: the text of the cells, in columns; the caption and the border    *)
(* under a row of headings are left out.                                   *)

RECURSIVE ush_browser_table_collect_walk(_)
ush_browser_table_collect_walk(node) ==
    IF node.tag = "#text" THEN <<>>
    ELSE IF node.tag = "tr"
    THEN LET cells == SelectSeq(node.kids, LAMBDA k : k.tag = "td")
             row == [i \in 1 .. (IF Len(cells) > TABLE_COLS THEN TABLE_COLS ELSE Len(cells)) |->
                        Trimmed(ush_browser_collect_plain_text(cells[i], <<>>))]
         IN  IF row = <<>> THEN <<>> ELSE <<row>>
    ELSE FoldLeft(LAMBDA acc, k : acc \o ush_browser_table_collect_walk(k), <<>>, node.kids)

Cols(rows) == LET lens == {Len(rows[i]) : i \in DOMAIN rows} IN CHOOSE n \in lens : \A m \in lens : m <= n
CellLens(rows, col) == {CELL_MIN} \cup {Len(rows[i][col]) : i \in {i \in DOMAIN rows : col <= Len(rows[i])}}
Total(widths) == FoldLeft(LAMBDA n, w : n + w + 3, 1, widths)

\* One round of shrinking: each column that can by one, while the row is too long.
ShrinkRound(widths) ==
    FoldLeft(LAMBDA ws, col : IF Total(ws) > OUTPUT_COLS /\ ws[col] > CELL_MIN THEN [ws EXCEPT ![col] = @ - 1] ELSE ws,
             widths, [i \in DOMAIN widths |-> i])
RECURSIVE Shrunk(_)
Shrunk(widths) ==
    IF Total(widths) <= OUTPUT_COLS \/ ShrinkRound(widths) = widths THEN widths ELSE Shrunk(ShrinkRound(widths))

ush_browser_table_compute_widths(rows) ==
    Shrunk([col \in 1 .. Cols(rows) |->
              LET m == CHOOSE n \in CellLens(rows, col) : \A k \in CellLens(rows, col) : k <= n
              IN  IF m > CELL_MAX THEN CELL_MAX ELSE m])

Repeated(c, n) == [i \in 1 .. n |-> c]
ush_browser_table_append_cell_text(text, width) ==
    IF Len(text) >= width THEN SubSeq(text, 1, width) ELSE text \o Repeated(" ", width - Len(text))

ush_browser_table_append_row(row, widths) ==
    FoldLeft(LAMBDA acc, col : acc \o <<" ">> \o
                 ush_browser_table_append_cell_text(IF col <= Len(row) THEN row[col] ELSE <<>>, widths[col]) \o <<" ", "|">>,
             <<"|">>, [i \in DOMAIN widths |-> i])
ush_browser_table_append_border(widths) ==
    FoldLeft(LAMBDA acc, w : acc \o Repeated("-", w + 2) \o <<"+">>, <<"+">>, widths)

RawLine(r, chars) ==
    ush_browser_text_newline(FoldLeft(LAMBDA q, c : ush_browser_text_append_raw_char(q, c, {"any"}), r, chars))

\* The links and the fields inside a table are not collected.
ush_browser_render_table_tag(r, rows) ==
    LET widths == ush_browser_table_compute_widths(rows)
        top == RawLine(ush_browser_text_newline(r), ush_browser_table_append_border(widths))
        body == FoldLeft(LAMBDA q, row : RawLine(q, ush_browser_table_append_row(row, widths)), top, rows)
    IN  RawLine(body, ush_browser_table_append_border(widths))

-----------------------------------------------------------------------------
(* The walk over the tree.                                                 *)

ush_browser_is_skip_tag(tag) == tag = "script"
ush_browser_is_block_tag(tag) == tag \in {"div", "dd", "pre", "form", "table", "tr", "td"}

\* Mutant: the style is switched back only behind the line's end.
LeaveElementLate(r, changed, block, parent) ==
    IF changed /\ block THEN ush_browser_text_newline(r)
    ELSE IF changed THEN ush_browser_text_emit_style(r, parent)
    ELSE IF block THEN ush_browser_text_newline(r) ELSE r

LeaveElement(r, changed, block, parent) ==
    LET back == IF changed THEN ush_browser_text_emit_style(r, parent) ELSE r
    IN  IF block THEN ush_browser_text_newline(back) ELSE back

EnterElement(r, changed, block, style) ==
    LET line == IF block THEN ush_browser_text_newline(r) ELSE r
    IN  IF changed THEN ush_browser_text_emit_style(line, style) ELSE line

RawBlank(r) == ush_browser_text_append_raw(r, Entry("char", " ", {"any"}))
ush_browser_emit_tag_prefix(r, tag) ==
    CASE tag = "q" -> Label(r, "'") [] tag = "td" -> Label(Label(r, "|"), " ") [] tag = "dd" -> RawBlank(RawBlank(r))
      [] OTHER -> r
ush_browser_emit_tag_suffix(r, tag) == IF tag = "q" THEN Label(r, "'") ELSE IF tag = "td" THEN Label(r, " ") ELSE r

FormLabel(r, form) == IF form = 0 THEN r ELSE ush_browser_text_newline(Label(r, "f"))

RECURSIVE ush_browser_walk_dom_styled(_, _, _, _, _)
ush_browser_walk_dom_styled(r, node, parent, form, rules) ==
    IF node.tag = "#text" THEN (IF "none" \in parent THEN r ELSE ush_browser_append_text_styled(r, node.text, parent))
    ELSE IF ush_browser_is_skip_tag(node.tag) THEN r
    ELSE LET linked == ush_browser_collect_anchor_link(r, node)
             style == StyleOf(node, parent, rules)
             begun == IF node.tag = "form" THEN ush_browser_begin_form(linked, node) ELSE [r |-> linked, n |-> form]
             s == IF node.tag = "form" THEN FormLabel(begun.r, begun.n) ELSE begun.r
             rows == ush_browser_table_collect_walk(node)
             changed == style # parent
             block == ush_browser_is_block_tag(node.tag)
             inside == ush_browser_emit_tag_prefix(EnterElement(s, changed, block, style), node.tag)
         IN  CASE "none" \in style -> linked
               [] node.tag = "img" -> Label(s, "i")
               [] node.tag = "input" -> ush_browser_render_input_tag(s, node, begun.n)
               [] node.tag = "textarea" -> ush_browser_render_textarea_tag(s, node, begun.n)
               [] node.tag = "br" -> ush_browser_text_newline(s)
               [] node.tag = "hr" -> ush_browser_text_horizontal_rule(s)
               [] node.tag = "table" /\ rows # <<>> -> ush_browser_render_table_tag(s, rows)
               [] OTHER -> LeaveElement(ush_browser_emit_tag_suffix(
                              FoldLeft(LAMBDA q, k : ush_browser_walk_dom_styled(q, k, style, begun.n, rules), inside, node.kids),
                              node.tag), changed, block, parent)

Nothing == [buf |-> <<>>, space |-> TRUE, links |-> <<>>, forms |-> <<>>, fields |-> <<>>]

\* A document too long for the parser: the text between its tags, a blank for
\* each tag and for each "&", no links and no forms.
RECURSIVE TextOnly(_, _)
TextOnly(r, node) ==
    IF node.tag = "#text"
    THEN FoldLeft(LAMBDA q, c : ush_browser_text_append_char(q, IF c = "&" THEN " " ELSE c, {"any"}), r, node.text)
    ELSE IF node.tag = "hr" THEN ush_browser_text_horizontal_rule(r)
    ELSE Label(FoldLeft(LAMBDA q, k : TextOnly(q, k), Label(r, " "), node.kids), " ")

\* A notice when there is none.
ush_browser_render_html_fallback(doc) ==
    LET r == ush_browser_text_trim_trailing_spaces(TextOnly(Nothing, doc)) IN IF r.buf = <<>> THEN Label(r, "!") ELSE r

-----------------------------------------------------------------------------
(* Printing (browser_output.c): a line of the buffer is broken at its last  *)
(* blank before the margin.  The limit of 220 lines is left out.            *)

\* The next line from position at, its end, and where to go on.
RECURSIVE ScanLine(_, _, _, _, _, _)
ScanLine(text, start, pos, end, col, blank) ==
    IF pos > Len(text) THEN [end |-> end, next |-> pos]
    ELSE IF text[pos].k = "style" THEN ScanLine(text, start, pos + 1, pos, col, blank)
    ELSE LET b == IF IsChar(text[pos], " ") THEN pos ELSE blank
         IN  IF col >= OUTPUT_COLS
             THEN IF b > start THEN [end |-> b - 1, next |-> b + 1] ELSE [end |-> end, next |-> pos]
             ELSE ScanLine(text, start, pos + 1, pos, col + 1, b)

RECURSIVE TrimEnd(_, _, _)
TrimEnd(text, start, end) == IF end >= start /\ IsChar(text[end], " ") THEN TrimEnd(text, start, end - 1) ELSE end

\* A line of blanks is not printed, and the character behind it is passed over.
RECURSIVE WrapFrom(_, _)
WrapFrom(text, at) ==
    IF at > Len(text) THEN <<>>
    ELSE LET line == ScanLine(text, at, at, at - 1, 0, 0)
             end == TrimEnd(text, at, line.end)
         IN  IF end >= at THEN <<SubSeq(text, at, end)>> \o WrapFrom(text, line.next) ELSE WrapFrom(text, line.next + 1)
ush_browser_print_wrapped_span(text) == WrapFrom(text, 1)

\* The buffer's own lines.
RECURSIVE Spans(_)
Spans(buf) ==
    LET ends == {i \in DOMAIN buf : IsChar(buf[i], "\n")}
    IN  IF ends = {} THEN <<buf>>
        ELSE LET i == CHOOSE i \in ends : \A j \in ends : i <= j
             IN  <<SubSeq(buf, 1, i - 1)>> \o Spans(SubSeq(buf, i + 1, Len(buf)))
ush_browser_print_rendered(buf) ==
    FoldLeft(LAMBDA acc, span : acc \o ush_browser_print_wrapped_span(span), <<>>, Spans(buf))

-----------------------------------------------------------------------------
BpInit == bpDoc \in BpDocs /\ bpSheet \in BpSheets /\ bp = Nothing /\ bpLines = <<>>

ush_browser_render_html ==
    /\ bp = Nothing
    /\ bp' = ush_browser_text_trim_trailing_spaces(
                 ush_browser_walk_dom_styled(Nothing, bpDoc, {}, 0, ush_browser_css_parse_stylesheet(bpSheet)))
    /\ bpLines' = ush_browser_print_rendered(bp'.buf)
    /\ UNCHANGED <<bpDoc, bpSheet>>

RenderFallback ==
    /\ bp = Nothing
    /\ bp' = ush_browser_render_html_fallback(bpDoc)
    /\ bpLines' = ush_browser_print_rendered(bp'.buf)
    /\ UNCHANGED <<bpDoc, bpSheet>>

BpNext == ush_browser_render_html \/ RenderFallback

-----------------------------------------------------------------------------
\* The style the terminal shows at a position of the buffer.
ShownStyle(i) ==
    LET set == {j \in 1 .. i : bp.buf[j].k = "style"}
    IN  IF set = {} THEN {} ELSE bp.buf[CHOOSE j \in set : \A k \in set : k <= j].s

\* As long as the buffer has room, every character of a text node is shown in
\* the style of its element, however the elements around it are nested, and
\* the page ends in the plain style.
StyleIsOwn ==
    Len(bp.buf) + 1 < TEXT_CAP =>
        /\ \A i \in DOMAIN bp.buf : bp.buf[i].k = "char" /\ bp.buf[i].v \notin {" ", "\n", "-"} /\ "any" \notin bp.buf[i].s
              => ShownStyle(i) = bp.buf[i].s
        /\ ShownStyle(Len(bp.buf)) = {}

\* The number shown at a field is the one "set" takes: it is the field of that
\* name, of the form it stands in.
FieldNumbersAgree ==
    \A i \in DOMAIN bp.buf : bp.buf[i].k = "field" /\ bp.buf[i].v.n # 0 =>
        /\ bp.buf[i].v.n \in DOMAIN bp.fields
        /\ bp.fields[bp.buf[i].v.n] = [form |-> bp.buf[i].v.form, name |-> bp.buf[i].v.name]

Visible(line) == SelectSeq(line, LAMBDA e : e.k # "style")
Words(line) == SelectSeq(line, LAMBDA e : e.k # "style" /\ ~IsChar(e, " ") /\ ~IsChar(e, "\n"))
\* Outside preformatted text, and but for the blanks a "dd" and a table write
\* themselves, two blanks never follow each other on the screen, also when the
\* style changes between them; and an empty line follows an empty line only
\* where the escape of a style hides the end of the first (browser_text.c:65).
SpaceIsJoined ==
    /\ LET v == Visible(bp.buf) IN
       \A i \in 1 .. Len(v) - 1 :
          ~(IsChar(v[i], " ") /\ IsChar(v[i + 1], " ") /\ (v[i].s \cup v[i + 1].s) \cap {"pre", "any"} = {})
    /\ \A i \in 1 .. Len(bp.buf) - 2 :
          ~(\A j \in i .. i + 2 : IsChar(bp.buf[j], "\n") /\ "pre" \notin bp.buf[j].s)

\* A span that is blank up to the margin.
BlankToMargin(span) ==
    LET v == Visible(span) IN \E i \in DOMAIN v : i + OUTPUT_COLS - 1 <= Len(v)
                              /\ \A j \in i .. i + OUTPUT_COLS - 1 : IsChar(v[j], " ")

\* No printed line is longer than the screen is wide, and breaking the lines
\* loses nothing and repeats nothing, unless a text is blank up to the margin.
WrapKeepsText ==
    /\ \A i \in DOMAIN bpLines : Len(Visible(bpLines[i])) <= OUTPUT_COLS
    /\ (\A i \in DOMAIN Spans(bp.buf) : ~BlankToMargin(Spans(bp.buf)[i])) =>
          FoldLeft(LAMBDA acc, l : acc \o Words(l), <<>>, bpLines) = Words(bp.buf)
==============================================================================
