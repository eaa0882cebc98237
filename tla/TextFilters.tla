----------------------------- MODULE TextFilters -----------------------------
(***************************************************************************)
(* The text commands head, tail, wc, cut, uniq, sort and grep               *)
(* (apps/<name>_main.c) as functions from the text they read to the text    *)
(* they print, each as its loop over the characters computes it, and a      *)
(* pipeline of them, in which one reads what the other printed.             *)
(***************************************************************************)
EXTENDS Integers, Sequences, SequencesExt, FiniteSets

CONSTANTS
    TextChars,            \* characters, "\n" among them
    TextMax,              \* bound: characters of a text that is typed
    USH_SORT_MAX_LINES,
    CharCode              \* [TextChars -> Nat], the order of sort

VARIABLES
    text,                 \* what the next command reads
    piped                 \* commands of the pipeline so far

textVars == <<text, piped>>

NL == "\n"
Space == {" ", "\n", "\t", "\r"}
Texts == SeqOf(TextChars, TextMax)

\* Positions of a text at which the loops see the end of a line.
Newlines(t) == SelectSeq([i \in 1..Len(t) |-> i], LAMBDA i : t[i] = NL)

\* The lines that the loops of cut, uniq and sort take one after the other; text
\* after the last newline is a line too.
TextLines(t) ==
    LET nl == Newlines(t)
        from(i) == IF i = 1 THEN 1 ELSE nl[i - 1] + 1
        whole == [i \in 1..Len(nl) |-> SubSeq(t, from(i), nl[i] - 1)]
        rest == SubSeq(t, from(Len(nl) + 1), Len(t))
    IN  IF rest = <<>> THEN whole ELSE Append(whole, rest)

\* ush_writeln for each of the lines.
Printed(lines) == FoldLeft(LAMBDA acc, l : acc \o l \o <<NL>>, <<>>, lines)

-----------------------------------------------------------------------------
\* ush_head_emit: characters until n newlines have been printed.
HeadText(t, n) ==
    LET nl == Newlines(t)
    IN  IF n = 0 THEN <<>> ELSE IF Len(nl) < n THEN t ELSE SubSeq(t, 1, nl[n])

\* Mutant: a newline at the very end starts a line of its own.
TailBreaksAll(t) == Newlines(t)

\* ush_tail_count_lines, ush_tail_find_start_offset: the newlines that are
\* followed by something.
TailBreaks(t) == SelectSeq(Newlines(t), LAMBDA i : i < Len(t))
TailCountLines(t) == IF t = <<>> THEN 0 ELSE 1 + Len(TailBreaks(t))
TailStart(t, skip) ==
    IF skip = 0 THEN 0 ELSE IF skip > Len(TailBreaks(t)) THEN Len(t) ELSE TailBreaks(t)[skip]

\* ush_cmd_tail.
TailText(t, n) ==
    LET total == TailCountLines(t)
        skip == IF total > n THEN total - n ELSE 0
    IN  IF n = 0 THEN <<>> ELSE SubSeq(t, TailStart(t, skip) + 1, Len(t))

\* ush_cmd_wc: newlines, starts of words and bytes.
WordStarts(t) == {i \in 1..Len(t) : t[i] \notin Space /\ (i = 1 \/ t[i - 1] \in Space)}
WcCounts(t) == <<Len(Newlines(t)), Cardinality(WordStarts(t)), Len(t)>>

\* ush_cut_emit_field: the text between two delimiters; an empty line when there
\* are not so many.
CutField(line, delim, n) ==
    LET at == SelectSeq([i \in 1..Len(line) |-> i], LAMBDA i : line[i] = delim)
        from(i) == IF i = 1 THEN 1 ELSE at[i - 1] + 1
    IN  IF n > Len(at) + 1 THEN <<>>
        ELSE SubSeq(line, from(n), IF n > Len(at) THEN Len(line) ELSE at[n] - 1)

\* ush_cut_parse_args, ush_cut_load_input, ush_cmd_cut.
CutText(t, delim, n) ==
    LET lines == TextLines(t)
    IN  Printed([i \in 1..Len(lines) |-> CutField(lines[i], delim, n)])

\* ush_cmd_uniq, ush_uniq_line_equal: a line is printed unless it is the one
\* printed last.
UniqText(t) ==
    LET keep(acc, l) == IF acc # <<>> /\ Last(acc) = l THEN acc ELSE Append(acc, l)
    IN  Printed(FoldLeft(keep, <<>>, TextLines(t)))

\* ush_sort_compare_line > 0: the first difference decides, a prefix is smaller.
LineGreater(l, r) ==
    LET same(k) == \A i \in 1..k : l[i] = r[i]
        n == IF Len(l) < Len(r) THEN Len(l) ELSE Len(r)
    IN  \/ \E k \in 1..n : same(k - 1) /\ CharCode[l[k]] > CharCode[r[k]]
        \/ same(n) /\ Len(l) > Len(r)

\* ush_sort_collect_lines: lines beyond the table are dropped (and a note follows
\* the output).
SortLines(t) ==
    LET lines == TextLines(t)
    IN  SubSeq(lines, 1, IF Len(lines) > USH_SORT_MAX_LINES THEN USH_SORT_MAX_LINES ELSE Len(lines))

\* Mutant: the search for the place ends at the first smaller line from the top.
InsertSortedWrong(sorted, key) ==
    LET k == Cardinality({i \in 1..Len(sorted) : ~LineGreater(sorted[i], key)})
    IN  SubSeq(sorted, 1, k) \o SubSeq(sorted, k + 2, Len(sorted)) \o <<key>>

\* ush_sort_lines: the key moves down past the lines that are greater.
InsertSorted(sorted, key) ==
    LET stay == {i \in 1..Len(sorted) : ~LineGreater(sorted[i], key)}
        k == IF stay = {} THEN 0 ELSE CHOOSE i \in stay : \A j \in stay : j <= i
    IN  SubSeq(sorted, 1, k) \o <<key>> \o SubSeq(sorted, k + 1, Len(sorted))

\* ush_cmd_sort.
SortText(t) == Printed(FoldLeft(InsertSorted, <<>>, SortLines(t)))

\* ush_grep_line_has_pattern.
HasPattern(line, pat) ==
    \E i \in 0..Len(line) - Len(pat) : \A j \in 1..Len(pat) : line[i + j] = pat[j]

\* ush_grep_emit_matches; the pattern is not empty, so the empty line that the
\* loop finds after a final newline never matches.
GrepText(t, pat) == Printed(SelectSeq(TextLines(t), LAMBDA l : HasPattern(l, pat)))

-----------------------------------------------------------------------------
TextInit == text \in Texts /\ piped = 0

\* One command of a pipeline; bound: two of them.
TextNext ==
    /\ piped < 2 /\ piped' = piped + 1
    /\ \/ \E n \in 0..2 : text' = HeadText(text, n) \/ text' = TailText(text, n)
       \/ \E n \in 1..2 : text' = CutText(text, ",", n)
       \/ text' = UniqText(text)
       \/ text' = SortText(text)
       \/ \E c \in TextChars \ Space : text' = GrepText(text, <<c>>)

\* head and tail agree on what a line is: the first n lines and all but the first
\* n of them are the text, also when its last line has no newline.
HeadTailPartition ==
    LET total == Len(TextLines(text))
    IN  \A n \in 0..total : HeadText(text, n) \o TailText(text, total - n) = text

\* sort gives the lines it read in order, each as often as it was there, and
\* `sort | uniq` has no line twice; wc counts the same words before and after.
SortUniqAgree ==
    LET in == SortLines(text)
        out == TextLines(SortText(text))
        count(s, l) == Cardinality({i \in DOMAIN s : s[i] = l})
    IN  /\ \A i \in 1..Len(out) - 1 : ~LineGreater(out[i], out[i + 1])
        /\ \A l \in ToSet(in) \cup ToSet(out) : count(in, l) = count(out, l)
        /\ IsInjective(TextLines(UniqText(SortText(text))))
        /\ Len(TextLines(text)) <= USH_SORT_MAX_LINES => WcCounts(SortText(text))[2] = WcCounts(text)[2]
=============================================================================
