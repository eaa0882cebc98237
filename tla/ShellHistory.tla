---------------------------- MODULE ShellHistory ----------------------------
(***************************************************************************)
(* The command history of the Rust user shell as pure operators: the list   *)
(* in memory (history_push_memory) and its file format (history_save,       *)
(* history_load).  A history is the sequence of its entries, oldest first.  *)
(***************************************************************************)
EXTENDS ShellText, SequencesExt

CONSTANTS
    LINE_MAX,           \* size of a line buffer, its terminator included
    HISTORY_MAX,        \* entries kept
    HISTORY_DATA_MAX    \* size of the buffer the file is written from and read into

ASSUME HistoryAssumption ==
    /\ LINE_MAX \in Nat /\ LINE_MAX >= 2
    /\ HISTORY_MAX \in Nat \ {0}
    /\ HISTORY_DATA_MAX \in Nat \ {0}

\* Histories the shell can hold: no more than HISTORY_MAX c strings that fit
\* a line buffer.
HistoryLine == {t \in Seq(Byte \ {NUL}) : Len(t) < LINE_MAX}
History == {h \in Seq(HistoryLine) : Len(h) <= HISTORY_MAX}

\* line is a c string.  Blank lines and repetitions of the last entry are
\* skipped; when the list is full the oldest entry makes room.
HistoryPushMemory(h, line) ==
    IF ~HasNonSpace(line) \/ (h # <<>> /\ h[Len(h)] = line)
    THEN h
    ELSE IF Len(h) < HISTORY_MAX
         THEN Append(h, line)
         ELSE Append(SubSeq(h, 2, Len(h)), line)

\* One entry per newline-terminated line, cut off at the buffer's end.
HistorySave(h) ==
    LET Put(data, line) ==
            LET room == Greater(0, HISTORY_DATA_MAX - 2 - Len(data))
                body == data \o SubSeq(line, 1, Lesser(Len(line), room))
            IN  IF Len(body) + 1 < HISTORY_DATA_MAX THEN Append(body, NEWLINE) ELSE body
    IN  FoldLeft(Put, <<>>, h)

\* The lines of the file: the pieces between newlines or NULs.
FileLines(data) ==
    LET Step(acc, b) ==
            IF b \in {NEWLINE, NUL}
            THEN [done |-> Append(acc.done, acc.piece), piece |-> <<>>]
            ELSE [acc EXCEPT !.piece = Append(@, b)]
        end == FoldLeft(Step, [done |-> <<>>, piece |-> <<>>], data)
    IN  Append(end.done, end.piece)

HistoryLoad(data) ==
    LET got == SubSeq(data, 1, Lesser(Len(data), HISTORY_DATA_MAX - 1))
        StripCR(p) == IF p # <<>> /\ p[Len(p)] = 13 THEN SubSeq(p, 1, Len(p) - 1) ELSE p
        Add(h, p) == HistoryPushMemory(h,
                        SubSeq(StripCR(p), 1, Lesser(Len(StripCR(p)), LINE_MAX - 1)))
    IN  FoldLeft(Add, <<>>, FileLines(got))
=============================================================================
