----------------------------- MODULE CmdRuntime ------------------------------
(***************************************************************************)
(* The runtime every command links (cmd_runtime.c): the capture of a piped  *)
(* standard input before main, the cutting of an argument string, numbers   *)
(* and paths.  The strings are sequences of characters, ".elf" being one;   *)
(* capacities count characters and the NUL, as in the code.                 *)
(***************************************************************************)
EXTENDS Integers, Sequences, SequencesExt, FiniteSetsExt

CONSTANTS
    RtChars,           \* characters of an argument
    RtMax,             \* bound: its length
    RtCwds,            \* working directories, normalised
    PATH_MAX,          \* size of a path buffer
    ARG_MAX,           \* size of the buffer of a first argument
    USH_COPY_MAX,      \* what the capture of standard input keeps
    RtInputs,          \* lengths of a piped input
    U64_MAX            \* greatest u64

VARIABLES
    rtArg, rtCwd,      \* the argument string and the directory it is read in
    rtDirs,            \* the program directories that hold the named program
    rtInput,           \* the bytes of the pipe not yet read (numbered)
    rtSent,            \* the bytes that were written to it
    rtBuf,             \* ush_pipeline_stdin_buf[0 .. total - 1]
    rtTruncated, rtPc, \* the local flag; "capture" or "main"
    rtFailed           \* a read has returned -1
rtVars == <<rtArg, rtCwd, rtDirs, rtInput, rtSent, rtBuf, rtTruncated, rtPc, rtFailed>>

-----------------------------------------------------------------------------
(* Capturing standard input: one fd_read at a time.                         *)

Numbers(n) == [i \in 1 .. n |-> i]

\* USH_STDIN_MODE=PIPE: capture_stdin_pipe asks for what is left of the buffer,
\* then for a drain buffer's worth; the kernel gives any part of it.
CaptureRead ==
    /\ rtPc = "capture"
    /\ rtInput # <<>>
    /\ \E n \in 1 .. Len(rtInput) :
          LET room == USH_COPY_MAX - Len(rtBuf)
          IN  /\ room > 0 => n <= room
              /\ rtBuf' = IF room > 0 THEN rtBuf \o SubSeq(rtInput, 1, n) ELSE rtBuf
              /\ rtInput' = SubSeq(rtInput, n + 1, Len(rtInput))
              /\ rtTruncated' = (rtTruncated \/ room = 0)
    /\ UNCHANGED <<rtArg, rtCwd, rtDirs, rtSent, rtPc, rtFailed>>

\* The last read: end of the pipe, or an error.
CaptureEnd ==
    /\ rtPc = "capture"
    /\ rtFailed' \in BOOLEAN
    /\ ~rtFailed' => rtInput = <<>>
    /\ rtTruncated' = (rtTruncated \/ Len(rtBuf) = USH_COPY_MAX)
    /\ rtPc' = "main"
    /\ UNCHANGED <<rtArg, rtCwd, rtDirs, rtInput, rtSent, rtBuf>>

-----------------------------------------------------------------------------
(* Arguments.                                                              *)

\* The position of the first character from i on that is, or is not, a blank.
RECURSIVE SkipSpaces(_, _)
SkipSpaces(s, i) == IF i <= Len(s) /\ s[i] = " " THEN SkipSpaces(s, i + 1) ELSE i
RECURSIVE SkipWord(_, _)
SkipWord(s, i) == IF i <= Len(s) /\ s[i] # " " THEN SkipWord(s, i + 1) ELSE i
Cut(s, size) == SubSeq(s, 1, IF Len(s) < size THEN Len(s) ELSE size - 1)
WordAt(s, i) == SubSeq(s, i, SkipWord(s, i) - 1)
From(s, i) == SubSeq(s, i, Len(s))

\* Mutant: the rest begins at the blank after the word.
SplitKeepsBlank(arg, size) ==
    LET i == SkipSpaces(arg, 1)
    IN  IF i > Len(arg) THEN [ok |-> FALSE, first |-> <<>>, rest |-> <<>>]
        ELSE [ok |-> TRUE, first |-> Cut(WordAt(arg, i), size), rest |-> From(arg, SkipWord(arg, i))]

\* A word too long for its buffer is cut without an error.
ush_split_first_and_rest(arg, size) ==
    LET i == SkipSpaces(arg, 1)
    IN  IF i > Len(arg) THEN [ok |-> FALSE, first |-> <<>>, rest |-> <<>>]
        ELSE [ok |-> TRUE, first |-> Cut(WordAt(arg, i), size), rest |-> From(arg, SkipSpaces(arg, SkipWord(arg, i)))]

\* The third word and those after it are ignored.
ush_split_two_args(arg, size) ==
    LET i == SkipSpaces(arg, 1)
        j == SkipSpaces(arg, SkipWord(arg, i))
    IN  IF j > Len(arg) THEN [ok |-> FALSE, first |-> Cut(WordAt(arg, i), size), second |-> <<>>]
        ELSE [ok |-> TRUE, first |-> Cut(WordAt(arg, i), size), second |-> Cut(WordAt(arg, j), size)]

ush_parse_line(line, cmdSize, argSize) ==
    LET i == SkipSpaces(line, 1)
    IN  <<Cut(WordAt(line, i), cmdSize), Cut(From(line, SkipSpaces(line, SkipWord(line, i))), argSize)>>

RECURSIVE TrimEnd(_)
TrimEnd(s) == IF s # <<>> /\ Last(s) = " " THEN TrimEnd(Front(s)) ELSE s
ush_trim_line(line) == TrimEnd(From(line, SkipSpaces(line, 1)))

DigitValue(c) == CASE c = "0" -> 0 [] c = "1" -> 1 [] c = "9" -> 9 [] OTHER -> -1
\* -1 where the code returns 0: not a number, or too large a one.
RECURSIVE ParseDigits(_, _)
ParseDigits(value, text) ==
    IF text = <<>> THEN value
    ELSE LET d == DigitValue(Head(text))
         IN  IF d < 0 \/ value > (U64_MAX - d) \div 10 THEN -1 ELSE ParseDigits(value * 10 + d, Tail(text))
ush_parse_u64_dec(text) == IF text = <<>> THEN -1 ELSE ParseDigits(0, text)

-----------------------------------------------------------------------------
(* Paths.  FAIL marks a path that does not fit.                            *)

FAIL == <<"fail">>
ush_path_push_component(path, comp) ==
    LET longer == IF Len(path) = 1 THEN path \o comp ELSE Append(path, "/") \o comp
    IN  IF Len(longer) >= PATH_MAX THEN FAIL ELSE longer

RECURSIVE BackToSlash(_)
BackToSlash(path) == IF Len(path) > 1 /\ Last(path) # "/" THEN BackToSlash(Front(path)) ELSE path
\* Mutant: the slash before the component stays.
PopKeepsSlash(path) == BackToSlash(path)
ush_path_pop_component(path) ==
    LET back == BackToSlash(path) IN IF Len(back) > 1 THEN Front(back) ELSE back

RECURSIVE SkipSlashes(_, _)
SkipSlashes(s, i) == IF i <= Len(s) /\ s[i] = "/" THEN SkipSlashes(s, i + 1) ELSE i
RECURSIVE ComponentEnd(_, _)
ComponentEnd(s, i) == IF i <= Len(s) /\ s[i] # "/" THEN ComponentEnd(s, i + 1) ELSE i
RECURSIVE ParseFrom(_, _, _)
ParseFrom(src, at, path) ==
    LET i == SkipSlashes(src, at)
        end == ComponentEnd(src, i)
        comp == SubSeq(src, i, end - 1)
    IN  IF path = FAIL \/ i > Len(src) THEN path
        ELSE ParseFrom(src, end, IF comp = <<".">> THEN path
                                 ELSE IF comp = <<".", ".">> THEN ush_path_pop_component(path)
                                 ELSE ush_path_push_component(path, comp))
ush_path_parse_into(src, path) == ParseFrom(src, 1, path)

ush_resolve_path(cwd, arg) ==
    IF arg = <<>> THEN ush_path_parse_into(cwd, <<"/">>)
    ELSE IF arg[1] = "/" THEN ush_path_parse_into(arg, <<"/">>)
    ELSE LET base == ush_path_parse_into(cwd, <<"/">>)
         IN  IF base = FAIL THEN FAIL ELSE ush_path_parse_into(arg, base)

\* "S" stands for the seven characters of the word system.
ush_path_is_under_system(path) == Len(path) >= 2 /\ path[2] = "S" /\ (Len(path) = 2 \/ path[3] = "/")

WithSuffix(path, size) ==
    IF path # <<>> /\ Last(path) = ".elf" THEN path
    ELSE IF Len(path) + 1 >= size THEN FAIL ELSE Append(path, ".elf")
\* The directories searched for a bare name, in this order; d1 is /shell/apps/.
ProgramDirs == <<"d1", "d2", "d3">>
ush_resolve_exec_path(cwd, arg, dirs) ==
    LET candidate(k) == WithSuffix(<<ProgramDirs[k]>> \o arg, PATH_MAX)
        found == {k \in 1 .. 3 : ProgramDirs[k] \in dirs}
        resolved == ush_resolve_path(cwd, arg)
    IN  IF arg = <<>> THEN FAIL
        ELSE IF arg[1] = "/" THEN WithSuffix(Cut(arg, PATH_MAX), PATH_MAX)
        ELSE IF \E i \in 1 .. Len(arg) : arg[i] = "/" THEN IF resolved = FAIL THEN FAIL ELSE WithSuffix(resolved, PATH_MAX)
        ELSE IF found = {} THEN candidate(1) ELSE candidate(CHOOSE k \in found : \A j \in found : k <= j)

-----------------------------------------------------------------------------
Strings == SeqOf(RtChars, RtMax)
RtInit ==
    /\ rtArg \in Strings /\ rtCwd \in RtCwds /\ rtDirs \in SUBSET {"d1", "d2", "d3"}
    /\ (\E i \in 1 .. Len(rtArg) : rtArg[i] = "/") => rtDirs = {}   \* searched for bare names only
    /\ \E n \in RtInputs :
          /\ n = 0 \/ (rtArg = <<>> /\ rtDirs = {})       \* one question per initial state
          /\ rtSent = Numbers(n) /\ rtInput = Numbers(n)
          /\ rtPc = IF n = 0 THEN "main" ELSE "capture"
    /\ rtBuf = <<>> /\ rtTruncated = FALSE /\ rtFailed = FALSE
RtNext == CaptureRead \/ CaptureEnd
RtSpec == RtInit /\ [][RtNext]_rtVars

-----------------------------------------------------------------------------
\* Reference: a path as the names on the way to a directory.
Components(s) == LET cuts == {0, Len(s) + 1} \cup {i \in 1 .. Len(s) : s[i] = "/"}
                     order == SetToSortSeq(cuts, <)
                 IN  [k \in 1 .. Len(order) - 1 |-> SubSeq(s, order[k] + 1, order[k + 1] - 1)]
Walk(from, s) ==
    FoldLeft(LAMBDA d, c : IF c \in {<<>>, <<".">>} THEN d
                           ELSE IF c = <<".", ".">> THEN IF d = <<>> THEN d ELSE Front(d) ELSE Append(d, c),
             from, Components(s))
Reached(cwd, arg) == Walk(IF arg # <<>> /\ arg[1] = "/" THEN <<>> ELSE Walk(<<>>, cwd), arg)
Spelled(dir) == IF dir = <<>> THEN <<"/">> ELSE FlattenSeq([k \in 1 .. Len(dir) |-> <<"/">> \o dir[k]])

\* A path that resolves is the one spelling of the directory or file that
\* walking its components reaches, and only a path too long does not resolve:
\* so the /system protection, a test of the first letters, cannot be evaded by
\* a spelling.
PathsResolve ==
    LET path == ush_resolve_path(rtCwd, rtArg)
        dir == Reached(rtCwd, rtArg)
    IN  /\ path # FAIL => path = Spelled(dir)
                          /\ (ush_path_is_under_system(path) <=> dir # <<>> /\ dir[1] = <<"S">>)
        /\ path = FAIL => \E k \in 0 .. Len(rtArg) : Len(Spelled(Reached(rtCwd, SubSeq(rtArg, 1, k)))) >= PATH_MAX
        /\ LET exec == ush_resolve_exec_path(rtCwd, rtArg, rtDirs)
           IN  exec # FAIL => Last(exec) = ".elf" /\ Len(exec) < PATH_MAX

\* The ways to cut an argument string agree with each other: the second of two
\* arguments is the first of the rest, a parsed line is its first word and the
\* rest, trimming changes neither, and a number is what its digits say.
SplitsAgree ==
    LET one == ush_split_first_and_rest(rtArg, ARG_MAX)
        two == ush_split_two_args(rtArg, ARG_MAX)
        next == ush_split_first_and_rest(one.rest, ARG_MAX)
        n == ush_parse_u64_dec(rtArg)
    IN  /\ two.first = one.first /\ two.second = next.first /\ two.ok = (one.ok /\ next.ok)
        /\ ush_parse_line(rtArg, ARG_MAX, RtMax + 1) = <<one.first, one.rest>>
        /\ ush_split_two_args(ush_trim_line(rtArg), ARG_MAX) = two
        /\ n >= 0 <=> /\ rtArg # <<>> /\ \A i \in 1 .. Len(rtArg) : DigitValue(rtArg[i]) >= 0
                      /\ FoldLeft(LAMBDA v, c : 10 * v + DigitValue(c), 0, rtArg) <= U64_MAX

\* What a command finds as piped input is the beginning of what was sent, all
\* of it or as much as the buffer holds, and a loss is announced.
InputIsCaptured ==
    rtPc = "main" =>
        /\ rtBuf = SubSeq(rtSent, 1, Len(rtBuf))
        /\ ~rtFailed => Len(rtBuf) = Len(rtSent) \/ (Len(rtBuf) = USH_COPY_MAX /\ rtTruncated)

RuntimeIsRight == PathsResolve /\ SplitsAgree /\ InputIsCaptured
=============================================================================
