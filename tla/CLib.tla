------------------------------- MODULE CLib ----------------------------------
(***************************************************************************)
(* Algorithms of the C library every program links (c/src): searching and  *)
(* cutting strings (libc_string.c), reading numbers (libc_stdlib.c), the    *)
(* formatter under printf (stdio.c) and the calendar (time.c).  They are    *)
(* operators over sequences of characters, each next to what it should give  *)
(* in the terms of C; the state is the input they are tried on.  The width  *)
(* of a long is a parameter, so that a few digits overflow it.              *)
(***************************************************************************)
EXTENDS Integers, Sequences, SequencesExt

CONSTANTS
    ULONG_MAX, LONG_MAX,   \* 2^W - 1 and 2^(W-1) - 1
    LibChars,              \* characters of an input, digits and signs among them
    LibMax,                \* bound: length of an input
    LibDays                \* the days, from 1970-01-01, the calendar is tried on

VARIABLES libText, libDay
libVars == <<libText, libDay>>

Lesser(a, b) == IF a < b THEN a ELSE b

-----------------------------------------------------------------------------
(* Strings.  A string is the sequence of its characters without the NUL.   *)

\* The longest prefix whose characters all satisfy ok: strspn and strcspn.
PrefixOf(text, ok(_)) ==
    CHOOSE n \in 0 .. Len(text) : (\A i \in 1 .. n : ok(text[i])) /\ (n = Len(text) \/ ~ok(text[n + 1]))
strspn(text, set) == PrefixOf(text, LAMBDA c : c \in set)
strcspn(text, set) == PrefixOf(text, LAMBDA c : c \notin set)

Drop(text, n) == SubSeq(text, n + 1, Len(text))

\* strtok_r called until it returns NULL: the delimiters before a token are
\* skipped, the one after it is overwritten by NUL and the rest saved.
RECURSIVE strtok_r(_, _)
strtok_r(text, delim) ==
    LET start == Drop(text, strspn(text, delim))
        n == strcspn(start, delim)
    IN  IF start = <<>> THEN <<>>
        ELSE <<SubSeq(start, 1, n)>> \o strtok_r(Drop(start, n + 1), delim)

\* The byte loops of memmove: forwards when the target lies before the source,
\* backwards when it lies inside it.
RECURSIVE CopyLoop(_, _, _, _)
CopyLoop(mem, d, s, order) ==
    IF order = <<>> THEN mem ELSE CopyLoop([mem EXCEPT ![d + Head(order)] = mem[s + Head(order)]], d, s, Tail(order))
Forwards(n) == [i \in 1 .. n |-> i - 1]
Backwards(n) == [i \in 1 .. n |-> n - i]

\* Mutant: memmove copies forwards like memcpy.
MemmoveForwards(mem, d, s, n) == CopyLoop(mem, d, s, Forwards(n))

memmove(mem, d, s, n) ==
    IF d = s \/ n = 0 THEN mem
    ELSE CopyLoop(mem, d, s, IF d < s \/ d >= s + n THEN Forwards(n) ELSE Backwards(n))

-----------------------------------------------------------------------------
(* Numbers.                                                                *)

Digits == <<"0", "1", "2", "3", "4", "5", "6", "7", "8", "9", "a", "b", "c", "d", "e", "f">>
clib_digit_value(c) == IF \E i \in 1 .. 16 : Digits[i] = c THEN (CHOOSE i \in 1 .. 16 : Digits[i] = c) - 1 ELSE -1
IsDigit(c, base) == clib_digit_value(c) \in 0 .. base - 1

\* The base of base 0, and the 0x that base 16 skips.
BaseOf(p, base) ==
    LET hex == Len(p) >= 2 /\ p[1] = "0" /\ p[2] = "x"
    IN  IF base = 0 THEN IF hex /\ Len(p) >= 3 /\ IsDigit(p[3], 16) THEN <<16, 2>>
                         ELSE IF p # <<>> /\ p[1] = "0" THEN <<8, 0>> ELSE <<10, 0>>
        ELSE IF base = 16 /\ hex THEN <<16, 2>> ELSE <<base, 0>>

\* Mutant: a number that does not fit wraps.
AccumulateWraps(v, digits, base, limit) ==
    FoldLeft(LAMBDA x, c : [value |-> (x.value * base + clib_digit_value(c)) % (limit + 1), over |-> FALSE], v, digits)

\* The digit loop with its overflow test, which never computes past limit.
RECURSIVE Accumulate(_, _, _, _)
Accumulate(v, digits, base, limit) ==
    IF digits = <<>> THEN v
    ELSE LET d == clib_digit_value(Head(digits))
             over == v.over \/ v.value > (limit - d) \div base
             next == IF v.value > (limit - d) \div base THEN limit
                     ELSE IF v.over THEN v.value ELSE v.value * base + d
         IN  Accumulate([value |-> next, over |-> over], Tail(digits), base, limit)

SignOf(text) == text # <<>> /\ Head(text) \in {"+", "-"}
\* The digits from text[from + 1] on, and from the sign on, at text[at].
DigitRun(text, from, base, negative) ==
    LET p == Drop(text, from)
        n == PrefixOf(p, LAMBDA c : IsDigit(c, base))
    IN  [negative |-> negative, base |-> base, digits |-> SubSeq(p, 1, n),
         end |-> IF n = 0 THEN 0 ELSE from + n]
ParsedFrom(text, at, b, negative) == DigitRun(text, at + b[2], b[1], negative)
AfterSign(text, at, wanted, negative) == ParsedFrom(text, at, BaseOf(Drop(text, at), wanted), negative)
Parsed(text, wanted) ==
    LET spaces == strspn(text, {" "})
    IN  IF SignOf(Drop(text, spaces)) THEN AfterSign(text, spaces + 1, wanted, text[spaces + 1] = "-")
        ELSE AfterSign(text, spaces, wanted, FALSE)

Magnitude(x, limit) == Accumulate([value |-> 0, over |-> FALSE], x.digits, x.base, limit).value
UnsignedOf(x) ==
    IF x.negative THEN (ULONG_MAX + 1 - Magnitude(x, ULONG_MAX)) % (ULONG_MAX + 1) ELSE Magnitude(x, ULONG_MAX)
SignedOf(x) == IF x.negative THEN -Magnitude(x, LONG_MAX + 1) ELSE Magnitude(x, LONG_MAX)

\* The value of the number; one without digits is 0.
strtoul(text, base) == UnsignedOf(Parsed(text, base))
strtol(text, base) == SignedOf(Parsed(text, base))

-----------------------------------------------------------------------------
(* clio_vformat, one directive at a time.                                  *)

RECURSIVE clio_u64_to_base(_, _)
clio_u64_to_base(value, base) ==
    IF value < base THEN <<Digits[value + 1]>>
    ELSE Append(clio_u64_to_base(value \div base, base), Digits[(value % base) + 1])

Repeat(c, n) == [i \in 1 .. IF n > 0 THEN n ELSE 0 |-> c]

\* %s and %c: precision cuts, width pads with blanks.
clio_emit_with_width(text, left, width) ==
    IF left THEN text \o Repeat(" ", width - Len(text)) ELSE Repeat(" ", width - Len(text)) \o text

\* precision < 0 stands for none.
LeadingZeros(digits, precision) == Repeat("0", precision - Len(digits))
DigitsOf(value, base, precision) == IF precision = 0 /\ value = 0 THEN <<>> ELSE clio_u64_to_base(value, base)

\* Mutant: the zeros of the padding come before the sign.
FormatDPadsSign(value, left, zero, width, precision) ==
    LET digits == DigitsOf(IF value < 0 THEN -value ELSE value, 10, precision)
        core == (IF value < 0 THEN <<"-">> ELSE <<>>) \o LeadingZeros(digits, precision) \o digits
    IN  IF left THEN core \o Repeat(" ", width - Len(core)) ELSE Repeat(IF zero THEN "0" ELSE " ", width - Len(core)) \o core

\* %d and %i: zero padding goes between the sign and the digits.
PaddedD(sign, digits, left, zero, width) ==
    LET room == width - Len(sign) - Len(digits)
    IN  IF left \/ room <= 0 THEN sign \o digits \o Repeat(" ", room)
        ELSE IF zero THEN sign \o Repeat("0", room) \o digits
        ELSE Repeat(" ", room) \o sign \o digits
WithPrecision(digits, precision) == LeadingZeros(digits, precision) \o digits
FormatD(value, left, zero, width, precision) ==
    PaddedD(IF value < 0 THEN <<"-">> ELSE <<>>,
            WithPrecision(DigitsOf(IF value < 0 THEN -value ELSE value, 10, precision), precision),
            left, zero /\ precision < 0, width)

\* %u, %x, %X.
FormatU(value, base, left, zero, width, precision) ==
    PaddedD(<<>>, WithPrecision(DigitsOf(value, base, precision), precision), left, zero /\ precision < 0, width)

\* The sink of snprintf: what fits before the NUL is kept, all is counted.
clio_sink_emit(sink, text) ==
    LET room == IF sink.count + 1 < sink.capacity THEN sink.capacity - 1 - sink.count ELSE 0
    IN  [sink EXCEPT !.kept = @ \o SubSeq(text, 1, Lesser(room, Len(text))), !.count = @ + Len(text)]

\* clio_sink_finalize_buffer puts the NUL after what was kept.
snprintf(parts, capacity) ==
    FoldLeft(clio_sink_emit, [kept |-> <<>>, count |-> 0, capacity |-> capacity], parts)

-----------------------------------------------------------------------------
(* The calendar.                                                           *)

cleonos_time_is_leap(y) == y % 400 = 0 \/ (y % 100 # 0 /\ y % 4 = 0)
cleonos_time_days_in_year(y) == IF cleonos_time_is_leap(y) THEN 366 ELSE 365

\* Mutant: every fourth year has a 29th of February.
DaysInMonthJulian(y, m) ==
    IF m = 1 /\ y % 4 = 0 THEN 29 ELSE <<31, 28, 31, 30, 31, 30, 31, 31, 30, 31, 30, 31>>[m + 1]

cleonos_time_days_in_month(y, m) ==
    IF m = 1 /\ cleonos_time_is_leap(y) THEN 29 ELSE <<31, 28, 31, 30, 31, 30, 31, 31, 30, 31, 30, 31>>[m + 1]

RECURSIVE YearLoop(_, _), MonthLoop(_, _, _), SumYears(_, _), SumMonths(_, _)
YearLoop(y, days) ==
    IF days >= cleonos_time_days_in_year(y) THEN YearLoop(y + 1, days - cleonos_time_days_in_year(y))
    ELSE IF days < 0 THEN YearLoop(y - 1, days + cleonos_time_days_in_year(y - 1))
    ELSE <<y, days>>
MonthLoop(y, m, days) ==
    IF m = 12 \/ days < cleonos_time_days_in_month(y, m) THEN <<m, days>>
    ELSE MonthLoop(y, m + 1, days - cleonos_time_days_in_month(y, m))

DateOf(y, m, days) == [year |-> y[1], yday |-> y[2], mon |-> m[1], mday |-> m[2] + 1, wday |-> (days + 4) % 7]
InYear(y, days) == DateOf(y, MonthLoop(y[1], 0, y[2]), days)
gmtime_r(days) == InYear(YearLoop(1970, days), days)

\* mktime counts up from 1970: a year before it counts as 1970.
SumYears(y, upTo) == IF y >= upTo THEN 0 ELSE cleonos_time_days_in_year(y) + SumYears(y + 1, upTo)
SumMonths(y, m) == IF m = 0 THEN 0 ELSE SumMonths(y, m - 1) + cleonos_time_days_in_month(y, m - 1)
mktime(tm) == SumYears(1970, tm.year) + SumMonths(tm.year, tm.mon) + tm.mday - 1

-----------------------------------------------------------------------------
LibInit == libText = <<>> /\ libDay \in LibDays

\* The inputs: a text grows, a day passes.
LibType(c) == Len(libText) < LibMax /\ libText' = Append(libText, c) /\ UNCHANGED libDay
LibTomorrow == libText = <<>> /\ libDay + 1 \in LibDays /\ libDay' = libDay + 1 /\ UNCHANGED libText

LibNext == LibTomorrow \/ \E c \in LibChars : libDay = 0 /\ LibType(c)

Saturates(x) ==
    LET exact == FoldLeft(LAMBDA v, c : v * x.base + clib_digit_value(c), 0, x.digits)
        u == Lesser(exact, ULONG_MAX)
    IN  /\ SignedOf(x) = IF x.negative THEN -Lesser(exact, LONG_MAX + 1) ELSE Lesser(exact, LONG_MAX)
        /\ UnsignedOf(x) = IF x.negative /\ u # 0 THEN ULONG_MAX + 1 - u ELSE u

\* Reading a number, in every prefix and base, although no sum is ever computed
\* past the limit: strtol gives the value the digits have, or the limit of its
\* sign when it does not fit.  strtoul gives the value, or the largest one when
\* it does not fit; a minus sign negates either modulo ULONG_MAX + 1, so that a
\* negative number too large to fit gives 1 (libc_stdlib.c:217), where the C
\* language asks for the largest.
NumbersSaturate == \A base \in {0, 2, 10, 16} : Saturates(Parsed(libText, base))

\* The text of a %d gives its value again, also in a field of six, and what
\* snprintf keeps of it is a prefix that leaves room for the NUL.
ReadsBack(v, text, width) ==
    /\ strtol(text, 10) = v /\ Len(text) >= width
    /\ \A left \in BOOLEAN : strtol(clio_emit_with_width(text, left, 6), 10) = v
KeepsPrefix(all, out, capacity) ==
    out.count = Len(all) /\ out.kept = SubSeq(all, 1, Lesser(capacity - 1, Len(all)))
FieldsReadBack(v, u) ==
    \A left, zero \in BOOLEAN, width \in {0, 4}, precision \in {-1, 1, 3} :
        /\ ReadsBack(v, FormatD(v, left, zero, width, precision), width)
        /\ strtoul(FormatU(u, 16, left, zero, width, precision), 16) = u

\* What printf writes scanf-like code reads back: under every combination of
\* flags, width and precision %d is a text strtol, and %x one strtoul, gives the
\* value of again, and snprintf keeps a prefix that leaves room for the NUL and
\* counts the whole.
FormatRoundTrip ==
    /\ FieldsReadBack(strtol(libText, 10), strtoul(libText, 16))
    /\ \A capacity \in {1, 2, 4}, v \in {7, -7} :
          KeepsPrefix(FormatD(v, FALSE, TRUE, 3, -1) \o libText,
                   snprintf(<<FormatD(v, FALSE, TRUE, 3, -1), libText>>, capacity), capacity)

\* strtok_r gives the maximal runs without delimiters in order, and memmove
\* moves overlapping ranges as if through a copy.
TokensAndMoves ==
    /\ LET tokens == strtok_r(libText, {" ", "-"})
       IN  /\ FlattenSeq(tokens) = SelectSeq(libText, LAMBDA c : c \notin {" ", "-"})
           /\ \A t \in 1 .. Len(tokens) : tokens[t] # <<>> /\ strcspn(tokens[t], {" ", "-"}) = Len(tokens[t])
    /\ \A d, s \in 1 .. Len(libText) : \A n \in 0 .. Len(libText) + 1 - (IF d > s THEN d ELSE s) :
          memmove(libText, d, s, n) = [i \in 1 .. Len(libText) |-> IF d <= i /\ i < d + n THEN libText[i - d + s] ELSE libText[i]]

Follows(tm, next, day) ==
    LET last == tm.mday = cleonos_time_days_in_month(tm.year, tm.mon)
    IN  /\ day >= 0 => mktime(tm) = day
        /\ next.mday = IF last THEN 1 ELSE tm.mday + 1
        /\ 12 * next.year + next.mon = 12 * tm.year + tm.mon + IF last THEN 1 ELSE 0

\* A day since 1970 and its date are the same thing both ways, and the next
\* day has the next date: over the ends of months and years, leap or not.
CalendarRoundTrip == Follows(gmtime_r(libDay), gmtime_r(libDay + 1), libDay)
==============================================================================
