----------------------------- MODULE ShellText -----------------------------
(***************************************************************************)
(* The text helpers of the Rust user shell (util.rs, utf8.rs and the pure   *)
(* part of editing.rs and completion.rs).  A byte buffer with its length is *)
(* a sequence of bytes; positions count from 0 as in the source, so the     *)
(* byte the source calls text[p] is text[p + 1] here.                       *)
(***************************************************************************)
EXTENDS Integers, Sequences, FiniteSetsExt

Byte == 0..255

\* Smaller and larger of two integers.
Lesser(a, b)  == IF a <= b THEN a ELSE b
Greater(a, b) == IF a >= b THEN a ELSE b

NUL == 0
NEWLINE == 10
SPACE == 32
SLASH == 47
BACKSLASH == 92
TokenSeparators == {124, 62, 60}    \* | > <

\* t with the bytes from position a up to b replaced by u.
Splice(t, a, b, u) == (SubSeq(t, 1, a) \o u) \o SubSeq(t, b + 1, Len(t))

Spaces == {32, 9, 13, 10, 11, 12}
IsSpace(b) == b \in Spaces

IsPrintable(b) == (b >= 32 /\ b < 127) \/ b >= 128

\* The bytes before the first NUL: what every "c string" helper sees.
CStr(t) == SubSeq(t, 1, Max({n \in 0..Len(t) : \A i \in 1..n : t[i] # NUL}))

HasNonSpace(t) == \E i \in 1..Len(CStr(t)) : ~IsSpace(t[i])

ContainsSubstr(t, needle) ==
    \E i \in 0..(Len(t) - Len(needle)) :
        \A j \in 1..Len(needle) : t[i + j] = needle[j]

HasPrefix(t, prefix) ==
    Len(t) >= Len(prefix) /\ \A i \in 1..Len(prefix) : t[i] = prefix[i]

-----------------------------------------------------------------------------
(* UTF-8 boundaries.                                                       *)

Utf8IsCont(b) == b >= 128 /\ b <= 191

Utf8LenFromLead(b) ==
    CASE b >= 194 /\ b <= 223 -> 2
      [] b >= 224 /\ b <= 239 -> 3
      [] b >= 240 /\ b <= 244 -> 4
      [] OTHER -> 1

Utf8CharLenAt(t, pos) ==
    LET need == Utf8LenFromLead(t[pos + 1])
    IN  IF pos + need <= Len(t) /\ \A i \in 1..(need - 1) : Utf8IsCont(t[pos + i + 1])
        THEN need
        ELSE 1

\* Positions below pos where a character starts: what stepping back from pos
\* by utf8_prev_boundary visits, down to 0.
StartsBelow(t, pos) == {q \in 0..(pos - 1) : q = 0 \/ ~Utf8IsCont(t[q + 1])}

\* Mutant: one byte back, whatever it is.
Utf8PrevByte(t, pos) == IF pos = 0 THEN 0 ELSE pos - 1

Utf8PrevBoundary(t, pos) == IF pos = 0 THEN 0 ELSE Max(StartsBelow(t, pos))

Utf8NextBoundary(t, pos) ==
    IF pos >= Len(t) THEN Len(t) ELSE pos + Utf8CharLenAt(t, pos)

\* The byte sequences one key press of a character can deliver: a lead byte
\* makes collect_utf8 read on until the character is complete or a byte that
\* is no continuation arrives, whatever that byte is.
CollectUtf8(first, input) ==
    LET need == IF first < 128 THEN 1 ELSE Utf8LenFromLead(first)
        rest == UNION {[1..n -> input] : n \in 0..(need - 1)}
    IN  {<<first>> \o r : r \in {x \in rest :
            /\ \A i \in 1..(Len(x) - 1) : Utf8IsCont(x[i])
            /\ Len(x) = need - 1 \/ (Len(x) > 0 /\ ~Utf8IsCont(x[Len(x)]))}}

-----------------------------------------------------------------------------
(* Words and lines.                                                        *)

\* Steps back from pos over the characters whose first byte is in class.
BackOver(t, pos, class) ==
    Min({p \in StartsBelow(t, pos) \cup {pos} :
            \A q \in StartsBelow(t, pos) : q >= p => t[q + 1] \in class})

PrevWordBoundary(t, pos) ==
    BackOver(t, BackOver(t, pos, Spaces), Byte \ Spaces)

\* Length of the line without its trailing spaces.
TrimmedLen(t) == Max({0} \cup {p \in 1..Len(t) : ~IsSpace(t[p])})

LineNeedsContinuation(t) == TrimmedLen(t) > 0 /\ t[TrimmedLen(t)] = BACKSLASH

\* Start of the completion token that ends at pos.
TokenStart(t, pos) ==
    Min({p \in 0..pos :
            \A i \in (p + 1)..pos : ~IsSpace(t[i]) /\ t[i] \notin TokenSeparators})

\* The longest prefix every match shares.
CommonPrefix(matches) ==
    LET w == CHOOSE m \in matches : TRUE
    IN  SubSeq(w, 1, Max({n \in 0..Len(w) :
            \A m \in matches : n <= Len(m) /\ \A i \in 1..n : m[i] = w[i]}))
=============================================================================
